CONSTANTS
  IriStrings <- MCIriStrings
  DayOf <- MCDayOf
  MaxLayer = 3
  HasBlankNode <- HasBlank
  Consistent <- ConstantSane
  TypeOf <- ConstMct
  ValueOf <- ConstValue
  Innermost <- BasicOf
  LubOf <- Lub
  Checked <- Validate
  ParameterType <- TypeForColumn
  Documents <- MCDocuments
  Singles <- MCSingles
  Calls <- MCCalls
  Defaults <- MCDefaults
  MaxCalls = 3
SPECIFICATION Spec
CHECK_DEADLOCK FALSE
INVARIANTS
  TriplesAsInstances
  BlanksApart
  TypesFromUse
  GraphTells
PROPERTIES
  InferenceEnds
