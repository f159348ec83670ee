CONSTANTS
  OffsetStep = 2
  ObjectSorted <- MCObjectSorted
  ItemSets <- MCItemSets
  Heads <- MCHeads
  MaxItems <- MCMaxItems
  Dataset <- MCDataset
  QueryGraph <- Default
SPECIFICATION Spec
PROPERTIES
  AnswersAsAlgebra
  RewriteKeepsMeaning
  AnswersIgnoreLayout
  PrintedAgain
  ReasonHolds
