---------------------------- MODULE Serialization ----------------------------
(***************************************************************************)
(* Saving a model to a folder and loading it again (serialize_triples and  *)
(* deserialize_triples, with the encoders of representation/cats).  A save *)
(* removes the folders of an earlier one, then writes the metadata of the  *)
(* triples, the files of all tables in parallel, the files of the encoders *)
(* in parallel and, last, the metadata of the encoders.  Any step can fail *)
(* or be the last of its process, and leaves the files as they are.        *)
(*                                                                         *)
(* The model is locked during a save.  The contents of a table do not      *)
(* matter, only which tables a save has; the files of different saves are  *)
(* in folders with fresh names, but for the two metadata files.            *)
(***************************************************************************)
EXTENDS Naturals, FiniteSets

CONSTANTS Table,     \* graph, predicate and types of a table
          Indexed,   \* the tables that have an object sort
          Cat,       \* the categories of terms
          MaxSaves   \* bound on the saves that are started

ASSUME TableAssumption == Indexed \subseteq Table
ASSUME SavesAssumption == MaxSaves \in Nat

VARIABLES memory,     \* the tables of the model
          disk,       \* the files in the folder
          torn,       \* those of them that are not completely written
          stage,      \* where the save is
          attempts,   \* number of saves started
          saved,      \* ghost: the tables of each save
          committed   \* ghost: the last save whose last file was written

saveVars == <<memory, disk, torn, stage, attempts, saved, committed>>

Save == 1..MaxSaves
NextStage == [meta |-> "tables", tables |-> "cats", cats |-> "cats_meta", cats_meta |-> "idle"]
Writing == DOMAIN NextStage
Stage == {"idle", "remove"} \cup Writing

\* The files of a table and of the encoders, by the save, the kind and the
\* table or category; metadata files have neither.
NoPart == "none"
TableFiles(k, t) ==
  {<<k, "so", t>>, <<k, "so_index", t>>}
  \cup (IF t \in Indexed THEN {<<k, "os", t>>, <<k, "os_index", t>>} ELSE {})
Meta(k) == <<k, "meta", NoPart>>
CatsMeta(k) == <<k, "cats_meta", NoPart>>

\* The files a stage of save k writes.
FilesAt(s, k) ==
  CASE s = "meta"      -> {Meta(k)}
    [] s = "tables"    -> (UNION {TableFiles(k, t) : t \in saved[k]})
    [] s = "cats"      -> {<<k, "cat", c>> : c \in Cat}
    [] s = "cats_meta" -> {CatsMeta(k)}
    [] OTHER           -> {}
FilesOf(k) == UNION {FilesAt(s, k) : s \in Writing}

Whole == disk \ torn

\* Files of two saves at the same path.
SamePath(f, g) == f[2] = g[2] /\ f[2] \in {"meta", "cats_meta"}

SaveInit ==
  /\ memory = {}
  /\ disk = {} /\ torn = {}
  /\ stage = "idle"
  /\ attempts = 0
  /\ saved = [k \in Save |-> {}]
  /\ committed = 0

-----------------------------------------------------------------------------
(* Saving.                                                                 *)

\* Calls between saves.
Change(S) ==
  /\ stage = "idle"
  /\ memory' = S
  /\ UNCHANGED <<disk, torn, stage, attempts, saved, committed>>

\* A save begins: the files of its tables and encoders get fresh names.
Begin ==
  /\ stage = "idle"
  /\ attempts < MaxSaves
  /\ attempts' = attempts + 1
  /\ saved' = [saved EXCEPT ![attempts + 1] = memory]
  /\ stage' = "remove"
  /\ UNCHANGED <<memory, disk, torn, committed>>

\* remove_dir_all, one file at a time.  (The order of the files is that of the
\* file system; the model allows any.)
RemoveFile(f) ==
  /\ stage = "remove"
  /\ disk' = disk \ {f}
  /\ torn' = torn \ {f}
  /\ UNCHANGED <<memory, stage, attempts, saved, committed>>

\* Mutant: only the folder of the triples is removed.
RemovedTriples ==
  /\ stage = "remove"
  /\ \A f \in disk : f[2] \in {"cat", "cats_meta"}
  /\ stage' = "meta"
  /\ UNCHANGED <<memory, disk, torn, attempts, saved, committed>>

Removed ==
  /\ stage = "remove"
  /\ disk = {}
  /\ stage' = "meta"
  /\ UNCHANGED <<memory, disk, torn, attempts, saved, committed>>

\* File::create truncates a file at the same path.  The folder of the metadata of
\* the triples is made with the folder of the first table, so that a model
\* without tables cannot be saved.
Create(f) ==
  /\ f \in FilesAt(stage, attempts) \ disk
  /\ stage = "meta" => saved[attempts] # {}
  /\ disk' = {g \in disk : ~SamePath(f, g)} \cup {f}
  /\ torn' = {g \in torn : ~SamePath(f, g)} \cup {f}
  /\ UNCHANGED <<memory, stage, attempts, saved, committed>>

Complete(f) ==
  /\ f \in torn /\ f \in FilesAt(stage, attempts)
  /\ torn' = torn \ {f}
  /\ committed' = IF stage = "cats_meta" THEN attempts ELSE committed
  /\ UNCHANGED <<memory, disk, stage, attempts, saved>>

\* Mutant: the results of the parallel writes are not awaited.
AdvanceEarly ==
  /\ stage \in Writing
  /\ FilesAt(stage, attempts) \subseteq disk
  /\ stage' = NextStage[stage]
  /\ UNCHANGED <<memory, disk, torn, attempts, saved, committed>>

\* A stage ends when all of its files are written.
Advance ==
  /\ stage \in Writing
  /\ FilesAt(stage, attempts) \subseteq Whole
  /\ stage' = NextStage[stage]
  /\ UNCHANGED <<memory, disk, torn, attempts, saved, committed>>

\* An error or a panic ends the save; the process goes on.
Fail ==
  /\ stage # "idle"
  /\ stage' = "idle"
  /\ UNCHANGED <<memory, disk, torn, attempts, saved, committed>>

\* The process ends.
Crash ==
  /\ stage' = "idle"
  /\ memory' = {}
  /\ UNCHANGED <<disk, torn, attempts, saved, committed>>

-----------------------------------------------------------------------------
(* Loading.                                                                *)

\* The object sort of a table is read if its file is there.
TableReadable(k, t) ==
  /\ {<<k, "so", t>>, <<k, "so_index", t>>} \subseteq Whole
  /\ <<k, "os", t>> \in disk => {<<k, "os", t>>, <<k, "os_index", t>>} \subseteq Whole

\* deserialize_triples with triples of save j and encoders of save k: every
\* file that the metadata name has to be readable.
Loads(j, k) ==
  /\ Meta(j) \in Whole /\ CatsMeta(k) \in Whole
  /\ \A t \in saved[j] : TableReadable(j, t)
  /\ \A c \in Cat : <<k, "cat", c>> \in Whole

\* An unreadable file is an error or a panic, and there is no model.
Load ==
  /\ stage = "idle"
  /\ \E j, k \in Save : Loads(j, k) /\ memory' = saved[j]
  /\ UNCHANGED <<disk, torn, stage, attempts, saved, committed>>

SaveNext ==
  \/ \E S \in SUBSET Table : Change(S)
  \/ Begin
  \/ \E f \in disk : RemoveFile(f)
  \/ Removed
  \/ \E f \in FilesAt(stage, attempts) : Create(f) \/ Complete(f)
  \/ Advance \/ Fail \/ Crash \/ Load

SaveSpec == SaveInit /\ [][SaveNext]_saveVars

-----------------------------------------------------------------------------
(* Properties.                                                             *)

SaveTypeOK ==
  /\ memory \subseteq Table
  /\ attempts \in 0..MaxSaves
  /\ committed \in 0..attempts
  /\ saved \in [Save -> SUBSET Table]
  /\ stage \in Stage
  /\ stage # "idle" => attempts \in Save
  /\ disk \subseteq UNION {FilesOf(k) : k \in Save}
  /\ torn \subseteq disk

\* Whatever failed or crashed before, a load that succeeds has the triples and
\* the encoders of one save, the last that was committed: never a mixture,
\* never a save that was interrupted, never an older one.
LoadsLastCommitted ==
  \A j, k \in Save : Loads(j, k) => j = committed /\ k = committed

\* A save that was committed can be loaded, with all of its object sorts, until
\* the next one begins.
CommittedIsDurable ==
  committed = attempts /\ attempts \in Save =>
    /\ Loads(committed, committed)
    /\ \A t \in saved[committed] \cap Indexed : <<committed, "os", t>> \in disk
=============================================================================
