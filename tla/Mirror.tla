------------------------------- MODULE Mirror -------------------------------
(***************************************************************************)
(* What the batch scanner and the watcher promise of index.db: it is a     *)
(* mirror of the disk that may lag behind it and that never makes anything *)
(* up.  A content gets into it only by having been read at that path, and  *)
(* every transaction that changes what is live tells the event log so.     *)
(***************************************************************************)
CONSTANTS Path, Content, Absent

VARIABLES
  disk,     \* path -> content on disk
  staged,   \* path -> content, as the writer under way has it
  index,    \* path -> content of the live row
  log       \* path -> content, as a replay of the event log has it

vars == <<disk, staged, index, log>>

File == Content \cup {Absent}

Empty == [p \in Path |-> Absent]

Init ==
  /\ disk \in [Path -> File]
  /\ staged = Empty /\ index = Empty /\ log = Empty

\* Whatever else runs on the machine.
DiskChanges ==
  /\ disk' \in [Path -> File]
  /\ UNCHANGED <<staged, index, log>>

\* The writer reads some files, or takes them to be gone: one file, the two
\* of a rename, or a directory.
Stage ==
  /\ staged' \in [Path -> File]
  /\ \A p \in Path : staged'[p] \in {staged[p], disk[p], Absent}
  /\ UNCHANGED <<disk, index, log>>

\* The writer stops, or gives up what it read.
Discard ==
  /\ \A p \in Path : staged'[p] \in {staged[p], index[p]}
  /\ staged' \in [Path -> File]
  /\ UNCHANGED <<disk, index, log>>

\* One transaction: rows and events together.
Publish ==
  /\ index' \in [Path -> File]
  /\ \A p \in Path : index'[p] \in {index[p], staged[p], disk[p], Absent}
  /\ log' = index'
  /\ staged' \in [Path -> File]
  /\ \A p \in Path : staged'[p] \in {staged[p], index'[p]}
  /\ UNCHANGED disk

Next == DiskChanges \/ Stage \/ Discard \/ Publish

Spec == Init /\ [][Next]_vars
=============================================================================
