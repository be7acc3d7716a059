------------------------------ MODULE Migrations ------------------------------
(***************************************************************************)
(* run_migrations (src/src/db.rs:124), which every db::open runs: the      *)
(* commands without the writer lock, the watcher and the scanner with it.  *)
(* Nothing wraps the statements of a batch in a transaction, so each of    *)
(* them commits by itself, and an opener that is killed or that gets an    *)
(* error leaves what it has done so far to the next one.                   *)
(*                                                                         *)
(* The schema is the few facts the migrations look at; tables no migration *)
(* changes are one of them (base).                                         *)
(***************************************************************************)
EXTENDS Integers

CONSTANTS
  Opener,    \* processes that open index.db
  Watcher,   \* the one the service manager restarts
  MaxStops,  \* bound: openers that are killed, or stopped by an I/O error
  MaxOpens   \* bound: opens by each of the others

ASSUME WatcherAssumption == Watcher \in Opener
ASSUME BoundAssumption == MaxStops \in Nat /\ MaxOpens \in Nat

VARIABLES
  schema,   \* of index.db
  pc,       \* opener -> the statement it executes next
  alone,    \* history: no other open has overlapped this one
  had,      \* history: there was a heartbeat row when it began
  stops,    \* counts stopped openers
  opens     \* opener -> opens begun

vars == <<schema, pc, alone, had, stops, opens>>

Heartbeat == [table : {"none", "old", "new"}, row : BOOLEAN]
NoTable == [table |-> "none", row |-> FALSE]

Schema ==
  [base : BOOLEAN,         \* documents, paths, events, catalog, snapshots
   readAudit : BOOLEAN,    \* read_audit, a table of audit.db by now
   scanRuns : BOOLEAN,
   lastSeen : BOOLEAN,     \* column paths.last_seen_scan
   scanId : BOOLEAN,       \* column events.scan_id
   scanRequests : BOOLEAN,
   heartbeat : Heartbeat,  \* watcher_heartbeat; "new" allows all six states
   spare : Heartbeat]      \* watcher_heartbeat_new

Idle == {"closed", "open", "failed", "stopped"}
Statement ==
  {"base", "readAudit", "readAuditIndex",
   "probeLastSeen", "scanRuns", "alterPaths", "alterEvents",
   "ensureScanRuns", "ensureIndexes",
   "scanRequests", "heartbeat",
   "probeStates", "createSpare", "copyHeartbeat", "dropHeartbeat", "renameSpare",
   "probeReadAudit", "dropReadAudit"}

\* Every statement leaves the schema and the openers in states the others know.
TypeOK ==
  /\ schema \in Schema
  /\ pc \in [Opener -> Idle \cup Statement]
  /\ alone \in [Opener -> BOOLEAN] /\ had \in [Opener -> BOOLEAN]
  /\ stops \in 0..MaxStops
  /\ opens \in [Opener -> 0..MaxOpens]

-----------------------------------------------------------------------------
(* The databases of earlier versions: none at all, the first schema, scan  *)
(* generations, the watcher's tables with the old states of the heartbeat, *)
(* the read audit moved out, today's.                                      *)

Empty == [base |-> FALSE, readAudit |-> FALSE, scanRuns |-> FALSE, lastSeen |-> FALSE,
          scanId |-> FALSE, scanRequests |-> FALSE, heartbeat |-> NoTable,
          spare |-> NoTable]
First == [Empty EXCEPT !.base = TRUE, !.readAudit = TRUE]
Generations == [First EXCEPT !.scanRuns = TRUE, !.lastSeen = TRUE, !.scanId = TRUE]
Watched(table, row) ==
  [Generations EXCEPT !.scanRequests = TRUE, !.heartbeat = [table |-> table, row |-> row]]

Moved(table, row) == [Watched(table, row) EXCEPT !.readAudit = FALSE]

Released ==
  {Empty, First, Generations}
    \cup UNION {{Watched("old", row), Moved("old", row), Moved("new", row)} : row \in BOOLEAN}

Init ==
  /\ schema \in Released
  /\ pc = [o \in Opener |-> "closed"]
  /\ alone = [o \in Opener |-> TRUE] /\ had = [o \in Opener |-> FALSE]
  /\ stops = 0
  /\ opens = [o \in Opener |-> 0]

-----------------------------------------------------------------------------
Running(o) == pc[o] \in Statement

\* A service is restarted for ever, a command is typed a few times.
Open(o) ==
  /\ pc[o] \in {"closed", "failed", "stopped"}
  /\ o = Watcher \/ opens[o] < MaxOpens
  /\ opens' = IF o = Watcher THEN opens ELSE [opens EXCEPT ![o] = @ + 1]
  /\ pc' = [pc EXCEPT ![o] = "base"]
  /\ alone' = [x \in Opener |->
                 IF x = o THEN ~\E y \in Opener : Running(y) ELSE alone[x] /\ ~Running(x)]
  /\ had' = [had EXCEPT ![o] = schema.heartbeat.row]
  /\ UNCHANGED <<schema, stops>>

\* Statement `here` takes the schema to `result` and goes on with `there`.
Step(o, here, result, there) ==
  /\ pc[o] = here
  /\ schema' = result
  /\ pc' = [pc EXCEPT ![o] = there]
  /\ UNCHANGED <<alone, had, stops, opens>>

\* It fails when the schema is not what it needs: run_migrations returns.
StepOrFail(o, here, needs, result, there) ==
  IF needs THEN Step(o, here, result, there) ELSE Step(o, here, schema, "failed")

With(field, value) == [schema EXCEPT ![field] = value]

(* 0001.  Every open creates read_audit, which 0004 drops again. *)

Base(o) == Step(o, "base", With("base", TRUE), "readAudit")
ReadAudit(o) == Step(o, "readAudit", With("readAudit", TRUE), "readAuditIndex")
ReadAuditIndex(o) ==
  StepOrFail(o, "readAuditIndex", schema.readAudit, schema, "probeLastSeen")

(* 0002, and what is done in its place when the first column is there. *)

\* Mutant of ProbeLastSeen: no look before the ALTER.
AlterAlways(o) == Step(o, "probeLastSeen", schema, "scanRuns")

ProbeLastSeen(o) ==
  Step(o, "probeLastSeen", schema, IF schema.lastSeen THEN "ensureScanRuns" ELSE "scanRuns")

ScanRuns(o) == Step(o, "scanRuns", With("scanRuns", TRUE), "alterPaths")
AlterPaths(o) ==
  StepOrFail(o, "alterPaths", ~schema.lastSeen, With("lastSeen", TRUE), "alterEvents")

\* Mutant of AlterEvents: the second column is forgotten.
AlterPathsOnly(o) == Step(o, "alterEvents", schema, "scanRequests")

AlterEvents(o) ==
  StepOrFail(o, "alterEvents", ~schema.scanId, With("scanId", TRUE), "scanRequests")

EnsureScanRuns(o) == Step(o, "ensureScanRuns", With("scanRuns", TRUE), "ensureIndexes")
EnsureIndexes(o) == StepOrFail(o, "ensureIndexes", schema.scanId, schema, "scanRequests")

(* 0003. *)

ScanRequests(o) == Step(o, "scanRequests", With("scanRequests", TRUE), "heartbeat")

\* Mutant of CreateHeartbeat: the table is left to 0005.
CreateNothing(o) == Step(o, "heartbeat", schema, "probeStates")

CreateHeartbeat(o) ==
  Step(o, "heartbeat",
       IF schema.heartbeat.table = "none"
       THEN With("heartbeat", [table |-> "new", row |-> FALSE]) ELSE schema,
       "probeStates")

(* 0005, before 0004: the table is copied, dropped and replaced. *)

ProbeStates(o) ==
  Step(o, "probeStates", schema,
       IF schema.heartbeat.table = "new" THEN "probeReadAudit" ELSE "createSpare")

CreateSpare(o) ==
  Step(o, "createSpare",
       IF schema.spare.table = "none"
       THEN With("spare", [table |-> "new", row |-> FALSE]) ELSE schema,
       "copyHeartbeat")

\* Mutant of CopyHeartbeat: nothing is copied.
CopyNothing(o) == Step(o, "copyHeartbeat", schema, "dropHeartbeat")

CopyHeartbeat(o) ==
  StepOrFail(o, "copyHeartbeat",
             schema.heartbeat.table # "none" /\ schema.spare.table # "none",
             [schema EXCEPT !.spare.row = @ \/ schema.heartbeat.row],
             "dropHeartbeat")

DropHeartbeat(o) == Step(o, "dropHeartbeat", With("heartbeat", NoTable), "renameSpare")

RenameSpare(o) ==
  StepOrFail(o, "renameSpare",
             schema.spare.table # "none" /\ schema.heartbeat.table = "none",
             [schema EXCEPT !.heartbeat = schema.spare, !.spare = NoTable],
             "probeReadAudit")

(* 0004. *)

ProbeReadAudit(o) ==
  Step(o, "probeReadAudit", schema,
       IF schema.readAudit THEN "dropReadAudit" ELSE "open")

DropReadAudit(o) == Step(o, "dropReadAudit", With("readAudit", FALSE), "open")

Migrate(o) ==
  \/ Base(o) \/ ReadAudit(o) \/ ReadAuditIndex(o)
  \/ ProbeLastSeen(o) \/ ScanRuns(o) \/ AlterPaths(o) \/ AlterEvents(o)
  \/ EnsureScanRuns(o) \/ EnsureIndexes(o)
  \/ ScanRequests(o) \/ CreateHeartbeat(o)
  \/ ProbeStates(o) \/ CreateSpare(o) \/ CopyHeartbeat(o)
  \/ DropHeartbeat(o) \/ RenameSpare(o)
  \/ ProbeReadAudit(o) \/ DropReadAudit(o)

-----------------------------------------------------------------------------
\* An opener is killed, or its statement cannot be executed for want of disk
\* or of the database's lock.
Stop(o) ==
  /\ Running(o) /\ stops < MaxStops
  /\ pc' = [pc EXCEPT ![o] = "stopped"]
  /\ stops' = stops + 1
  /\ UNCHANGED <<schema, alone, had, opens>>

\* What the watcher does with the database once it is open: it writes its
\* heartbeat, and exits with an error when it cannot.
Beat ==
  /\ pc[Watcher] = "open"
  /\ IF schema.heartbeat.table = "none"
     THEN /\ pc' = [pc EXCEPT ![Watcher] = "closed"]
          /\ UNCHANGED schema
     ELSE /\ schema' = [schema EXCEPT !.heartbeat.row = TRUE]
          /\ UNCHANGED pc
  /\ UNCHANGED <<alone, had, stops, opens>>

\* A command is done with the database, or the watcher is stopped.
Close(o) ==
  /\ pc[o] = "open"
  /\ o = Watcher => stops < MaxStops
  /\ stops' = IF o = Watcher THEN stops + 1 ELSE stops
  /\ pc' = [pc EXCEPT ![o] = "closed"]
  /\ UNCHANGED <<schema, alone, had, opens>>

Next ==
  \/ \E o \in Opener : Open(o) \/ Migrate(o) \/ Stop(o) \/ Close(o)
  \/ Beat

Spec == Init /\ [][Next]_vars

\* A process that runs goes on, and systemd restarts the watcher.
Fairness ==
  /\ \A o \in Opener : WF_vars(Migrate(o))
  /\ WF_vars(Open(Watcher)) /\ WF_vars(Beat)

FairSpec == Spec /\ Fairness

-----------------------------------------------------------------------------
\* What the commands and the watcher need of a database they have opened.
Usable ==
  /\ schema.base /\ schema.scanRuns /\ schema.lastSeen /\ schema.scanId
  /\ schema.scanRequests
  /\ schema.heartbeat.table = "new"

\* 0002 was stopped between its two ALTERs.  The probe looks at the first
\* column only, so no later open adds the second.
Torn == schema.lastSeen /\ ~schema.scanId

\* Whatever version the database is of and wherever earlier opens were
\* stopped, an open that no other one overlaps fails on a torn schema only.
LoneOpenSucceeds ==
  \A o \in Opener : pc[o] = "failed" /\ alone[o] => Torn

Finishes(o) == Running(o) /\ pc'[o] = "open"

\* An open that no other one overlaps leaves today's schema, without the table
\* that moved to audit.db, whatever earlier opens had left half-done, and keeps
\* the heartbeat's row through the copy of its table.
LoneOpenCompletes ==
  [][\A o \in Opener : Finishes(o) /\ alone[o] =>
       /\ (Usable /\ ~schema.readAudit)'
       /\ had[o] => schema'.heartbeat.row]_vars

\* However opens overlap and are stopped, one that succeeds has both columns
\* and both tables of requests and runs, which scans and clients rely on.
OpenHasTables ==
  \A o \in Opener : pc[o] = "open" =>
    schema.scanRuns /\ schema.lastSeen /\ schema.scanId /\ schema.scanRequests

\* The watcher comes up on a usable database in the end, after any overlaps
\* and stops, unless the schema is torn.
ComesUp == <>[]Torn \/ <>[](pc[Watcher] = "open" /\ Usable)
=============================================================================
