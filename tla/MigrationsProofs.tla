--------------------------- MODULE MigrationsProofs ---------------------------
(***************************************************************************)
(* Theorems about Migrations, for any set of openers and any bounds.       *)
(***************************************************************************)
EXTENDS Migrations, TLAPS

-----------------------------------------------------------------------------
(* Type correctness.                                                       *)

\* A statement moves one opener, and touches neither bounds nor history.
LEMMA Moves ==
  ASSUME TypeOK, NEW o \in Opener, Migrate(o)
  PROVE  /\ Running(o)
         /\ pc'[o] \in Idle \cup Statement
         /\ pc' = [pc EXCEPT ![o] = pc'[o]]
         /\ UNCHANGED <<alone, had, stops, opens>>
<1>1. pc \in [Opener -> Idle \cup Statement] BY DEF TypeOK
<1>2. ASSUME NEW here \in Statement, NEW result, NEW there \in Idle \cup Statement,
             Step(o, here, result, there)
      PROVE  /\ Running(o)
             /\ pc'[o] \in Idle \cup Statement
             /\ pc' = [pc EXCEPT ![o] = pc'[o]]
             /\ UNCHANGED <<alone, had, stops, opens>>
  BY <1>1, <1>2 DEF Step, Running
<1>3. CASE Base(o) BY <1>2, <1>3 DEF Base, Statement
<1>4. CASE ReadAudit(o) BY <1>2, <1>4 DEF ReadAudit, Statement
<1>5. CASE ReadAuditIndex(o) BY <1>2, <1>5 DEF ReadAuditIndex, StepOrFail, Statement, Idle
<1>6. CASE ProbeLastSeen(o) BY <1>2, <1>6 DEF ProbeLastSeen, Statement
<1>7. CASE ScanRuns(o) BY <1>2, <1>7 DEF ScanRuns, Statement
<1>8. CASE AlterPaths(o) BY <1>2, <1>8 DEF AlterPaths, StepOrFail, Statement, Idle
<1>9. CASE AlterEvents(o) BY <1>2, <1>9 DEF AlterEvents, StepOrFail, Statement, Idle
<1>10. CASE EnsureScanRuns(o) BY <1>2, <1>10 DEF EnsureScanRuns, Statement
<1>11. CASE EnsureIndexes(o) BY <1>2, <1>11 DEF EnsureIndexes, StepOrFail, Statement, Idle
<1>12. CASE ScanRequests(o) BY <1>2, <1>12 DEF ScanRequests, Statement
<1>13. CASE CreateHeartbeat(o) BY <1>2, <1>13 DEF CreateHeartbeat, Statement
<1>14. CASE ProbeStates(o) BY <1>2, <1>14 DEF ProbeStates, Statement
<1>15. CASE CreateSpare(o) BY <1>2, <1>15 DEF CreateSpare, Statement
<1>16. CASE CopyHeartbeat(o) BY <1>2, <1>16 DEF CopyHeartbeat, StepOrFail, Statement, Idle
<1>17. CASE DropHeartbeat(o) BY <1>2, <1>17 DEF DropHeartbeat, Statement
<1>18. CASE RenameSpare(o) BY <1>2, <1>18 DEF RenameSpare, StepOrFail, Statement, Idle
<1>19. CASE ProbeReadAudit(o) BY <1>2, <1>19 DEF ProbeReadAudit, Statement, Idle
<1>20. CASE DropReadAudit(o) BY <1>2, <1>20 DEF DropReadAudit, Statement, Idle
<1> QED
  BY <1>3, <1>4, <1>5, <1>6, <1>7, <1>8, <1>9, <1>10, <1>11, <1>12, <1>13, <1>14, <1>15,
     <1>16, <1>17, <1>18, <1>19, <1>20 DEF Migrate

\* A statement makes of a schema a schema.
LEMMA SchemaTyped ==
  ASSUME TypeOK, NEW o \in Opener, Migrate(o)
  PROVE  schema' \in Schema
<1>0. schema \in Schema /\ schema.heartbeat \in Heartbeat /\ schema.spare \in Heartbeat
  BY DEF TypeOK, Schema
<1>1. CASE Base(o) BY <1>0, <1>1 DEF Base, Step, With, Schema, Heartbeat
<1>2. CASE ReadAudit(o) BY <1>0, <1>2 DEF ReadAudit, Step, With, Schema, Heartbeat
<1>3. CASE ReadAuditIndex(o) BY <1>0, <1>3 DEF ReadAuditIndex, Step, StepOrFail, Schema, Heartbeat
<1>4. CASE ProbeLastSeen(o) BY <1>0, <1>4 DEF ProbeLastSeen, Step, Schema, Heartbeat
<1>5. CASE ScanRuns(o) BY <1>0, <1>5 DEF ScanRuns, Step, With, Schema, Heartbeat
<1>6. CASE AlterPaths(o) BY <1>0, <1>6 DEF AlterPaths, Step, StepOrFail, With, Schema, Heartbeat
<1>7. CASE AlterEvents(o) BY <1>0, <1>7 DEF AlterEvents, Step, StepOrFail, With, Schema, Heartbeat
<1>8. CASE EnsureScanRuns(o) BY <1>0, <1>8 DEF EnsureScanRuns, Step, With, Schema, Heartbeat
<1>9. CASE EnsureIndexes(o) BY <1>0, <1>9 DEF EnsureIndexes, Step, StepOrFail, Schema, Heartbeat
<1>10. CASE ScanRequests(o) BY <1>0, <1>10 DEF ScanRequests, Step, With, Schema, Heartbeat
<1>11. CASE CreateHeartbeat(o) BY <1>0, <1>11 DEF CreateHeartbeat, Step, With, Schema, Heartbeat
<1>12. CASE ProbeStates(o) BY <1>0, <1>12 DEF ProbeStates, Step, Schema, Heartbeat
<1>13. CASE CreateSpare(o) BY <1>0, <1>13 DEF CreateSpare, Step, With, Schema, Heartbeat
<1>14. CASE CopyHeartbeat(o) BY <1>0, <1>14 DEF CopyHeartbeat, Step, StepOrFail, Schema, Heartbeat
<1>15. CASE DropHeartbeat(o) BY <1>0, <1>15 DEF DropHeartbeat, Step, With, NoTable, Schema, Heartbeat
<1>16. CASE RenameSpare(o)
  <2>1. [schema EXCEPT !.heartbeat = schema.spare] \in Schema
    BY <1>0 DEF Schema
  <2>2. NoTable \in Heartbeat
    BY DEF NoTable, Heartbeat
  <2>3. \A z \in Schema : [z EXCEPT !.spare = NoTable] \in Schema
    BY <2>2 DEF Schema
  <2>4. schema' = [[schema EXCEPT !.heartbeat = schema.spare] EXCEPT !.spare = NoTable]
          \/ schema' = schema
    BY <1>16 DEF RenameSpare, StepOrFail, Step
  <2> QED BY <1>0, <2>1, <2>3, <2>4
<1>17. CASE ProbeReadAudit(o) BY <1>0, <1>17 DEF ProbeReadAudit, Step, Schema, Heartbeat
<1>18. CASE DropReadAudit(o) BY <1>0, <1>18 DEF DropReadAudit, Step, With, Schema, Heartbeat
<1> QED
  BY <1>1, <1>2, <1>3, <1>4, <1>5, <1>6, <1>7, <1>8, <1>9, <1>10, <1>11, <1>12, <1>13,
     <1>14, <1>15, <1>16, <1>17, <1>18 DEF Migrate

LEMMA TypeStep ==
  ASSUME TypeOK, [Next]_vars
  PROVE  TypeOK'
<1> USE BoundAssumption
<1>0. /\ schema \in Schema /\ pc \in [Opener -> Idle \cup Statement]
      /\ alone \in [Opener -> BOOLEAN] /\ had \in [Opener -> BOOLEAN]
      /\ stops \in 0..MaxStops /\ opens \in [Opener -> 0..MaxOpens]
      /\ schema.heartbeat \in Heartbeat
  BY DEF TypeOK, Schema
<1>1. ASSUME NEW o \in Opener, Open(o) PROVE TypeOK'
  <2>1. pc' \in [Opener -> Idle \cup Statement]
    BY <1>0, <1>1 DEF Open, Statement
  <2>2. alone' \in [Opener -> BOOLEAN]
    BY <1>0, <1>1 DEF Open
  <2>3. had' \in [Opener -> BOOLEAN]
    BY <1>0, <1>1 DEF Open, Heartbeat
  <2>4. opens' \in [Opener -> 0..MaxOpens]
    BY <1>0, <1>1 DEF Open
  <2> QED BY <1>0, <1>1, <2>1, <2>2, <2>3, <2>4 DEF Open, TypeOK
<1>2. ASSUME NEW o \in Opener, Migrate(o) PROVE TypeOK'
  <2>1. pc' \in [Opener -> Idle \cup Statement]
    BY <1>0, <1>2, Moves
  <2> QED BY <1>0, <1>2, <2>1, Moves, SchemaTyped DEF TypeOK
<1>3. ASSUME NEW o \in Opener, Stop(o) PROVE TypeOK'
  BY <1>0, <1>3 DEF Stop, TypeOK, Idle
<1>4. ASSUME NEW o \in Opener, Close(o) PROVE TypeOK'
  BY <1>0, <1>4 DEF Close, TypeOK, Idle
<1>5. ASSUME Beat PROVE TypeOK'
  <2>1. schema' \in Schema
    <3>1. [schema.heartbeat EXCEPT !.row = TRUE] \in Heartbeat
      BY <1>0 DEF Heartbeat
    <3>2. \A h \in Heartbeat : [schema EXCEPT !.heartbeat = h] \in Schema
      BY <1>0 DEF Schema
    <3>3. [schema EXCEPT !.heartbeat.row = TRUE]
            = [schema EXCEPT !.heartbeat = [schema.heartbeat EXCEPT !.row = TRUE]]
      OBVIOUS
    <3> QED BY <1>0, <1>5, <3>1, <3>2, <3>3 DEF Beat
  <2>2. pc' \in [Opener -> Idle \cup Statement]
    BY <1>0, <1>5 DEF Beat, Idle
  <2> QED BY <1>0, <1>5, <2>1, <2>2 DEF Beat, TypeOK
<1>6. CASE UNCHANGED vars BY <1>6 DEF vars, TypeOK
<1> QED BY <1>1, <1>2, <1>3, <1>4, <1>5, <1>6 DEF Next

\* The database starts in one of the schemas that were released.
LEMMA ReleasedSchemas ==
  ASSUME Init
  PROVE  \/ schema \in {Empty, First, Generations}
         \/ \E row \in BOOLEAN :
              schema \in {Watched("old", row), Moved("old", row), Moved("new", row)}
BY DEF Init, Released

LEMMA TypeInit ==
  ASSUME Init
  PROVE  TypeOK
<1>1. Empty \in Schema /\ First \in Schema /\ Generations \in Schema
  <2>1. Empty \in Schema BY DEF Empty, Schema, Heartbeat, NoTable
  <2>2. First \in Schema BY <2>1 DEF First, Schema
  <2> QED BY <2>1, <2>2 DEF Generations, Schema
<1>2. ASSUME NEW t \in {"old", "new"}, NEW r \in BOOLEAN
      PROVE  Watched(t, r) \in Schema /\ Moved(t, r) \in Schema
  <2>1. [table |-> t, row |-> r] \in Heartbeat BY DEF Heartbeat
  <2>2. Watched(t, r) \in Schema BY <1>1, <2>1 DEF Watched, Schema
  <2> QED BY <2>2 DEF Moved, Schema
<1>3. schema \in Schema
  BY <1>1, <1>2, ReleasedSchemas
<1> QED BY <1>3, BoundAssumption DEF Init, TypeOK, Idle

\* Type correctness (src/src/db.rs:124): every open executes statements that
\* exist and leaves a schema the next one knows.
THEOREM TypeCorrect == Spec => []TypeOK
<1>1. Init => TypeOK BY TypeInit
<1>2. TypeOK /\ [Next]_vars => TypeOK' BY TypeStep
<1> QED BY <1>1, <1>2, PTL DEF Spec

-----------------------------------------------------------------------------
(* What no overlap can undo: columns, and tables nothing drops.            *)

\* Statements executed after another: where an opener may be once it has done it.
PastRequests ==
  {"heartbeat", "probeStates", "createSpare", "copyHeartbeat", "dropHeartbeat", "renameSpare",
   "probeReadAudit", "dropReadAudit", "open"}
PastSecond == PastRequests \cup {"scanRequests"}
PastFirst == PastSecond \cup {"alterEvents", "ensureScanRuns", "ensureIndexes"}
PastRuns == PastSecond \cup {"alterPaths", "alterEvents", "ensureIndexes"}
PastBase == (Statement \ {"base"}) \cup {"open"}

Lasting ==
  /\ schema.scanId => schema.lastSeen
  /\ \A o \in Opener :
       /\ pc[o] \in PastBase => schema.base
       /\ pc[o] \in PastRuns => schema.scanRuns
       /\ pc[o] \in PastFirst => schema.lastSeen
       /\ pc[o] \in PastSecond => schema.scanId
       /\ pc[o] \in PastRequests => schema.scanRequests

\* A statement takes none of it away, and takes an opener past what it has done.
LEMMA LastingStatement ==
  ASSUME TypeOK, Lasting, NEW o \in Opener, Migrate(o)
  PROVE  /\ schema.base => schema'.base
         /\ schema.scanRuns => schema'.scanRuns
         /\ schema.lastSeen => schema'.lastSeen
         /\ schema.scanId => schema'.scanId
         /\ schema.scanRequests => schema'.scanRequests
         /\ schema'.scanId => schema'.lastSeen
         /\ pc'[o] \in PastBase => schema'.base
         /\ pc'[o] \in PastRuns => schema'.scanRuns
         /\ pc'[o] \in PastFirst => schema'.lastSeen
         /\ pc'[o] \in PastSecond => schema'.scanId
         /\ pc'[o] \in PastRequests => schema'.scanRequests
<1>0. /\ schema \in Schema
      /\ pc \in [Opener -> Idle \cup Statement]
      /\ schema.scanId => schema.lastSeen
      /\ pc[o] \in PastBase => schema.base
      /\ pc[o] \in PastRuns => schema.scanRuns
      /\ pc[o] \in PastFirst => schema.lastSeen
      /\ pc[o] \in PastSecond => schema.scanId
      /\ pc[o] \in PastRequests => schema.scanRequests
  BY DEF Lasting, TypeOK
<1>1. CASE Base(o) BY <1>0, <1>1 DEF Base, Step, With, Schema, PastBase, PastRuns, PastFirst, PastSecond, PastRequests, Statement
<1>2. CASE ReadAudit(o) BY <1>0, <1>2 DEF ReadAudit, Step, With, Schema, PastBase, PastRuns, PastFirst, PastSecond, PastRequests, Statement
<1>3. CASE ReadAuditIndex(o) BY <1>0, <1>3 DEF ReadAuditIndex, Step, StepOrFail, Schema, PastBase, PastRuns, PastFirst, PastSecond, PastRequests, Statement
<1>4. CASE ProbeLastSeen(o) BY <1>0, <1>4 DEF ProbeLastSeen, Step, Schema, PastBase, PastRuns, PastFirst, PastSecond, PastRequests, Statement
<1>5. CASE ScanRuns(o) BY <1>0, <1>5 DEF ScanRuns, Step, With, Schema, PastBase, PastRuns, PastFirst, PastSecond, PastRequests, Statement
<1>6. CASE AlterPaths(o) BY <1>0, <1>6 DEF AlterPaths, Step, StepOrFail, With, Schema, PastBase, PastRuns, PastFirst, PastSecond, PastRequests, Statement
<1>7. CASE AlterEvents(o) BY <1>0, <1>7 DEF AlterEvents, Step, StepOrFail, With, Schema, PastBase, PastRuns, PastFirst, PastSecond, PastRequests, Statement
<1>8. CASE EnsureScanRuns(o) BY <1>0, <1>8 DEF EnsureScanRuns, Step, With, Schema, PastBase, PastRuns, PastFirst, PastSecond, PastRequests, Statement
<1>9. CASE EnsureIndexes(o) BY <1>0, <1>9 DEF EnsureIndexes, Step, StepOrFail, Schema, PastBase, PastRuns, PastFirst, PastSecond, PastRequests, Statement
<1>10. CASE ScanRequests(o) BY <1>0, <1>10 DEF ScanRequests, Step, With, Schema, PastBase, PastRuns, PastFirst, PastSecond, PastRequests, Statement
<1>11. CASE CreateHeartbeat(o) BY <1>0, <1>11 DEF CreateHeartbeat, Step, With, Schema, PastBase, PastRuns, PastFirst, PastSecond, PastRequests, Statement
<1>12. CASE ProbeStates(o) BY <1>0, <1>12 DEF ProbeStates, Step, Schema, PastBase, PastRuns, PastFirst, PastSecond, PastRequests, Statement
<1>13. CASE CreateSpare(o) BY <1>0, <1>13 DEF CreateSpare, Step, With, Schema, PastBase, PastRuns, PastFirst, PastSecond, PastRequests, Statement
<1>14. CASE CopyHeartbeat(o) BY <1>0, <1>14 DEF CopyHeartbeat, Step, StepOrFail, Schema, PastBase, PastRuns, PastFirst, PastSecond, PastRequests, Statement
<1>15. CASE DropHeartbeat(o) BY <1>0, <1>15 DEF DropHeartbeat, Step, With, NoTable, Schema, PastBase, PastRuns, PastFirst, PastSecond, PastRequests, Statement
<1>16. CASE RenameSpare(o) BY <1>0, <1>16 DEF RenameSpare, Step, StepOrFail, NoTable, Schema, PastBase, PastRuns, PastFirst, PastSecond, PastRequests, Statement
<1>17. CASE ProbeReadAudit(o) BY <1>0, <1>17 DEF ProbeReadAudit, Step, Schema, PastBase, PastRuns, PastFirst, PastSecond, PastRequests, Statement
<1>18. CASE DropReadAudit(o) BY <1>0, <1>18 DEF DropReadAudit, Step, With, Schema, PastBase, PastRuns, PastFirst, PastSecond, PastRequests, Statement
<1> QED
  BY <1>1, <1>2, <1>3, <1>4, <1>5, <1>6, <1>7, <1>8, <1>9, <1>10, <1>11, <1>12, <1>13,
     <1>14, <1>15, <1>16, <1>17, <1>18 DEF Migrate

LEMMA LastingStep ==
  ASSUME TypeOK, Lasting, [Next]_vars
  PROVE  Lasting'
<1>0. pc \in [Opener -> Idle \cup Statement] BY DEF TypeOK
<1>1. ASSUME NEW o \in Opener, Open(o) PROVE Lasting'
  BY <1>0, <1>1 DEF Open, Lasting, PastBase, PastRuns, PastFirst, PastSecond, PastRequests
<1>2. ASSUME NEW o \in Opener, Migrate(o) PROVE Lasting'
  <2>1. \A x \in Opener : x # o => pc'[x] = pc[x]
    BY <1>0, <1>2, Moves
  <2>2. ASSUME NEW x \in Opener
        PROVE  /\ pc'[x] \in PastBase => schema'.base
               /\ pc'[x] \in PastRuns => schema'.scanRuns
               /\ pc'[x] \in PastFirst => schema'.lastSeen
               /\ pc'[x] \in PastSecond => schema'.scanId
               /\ pc'[x] \in PastRequests => schema'.scanRequests
    <3>1. CASE x = o BY <1>2, <3>1, LastingStatement
    <3>2. CASE x # o BY <1>2, <2>1, <3>2, LastingStatement DEF Lasting
    <3> QED BY <3>1, <3>2
  <2> QED BY <1>2, <2>2, LastingStatement DEF Lasting
<1>3. ASSUME NEW o \in Opener, Stop(o) PROVE Lasting'
  BY <1>0, <1>3 DEF Stop, Lasting, PastBase, PastRuns, PastFirst, PastSecond, PastRequests, Statement
<1>4. ASSUME NEW o \in Opener, Close(o) PROVE Lasting'
  BY <1>0, <1>4 DEF Close, Lasting, PastBase, PastRuns, PastFirst, PastSecond, PastRequests, Statement
<1>5. ASSUME Beat PROVE Lasting'
  <2>1. /\ schema'.base = schema.base /\ schema'.scanRuns = schema.scanRuns
        /\ schema'.lastSeen = schema.lastSeen /\ schema'.scanId = schema.scanId
        /\ schema'.scanRequests = schema.scanRequests
    BY <1>5 DEF Beat, TypeOK, Schema
  <2>2. \A x \in Opener : pc'[x] = pc[x] \/ pc'[x] = "closed"
    BY <1>0, <1>5 DEF Beat
  <2> QED
    BY <2>1, <2>2 DEF Lasting, PastBase, PastRuns, PastFirst, PastSecond, PastRequests, Statement
<1>6. CASE UNCHANGED vars BY <1>6 DEF vars, Lasting
<1> QED BY <1>1, <1>2, <1>3, <1>4, <1>5, <1>6 DEF Next

LEMMA LastingInit ==
  ASSUME Init
  PROVE  Lasting
<1>1. schema.scanId => schema.lastSeen
  <2>1. ~Empty.scanId /\ ~First.scanId /\ Generations.lastSeen
    BY DEF Empty, First, Generations
  <2>2. \A t, r : /\ Watched(t, r).lastSeen
                 /\ Moved(t, r).lastSeen
    BY DEF Moved, Watched, Generations, First, Empty
  <2> QED BY <2>1, <2>2, ReleasedSchemas
<1>2. \A o \in Opener : pc[o] = "closed"
  BY DEF Init
<1> QED
  BY <1>1, <1>2 DEF Lasting, PastBase, PastRuns, PastFirst, PastSecond, PastRequests, Statement

\* Any open that succeeds leaves the columns and the tables of runs and
\* requests, whatever other opens overlapped it (src/src/db.rs:133-168).
THEOREM OpenLeavesTables == Spec => []OpenHasTables
<1>1. Init => TypeOK /\ Lasting BY TypeInit, LastingInit
<1>2. TypeOK /\ Lasting /\ [Next]_vars => (TypeOK /\ Lasting)' BY TypeStep, LastingStep
<1>3. Lasting => OpenHasTables
  BY DEF Lasting, OpenHasTables, PastRuns, PastFirst, PastSecond, PastRequests
<1> QED BY <1>1, <1>2, <1>3, PTL DEF Spec

-----------------------------------------------------------------------------
(* What an opener finds that no other one overlaps.                        *)

\* The spare table is always the new one, and there are no rows without a table.
Tables ==
  /\ schema.spare.table \in {"none", "new"}
  /\ schema.spare.row => schema.spare.table # "none"
  /\ schema.heartbeat.row => schema.heartbeat.table # "none"

\* An opener that is alone has the database to itself.
Solitude ==
  \A o \in Opener : alone[o] /\ Running(o) =>
    \A x \in Opener : Running(x) => x = o

\* What the statement at `at` builds on, and what becomes of the row.
Found(at, row) ==
  /\ at = "readAuditIndex" => schema.readAudit
  /\ at \in {"scanRuns", "alterPaths"} => ~schema.lastSeen
  /\ at = "alterEvents" => ~schema.scanId
  /\ at \in {"probeStates", "createSpare", "copyHeartbeat"} => schema.heartbeat.table # "none"
  /\ at \in {"copyHeartbeat", "dropHeartbeat", "renameSpare"} => schema.spare.table # "none"
  /\ at = "renameSpare" => schema.heartbeat.table = "none"
  /\ at \in {"probeReadAudit", "dropReadAudit"} => schema.heartbeat.table = "new"
  /\ row /\ at \in Statement \ {"renameSpare"} => schema.heartbeat.row
  /\ row /\ at \in {"dropHeartbeat", "renameSpare"} => schema.spare.row

\* An opener at 0002 would mend a torn schema; there is none after an opener
\* that was alone has failed.
Failed(at) ==
  at = "failed" =>
    Torn /\ \A x \in Opener : pc[x] \notin {"scanRuns", "alterPaths", "alterEvents"}

Alone == \A o \in Opener : alone[o] => Found(pc[o], had[o]) /\ Failed(pc[o])

LoneInv == TypeOK /\ Lasting /\ Tables /\ Solitude /\ Alone

\* A row goes with its table.
LEMMA TablesStatement ==
  ASSUME TypeOK, Tables, NEW o \in Opener, Migrate(o)
  PROVE  Tables'
<1>0. schema \in Schema /\ schema.heartbeat \in Heartbeat /\ schema.spare \in Heartbeat
  BY DEF TypeOK, Schema
<1>1. CASE Base(o) BY <1>0, <1>1 DEF Base, Step, With, Tables, Schema, Heartbeat
<1>2. CASE ReadAudit(o) BY <1>0, <1>2 DEF ReadAudit, Step, With, Tables, Schema, Heartbeat
<1>3. CASE ReadAuditIndex(o) BY <1>0, <1>3 DEF ReadAuditIndex, Step, StepOrFail, Tables, Schema, Heartbeat
<1>4. CASE ProbeLastSeen(o) BY <1>0, <1>4 DEF ProbeLastSeen, Step, Tables, Schema, Heartbeat
<1>5. CASE ScanRuns(o) BY <1>0, <1>5 DEF ScanRuns, Step, With, Tables, Schema, Heartbeat
<1>6. CASE AlterPaths(o) BY <1>0, <1>6 DEF AlterPaths, Step, StepOrFail, With, Tables, Schema, Heartbeat
<1>7. CASE AlterEvents(o) BY <1>0, <1>7 DEF AlterEvents, Step, StepOrFail, With, Tables, Schema, Heartbeat
<1>8. CASE EnsureScanRuns(o) BY <1>0, <1>8 DEF EnsureScanRuns, Step, With, Tables, Schema, Heartbeat
<1>9. CASE EnsureIndexes(o) BY <1>0, <1>9 DEF EnsureIndexes, Step, StepOrFail, Tables, Schema, Heartbeat
<1>10. CASE ScanRequests(o) BY <1>0, <1>10 DEF ScanRequests, Step, With, Tables, Schema, Heartbeat
<1>11. CASE CreateHeartbeat(o) BY <1>0, <1>11 DEF CreateHeartbeat, Step, With, Tables, Schema, Heartbeat
<1>12. CASE ProbeStates(o) BY <1>0, <1>12 DEF ProbeStates, Step, Tables, Schema, Heartbeat
<1>13. CASE CreateSpare(o) BY <1>0, <1>13 DEF CreateSpare, Step, With, Tables, Schema, Heartbeat
<1>14. CASE CopyHeartbeat(o) BY <1>0, <1>14 DEF CopyHeartbeat, Step, StepOrFail, Tables, Schema, Heartbeat
<1>15. CASE DropHeartbeat(o) BY <1>0, <1>15 DEF DropHeartbeat, Step, With, NoTable, Tables, Schema, Heartbeat
<1>16. CASE RenameSpare(o)
  <2>1. schema' = schema \/ schema' = [schema EXCEPT !.heartbeat = schema.spare, !.spare = NoTable]
    BY <1>16 DEF RenameSpare, Step, StepOrFail
  <2>2. \/ schema' = schema
        \/ schema'.heartbeat = schema.spare /\ schema'.spare = NoTable
    BY <1>0, <2>1 DEF Schema
  <2> QED BY <1>0, <2>2 DEF NoTable, Tables
<1>17. CASE ProbeReadAudit(o) BY <1>0, <1>17 DEF ProbeReadAudit, Step, Tables, Schema, Heartbeat
<1>18. CASE DropReadAudit(o) BY <1>0, <1>18 DEF DropReadAudit, Step, With, Tables, Schema, Heartbeat
<1> QED
  BY <1>1, <1>2, <1>3, <1>4, <1>5, <1>6, <1>7, <1>8, <1>9, <1>10, <1>11, <1>12, <1>13,
     <1>14, <1>15, <1>16, <1>17, <1>18 DEF Migrate

\* A statement of an opener that is alone finds what it needs, or 0002 torn,
\* and leaves what the next one needs.
LEMMA AloneStatement ==
  ASSUME TypeOK, Lasting, Tables, NEW o \in Opener, Found(pc[o], had[o]), Migrate(o)
  PROVE  /\ Found(pc[o], had[o])'
         /\ pc'[o] = "failed" => Torn'
         /\ pc'[o] = "open" => /\ schema'.heartbeat.table = "new" /\ ~schema'.readAudit
                               /\ had[o] => schema'.heartbeat.row
<1>0. /\ schema \in Schema /\ schema.heartbeat \in Heartbeat /\ schema.spare \in Heartbeat
      /\ pc \in [Opener -> Idle \cup Statement]
      /\ schema.scanId => schema.lastSeen
      /\ pc[o] \in {"ensureScanRuns", "ensureIndexes"} => schema.lastSeen
  BY DEF TypeOK, Schema, Lasting, PastFirst
<1>1. CASE Base(o) BY <1>0, <1>1 DEF Base, Step, With, Found, Tables, Torn, Schema, Heartbeat, Statement
<1>2. CASE ReadAudit(o) BY <1>0, <1>2 DEF ReadAudit, Step, With, Found, Tables, Torn, Schema, Heartbeat, Statement
<1>3. CASE ReadAuditIndex(o) BY <1>0, <1>3 DEF ReadAuditIndex, Step, StepOrFail, Found, Tables, Torn, Schema, Heartbeat, Statement
<1>4. CASE ProbeLastSeen(o) BY <1>0, <1>4 DEF ProbeLastSeen, Step, Found, Tables, Torn, Schema, Heartbeat, Statement
<1>5. CASE ScanRuns(o) BY <1>0, <1>5 DEF ScanRuns, Step, With, Found, Tables, Torn, Schema, Heartbeat, Statement
<1>6. CASE AlterPaths(o) BY <1>0, <1>6 DEF AlterPaths, Step, StepOrFail, With, Found, Tables, Torn, Schema, Heartbeat, Statement
<1>7. CASE AlterEvents(o) BY <1>0, <1>7 DEF AlterEvents, Step, StepOrFail, With, Found, Tables, Torn, Schema, Heartbeat, Statement
<1>8. CASE EnsureScanRuns(o) BY <1>0, <1>8 DEF EnsureScanRuns, Step, With, Found, Tables, Torn, Schema, Heartbeat, Statement
<1>9. CASE EnsureIndexes(o) BY <1>0, <1>9 DEF EnsureIndexes, Step, StepOrFail, Found, Tables, Torn, Schema, Heartbeat, Statement
<1>10. CASE ScanRequests(o) BY <1>0, <1>10 DEF ScanRequests, Step, With, Found, Tables, Torn, Schema, Heartbeat, Statement
<1>11. CASE CreateHeartbeat(o) BY <1>0, <1>11 DEF CreateHeartbeat, Step, With, Found, Tables, Torn, Schema, Heartbeat, Statement
<1>12. CASE ProbeStates(o) BY <1>0, <1>12 DEF ProbeStates, Step, Found, Tables, Torn, Schema, Heartbeat, Statement
<1>13. CASE CreateSpare(o) BY <1>0, <1>13 DEF CreateSpare, Step, With, Found, Tables, Torn, Schema, Heartbeat, Statement
<1>14. CASE CopyHeartbeat(o) BY <1>0, <1>14 DEF CopyHeartbeat, Step, StepOrFail, Found, Tables, Torn, Schema, Heartbeat, Statement
<1>15. CASE DropHeartbeat(o) BY <1>0, <1>15 DEF DropHeartbeat, Step, With, NoTable, Found, Tables, Torn, Schema, Heartbeat, Statement
<1>16. CASE RenameSpare(o) BY <1>0, <1>16 DEF RenameSpare, Step, StepOrFail, NoTable, Found, Tables, Torn, Schema, Heartbeat, Statement
<1>17. CASE ProbeReadAudit(o) BY <1>0, <1>17 DEF ProbeReadAudit, Step, Found, Tables, Torn, Schema, Heartbeat, Statement
<1>18. CASE DropReadAudit(o) BY <1>0, <1>18 DEF DropReadAudit, Step, With, Found, Tables, Torn, Schema, Heartbeat, Statement
<1> QED
  BY <1>1, <1>2, <1>3, <1>4, <1>5, <1>6, <1>7, <1>8, <1>9, <1>10, <1>11, <1>12, <1>13,
     <1>14, <1>15, <1>16, <1>17, <1>18 DEF Migrate

\* A row goes with its table whatever happens.
LEMMA TablesStep ==
  ASSUME TypeOK, Tables, [Next]_vars
  PROVE  Tables'
<1>1. ASSUME NEW o \in Opener, Open(o) \/ Stop(o) \/ Close(o) PROVE Tables'
  BY <1>1 DEF Open, Stop, Close, Tables
<1>2. ASSUME NEW o \in Opener, Migrate(o) PROVE Tables'
  BY <1>2, TablesStatement
<1>3. ASSUME Beat PROVE Tables'
  <2>1. /\ schema'.spare = schema.spare
        /\ schema'.heartbeat.table = schema.heartbeat.table
        /\ schema'.heartbeat.row => schema.heartbeat.row \/ schema.heartbeat.table # "none"
    BY <1>3 DEF Beat, TypeOK, Schema, Heartbeat
  <2> QED BY <2>1 DEF Tables
<1>4. CASE UNCHANGED vars BY <1>4 DEF vars, Tables
<1> QED BY <1>1, <1>2, <1>3, <1>4 DEF Next

\* An open that begins takes solitude from whoever is running, and has it
\* itself when nobody is.
LEMMA SolitudeStep ==
  ASSUME TypeOK, Solitude, [Next]_vars
  PROVE  Solitude'
<1>0. /\ pc \in [Opener -> Idle \cup Statement]
      /\ alone \in [Opener -> BOOLEAN]
  BY DEF TypeOK
<1>1. ASSUME NEW o \in Opener, Open(o) PROVE Solitude'
  <2>1. \A x \in Opener : x # o => pc'[x] = pc[x]
    BY <1>0, <1>1 DEF Open
  <2>2. \A x \in Opener : x # o => (alone'[x] <=> alone[x] /\ ~Running(x))
    BY <1>0, <1>1 DEF Open
  <2>3. alone'[o] => \A x \in Opener : ~Running(x)
    BY <1>0, <1>1 DEF Open
  <2> QED BY <2>1, <2>2, <2>3 DEF Solitude, Running
<1>2. ASSUME NEW o \in Opener, Migrate(o) \/ Stop(o) \/ Close(o) PROVE Solitude'
  <2>1. alone' = alone /\ \A x \in Opener : Running(x)' => Running(x)
    BY <1>0, <1>2, Moves DEF Stop, Close, Running, Statement
  <2> QED BY <2>1 DEF Solitude
<1>3. ASSUME Beat PROVE Solitude'
  <2>1. alone' = alone /\ \A x \in Opener : Running(x)' => Running(x)
    BY <1>0, <1>3 DEF Beat, Running, Statement
  <2> QED BY <2>1 DEF Solitude
<1>4. CASE UNCHANGED vars BY <1>4 DEF vars, Solitude, Running
<1> QED BY <1>1, <1>2, <1>3, <1>4 DEF Next

\* Nothing is asked of a schema on behalf of an opener at none of these places.
LEMMA IdleFound ==
  ASSUME NEW at, at \notin Statement, NEW row
  PROVE  Found(at, row)
BY DEF Found, Statement

\* No statement leads to 0002 when its first column is there, and none but
\* 0002's takes a torn schema's missing column for missing.
LEMMA TornStays ==
  ASSUME TypeOK, Torn, NEW o \in Opener, Migrate(o),
         pc[o] \notin {"scanRuns", "alterPaths", "alterEvents"}
  PROVE  Torn' /\ pc'[o] \notin {"scanRuns", "alterPaths", "alterEvents"}
<1>0. schema \in Schema /\ pc \in [Opener -> Idle \cup Statement] BY DEF TypeOK
<1>1. CASE Base(o) BY <1>0, <1>1 DEF Base, Step, With, Torn, Schema
<1>2. CASE ReadAudit(o) BY <1>0, <1>2 DEF ReadAudit, Step, With, Torn, Schema
<1>3. CASE ReadAuditIndex(o) BY <1>0, <1>3 DEF ReadAuditIndex, Step, StepOrFail, Torn, Schema
<1>4. CASE ProbeLastSeen(o) BY <1>0, <1>4 DEF ProbeLastSeen, Step, Torn, Schema
<1>5. CASE ScanRuns(o) BY <1>0, <1>5 DEF ScanRuns, Step, With, Torn, Schema
<1>6. CASE AlterPaths(o) BY <1>0, <1>6 DEF AlterPaths, Step, StepOrFail, With, Torn, Schema
<1>7. CASE AlterEvents(o) BY <1>0, <1>7 DEF AlterEvents, Step, StepOrFail, With, Torn, Schema
<1>8. CASE EnsureScanRuns(o) BY <1>0, <1>8 DEF EnsureScanRuns, Step, With, Torn, Schema
<1>9. CASE EnsureIndexes(o) BY <1>0, <1>9 DEF EnsureIndexes, Step, StepOrFail, Torn, Schema
<1>10. CASE ScanRequests(o) BY <1>0, <1>10 DEF ScanRequests, Step, With, Torn, Schema
<1>11. CASE CreateHeartbeat(o) BY <1>0, <1>11 DEF CreateHeartbeat, Step, With, Torn, Schema
<1>12. CASE ProbeStates(o) BY <1>0, <1>12 DEF ProbeStates, Step, Torn, Schema
<1>13. CASE CreateSpare(o) BY <1>0, <1>13 DEF CreateSpare, Step, With, Torn, Schema
<1>14. CASE CopyHeartbeat(o) BY <1>0, <1>14 DEF CopyHeartbeat, Step, StepOrFail, Torn, Schema
<1>15. CASE DropHeartbeat(o) BY <1>0, <1>15 DEF DropHeartbeat, Step, With, Torn, Schema
<1>16. CASE RenameSpare(o) BY <1>0, <1>16 DEF RenameSpare, Step, StepOrFail, Torn, Schema
<1>17. CASE ProbeReadAudit(o) BY <1>0, <1>17 DEF ProbeReadAudit, Step, Torn, Schema
<1>18. CASE DropReadAudit(o) BY <1>0, <1>18 DEF DropReadAudit, Step, With, Torn, Schema
<1> QED
  BY <1>1, <1>2, <1>3, <1>4, <1>5, <1>6, <1>7, <1>8, <1>9, <1>10, <1>11, <1>12, <1>13,
     <1>14, <1>15, <1>16, <1>17, <1>18 DEF Migrate

\* What an opener found stays, and so does a torn schema after its failure.
LEMMA AloneStep ==
  ASSUME LoneInv, [Next]_vars
  PROVE  Alone'
<1>0. /\ pc \in [Opener -> Idle \cup Statement]
      /\ alone \in [Opener -> BOOLEAN] /\ had \in [Opener -> BOOLEAN]
      /\ Alone
  BY DEF LoneInv, TypeOK
<1>1. ASSUME NEW o \in Opener, Open(o) PROVE Alone'
  <2>1. pc'[o] = "base" /\ had'[o] = schema.heartbeat.row /\ schema' = schema
    BY <1>0, <1>1 DEF Open
  <2>2. \A x \in Opener : x # o => /\ pc'[x] = pc[x] /\ had'[x] = had[x]
                                   /\ alone'[x] => alone[x]
    BY <1>0, <1>1 DEF Open
  <2>3. Found("base", schema.heartbeat.row)
    BY DEF Found
  <2>4. ASSUME NEW x \in Opener, alone'[x] PROVE Found(pc[x], had[x])' /\ Failed(pc[x])'
    <3>1. CASE x = o
      BY <2>1, <2>3, <3>1 DEF Found, Failed
    <3>2. CASE x # o
      <4>1. alone[x] /\ pc'[x] = pc[x] /\ had'[x] = had[x] BY <2>2, <2>4, <3>2
      <4>2. Found(pc[x], had[x]) /\ Failed(pc[x]) BY <1>0, <4>1 DEF Alone
      <4>3. Found(pc[x], had[x])' BY <2>1, <4>1, <4>2 DEF Found
      <4>4. \A y \in Opener : pc'[y] = pc[y] \/ pc'[y] = "base" BY <2>1, <2>2
      <4>5. Failed(pc[x])' BY <2>1, <4>1, <4>2, <4>4 DEF Failed, Torn
      <4> QED BY <4>3, <4>5
    <3> QED BY <3>1, <3>2
  <2> QED BY <2>4 DEF Alone
<1>2. ASSUME NEW o \in Opener, Migrate(o) PROVE Alone'
  <2>1. /\ Running(o) /\ alone' = alone /\ had' = had
        /\ \A x \in Opener : x # o => pc'[x] = pc[x]
        /\ TypeOK /\ Lasting /\ Tables /\ Solitude
    BY <1>0, <1>2, Moves DEF LoneInv
  <2>2. ASSUME NEW x \in Opener, alone[x] PROVE Found(pc[x], had[x])' /\ Failed(pc[x])'
    <3>1. CASE x = o
      <4>1. Found(pc[o], had[o])' /\ (pc'[o] = "failed" => Torn')
        BY <1>0, <1>2, <2>1, <2>2, <3>1, AloneStatement DEF Alone
      <4>2. \A y \in Opener : y # o => ~Running(y)
        BY <2>1, <2>2, <3>1 DEF Solitude
      <4>3. \A y \in Opener : y # o => pc'[y] \notin Statement
        BY <2>1, <4>2 DEF Running
      <4>4. pc'[o] = "failed" =>
              \A y \in Opener : pc'[y] \notin {"scanRuns", "alterPaths", "alterEvents"}
        BY <4>3 DEF Statement
      <4> QED BY <3>1, <4>1, <4>4 DEF Failed
    <3>2. CASE x # o
      <4>1. ~Running(x) /\ pc'[x] = pc[x] /\ had'[x] = had[x]
        BY <2>1, <2>2, <3>2 DEF Solitude
      <4>2. Found(pc[x], had[x])'
        <5>1. pc'[x] \notin Statement BY <4>1 DEF Running
        <5> QED BY <5>1 DEF Found, Statement
      <4>3. Failed(pc[x])'
        <5>1. SUFFICES ASSUME pc[x] = "failed"
              PROVE Torn' /\ \A y \in Opener :
                      pc'[y] \notin {"scanRuns", "alterPaths", "alterEvents"}
          BY <4>1 DEF Failed
        <5>2. Torn /\ \A y \in Opener : pc[y] \notin {"scanRuns", "alterPaths", "alterEvents"}
          BY <1>0, <2>2, <5>1 DEF Alone, Failed
        <5>3. Torn' /\ pc'[o] \notin {"scanRuns", "alterPaths", "alterEvents"}
          BY <1>2, <2>1, <5>2, TornStays
        <5> QED BY <2>1, <5>2, <5>3
      <4> QED BY <4>2, <4>3
    <3> QED BY <3>1, <3>2
  <2> QED BY <2>1, <2>2 DEF Alone
<1>3. ASSUME NEW o \in Opener, Stop(o) \/ Close(o) PROVE Alone'
  <2>1. /\ schema' = schema /\ alone' = alone /\ had' = had
        /\ pc'[o] \in {"stopped", "closed"}
        /\ \A x \in Opener : x # o => pc'[x] = pc[x]
    BY <1>0, <1>3 DEF Stop, Close
  <2>2. ASSUME NEW x \in Opener, alone[x] PROVE Found(pc[x], had[x])' /\ Failed(pc[x])'
    <3>1. CASE x = o
      BY <2>1, <3>1 DEF Found, Failed, Statement
    <3>2. CASE x # o
      <4>1. Found(pc[x], had[x]) /\ Failed(pc[x]) BY <1>0, <2>2 DEF Alone
      <4>2. \A y \in Opener : pc'[y] = pc[y] \/ pc'[y] \in {"stopped", "closed"}
        BY <2>1
      <4>3. Found(pc[x], had[x])' BY <2>1, <3>2, <4>1 DEF Found
      <4> QED BY <2>1, <3>2, <4>1, <4>2, <4>3 DEF Failed, Torn
    <3> QED BY <3>1, <3>2
  <2> QED BY <2>1, <2>2 DEF Alone
<1>4. ASSUME Beat PROVE Alone'
  <2>1. /\ alone' = alone /\ had' = had
        /\ \A x \in Opener : pc'[x] = pc[x] \/ pc'[x] = "closed"
    BY <1>0, <1>4 DEF Beat
  <2>2. /\ schema'.readAudit = schema.readAudit /\ schema'.lastSeen = schema.lastSeen
        /\ schema'.scanId = schema.scanId /\ schema'.spare = schema.spare
        /\ schema'.heartbeat.table = schema.heartbeat.table
        /\ schema.heartbeat.row => schema'.heartbeat.row
    BY <1>4 DEF Beat, LoneInv, TypeOK, Schema, Heartbeat
  <2>3. ASSUME NEW x \in Opener, alone[x] PROVE Found(pc[x], had[x])' /\ Failed(pc[x])'
    <3>1. Found(pc[x], had[x]) /\ Failed(pc[x]) BY <1>0, <2>3 DEF Alone
    <3>2. Found(pc[x], had[x])' BY <2>1, <2>2, <3>1 DEF Found, Statement
    <3> QED BY <2>1, <2>2, <3>1, <3>2 DEF Failed, Torn
  <2> QED BY <2>1, <2>3 DEF Alone
<1>5. CASE UNCHANGED vars BY <1>0, <1>5 DEF vars, Alone, Found, Failed, Torn
<1> QED BY <1>1, <1>2, <1>3, <1>4, <1>5 DEF Next

LEMMA LoneInit ==
  ASSUME Init
  PROVE  LoneInv
<1>1. Tables
  <2>1. \A z \in {Empty, First, Generations} : z.spare = NoTable /\ z.heartbeat = NoTable
    <3>1. Empty.spare = NoTable /\ Empty.heartbeat = NoTable BY DEF Empty
    <3>2. First.spare = NoTable /\ First.heartbeat = NoTable BY DEF First, Empty
    <3>3. Generations.spare = NoTable /\ Generations.heartbeat = NoTable
      BY DEF Generations, First, Empty
    <3> QED BY <3>1, <3>2, <3>3
  <2>2. \A t, r : /\ Watched(t, r).spare = NoTable /\ Moved(t, r).spare = NoTable
                 /\ Watched(t, r).heartbeat = [table |-> t, row |-> r]
                 /\ Moved(t, r).heartbeat = [table |-> t, row |-> r]
    BY DEF Moved, Watched, Generations, First, Empty
  <2>3. schema.spare = NoTable
    BY <2>1, <2>2, ReleasedSchemas
  <2>4. \/ schema.heartbeat = NoTable
        \/ \E t \in {"old", "new"}, r \in BOOLEAN : schema.heartbeat = [table |-> t, row |-> r]
    BY <2>1, <2>2, ReleasedSchemas
  <2>5. schema.spare.table = "none" /\ ~schema.spare.row
    BY <2>3 DEF NoTable
  <2>6. schema.heartbeat.row => schema.heartbeat.table # "none"
    <3>1. CASE schema.heartbeat = NoTable BY <3>1 DEF NoTable
    <3>2. ASSUME NEW t \in {"old", "new"}, NEW r \in BOOLEAN,
                 schema.heartbeat = [table |-> t, row |-> r]
          PROVE  schema.heartbeat.table # "none"
      BY <3>2
    <3> QED BY <2>4, <3>1, <3>2
  <2> QED BY <2>5, <2>6 DEF Tables
<1>2. \A o \in Opener : pc[o] = "closed" /\ "closed" \notin Statement
  BY DEF Init, Statement
<1>3. Solitude BY <1>2 DEF Solitude, Running
<1>4. Alone BY <1>2, IdleFound DEF Alone, Failed
<1> QED BY <1>1, <1>3, <1>4, TypeInit, LastingInit DEF LoneInv

LEMMA LoneStep ==
  ASSUME LoneInv, [Next]_vars
  PROVE  LoneInv'
BY TypeStep, LastingStep, TablesStep, SolitudeStep, AloneStep DEF LoneInv

\* An open that no other one overlaps fails on a torn schema only, whatever
\* version the database is of and wherever earlier opens were stopped
\* (src/src/db.rs:131-195).
THEOREM LoneOpensSucceed == Spec => []LoneOpenSucceeds
<1>1. Init => LoneInv BY LoneInit
<1>2. LoneInv /\ [Next]_vars => LoneInv' BY LoneStep
<1>3. LoneInv => LoneOpenSucceeds BY DEF LoneInv, Alone, Failed, LoneOpenSucceeds
<1> QED BY <1>1, <1>2, <1>3, PTL DEF Spec

\* What an opener that was alone leaves when it is done.
LEMMA Finish ==
  ASSUME LoneInv, [Next]_vars, NEW o \in Opener, Finishes(o), alone[o]
  PROVE  /\ (Usable /\ ~schema.readAudit)'
         /\ had[o] => schema'.heartbeat.row
<1>0. pc \in [Opener -> Idle \cup Statement] /\ Running(o) /\ pc'[o] = "open"
  BY DEF LoneInv, TypeOK, Finishes
<1>1. Migrate(o)
  <2>1. pc'[o] # pc[o] BY <1>0 DEF Running, Statement
  <2>2. ASSUME NEW x \in Opener, Open(x) \/ Stop(x) \/ Close(x) PROVE FALSE
    BY <1>0, <2>1, <2>2 DEF Open, Stop, Close
  <2>3. ~Beat BY <1>0, <2>1 DEF Beat
  <2>4. ASSUME NEW x \in Opener, x # o, Migrate(x) PROVE FALSE
    BY <1>0, <2>1, <2>4, Moves DEF LoneInv
  <2> QED BY <2>1, <2>2, <2>3, <2>4 DEF Next, vars
<1>2. /\ schema'.heartbeat.table = "new" /\ ~schema'.readAudit
      /\ had[o] => schema'.heartbeat.row
  BY <1>0, <1>1, AloneStatement DEF LoneInv, Alone
<1>3. Lasting'
  BY LoneStep DEF LoneInv
<1> QED
  BY <1>0, <1>2, <1>3
  DEF Usable, Lasting, PastBase, PastRuns, PastFirst, PastSecond, PastRequests

\* Such an open leaves today's schema (src/src/db.rs:124-198) and carries the
\* heartbeat's row over to its new table (src/migrations/0005_heartbeat_states.sql).
THEOREM LoneOpensComplete == Spec => LoneOpenCompletes
<1>1. Init => LoneInv BY LoneInit
<1>2. LoneInv /\ [Next]_vars => LoneInv' BY LoneStep
<1>3. ASSUME LoneInv, [Next]_vars
      PROVE  [\A o \in Opener : Finishes(o) /\ alone[o] =>
                /\ (Usable /\ ~schema.readAudit)'
                /\ had[o] => schema'.heartbeat.row]_vars
  BY <1>3, Finish
<1> QED BY <1>1, <1>2, <1>3, PTL DEF Spec, LoneOpenCompletes
=============================================================================
