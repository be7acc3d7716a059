------------------------- MODULE ScanRequestsProofs -------------------------
(***************************************************************************)
(* Theorems about ScanRequests, for any set of clients, any bounds, and    *)
(* whether or not writes of a status may fail.                             *)
(***************************************************************************)
EXTENDS ScanRequests, SequenceTheorems, TLAPS

\* A sequence with some of its elements replaced is a sequence.
LEMMA MappedSeq ==
  ASSUME NEW S, NEW s \in Seq(S), NEW t,
         t = [i \in DOMAIN s |-> t[i]],
         \A i \in DOMAIN s : t[i] \in S
  PROVE  t \in Seq(S)
<1>1. DOMAIN s = 1..Len(s) /\ Len(s) \in Nat
  BY LenProperties
<1>2. t \in [1..Len(s) -> S]
  BY <1>1
<1> QED
  BY <1>1, <1>2, SeqDef

\* The statements on scan_runs keep the statuses the table allows.
LEMMA RunsTyped ==
  ASSUME runs \in Seq(RunStatus)
  PROVE  /\ BeginRun => runs' \in Seq(RunStatus)
         /\ FailRunningRuns => runs' \in Seq(RunStatus)
         /\ \A i : \A s \in RunStatus : runs' = [runs EXCEPT ![i] = s] => runs' \in Seq(RunStatus)
<1>1. ASSUME BeginRun PROVE runs' \in Seq(RunStatus)
  BY <1>1 DEF BeginRun, RunStatus
<1>2. \A i \in DOMAIN runs : runs[i] \in RunStatus
  BY ElementOfSeq, LenProperties
<1>3. ASSUME FailRunningRuns PROVE runs' \in Seq(RunStatus)
  <2>1. runs' = [i \in DOMAIN runs |-> runs'[i]] /\ \A i \in DOMAIN runs : runs'[i] \in RunStatus
    BY <1>2, <1>3 DEF FailRunningRuns, RunStatus, Terminal
  <2> QED BY <2>1, MappedSeq
<1>4. ASSUME NEW i, NEW s \in RunStatus, runs' = [runs EXCEPT ![i] = s]
      PROVE  runs' \in Seq(RunStatus)
  <2>1. runs' = [j \in DOMAIN runs |-> runs'[j]] /\ \A j \in DOMAIN runs : runs'[j] \in RunStatus
    BY <1>2, <1>4
  <2> QED BY <2>1, MappedSeq
<1> QED BY <1>1, <1>3, <1>4

-----------------------------------------------------------------------------
(* Type correctness.                                                       *)

LEMMA RequestTyped ==
  ASSUME req \in [Client -> Request], NEW c \in Client, NEW r \in Request
  PROVE  [req EXCEPT ![c] = r] \in [Client -> Request]
OBVIOUS

\* A new status, and a scan run, make a request of a request.
LEMMA RequestMarked ==
  ASSUME NEW r \in Request, NEW s \in {"pending", "running"} \cup Terminal, NEW n \in Nat
  PROVE  /\ [r EXCEPT !.status = s] \in Request
         /\ [r EXCEPT !.status = s, !.run = n] \in Request
BY DEF Request, Terminal

LEMMA RequestsFailed ==
  ASSUME req \in [Client -> Request], FailRunningRequests
  PROVE  req' \in [Client -> Request]
BY RequestMarked DEF FailRunningRequests, Terminal

LEMMA EnqueueTyped ==
  ASSUME req \in [Client -> Request], Len(runs) \in Nat, NEW c \in Client, Enqueue(c)
  PROVE  req' \in [Client -> Request]
<1>1. PICK s \in Second : req' = [req EXCEPT ![c] = [status |-> "pending", at |-> s, run |-> 0,
                                                    after |-> Len(runs)]]
  BY DEF Enqueue
<1>2. [status |-> "pending", at |-> s, run |-> 0, after |-> Len(runs)] \in Request
  BY ClientAssumption DEF Request
<1> QED BY <1>1, <1>2, RequestTyped

LEMMA BeatTyped ==
  ASSUME heart \in Heartbeat,
         NEW s \in {"scanning", "reconciling", "watching", "stopping"}, Beat(s)
  PROVE  heart' \in Heartbeat
BY DEF Beat, Heartbeat

LEMMA InitTyped == Init => TypeOK
<1> SUFFICES ASSUME Init PROVE TypeOK
  OBVIOUS
<1>1. runs \in Seq(RunStatus)
  BY EmptySeq DEF Init
<1>2. heart \in Heartbeat /\ req \in [Client -> Request]
  BY DEF Init, Heartbeat, Request, NoRequest
<1>3. lost \in BOOLEAN
  BY DEF Init
<1> QED
  BY <1>1, <1>2, <1>3, ClientAssumption DEF Init, TypeOK, Client, Phases, ClientState

LEMMA StepTyped == TypeOK /\ [Next]_vars => TypeOK'
<1> SUFFICES ASSUME TypeOK, [Next]_vars PROVE TypeOK'
  OBVIOUS
<1> USE ClientAssumption DEF Client
<1>0. /\ runs \in Seq(RunStatus) /\ Len(runs) \in Nat
      /\ heart \in Heartbeat
      /\ req \in [Client -> Request]
      /\ "running" \in RunStatus /\ "failed" \in RunStatus /\ "complete" \in RunStatus
  BY LenProperties DEF TypeOK, RunStatus, Terminal
<1>a. /\ [state |-> "stopped", fresh |-> TRUE, alive |-> FALSE] \in Heartbeat
      /\ [state |-> heart.state, fresh |-> heart.fresh, alive |-> FALSE] \in Heartbeat
  BY <1>0 DEF Heartbeat
<1>1. CASE WatcherStart
  BY <1>1 DEF WatcherStart, TypeOK, Phases
<1>2. CASE RecoverRuns
  BY <1>2, <1>0, RunsTyped DEF RecoverRuns, TypeOK, Phases
<1>3. CASE RecoverRequests
  <2>1. req' \in [Client -> Request]
    BY <1>3, <1>0, RequestsFailed DEF RecoverRequests
  <2>2. runs' \in Seq(RunStatus) /\ heart' \in Heartbeat
    BY <1>3, <1>0, RunsTyped DEF RecoverRequests, Heartbeat
  <2>3. lost' \in BOOLEAN
    BY <1>3 DEF RecoverRequests
  <2>4. current' \in Nat /\ phase' \in Phases
    BY <1>3, <1>0 DEF RecoverRequests, Phases
  <2>5. UNCHANGED <<holder, serving, client, cliRun, stops, periodic>>
    BY <1>3 DEF RecoverRequests
  <2> QED BY <2>1, <2>2, <2>3, <2>4, <2>5 DEF TypeOK
<1>4. ASSUME NEW c \in Client, Claim(c) PROVE TypeOK'
  <2>1. req' \in [Client -> Request]
    BY <1>4, <1>0, RequestTyped, RequestMarked DEF Claim
  <2>2. runs' \in Seq(RunStatus) /\ heart' \in Heartbeat
    BY <1>4, <1>0, RunsTyped, BeatTyped DEF Claim
  <2> QED BY <1>4, <2>1, <2>2, <1>0 DEF Claim, TypeOK, Phases, Serving
<1>5. ASSUME NEW state \in {"scanning", "reconciling"}, OwnScan(state) PROVE TypeOK'
  <2>1. runs' \in Seq(RunStatus) /\ heart' \in Heartbeat
    BY <1>5, <1>0, RunsTyped, BeatTyped DEF OwnScan
  <2> QED BY <1>5, <2>1, <1>0 DEF OwnScan, TypeOK, Phases, Serving
<1>6. CASE ScanTick
  <2>1. heart' \in Heartbeat
    BY <1>6, <1>0 DEF ScanTick, Heartbeat
  <2> QED BY <1>6, <2>1 DEF ScanTick, watcherVars, TypeOK
<1>7. CASE ScanEnds
  <2>1. runs' \in Seq(RunStatus) /\ heart' \in Heartbeat
    BY <1>7, <1>0, RunsTyped, BeatTyped DEF ScanEnds
  <2> QED BY <1>7, <2>1 DEF ScanEnds, TypeOK, Phases, Serving
<1>8. CASE ScanFails
  <2>1. runs' \in Seq(RunStatus) /\ lost' \in BOOLEAN
    BY <1>8, <1>0, RunsTyped DEF ScanFails, EndStatus, TypeOK
  <2>2. UNCHANGED <<req, client, cliRun, periodic>>
    BY <1>8 DEF ScanFails
  <2>3. CASE stops' = stops + 1 /\ stops < MaxStops /\ Exit("stopped", TRUE)
    <3>1. heart' \in Heartbeat
      BY <2>3, <1>a DEF Exit
    <3>2. phase' = "down" /\ serving' = None /\ current' = 0 /\ holder' = None
      BY <2>3 DEF Exit
    <3> QED BY <2>1, <2>2, <2>3, <3>1, <3>2 DEF TypeOK, Phases
  <2>4. CASE phase' = "failing" /\ UNCHANGED <<holder, serving, current, heart, stops>>
    BY <2>1, <2>2, <2>4 DEF TypeOK, Phases, Serving
  <2>5. CASE phase' = "loop" /\ current' = 0 /\ Beat("watching") /\ UNCHANGED <<holder, serving, stops>>
    <3>1. heart' \in Heartbeat
      BY <2>5, <1>0, BeatTyped
    <3> QED BY <2>1, <2>2, <2>5, <3>1 DEF TypeOK, Phases, Serving
  <2> QED BY <1>8, <2>3, <2>4, <2>5 DEF ScanFails
<1>9. ASSUME NEW from, NEW r, Mark(from, r), serving \in Client => r \in Request
      PROVE  TypeOK'
  <2>1. req' \in [Client -> Request]
    BY <1>9, <1>0 DEF Mark
  <2>2. lost' \in BOOLEAN
    BY <1>9 DEF Mark, TypeOK
  <2>3. heart' \in Heartbeat
    BY <1>9, <1>0, BeatTyped DEF Mark
  <2>4. phase' = "loop" /\ serving' = None /\ current' = 0
        /\ UNCHANGED <<holder, runs, client, cliRun, stops, periodic>>
    BY <1>9 DEF Mark
  <2> QED BY <2>1, <2>2, <2>3, <2>4 DEF TypeOK, Phases, Serving
<1>10. CASE Complete \/ Fail
  <2>1. serving \in Client =>
          /\ [req[serving] EXCEPT !.status = "complete", !.run = current] \in Request
          /\ [req[serving] EXCEPT !.status = "failed"] \in Request
    BY <1>0, RequestMarked DEF TypeOK, Terminal
  <2> QED BY <1>10, <2>1, <1>9 DEF Complete, Fail
<1>11. CASE Drain
  BY <1>11, <1>0, BeatTyped DEF Drain, TypeOK, Phases
<1>12. CASE AbortRuns
  BY <1>12, <1>0, RunsTyped DEF AbortRuns, TypeOK, Phases
<1>13. CASE AbortRequests
  BY <1>13, <1>0, RequestsFailed DEF AbortRequests, TypeOK, Phases
<1>14. CASE Stop
  <2>1. heart' \in Heartbeat
    BY <1>14, <1>a DEF Stop, Exit
  <2>2. phase' = "down" /\ serving' = None /\ current' = 0 /\ holder' = None
    BY <1>14 DEF Stop, Exit
  <2> QED BY <1>14, <2>1, <2>2 DEF Stop, TypeOK, Phases
<1>15. CASE Crash
  <2>1. heart' \in Heartbeat
    BY <1>15, <1>a DEF Crash, Exit
  <2>2. phase' = "down" /\ serving' = None /\ current' = 0 /\ holder' = None
    BY <1>15 DEF Crash, Exit
  <2> QED BY <1>15, <2>1, <2>2 DEF Crash, TypeOK, Phases
<1>16. CASE HeartbeatAges
  <2>1. heart' \in Heartbeat
    BY <1>16, <1>0 DEF HeartbeatAges, Heartbeat
  <2> QED BY <1>16, <2>1 DEF HeartbeatAges, watcherVars, TypeOK
<1>17. ASSUME NEW c \in Cli, ProbeTake(c) \/ ProbeRelease(c) PROVE TypeOK'
  BY <1>17 DEF ProbeTake, ProbeRelease, Goes, watcherVars, TypeOK, ClientState
<1>18. ASSUME NEW c \in Cli, CliAcquire(c) PROVE TypeOK'
  <2>1. CASE holder = None
    <3>1. BeginRun /\ cliRun' = [cliRun EXCEPT ![c] = Len(runs) + 1]
      BY <1>18, <2>1 DEF CliAcquire
    <3>2. runs' \in Seq(RunStatus)
      BY <1>0, <3>1, RunsTyped
    <3>3. cliRun' \in [Client -> Nat]
      BY <1>0, <3>1 DEF TypeOK
    <3>4. holder' = c /\ Goes(c, "free", "scanning")
      BY <1>18, <2>1 DEF CliAcquire
    <3> QED
      BY <1>18, <3>2, <3>3, <3>4 DEF CliAcquire, Goes, watcherVars, TypeOK, ClientState
  <2>2. CASE holder # None
    BY <1>18, <2>2 DEF CliAcquire, Goes, watcherVars, TypeOK, ClientState
  <2> QED BY <2>1, <2>2
<1>19. ASSUME NEW c \in Cli, CliScanEnds(c) \/ CliScanStops(c) PROVE TypeOK'
  <2>1. runs' \in Seq(RunStatus)
    BY <1>19, <1>0, RunsTyped DEF CliScanEnds, CliScanStops
  <2> QED BY <1>19, <2>1 DEF CliScanEnds, CliScanStops, Goes, watcherVars, TypeOK, ClientState
<1>20. ASSUME NEW c \in Client, CliEnqueue(c) \/ ToolEnqueue(c) PROVE TypeOK'
  <2>1. req' \in [Client -> Request]
    BY <1>20, <1>0, EnqueueTyped DEF CliEnqueue, ToolEnqueue
  <2> QED BY <1>20, <2>1 DEF CliEnqueue, ToolEnqueue, Goes, watcherVars, TypeOK, ClientState
<1>21. ASSUME NEW c \in Client, ToolChecks(c) \/ Poll(c) \/ TimeOut(c) PROVE TypeOK'
  BY <1>21 DEF ToolChecks, Poll, TimeOut, Goes, watcherVars, TypeOK, ClientState
<1>22. CASE UNCHANGED vars
  BY <1>22 DEF vars, watcherVars, TypeOK
<1> QED
  BY <1>1, <1>2, <1>3, <1>4, <1>5, <1>6, <1>7, <1>8, <1>10, <1>11, <1>12,
     <1>13, <1>14, <1>15, <1>16, <1>17, <1>18, <1>19, <1>20, <1>21, <1>22
     DEF Next, Finishes, Winds, CliStep

\* Every variable keeps the type declared for it; in particular the statuses
\* written are those the CHECK constraints of the tables allow.
THEOREM TypeCorrect == Spec => []TypeOK
BY InitTyped, StepTyped, PTL DEF Spec

-----------------------------------------------------------------------------
(* One writer.  SingleWriter is not inductive: it says nothing of who holds *)
(* the lock.  LockHeld does: the lock is held by whoever is in the part of  *)
(* its code that the lock protects, a probe included, and by nobody else.   *)

LockHeld ==
  /\ Down <=> holder # WatcherProc
  /\ \A c \in Cli : client[c] \in {"probing", "scanning"} <=> holder = c

LEMMA InitLock == Init => LockHeld
BY ClientAssumption DEF Init, LockHeld, Down, Client

LEMMA StepLock == TypeOK /\ LockHeld /\ [Next]_vars => LockHeld'
<1> SUFFICES ASSUME TypeOK, LockHeld, [Next]_vars PROVE LockHeld'
  OBVIOUS
<1> USE ClientAssumption DEF Client, Down
<1>0. client \in [Cli \cup Tool -> ClientState]
  BY DEF TypeOK
<1>1. CASE WatcherStart
  BY <1>1 DEF WatcherStart, LockHeld
<1>2. CASE UNCHANGED <<holder, client>> /\ ~Down /\ ~Down'
  BY <1>2 DEF LockHeld
<1>3. CASE UNCHANGED <<holder, client, phase>>
  BY <1>3 DEF LockHeld
<1>4. CASE ~Down /\ phase' = "down" /\ holder' = None /\ UNCHANGED client
  BY <1>4 DEF LockHeld
<1>5. ASSUME NEW c \in Cli, ProbeTake(c) \/ CliAcquire(c) PROVE LockHeld'
  BY <1>0, <1>5 DEF ProbeTake, CliAcquire, Goes, watcherVars, LockHeld
<1>6. ASSUME NEW c \in Cli, ProbeRelease(c) \/ CliScanEnds(c) \/ CliScanStops(c) PROVE LockHeld'
  BY <1>0, <1>6 DEF ProbeRelease, CliScanEnds, CliScanStops, Goes, watcherVars, LockHeld
<1>7. ASSUME NEW c \in Client, NEW from, NEW to, Goes(c, from, to),
             {from, to} \cap {"probing", "scanning"} = {}, UNCHANGED <<holder, phase>>
      PROVE  LockHeld'
  BY <1>0, <1>7 DEF Goes, LockHeld
<1>8. CASE RecoverRuns \/ RecoverRequests \/ Drain \/ AbortRuns \/ AbortRequests
  BY <1>8, <1>2 DEF RecoverRuns, RecoverRequests, Drain, AbortRuns, AbortRequests
<1>9. CASE \/ \E c \in Client : Claim(c)
           \/ \E state \in {"scanning", "reconciling"} : OwnScan(state)
  BY <1>9, <1>2 DEF Claim, OwnScan
<1>10. CASE ScanTick \/ HeartbeatAges \/ UNCHANGED vars
  BY <1>10, <1>3 DEF ScanTick, HeartbeatAges, vars, watcherVars
<1>11. CASE ScanEnds
  BY <1>11, <1>2 DEF ScanEnds, Scanning
<1>12. CASE ScanFails
  BY <1>12, <1>2, <1>4 DEF ScanFails, Exit, Scanning
<1>13. CASE Complete \/ Fail
  BY <1>13, <1>2 DEF Complete, Fail, Mark
<1>14. CASE Stop \/ Crash
  BY <1>14, <1>4 DEF Stop, Crash, Exit
<1>15. ASSUME NEW c \in Client, CliEnqueue(c) \/ ToolChecks(c) \/ ToolEnqueue(c) \/ Poll(c) \/ TimeOut(c)
       PROVE  LockHeld'
  BY <1>15, <1>7 DEF CliEnqueue, ToolChecks, ToolEnqueue, Poll, TimeOut, watcherVars
<1> QED
  BY <1>1, <1>5, <1>6, <1>8, <1>9, <1>10, <1>11, <1>12, <1>13, <1>14, <1>15
     DEF Next, Finishes, Winds, CliStep

\* The lock is held by exactly the process whose code needs it.
THEOREM LockDiscipline == Spec => []LockHeld
BY InitTyped, StepTyped, InitLock, StepLock, PTL DEF Spec

\* At any time at most one process is in the part of its code that writes to
\* index.db, whatever the number of commands and however they and restarts of
\* the watcher interleave.
THEOREM OneWriter == Spec => []SingleWriter
<1>1. LockHeld => SingleWriter
  BY ClientAssumption DEF LockHeld, SingleWriter, Writers, Client
<1> QED BY <1>1, LockDiscipline, PTL

-----------------------------------------------------------------------------
(* The heartbeat.  From the moment the row is written to the end of the    *)
(* process it carries a living pid and a state other than "stopped".       *)

HeartBeats ==
  phase \in Serving \cup {"startupScan"} =>
    heart.alive /\ heart.state \notin {"none", "stopped"}

LEMMA StepHeart == TypeOK /\ HeartBeats /\ [Next]_vars => HeartBeats'
<1> SUFFICES ASSUME TypeOK, HeartBeats, [Next]_vars PROVE HeartBeats'
  OBVIOUS
<1>0. heart \in Heartbeat
  BY DEF TypeOK
<1>1. CASE UNCHANGED <<phase, heart>>
  BY <1>1 DEF HeartBeats
<1>2. CASE phase' \notin Serving \cup {"startupScan"}
  BY <1>2 DEF HeartBeats
<1>3. ASSUME phase \in Serving \cup {"startupScan"},
             \E s \in {"scanning", "reconciling", "watching", "stopping"} : Beat(s)
      PROVE  HeartBeats'
  <2>1. PICK s \in {"scanning", "reconciling", "watching", "stopping"} : Beat(s)
    BY <1>3
  <2>2. heart.alive
    BY <1>3 DEF HeartBeats
  <2>3. heart'.alive = heart.alive /\ heart'.state = s
    BY <1>0, <2>1 DEF Beat, Heartbeat
  <2> QED BY <2>2, <2>3 DEF HeartBeats
<1>4. ASSUME UNCHANGED phase, heart'.alive = heart.alive, heart'.state = heart.state
      PROVE  HeartBeats'
  BY <1>4 DEF HeartBeats
<1>5. CASE WatcherStart \/ RecoverRuns \/ Drain \/ AbortRuns \/ AbortRequests \/ Stop \/ Crash
  BY <1>5, <1>2 DEF WatcherStart, RecoverRuns, Drain, AbortRuns, AbortRequests, Stop, Crash, Exit, Serving
<1>6. CASE RecoverRequests
  BY <1>6 DEF RecoverRequests, HeartBeats
<1>7. CASE \E c \in Client : Claim(c)
  BY <1>7, <1>3 DEF Claim, Serving
<1>8. CASE \E state \in {"scanning", "reconciling"} : OwnScan(state)
  BY <1>8, <1>3 DEF OwnScan, Serving
<1>9. CASE ScanTick \/ HeartbeatAges
  <2>1. heart'.alive = heart.alive /\ heart'.state = heart.state
    BY <1>0, <1>9 DEF ScanTick, HeartbeatAges, Heartbeat
  <2>2. UNCHANGED phase
    BY <1>9 DEF ScanTick, HeartbeatAges, watcherVars
  <2> QED BY <2>1, <2>2, <1>4
<1>10. CASE ScanEnds
  <2>1. CASE phase = "requestScan"
    <3>1. phase' = "completing" /\ UNCHANGED heart
      BY <1>10, <2>1 DEF ScanEnds
    <3> QED BY <2>1, <3>1 DEF HeartBeats, Serving
  <2>2. CASE phase # "requestScan"
    BY <1>10, <2>2, <1>3 DEF ScanEnds, Scanning, Serving
  <2> QED BY <2>1, <2>2
<1>11. CASE ScanFails
  <2>1. CASE phase = "startupScan"
    BY <1>11, <2>1, <1>2 DEF ScanFails, Exit, Serving
  <2>2. CASE phase = "requestScan"
    <3>1. phase' = "failing" /\ UNCHANGED heart
      BY <1>11, <2>2 DEF ScanFails
    <3> QED BY <2>2, <3>1 DEF HeartBeats, Serving
  <2>3. CASE phase = "periodicScan"
    BY <1>11, <2>3, <1>3 DEF ScanFails, Serving
  <2> QED BY <1>11, <2>1, <2>2, <2>3 DEF ScanFails, Scanning
<1>12. CASE Complete \/ Fail
  BY <1>12, <1>3 DEF Complete, Fail, Mark, Serving
<1>13. CASE \/ \E c \in Cli : ProbeTake(c) \/ CliStep(c) \/ CliEnqueue(c)
            \/ \E c \in Tool : ToolChecks(c) \/ ToolEnqueue(c)
            \/ \E c \in Client : Poll(c) \/ TimeOut(c)
            \/ UNCHANGED vars
  BY <1>13, <1>1 DEF ProbeTake, CliStep, ProbeRelease, CliAcquire, CliScanEnds, CliScanStops,
       CliEnqueue, ToolChecks, ToolEnqueue, Poll, TimeOut, watcherVars, vars
<1> QED
  BY <1>5, <1>6, <1>7, <1>8, <1>9, <1>10, <1>11, <1>12, <1>13 DEF Next, Finishes, Winds

\* The tool never turns a client away while the watcher's loop serves
\* requests, however late the heartbeat is and whatever the watchers and
\* commands before it left in the row.
THEOREM ServingVisible == Spec => []ServingIsVisible
<1>1. Init => HeartBeats
  BY DEF Init, HeartBeats, Serving
<1>2. HeartBeats => ServingIsVisible
  BY DEF HeartBeats, ServingIsVisible, Running
<1> QED BY <1>1, <1>2, InitTyped, StepTyped, StepHeart, PTL DEF Spec

-----------------------------------------------------------------------------
(* Scan runs and requests.  What a request says of a scan is told from what *)
(* scan_runs says of it, and both tables outlive the processes that write   *)
(* them, so their invariants speak of leftovers too: what is 'running' is   *)
(* what the watcher is doing, from the end of the recovery on, unless a     *)
(* status has not been recorded since.                                      *)

\* The phases in which the watcher works for a request.
Answering == {"requestScan", "completing", "failing"}

\* The phases after the recovery, before the end.
Working == Serving \cup {"startupScan"}

RunsTold ==
  /\ phase \in Scanning => current \in DOMAIN runs /\ runs[current] = "running"
  /\ phase = "completing" => current \in DOMAIN runs /\ runs[current] = "complete"
  /\ \A c \in Cli : client[c] = "scanning" =>
       cliRun[c] \in DOMAIN runs /\ runs[cliRun[c]] = "running"
  /\ phase = "recoverRequests" => \A i \in DOMAIN runs : runs[i] # "running"
  /\ phase \in Working /\ ~lost =>
       \A i \in DOMAIN runs : runs[i] = "running" => phase \in Scanning /\ i = current

RequestsTold ==
  /\ \A c \in Client : req[c].after <= Len(runs)
  /\ \A c \in Client : client[c] \notin {"polling", "over"} => req[c].status = "none"
  /\ serving # None <=> phase \in Answering
  /\ phase \in Answering => req[serving].status = "running"
  /\ phase \in {"requestScan", "completing"} => req[serving].after < current
  /\ phase \in Working /\ ~lost =>
       \A c \in Client : req[c].status = "running" => c = serving

\* What the statements on scan_runs do to it.
LEMMA RunBegun ==
  ASSUME runs \in Seq(RunStatus), BeginRun
  PROVE  /\ DOMAIN runs' = DOMAIN runs \cup {Len(runs) + 1}
         /\ Len(runs') = Len(runs) + 1 /\ Len(runs) \in Nat
         /\ \A i \in DOMAIN runs : runs'[i] = runs[i] /\ i <= Len(runs)
         /\ runs'[Len(runs) + 1] = "running"
<1>1. Len(runs) \in Nat /\ DOMAIN runs = 1..Len(runs)
  BY LenProperties
<1>2. /\ runs' \in Seq(RunStatus) /\ Len(runs') = Len(runs) + 1
      /\ \A i \in 1..Len(runs) : runs'[i] = runs[i]
      /\ runs'[Len(runs) + 1] = "running"
  BY AppendProperties DEF BeginRun, RunStatus
<1>3. DOMAIN runs' = 1..(Len(runs) + 1)
  BY <1>2, LenProperties
<1> QED BY <1>1, <1>2, <1>3

LEMMA RunMarked ==
  ASSUME runs \in Seq(RunStatus), NEW i \in DOMAIN runs, NEW s \in RunStatus,
         runs' = [runs EXCEPT ![i] = s]
  PROVE  /\ DOMAIN runs' = DOMAIN runs /\ Len(runs') = Len(runs)
         /\ \A j \in DOMAIN runs : runs'[j] = IF j = i THEN s ELSE runs[j]
<1>1. DOMAIN runs = 1..Len(runs)
  BY LenProperties
<1> QED BY <1>1, ExceptSeq

LEMMA RunsFailed ==
  ASSUME runs \in Seq(RunStatus), FailRunningRuns
  PROVE  /\ DOMAIN runs' = DOMAIN runs /\ Len(runs') = Len(runs)
         /\ \A j \in DOMAIN runs :
              runs'[j] = IF runs[j] = "running" THEN "failed" ELSE runs[j]
<1>1. DOMAIN runs' = DOMAIN runs
      /\ \A j \in DOMAIN runs : runs'[j] = IF runs[j] = "running" THEN "failed" ELSE runs[j]
  BY DEF FailRunningRuns
<1>2. runs' \in Seq(RunStatus)
  BY RunsTyped
<1>3. Len(runs') \in Nat /\ Len(runs) \in Nat /\ 1..Len(runs') = 1..Len(runs)
  BY <1>1, <1>2, LenProperties
<1> QED BY <1>1, <1>3

LEMMA InitTold == Init => RunsTold /\ RequestsTold
<1> SUFFICES ASSUME Init PROVE RunsTold /\ RequestsTold
  OBVIOUS
<1>1. Len(runs) = 0
  BY EmptySeq DEF Init
<1>2. phase = "down" /\ serving = None /\ (\A c \in Client : client[c] = "idle")
      /\ (\A c \in Client : req[c] = NoRequest) /\ Cli \subseteq Client
  BY DEF Init, Client
<1> QED
  BY <1>1, <1>2 DEF RunsTold, RequestsTold, NoRequest, Answering, Working, Serving, Scanning

LEMMA StepRunsTold == TypeOK /\ LockHeld /\ RunsTold /\ [Next]_vars => RunsTold'
<1> SUFFICES ASSUME TypeOK, LockHeld, RunsTold, [Next]_vars PROVE RunsTold'
  OBVIOUS
<1>0. /\ runs \in Seq(RunStatus) /\ client \in [Client -> ClientState]
      /\ {"running", "failed", "complete"} \subseteq RunStatus
      /\ Cli \subseteq Client
  BY DEF TypeOK, RunStatus, Terminal, Client
<1>1. ~Down => \A c \in Cli : client[c] # "scanning"
  BY ClientAssumption DEF LockHeld, Client
<1>2. CASE UNCHANGED <<phase, current, runs, cliRun, lost, client>>
  BY <1>2 DEF RunsTold
\* Steps that make no difference to the tables.
<1>3. ASSUME ~Down, UNCHANGED <<runs, client, cliRun>>,
             phase' \notin Scanning \cup Working \cup {"completing", "recoverRequests"}
      PROVE  RunsTold'
  BY <1>1, <1>3 DEF RunsTold
<1>4. CASE WatcherStart
  BY <1>4 DEF WatcherStart, RunsTold, Working, Serving, Scanning
<1>5. CASE RecoverRuns
  <2>1. \A i \in DOMAIN runs' : runs'[i] # "running"
    BY <1>0, <1>5, RunsFailed DEF RecoverRuns
  <2>2. ~Down /\ phase' = "recoverRequests" /\ UNCHANGED client
    BY <1>5 DEF RecoverRuns, Down
  <2> QED BY <1>1, <2>1, <2>2 DEF RunsTold, Working, Serving, Scanning
\* A scan begins with nothing recorded as running, or with a status lost.
<1>6. ASSUME ~Down, BeginRun, UNCHANGED client, phase' \in Scanning,
             current' = Len(runs) + 1,
             lost' \/ \A i \in DOMAIN runs : runs[i] # "running"
      PROVE  RunsTold'
  <2>1. /\ DOMAIN runs' = DOMAIN runs \cup {Len(runs) + 1}
        /\ \A i \in DOMAIN runs : runs'[i] = runs[i]
        /\ runs'[Len(runs) + 1] = "running"
    BY <1>0, <1>6, RunBegun
  <2> QED BY <1>1, <1>6, <2>1 DEF RunsTold, Scanning
<1>7. CASE RecoverRequests
  <2>1. \A i \in DOMAIN runs : runs[i] # "running"
    BY <1>7 DEF RecoverRequests, RunsTold
  <2> QED BY <1>6, <1>7, <2>1 DEF RecoverRequests, Down, Scanning
<1>8. ASSUME phase = "loop" PROVE lost \/ \A i \in DOMAIN runs : runs[i] # "running"
  BY <1>8 DEF RunsTold, Working, Serving, Scanning
<1>9. ASSUME NEW c \in Client, Claim(c) PROVE RunsTold'
  BY <1>6, <1>8, <1>9 DEF Claim, Down, Scanning
<1>10. ASSUME NEW state, OwnScan(state) PROVE RunsTold'
  BY <1>6, <1>8, <1>10 DEF OwnScan, Down, Scanning
<1>11. CASE ScanTick \/ HeartbeatAges \/ UNCHANGED vars
  BY <1>2, <1>11 DEF ScanTick, HeartbeatAges, vars, watcherVars
\* A scan ends: it was the only one recorded as running.
<1>12. ASSUME phase \in Scanning, NEW s \in RunStatus, runs' = [runs EXCEPT ![current] = s]
       PROVE  /\ current \in DOMAIN runs' /\ runs'[current] = s
              /\ ~lost /\ s # "running" => \A i \in DOMAIN runs' : runs'[i] # "running"
  <2>1. current \in DOMAIN runs /\ runs[current] = "running"
        /\ (~lost => \A i \in DOMAIN runs : runs[i] = "running" => i = current)
    BY <1>12 DEF RunsTold, Scanning, Working, Serving
  <2> QED BY <1>0, <1>12, <2>1, RunMarked
<1>13. CASE ScanEnds
  <2>1. /\ phase \in Scanning /\ runs' = [runs EXCEPT ![current] = "complete"]
        /\ UNCHANGED <<client, cliRun, lost>> /\ ~Down
        /\ \/ phase' = "completing" /\ UNCHANGED current
           \/ phase' = "loop"
    BY <1>13 DEF ScanEnds, Scanning, Down
  <2>2. /\ current \in DOMAIN runs' /\ runs'[current] = "complete"
        /\ ~lost => \A i \in DOMAIN runs' : runs'[i] # "running"
    BY <1>0, <1>12, <2>1
  <2> QED BY <1>1, <2>1, <2>2 DEF RunsTold, Scanning
<1>14. CASE ScanFails
  <2>1. PICK s \in EndStatus :
          runs' = [runs EXCEPT ![current] = s] /\ lost' = (lost \/ s = "running")
    BY <1>14 DEF ScanFails
  <2>2. s \in RunStatus
    BY <1>0 DEF EndStatus
  <2>3. phase \in Scanning /\ ~Down /\ UNCHANGED <<client, cliRun>>
        /\ phase' \in {"down", "failing", "loop"}
    BY <1>14 DEF ScanFails, Exit, Scanning, Down
  <2>4. ~lost' => \A i \in DOMAIN runs' : runs'[i] # "running"
    BY <1>12, <2>1, <2>2, <2>3
  <2> QED BY <1>1, <2>3, <2>4 DEF RunsTold, Scanning
<1>15. CASE Complete \/ Fail
  <2>1. phase \in {"completing", "failing"} /\ ~Down /\ UNCHANGED <<client, cliRun, runs>>
        /\ phase' = "loop" /\ (lost => lost')
    BY <1>15 DEF Complete, Fail, Mark, Down
  <2>2. ~lost => \A i \in DOMAIN runs : runs[i] # "running"
    BY <2>1 DEF RunsTold, Working, Serving, Scanning
  <2> QED BY <1>1, <2>1, <2>2 DEF RunsTold, Scanning
<1>16. CASE Drain \/ AbortRequests \/ Stop \/ Crash
  BY <1>3, <1>16 DEF Drain, AbortRequests, Stop, Crash, Exit, Down, Scanning, Working, Serving
<1>17. CASE AbortRuns
  <2>1. ~Down /\ phase' = "abortRequests" /\ UNCHANGED client
    BY <1>17 DEF AbortRuns, Down
  <2> QED BY <1>1, <2>1 DEF RunsTold, Scanning, Working, Serving
\* A command's scan: only one process writes, and the watcher is down.
<1>18. ASSUME NEW c \in Cli, CliAcquire(c) PROVE RunsTold'
  <2>1. CASE holder = None
    <3>1. Down /\ UNCHANGED phase /\ \A d \in Cli : client[d] # "scanning"
      BY <1>18, <2>1, ClientAssumption DEF LockHeld, Client, CliAcquire, watcherVars
    <3>2. /\ \A d \in Cli : client'[d] = "scanning" => d = c
          /\ cliRun'[c] = Len(runs) + 1
      BY <1>0, <1>18, <2>1, <3>1 DEF CliAcquire, Goes, TypeOK
    <3>3. Len(runs) + 1 \in DOMAIN runs' /\ runs'[Len(runs) + 1] = "running"
      BY <1>0, <1>18, <2>1, RunBegun DEF CliAcquire
    <3> QED BY <3>1, <3>2, <3>3 DEF RunsTold, Down, Scanning, Working, Serving
  <2>2. CASE holder # None
    <3>1. UNCHANGED <<phase, current, runs, cliRun, lost>>
          /\ \A d \in Cli : client'[d] = "scanning" => client[d] = "scanning"
      BY <1>0, <1>18, <2>2 DEF CliAcquire, Goes, watcherVars
    <3> QED BY <3>1 DEF RunsTold
  <2> QED BY <2>1, <2>2
<1>19. ASSUME NEW c \in Cli, CliScanEnds(c) \/ CliScanStops(c) PROVE RunsTold'
  <2>1. client[c] = "scanning" /\ holder = c
    BY <1>0, <1>19 DEF CliScanEnds, CliScanStops, Goes, LockHeld
  <2>2. Down /\ UNCHANGED phase /\ \A d \in Cli : client'[d] # "scanning"
    BY <1>0, <1>19, <2>1, ClientAssumption
       DEF LockHeld, Client, CliScanEnds, CliScanStops, Goes, watcherVars
  <2> QED BY <2>2 DEF RunsTold, Down, Scanning, Working, Serving
<1>20. ASSUME NEW c \in Client, NEW from, NEW to, Goes(c, from, to), to # "scanning",
              UNCHANGED <<phase, current, runs, cliRun, lost>>
       PROVE  RunsTold'
  <2>1. \A d \in Cli : client'[d] = "scanning" => client[d] = "scanning"
    BY <1>0, <1>20 DEF Goes
  <2> QED BY <1>20, <2>1 DEF RunsTold
<1>21. ASSUME NEW c \in Client,
              ProbeTake(c) \/ ProbeRelease(c) \/ CliEnqueue(c) \/ ToolChecks(c)
                \/ ToolEnqueue(c) \/ Poll(c) \/ TimeOut(c)
       PROVE  RunsTold'
  <2>1. PICK from \in ClientState, to \in ClientState : Goes(c, from, to) /\ to # "scanning"
    BY <1>21 DEF ProbeTake, ProbeRelease, CliEnqueue, ToolChecks, ToolEnqueue, Poll, TimeOut, ClientState
  <2>2. UNCHANGED <<phase, current, runs, cliRun, lost>>
    BY <1>21 DEF ProbeTake, ProbeRelease, CliEnqueue, ToolChecks, ToolEnqueue, Poll, TimeOut, watcherVars
  <2> QED BY <1>20, <2>1, <2>2
<1> QED
  BY <1>4, <1>5, <1>7, <1>9, <1>10, <1>11, <1>13, <1>14, <1>15, <1>16, <1>17, <1>18, <1>19, <1>21
     DEF Next, Finishes, Winds, CliStep, Client

\* The same for requests: a status that is settled is one the watcher worked
\* for, with a scan that began after the request was made.
LEMMA StepRequestsTold ==
  TypeOK /\ RunsTold /\ RequestsTold /\ [Next]_vars => RequestsTold'
<1> SUFFICES ASSUME TypeOK, RunsTold, RequestsTold, [Next]_vars PROVE RequestsTold'
  OBVIOUS
<1>0. /\ runs \in Seq(RunStatus) /\ Len(runs) \in Nat /\ current \in Nat
      /\ {"running", "failed", "complete"} \subseteq RunStatus
      /\ client \in [Client -> ClientState] /\ req \in [Client -> Request]
      /\ serving \in Client \cup {None} /\ None \notin Client
      /\ Cli \subseteq Client /\ Tool \subseteq Client
      /\ \A c \in Client : req[c].after \in Nat
  BY LenProperties, ClientAssumption DEF TypeOK, RunStatus, Terminal, Client, Request
\* Every statement on scan_runs adds a run or leaves as many as there are.
<1>1. /\ UNCHANGED runs \/ FailRunningRuns => Len(runs') = Len(runs)
      /\ BeginRun => Len(runs') = Len(runs) + 1
  BY <1>0, RunBegun, RunsFailed
<1>2. ASSUME NEW i \in DOMAIN runs, NEW s \in RunStatus, runs' = [runs EXCEPT ![i] = s]
      PROVE  Len(runs') = Len(runs)
  BY <1>0, <1>2, RunMarked
<1> DEFINE Grown == Len(runs') \in {Len(runs), Len(runs) + 1}
<1>3. ASSUME Grown, UNCHANGED <<req, client, serving, current, lost, phase>>
      PROVE  RequestsTold'
  BY <1>0, <1>3 DEF RequestsTold
<1>4. ASSUME Grown, UNCHANGED <<req, client>>, serving' = None,
             phase' \notin Answering \cup Working
      PROVE  RequestsTold'
  BY <1>0, <1>4 DEF RequestsTold, Answering
<1>5. CASE WatcherStart
  BY <1>1, <1>4, <1>5 DEF WatcherStart, Down, RequestsTold, Answering, Working, Serving
<1>6. CASE RecoverRuns
  <2>1. serving' = None /\ phase' \notin Answering \cup Working /\ UNCHANGED <<req, client>>
    BY <1>6 DEF RecoverRuns, RequestsTold, Answering, Working, Serving
  <2> QED BY <1>1, <1>4, <1>6, <2>1 DEF RecoverRuns
\* The recovery of requests keeps everything of them but their status.
<1>7. ASSUME FailRunningRequests
      PROVE  /\ \A c \in Client : /\ req'[c].after = req[c].after
                                  /\ req'[c].status # "running"
                                  /\ req[c].status = "none" => req'[c].status = "none"
  BY <1>0, <1>7 DEF FailRunningRequests, Request
<1>8. CASE RecoverRequests
  <2>1. serving' = None /\ phase' = "startupScan" /\ Len(runs') = Len(runs) + 1 /\ UNCHANGED client
    BY <1>1, <1>8 DEF RecoverRequests, RequestsTold, Answering
  <2>2. FailRunningRequests
    BY <1>8 DEF RecoverRequests
  <2> QED BY <1>0, <1>7, <2>1, <2>2 DEF RequestsTold, Answering
<1>9. ASSUME NEW c \in Client, Claim(c) PROVE RequestsTold'
  <2>1. /\ phase = "loop" /\ phase' = "requestScan" /\ serving' = c /\ current' = Len(runs) + 1
        /\ Len(runs') = Len(runs) + 1 /\ UNCHANGED <<client, lost>>
        /\ req' = [req EXCEPT ![c].status = "running"] /\ req[c].status = "pending"
    BY <1>1, <1>9 DEF Claim, NextPending, Pending
  <2>2. /\ \A d \in Client : req'[d].after = req[d].after
        /\ \A d \in Client : d # c => req'[d] = req[d]
        /\ req'[c].status = "running"
    BY <1>0, <2>1 DEF Request
  <2>3. ~lost => \A d \in Client : req[d].status # "running"
    BY <1>0, <2>1 DEF RequestsTold, Working, Serving, Answering
  <2>4. \A d \in Client : req'[d].after <= Len(runs')
    BY <1>0, <2>1, <2>2 DEF RequestsTold
  <2>5. req'[serving'].after < current'
    BY <1>0, <2>1, <2>2 DEF RequestsTold
  <2>6. \A d \in Client : client'[d] \notin {"polling", "over"} => req'[d].status = "none"
    BY <2>1, <2>2 DEF RequestsTold
  <2>7. ~lost' => \A d \in Client : req'[d].status = "running" => d = serving'
    BY <2>1, <2>2, <2>3
  <2> QED BY <1>0, <2>1, <2>2, <2>4, <2>5, <2>6, <2>7 DEF RequestsTold, Answering
<1>10. ASSUME NEW state, OwnScan(state) PROVE RequestsTold'
  <2>1. /\ phase = "loop" /\ phase' = "periodicScan" /\ Len(runs') = Len(runs) + 1
        /\ UNCHANGED <<req, client, serving, lost>>
    BY <1>1, <1>10 DEF OwnScan
  <2> QED BY <1>0, <2>1 DEF RequestsTold, Working, Serving, Answering
<1>11. CASE ScanTick \/ HeartbeatAges \/ UNCHANGED vars
  BY <1>1, <1>3, <1>11 DEF ScanTick, HeartbeatAges, vars, watcherVars
\* A scan ends, and its request is still to be marked.
<1>12. ASSUME phase \in Scanning, NEW s \in RunStatus, runs' = [runs EXCEPT ![current] = s]
       PROVE  Len(runs') = Len(runs)
  BY <1>2, <1>12 DEF RunsTold
<1>13. CASE ScanEnds
  <2>1. Len(runs') = Len(runs) /\ phase \in Scanning /\ UNCHANGED <<req, client, serving, lost>>
    BY <1>0, <1>12, <1>13 DEF ScanEnds
  <2>2. CASE phase = "requestScan"
    <3>1. phase' = "completing" /\ UNCHANGED current
      BY <1>13, <2>2 DEF ScanEnds
    <3> QED BY <1>0, <2>1, <2>2, <3>1 DEF RequestsTold, Answering, Working, Serving
  <2>3. CASE phase # "requestScan"
    <3>1. phase' = "loop"
      BY <1>13, <2>3 DEF ScanEnds
    <3> QED BY <1>0, <2>1, <2>3, <3>1 DEF RequestsTold, Answering, Working, Serving, Scanning
  <2> QED BY <2>2, <2>3
<1>14. CASE ScanFails
  <2>1. PICK s \in EndStatus :
          runs' = [runs EXCEPT ![current] = s] /\ lost' = (lost \/ s = "running")
    BY <1>14 DEF ScanFails
  <2>2. /\ Len(runs') = Len(runs) /\ phase \in Scanning /\ UNCHANGED <<req, client>>
        /\ lost => lost'
    BY <1>0, <1>12, <1>14, <2>1 DEF ScanFails, EndStatus
  <2>3. CASE phase = "startupScan"
    <3>1. phase' = "down" /\ serving' = None
      BY <1>14, <2>3 DEF ScanFails, Exit
    <3> QED BY <1>4, <2>2, <3>1 DEF Answering, Working, Serving
  <2>4. CASE phase = "requestScan"
    <3>1. phase' = "failing" /\ UNCHANGED serving
      BY <1>14, <2>4 DEF ScanFails
    <3> QED BY <1>0, <2>2, <2>4, <3>1 DEF RequestsTold, Answering, Working, Serving
  <2>5. CASE phase = "periodicScan"
    <3>1. phase' = "loop" /\ UNCHANGED serving
      BY <1>14, <2>5 DEF ScanFails
    <3> QED BY <1>0, <2>2, <2>5, <3>1 DEF RequestsTold, Answering, Working, Serving
  <2> QED BY <2>2, <2>3, <2>4, <2>5 DEF Scanning
\* The mark: with the request that was served no other is running.
<1>15. ASSUME NEW from \in {"completing", "failing"}, NEW r, Mark(from, r),
              r.after = req[serving].after, r.status \in Terminal
       PROVE  RequestsTold'
  <2>1. /\ phase = from /\ phase' = "loop" /\ serving' = None /\ UNCHANGED <<runs, client>>
        /\ lost => lost'
        /\ \/ req' = [req EXCEPT ![serving] = r]
           \/ lost' /\ UNCHANGED req
    BY <1>15 DEF Mark
  <2>2. serving \in Client /\ req[serving].status = "running"
    BY <1>0, <2>1 DEF RequestsTold, Answering
  <2>3. CASE req' = [req EXCEPT ![serving] = r]
    <3>1. \A c \in Client : req'[c] = IF c = serving THEN r ELSE req[c]
      BY <1>0, <2>3
    <3>2. ~lost => \A c \in Client : req[c].status = "running" => c = serving
      BY <2>1 DEF RequestsTold, Working, Serving
    <3>3. client[serving] \in {"polling", "over"}
      BY <2>2 DEF RequestsTold
    <3> QED BY <1>0, <1>15, <2>1, <3>1, <3>2, <3>3 DEF RequestsTold, Answering, Terminal
  <2>4. CASE lost' /\ UNCHANGED req
    BY <1>0, <2>1, <2>4 DEF RequestsTold, Answering
  <2> QED BY <2>1, <2>3, <2>4
<1>16. CASE Complete \/ Fail
  <2>1. serving \in Client
    BY <1>0, <1>16 DEF Complete, Fail, Mark, RequestsTold, Answering
  <2>2. /\ [req[serving] EXCEPT !.status = "complete", !.run = current].after = req[serving].after
        /\ [req[serving] EXCEPT !.status = "complete", !.run = current].status = "complete"
        /\ [req[serving] EXCEPT !.status = "failed"].after = req[serving].after
        /\ [req[serving] EXCEPT !.status = "failed"].status = "failed"
    BY <1>0, <2>1 DEF Request
  <2> QED BY <1>15, <1>16, <2>2 DEF Complete, Fail, Terminal
<1>17. CASE Drain
  <2>1. phase = "loop" /\ phase' = "draining" /\ UNCHANGED <<req, client, serving, runs>>
    BY <1>17 DEF Drain
  <2> QED BY <1>1, <1>4, <2>1 DEF RequestsTold, Answering, Working, Serving
<1>18. CASE AbortRuns
  <2>1. phase = "draining" /\ phase' = "abortRequests" /\ UNCHANGED <<req, client, serving>>
        /\ Len(runs') = Len(runs)
    BY <1>1, <1>18 DEF AbortRuns
  <2> QED BY <1>4, <2>1 DEF RequestsTold, Answering, Working, Serving
<1>19. CASE AbortRequests
  <2>1. phase = "abortRequests" /\ phase' = "stopping" /\ UNCHANGED <<client, serving, runs>>
        /\ FailRunningRequests
    BY <1>19 DEF AbortRequests
  <2> QED BY <1>0, <1>7, <2>1 DEF RequestsTold, Answering, Working, Serving
<1>20. CASE Stop \/ Crash
  <2>1. phase' = "down" /\ serving' = None /\ UNCHANGED <<req, client, runs>>
    BY <1>20 DEF Stop, Crash, Exit
  <2> QED BY <1>1, <1>4, <2>1 DEF Answering, Working, Serving
\* A client takes a step that leaves the requests alone ...
<1>21. ASSUME NEW c \in Client, NEW from, NEW to, Goes(c, from, to),
              to \in {"polling", "over"} \/ from \notin {"polling", "over"},
              Grown, UNCHANGED <<phase, serving, current, req, lost>>
       PROVE  RequestsTold'
  <2>1. \A d \in Client : client'[d] \notin {"polling", "over"} => client[d] \notin {"polling", "over"}
    BY <1>0, <1>21 DEF Goes
  <2> QED BY <1>0, <1>21, <2>1 DEF RequestsTold
<1>22. ASSUME NEW c \in Client,
              ProbeTake(c) \/ ProbeRelease(c) \/ ToolChecks(c) \/ Poll(c) \/ TimeOut(c)
       PROVE  RequestsTold'
  <2>1. UNCHANGED <<phase, serving, current, runs, req, lost>>
    BY <1>22 DEF ProbeTake, ProbeRelease, ToolChecks, Poll, TimeOut, watcherVars
  <2>2. PICK from \in ClientState, to \in ClientState :
          Goes(c, from, to) /\ (to \in {"polling", "over"} \/ from \notin {"polling", "over"})
    BY <1>22 DEF ProbeTake, ProbeRelease, ToolChecks, Poll, TimeOut, ClientState
  <2> QED BY <1>1, <1>21, <2>1, <2>2
<1>23. ASSUME NEW c \in Cli, CliAcquire(c) \/ CliScanEnds(c) \/ CliScanStops(c) PROVE RequestsTold'
  <2>1. UNCHANGED <<phase, serving, current, req, lost>>
    BY <1>23 DEF CliAcquire, CliScanEnds, CliScanStops, watcherVars
  <2>2. PICK from \in ClientState, to \in ClientState :
          Goes(c, from, to) /\ from \notin {"polling", "over"}
    BY <1>23 DEF CliAcquire, CliScanEnds, CliScanStops, ClientState
  <2>3. CliAcquire(c) => Grown
    BY <1>1 DEF CliAcquire
  <2>4. CliScanEnds(c) \/ CliScanStops(c) => Grown
    <3>1. CliScanEnds(c) \/ CliScanStops(c) => cliRun[c] \in DOMAIN runs
      BY DEF CliScanEnds, CliScanStops, Goes, RunsTold
    <3> QED BY <1>0, <1>2, <3>1 DEF CliScanEnds, CliScanStops
  <2> QED BY <1>0, <1>21, <1>23, <2>1, <2>2, <2>3, <2>4
\* ... or makes its request, after every run there is.
<1>24. ASSUME NEW c \in Client, CliEnqueue(c) \/ ToolEnqueue(c) PROVE RequestsTold'
  <2>1. PICK s \in Second :
          req' = [req EXCEPT ![c] = [status |-> "pending", at |-> s, run |-> 0, after |-> Len(runs)]]
    BY <1>24 DEF CliEnqueue, ToolEnqueue, Enqueue
  <2>2. /\ UNCHANGED <<phase, serving, current, runs, lost>>
        /\ client' = [client EXCEPT ![c] = "polling"] /\ client[c] \in {"held", "fresh"}
    BY <1>24 DEF CliEnqueue, ToolEnqueue, Goes, watcherVars
  <2>3. req[c].status = "none"
    BY <2>2 DEF RequestsTold
  <2>4. /\ req'[c].status = "pending" /\ req'[c].after = Len(runs)
        /\ \A d \in Client : d # c => req'[d] = req[d] /\ client'[d] = client[d]
        /\ client'[c] = "polling"
    BY <1>0, <2>1, <2>2
  <2>5. phase \in Answering => serving # c
    BY <2>3 DEF RequestsTold
  <2> QED BY <1>0, <2>2, <2>4, <2>5 DEF RequestsTold, Answering
<1> QED
  BY <1>5, <1>6, <1>8, <1>9, <1>10, <1>11, <1>13, <1>14, <1>16, <1>17, <1>18, <1>19, <1>20,
     <1>22, <1>23, <1>24, <1>0 DEF Next, Finishes, Winds, CliStep

-----------------------------------------------------------------------------
\* A status, once settled, is kept, by every step of every process.
StatusesKept ==
  /\ \A i \in DOMAIN runs : i \in DOMAIN runs'
       /\ (runs[i] \in Terminal => runs'[i] = runs[i])
  /\ \A c \in Client :
       /\ req[c].status \in Terminal => req'[c] = req[c]
       /\ req[c].status = "running" => req'[c].status \in {"running"} \cup Terminal

\* A statement on scan_runs: none, a new run, the recovery, or the end of a run
\* that was running.
LEMMA StepRunsKept ==
  ASSUME TypeOK, LockHeld, RunsTold, [Next]_vars
  PROVE  \/ UNCHANGED runs \/ BeginRun \/ FailRunningRuns
         \/ \E i \in DOMAIN runs : \E s \in RunStatus :
              runs[i] = "running" /\ runs' = [runs EXCEPT ![i] = s]
<1> DEFINE Ended == \E i \in DOMAIN runs : \E s \in RunStatus :
                      runs[i] = "running" /\ runs' = [runs EXCEPT ![i] = s]
<1>1. {"running", "failed", "complete"} \subseteq RunStatus
  BY DEF RunStatus, Terminal
<1>2. CASE ScanEnds \/ ScanFails
  <2>1. current \in DOMAIN runs /\ runs[current] = "running"
    BY <1>2 DEF ScanEnds, ScanFails, RunsTold
  <2>2. \E s \in RunStatus : runs' = [runs EXCEPT ![current] = s]
    BY <1>1, <1>2 DEF ScanEnds, ScanFails, EndStatus
  <2> QED BY <2>1, <2>2
<1>3. ASSUME NEW c \in Cli, CliScanEnds(c) \/ CliScanStops(c) PROVE Ended
  <2>1. cliRun[c] \in DOMAIN runs /\ runs[cliRun[c]] = "running"
    BY <1>3 DEF CliScanEnds, CliScanStops, Goes, RunsTold
  <2>2. \E s \in RunStatus : runs' = [runs EXCEPT ![cliRun[c]] = s]
    BY <1>1, <1>3 DEF CliScanEnds, CliScanStops
  <2> QED BY <2>1, <2>2
<1>4. CASE RecoverRuns \/ AbortRuns
  BY <1>4 DEF RecoverRuns, AbortRuns
<1>5. CASE RecoverRequests \/ (\E c \in Client : Claim(c)) \/ (\E state \in {"scanning", "reconciling"} : OwnScan(state))
  BY <1>5 DEF RecoverRequests, Claim, OwnScan
<1>6. CASE WatcherStart \/ ScanTick \/ Complete \/ Fail \/ Drain \/ AbortRequests \/ Stop \/ Crash
             \/ HeartbeatAges \/ UNCHANGED vars
  BY <1>6 DEF WatcherStart, ScanTick, Complete, Fail, Mark, Drain, AbortRequests, Stop, Crash,
       HeartbeatAges, vars
<1>7. CASE \/ \E c \in Cli : ProbeTake(c) \/ ProbeRelease(c) \/ CliAcquire(c) \/ CliEnqueue(c)
           \/ \E c \in Tool : ToolChecks(c) \/ ToolEnqueue(c)
           \/ \E c \in Client : Poll(c) \/ TimeOut(c)
  BY <1>7 DEF ProbeTake, ProbeRelease, CliAcquire, CliEnqueue, ToolChecks, ToolEnqueue, Poll, TimeOut
<1> QED
  BY <1>2, <1>3, <1>4, <1>5, <1>6, <1>7 DEF Next, Finishes, Winds, CliStep

\* A statement on scan_requests: none, the recovery, or one request changed:
\* made, claimed, or marked when it was running.
LEMMA StepRequestsKept ==
  ASSUME TypeOK, RequestsTold, [Next]_vars
  PROVE  \/ UNCHANGED req \/ FailRunningRequests
         \/ \E c \in Client : \E r \in Request :
              /\ req' = [req EXCEPT ![c] = r]
              /\ \/ req[c].status \in {"none", "pending"} /\ r.status # "complete"
                 \/ /\ req[c].status = "running" /\ r.status \in Terminal
                    /\ r.status = "complete" =>
                         phase = "completing" /\ c = serving /\ r.run = current
                         /\ r.after = req[c].after
<1> DEFINE Changed == \E c \in Client : \E r \in Request :
              /\ req' = [req EXCEPT ![c] = r]
              /\ \/ req[c].status \in {"none", "pending"} /\ r.status # "complete"
                 \/ /\ req[c].status = "running" /\ r.status \in Terminal
                    /\ r.status = "complete" =>
                         phase = "completing" /\ c = serving /\ r.run = current
                         /\ r.after = req[c].after
<1>0. /\ req \in [Client -> Request] /\ Len(runs) \in Nat /\ current \in Nat
      /\ Cli \subseteq Client /\ Tool \subseteq Client
      /\ serving \in Client \cup {None} /\ None \notin Client
  BY LenProperties, ClientAssumption DEF TypeOK, Client
<1>1. ASSUME NEW c \in Client, Claim(c) PROVE Changed
  <2>1. /\ req' = [req EXCEPT ![c] = [req[c] EXCEPT !.status = "running"]]
        /\ req[c].status = "pending"
    BY <1>1 DEF Claim, NextPending, Pending
  <2>2. /\ [req[c] EXCEPT !.status = "running"] \in Request
        /\ [req[c] EXCEPT !.status = "running"].status = "running"
    BY <1>0, RequestMarked DEF Request
  <2> QED BY <2>1, <2>2
<1>2. ASSUME NEW c \in Client, CliEnqueue(c) \/ ToolEnqueue(c) PROVE Changed
  <2>1. PICK s \in Second :
          req' = [req EXCEPT ![c] = [status |-> "pending", at |-> s, run |-> 0, after |-> Len(runs)]]
    BY <1>2 DEF CliEnqueue, ToolEnqueue, Enqueue
  <2>2. [status |-> "pending", at |-> s, run |-> 0, after |-> Len(runs)] \in Request
    BY <1>0, ClientAssumption DEF Request
  <2>3. req[c].status = "none"
    BY <1>2 DEF CliEnqueue, ToolEnqueue, Goes, RequestsTold
  <2> QED BY <2>1, <2>2, <2>3
<1>3. ASSUME Complete \/ Fail PROVE Changed \/ UNCHANGED req
  <2>1. serving \in Client /\ req[serving].status = "running"
    BY <1>0, <1>3 DEF Complete, Fail, Mark, RequestsTold, Answering
  <2> DEFINE done == [req[serving] EXCEPT !.status = "complete", !.run = current]
             failed == [req[serving] EXCEPT !.status = "failed"]
  <2>2. /\ done \in Request /\ done.status = "complete" /\ done.run = current
        /\ done.after = req[serving].after
        /\ failed \in Request /\ failed.status = "failed"
    <3>1. req[serving] \in Request
      BY <1>0, <2>1
    <3>2. done \in Request /\ failed \in Request
      BY <1>0, <3>1, RequestMarked DEF Terminal
    <3>3. /\ done.status = "complete" /\ done.run = current
          /\ done.after = req[serving].after
          /\ failed.status = "failed"
      BY <3>1 DEF Request
    <3> QED BY <3>2, <3>3
  <2>3. \/ req' = [req EXCEPT ![serving] = done] /\ phase = "completing"
        \/ req' = [req EXCEPT ![serving] = failed]
        \/ UNCHANGED req
    BY <1>3 DEF Complete, Fail, Mark
  <2> HIDE DEF done, failed
  <2> QED BY <2>1, <2>2, <2>3 DEF Terminal
<1>4. CASE RecoverRequests \/ AbortRequests
  BY <1>4 DEF RecoverRequests, AbortRequests
<1>5. CASE WatcherStart \/ RecoverRuns \/ (\E state \in {"scanning", "reconciling"} : OwnScan(state))
             \/ ScanTick \/ ScanEnds \/ ScanFails \/ Drain \/ AbortRuns \/ Stop \/ Crash
             \/ HeartbeatAges \/ UNCHANGED vars
  BY <1>5 DEF WatcherStart, RecoverRuns, OwnScan, ScanTick, ScanEnds, ScanFails, Drain, AbortRuns,
       Stop, Crash, HeartbeatAges, vars
<1>6. CASE \/ \E c \in Cli : ProbeTake(c) \/ CliStep(c)
           \/ \E c \in Tool : ToolChecks(c)
           \/ \E c \in Client : Poll(c) \/ TimeOut(c)
  BY <1>6 DEF ProbeTake, CliStep, ProbeRelease, CliAcquire, CliScanEnds, CliScanStops, ToolChecks, Poll, TimeOut
<1> QED
  BY <1>0, <1>1, <1>2, <1>3, <1>4, <1>5, <1>6 DEF Next, Finishes, Winds

LEMMA StepKept == TypeOK /\ LockHeld /\ RunsTold /\ RequestsTold /\ [Next]_vars => StatusesKept
<1> SUFFICES ASSUME TypeOK, LockHeld, RunsTold, RequestsTold, [Next]_vars PROVE StatusesKept
  OBVIOUS
<1>0. runs \in Seq(RunStatus) /\ req \in [Client -> Request]
  BY DEF TypeOK
<1>1. ASSUME NEW i \in DOMAIN runs
      PROVE  i \in DOMAIN runs' /\ (runs[i] \in Terminal => runs'[i] = runs[i])
  <2>1. CASE UNCHANGED runs
    BY <2>1
  <2>2. CASE BeginRun
    BY <1>0, <2>2, RunBegun
  <2>3. CASE FailRunningRuns
    BY <1>0, <2>3, RunsFailed DEF Terminal
  <2>4. ASSUME NEW j \in DOMAIN runs, NEW s \in RunStatus, runs[j] = "running",
               runs' = [runs EXCEPT ![j] = s]
        PROVE  i \in DOMAIN runs' /\ (runs[i] \in Terminal => runs'[i] = runs[i])
    BY <1>0, <2>4, RunMarked DEF Terminal
  <2> QED BY <2>1, <2>2, <2>3, <2>4, StepRunsKept
<1>2. ASSUME NEW c \in Client
      PROVE  /\ req[c].status \in Terminal => req'[c] = req[c]
             /\ req[c].status = "running" => req'[c].status \in {"running"} \cup Terminal
  <2>1. CASE UNCHANGED req
    BY <2>1
  <2>2. CASE FailRunningRequests
    BY <1>0, <2>2 DEF FailRunningRequests, Terminal, Request
  <2>3. ASSUME NEW d \in Client, NEW r \in Request, req' = [req EXCEPT ![d] = r],
               \/ req[d].status \in {"none", "pending"}
               \/ req[d].status = "running" /\ r.status \in Terminal
        PROVE  /\ req[c].status \in Terminal => req'[c] = req[c]
               /\ req[c].status = "running" => req'[c].status \in {"running"} \cup Terminal
    BY <1>0, <2>3 DEF Terminal
  <2> QED BY <2>1, <2>2, <2>3, StepRequestsKept
<1> QED BY <1>1, <1>2 DEF StatusesKept

LEMMA StepScanned ==
  TypeOK /\ LockHeld /\ RunsTold /\ RequestsTold /\ CompleteMeansScanned /\ [Next]_vars
    => CompleteMeansScanned'
<1> SUFFICES ASSUME TypeOK, LockHeld, RunsTold, RequestsTold, CompleteMeansScanned, [Next]_vars,
                    NEW c \in Client, req'[c].status = "complete"
             PROVE  /\ req'[c].run \in DOMAIN runs'
                    /\ runs'[req'[c].run] = "complete"
                    /\ req'[c].run > req'[c].after
  BY DEF CompleteMeansScanned
<1>0. req \in [Client -> Request]
  BY DEF TypeOK
<1>1. StatusesKept
  BY StepKept
\* It is complete already, with a run that keeps its status ...
<1>2. CASE req[c].status = "complete"
  BY <1>1, <1>2 DEF StatusesKept, CompleteMeansScanned, Terminal
\* ... or it is marked now, with the scan that has just ended.
<1>3. CASE req[c].status # "complete"
  <2>1. ~UNCHANGED req /\ ~FailRunningRequests
    BY <1>0, <1>3 DEF FailRunningRequests, Request
  <2>2. PICK d \in Client, r \in Request :
          /\ req' = [req EXCEPT ![d] = r]
          /\ \/ req[d].status \in {"none", "pending"} /\ r.status # "complete"
             \/ /\ req[d].status = "running"
                /\ r.status = "complete" =>
                     phase = "completing" /\ d = serving /\ r.run = current
                     /\ r.after = req[d].after
    BY <2>1, StepRequestsKept
  <2>3. /\ c = serving /\ req'[c] = r
        /\ phase = "completing" /\ r.run = current /\ r.after = req[c].after
    BY <1>0, <1>3, <2>2
  <2>4. current \in DOMAIN runs /\ runs[current] = "complete" /\ req[c].after < current
    BY <2>3 DEF RunsTold, RequestsTold
  <2>5. current \in DOMAIN runs' /\ runs'[current] = "complete"
    BY <1>1, <2>4 DEF StatusesKept, Terminal
  <2>6. current \in Nat /\ req[c].after \in Nat
    BY <1>0 DEF TypeOK, Request
  <2> QED BY <2>3, <2>4, <2>5, <2>6
<1> QED BY <1>2, <1>3

\* A request recorded as complete was answered by a scan that completed and
\* that began after the request was made: with any number of clients, clocks
\* that tie or run backwards, statuses that are not recorded, and crashes of
\* the watcher and of commands between any two statements.
THEOREM CompleteIsScanned == Spec => []CompleteMeansScanned
<1>1. Init => CompleteMeansScanned
  BY DEF Init, CompleteMeansScanned, NoRequest
<1> QED
  BY <1>1, InitTyped, StepTyped, InitLock, StepLock, InitTold, StepRunsTold,
     StepRequestsTold, StepScanned, PTL DEF Spec

\* When the watcher's loop is idle nothing is recorded as running, whatever
\* the watchers and commands before it left behind.
THEOREM NothingRunning == Spec => []NothingLeftRunning
<1>1. TypeOK /\ RunsTold /\ RequestsTold => NothingLeftRunning
  <2> SUFFICES ASSUME TypeOK, RunsTold, RequestsTold, phase = "loop", ~lost
               PROVE  /\ \A i \in DOMAIN runs : runs[i] # "running"
                      /\ \A c \in Client : req[c].status # "running"
    BY DEF NothingLeftRunning
  <2>1. \A i \in DOMAIN runs : runs[i] # "running"
    BY DEF RunsTold, Working, Serving, Scanning
  <2>2. serving = None /\ \A c \in Client : req[c].status = "running" => c = serving
    BY DEF RequestsTold, Working, Serving, Answering
  <2> QED BY <2>1, <2>2, ClientAssumption
<1> QED
  BY <1>1, InitTyped, StepTyped, InitLock, StepLock, InitTold, StepRunsTold,
     StepRequestsTold, PTL DEF Spec

\* A run or a request that is settled keeps its status, by whichever process
\* the next statement is; a claimed request is never pending again.
THEOREM SettledStays == Spec => StatusesFinal
<1>1. TypeOK /\ LockHeld /\ RunsTold /\ RequestsTold /\ [Next]_vars => [StatusesKept]_vars
  BY StepKept
<1>2. Spec => [][StatusesKept]_vars
  BY <1>1, InitTyped, StepTyped, InitLock, StepLock, InitTold, StepRunsTold,
     StepRequestsTold, PTL DEF Spec
<1>3. [][StatusesKept]_vars => StatusesFinal
  BY PTL DEF StatusesKept, StatusesFinal
<1> QED BY <1>2, <1>3
=============================================================================
