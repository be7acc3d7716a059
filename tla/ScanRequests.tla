---------------------------- MODULE ScanRequests ----------------------------
(***************************************************************************)
(* Who writes index.db, and how a scan is asked for: the writer lock, the  *)
(* tables scan_requests and scan_runs, and the heartbeat row, shared by    *)
(* the watcher process, the `smriti scan` command and the smriti_scan tool *)
(* of the server (src/src/db.rs, watcher.rs, main.rs, mcp.rs, search.rs).  *)
(*                                                                         *)
(* Each client makes one request.  A scan is two steps, its begin and its  *)
(* end: Scan.tla models what lies between.                                 *)
(***************************************************************************)
EXTENDS Integers, Sequences, FiniteSets

CONSTANTS
  Cli,          \* runs of `smriti scan`
  Tool,         \* calls of smriti_scan
  None,         \* no process, no request
  WatcherProc,  \* the watcher, as a holder of the lock
  Second,       \* the seconds a request may be stamped with
  Faulty,       \* whether the writes that record a scan's end may fail
  MaxStops,     \* bound: ends of the watcher process
  MaxPeriodic   \* bound: scans the watcher makes of its own accord

Client == Cli \cup Tool

ASSUME ClientAssumption ==
  /\ Cli \cap Tool = {}
  /\ None \notin Client /\ WatcherProc \notin Client /\ None # WatcherProc
  /\ Second \subseteq Nat
  /\ Faulty \in BOOLEAN
  /\ MaxStops \in Nat /\ MaxPeriodic \in Nat

VARIABLES
  holder,    \* who holds writer.lock
  phase,     \* where the watcher is
  serving,   \* the request the watcher's scan is for
  current,   \* the watcher's scan run
  heart,     \* watcher_heartbeat: its state, whether updated_at is at most 30s
             \* old, whether its pid is that of a living process
  runs,      \* scan_runs: the status of each
  req,       \* scan_requests: the request of each client
  client,    \* where each client is; "over" when it has answered, refused,
             \* timed out or been killed
  cliRun,    \* the scan run of each `smriti scan` that scans by itself
  lost,      \* a status was not recorded since the last recovery
  stops, periodic   \* counters for the bounds

watcherVars == <<phase, serving, current>>
vars == <<holder, watcherVars, heart, runs, req, client, cliRun, lost, stops, periodic>>

Down == phase = "down"
Scanning == {"startupScan", "requestScan", "periodicScan"}
\* The phases in which the event loop has been reached.
Serving == {"loop", "requestScan", "periodicScan", "completing", "failing"}
Phases == Serving \cup {"down", "recoverRuns", "recoverRequests", "startupScan",
                        "draining", "abortRequests", "stopping"}

Terminal == {"complete", "failed"}
RunStatus == {"running"} \cup Terminal

Heartbeat ==
  [state : {"none", "scanning", "reconciling", "watching", "stopping", "stopped"},
   fresh : BOOLEAN, alive : BOOLEAN]

ClientState == {"idle", "probing", "held", "free", "scanning", "fresh",
                "polling", "over"}

Request == [status : {"none", "pending", "running"} \cup Terminal,
            at : Second \cup {0},     \* requested_at
            run : Nat,                \* scan_run_id, 0 for NULL
            after : Nat]              \* the scan runs there were at the insert

NoRequest == [status |-> "none", at |-> 0, run |-> 0, after |-> 0]

\* The statuses written are those the CHECK constraints of scan_runs,
\* scan_requests and watcher_heartbeat allow.
TypeOK ==
  /\ holder \in Client \cup {None, WatcherProc}
  /\ phase \in Phases
  /\ serving \in Client \cup {None}
  /\ current \in Nat
  /\ heart \in Heartbeat
  /\ runs \in Seq(RunStatus)
  /\ req \in [Client -> Request]
  /\ client \in [Client -> ClientState]
  /\ cliRun \in [Client -> Nat]
  /\ lost \in BOOLEAN
  /\ stops \in 0..MaxStops /\ periodic \in 0..MaxPeriodic

Init ==
  /\ holder = None
  /\ phase = "down" /\ serving = None /\ current = 0
  /\ heart = [state |-> "none", fresh |-> FALSE, alive |-> FALSE]
  /\ runs = <<>>
  /\ req = [c \in Client |-> NoRequest]
  /\ client = [c \in Client |-> "idle"]
  /\ cliRun = [c \in Client |-> 0]
  /\ lost = FALSE
  /\ stops = 0 /\ periodic = 0

-----------------------------------------------------------------------------
(* Statements on the tables.                                               *)

BeginRun == runs' = Append(runs, "running")

\* Mutant of FailRunningRuns: no WHERE clause.
FailAllRuns == runs' = [i \in DOMAIN runs |-> "failed"]

\* UPDATE scan_runs / scan_requests SET status = 'failed' WHERE status =
\* 'running': recover_crashed_scans and abort_running_scans.
FailRunningRuns ==
  runs' = [i \in DOMAIN runs |-> IF runs[i] = "running" THEN "failed" ELSE runs[i]]

\* Mutant of FailRunningRequests: requests are not recovered.
KeepRequests == UNCHANGED req

FailRunningRequests ==
  req' = [c \in Client |-> IF req[c].status = "running"
                           THEN [req[c] EXCEPT !.status = "failed"] ELSE req[c]]

\* enqueue_scan: the clock is read before the insert.
Enqueue(c) ==
  \E s \in Second :
    req' = [req EXCEPT ![c] = [status |-> "pending", at |-> s, run |-> 0,
                               after |-> Len(runs)]]

Pending(c) == req[c].status = "pending"

\* The subquery of claim_pending_scan; requests of one second are taken in
\* any order.
NextPending == {c \in Client : Pending(c) /\ \A d \in Client : Pending(d) => req[c].at <= req[d].at}

\* Every update of the heartbeat row sets updated_at.
Beat(state) == heart' = [heart EXCEPT !.state = state, !.fresh = TRUE]

-----------------------------------------------------------------------------
(* The watcher process: run_watch_with_shutdown and event_loop.            *)

\* The kernel releases the lock; the pid of the heartbeat row dies with it.
Exit(state, fresh) ==
  /\ phase' = "down" /\ serving' = None /\ current' = 0
  /\ holder' = None
  /\ heart' = [state |-> state, fresh |-> fresh, alive |-> FALSE]

\* While another process holds the lock the watcher exits at once.
WatcherStart ==
  /\ Down /\ holder = None
  /\ holder' = WatcherProc
  /\ phase' = "recoverRuns"
  /\ UNCHANGED <<serving, current, heart, runs, req, client, cliRun, lost, stops, periodic>>

RecoverRuns ==
  /\ phase = "recoverRuns"
  /\ FailRunningRuns
  /\ phase' = "recoverRequests"
  /\ UNCHANGED <<holder, serving, current, heart, req, client, cliRun, lost, stops, periodic>>

\* The heartbeat row is written and the startup scan begins.
RecoverRequests ==
  /\ phase = "recoverRequests"
  /\ FailRunningRequests
  /\ lost' = FALSE
  /\ heart' = [state |-> "scanning", fresh |-> TRUE, alive |-> TRUE]
  /\ BeginRun
  /\ phase' = "startupScan" /\ current' = Len(runs) + 1
  /\ UNCHANGED <<holder, serving, client, cliRun, stops, periodic>>

\* One turn of the loop that serves requests.  The code claims every pending
\* request before it does anything else; here the watcher may stop or scan of
\* its own accord between two claims, which the code may do a turn earlier.
Claim(c) ==
  /\ phase = "loop" /\ c \in NextPending
  /\ req' = [req EXCEPT ![c].status = "running"]
  /\ Beat("scanning")
  /\ BeginRun
  /\ phase' = "requestScan" /\ serving' = c /\ current' = Len(runs) + 1
  /\ UNCHANGED <<holder, client, cliRun, lost, stops, periodic>>

\* The periodic scan, and the reconciliation after an overflow.
OwnScan(state) ==
  /\ phase = "loop" /\ periodic < MaxPeriodic
  /\ periodic' = periodic + 1
  /\ Beat(state)
  /\ BeginRun
  /\ phase' = "periodicScan" /\ current' = Len(runs) + 1
  /\ UNCHANGED <<holder, serving, req, client, cliRun, lost, stops>>

ScanTick ==
  /\ phase \in Scanning \cup {"loop"}
  /\ heart' = [heart EXCEPT !.fresh = TRUE]
  /\ UNCHANGED <<holder, watcherVars, runs, req, client, cliRun, lost, stops, periodic>>

\* finalize_scan commits the status with the rest of its transaction.
ScanEnds ==
  /\ phase \in Scanning
  /\ runs' = [runs EXCEPT ![current] = "complete"]
  /\ IF phase = "requestScan"
     THEN phase' = "completing" /\ UNCHANGED <<current, heart>>
     ELSE phase' = "loop" /\ current' = 0 /\ Beat("watching")
  /\ UNCHANGED <<holder, serving, req, client, cliRun, lost, stops, periodic>>

\* Most errors record 'failed'; one of the update of files_seen or of
\* finalize_scan leaves the run 'running', one of restore_default_pragmas
\* comes after 'complete'.
EndStatus == {"failed"} \cup (IF Faulty THEN {"running", "complete"} ELSE {})

ScanFails ==
  /\ phase \in Scanning
  /\ \E s \in EndStatus :
       /\ runs' = [runs EXCEPT ![current] = s]
       /\ lost' = (lost \/ s = "running")
  /\ \/ /\ phase = "startupScan" /\ stops < MaxStops
        /\ stops' = stops + 1
        /\ Exit("stopped", TRUE)
     \/ /\ phase = "requestScan"
        /\ phase' = "failing"
        /\ UNCHANGED <<holder, serving, current, heart, stops>>
     \/ /\ phase = "periodicScan"
        /\ phase' = "loop" /\ current' = 0 /\ Beat("watching")
        /\ UNCHANGED <<holder, serving, stops>>
  /\ UNCHANGED <<req, client, cliRun, periodic>>

\* complete_scan_request and fail_scan_request; their errors are logged and
\* the loop goes on.
Mark(from, marked) ==
  /\ phase = from
  /\ \/ req' = [req EXCEPT ![serving] = marked] /\ UNCHANGED lost
     \/ Faulty /\ lost' = TRUE /\ UNCHANGED req
  /\ Beat("watching")
  /\ phase' = "loop" /\ serving' = None /\ current' = 0
  /\ UNCHANGED <<holder, runs, client, cliRun, stops, periodic>>

Complete == Mark("completing", [req[serving] EXCEPT !.status = "complete", !.run = current])
\* Mutant of Fail: the error of the scan is not looked at.
FailAsComplete == Mark("failing", [req[serving] EXCEPT !.status = "complete", !.run = current])

Fail == Mark("failing", [req[serving] EXCEPT !.status = "failed"])

\* A SIGTERM is seen at the head of the loop only: drain_shutdown.
Drain ==
  /\ phase = "loop" /\ stops < MaxStops
  /\ stops' = stops + 1
  /\ Beat("stopping")
  /\ phase' = "draining"
  /\ UNCHANGED <<holder, serving, current, runs, req, client, cliRun, lost, periodic>>

AbortRuns ==
  /\ phase = "draining"
  /\ FailRunningRuns
  /\ phase' = "abortRequests"
  /\ UNCHANGED <<holder, serving, current, heart, req, client, cliRun, lost, stops, periodic>>

AbortRequests ==
  /\ phase = "abortRequests"
  /\ FailRunningRequests
  /\ phase' = "stopping"
  /\ UNCHANGED <<holder, serving, current, heart, runs, client, cliRun, lost, stops, periodic>>

Stop ==
  /\ phase = "stopping"
  /\ Exit("stopped", TRUE)
  /\ UNCHANGED <<runs, req, client, cliRun, lost, stops, periodic>>

\* A crash, or an error that ends the process with the heartbeat as it is:
\* the watch limit, a failed commit, a failed write of the heartbeat.
Crash ==
  /\ ~Down /\ stops < MaxStops
  /\ stops' = stops + 1
  /\ Exit(heart.state, heart.fresh)
  /\ UNCHANGED <<runs, req, client, cliRun, lost, periodic>>

\* More than 30 seconds without an update: the watcher is gone, stopped by a
\* signal, or busy with one file.
HeartbeatAges ==
  /\ heart.fresh
  /\ heart' = [heart EXCEPT !.fresh = FALSE]
  /\ UNCHANGED <<holder, watcherVars, runs, req, client, cliRun, lost, stops, periodic>>

-----------------------------------------------------------------------------
(* smriti scan: cmd_scan and cmd_scan_via_watcher.                         *)

Goes(c, from, to) == client[c] = from /\ client' = [client EXCEPT ![c] = to]

\* watcher_holds_lock takes the lock to see whether it is free ...
ProbeTake(c) ==
  /\ IF holder = None
     THEN Goes(c, "idle", "probing") /\ holder' = c
     ELSE Goes(c, "idle", "held") /\ UNCHANGED holder
  /\ UNCHANGED <<watcherVars, heart, runs, req, cliRun, lost, stops, periodic>>

\* ... and releases it.
ProbeRelease(c) ==
  /\ Goes(c, "probing", "free")
  /\ holder' = None
  /\ UNCHANGED <<watcherVars, heart, runs, req, cliRun, lost, stops, periodic>>

\* Mutant of CliAcquire: the answer of the probe is relied on.
CliScanOnProbe(c) ==
  /\ Goes(c, "free", "scanning")
  /\ holder' = c
  /\ BeginRun
  /\ cliRun' = [cliRun EXCEPT ![c] = Len(runs) + 1]
  /\ UNCHANGED <<watcherVars, heart, req, lost, stops, periodic>>

\* acquire_writer_lock again, and the scan begins or the command refuses.
CliAcquire(c) ==
  /\ IF holder = None
     THEN /\ Goes(c, "free", "scanning")
          /\ holder' = c
          /\ BeginRun
          /\ cliRun' = [cliRun EXCEPT ![c] = Len(runs) + 1]
     ELSE Goes(c, "free", "over") /\ UNCHANGED <<holder, runs, cliRun>>
  /\ UNCHANGED <<watcherVars, heart, req, lost, stops, periodic>>

CliScanEnds(c) ==
  /\ Goes(c, "scanning", "over")
  /\ holder' = None
  /\ runs' = [runs EXCEPT ![cliRun[c]] = "complete"]
  /\ UNCHANGED <<watcherVars, heart, req, cliRun, lost, stops, periodic>>

\* An error, or a signal: the run may stay 'running'.
CliScanStops(c) ==
  /\ Goes(c, "scanning", "over")
  /\ holder' = None
  /\ \E s \in {"running", "failed"} : runs' = [runs EXCEPT ![cliRun[c]] = s]
  /\ UNCHANGED <<watcherVars, heart, req, cliRun, lost, stops, periodic>>

CliEnqueue(c) ==
  /\ Goes(c, "held", "polling")
  /\ Enqueue(c)
  /\ UNCHANGED <<holder, watcherVars, heart, runs, cliRun, lost, stops, periodic>>

-----------------------------------------------------------------------------
(* The smriti_scan tool.                                                   *)

\* Mutant of Running: a heartbeat that is late is taken for a watcher that is down.
RunningWhenFresh == heart.state \notin {"none", "stopped"} /\ heart.fresh

\* read_watcher_status.
Running == heart.state \notin {"none", "stopped"} /\ (heart.fresh \/ heart.alive)

ToolChecks(c) ==
  /\ Goes(c, "idle", IF Running THEN "fresh" ELSE "over")
  /\ UNCHANGED <<holder, watcherVars, heart, runs, req, cliRun, lost, stops, periodic>>

ToolEnqueue(c) ==
  /\ Goes(c, "fresh", "polling")
  /\ Enqueue(c)
  /\ UNCHANGED <<holder, watcherVars, heart, runs, cliRun, lost, stops, periodic>>

-----------------------------------------------------------------------------
(* Both kinds of client poll; after the timeout, or killed, they leave     *)
(* their request in the table.                                             *)

Poll(c) ==
  /\ req[c].status \in Terminal
  /\ Goes(c, "polling", "over")
  /\ UNCHANGED <<holder, watcherVars, heart, runs, req, cliRun, lost, stops, periodic>>

TimeOut(c) ==
  /\ Goes(c, "polling", "over")
  /\ UNCHANGED <<holder, watcherVars, heart, runs, req, cliRun, lost, stops, periodic>>

-----------------------------------------------------------------------------
Finishes == ScanEnds \/ ScanFails \/ Complete \/ Fail

Winds == AbortRuns \/ AbortRequests \/ Stop

CliStep(c) == ProbeRelease(c) \/ CliAcquire(c) \/ CliScanEnds(c) \/ CliScanStops(c)

Next ==
  \/ WatcherStart \/ RecoverRuns \/ RecoverRequests
  \/ \E c \in Client : Claim(c)
  \/ \E state \in {"scanning", "reconciling"} : OwnScan(state)
  \/ ScanTick \/ Finishes \/ Drain \/ Winds \/ Crash \/ HeartbeatAges
  \/ \E c \in Cli : ProbeTake(c) \/ CliStep(c) \/ CliEnqueue(c)
  \/ \E c \in Tool : ToolChecks(c) \/ ToolEnqueue(c)
  \/ \E c \in Client : Poll(c) \/ TimeOut(c)

Spec == Init /\ [][Next]_vars

\* The service manager restarts the watcher (Restart=always), its loop comes
\* round, scans end, and a command that has begun goes on.
Fairness ==
  /\ WF_vars(WatcherStart) /\ WF_vars(RecoverRuns) /\ WF_vars(RecoverRequests)
  /\ WF_vars(\E c \in Client : Claim(c))
  /\ WF_vars(Finishes) /\ WF_vars(Winds)
  /\ \A c \in Cli : WF_vars(CliStep(c))

FairSpec == Spec /\ Fairness

-----------------------------------------------------------------------------
\* At any time at most one process is in the part of its code that writes to
\* index.db: the watcher from the acquisition of the lock on, a command while
\* it scans by itself.
Writers == (IF Down THEN {} ELSE {WatcherProc})
             \cup {c \in Cli : client[c] = "scanning"}

SingleWriter == \A x, y \in Writers : x = y

\* A request recorded as complete was answered by a scan that completed and
\* that began after the request was made: a client told "complete" sees every
\* change it made before it asked.
CompleteMeansScanned ==
  \A c \in Client : req[c].status = "complete" =>
    /\ req[c].run \in DOMAIN runs
    /\ runs[req[c].run] = "complete"
    /\ req[c].run > req[c].after

\* When the watcher's loop is idle nothing is recorded as running, whatever
\* the watchers and commands before it left behind, unless a status could not
\* be written since it started.
NothingLeftRunning ==
  phase = "loop" /\ ~lost =>
    /\ \A i \in DOMAIN runs : runs[i] # "running"
    /\ \A c \in Client : req[c].status # "running"

\* The tool never turns a client away while the watcher serves requests.
ServingIsVisible == phase \in Serving => Running

\* Once settled, a run or a request keeps its status; a request that has been
\* claimed is never pending again.
StatusesFinal ==
  [][/\ \A i \in DOMAIN runs : i \in DOMAIN runs'
          /\ (runs[i] \in Terminal => runs'[i] = runs[i])
     /\ \A c \in Client :
          /\ req[c].status \in Terminal => req'[c] = req[c]
          /\ req[c].status = "running" => req'[c].status \in {"running"} \cup Terminal]_vars

\* Every request made is settled, that of a client which has given up too,
\* whatever crashes in between, unless a status could not be written.
PendingServed ==
  \A c \in Client : Pending(c) ~> req[c].status \in Terminal \/ lost
=============================================================================
