---------------------------- MODULE DebounceLoop ----------------------------
(***************************************************************************)
(* The debounce buffer driven by the watcher's event loop (event_loop in   *)
(* src/src/watcher.rs): one iteration receives at most one filesystem      *)
(* event, inserts it, and then flushes what has become due.  Any event can *)
(* arrive at any time.                                                     *)
(***************************************************************************)
EXTENDS Debounce

VARIABLES
  turn,     \* what the loop does next: "receive" or "flush"
  report    \* what the events since the last flush of a path said of it last

loopVars == <<entries, moves, turn, report>>

LastSaid == {"nothing", "present", "gone", "renamed"}

\* Elapsed times stay within the windows they are compared with, and no entry
\* gets a kind that flush does not know.
LoopTypeOK ==
  /\ BufferTypeOK
  /\ turn \in {"receive", "flush"}
  /\ report \in [Path -> LastSaid]

LoopInit ==
  /\ BufferInit
  /\ turn = "receive"
  /\ report = [p \in Path |-> "nothing"]

\* A close of a deleted file (its descriptor outlives its name) says nothing
\* new of the path.
Said(e) ==
  CASE e.kind = "Delete" -> "gone"
    [] e.kind = "MovedFrom" -> "renamed"
    [] e.kind = "CloseWrite" /\ report[e.path] = "gone" -> "gone"
    [] OTHER -> "present"

\* The kernel gives every rename a cookie of its own (a cookie whose rename is
\* settled stands for the next fresh one), and no file is renamed to itself.
Possible(e) ==
  /\ e.kind = "MovedFrom" => ~MovePending(e.cookie)
  /\ e.kind = "MovedTo" => moves[e.cookie].from # e.path

Receive ==
  /\ turn = "receive"
  /\ \E e \in FsEvent :
       /\ Possible(e)
       /\ Insert(e)
       /\ report' = [report EXCEPT ![e.path] = Said(e)]
  /\ turn' = "flush"

\* recv_timeout returns without a message.
Timeout ==
  /\ turn = "receive"
  /\ turn' = "flush"
  /\ UNCHANGED <<entries, moves, report>>

\* The paths a flush settles: those of its events, and the rename sources
\* whose deletion the events carry.
SettledPaths ==
  ReadyPaths
    \cup {p \in Path : /\ report[p] = "renamed"
                       /\ \/ \E k \in ExpiredCookies : moves[k].from = p
                          \/ \E q \in ReadyPaths : entries[q].from = p}

LoopFlush ==
  /\ turn = "flush"
  /\ FlushReady
  /\ report' = [p \in Path |-> IF p \in SettledPaths THEN "nothing" ELSE report[p]]
  /\ turn' = "receive"

LoopAge == Tick /\ UNCHANGED <<turn, report>>

LoopNext == Receive \/ Timeout \/ LoopFlush \/ LoopAge

\* The loop never blocks longer than the next deadline, and time passes.
LoopFairness == WF_loopVars(Timeout \/ Receive) /\ WF_loopVars(LoopFlush) /\ WF_loopVars(LoopAge)

LoopSpec == LoopInit /\ [][LoopNext]_loopVars

FairLoopSpec == LoopSpec /\ LoopFairness

-----------------------------------------------------------------------------
\* The last thing the events said of a path, other than that it was renamed
\* away, is what its entry still says: a path reported present has an entry
\* that will be read from disk, a path reported deleted has a deletion.
LatestReportWins ==
  \A p \in Path :
    /\ report[p] = "present" => entries[p].kind \in {"Create", "Modify", "Moved"}
    /\ report[p] = "gone" => entries[p].kind = "Delete"

\* next_deadline is exact: after d more ticks without an event flush returns
\* something if, and only if, d is not less than the deadline.  A deadline
\* that is late leaves changes unindexed; one that is early spins the loop.
DeadlineExact ==
  ~IsEmpty =>
    \A d \in 0..(MaxWait + MoveCookieTTL) :
      ((\E p \in Path : ReadyIn(p, d)) \/ (\E k \in Cookie : ExpiredIn(k, d)))
        <=> d >= NextDeadline

\* A file has just been renamed onto a path, which begins its entry afresh.
RenamedOnto(p) == entries[p].kind = "Moved" /\ entries[p].age = 0

\* A buffered entry leaves the buffer even if events keep arriving for its
\* path (max_wait), unless a rename onto the path replaces it, and so does every
\* rename source whose target never arrives.
BufferDrains ==
  /\ \A p \in Path : Buffered(p) ~> ~Buffered(p) \/ RenamedOnto(p)
  /\ \A k \in Cookie : MovePending(k) ~> ~MovePending(k)
=============================================================================
