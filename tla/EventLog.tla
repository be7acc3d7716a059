------------------------------ MODULE EventLog ------------------------------
(***************************************************************************)
(* The table events as a log with a cursor: the writer appends to it,      *)
(* `smriti prune` removes old events while anything else goes on, and a    *)
(* consumer reads it page by page with events_since (src/src/db.rs,        *)
(* main.rs, mcp.rs).                                                       *)
(*                                                                         *)
(* An event is its id and its timestamp, in seconds.  The id is never used *)
(* again (AUTOINCREMENT).                                                  *)
(***************************************************************************)
EXTENDS Integers, FiniteSets

CONSTANTS
  Limits,      \* page sizes a consumer asks for
  MaxPage,     \* the size of page events_since gives at most (1000)
  Retention,   \* age in seconds from which `smriti prune` removes an event
  MaxEvents, MaxClock   \* bounds

ASSUME LogAssumption ==
  /\ Limits \subseteq Nat \ {0}
  /\ MaxPage \in Nat \ {0}
  /\ Retention \in Nat
  /\ MaxEvents \in Nat /\ MaxClock \in Nat \ {0}

VARIABLES
  clock,      \* the current second
  log,        \* table events
  last,       \* the id given last
  scanStart,  \* the second the scan under way began in, 0 when there is none
  cursor,     \* the consumer's cursor
  asked,      \* the limit of the call under way, its cursor found valid, or 0
  known,      \* the ids the consumer has been told of, or rebuilt past
  unseen      \* history: the ids whose removal no check of a cursor could see

vars == <<clock, log, last, scanStart, cursor, asked, known, unseen>>

EventId == 1..MaxEvents

\* A cursor is the id of an event already written, or 0.
TypeOK ==
  /\ clock \in 1..MaxClock
  /\ log \in SUBSET [id : EventId, time : 1..MaxClock]
  /\ last \in 0..MaxEvents
  /\ scanStart \in 0..MaxClock
  /\ cursor \in 0..last
  /\ asked \in Limits \cup {0}
  /\ known \in SUBSET EventId
  /\ unseen \in SUBSET EventId

Init ==
  /\ clock = 1
  /\ log = {}
  /\ last = 0
  /\ scanStart = 0
  /\ cursor = 0
  /\ asked = 0
  /\ known = {}
  /\ unseen = {}

Ids == {e.id : e \in log}
Oldest == CHOOSE i \in Ids : \A j \in Ids : i <= j

-----------------------------------------------------------------------------
(* The writer.  process_path and handle_delete stamp an event with the     *)
(* current second, finalize_scan its deletions with the second the scan    *)
(* began in.                                                               *)

Appended(time) ==
  /\ last < MaxEvents
  /\ last' = last + 1
  /\ log' = log \cup {[id |-> last + 1, time |-> time]}

WriteEvent ==
  /\ Appended(clock)
  /\ UNCHANGED <<clock, scanStart, cursor, asked, known, unseen>>

ScanBegins ==
  /\ scanStart = 0
  /\ scanStart' = clock
  /\ UNCHANGED <<clock, log, last, cursor, asked, known, unseen>>

ScanDeletes ==
  /\ scanStart # 0
  /\ Appended(scanStart)
  /\ UNCHANGED <<clock, scanStart, cursor, asked, known, unseen>>

ScanEnds ==
  /\ scanStart # 0
  /\ scanStart' = 0
  /\ UNCHANGED <<clock, log, last, cursor, asked, known, unseen>>

ClockTick ==
  /\ clock < MaxClock
  /\ clock' = clock + 1
  /\ UNCHANGED <<log, last, scanStart, cursor, asked, known, unseen>>

-----------------------------------------------------------------------------
\* prune_events.  It takes no lock.  A check of a cursor looks at the oldest
\* id only: it sees nothing of an event removed from behind one that stays, nor
\* of one removed after it was made.
Prune ==
  /\ log' = {e \in log : e.time >= clock - Retention}
  /\ unseen' = unseen \cup {i \in Ids \ Ids' : asked # 0 \/ \E j \in Ids' : j < i}
  /\ UNCHANGED <<clock, last, scanStart, cursor, asked, known>>

-----------------------------------------------------------------------------
(* The consumer: events_since, and what it makes of the page.  The check   *)
(* and the page are two statements, with a transaction each.               *)

Smaller(x, y) == IF x < y THEN x ELSE y

\* Mutant of Expired: off by one.
ExpiredLate == cursor > 0 /\ log # {} /\ Oldest > cursor + 2

\* The cursor has fallen out of the log: cursor_valid is false.
Expired == cursor > 0 /\ log # {} /\ Oldest > cursor + 1

\* Mutant of PageOf: off by one.
PageAfterNext(limit) ==
  {i \in Ids : i > cursor + 1
     /\ Cardinality({j \in Ids : cursor + 1 < j /\ j <= i}) <= Smaller(limit, MaxPage)}

\* The first ids after the cursor.
PageOf(limit) ==
  {i \in Ids : i > cursor
     /\ Cardinality({j \in Ids : cursor < j /\ j <= i}) <= Smaller(limit, MaxPage)}

\* A call with cursor 0 reads from the beginning of the retained window: what
\* is no longer in it is not owed.
NotOwed == IF cursor = 0 THEN (1..last) \ Ids ELSE {}

\* A call finds its cursor in the log; one with cursor 0 does not look.  An
\* empty log ends the call, with nothing read.
Ask(limit) ==
  /\ asked = 0
  /\ ~Expired /\ (cursor > 0 => log # {})
  /\ asked' = limit
  /\ UNCHANGED <<clock, log, last, scanStart, cursor, known, unseen>>

\* Mutant of ReadPage: the cursor is that of the row fetched to see if there
\* are more.
ReadPageTo ==
  /\ asked # 0
  /\ asked' = 0
  /\ cursor' = IF PageOf(asked + 1) = {} THEN cursor
               ELSE CHOOSE i \in PageOf(asked + 1) : \A j \in PageOf(asked + 1) : j <= i
  /\ known' = known \cup PageOf(asked) \cup NotOwed
  /\ UNCHANGED <<clock, log, last, scanStart, unseen>>

ReadPage ==
  /\ asked # 0
  /\ asked' = 0
  /\ cursor' = IF PageOf(asked) = {} THEN cursor
               ELSE CHOOSE i \in PageOf(asked) : \A j \in PageOf(asked) : j <= i
  /\ known' = known \cup PageOf(asked) \cup NotOwed
  /\ UNCHANGED <<clock, log, last, scanStart, unseen>>

\* Told that its cursor is not valid the consumer rebuilds from the index and
\* goes on from next_cursor, 0.
Rebuild ==
  /\ asked = 0 /\ Expired
  /\ cursor' = 0
  /\ known' = 1..last
  /\ UNCHANGED <<clock, log, last, scanStart, asked, unseen>>

Read == \/ \E limit \in Limits : Ask(limit)
        \/ ReadPage
        \/ Rebuild

-----------------------------------------------------------------------------
Next ==
  \/ WriteEvent \/ ScanBegins \/ ScanDeletes \/ ScanEnds \/ ClockTick
  \/ Prune \/ Read

Spec == Init /\ [][Next]_vars

\* The consumer keeps polling.
FairSpec == Spec /\ WF_vars(Read)

-----------------------------------------------------------------------------
\* The consumer has been told of every event up to its cursor or has been told
\* to rebuild, whenever events were pruned: the only ones lost without a word
\* are those pruned between the check and the page of one call, and those
\* pruned from behind an older one.
NothingLostSilently == 1..cursor \subseteq known \cup unseen

\* An event that is still in the log, at or before the cursor, has been
\* delivered: paging skips nothing, whatever is pruned between two pages.
RetainedDelivered == \A i \in Ids : i <= cursor => i \in known

\* A consumer that polls gets every event that stays in the log.
EveryEventRead == \A i \in EventId : i \in Ids ~> (i \in known \/ i \notin Ids)
=============================================================================
