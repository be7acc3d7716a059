------------------------------ MODULE Debounce ------------------------------
(***************************************************************************)
(* The debounce buffer of the watcher (src/src/debounce.rs).               *)
(*                                                                         *)
(* The buffer holds at most one entry per path and one pending rename per  *)
(* move cookie.  The code stores Instants; every use it makes of them is a *)
(* comparison of an elapsed time with one of four thresholds, so the model *)
(* stores elapsed ticks and lets them saturate at the largest threshold    *)
(* they are compared with.                                                 *)
(***************************************************************************)
EXTENDS Integers

CONSTANTS
  Path,            \* paths of files below the watched roots
  Cookie,          \* inotify move cookies
  NoPath,          \* "no path": absence of a rename source
  CloseWriteIdle,  \* quiet ticks that flush an entry closed after writing
  IdleWindow,      \* quiet ticks that flush any other entry
  MaxWait,         \* ticks after the first event that force a flush
  MoveCookieTTL    \* ticks an unmatched rename source waits for its target

ASSUME NoPathAssumption == NoPath \notin Path

\* DebounceBuffer::with_defaults: 100ms <= 1s <= 5s, and a cookie TTL of 1s.
ASSUME WindowAssumption ==
  /\ CloseWriteIdle \in Nat \ {0} /\ IdleWindow \in Nat \ {0}
  /\ MaxWait \in Nat \ {0} /\ MoveCookieTTL \in Nat \ {0}
  /\ CloseWriteIdle <= IdleWindow /\ IdleWindow <= MaxWait

VARIABLES
  entries,   \* path -> buffered entry, NoEntry where the map has no key
  moves      \* cookie -> pending rename source, NoMove where there is none

buffer == <<entries, moves>>

ChangeKind == {"Create", "Modify", "Delete"}

Entry == [kind : ChangeKind \cup {"Moved", "None"}, from : Path \cup {NoPath},
          age : 0..MaxWait, quiet : 0..IdleWindow, closeWrite : BOOLEAN]

NoEntry == [kind |-> "None", from |-> NoPath, age |-> 0, quiet |-> 0,
            closeWrite |-> FALSE]

PendingMove == [from : Path \cup {NoPath}, age : 0..MoveCookieTTL]

NoMove == [from |-> NoPath, age |-> 0]

BufferTypeOK ==
  /\ entries \in [Path -> Entry]
  /\ moves \in [Cookie -> PendingMove]

Buffered(p) == entries[p].kind # "None"

MovePending(k) == moves[k].from # NoPath

IsEmpty == /\ \A p \in Path : ~Buffered(p)
           /\ \A k \in Cookie : ~MovePending(k)

BufferInit ==
  /\ entries = [p \in Path |-> NoEntry]
  /\ moves = [k \in Cookie |-> NoMove]

-----------------------------------------------------------------------------
(* DebounceBuffer::insert, one operation per kind of filesystem event.     *)

Fresh(kind, from, closeWrite) ==
  [kind |-> kind, from |-> from, age |-> 0, quiet |-> 0,
   closeWrite |-> closeWrite]

\* Mutant of Upserted: the first kind is kept.
UpsertedKeepsKind(p, kind) ==
  IF Buffered(p) THEN [entries[p] EXCEPT !.quiet = 0] ELSE Fresh(kind, NoPath, FALSE)

\* upsert: an existing entry keeps its first_seen and its close_write flag,
\* and loses whatever kind it had, a rename and its source included.
Upserted(p, kind) ==
  IF Buffered(p)
  THEN [entries[p] EXCEPT !.kind = kind, !.from = NoPath, !.quiet = 0]
  ELSE Fresh(kind, NoPath, FALSE)

InsertChange(p, kind) ==
  /\ entries' = [entries EXCEPT ![p] = Upserted(p, kind)]
  /\ UNCHANGED moves

InsertCloseWrite(p) ==
  /\ entries' = [entries EXCEPT ![p] =
                   IF Buffered(p)
                   THEN [@ EXCEPT !.quiet = 0, !.closeWrite = TRUE]
                   ELSE Fresh("Modify", NoPath, TRUE)]
  /\ UNCHANGED moves

\* The entry of the source is dropped; a pending rename with the same cookie
\* is overwritten.
InsertMovedFrom(p, k) ==
  /\ entries' = [entries EXCEPT ![p] = NoEntry]
  /\ moves' = [moves EXCEPT ![k] = [from |-> p, age |-> 0]]

\* A matched target replaces whatever entry the target had by a fresh one.
InsertMovedTo(p, k) ==
  IF MovePending(k)
  THEN /\ entries' = [entries EXCEPT ![p] = Fresh("Moved", moves[k].from, FALSE)]
       /\ moves' = [moves EXCEPT ![k] = NoMove]
  ELSE InsertChange(p, "Create")

FsEvent ==
  [kind : ChangeKind \cup {"CloseWrite"}, path : Path]
    \cup [kind : {"MovedFrom", "MovedTo"}, path : Path, cookie : Cookie]

Insert(e) ==
  \/ e.kind \in ChangeKind /\ InsertChange(e.path, e.kind)
  \/ e.kind = "CloseWrite" /\ InsertCloseWrite(e.path)
  \/ e.kind = "MovedFrom" /\ InsertMovedFrom(e.path, e.cookie)
  \/ e.kind = "MovedTo" /\ InsertMovedTo(e.path, e.cookie)

-----------------------------------------------------------------------------
(* DebounceBuffer::flush; flush_all is Remove of everything.               *)

Window(p) == IF entries[p].closeWrite THEN CloseWriteIdle ELSE IdleWindow

\* True when the entry would be flushed after d more ticks without an event.
ReadyIn(p, d) ==
  /\ Buffered(p)
  /\ \/ entries[p].quiet + d >= Window(p)
     \/ entries[p].age + d >= MaxWait

ExpiredIn(k, d) == MovePending(k) /\ moves[k].age + d >= MoveCookieTTL

ReadyPaths == {p \in Path : ReadyIn(p, 0)}
ExpiredCookies == {k \in Cookie : ExpiredIn(k, 0)}

\* The deletions of expired cookies come before every entry of the vector;
\* the entries follow in the order of a HashMap, that is, in any order.
Deletions(K) == {[path |-> moves[k].from, kind |-> "Delete", from |-> NoPath] :
                   k \in K}
Changes(P) == {[path |-> p, kind |-> entries[p].kind, from |-> entries[p].from] :
                 p \in P}

FlushedEvent == [path : Path, kind : ChangeKind \cup {"Moved"},
                 from : Path \cup {NoPath}]

\* Mutant of Remove: expired cookies are not removed.
RemoveEntries(P, K) ==
  /\ entries' = [p \in Path |-> IF p \in P THEN NoEntry ELSE entries[p]]
  /\ UNCHANGED moves

Remove(P, K) ==
  /\ entries' = [p \in Path |-> IF p \in P THEN NoEntry ELSE entries[p]]
  /\ moves' = [k \in Cookie |-> IF k \in K THEN NoMove ELSE moves[k]]

FlushReady == Remove(ReadyPaths, ExpiredCookies)

-----------------------------------------------------------------------------
(* next_deadline, as the number of ticks until the loop must wake.  It is  *)
(* defined when the buffer is not empty.                                   *)

Least(S) == CHOOSE x \in S : \A y \in S : x <= y

\* Mutant of EntryDeadline: the close-write hint is forgotten.
IdleDeadline(p) ==
  Least({IdleWindow - entries[p].quiet, MaxWait - entries[p].age})

EntryDeadline(p) ==
  Least({Window(p) - entries[p].quiet, MaxWait - entries[p].age})

NextDeadline ==
  Least({EntryDeadline(p) : p \in {q \in Path : Buffered(q)}}
          \cup {MoveCookieTTL - moves[k].age : k \in {c \in Cookie : MovePending(c)}})

-----------------------------------------------------------------------------
(* Time.                                                                   *)

Older(n, limit) == IF n < limit THEN n + 1 ELSE n

Tick ==
  /\ entries' = [p \in Path |->
                   IF Buffered(p)
                   THEN [entries[p] EXCEPT !.age = Older(@, MaxWait),
                                           !.quiet = Older(@, IdleWindow)]
                   ELSE entries[p]]
  /\ moves' = [k \in Cookie |->
                 IF MovePending(k)
                 THEN [moves[k] EXCEPT !.age = Older(@, MoveCookieTTL)]
                 ELSE moves[k]]
=============================================================================
