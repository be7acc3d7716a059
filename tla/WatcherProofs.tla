---------------------------- MODULE WatcherProofs ----------------------------
(***************************************************************************)
(* Theorems of the debounce buffer under the event loop (DebounceLoop),    *)
(* whatever events arrive and however the loop is scheduled, and of        *)
(* Watcher, for every set of paths, directories, contents and cookies,     *)
(* every choice of the windows and every bound.                            *)
(***************************************************************************)
EXTENDS Watcher, DebounceLoop, SequenceTheorems, WellFoundedInduction, TLAPS

-----------------------------------------------------------------------------
(* Types of the buffer.                                                    *)

LEMMA FreshTyped ==
  ASSUME NEW kind \in ChangeKind \cup {"Moved"}, NEW from \in Path \cup {NoPath},
         NEW c \in BOOLEAN
  PROVE  Fresh(kind, from, c) \in Entry
BY WindowAssumption DEF Fresh, Entry

LEMMA NothingTyped == NoEntry \in Entry /\ NoMove \in PendingMove
BY WindowAssumption DEF NoEntry, Entry, NoMove, PendingMove

LEMMA UpsertedTyped ==
  ASSUME BufferTypeOK, NEW p \in Path, NEW kind \in ChangeKind
  PROVE  Upserted(p, kind) \in Entry /\ Upserted(p, kind).kind = kind
<1>1. entries[p] \in Entry /\ 0 \in 0..IdleWindow
  BY WindowAssumption DEF BufferTypeOK
<1>2. Fresh(kind, NoPath, FALSE) \in Entry /\ Fresh(kind, NoPath, FALSE).kind = kind
  BY FreshTyped DEF Fresh
<1>3. LET x == [entries[p] EXCEPT !.kind = kind, !.from = NoPath, !.quiet = 0]
      IN  x \in Entry /\ x.kind = kind
  BY <1>1 DEF Entry
<1> QED BY <1>2, <1>3 DEF Upserted

\* What insert does to the entry of the event's path; no other entry changes.
LEMMA InsertEntry ==
  ASSUME BufferTypeOK, NEW e \in FsEvent, Insert(e)
  PROVE  /\ BufferTypeOK'
         /\ e.kind = "MovedFrom" => entries' = [entries EXCEPT ![e.path] = NoEntry]
         /\ e.kind # "MovedFrom" =>
              \E x \in Entry :
                /\ entries' = [entries EXCEPT ![e.path] = x]
                /\ e.kind \in ChangeKind => x.kind = e.kind
                /\ e.kind = "CloseWrite" =>
                     x.kind = IF Buffered(e.path) THEN entries[e.path].kind ELSE "Modify"
                /\ e.kind = "MovedTo" =>
                     x.kind = IF MovePending(e.cookie) THEN "Moved" ELSE "Create"
                /\ x.kind = "Moved" =>
                     \/ x.from \in Path
                     \/ x.from = entries[e.path].from /\ entries[e.path].kind = "Moved"
         /\ e.kind \notin {"MovedFrom", "MovedTo"} => moves' = moves
         /\ e.kind = "MovedTo" => \A k \in Cookie : moves'[k] \in {moves[k], NoMove}
<1>0. /\ entries \in [Path -> Entry] /\ moves \in [Cookie -> PendingMove]
      /\ e.path \in Path /\ entries[e.path] \in Entry
  BY DEF BufferTypeOK, FsEvent
<1>1. CASE e.kind \in ChangeKind
  <2>1. entries' = [entries EXCEPT ![e.path] = Upserted(e.path, e.kind)] /\ moves' = moves
    BY <1>1 DEF Insert, InsertChange, ChangeKind
  <2>2. Upserted(e.path, e.kind) \in Entry /\ Upserted(e.path, e.kind).kind = e.kind
    BY <1>0, <1>1, UpsertedTyped
  <2> QED BY <1>0, <1>1, <2>1, <2>2 DEF ChangeKind, BufferTypeOK
<1>2. CASE e.kind = "CloseWrite"
  <2> DEFINE x == IF Buffered(e.path)
                  THEN [entries[e.path] EXCEPT !.quiet = 0, !.closeWrite = TRUE]
                  ELSE Fresh("Modify", NoPath, TRUE)
  <2>1. entries' = [entries EXCEPT ![e.path] = x] /\ moves' = moves
    BY <1>0, <1>2 DEF Insert, InsertCloseWrite, ChangeKind
  <2>2. /\ x \in Entry
        /\ x.kind = IF Buffered(e.path) THEN entries[e.path].kind ELSE "Modify"
        /\ x.kind = "Moved" => x.from = entries[e.path].from
    <3>1. 0 \in 0..IdleWindow
      BY WindowAssumption
    <3>2. LET y == [entries[e.path] EXCEPT !.quiet = 0, !.closeWrite = TRUE]
          IN  /\ y \in Entry /\ y.kind = entries[e.path].kind
              /\ y.from = entries[e.path].from
      BY <1>0, <3>1 DEF Entry
    <3>3. LET y == Fresh("Modify", NoPath, TRUE) IN y \in Entry /\ y.kind = "Modify"
      BY FreshTyped DEF ChangeKind, Fresh
    <3> QED BY <3>2, <3>3
  <2> HIDE DEF x
  <2> QED BY <1>0, <1>2, <2>1, <2>2 DEF ChangeKind, BufferTypeOK
<1>3. CASE e.kind = "MovedFrom"
  <2>1. e.cookie \in Cookie
    BY <1>3 DEF FsEvent, ChangeKind
  <2>2. /\ entries' = [entries EXCEPT ![e.path] = NoEntry]
        /\ moves' = [moves EXCEPT ![e.cookie] = [from |-> e.path, age |-> 0]]
    BY <1>3 DEF Insert, InsertMovedFrom, ChangeKind
  <2>3. [from |-> e.path, age |-> 0] \in PendingMove
    BY <1>0, WindowAssumption DEF PendingMove
  <2> QED BY <1>0, <1>3, <2>1, <2>2, <2>3, NothingTyped DEF ChangeKind, BufferTypeOK
<1>4. CASE e.kind = "MovedTo"
  <2>1. e.cookie \in Cookie
    BY <1>4 DEF FsEvent, ChangeKind
  <2>2. CASE MovePending(e.cookie)
    <3> DEFINE x == Fresh("Moved", moves[e.cookie].from, FALSE)
    <3>1. /\ entries' = [entries EXCEPT ![e.path] = x]
          /\ moves' = [moves EXCEPT ![e.cookie] = NoMove]
      BY <1>4, <2>2 DEF Insert, InsertMovedTo, ChangeKind
    <3>2. moves[e.cookie].from \in Path
      BY <1>0, <2>1, <2>2 DEF PendingMove, MovePending
    <3>3. x \in Entry /\ x.kind = "Moved" /\ x.from \in Path
      BY <3>2, FreshTyped DEF Fresh
    <3> HIDE DEF x
    <3> QED BY <1>0, <1>4, <2>1, <2>2, <3>1, <3>3, NothingTyped DEF ChangeKind, BufferTypeOK
  <2>3. CASE ~MovePending(e.cookie)
    <3>1. entries' = [entries EXCEPT ![e.path] = Upserted(e.path, "Create")] /\ moves' = moves
      BY <1>4, <2>3 DEF Insert, InsertMovedTo, InsertChange, ChangeKind
    <3>2. Upserted(e.path, "Create") \in Entry /\ Upserted(e.path, "Create").kind = "Create"
      BY <1>0, UpsertedTyped DEF ChangeKind
    <3> QED BY <1>0, <1>4, <2>3, <3>1, <3>2 DEF ChangeKind, BufferTypeOK
  <2> QED BY <2>2, <2>3
<1> QED BY <1>1, <1>2, <1>3, <1>4 DEF FsEvent

\* Time changes neither what is buffered nor what it says.
LEMMA TickKeeps ==
  ASSUME BufferTypeOK, Tick
  PROVE  /\ BufferTypeOK'
         /\ \A p \in Path : entries'[p].kind = entries[p].kind
         /\ \A k \in Cookie : moves'[k].from = moves[k].from
<1>1. ASSUME NEW limit \in Nat, NEW n \in 0..limit PROVE Older(n, limit) \in 0..limit
  BY DEF Older
<1>2. ASSUME NEW p \in Path PROVE entries'[p] \in Entry /\ entries'[p].kind = entries[p].kind
  <2>1. entries[p] \in Entry
    BY DEF BufferTypeOK
  <2>2. /\ Older(entries[p].age, MaxWait) \in 0..MaxWait
        /\ Older(entries[p].quiet, IdleWindow) \in 0..IdleWindow
    BY <1>1, <2>1, WindowAssumption DEF Entry
  <2> QED BY <2>1, <2>2 DEF Entry, Tick
<1>3. ASSUME NEW k \in Cookie PROVE moves'[k] \in PendingMove /\ moves'[k].from = moves[k].from
  <2>1. moves[k] \in PendingMove
    BY DEF BufferTypeOK
  <2>2. Older(moves[k].age, MoveCookieTTL) \in 0..MoveCookieTTL
    BY <1>1, <2>1, WindowAssumption DEF PendingMove
  <2> QED BY <2>1, <2>2 DEF PendingMove, Tick
<1>4. \E f : entries' = [p \in Path |-> f[p]]
  <2>1. entries' = [p \in Path |-> entries'[p]]
    BY DEF Tick
  <2> QED BY <2>1
<1>5. \E f : moves' = [k \in Cookie |-> f[k]]
  <2>1. moves' = [k \in Cookie |-> moves'[k]]
    BY DEF Tick
  <2> QED BY <2>1
<1> QED BY <1>2, <1>3, <1>4, <1>5 DEF BufferTypeOK

\* What a flush takes out of the buffer is a set of flushed events.
LEMMA RemoveTyped ==
  ASSUME BufferTypeOK, NEW P \in SUBSET Path, NEW K \in SUBSET Cookie,
         \A p \in P : Buffered(p), \A k \in K : MovePending(k), Remove(P, K)
  PROVE  /\ BufferTypeOK'
         /\ Deletions(K) \in SUBSET FlushedEvent /\ Changes(P) \in SUBSET FlushedEvent
         /\ \A e \in Deletions(K) : e.kind = "Delete"
<1>1. BufferTypeOK'
  BY NothingTyped DEF Remove, BufferTypeOK
<1>2. ASSUME NEW k \in K PROVE moves[k].from \in Path
  BY DEF BufferTypeOK, PendingMove, MovePending
<1>3. ASSUME NEW p \in P
      PROVE  entries[p].kind \in ChangeKind \cup {"Moved"} /\ entries[p].from \in Path \cup {NoPath}
  BY DEF BufferTypeOK, Entry, Buffered
<1>4. Deletions(K) \in SUBSET FlushedEvent
  BY <1>2 DEF Deletions, FlushedEvent, ChangeKind
<1>5. Changes(P) \in SUBSET FlushedEvent
  BY <1>3 DEF Changes, FlushedEvent
<1> QED BY <1>1, <1>4, <1>5 DEF Deletions

-----------------------------------------------------------------------------
(* The buffer under the event loop and any events: types.                  *)

LEMMA LoopInitTyped == LoopInit => LoopTypeOK
BY NothingTyped DEF LoopInit, BufferInit, LoopTypeOK, BufferTypeOK, LastSaid

\* What flush takes, it takes from the buffer.
LEMMA ReadyTyped ==
  ASSUME BufferTypeOK, FlushReady
  PROVE  BufferTypeOK'
BY RemoveTyped DEF FlushReady, ReadyPaths, ExpiredCookies, ReadyIn, ExpiredIn

LEMMA LoopStepTyped == LoopTypeOK /\ [LoopNext]_loopVars => LoopTypeOK'
<1> SUFFICES ASSUME LoopTypeOK, [LoopNext]_loopVars PROVE LoopTypeOK'
  OBVIOUS
<1>1. CASE Receive
  <2>1. PICK e \in FsEvent : Insert(e) /\ report' = [report EXCEPT ![e.path] = Said(e)]
    BY <1>1 DEF Receive
  <2>2. BufferTypeOK'
    BY <2>1, InsertEntry DEF LoopTypeOK
  <2>3. Said(e) \in LastSaid
    BY DEF Said, LastSaid
  <2> QED BY <1>1, <2>1, <2>2, <2>3 DEF Receive, LoopTypeOK
<1>2. CASE Timeout
  BY <1>2 DEF Timeout, LoopTypeOK, BufferTypeOK
<1>3. CASE LoopFlush
  BY <1>3, ReadyTyped DEF LoopFlush, LoopTypeOK, LastSaid
<1>4. CASE LoopAge
  BY <1>4, TickKeeps DEF LoopAge, LoopTypeOK
<1>5. CASE UNCHANGED loopVars
  BY <1>5 DEF loopVars, LoopTypeOK, BufferTypeOK
<1> QED BY <1>1, <1>2, <1>3, <1>4, <1>5 DEF LoopNext

\* The times an entry and a pending rename carry never exceed the windows they
\* are compared with, and every entry has one of the kinds flush knows.
THEOREM BufferTypeCorrect == LoopSpec => []LoopTypeOK
BY LoopInitTyped, LoopStepTyped, PTL DEF LoopSpec

-----------------------------------------------------------------------------
(* LatestReportWins is not inductive: a close of a file that nothing has   *)
(* been said of keeps the kind of an entry left over, and a flush that     *)
(* settles a path forgets what was said of it.  EntryTellsReport also says *)
(* the converse: an entry is there only because the last report was of its *)
(* kind.                                                                   *)

EntryTellsReport ==
  \A p \in Path :
    /\ report[p] = "present" <=> entries[p].kind \in {"Create", "Modify", "Moved"}
    /\ report[p] = "gone" <=> entries[p].kind = "Delete"

LEMMA InsertTells ==
  ASSUME LoopTypeOK, EntryTellsReport, NEW e \in FsEvent, Insert(e),
         report' = [report EXCEPT ![e.path] = Said(e)]
  PROVE  EntryTellsReport'
<1>1. e.path \in Path /\ BufferTypeOK /\ entries \in [Path -> Entry] /\ report \in [Path -> LastSaid]
  BY DEF FsEvent, LoopTypeOK, BufferTypeOK
<1>2. PICK x \in Entry :
        /\ entries' = [entries EXCEPT ![e.path] = x]
        /\ Said(e) = "present" <=> x.kind \in {"Create", "Modify", "Moved"}
        /\ Said(e) = "gone" <=> x.kind = "Delete"
  <2>1. CASE e.kind = "MovedFrom"
    <3>1. entries' = [entries EXCEPT ![e.path] = NoEntry]
      BY <1>1, <2>1, InsertEntry
    <3> QED BY <2>1, <3>1, NothingTyped DEF Said, NoEntry
  <2>2. CASE e.kind # "MovedFrom"
    <3>1. PICK x \in Entry :
            /\ entries' = [entries EXCEPT ![e.path] = x]
            /\ e.kind \in ChangeKind => x.kind = e.kind
            /\ e.kind = "CloseWrite" =>
                 x.kind = IF Buffered(e.path) THEN entries[e.path].kind ELSE "Modify"
            /\ e.kind = "MovedTo" => x.kind = IF MovePending(e.cookie) THEN "Moved" ELSE "Create"
      BY <1>1, <2>2, InsertEntry
    <3>2. CASE e.kind \in ChangeKind \cup {"MovedTo"}
      BY <3>1, <3>2 DEF Said, ChangeKind
    <3>3. CASE e.kind = "CloseWrite"
      <4>1. /\ report[e.path] = "gone" <=> entries[e.path].kind = "Delete"
            /\ Buffered(e.path) => entries[e.path].kind \in {"Create", "Modify", "Moved", "Delete"}
            /\ entries[e.path].kind = "Delete" => Buffered(e.path)
        BY <1>1 DEF EntryTellsReport, Buffered, Entry, ChangeKind
      <4> QED BY <3>1, <3>3, <4>1 DEF Said, ChangeKind
    <3>4. e.kind \in ChangeKind \cup {"MovedTo", "CloseWrite"}
      BY <2>2 DEF FsEvent
    <3> QED BY <3>2, <3>3, <3>4
  <2> QED BY <2>1, <2>2
<1>3. ASSUME NEW p \in Path
      PROVE  /\ report'[p] = "present" <=> entries'[p].kind \in {"Create", "Modify", "Moved"}
             /\ report'[p] = "gone" <=> entries'[p].kind = "Delete"
  BY <1>1, <1>2 DEF EntryTellsReport
<1> QED BY <1>3 DEF EntryTellsReport

LEMMA StepTells == LoopTypeOK /\ EntryTellsReport /\ [LoopNext]_loopVars => EntryTellsReport'
<1> SUFFICES ASSUME LoopTypeOK, EntryTellsReport, [LoopNext]_loopVars PROVE EntryTellsReport'
  OBVIOUS
<1>1. CASE Receive
  BY <1>1, InsertTells DEF Receive
<1>2. CASE Timeout \/ UNCHANGED loopVars
  BY <1>2 DEF Timeout, loopVars, EntryTellsReport
<1>3. CASE LoopFlush
  <2> SUFFICES ASSUME NEW p \in Path
               PROVE  /\ report'[p] = "present" <=> entries'[p].kind \in {"Create", "Modify", "Moved"}
                      /\ report'[p] = "gone" <=> entries'[p].kind = "Delete"
    BY DEF EntryTellsReport
  <2>1. /\ entries'[p] = IF p \in ReadyPaths THEN NoEntry ELSE entries[p]
        /\ report'[p] = IF p \in SettledPaths THEN "nothing" ELSE report[p]
    BY <1>3 DEF LoopFlush, FlushReady, Remove
  <2>2. CASE p \in ReadyPaths
    BY <2>1, <2>2 DEF SettledPaths, NoEntry
  <2>3. CASE p \notin ReadyPaths /\ p \in SettledPaths
    BY <2>1, <2>3 DEF SettledPaths, EntryTellsReport
  <2>4. CASE p \notin SettledPaths
    BY <2>1, <2>4 DEF SettledPaths, EntryTellsReport
  <2> QED BY <2>2, <2>3, <2>4
<1>4. CASE LoopAge
  BY <1>4, TickKeeps DEF LoopAge, LoopTypeOK, EntryTellsReport
<1> QED BY <1>1, <1>2, <1>3, <1>4 DEF LoopNext

\* Whatever the events, their interleaving with flushes and the time between
\* them, the entry of a path says what was last said of the path: the flush
\* reads from disk every path last reported present, and only a path last
\* reported gone is deleted for an entry of its own.
THEOREM LastReportKept == LoopSpec => []LatestReportWins
<1>1. LoopInit => EntryTellsReport
  <2>1. NoEntry.kind = "None"
    BY DEF NoEntry
  <2>2. ASSUME LoopInit, NEW p \in Path
        PROVE  report[p] = "nothing" /\ entries[p] = NoEntry
    BY <2>2 DEF LoopInit, BufferInit
  <2> QED BY <2>1, <2>2 DEF EntryTellsReport
<1>2. EntryTellsReport => LatestReportWins
  BY DEF EntryTellsReport, LatestReportWins
<1> QED BY <1>1, <1>2, LoopInitTyped, LoopStepTyped, StepTells, PTL DEF LoopSpec

-----------------------------------------------------------------------------
(* The deadline.  An entry whose window a close has shortened may be overdue,  *)
(* so the times the deadline is the least of may be negative; they are bounded *)
(* all the same, and a least one exists.                                       *)

LEMMA LeastExists ==
  ASSUME NEW b \in Nat, NEW S \in SUBSET Int, S # {}, \A x \in S : 0 - b <= x
  PROVE  /\ Least(S) \in S
         /\ \A x \in S : Least(S) <= x
<1> DEFINE T == {x + b : x \in S}
<1>1. T \in SUBSET Nat /\ T # {}
  <2>1. ASSUME NEW x \in S PROVE x + b \in Nat
    BY 0 - b <= x
  <2>2. PICK x \in S : TRUE
    OBVIOUS
  <2>3. x + b \in T
    OBVIOUS
  <2> QED BY <2>1, <2>3
<1> HIDE DEF T
<1>2. PICK t \in T : \A y \in T : ~ (<<y, t>> \in OpToRel(<, Nat))
  BY <1>1, NatLessThanWellFounded, WFMin
<1>3. \A y \in T : ~ (y < t)
  BY <1>1, <1>2 DEF OpToRel
<1>4. PICK m \in S : t = m + b
  BY <1>2 DEF T
<1>5. ASSUME NEW x \in S PROVE m <= x
  <2>1. x + b \in T
    BY DEF T
  <2>2. ~ (x + b < m + b)
    BY <1>3, <1>4, <2>1
  <2> QED BY <2>2
<1> QED BY <1>4, <1>5 DEF Least

\* The deadline of one entry.
LEMMA EntryReady ==
  ASSUME BufferTypeOK, NEW p \in Path, Buffered(p), NEW d \in Nat
  PROVE  /\ EntryDeadline(p) \in Int
         /\ 0 - IdleWindow <= EntryDeadline(p)
         /\ ReadyIn(p, d) <=> d >= EntryDeadline(p)
<1> DEFINE x == Window(p) - entries[p].quiet
           y == MaxWait - entries[p].age
<1>1. /\ entries[p].quiet \in 0..IdleWindow /\ entries[p].age \in 0..MaxWait
      /\ Window(p) \in Nat
  BY WindowAssumption DEF BufferTypeOK, Entry, Window
<1>2. x \in Int /\ y \in Int /\ 0 - IdleWindow <= x /\ 0 - IdleWindow <= y
  BY <1>1, WindowAssumption
<1>3. ReadyIn(p, d) <=> d >= x \/ d >= y
  BY <1>1, WindowAssumption DEF ReadyIn
<1> HIDE DEF x, y
<1>4. Least({x, y}) \in {x, y} /\ Least({x, y}) <= x /\ Least({x, y}) <= y
  BY <1>2, LeastExists, WindowAssumption, IdleWindow \in Nat
<1>5. EntryDeadline(p) = Least({x, y})
  BY DEF EntryDeadline, x, y
<1> QED BY <1>2, <1>3, <1>4, <1>5

\* next_deadline is neither late nor early, for every choice of the windows,
\* however many paths and renames are buffered.
THEOREM DeadlineIsExact == LoopSpec => []DeadlineExact
<1>1. LoopTypeOK => DeadlineExact
  <2> SUFFICES ASSUME BufferTypeOK, ~IsEmpty, NEW d \in 0..(MaxWait + MoveCookieTTL)
               PROVE  ((\E p \in Path : ReadyIn(p, d)) \/ (\E k \in Cookie : ExpiredIn(k, d)))
                        <=> d >= NextDeadline
    BY DEF DeadlineExact, LoopTypeOK
  <2> DEFINE P == {EntryDeadline(p) : p \in {q \in Path : Buffered(q)}}
             K == {MoveCookieTTL - moves[k].age : k \in {c \in Cookie : MovePending(c)}}
  <2>1. d \in Nat
    BY WindowAssumption
  <2>2. \A k \in Cookie : moves[k].age \in 0..MoveCookieTTL
    BY DEF BufferTypeOK, PendingMove
  <2>3. P \cup K # {}
    BY DEF IsEmpty
  <2>4. P \cup K \in SUBSET Int /\ \A x \in P \cup K : 0 - IdleWindow <= x
    BY <2>2, EntryReady, WindowAssumption
  <2>5. (\E p \in Path : ReadyIn(p, d)) <=> \E x \in P : d >= x
    BY <2>1, EntryReady DEF ReadyIn
  <2>6. (\E k \in Cookie : ExpiredIn(k, d)) <=> \E x \in K : d >= x
    <3>1. ASSUME NEW k \in Cookie
          PROVE  moves[k].age + d >= MoveCookieTTL <=> d >= MoveCookieTTL - moves[k].age
      BY <2>1, <2>2, WindowAssumption
    <3> QED BY <3>1 DEF ExpiredIn
  <2>7. NextDeadline = Least(P \cup K)
    BY DEF NextDeadline
  <2> HIDE DEF P, K
  <2>8. Least(P \cup K) \in P \cup K /\ \A x \in P \cup K : Least(P \cup K) <= x
    BY <2>3, <2>4, LeastExists, WindowAssumption, IdleWindow \in Nat
  <2>9. (\E x \in P \cup K : d >= x) <=> d >= Least(P \cup K)
    BY <2>1, <2>4, <2>8
  <2> QED BY <2>5, <2>6, <2>7, <2>9
<1> QED BY <1>1, BufferTypeCorrect, PTL

-----------------------------------------------------------------------------
(* What the queue says.  An event tells of a path unless it is the source   *)
(* of a rename, which makes the buffer forget the path.                    *)

Leaves(v, x) == v.kind = "MovedFrom" /\ v.path = x
Tells(v, x) == v.kind \notin {"MovedFrom", "Overflow"} /\ v.path = x

Leaving(s, x) == \E i \in 1..Len(s) : Leaves(s[i], x)
Told(s, x) == \E i \in 1..Len(s) :
                Tells(s[i], x) /\ \A j \in 1..Len(s) : j > i => ~Leaves(s[j], x)
Marked(s) == \E i \in 1..Len(s) : s[i] = OverflowMark

Queued == FsEvent \cup {OverflowMark}

\* A directory is reported as created, or as an end of a rename.
OfDir(v) == v.path \in Dir => v.kind \in {"Create", "MovedFrom", "MovedTo"}

LEMMA OneEvent ==
  ASSUME NEW a \in FsEvent
  PROVE  /\ <<a>> \in Seq(FsEvent) /\ Len(<<a>>) = 1 /\ <<a>>[1] = a
         /\ \A x : (Told(<<a>>, x) <=> Tells(a, x)) /\ (Leaving(<<a>>, x) <=> Leaves(a, x))
BY DEF Told, Leaving

LEMMA TwoEvents ==
  ASSUME NEW a \in FsEvent, NEW b \in FsEvent
  PROVE  /\ <<a, b>> \in Seq(FsEvent) /\ Len(<<a, b>>) = 2
         /\ <<a, b>>[1] = a /\ <<a, b>>[2] = b
         /\ \A x : /\ Told(<<a, b>>, x) <=> Tells(b, x) \/ (Tells(a, x) /\ ~Leaves(b, x))
                   /\ Leaving(<<a, b>>, x) <=> Leaves(a, x) \/ Leaves(b, x)
<1> DEFINE s == <<a, b>>
<1>1. s \in Seq(FsEvent) /\ Len(s) = 2 /\ s[1] = a /\ s[2] = b
  OBVIOUS
<1> HIDE DEF s
<1>2. ASSUME NEW x PROVE Leaving(s, x) <=> Leaves(a, x) \/ Leaves(b, x)
  <2>1. 1..Len(s) = {1, 2}
    BY <1>1
  <2> QED BY <1>1, <2>1 DEF Leaving
<1>3. ASSUME NEW x PROVE Told(s, x) <=> Tells(b, x) \/ (Tells(a, x) /\ ~Leaves(b, x))
  <2>1. 1..Len(s) = {1, 2}
    BY <1>1
  <2>2. Tells(b, x) => \A j \in 1..Len(s) : j > 2 => ~Leaves(s[j], x)
    BY <2>1
  <2>3. (\A j \in 1..Len(s) : j > 1 => ~Leaves(s[j], x)) <=> ~Leaves(b, x)
    BY <1>1, <2>1
  <2> QED BY <1>1, <2>1, <2>2, <2>3 DEF Told
<1> QED BY <1>1, <1>2, <1>3 DEF s

\* The paths an event that leads to x may be about: x, or a directory it is in.
Above(x) == {x} \cup {y \in Dir : x \in Files(y)}

\* What a change of the disk leaves to be said of a path: nothing, or a report
\* is on its way, or nothing happened and no report is taken back.
Reported(events, p) ==
  \/ fs'[p] = Absent
  \/ \E y \in Above(p) : Told(events, y)
  \/ fs'[p] = fs[p] /\ \A y \in Above(p) : ~Leaving(events, y)

ReportedChange(events) ==
  /\ events \in Seq(FsEvent)
  /\ Report(events)
  /\ fs' \in Disk
  /\ \A i \in 1..Len(events) : OfDir(events[i])
  /\ \A p \in Path : Reported(events, p)

LEMMA EventTyped ==
  ASSUME NEW p \in Path, NEW kind \in ChangeKind \cup {"CloseWrite"}
  PROVE  /\ Event(kind, p) \in FsEvent
         /\ Event(kind, p).kind = kind /\ Event(kind, p).path = p
BY DEF Event, FsEvent

LEMMA MoveEventTyped ==
  ASSUME NEW p \in Path, NEW kind \in {"MovedFrom", "MovedTo"}, NEW k \in Cookie
  PROVE  /\ MoveEvent(kind, p, k) \in FsEvent
         /\ MoveEvent(kind, p, k).kind = kind /\ MoveEvent(kind, p, k).path = p
BY DEF MoveEvent, FsEvent

LEMMA OneReported ==
  ASSUME NEW a \in FsEvent, OfDir(a), Report(<<a>>), fs' \in Disk,
         \A p \in Path :
           \/ fs'[p] = Absent
           \/ \E y \in Above(p) : Tells(a, y)
           \/ fs'[p] = fs[p] /\ \A y \in Above(p) : ~Leaves(a, y)
  PROVE  ReportedChange(<<a>>)
<1>1. \A i \in 1..Len(<<a>>) : OfDir(<<a>>[i])
  BY OneEvent
<1> QED BY <1>1, OneEvent DEF ReportedChange, Reported

LEMMA TwoReported ==
  ASSUME NEW a \in FsEvent, NEW b \in FsEvent, OfDir(a), OfDir(b), Report(<<a, b>>),
         fs' \in Disk,
         \A p \in Path :
           \/ fs'[p] = Absent
           \/ \E y \in Above(p) : Tells(b, y)
           \/ fs'[p] = fs[p] /\ \A y \in Above(p) : ~Leaves(a, y) /\ ~Leaves(b, y)
  PROVE  ReportedChange(<<a, b>>)
<1> DEFINE s == <<a, b>>
<1>1. /\ s \in Seq(FsEvent) /\ Len(s) = 2 /\ s[1] = a /\ s[2] = b
      /\ \A x : /\ Told(s, x) <=> Tells(b, x) \/ (Tells(a, x) /\ ~Leaves(b, x))
                /\ Leaving(s, x) <=> Leaves(a, x) \/ Leaves(b, x)
  BY TwoEvents
<1> HIDE DEF s
<1>2. \A i \in 1..Len(s) : OfDir(s[i])
  <2>1. 1..Len(s) = {1, 2}
    BY <1>1
  <2> QED BY <1>1, <2>1
<1>3. Report(s)
  BY DEF s
<1>4. \A p \in Path : Reported(s, p)
  BY <1>1 DEF Reported
<1>5. ReportedChange(s)
  BY <1>1, <1>2, <1>3, <1>4 DEF ReportedChange
<1> QED BY <1>5 DEF s

\* A change, and perhaps a close after it.
LEMMA ClosingReported ==
  ASSUME NEW a \in FsEvent, NEW p \in Path, p \notin Dir, a.path = p, Tells(a, p),
         fs' \in Disk, \A q \in Path : q # p => fs'[q] = fs[q],
         \E closed \in {<<>>, <<Event("CloseWrite", p)>>} : Report(<<a>> \o closed)
  PROVE  \E events : ReportedChange(events)
<1> DEFINE b == Event("CloseWrite", p)
<1>1. b \in FsEvent /\ Tells(b, p) /\ b.kind = "CloseWrite" /\ b.path = p
  BY EventTyped DEF Tells
<1>2. ~Leaves(a, p) /\ OfDir(a) /\ OfDir(b) /\ \A y : ~Leaves(b, y) /\ ~Leaves(a, y)
  BY <1>1 DEF OfDir, Tells, Leaves
<1>3. p \in Above(p)
  BY DEF Above
<1> HIDE DEF b
<1>4. CASE Report(<<a>>)
  BY <1>1, <1>2, <1>3, <1>4, OneReported
<1>5. CASE Report(<<a, b>>)
  BY <1>1, <1>2, <1>3, <1>5, TwoReported
<1>6. <<a>> \o <<>> = <<a>> /\ <<a>> \o <<b>> = <<a, b>>
  <2>1. <<a>> \in Seq(FsEvent) /\ <<b>> \in Seq(FsEvent)
    BY <1>1
  <2>2. <<a>> \o <<b>> = <<a, b>>
    <3> DEFINE s == <<a>> \o <<b>>
               t == <<a, b>>
    <3>1. Len(<<a>>) = 1 /\ Len(<<b>>) = 1 /\ <<a>>[1] = a /\ <<b>>[1] = b
      BY <1>1, OneEvent
    <3>2. s \in Seq(FsEvent) /\ Len(s) = 2 /\ s[1] = a /\ s[2] = b
      <4>1. /\ s \in Seq(FsEvent) /\ Len(s) = 1 + 1
            /\ \A i \in 1..(1 + 1) : s[i] = IF i <= 1 THEN <<a>>[i] ELSE <<b>>[i - 1]
        BY <2>1, <3>1, ConcatProperties
      <4> QED BY <3>1, <4>1
    <3>3. t \in Seq(FsEvent) /\ Len(t) = 2 /\ t[1] = a /\ t[2] = b
      BY <1>1, TwoEvents
    <3> HIDE DEF s, t
    <3>4. \A i \in 1..2 : s[i] = t[i]
      <4>1. 1..2 = {1, 2}
        OBVIOUS
      <4> QED BY <3>2, <3>3, <4>1
    <3>5. s = t
      BY <3>2, <3>3, <3>4, SeqEqual
    <3> QED BY <3>5 DEF s, t
  <2> QED BY <2>1, <2>2, ConcatEmptySeq
<1> QED BY <1>4, <1>5, <1>6 DEF b

LEMMA FilesTyped == \A d \in Dir : d \in Path /\ Files(d) \subseteq Path \ Dir
BY DirAssumption DEF Files

LEMMA DiskFacts ==
  ASSUME TypeOK
  PROVE  /\ fs \in [Path -> File] /\ Absent \in File /\ Content \subseteq File
         /\ \A d \in Dir : d \in Path /\ fs[d] = Absent /\ Files(d) \subseteq Path \ Dir
BY FilesTyped DEF TypeOK, Disk, File

LEMMA EmptiedTyped ==
  ASSUME TypeOK, NEW d \in Dir
  PROVE  /\ Emptied(d) \in Disk
         /\ \A p \in Path : Emptied(d)[p] = IF p \in Files(d) THEN Absent ELSE fs[p]
BY DiskFacts DEF Emptied, Disk

LEMMA ExceptDisk ==
  ASSUME TypeOK, NEW p \in Path, p \notin Dir, NEW c \in File
  PROVE  [fs EXCEPT ![p] = c] \in Disk
BY DiskFacts DEF Disk

\* Every operation of the disk reports what it makes appear, and takes back
\* reports only of what it makes disappear.
LEMMA OperationReports ==
  ASSUME TypeOK, FileSystem
  PROVE  \E events : ReportedChange(events)
<1>f. /\ fs \in [Path -> File] /\ Absent \in File /\ Content \subseteq File
      /\ \A d \in Dir : d \in Path /\ fs[d] = Absent /\ Files(d) \subseteq Path \ Dir
      /\ fs \in Disk
  BY DiskFacts DEF TypeOK
<1>a. \A p : p \in Above(p) /\ \A y \in Above(p) : y # p => y \in Dir /\ p \in Files(y)
  BY DEF Above
<1>1. ASSUME NEW p \in Path, NEW c \in Content, Write(p, c)
      PROVE  \E events : ReportedChange(events)
  <2> DEFINE a == Event(IF fs[p] = Absent THEN "Create" ELSE "Modify", p)
  <2>1. a \in FsEvent /\ Tells(a, p) /\ a.path = p
    BY EventTyped DEF Tells, ChangeKind
  <2>2. /\ p \notin Dir /\ fs' = [fs EXCEPT ![p] = c]
        /\ \E closed \in {<<>>, <<Event("CloseWrite", p)>>} : Report(<<a>> \o closed)
    BY <1>1 DEF Write
  <2>3. fs' \in Disk /\ \A q \in Path : q # p => fs'[q] = fs[q]
    BY <1>f, <2>2, ExceptDisk
  <2> HIDE DEF a
  <2> QED BY <2>1, <2>2, <2>3, ClosingReported
<1>2. ASSUME NEW p \in Path, NEW c \in Content, MoveIn(p, c)
      PROVE  \E events : ReportedChange(events)
  <2>1. PICK k \in Cookie : Report(<<MoveEvent("MovedTo", p, k)>>)
    BY <1>2 DEF MoveIn
  <2>2. p \notin Dir /\ fs' = [fs EXCEPT ![p] = c]
    BY <1>2 DEF MoveIn
  <2> DEFINE a == MoveEvent("MovedTo", p, k)
  <2>3. a \in FsEvent /\ Tells(a, p) /\ OfDir(a) /\ \A y : ~Leaves(a, y)
    BY <2>2, MoveEventTyped DEF Tells, OfDir, Leaves
  <2>4. fs' \in Disk /\ \A q \in Path : q # p => fs'[q] = fs[q]
    BY <1>f, <2>2, ExceptDisk
  <2>5. Report(<<a>>)
    BY <2>1
  <2> HIDE DEF a
  <2> QED BY <1>a, <2>3, <2>4, <2>5, OneReported
<1>3. ASSUME NEW p \in Path, Delete(p)
      PROVE  \E events : ReportedChange(events)
  <2> DEFINE a == Event("Delete", p)
  <2>1. p \notin Dir /\ fs' = [fs EXCEPT ![p] = Absent] /\ Report(<<a>>)
    BY <1>3, <1>f DEF Delete
  <2>2. a \in FsEvent /\ OfDir(a) /\ \A y : ~Leaves(a, y)
    BY <2>1, EventTyped DEF ChangeKind, OfDir, Leaves
  <2>3. fs' \in Disk /\ fs'[p] = Absent /\ \A q \in Path : q # p => fs'[q] = fs[q]
    BY <1>f, <2>1, ExceptDisk
  <2> HIDE DEF a
  <2> QED BY <2>1, <2>2, <2>3, OneReported
<1>4. ASSUME NEW p \in Path, MoveOut(p)
      PROVE  \E events : ReportedChange(events)
  <2>1. PICK k \in Cookie : Report(<<MoveEvent("MovedFrom", p, k)>>)
    BY <1>4 DEF MoveOut
  <2> DEFINE a == MoveEvent("MovedFrom", p, k)
  <2>2. p \notin Dir /\ fs' = [fs EXCEPT ![p] = Absent] /\ Report(<<a>>)
    BY <1>4, <1>f, <2>1 DEF MoveOut
  <2>3. a \in FsEvent /\ OfDir(a) /\ \A y : Leaves(a, y) => y = p
    BY MoveEventTyped DEF OfDir, Leaves
  <2>4. fs' \in Disk /\ fs'[p] = Absent /\ \A q \in Path : q # p => fs'[q] = fs[q]
    BY <1>f, <2>2, ExceptDisk
  <2> HIDE DEF a
  <2>5. \A q \in Path : q # p => p \notin Above(q)
    BY <1>a, <2>2
  <2> QED BY <2>2, <2>3, <2>4, <2>5, OneReported
<1>5. ASSUME NEW p \in Path, LateWrite(p)
      PROVE  \E events : ReportedChange(events)
  <2> DEFINE a == Event("Modify", p)
  <2>1. a \in FsEvent /\ Tells(a, p) /\ a.path = p
    BY EventTyped DEF Tells, ChangeKind
  <2>2. /\ p \notin Dir /\ fs' = fs
        /\ \E closed \in {<<>>, <<Event("CloseWrite", p)>>} : Report(<<a>> \o closed)
    BY <1>5 DEF LateWrite
  <2> HIDE DEF a
  <2> QED BY <1>f, <2>1, <2>2, ClosingReported
<1>6. ASSUME NEW p \in Path, NEW q \in Path, Rename(p, q)
      PROVE  \E events : ReportedChange(events)
  <2>1. PICK k \in Cookie : Report(<<MoveEvent("MovedFrom", p, k), MoveEvent("MovedTo", q, k)>>)
    BY <1>6 DEF Rename
  <2> DEFINE a == MoveEvent("MovedFrom", p, k)
             b == MoveEvent("MovedTo", q, k)
  <2>2. /\ p \notin Dir /\ q \notin Dir /\ p # q
        /\ fs' = [fs EXCEPT ![q] = fs[p], ![p] = Absent] /\ Report(<<a, b>>)
    BY <1>6, <1>f, <2>1 DEF Rename
  <2>3. /\ a \in FsEvent /\ OfDir(a) /\ b \in FsEvent /\ OfDir(b) /\ Tells(b, q)
        /\ \A y : Leaves(a, y) => y = p
        /\ \A y : ~Leaves(b, y)
    BY MoveEventTyped DEF OfDir, Leaves, Tells
  <2>4. /\ fs' \in Disk /\ fs'[p] = Absent
        /\ \A x \in Path : x \notin {p, q} => fs'[x] = fs[x]
    BY <1>f, <2>2 DEF Disk
  <2> HIDE DEF a, b
  <2>5. \A x \in Path : x # p => p \notin Above(x)
    BY <1>a, <2>2
  <2> QED BY <1>a, <2>2, <2>3, <2>4, <2>5, TwoReported
<1>7. ASSUME NEW d \in Dir, NEW e \in Dir, RenameDir(d, e)
      PROVE  \E events : ReportedChange(events)
  <2>1. PICK k \in Cookie : Report(<<MoveEvent("MovedFrom", d, k), MoveEvent("MovedTo", e, k)>>)
    BY <1>7 DEF RenameDir
  <2> DEFINE a == MoveEvent("MovedFrom", d, k)
             b == MoveEvent("MovedTo", e, k)
  <2>2. /\ d # e /\ Report(<<a, b>>)
        /\ fs' = [p \in Path |-> IF p \in Files(e)
                                 THEN fs[Below[d][CHOOSE n \in Name : Below[e][n] = p]]
                                 ELSE Emptied(d)[p]]
    BY <1>7, <2>1 DEF RenameDir
  <2>3. /\ a \in FsEvent /\ OfDir(a) /\ b \in FsEvent /\ OfDir(b) /\ Tells(b, e)
        /\ \A y : Leaves(a, y) => y = d
        /\ \A y : ~Leaves(b, y)
    BY <1>f, MoveEventTyped DEF OfDir, Leaves, Tells
  <2>4. fs' \in Disk
    <3>1. ASSUME NEW p \in Path, p \in Files(e)
          PROVE  Below[d][CHOOSE n \in Name : Below[e][n] = p] \in Path
      <4>1. PICK n \in Name : Below[e][n] = p
        BY <3>1 DEF Files
      <4>2. (CHOOSE m \in Name : Below[e][m] = p) \in Name
        BY <4>1
      <4> QED BY <4>2, DirAssumption
    <3>2. Emptied(d) \in Disk
      BY EmptiedTyped
    <3>3. \A p \in Path : fs'[p] \in File
      BY <1>f, <2>2, <3>1, <3>2 DEF Disk
    <3>4. \A x \in Dir : fs'[x] = Absent
      BY <1>f, <2>2, <3>2 DEF Disk
    <3> QED BY <2>2, <3>3, <3>4 DEF Disk
  <2>5. ASSUME NEW p \in Path
        PROVE  \/ fs'[p] = Absent
               \/ \E y \in Above(p) : Tells(b, y)
               \/ fs'[p] = fs[p] /\ \A y \in Above(p) : ~Leaves(a, y) /\ ~Leaves(b, y)
    <3>1. CASE p \in Files(e)
      BY <2>3, <3>1 DEF Above
    <3>2. CASE p \notin Files(e) /\ p \in Files(d)
      BY <2>2, <3>2, EmptiedTyped
    <3>3. CASE p \notin Files(e) /\ p \notin Files(d) /\ p # d
      <4>1. fs'[p] = fs[p]
        BY <2>2, <3>3, EmptiedTyped
      <4>2. d \notin Above(p)
        BY <3>3 DEF Above
      <4> QED BY <2>3, <4>1, <4>2
    <3>4. CASE p = d
      BY <2>4, <3>4 DEF Disk
    <3> QED BY <3>1, <3>2, <3>3, <3>4
  <2> HIDE DEF a, b
  <2> QED BY <2>2, <2>3, <2>4, <2>5, TwoReported
<1>8. ASSUME NEW d \in Dir, MoveOutDir(d)
      PROVE  \E events : ReportedChange(events)
  <2>1. PICK k \in Cookie : Report(<<MoveEvent("MovedFrom", d, k)>>)
    BY <1>8 DEF MoveOutDir
  <2> DEFINE a == MoveEvent("MovedFrom", d, k)
  <2>2. fs' = Emptied(d) /\ Report(<<a>>)
    BY <1>8, <2>1 DEF MoveOutDir
  <2>3. a \in FsEvent /\ OfDir(a) /\ \A y : Leaves(a, y) => y = d
    BY <1>f, MoveEventTyped DEF OfDir, Leaves
  <2>4. /\ fs' \in Disk /\ \A p \in Path : p \in Files(d) => fs'[p] = Absent
        /\ \A p \in Path : p \notin Files(d) => fs'[p] = fs[p]
    BY <2>2, EmptiedTyped
  <2>5. \A p \in Path : p \notin Files(d) /\ p # d => d \notin Above(p)
    BY DEF Above
  <2>6. fs'[d] = Absent
    BY <2>4 DEF Disk
  <2> HIDE DEF a
  <2> QED BY <2>2, <2>3, <2>4, <2>5, <2>6, OneReported
<1>9. ASSUME NEW d \in Dir, NEW held \in [Name -> Content], ArriveDir(d, held)
      PROVE  \E events : ReportedChange(events)
  <2>1. PICK a \in FsEvent : /\ a.kind \in {"Create", "MovedTo"} /\ a.path = d
                             /\ Report(<<a>>)
    <3>1. CASE Report(<<Event("Create", d)>>)
      BY <1>f, <3>1, EventTyped DEF ChangeKind
    <3>2. ASSUME NEW k \in Cookie, Report(<<MoveEvent("MovedTo", d, k)>>)
          PROVE  \E a \in FsEvent : /\ a.kind \in {"Create", "MovedTo"} /\ a.path = d
                                    /\ Report(<<a>>)
      BY <1>f, <3>2, MoveEventTyped
    <3> QED BY <1>9, <3>1, <3>2 DEF ArriveDir
  <2>2. OfDir(a) /\ Tells(a, d) /\ \A y : ~Leaves(a, y)
    BY <2>1 DEF OfDir, Tells, Leaves
  <2>3. fs' = [p \in Path |-> IF \E n \in Name : p = Below[d][n]
                              THEN held[CHOOSE n \in Name : p = Below[d][n]] ELSE fs[p]]
    BY <1>9 DEF ArriveDir
  <2>4. \A p \in Path : p \in Files(d) => fs'[p] \in Content
    <3>1. ASSUME NEW p \in Path, p \in Files(d)
          PROVE  (CHOOSE n \in Name : p = Below[d][n]) \in Name
      <4>1. PICK n \in Name : p = Below[d][n]
        BY <3>1 DEF Files
      <4> QED BY <4>1
    <3> QED BY <2>3, <3>1 DEF Files
  <2>5. \A p \in Path : p \notin Files(d) => fs'[p] = fs[p]
    BY <2>3 DEF Files
  <2>6. fs' \in Disk
    <3>1. \A p \in Path : fs'[p] \in File
      BY <1>f, <2>4, <2>5
    <3>2. \A x \in Dir : fs'[x] = Absent
      BY <1>f, <2>5
    <3> QED BY <2>3, <3>1, <3>2 DEF Disk
  <2>7. \A p \in Path : p \in Files(d) => d \in Above(p)
    BY DEF Above
  <2> QED BY <2>1, <2>2, <2>5, <2>6, <2>7, OneReported
<1> QED BY <1>1, <1>2, <1>3, <1>4, <1>5, <1>6, <1>7, <1>8, <1>9 DEF FileSystem

-----------------------------------------------------------------------------
(* Rows.  Whatever an event does to the rows, whole or in part, each path    *)
(* keeps its content, gets the one that is on disk, or loses it.            *)

ReadInto(new, old) ==
  /\ new \in Rows
  /\ \A p \in Path : new.live[p] \in {old.live[p], fs[p], Absent}

LEMMA ReadIntoTwice ==
  ASSUME NEW r, NEW s, NEW t, ReadInto(s, r), ReadInto(t, s)
  PROVE  ReadInto(t, r)
BY DEF ReadInto

LEMMA RowsFields ==
  ASSUME NEW rows \in Rows
  PROVE  rows.live \in [Path -> File] /\ rows.view \in [Path -> File] /\ Absent \in File
BY DEF Rows, File

LEMMA ClosedReads ==
  ASSUME NEW rows \in Rows, NEW p
  PROVE  /\ ReadInto(Closed(rows, p), rows) /\ ReadInto(ClosedUnreported(rows, p), rows)
         /\ p \in Path => Closed(rows, p).live[p] = Absent
<1>1. rows.live \in [Path -> File] /\ rows.view \in [Path -> File] /\ Absent \in File
  BY RowsFields
<1>2. /\ ReadInto(Closed(rows, p), rows)
      /\ p \in Path => Closed(rows, p).live[p] = Absent
  BY <1>1 DEF ReadInto, Closed, Rows
<1>3. ReadInto(ClosedUnreported(rows, p), rows)
  BY <1>1 DEF ReadInto, ClosedUnreported, Rows
<1> QED BY <1>2, <1>3

LEMMA IndexedReads ==
  ASSUME fs \in [Path -> File], NEW rows \in Rows, NEW F
  PROVE  /\ ReadInto(Indexed(rows, F), rows)
         /\ \A p \in F \cap Path : fs[p] # Absent => Indexed(rows, F).live[p] = fs[p]
<1>1. rows.live \in [Path -> File] /\ rows.view \in [Path -> File] /\ Absent \in File
  BY RowsFields
<1> QED BY <1>1 DEF ReadInto, Indexed, Rows

LEMMA HalfIndexedReads ==
  ASSUME fs \in [Path -> File], NEW rows \in Rows, NEW path, NEW t \in HalfIndexed(rows, path)
  PROVE  ReadInto(t, rows)
<1>1. CASE \E F : t = Indexed(rows, F)
  BY <1>1, IndexedReads
<1>2. ASSUME NEW F, NEW p, NEW c \in {Absent, fs[p]}, t = [Indexed(rows, F) EXCEPT !.live[p] = c]
      PROVE  ReadInto(t, rows)
  <2> DEFINE s == Indexed(rows, F)
  <2>1. ReadInto(s, rows)
    BY IndexedReads
  <2>2. t = [s EXCEPT !.live[p] = c]
    BY <1>2
  <2> HIDE DEF s
  <2>3. s.live \in [Path -> File] /\ s.view \in [Path -> File] /\ Absent \in File
    BY <2>1, RowsFields DEF ReadInto
  <2> QED BY <2>1, <2>2, <2>3 DEF ReadInto, Rows
<1>3. (\E F : t = Indexed(rows, F)) \/
      (\E F, p : \E c \in {Absent, fs[p]} : t = [Indexed(rows, F) EXCEPT !.live[p] = c])
  BY DEF HalfIndexed
<1> QED BY <1>1, <1>2, <1>3

LEMMA AppliedReads ==
  ASSUME TypeOK, NEW e
  PROVE  ReadInto(Applied(e), tx)
<1>1. tx \in Rows /\ fs \in [Path -> File]
  BY DiskFacts DEF TypeOK
<1>2. ReadInto(Closed(tx, e.path), tx) /\ ReadInto(Indexed(tx, FilesAt(e.path)), tx)
  BY <1>1, ClosedReads, IndexedReads
<1>3. ReadInto(Indexed(Closed(tx, e.from), FilesAt(e.path)), tx)
  <2> DEFINE s == Closed(tx, e.from)
  <2>1. ReadInto(s, tx) /\ s \in Rows
    BY <1>1, ClosedReads DEF ReadInto
  <2>2. ReadInto(Indexed(s, FilesAt(e.path)), s)
    BY <1>1, <2>1, IndexedReads
  <2> HIDE DEF s
  <2>3. ReadInto(Indexed(s, FilesAt(e.path)), tx)
    BY <2>1, <2>2, ReadIntoTwice
  <2> QED BY <2>3 DEF s
<1>4. Applied(e) \in {Closed(tx, e.path), Indexed(tx, FilesAt(e.path)),
                      Indexed(Closed(tx, e.from), FilesAt(e.path))}
  BY DEF Applied
<1> QED BY <1>2, <1>3, <1>4

LEMMA HalfAppliedReads ==
  ASSUME TypeOK, NEW e, NEW t \in HalfApplied(e)
  PROVE  ReadInto(t, tx)
<1>1. tx \in Rows /\ fs \in [Path -> File]
  BY DiskFacts DEF TypeOK
<1>2. CASE t \in {tx, ClosedUnreported(tx, e.path), ClosedUnreported(tx, e.from)}
  BY <1>1, <1>2, ClosedReads DEF ReadInto
<1>3. CASE t \in HalfIndexed(tx, e.path)
  BY <1>1, <1>3, HalfIndexedReads
<1>4. CASE t \in HalfIndexed(Closed(tx, e.from), e.path)
  <2> DEFINE s == Closed(tx, e.from)
  <2>1. ReadInto(s, tx) /\ s \in Rows
    BY <1>1, ClosedReads DEF ReadInto
  <2>2. ReadInto(t, s)
    BY <1>1, <1>4, <2>1, HalfIndexedReads
  <2> HIDE DEF s
  <2> QED BY <2>1, <2>2, ReadIntoTwice
<1> QED BY <1>2, <1>3, <1>4 DEF HalfApplied

\* The live rows the loop goes on from.
Held == IF phase = "batch" THEN tx.live ELSE db.live

\* What any scan leaves, one that meets a fault too: a row as it was, the
\* file, or none, and a log that moves with the rows.
ScannedTo(t) ==
  /\ t \in Rows
  /\ \A p \in Path : t.live[p] \in {db.live[p], fs[p], Absent}
  /\ db.view = db.live => t.view = t.live

LEMMA RewrittenTyped ==
  ASSUME TypeOK, NEW live \in [Path -> File],
         \A p \in Path : live[p] \in {db.live[p], fs[p], Absent}
  PROVE  ScannedTo(Rewritten(live)) /\ Rewritten(live).live = live
<1> DEFINE view == [p \in Path |-> IF live[p] = db.live[p] THEN db.view[p] ELSE live[p]]
<1>1. db.view \in [Path -> File] /\ db.live \in [Path -> File]
  BY RowsFields DEF TypeOK
<1>2. Rewritten(live) = [live |-> live, view |-> view]
  BY DEF Rewritten
<1>3. view \in [Path -> File]
  BY <1>1
<1>4. ASSUME db.view = db.live PROVE view = live
  <2>1. \A p \in Path : view[p] = live[p]
    BY <1>4
  <2> HIDE DEF view
  <2> QED BY <1>3, <2>1
<1> HIDE DEF view
<1> QED BY <1>2, <1>3, <1>4 DEF ScannedTo, Rows

LEMMA ScannedTyped ==
  ASSUME TypeOK
  PROVE  /\ ScannedTo(Scanned) /\ Scanned.live = [p \in Path |-> ScanOf(p)]
         /\ \A S : ScannedTo(ScannedWithout(S)) /\ ScannedTo(ScannedOnly(S))
<1>1. fs \in [Path -> File] /\ db.live \in [Path -> File] /\ Absent \in File
  BY DiskFacts, RowsFields DEF TypeOK, File
<1>2. \A p \in Path : ScanOf(p) \in {db.live[p], fs[p]} /\ ScanOf(p) \in File
  BY <1>1 DEF ScanOf
<1>3. ScannedTo(Scanned) /\ Scanned.live = [p \in Path |-> ScanOf(p)]
  <2> DEFINE live == [p \in Path |-> ScanOf(p)]
  <2>1. live \in [Path -> File] /\ \A p \in Path : live[p] \in {db.live[p], fs[p], Absent}
    BY <1>2
  <2> HIDE DEF live
  <2>2. ScannedTo(Rewritten(live)) /\ Rewritten(live).live = live
    BY <2>1, RewrittenTyped
  <2> QED BY <2>2 DEF Scanned, live
<1>4. ASSUME NEW S PROVE ScannedTo(ScannedWithout(S))
  <2> DEFINE live == [p \in Path |-> IF p \in S THEN Absent ELSE ScanOf(p)]
  <2>1. live \in [Path -> File] /\ \A p \in Path : live[p] \in {db.live[p], fs[p], Absent}
    BY <1>1, <1>2
  <2> HIDE DEF live
  <2>2. ScannedTo(Rewritten(live))
    BY <2>1, RewrittenTyped
  <2> QED BY <2>2 DEF ScannedWithout, live
<1>5. ASSUME NEW S PROVE ScannedTo(ScannedOnly(S))
  <2> DEFINE live == [p \in Path |-> IF p \in S /\ fs[p] # Absent THEN ScanOf(p) ELSE db.live[p]]
  <2>1. live \in [Path -> File] /\ \A p \in Path : live[p] \in {db.live[p], fs[p], Absent}
    BY <1>1, <1>2
  <2> HIDE DEF live
  <2>2. ScannedTo(Rewritten(live))
    BY <2>1, RewrittenTyped
  <2> QED BY <2>2 DEF ScannedOnly, live
<1> QED BY <1>3, <1>4, <1>5

\* A scan of the loop, whether it meets a fault or not.
AnyScan == FullScan \/ ScanDrops \/ ScanStops

LEMMA AnyScanTyped ==
  ASSUME TypeOK, AnyScan
  PROVE  /\ ScannedTo(db') /\ tx' = db' /\ prev' = db'.live
         /\ unhealed' \in BOOLEAN /\ unread' \in SUBSET Path /\ faults' \in 0..MaxFaults
<1>1. CASE FullScan
  BY <1>1, ScannedTyped DEF FullScan, Reload, TypeOK
<1>2. CASE ScanDrops \/ ScanStops
  <2>1. faults < MaxFaults /\ faults' = faults + 1 /\ unhealed' = TRUE /\ UNCHANGED unread
    BY <1>2 DEF ScanDrops, ScanStops, Faulty
  <2>2. faults' \in 0..MaxFaults
    BY <2>1, BoundAssumption DEF TypeOK
  <2>3. PICK S : Reload(ScannedWithout(S)) \/ Reload(ScannedOnly(S))
    BY <1>2 DEF ScanDrops, ScanStops
  <2> QED BY <2>1, <2>2, <2>3, ScannedTyped DEF Reload, TypeOK
<1> QED BY <1>1, <1>2 DEF AnyScan

\* After a scan without a fault a row is the file's or was taken for it.
Passed(p) ==
  p \in unread /\ Absent \notin {Held[p], fs[p]} /\ Looks[Held[p]] = Looks[fs[p]]

LEMMA FullScanLeaves ==
  ASSUME TypeOK, FullScan, UNCHANGED fs, phase' # "batch", NEW p \in Path
  PROVE  Held'[p] = fs[p] \/ Passed(p)'
<1>1. Held' = [q \in Path |-> ScanOf(q)]
  BY ScannedTyped DEF FullScan, Reload, Held
<1>2. Held'[p] = IF TakenOver(p) THEN db.live[p] ELSE fs[p]
  BY <1>1 DEF ScanOf
<1>3. TakenOver(p) /\ db.live[p] # fs[p] => p \in unread'
  BY DEF FullScan
<1> QED BY <1>2, <1>3 DEF Passed, TakenOver

-----------------------------------------------------------------------------
(* Type correctness.                                                       *)

LEMMA MarkTyped == OverflowMark \in Queued /\ OverflowMark.kind = "Overflow"
                   /\ \A e \in FsEvent : e.kind # "Overflow"
BY DEF OverflowMark, Queued, FsEvent, ChangeKind

LEMMA ReportTyped ==
  ASSUME TypeOK, NEW events \in Seq(FsEvent), Report(events)
  PROVE  queue' \in Seq(Queued) /\ losses' \in 0..MaxLosses
<1>1. queue \in Seq(Queued) /\ losses \in 0..MaxLosses
  BY DEF TypeOK, Queued
<1>2. events \in Seq(Queued)
  BY SeqMonotonic DEF Queued
<1>3. queue \o events \in Seq(Queued)
  BY <1>1, <1>2, ConcatProperties
<1>4. Append(queue, OverflowMark) \in Seq(Queued)
  BY <1>1, MarkTyped, AppendProperties
<1>5. queue' \in Seq(Queued)
  BY <1>1, <1>3, <1>4 DEF Report
<1>6. losses' \in 0..MaxLosses
  BY <1>1, BoundAssumption DEF Report
<1> QED BY <1>5, <1>6

\* The disk changes nothing else.
LEMMA OperationCounts ==
  ASSUME TypeOK, FileSystem
  PROVE  /\ ops' \in 0..MaxOps
         /\ UNCHANGED <<entries, moves, phase, db, tx, prev, job, unhealed, unread, stops, failures, faults>>
<1>1. \E op : Operation(op)
  BY DEF FileSystem, Write, MoveIn, Delete, MoveOut, LateWrite, Rename, RenameDir,
         MoveOutDir, ArriveDir
<1> QED BY <1>1, BoundAssumption DEF Operation, TypeOK, history

LEMMA NoFilesTyped == NoFiles \in [Path -> File] /\ [live |-> NoFiles, view |-> NoFiles] \in Rows
BY DEF NoFiles, Rows, File

LEMMA NoJobTyped == NoJob \in Job
BY NoFilesTyped DEF NoJob, Job

LEMMA EmptyBufferTyped ==
  /\ [p \in Path |-> NoEntry] \in [Path -> Entry]
  /\ [k \in Cookie |-> NoMove] \in [Cookie -> PendingMove]
BY NothingTyped

LEMMA InitTyped == Init => TypeOK
<1> SUFFICES ASSUME Init PROVE TypeOK
  OBVIOUS
<1>1. BufferTypeOK
  BY EmptyBufferTyped DEF Init, BufferInit, BufferTypeOK
<1>2. queue \in Seq(FsEvent \cup {OverflowMark})
  BY DEF Init
<1>3. db \in Rows /\ tx \in Rows /\ prev \in [Path -> File] /\ job \in Job
  BY NoFilesTyped, NoJobTyped DEF Init
<1>4. /\ ops \in 0..MaxOps /\ losses \in 0..MaxLosses /\ stops \in 0..MaxStops
      /\ failures \in 0..MaxFailures /\ faults \in 0..MaxFaults
  BY BoundAssumption DEF Init
<1>5. fs \in Disk /\ phase = "down" /\ unhealed \in BOOLEAN /\ unread \in SUBSET Path
  BY DEF Init
<1> QED BY <1>1, <1>2, <1>3, <1>4, <1>5 DEF TypeOK

LEMMA ScanTyped ==
  ASSUME TypeOK, AnyScan
  PROVE  /\ db' \in Rows /\ tx' \in Rows /\ prev' \in [Path -> File]
         /\ unhealed' \in BOOLEAN /\ unread' \in SUBSET Path /\ faults' \in 0..MaxFaults
BY AnyScanTyped, RowsFields DEF ScannedTo

\* The rows a process that dies leaves behind.
LEMMA CrashLeaves ==
  ASSUME TypeOK, Crash
  PROVE  /\ tx' = db' /\ ScannedTo(db')
         /\ Halt /\ UNCHANGED <<fs, unhealed, unread, ops, losses, failures, faults>>
<1>1. ScannedTo(db)
  BY DEF ScannedTo, TypeOK
<1> QED BY <1>1, ScannedTyped DEF Crash, history

LEMMA HaltTyped ==
  ASSUME Halt
  PROVE  /\ BufferTypeOK' /\ queue' \in Seq(FsEvent \cup {OverflowMark}) /\ phase' = "down"
         /\ prev' \in [Path -> File] /\ job' \in Job
BY EmptyBufferTyped, NoFilesTyped, NoJobTyped DEF Halt, BufferTypeOK

LEMMA QueueHead ==
  ASSUME TypeOK, queue # <<>>
  PROVE  /\ Head(queue) \in FsEvent \cup {OverflowMark}
         /\ Tail(queue) \in Seq(FsEvent \cup {OverflowMark})
BY HeadTailProperties DEF TypeOK

\* The job of a flush, whichever paths and cookies it takes.
LEMMA BeginTyped ==
  ASSUME TypeOK, NEW P \in SUBSET Path, NEW K \in SUBSET Cookie, NEW stopping \in BOOLEAN,
         \A p \in P : Buffered(p), \A k \in K : MovePending(k), Begin(P, K, stopping)
  PROVE  /\ BufferTypeOK' /\ tx' \in Rows /\ job' \in Job
         /\ job'.deletes = Deletions(K) /\ job'.changes = Changes(P)
         /\ job'.removed = {} /\ job'.indexed = NoFiles /\ job'.stopping = stopping
<1>1. /\ BufferTypeOK'
      /\ Deletions(K) \in SUBSET FlushedEvent /\ Changes(P) \in SUBSET FlushedEvent
  BY RemoveTyped DEF Begin, TypeOK
<1>2. job' = [deletes |-> Deletions(K), changes |-> Changes(P), removed |-> {},
              indexed |-> NoFiles, stopping |-> stopping]
  BY DEF Begin, NoJob
<1>3. tx' \in Rows
  BY DEF Begin, TypeOK
<1> QED BY <1>1, <1>2, <1>3, NoFilesTyped DEF Job

LEMMA FlushTakes ==
  ASSUME TypeOK
  PROVE  /\ ReadyPaths \in SUBSET Path /\ \A p \in ReadyPaths : Buffered(p)
         /\ ExpiredCookies \in SUBSET Cookie /\ \A k \in ExpiredCookies : MovePending(k)
BY DEF ReadyPaths, ReadyIn, ExpiredCookies, ExpiredIn

\* TypeOK is not inductive: that the paths a batch forgets are paths rests on
\* every rename that was matched having its source.
SourcesKnown ==
  /\ \A p \in Path : entries[p].kind = "Moved" => entries[p].from \in Path
  /\ \A e \in job.changes : e.kind = "Moved" => e.from \in Path
  /\ \A e \in job.deletes : e.kind = "Delete"

\* The job after one of its events.
LEMMA TakeTyped ==
  ASSUME TypeOK, SourcesKnown, NEW e, NEW F, Take(e, F)
  PROVE  /\ e \in FlushedEvent /\ e \in job.deletes \cup job.changes
         /\ job' \in Job
         /\ job'.deletes = job.deletes \ {e}
         /\ job'.changes = IF job.deletes = {} THEN job.changes \ {e} ELSE job.changes
         /\ job'.removed = job.removed \cup Forgotten(e)
         /\ job'.indexed = [p \in Path |-> IF p \in F THEN fs[p] ELSE job.indexed[p]]
         /\ job'.stopping = job.stopping
<1>1. job \in Job /\ fs \in [Path -> File]
  BY DiskFacts DEF TypeOK
<1>2. e \in job.deletes \cup job.changes /\ e \in FlushedEvent
  BY <1>1 DEF Take, Job
<1>3. job' = [deletes |-> job.deletes \ {e},
              changes |-> IF job.deletes = {} THEN job.changes \ {e} ELSE job.changes,
              removed |-> job.removed \cup Forgotten(e),
              indexed |-> [p \in Path |-> IF p \in F THEN fs[p] ELSE job.indexed[p]],
              stopping |-> job.stopping]
  BY <1>1 DEF Take, Job
<1>4. Forgotten(e) \in SUBSET Path
  BY <1>2 DEF SourcesKnown, FlushedEvent, Forgotten
<1> QED BY <1>1, <1>2, <1>3, <1>4 DEF Job

TypeInv == TypeOK /\ SourcesKnown

\* A flush takes its sources from the buffer.
LEMMA BeginSourced ==
  ASSUME TypeInv, NEW P \in SUBSET Path, NEW K \in SUBSET Cookie, NEW stopping \in BOOLEAN,
         \A p \in P : Buffered(p), \A k \in K : MovePending(k), Begin(P, K, stopping)
  PROVE  SourcesKnown'
<1>1. job'.deletes = Deletions(K) /\ job'.changes = Changes(P)
  BY BeginTyped DEF TypeInv
<1>2. \A e \in Changes(P) : e.kind = "Moved" => e.from \in Path
  BY DEF Changes, TypeInv, SourcesKnown
<1>3. \A e \in Deletions(K) : e.kind = "Delete"
  BY DEF Deletions
<1>4. \A p \in Path : entries'[p] = IF p \in P THEN NoEntry ELSE entries[p]
  BY DEF Begin, Remove
<1>5. \A p \in Path : entries'[p].kind = "Moved" => entries'[p].from \in Path
  BY <1>4 DEF TypeInv, SourcesKnown, NoEntry
<1> QED BY <1>1, <1>2, <1>3, <1>5 DEF SourcesKnown

LEMMA InsertSourced ==
  ASSUME TypeInv, NEW e \in FsEvent, Insert(e), UNCHANGED job
  PROVE  SourcesKnown'
<1>1. entries \in [Path -> Entry] /\ e.path \in Path /\ BufferTypeOK
  BY DEF TypeInv, TypeOK, BufferTypeOK, FsEvent
<1>2. CASE e.kind = "MovedFrom"
  <2>1. entries' = [entries EXCEPT ![e.path] = NoEntry]
    BY <1>1, <1>2, InsertEntry
  <2> QED BY <1>1, <2>1 DEF TypeInv, SourcesKnown, NoEntry
<1>3. CASE e.kind # "MovedFrom"
  <2>1. PICK x \in Entry :
          /\ entries' = [entries EXCEPT ![e.path] = x]
          /\ x.kind = "Moved" =>
               \/ x.from \in Path
               \/ x.from = entries[e.path].from /\ entries[e.path].kind = "Moved"
    BY <1>1, <1>3, InsertEntry
  <2> QED BY <1>1, <2>1 DEF TypeInv, SourcesKnown
<1> QED BY <1>2, <1>3

LEMMA HaltSourced == ASSUME Halt PROVE SourcesKnown'
BY DEF Halt, SourcesKnown, NoEntry, NoJob

LEMMA TakeSourced ==
  ASSUME TypeInv, NEW e, NEW F, Take(e, F)
  PROVE  SourcesKnown'
<1>1. job'.deletes \subseteq job.deletes /\ job'.changes \subseteq job.changes
  BY TakeTyped DEF TypeInv
<1>2. entries' = entries
  BY DEF Take
<1> QED BY <1>1, <1>2 DEF TypeInv, SourcesKnown

LEMMA StepTyped == TypeInv /\ [Next]_vars => TypeInv'
<1> SUFFICES ASSUME TypeInv, [Next]_vars PROVE TypeInv'
  OBVIOUS
<1>t. TypeOK /\ SourcesKnown /\ BufferTypeOK
  BY DEF TypeInv, TypeOK
<1>1. CASE FileSystem
  <2>1. PICK events : ReportedChange(events)
    BY <1>1, <1>t, OperationReports
  <2>2. queue' \in Seq(Queued) /\ losses' \in 0..MaxLosses /\ fs' \in Disk
    BY <1>t, <2>1, ReportTyped DEF ReportedChange
  <2>3. /\ ops' \in 0..MaxOps
        /\ UNCHANGED <<entries, moves, phase, db, tx, prev, job, unhealed, unread, stops, failures, faults>>
    BY <1>1, <1>t, OperationCounts
  <2> QED BY <1>t, <2>2, <2>3 DEF TypeInv, TypeOK, BufferTypeOK, SourcesKnown, Queued
<1>2. CASE Start \/ ReceiveTimeout \/ UNCHANGED vars
  BY <1>2, <1>t DEF Start, ReceiveTimeout, vars, watcherVars, history, counters, TypeInv,
                    TypeOK, BufferTypeOK, SourcesKnown
<1>3. CASE StartupScan \/ PeriodicScan \/ FaultyPeriodicScan
  <2>1. AnyScan
    BY <1>3 DEF StartupScan, PeriodicScan, FaultyPeriodicScan, AnyScan
  <2>2. UNCHANGED <<fs, entries, moves, queue, job, ops, losses, stops, failures>>
        /\ phase' \in {"down", "starting", "receive", "flush", "batch"}
    BY <1>3, <1>t DEF StartupScan, PeriodicScan, FaultyPeriodicScan, counters, TypeOK
  <2> QED BY <1>t, <2>1, <2>2, ScanTyped DEF TypeInv, TypeOK, BufferTypeOK, SourcesKnown
<1>4. CASE Crash
  <2>1. /\ Halt /\ db' \in Rows /\ tx' \in Rows
        /\ UNCHANGED <<fs, unhealed, unread, ops, losses, failures, faults>>
    BY <1>4, <1>t, CrashLeaves DEF ScannedTo
  <2>2. stops' \in 0..MaxStops
    BY <1>4, <1>t, BoundAssumption DEF Crash, TypeOK
  <2>3. SourcesKnown'
    BY <2>1, HaltSourced
  <2> QED BY <1>t, <2>1, <2>2, <2>3, HaltTyped DEF TypeInv, TypeOK
<1>5. CASE ReceiveEvent
  <2>1. Head(queue) \in FsEvent /\ Tail(queue) \in Seq(FsEvent \cup {OverflowMark})
    BY <1>5, <1>t, QueueHead DEF ReceiveEvent
  <2>2. /\ Insert(Head(queue)) /\ queue' = Tail(queue) /\ phase' = "flush"
        /\ UNCHANGED <<fs, db, tx, prev, job, unhealed, unread, counters>>
    BY <1>5 DEF ReceiveEvent, history
  <2>3. BufferTypeOK'
    BY <1>t, <2>1, <2>2, InsertEntry
  <2>4. SourcesKnown'
    BY <2>1, <2>2, InsertSourced
  <2> QED BY <1>t, <2>1, <2>2, <2>3, <2>4 DEF counters, TypeInv, TypeOK
<1>6. CASE ReceiveOverflow
  <2>1. Tail(queue) \in Seq(FsEvent \cup {OverflowMark})
    BY <1>6, <1>t, QueueHead DEF ReceiveOverflow
  <2>2. AnyScan
    BY <1>6 DEF ReceiveOverflow, AnyScan
  <2>3. /\ queue' = Tail(queue) /\ phase' = "flush"
        /\ UNCHANGED <<fs, entries, moves, job, ops, losses, stops, failures>>
    BY <1>6 DEF ReceiveOverflow
  <2> QED BY <1>t, <2>1, <2>2, <2>3, ScanTyped DEF TypeInv, TypeOK, BufferTypeOK, SourcesKnown
<1>7. CASE Flush
  <2>1. /\ Begin(ReadyPaths, ExpiredCookies, FALSE)
        /\ phase' \in {"receive", "batch"} /\ UNCHANGED stops
    BY <1>7 DEF Flush
  <2>2. BufferTypeOK' /\ tx' \in Rows /\ job' \in Job
    BY <1>t, <2>1, FlushTakes, BeginTyped
  <2>3. SourcesKnown'
    BY <1>t, <2>1, FlushTakes, BeginSourced
  <2> QED BY <1>t, <2>1, <2>2, <2>3 DEF Begin, history, TypeInv, TypeOK
<1>8. CASE Shutdown
  <2>0. {p \in Path : Buffered(p)} \in SUBSET Path /\ {k \in Cookie : MovePending(k)} \in SUBSET Cookie
    OBVIOUS
  <2>1. /\ Begin({p \in Path : Buffered(p)}, {k \in Cookie : MovePending(k)}, TRUE)
        /\ phase' = "batch"
    BY <1>8 DEF Shutdown
  <2>2. BufferTypeOK' /\ tx' \in Rows /\ job' \in Job
    BY <1>t, <2>0, <2>1, BeginTyped
  <2>3. SourcesKnown'
    BY <1>t, <2>0, <2>1, BeginSourced
  <2>4. stops' \in 0..MaxStops
    BY <1>8, <1>t, BoundAssumption DEF Shutdown, TypeOK
  <2> QED BY <1>t, <2>1, <2>2, <2>3, <2>4 DEF Begin, history, TypeInv, TypeOK
<1>9. ASSUME NEW e \in job.deletes \cup job.changes, Process(e) PROVE TypeInv'
  <2>1. PICK F : Take(e, F)
    BY <1>9 DEF Process
  <2>2. job' \in Job /\ SourcesKnown'
    BY <1>t, <2>1, TakeTyped, TakeSourced
  <2>3. tx' \in Rows /\ UNCHANGED <<unhealed, failures>> /\ unread' \in SUBSET Path
    BY <1>9, <1>t, AppliedReads DEF Process, ReadInto, TypeOK
  <2> QED BY <1>t, <2>1, <2>2, <2>3 DEF Take, TypeInv, TypeOK, BufferTypeOK
<1>10. ASSUME NEW e \in job.deletes \cup job.changes, Fail(e) PROVE TypeInv'
  <2>1. Take(e, {})
    BY <1>10 DEF Fail
  <2>2. job' \in Job /\ SourcesKnown'
    BY <1>t, <2>1, TakeTyped, TakeSourced
  <2>3. tx' \in Rows /\ unhealed' \in BOOLEAN /\ UNCHANGED unread
    BY <1>10, <1>t, HalfAppliedReads DEF Fail, ReadInto
  <2>4. failures' \in 0..MaxFailures
    BY <1>10, <1>t, BoundAssumption DEF Fail, TypeOK
  <2> QED BY <1>t, <2>1, <2>2, <2>3, <2>4 DEF Take, TypeInv, TypeOK, BufferTypeOK
<1>11. CASE Commit
  <2>1. prev' \in [Path -> File]
    BY <1>11, <1>t DEF Commit, Refreshed, TypeOK, Job, File
  <2>2. job' \in Job /\ SourcesKnown'
    BY <1>11, <1>t, NoJobTyped DEF Commit, SourcesKnown, NoJob
  <2> QED BY <1>11, <1>t, <2>1, <2>2 DEF Commit, history, counters, TypeInv, TypeOK, BufferTypeOK
<1>12. CASE CommitAndStop
  <2>1. Halt /\ db' = tx /\ UNCHANGED <<fs, tx, unhealed, unread, counters>>
    BY <1>12 DEF CommitAndStop, history
  <2>2. SourcesKnown'
    BY <2>1, HaltSourced
  <2> QED BY <1>t, <2>1, <2>2, HaltTyped DEF counters, TypeInv, TypeOK
<1>13. CASE Age
  <2>1. Tick /\ UNCHANGED <<fs, queue, phase, db, tx, prev, job, unhealed, unread, counters>>
    BY <1>13 DEF Age, history
  <2>2. \A p \in Path : entries'[p].kind = entries[p].kind /\ entries'[p].from = entries[p].from
    BY <1>t, <2>1 DEF Tick, BufferTypeOK, Entry
  <2>3. SourcesKnown'
    BY <1>t, <2>1, <2>2 DEF SourcesKnown
  <2> QED BY <1>t, <2>1, <2>3, TickKeeps DEF counters, TypeInv, TypeOK
<1> QED
  BY <1>1, <1>2, <1>3, <1>4, <1>5, <1>6, <1>7, <1>8, <1>9, <1>10, <1>11, <1>12, <1>13
     DEF Next, EventLoop

LEMMA InitSourced == Init => TypeInv
BY InitTyped DEF Init, BufferInit, TypeInv, SourcesKnown, NoEntry, NoJob

\* The buffer, the queue, the rows, both caches and the batch under way keep
\* their shapes, whatever happens to the disk, the queue and the process.
THEOREM TypeCorrect == Spec => []TypeOK
<1>1. TypeInv => TypeOK
  BY DEF TypeInv
<1> QED BY <1>1, InitSourced, StepTyped, PTL DEF Spec

-----------------------------------------------------------------------------
(* The rows implement Mirror.  Each step is mapped to one of Mirror by what   *)
(* it does to the committed rows and to those of the transaction.          *)

LEMMA RowsTyped ==
  ASSUME TypeOK
  PROVE  fs \in [Path -> File] /\ tx.live \in [Path -> File] /\ db.live \in [Path -> File]
BY DiskFacts, RowsFields DEF TypeOK

LEMMA ScanPublishes ==
  ASSUME TypeOK, ScannedTo(db'), tx' = db', UNCHANGED fs
  PROVE  PromiseOfRows!Publish
<1>1. db'.live \in [Path -> File]
  BY RowsFields DEF ScannedTo
<1> QED BY <1>1, RowsTyped DEF ScannedTo, PromiseOfRows!Publish, PromiseOfRows!File, File

LEMMA RollbackDiscards ==
  ASSUME TypeOK, tx' = db, UNCHANGED <<fs, db>>
  PROVE  PromiseOfRows!Discard
BY RowsTyped DEF PromiseOfRows!Discard, PromiseOfRows!File, File

LEMMA CommitPublishes ==
  ASSUME TypeOK, db' = tx, UNCHANGED <<fs, tx>>
  PROVE  PromiseOfRows!Publish
BY RowsTyped DEF PromiseOfRows!Publish, PromiseOfRows!File, File

LEMMA ReadsStage ==
  ASSUME TypeOK, ReadInto(tx', tx), UNCHANGED <<fs, db>>
  PROVE  PromiseOfRows!Stage
BY RowsTyped, RowsFields DEF ReadInto, PromiseOfRows!Stage, PromiseOfRows!File, File

LEMMA StepRefines == TypeOK /\ TypeOK' /\ [Next]_vars => [PromiseOfRows!Next]_(PromiseOfRows!vars)
<1> SUFFICES ASSUME TypeOK, TypeOK', [Next]_vars
             PROVE  [PromiseOfRows!Next]_(PromiseOfRows!vars)
  OBVIOUS
<1>1. CASE FileSystem
  <2>1. UNCHANGED <<db, tx>>
    BY <1>1, OperationCounts
  <2>2. fs' \in [Path -> PromiseOfRows!File]
    BY DEF TypeOK, Disk, PromiseOfRows!File, File
  <2> QED BY <2>1, <2>2 DEF PromiseOfRows!Next, PromiseOfRows!DiskChanges
<1>2. CASE \/ Start \/ ReceiveTimeout \/ ReceiveEvent \/ Age \/ UNCHANGED vars
  BY <1>2 DEF Start, ReceiveTimeout, ReceiveEvent, Age, vars, watcherVars, PromiseOfRows!vars
<1>3. CASE StartupScan \/ PeriodicScan \/ FaultyPeriodicScan \/ ReceiveOverflow \/ Crash
  <2>1. ScannedTo(db') /\ tx' = db' /\ UNCHANGED fs
    BY <1>3, AnyScanTyped, CrashLeaves
       DEF StartupScan, PeriodicScan, FaultyPeriodicScan, ReceiveOverflow, AnyScan
  <2> QED BY <2>1, ScanPublishes DEF PromiseOfRows!Next
<1>4. CASE Flush \/ Shutdown
  BY <1>4, RollbackDiscards DEF Flush, Shutdown, Begin, PromiseOfRows!Next
<1>5. ASSUME NEW e \in job.deletes \cup job.changes, Process(e) PROVE PromiseOfRows!Next
  <2>1. ReadInto(tx', tx) /\ UNCHANGED <<fs, db>>
    BY <1>5, AppliedReads DEF Process, Take
  <2> QED BY <2>1, ReadsStage DEF PromiseOfRows!Next
<1>6. ASSUME NEW e \in job.deletes \cup job.changes, Fail(e) PROVE PromiseOfRows!Next
  <2>1. ReadInto(tx', tx) /\ UNCHANGED <<fs, db>>
    BY <1>6, HalfAppliedReads DEF Fail, Take
  <2> QED BY <2>1, ReadsStage DEF PromiseOfRows!Next
<1>7. CASE Commit \/ CommitAndStop
  BY <1>7, CommitPublishes DEF Commit, CommitAndStop, PromiseOfRows!Next
<1> QED BY <1>1, <1>2, <1>3, <1>4, <1>5, <1>6, <1>7 DEF Next, EventLoop

\* Whatever the operations of the disk, the events that are lost or fail and
\* the crashes between two events of a flush, a content becomes live at a path
\* only by having been on disk there while the transaction was open: nothing
\* is carried over from the old row of a file that was moved.
THEOREM RowsRefineMirror == Spec => RowsImplementMirror
<1>1. Init => PromiseOfRows!Init
  <2> SUFFICES ASSUME Init PROVE PromiseOfRows!Init
    OBVIOUS
  <2>1. fs \in [Path -> PromiseOfRows!File]
    BY DEF Init, Disk, PromiseOfRows!File, File
  <2>2. tx.live = NoFiles /\ db.live = NoFiles
    BY DEF Init
  <2> QED BY <2>1, <2>2 DEF PromiseOfRows!Init, PromiseOfRows!Empty, NoFiles
<1> QED BY <1>1, StepRefines, TypeCorrect, PTL
        DEF Spec, RowsImplementMirror, PromiseOfRows!Spec

-----------------------------------------------------------------------------
(* No stale content.  A row may have a file's old content only while the      *)
(* loop is still to come to the file: an overflow is in the queue, or the path *)
(* or a directory it is in is told of in the queue, buffered with no source of *)
(* a rename in the queue to make the buffer forget it, or in the batch.       *)

LEMMA AppendedTells ==
  ASSUME NEW s \in Seq(Queued), NEW t \in Seq(FsEvent), NEW x
  PROVE  /\ Told(t, x) => Told(s \o t, x)
         /\ Told(s, x) /\ ~Leaving(t, x) => Told(s \o t, x)
         /\ Leaving(s \o t, x) => Leaving(s, x) \/ Leaving(t, x)
         /\ Marked(s) => Marked(s \o t)
<1> DEFINE u == s \o t
<1>1. /\ Len(s) \in Nat /\ Len(t) \in Nat /\ Len(u) = Len(s) + Len(t)
      /\ \A i \in 1..Len(s) : u[i] = s[i]
      /\ \A i \in 1..Len(t) : u[Len(s) + i] = t[i]
  <2>1. t \in Seq(Queued)
    BY SeqMonotonic DEF Queued
  <2>2. Len(s) \in Nat /\ Len(t) \in Nat
    BY <2>1, LenProperties
  <2>3. /\ Len(u) = Len(s) + Len(t)
        /\ \A i \in 1..Len(s) + Len(t) : u[i] = IF i <= Len(s) THEN s[i] ELSE t[i - Len(s)]
    BY <2>1, ConcatProperties
  <2> HIDE DEF u
  <2>4. ASSUME NEW i \in 1..Len(t) PROVE u[Len(s) + i] = t[i]
    <3>1. /\ Len(s) + i \in 1..Len(s) + Len(t) /\ ~(Len(s) + i <= Len(s))
          /\ (Len(s) + i) - Len(s) = i
      BY <2>2
    <3> QED BY <2>3, <3>1
  <2>5. \A i \in 1..Len(s) : u[i] = s[i]
    BY <2>2, <2>3
  <2> QED BY <2>2, <2>3, <2>4, <2>5
<1> HIDE DEF u
<1>2. \A j \in 1..Len(u) : j \in 1..Len(s) \/ \E k \in 1..Len(t) : j = Len(s) + k
  <2>1. ASSUME NEW j \in 1..Len(u), j \notin 1..Len(s)
        PROVE  j - Len(s) \in 1..Len(t) /\ j = Len(s) + (j - Len(s))
    BY <1>1, <2>1
  <2> QED BY <2>1
<1>3. Told(t, x) => Told(u, x)
  <2> SUFFICES ASSUME Told(t, x) PROVE Told(u, x)
    OBVIOUS
  <2>1. PICK i \in 1..Len(t) : Tells(t[i], x) /\ \A j \in 1..Len(t) : j > i => ~Leaves(t[j], x)
    BY DEF Told
  <2>2. Len(s) + i \in 1..Len(u) /\ Tells(u[Len(s) + i], x)
    BY <1>1, <2>1
  <2>3. ASSUME NEW j \in 1..Len(u), j > Len(s) + i PROVE ~Leaves(u[j], x)
    <3>1. PICK k \in 1..Len(t) : j = Len(s) + k
      BY <1>1, <1>2, <2>3
    <3>2. k > i
      BY <1>1, <2>3, <3>1
    <3> QED BY <1>1, <2>1, <3>1, <3>2
  <2> QED BY <2>2, <2>3 DEF Told
<1>4. Told(s, x) /\ ~Leaving(t, x) => Told(u, x)
  <2> SUFFICES ASSUME Told(s, x), ~Leaving(t, x) PROVE Told(u, x)
    OBVIOUS
  <2>1. PICK i \in 1..Len(s) : Tells(s[i], x) /\ \A j \in 1..Len(s) : j > i => ~Leaves(s[j], x)
    BY DEF Told
  <2>2. i \in 1..Len(u) /\ Tells(u[i], x)
    BY <1>1, <2>1
  <2>3. ASSUME NEW j \in 1..Len(u), j > i PROVE ~Leaves(u[j], x)
    BY <1>1, <1>2, <2>1, <2>3 DEF Leaving
  <2> QED BY <2>2, <2>3 DEF Told
<1>5. Leaving(u, x) => Leaving(s, x) \/ Leaving(t, x)
  BY <1>1, <1>2 DEF Leaving
<1>6. Marked(s) => Marked(u)
  BY <1>1 DEF Marked
<1> QED BY <1>3, <1>4, <1>5, <1>6 DEF u

LEMMA MarkMarks ==
  ASSUME NEW s \in Seq(Queued)
  PROVE  Marked(Append(s, OverflowMark))
<1>1. Len(s) \in Nat
  BY LenProperties
<1>2. Len(s) + 1 \in 1..Len(Append(s, OverflowMark))
  BY <1>1, MarkTyped, AppendProperties
<1>3. Append(s, OverflowMark)[Len(s) + 1] = OverflowMark
  BY MarkTyped, AppendProperties
<1> QED BY <1>2, <1>3 DEF Marked

LEMMA TailTells ==
  ASSUME NEW s \in Seq(Queued), s # <<>>, NEW x
  PROVE  /\ Told(s, x) => Told(Tail(s), x) \/ (Tells(Head(s), x) /\ ~Leaving(Tail(s), x))
         /\ Leaving(Tail(s), x) => Leaving(s, x)
         /\ Leaves(Head(s), x) => Leaving(s, x)
         /\ Marked(s) => Marked(Tail(s)) \/ Head(s) = OverflowMark
<1> DEFINE u == Tail(s)
<1>1. /\ Len(s) \in Nat /\ Len(s) > 0 /\ Len(u) = Len(s) - 1 /\ Head(s) = s[1]
      /\ \A i \in 1..Len(u) : u[i] = s[i + 1]
  <2>1. Len(s) \in Nat /\ Len(s) # 0
    BY EmptySeq
  <2> QED BY <2>1, HeadTailProperties
<1> HIDE DEF u
<1>2. \A j \in 1..Len(s) : j = 1 \/ \E k \in 1..Len(u) : j = k + 1
  <2>1. ASSUME NEW j \in 1..Len(s), j # 1 PROVE j - 1 \in 1..Len(u) /\ j = (j - 1) + 1
    BY <1>1, <2>1
  <2> QED BY <2>1
<1>3. \A k \in 1..Len(u) : k + 1 \in 1..Len(s) /\ 1 \in 1..Len(s)
  BY <1>1
<1>4. Leaving(u, x) => Leaving(s, x)
  BY <1>1, <1>3 DEF Leaving
<1>5. Leaves(Head(s), x) => Leaving(s, x)
  <2>1. 1 \in 1..Len(s)
    BY <1>1
  <2> QED BY <1>1, <2>1 DEF Leaving
<1>6. Marked(s) => Marked(u) \/ Head(s) = OverflowMark
  BY <1>1, <1>2 DEF Marked
<1>7. ASSUME Told(s, x) PROVE Told(u, x) \/ (Tells(Head(s), x) /\ ~Leaving(u, x))
  <2>1. PICK i \in 1..Len(s) : Tells(s[i], x) /\ \A j \in 1..Len(s) : j > i => ~Leaves(s[j], x)
    BY <1>7 DEF Told
  <2>2. CASE i = 1
    <3>1. ASSUME NEW k \in 1..Len(u) PROVE ~Leaves(u[k], x)
      <4>1. k + 1 \in 1..Len(s) /\ k + 1 > i
        BY <1>1, <2>2
      <4> QED BY <1>1, <2>1, <4>1
    <3> QED BY <1>1, <2>1, <2>2, <3>1 DEF Leaving
  <2>3. CASE i # 1
    <3>1. PICK k \in 1..Len(u) : i = k + 1
      BY <1>2, <2>3
    <3>2. ASSUME NEW j \in 1..Len(u), j > k PROVE ~Leaves(u[j], x)
      <4>1. j + 1 \in 1..Len(s) /\ j + 1 > i
        BY <1>1, <3>1, <3>2
      <4> QED BY <1>1, <2>1, <4>1
    <3> QED BY <1>1, <2>1, <3>1, <3>2 DEF Told
  <2> QED BY <2>2, <2>3
<1> QED BY <1>4, <1>5, <1>6, <1>7 DEF u

Awaited(p) ==
  \/ Marked(queue)
  \/ \E y \in Above(p) : \/ Told(queue, y)
                         \/ Buffered(y) /\ ~Leaving(queue, y)
                         \/ \E e \in job.changes : e.path = y

Serving == phase \in {"receive", "flush", "batch"}

StaleHeals ==
  Serving /\ ~unhealed =>
    \A p \in Path : \/ fs[p] = Absent \/ Held[p] \in {Absent, fs[p]}
                    \/ Passed(p) \/ Awaited(p)

\* A directory is never modified or deleted, so an event on it indexes what
\* is in it.
DirsIndexed ==
  /\ \A i \in 1..Len(queue) : queue[i] \in FsEvent => OfDir(queue[i])
  /\ \A d \in Dir : entries[d].kind \in {"None", "Create", "Moved"}
  /\ \A e \in job.changes : e.path \in Dir => e.kind \in {"Create", "Moved"}

Idle == phase # "batch" => job.changes = {}

HealInv == TypeInv /\ DirsIndexed /\ Idle /\ StaleHeals

LEMMA AboveTyped == \A p \in Path : p \in Above(p) /\ Above(p) \subseteq Path
BY DirAssumption DEF Above

LEMMA AppliedHeals ==
  ASSUME TypeOK, NEW e \in FlushedEvent, NEW p \in Path, e.path \in Above(p),
         e.path \in Dir => e.kind \in {"Create", "Moved"}
  PROVE  fs[p] = Absent \/ Applied(e).live[p] \in {Absent, fs[p]}
<1>f. /\ fs \in [Path -> File] /\ \A d \in Dir : fs[d] = Absent
      /\ tx \in Rows
  BY DiskFacts DEF TypeOK
<1>1. CASE e.kind = "Delete"
  <2>1. e.path = p
    BY <1>1 DEF Above
  <2>2. Applied(e) = Closed(tx, p)
    BY <1>1, <2>1 DEF Applied
  <2> QED BY <1>f, <2>2, ClosedReads
<1>2. CASE e.kind # "Delete"
  <2> SUFFICES ASSUME fs[p] # Absent PROVE Applied(e).live[p] = fs[p]
    OBVIOUS
  <2>1. p \in FilesAt(e.path)
    BY <1>f DEF Above, FilesAt
  <2>2. \A rows \in Rows : Indexed(rows, FilesAt(e.path)).live[p] = fs[p]
    BY <1>f, <2>1, IndexedReads
  <2>3. Closed(tx, e.from) \in Rows
    BY <1>f, ClosedReads DEF ReadInto
  <2>4. \E rows \in Rows : Applied(e) = Indexed(rows, FilesAt(e.path))
    BY <1>f, <1>2, <2>3 DEF Applied
  <2> QED BY <2>2, <2>4
<1> QED BY <1>1, <1>2

\* The kinds of the entry an event leaves, as far as they matter here.
LEMMA InsertBuffers ==
  ASSUME BufferTypeOK, NEW e \in FsEvent, Insert(e), NEW y \in Path
  PROVE  /\ Tells(e, y) => Buffered(y)'
         /\ Buffered(y) /\ ~Leaves(e, y) => Buffered(y)'
         /\ OfDir(e) /\ y \in Dir /\ entries[y].kind \in {"None", "Create", "Moved"}
              => entries'[y].kind \in {"None", "Create", "Moved"}
<1>1. entries \in [Path -> Entry] /\ e.path \in Path
  BY DEF BufferTypeOK, FsEvent
<1>2. CASE e.kind = "MovedFrom"
  <2>1. entries' = [entries EXCEPT ![e.path] = NoEntry]
    BY <1>2, InsertEntry
  <2> QED BY <1>1, <1>2, <2>1 DEF Tells, Leaves, Buffered, NoEntry
<1>3. CASE e.kind # "MovedFrom"
  <2>1. PICK x \in Entry :
          /\ entries' = [entries EXCEPT ![e.path] = x]
          /\ e.kind \in ChangeKind => x.kind = e.kind
          /\ e.kind = "CloseWrite" =>
               x.kind = IF Buffered(e.path) THEN entries[e.path].kind ELSE "Modify"
          /\ e.kind = "MovedTo" =>
               x.kind = IF MovePending(e.cookie) THEN "Moved" ELSE "Create"
    BY <1>3, InsertEntry
  <2>2. e.kind \in ChangeKind \cup {"CloseWrite", "MovedTo"}
    BY <1>3 DEF FsEvent
  <2>3. x.kind # "None"
    BY <2>1, <2>2 DEF ChangeKind, Buffered
  <2>4. OfDir(e) /\ e.path \in Dir => x.kind \in {"Create", "Moved"}
    BY <1>3, <2>1, <2>2 DEF OfDir, ChangeKind
  <2> QED BY <1>1, <1>3, <2>1, <2>3, <2>4 DEF Tells, Leaves, Buffered
<1> QED BY <1>2, <1>3

LEMMA DiskHeals ==
  ASSUME HealInv, FileSystem
  PROVE  DirsIndexed' /\ Idle' /\ StaleHeals'
<1>t. TypeOK /\ queue \in Seq(Queued)
  BY DEF HealInv, TypeInv, TypeOK, Queued
<1>1. PICK events : ReportedChange(events)
  BY <1>t, OperationReports
<1>2. UNCHANGED <<entries, moves, phase, db, tx, prev, job, unhealed, unread, stops, failures, faults>>
  BY <1>t, OperationCounts
<1>3. events \in Seq(FsEvent) /\ \A i \in 1..Len(events) : OfDir(events[i])
  BY <1>1 DEF ReportedChange
<1>4. \/ queue' = queue
      \/ queue' = queue \o events
      \/ queue' = Append(queue, OverflowMark)
  BY <1>1 DEF ReportedChange, Report
<1>5. DirsIndexed'
  <2>1. ASSUME NEW i \in 1..Len(queue'), queue'[i] \in FsEvent PROVE OfDir(queue'[i])
    <3>0. Len(queue) \in Nat /\ Len(events) \in Nat
      BY <1>t, <1>3, LenProperties
    <3>1. CASE queue' = queue
      BY <2>1, <3>1 DEF HealInv, DirsIndexed
    <3>2. CASE queue' = queue \o events
      <4>1. events \in Seq(Queued)
        BY <1>3, SeqMonotonic DEF Queued
      <4>2. /\ Len(queue') = Len(queue) + Len(events)
            /\ \A k \in 1..Len(queue) + Len(events) :
                 queue'[k] = IF k <= Len(queue) THEN queue[k] ELSE events[k - Len(queue)]
        BY <1>t, <3>2, <4>1, ConcatProperties
      <4>3. CASE i <= Len(queue)
        BY <2>1, <3>0, <4>2, <4>3 DEF HealInv, DirsIndexed
      <4>4. CASE ~(i <= Len(queue))
        <5>1. i - Len(queue) \in 1..Len(events)
          BY <3>0, <4>2, <4>4
        <5> QED BY <1>3, <4>2, <4>4, <5>1
      <4> QED BY <4>3, <4>4
    <3>3. CASE queue' = Append(queue, OverflowMark)
      <4>1. /\ Len(queue') = Len(queue) + 1 /\ queue'[Len(queue) + 1] = OverflowMark
            /\ \A k \in 1..Len(queue) : queue'[k] = queue[k]
        BY <1>t, <3>3, MarkTyped, AppendProperties
      <4>2. i # Len(queue) + 1
        BY <2>1, <4>1, MarkTyped
      <4>3. i \in 1..Len(queue)
        BY <3>0, <4>1, <4>2
      <4> QED BY <2>1, <4>1, <4>3 DEF HealInv, DirsIndexed
    <3> QED BY <1>4, <3>1, <3>2, <3>3
  <2> QED BY <1>2, <2>1 DEF HealInv, DirsIndexed
<1>6. StaleHeals'
  <2> SUFFICES ASSUME Serving, ~unhealed, NEW p \in Path, fs'[p] # Absent,
                      Held[p] \notin {Absent, fs'[p]}, ~(fs'[p] = fs[p] /\ Passed(p))
               PROVE  Awaited(p)'
    BY <1>2 DEF StaleHeals, Held, Serving, Passed
  <2>1. queue' \in {queue \o events, Append(queue, OverflowMark)}
    BY <1>1 DEF Serving, ReportedChange, Report, Watching
  <2>2. CASE queue' = Append(queue, OverflowMark)
    BY <1>t, <2>2, MarkMarks DEF Awaited
  <2>3. CASE queue' = queue \o events
    <3>1. \/ \E y \in Above(p) : Told(events, y)
          \/ fs'[p] = fs[p] /\ \A y \in Above(p) : ~Leaving(events, y)
      BY <1>1 DEF ReportedChange, Reported
    <3>2. CASE \E y \in Above(p) : Told(events, y)
      BY <1>t, <1>3, <2>3, <3>2, AppendedTells DEF Awaited
    <3>3. CASE fs'[p] = fs[p] /\ \A y \in Above(p) : ~Leaving(events, y)
      <4>1. Awaited(p)
        BY <3>3 DEF HealInv, StaleHeals
      <4>2. /\ Marked(queue) => Marked(queue')
            /\ \A y \in Above(p) : /\ Told(queue, y) => Told(queue', y)
                                   /\ ~Leaving(queue, y) => ~Leaving(queue', y)
        BY <1>t, <1>3, <2>3, <3>3, AppendedTells
      <4> QED BY <1>2, <4>1, <4>2 DEF Awaited, Buffered
    <3> QED BY <3>1, <3>2, <3>3
  <2> QED BY <2>1, <2>2, <2>3
<1> QED BY <1>2, <1>5, <1>6 DEF HealInv, Idle

LEMMA ReceiveHeals ==
  ASSUME HealInv, ReceiveEvent
  PROVE  DirsIndexed' /\ Idle' /\ StaleHeals'
<1>t. TypeOK /\ queue \in Seq(Queued) /\ BufferTypeOK
  BY DEF HealInv, TypeInv, TypeOK, Queued
<1> DEFINE h == Head(queue)
<1>1. /\ queue # <<>> /\ h # OverflowMark /\ Insert(h) /\ queue' = Tail(queue)
      /\ phase = "receive" /\ phase' = "flush"
      /\ UNCHANGED <<fs, db, tx, prev, job, unhealed, unread, counters>>
  BY DEF ReceiveEvent, history
<1>2. h \in FsEvent
  BY <1>1, <1>t, QueueHead
<1>3. /\ Len(queue) \in Nat /\ Len(queue) > 0 /\ h = queue[1]
      /\ Len(queue') = Len(queue) - 1
      /\ \A i \in 1..Len(queue') : queue'[i] = queue[i + 1]
  <2>1. Len(queue) \in Nat /\ Len(queue) # 0
    BY <1>1, <1>t, EmptySeq
  <2> QED BY <1>1, <1>t, <2>1, HeadTailProperties
<1>4. OfDir(h)
  <2>1. 1 \in 1..Len(queue)
    BY <1>3
  <2> QED BY <1>2, <1>3, <2>1 DEF HealInv, DirsIndexed
<1> HIDE DEF h
<1>5. DirsIndexed'
  <2>1. ASSUME NEW i \in 1..Len(queue'), queue'[i] \in FsEvent PROVE OfDir(queue'[i])
    <3>1. i + 1 \in 1..Len(queue)
      BY <1>3
    <3> QED BY <1>3, <2>1, <3>1 DEF HealInv, DirsIndexed
  <2>2. \A d \in Dir : entries'[d].kind \in {"None", "Create", "Moved"}
    BY <1>t, <1>1, <1>2, <1>4, InsertBuffers, DirAssumption DEF HealInv, DirsIndexed
  <2> QED BY <1>1, <2>1, <2>2 DEF HealInv, DirsIndexed
<1>6. Idle'
  BY <1>1 DEF HealInv, Idle
<1>7. StaleHeals'
  <2> SUFFICES ASSUME ~unhealed, NEW p \in Path, Awaited(p) PROVE Awaited(p)'
    BY <1>1 DEF HealInv, StaleHeals, Held, Serving, Passed
  <2>1. CASE Marked(queue)
    BY <1>1, <1>t, <2>1, TailTells DEF Awaited, h
  <2>2. ASSUME NEW y \in Above(p), Told(queue, y) PROVE Awaited(p)'
    <3>1. Told(queue', y) \/ (Tells(h, y) /\ ~Leaving(queue', y))
      BY <1>1, <1>t, <2>2, TailTells DEF h
    <3>2. Tells(h, y) => Buffered(y)'
      BY <1>t, <1>1, <1>2, AboveTyped, InsertBuffers
    <3> QED BY <3>1, <3>2 DEF Awaited
  <2>3. ASSUME NEW y \in Above(p), Buffered(y), ~Leaving(queue, y) PROVE Awaited(p)'
    <3>1. ~Leaving(queue', y) /\ ~Leaves(h, y)
      BY <1>1, <1>t, <2>3, TailTells DEF h
    <3>2. Buffered(y)'
      BY <1>t, <1>1, <1>2, <2>3, <3>1, AboveTyped, InsertBuffers
    <3> QED BY <3>1, <3>2 DEF Awaited
  <2>4. ASSUME NEW y \in Above(p), NEW e \in job.changes, e.path = y PROVE Awaited(p)'
    BY <1>1, <2>4 DEF Awaited
  <2> QED BY <2>1, <2>2, <2>3, <2>4 DEF Awaited
<1> QED BY <1>5, <1>6, <1>7

\* A scan that meets no fault leaves nothing stale but what it passed over.
LEMMA ScanHeals ==
  ASSUME HealInv, AnyScan, UNCHANGED <<fs, entries, job>>, phase # "batch", phase' # "batch",
         queue' = queue \/ (queue # <<>> /\ queue' = Tail(queue))
  PROVE  DirsIndexed' /\ Idle' /\ StaleHeals'
<1>t. TypeOK /\ queue \in Seq(Queued)
  BY DEF HealInv, TypeInv, TypeOK, Queued
<1>1. \A i \in 1..Len(queue') : queue'[i] \in FsEvent => OfDir(queue'[i])
  <2>1. CASE queue' = queue
    BY <2>1 DEF HealInv, DirsIndexed
  <2>2. CASE queue # <<>> /\ queue' = Tail(queue)
    <3>1. /\ Len(queue) \in Nat /\ Len(queue') = Len(queue) - 1
          /\ \A i \in 1..Len(queue') : queue'[i] = queue[i + 1]
      BY <1>t, <2>2, LenProperties, HeadTailProperties
    <3>2. \A i \in 1..Len(queue') : i + 1 \in 1..Len(queue)
      BY <3>1
    <3> QED BY <3>1, <3>2 DEF HealInv, DirsIndexed
  <2> QED BY <2>1, <2>2
<1>2. DirsIndexed' /\ Idle'
  BY <1>1 DEF HealInv, DirsIndexed, Idle
<1>3. CASE FullScan
  BY <1>t, <1>2, <1>3, FullScanLeaves DEF StaleHeals
<1>4. CASE ScanDrops \/ ScanStops
  BY <1>2, <1>4 DEF ScanDrops, ScanStops, Faulty, StaleHeals
<1> QED BY <1>3, <1>4 DEF AnyScan

\* What a flush takes out of the buffer it has in its batch.
LEMMA BeginHeals ==
  ASSUME HealInv, NEW P \in SUBSET Path, NEW K \in SUBSET Cookie, NEW stopping \in BOOLEAN,
         \A p \in P : Buffered(p), \A k \in K : MovePending(k), Begin(P, K, stopping),
         phase \in {"receive", "flush"},
         phase' = "batch" \/ (phase' = "receive" /\ P = {})
  PROVE  DirsIndexed' /\ Idle' /\ StaleHeals'
<1>t. TypeOK
  BY DEF HealInv, TypeInv
<1>1. job'.changes = Changes(P)
  BY <1>t, BeginTyped
<1>2. /\ \A p \in Path : entries'[p] = IF p \in P THEN NoEntry ELSE entries[p]
      /\ tx' = db /\ UNCHANGED <<fs, queue, db, prev, unhealed, unread, ops, losses, failures>>
  BY DEF Begin, Remove, history
<1>3. DirsIndexed'
  <2>1. \A d \in Dir : entries'[d].kind \in {"None", "Create", "Moved"}
    BY <1>2, DirAssumption DEF HealInv, DirsIndexed, NoEntry
  <2>2. \A e \in Changes(P) : e.path \in Dir => e.kind \in {"Create", "Moved"}
    BY DEF Changes, HealInv, DirsIndexed, Buffered
  <2> QED BY <1>1, <1>2, <2>1, <2>2 DEF HealInv, DirsIndexed
<1>4. Idle'
  BY <1>1 DEF Idle, Changes
<1>5. StaleHeals'
  <2>1. Held' = Held
    BY <1>2 DEF Held
  <2> SUFFICES ASSUME ~unhealed, NEW p \in Path, Awaited(p) PROVE Awaited(p)'
    BY <1>2, <2>1 DEF HealInv, StaleHeals, Serving, Passed
  <2>2. job.changes = {}
    BY DEF HealInv, Idle
  <2>3. CASE Marked(queue) \/ \E y \in Above(p) : Told(queue, y)
    BY <1>2, <2>3 DEF Awaited
  <2>4. ASSUME NEW y \in Above(p), Buffered(y), ~Leaving(queue, y) PROVE Awaited(p)'
    <3>1. CASE y \in P
      <4> DEFINE v == [path |-> y, kind |-> entries[y].kind, from |-> entries[y].from]
      <4>1. v \in Changes(P) /\ v.path = y
        BY <3>1 DEF Changes
      <4> QED BY <1>1, <4>1 DEF Awaited
    <3>2. CASE y \notin P
      <4>1. Buffered(y)'
        BY <1>2, <2>4, <3>2, AboveTyped DEF Buffered
      <4> QED BY <1>2, <2>4, <4>1 DEF Awaited
    <3> QED BY <3>1, <3>2
  <2> QED BY <2>2, <2>3, <2>4 DEF Awaited
<1> QED BY <1>3, <1>4, <1>5

LEMMA TakeHeals ==
  ASSUME HealInv, NEW e, NEW F, Take(e, F)
  PROVE  /\ DirsIndexed' /\ Idle' /\ phase = "batch" /\ phase' = "batch"
         /\ \A p \in Path :
              Awaited(p) => Awaited(p)' \/ (e \in job.changes /\ e.path \in Above(p))
<1>1. /\ e \in FlushedEvent
      /\ job'.changes = IF job.deletes = {} THEN job.changes \ {e} ELSE job.changes
  BY TakeTyped DEF HealInv, TypeInv
<1>2. phase = "batch" /\ UNCHANGED <<fs, entries, moves, queue, phase>>
  BY DEF Take
<1>3. job'.changes \subseteq job.changes /\ \A v \in job.changes : v \in job'.changes \/ v = e
  BY <1>1
<1>4. DirsIndexed' /\ Idle'
  BY <1>2, <1>3 DEF HealInv, DirsIndexed, Idle
<1>5. ASSUME NEW p \in Path, Awaited(p)
      PROVE  Awaited(p)' \/ (e \in job.changes /\ e.path \in Above(p))
  <2>1. ASSUME NEW y \in Above(p), NEW v \in job.changes, v.path = y
        PROVE  Awaited(p)' \/ (e \in job.changes /\ e.path \in Above(p))
    <3>1. CASE v \in job'.changes
      BY <2>1, <3>1 DEF Awaited
    <3>2. CASE v = e
      BY <2>1, <3>2
    <3> QED BY <1>3, <3>1, <3>2
  <2>2. ASSUME NEW y \in Above(p), Told(queue, y) \/ (Buffered(y) /\ ~Leaving(queue, y))
        PROVE  Awaited(p)'
    BY <1>2, <2>2 DEF Awaited, Buffered
  <2>3. ASSUME Marked(queue) PROVE Awaited(p)'
    BY <1>2, <2>3 DEF Awaited
  <2>4. \/ Marked(queue)
        \/ \E y \in Above(p) : Told(queue, y) \/ (Buffered(y) /\ ~Leaving(queue, y))
        \/ \E y \in Above(p) : \E v \in job.changes : v.path = y
    BY <1>5 DEF Awaited
  <2> QED BY <2>1, <2>2, <2>3, <2>4
<1> QED BY <1>2, <1>4, <1>5

\* A path that an event leads to has the file's content afterwards.
LEMMA ReadByIndexes ==
  ASSUME TypeOK, NEW e \in FlushedEvent, NEW p \in Path, p \in ReadBy(e)
  PROVE  fs[p] = Absent \/ Applied(e).live[p] = fs[p]
<1>1. p \in FilesAt(e.path) /\ e.kind # "Delete"
  BY DEF ReadBy
<1>2. fs \in [Path -> File] /\ tx \in Rows
  BY DiskFacts DEF TypeOK
<1>3. \A rows \in Rows : fs[p] = Absent \/ Indexed(rows, FilesAt(e.path)).live[p] = fs[p]
  BY <1>1, <1>2, IndexedReads
<1>4. Closed(tx, e.from) \in Rows
  BY <1>2, ClosedReads DEF ReadInto
<1>5. \E rows \in Rows : Applied(e) = Indexed(rows, FilesAt(e.path))
  BY <1>1, <1>2, <1>4 DEF Applied
<1> QED BY <1>3, <1>5

LEMMA ProcessHeals ==
  ASSUME HealInv, NEW e \in job.deletes \cup job.changes, Process(e)
  PROVE  DirsIndexed' /\ Idle' /\ StaleHeals'
<1>t. TypeOK
  BY DEF HealInv, TypeInv
<1>1. PICK F : Take(e, F)
  BY DEF Process
<1>2. tx' = Applied(e) /\ unhealed' = unhealed /\ UNCHANGED fs /\ unread' = unread \ ReadBy(e)
  BY <1>1 DEF Process, Take
<1>3. /\ DirsIndexed' /\ Idle' /\ phase = "batch" /\ phase' = "batch"
      /\ \A p \in Path : Awaited(p) => Awaited(p)' \/ (e \in job.changes /\ e.path \in Above(p))
      /\ e \in FlushedEvent
  BY <1>1, TakeHeals, TakeTyped DEF HealInv, TypeInv
<1>4. StaleHeals'
  <2> SUFFICES ASSUME ~unhealed, NEW p \in Path, ~Awaited(p)', ~Passed(p)'
               PROVE  fs[p] = Absent \/ tx'.live[p] \in {Absent, fs[p]}
    BY <1>2, <1>3 DEF StaleHeals, Held
  <2>1. CASE e \in job.changes /\ e.path \in Above(p)
    <3>1. e.path \in Dir => e.kind \in {"Create", "Moved"}
      BY <2>1 DEF HealInv, DirsIndexed
    <3> QED BY <1>t, <1>2, <1>3, <2>1, <3>1, AppliedHeals
  <2>2. CASE ~Awaited(p)
    <3>1. fs[p] = Absent \/ tx.live[p] \in {Absent, fs[p]} \/ Passed(p)
      BY <1>3, <2>2 DEF HealInv, StaleHeals, Serving, Held
    <3>2. tx'.live[p] \in {tx.live[p], fs[p], Absent}
      BY <1>t, <1>2, AppliedReads DEF ReadInto
    <3>3. CASE p \in ReadBy(e)
      BY <1>t, <1>2, <1>3, <3>3, ReadByIndexes
    <3>4. CASE p \notin ReadBy(e)
      <4>1. Passed(p) /\ tx'.live[p] = tx.live[p] => Passed(p)'
        BY <1>2, <1>3, <3>4 DEF Passed, Held
      <4> QED BY <3>1, <3>2, <4>1
    <3> QED BY <3>3, <3>4
  <2> QED BY <1>3, <2>1, <2>2
<1> QED BY <1>3, <1>4

LEMMA StepHeals == HealInv /\ [Next]_vars => HealInv'
<1> SUFFICES ASSUME HealInv, [Next]_vars PROVE HealInv'
  OBVIOUS
<1>t. TypeInv' /\ TypeInv /\ TypeOK
  BY StepTyped DEF HealInv, TypeInv
<1> SUFFICES DirsIndexed' /\ Idle' /\ StaleHeals'
  BY <1>t DEF HealInv
<1>1. CASE FileSystem
  BY <1>1, DiskHeals
<1>2. CASE Start
  BY <1>2 DEF Start, HealInv, DirsIndexed, Idle, StaleHeals, Serving
<1>3. CASE ReceiveTimeout \/ UNCHANGED vars
  <2>1. /\ UNCHANGED <<fs, entries, queue, db, tx, job, unhealed, unread>>
        /\ phase' = phase \/ (phase = "receive" /\ phase' = "flush")
    BY <1>3 DEF ReceiveTimeout, vars, watcherVars, history
  <2>2. /\ Serving' => Serving
        /\ Held' = Held
        /\ \A p \in Path : (Awaited(p)' <=> Awaited(p)) /\ (Passed(p)' <=> Passed(p))
    BY <2>1 DEF Held, Serving, Awaited, Buffered, Passed
  <2> QED BY <2>1, <2>2 DEF HealInv, DirsIndexed, Idle, StaleHeals
<1>4. CASE StartupScan \/ PeriodicScan \/ FaultyPeriodicScan \/ ReceiveOverflow
  BY <1>4, ScanHeals DEF StartupScan, PeriodicScan, FaultyPeriodicScan, ReceiveOverflow, AnyScan
<1>5. CASE Crash \/ CommitAndStop
  <2>1. Halt
    BY <1>5 DEF Crash, CommitAndStop
  <2>2. Len(queue') = 0 /\ job'.changes = {} /\ phase' = "down"
    BY <2>1 DEF Halt, NoJob
  <2>3. \A d \in Dir : entries'[d].kind = "None"
    BY <2>1, DirAssumption DEF Halt, NoEntry
  <2> QED BY <2>2, <2>3 DEF DirsIndexed, Idle, StaleHeals, Serving
<1>6. CASE ReceiveEvent
  BY <1>6, ReceiveHeals
<1>7. CASE Flush
  <2>1. /\ Begin(ReadyPaths, ExpiredCookies, FALSE) /\ phase \in {"receive", "flush"}
        /\ phase' = "batch" \/ (phase' = "receive" /\ ReadyPaths = {})
    BY <1>7 DEF Flush
  <2> QED BY <1>t, <2>1, FlushTakes, BeginHeals
<1>8. CASE Shutdown
  <2> DEFINE P == {p \in Path : Buffered(p)}
             K == {k \in Cookie : MovePending(k)}
  <2>1. /\ Begin(P, K, TRUE) /\ phase \in {"receive", "flush"} /\ phase' = "batch"
        /\ P \in SUBSET Path /\ K \in SUBSET Cookie
        /\ (\A p \in P : Buffered(p)) /\ (\A k \in K : MovePending(k))
    BY <1>8 DEF Shutdown
  <2> HIDE DEF P, K
  <2> QED BY <2>1, BeginHeals
<1>9. ASSUME NEW e \in job.deletes \cup job.changes, Process(e)
      PROVE  DirsIndexed' /\ Idle' /\ StaleHeals'
  BY <1>9, ProcessHeals
<1>10. ASSUME NEW e \in job.deletes \cup job.changes, Fail(e)
       PROVE  DirsIndexed' /\ Idle' /\ StaleHeals'
  BY <1>10, TakeHeals DEF Fail, StaleHeals
<1>11. CASE Commit
  <2>1. /\ UNCHANGED <<fs, entries, queue, unhealed, unread>>
        /\ job.changes = {} /\ job'.changes = {}
        /\ phase = "batch" /\ phase' = "receive" /\ db' = tx
    BY <1>11 DEF Commit, BatchDone, NoJob, history
  <2>2. /\ Held' = Held
        /\ \A p \in Path : (Awaited(p)' <=> Awaited(p)) /\ (Passed(p)' <=> Passed(p))
    BY <2>1 DEF Held, Awaited, Buffered, Passed
  <2> QED BY <2>1, <2>2 DEF HealInv, DirsIndexed, Idle, StaleHeals, Serving
<1>12. CASE Age
  <2>1. \A p \in Path : entries'[p].kind = entries[p].kind
    BY <1>12, <1>t, TickKeeps DEF Age, TypeOK
  <2>2. UNCHANGED <<fs, queue, phase, db, tx, job, unhealed, unread>>
    BY <1>12 DEF Age, history
  <2>3. /\ Held' = Held
        /\ \A p \in Path : (Awaited(p)' <=> Awaited(p)) /\ (Passed(p)' <=> Passed(p))
    BY <2>1, <2>2, AboveTyped DEF Held, Awaited, Buffered, Passed
  <2> QED BY <2>1, <2>2, <2>3, DirAssumption DEF HealInv, DirsIndexed, Idle, StaleHeals, Serving
<1> QED
  BY <1>1, <1>2, <1>3, <1>4, <1>5, <1>6, <1>7, <1>8, <1>9, <1>10, <1>11, <1>12
     DEF Next, EventLoop

LEMMA InitHeals == Init => HealInv
<1> SUFFICES ASSUME Init PROVE HealInv
  OBVIOUS
<1>1. Len(queue) = 0 /\ job.changes = {} /\ phase = "down"
  BY DEF Init, NoJob
<1>2. \A d \in Dir : entries[d].kind = "None"
  BY DirAssumption DEF Init, BufferInit, NoEntry
<1> QED BY <1>1, <1>2, InitSourced DEF HealInv, DirsIndexed, Idle, StaleHeals, Serving

\* In steady state a path that is on disk and in the index has the content on
\* disk, unless it was overlooked: after renames of files or directories, late
\* writes, reports lost or out of date, events and scans that failed before
\* the last scan, and crashes.
THEOREM NothingStale == Spec => []NoStaleContent
<1>1. Init => HealInv
  BY InitHeals
<1>2. HealInv => NoStaleContent
  <2> SUFFICES ASSUME HealInv, Settled, NEW p \in Path
               PROVE  Absent \in {db.live[p], fs[p]} \/ db.live[p] = fs[p] \/ Overlooked(p)
    BY DEF NoStaleContent
  <2>1. ~Awaited(p)
    <3>1. Len(queue) = 0 /\ job.changes = {} /\ \A y \in Path : ~Buffered(y)
      BY DEF Settled, IsEmpty, HealInv, Idle
    <3> QED BY <3>1, AboveTyped DEF Awaited, Marked, Told
  <2> QED BY <2>1 DEF HealInv, StaleHeals, Settled, Serving, Held, Passed, Overlooked, TakenOver
<1> QED BY <1>1, <1>2, StepHeals, PTL DEF Spec

-----------------------------------------------------------------------------
(* The cache.  It agrees with the rows as long as every path is named by one  *)
(* event of a flush at most, an expired source apart: no file is renamed       *)
(* within the root, no directory moves, and no event fails.  Otherwise it      *)
(* does not: of a rename and the creation of its source in one flush the       *)
(* cache remembers the creation, whichever came last.                        *)

NoRenames ==
  FileOps \subseteq {"write", "delete", "lateWrite", "moveOut", "moveOutDir", "moveIn"}
NoFailures == MaxFailures = 0
NoSources == "moveOut" \notin FileOps

Elements(s) == {s[i] : i \in 1..Len(s)}

\* The events of one operation: reports of a change, or half of a rename with
\* a cookie of its own.
Plain(E) == \A v \in E : v.kind \in ChangeKind \cup {"CloseWrite"}
HalfMove(E) == \E v, k : /\ E = {v} /\ v.kind \in {"MovedFrom", "MovedTo"}
                         /\ v.cookie = k /\ k \in Cookie /\ FreshCookie(k)
                         /\ v.kind = "MovedFrom" => v.path \in Dir \/ ~NoSources

\* Only the source of a move is said of a directory.
OfFile(v) == v.kind # "MovedFrom" => v.path \notin Dir

LEMMA ElementsTyped ==
  ASSUME NEW s \in Seq(Queued)
  PROVE  /\ Elements(s) \subseteq Queued /\ DOMAIN s = 1..Len(s)
         /\ Elements(Append(s, OverflowMark)) = Elements(s) \cup {OverflowMark}
         /\ s # <<>> => Elements(Tail(s)) \subseteq Elements(s) /\ Head(s) \in Elements(s)
<1>1. Elements(s) \subseteq Queued /\ DOMAIN s = 1..Len(s) /\ Len(s) \in Nat
  BY LenProperties, ElementOfSeq DEF Elements
<1>2. Elements(Append(s, OverflowMark)) = Elements(s) \cup {OverflowMark}
  <2> DEFINE t == Append(s, OverflowMark)
  <2>1. /\ Len(t) = Len(s) + 1 /\ t[Len(s) + 1] = OverflowMark
        /\ \A i \in 1..Len(s) : t[i] = s[i]
    BY MarkTyped, AppendProperties
  <2> HIDE DEF t
  <2>2. 1..Len(t) = 1..Len(s) \cup {Len(s) + 1}
    BY <1>1, <2>1
  <2>3. Elements(t) = Elements(s) \cup {OverflowMark}
    BY <2>1, <2>2 DEF Elements
  <2> QED BY <2>3 DEF t
<1>3. ASSUME s # <<>> PROVE Elements(Tail(s)) \subseteq Elements(s) /\ Head(s) \in Elements(s)
  <2> DEFINE t == Tail(s)
  <2>1. /\ Len(s) # 0 /\ Len(t) = Len(s) - 1 /\ \A i \in 1..Len(t) : t[i] = s[i + 1]
        /\ Head(s) = s[1]
    BY <1>3, EmptySeq, HeadTailProperties
  <2> HIDE DEF t
  <2>2. 1 \in 1..Len(s) /\ \A i \in 1..Len(t) : i + 1 \in 1..Len(s)
    BY <1>1, <2>1
  <2>3. Elements(t) \subseteq Elements(s) /\ Head(s) \in Elements(s)
    BY <2>1, <2>2 DEF Elements
  <2> QED BY <2>3 DEF t
<1> QED BY <1>1, <1>2, <1>3

LEMMA ElementsConcat ==
  ASSUME NEW s \in Seq(Queued), NEW t \in Seq(FsEvent)
  PROVE  Elements(s \o t) = Elements(s) \cup Elements(t)
<1> DEFINE u == s \o t
<1>1. t \in Seq(Queued)
  BY SeqMonotonic DEF Queued
<1>2. /\ Len(s) \in Nat /\ Len(t) \in Nat /\ Len(u) = Len(s) + Len(t)
      /\ \A i \in 1..Len(s) + Len(t) : u[i] = IF i <= Len(s) THEN s[i] ELSE t[i - Len(s)]
  BY <1>1, LenProperties, ConcatProperties
<1> HIDE DEF u
<1>3. ASSUME NEW i \in 1..Len(u) PROVE u[i] \in Elements(s) \cup Elements(t)
  <2>1. CASE i <= Len(s)
    <3>1. i \in 1..Len(s) /\ u[i] = s[i]
      BY <1>2, <2>1
    <3> QED BY <3>1 DEF Elements
  <2>2. CASE ~(i <= Len(s))
    <3>1. i - Len(s) \in 1..Len(t) /\ u[i] = t[i - Len(s)]
      BY <1>2, <2>2
    <3> QED BY <3>1 DEF Elements
  <2> QED BY <2>1, <2>2
<1>4. ASSUME NEW i \in 1..Len(s) PROVE s[i] \in Elements(u)
  <2>1. i \in 1..Len(u) /\ u[i] = s[i]
    BY <1>2
  <2> QED BY <2>1 DEF Elements
<1>5. ASSUME NEW i \in 1..Len(t) PROVE t[i] \in Elements(u)
  <2> DEFINE j == Len(s) + i
  <2>1. j \in 1..Len(u) /\ ~(j <= Len(s)) /\ j - Len(s) = i
    BY <1>2
  <2> HIDE DEF j
  <2>2. u[j] = t[i]
    BY <1>2, <2>1
  <2> QED BY <2>1, <2>2 DEF Elements
<1>6. Elements(u) = Elements(s) \cup Elements(t)
  BY <1>3, <1>4, <1>5 DEF Elements
<1> QED BY <1>6 DEF u

\* What the queue may hold after the events of an operation.
LEMMA QueueGrows ==
  ASSUME TypeOK, NEW events \in Seq(FsEvent), Report(events)
  PROVE  Elements(queue') \subseteq Elements(queue) \cup Elements(events) \cup {OverflowMark}
<1>1. queue \in Seq(Queued)
  BY DEF TypeOK, Queued
<1>2. queue' \in {queue, queue \o events, Append(queue, OverflowMark)}
  BY DEF Report
<1>3. Elements(queue \o events) = Elements(queue) \cup Elements(events)
  BY <1>1, ElementsConcat
<1>4. Elements(Append(queue, OverflowMark)) = Elements(queue) \cup {OverflowMark}
  BY <1>1, ElementsTyped
<1> QED BY <1>2, <1>3, <1>4

LEMMA ElementsOne ==
  ASSUME NEW a \in FsEvent
  PROVE  <<a>> \in Seq(FsEvent) /\ Elements(<<a>>) = {a}
<1>1. <<a>> \in Seq(FsEvent) /\ Len(<<a>>) = 1 /\ <<a>>[1] = a
  BY OneEvent
<1>2. 1..Len(<<a>>) = {1}
  BY <1>1
<1> QED BY <1>1, <1>2 DEF Elements

LEMMA FileReports ==
  ASSUME TypeOK, FileSystem, NoRenames
  PROVE  \E events \in Seq(FsEvent) :
           /\ Report(events)
           /\ \A v \in Elements(events) : OfFile(v)
           /\ Plain(Elements(events)) \/ HalfMove(Elements(events))
<1>f. \A d \in Dir : fs[d] = Absent
  BY DiskFacts
<1>1. ASSUME NEW p \in Path, p \notin Dir, NEW a \in FsEvent, a.path = p, a.kind \in ChangeKind,
             \E closed \in {<<>>, <<Event("CloseWrite", p)>>} : Report(<<a>> \o closed)
      PROVE  \E events \in Seq(FsEvent) :
               /\ Report(events)
               /\ \A v \in Elements(events) : OfFile(v)
               /\ Plain(Elements(events))
  <2> DEFINE b == Event("CloseWrite", p)
  <2>1. b \in FsEvent /\ b.kind = "CloseWrite" /\ b.path = p
    BY EventTyped
  <2>2. PICK closed \in {<<>>, <<b>>} : Report(<<a>> \o closed)
    BY <1>1
  <2> HIDE DEF b
  <2>3. /\ <<a>> \in Seq(FsEvent) /\ Elements(<<a>>) = {a}
        /\ <<b>> \in Seq(FsEvent) /\ Elements(<<b>>) = {b}
    BY <2>1, ElementsOne
  <2>4. <<>> \in Seq(FsEvent) /\ Elements(<<>>) = {}
    BY DEF Elements
  <2>5. closed \in Seq(FsEvent) /\ Elements(closed) \subseteq {b}
    BY <2>3, <2>4
  <2>6. <<a>> \o closed \in Seq(FsEvent)
    BY <2>3, <2>5, ConcatProperties
  <2>7. <<a>> \in Seq(Queued)
    BY <2>3, SeqMonotonic DEF Queued
  <2>8. Elements(<<a>> \o closed) \subseteq {a, b}
    BY <2>3, <2>5, <2>7, ElementsConcat
  <2> QED BY <1>1, <2>1, <2>2, <2>6, <2>8 DEF Plain, OfFile
<1>2. ASSUME NEW p \in Path, NEW k \in Cookie, FreshCookie(k),
             NEW kind \in {"MovedFrom", "MovedTo"}, Report(<<MoveEvent(kind, p, k)>>),
             kind = "MovedFrom" => p \in Dir \/ ~NoSources,
             kind = "MovedTo" => p \notin Dir
      PROVE  \E events \in Seq(FsEvent) :
               /\ Report(events)
               /\ \A v \in Elements(events) : OfFile(v)
               /\ HalfMove(Elements(events))
  <2> DEFINE a == MoveEvent(kind, p, k)
  <2>1. a \in FsEvent /\ a.kind = kind /\ a.path = p /\ a.cookie = k
    BY MoveEventTyped DEF MoveEvent
  <2>2. Report(<<a>>)
    BY <1>2
  <2> HIDE DEF a
  <2>3. HalfMove({a})
    BY <1>2, <2>1 DEF HalfMove
  <2>4. OfFile(a)
    BY <1>2, <2>1 DEF OfFile
  <2> QED BY <2>1, <2>2, <2>3, <2>4, ElementsOne
<1>3. ASSUME NEW p \in Path, NEW c \in Content, Write(p, c)
      PROVE  \E events \in Seq(FsEvent) :
               /\ Report(events)
               /\ \A v \in Elements(events) : OfFile(v)
               /\ Plain(Elements(events))
  <2> DEFINE a == Event(IF fs[p] = Absent THEN "Create" ELSE "Modify", p)
  <2>1. a \in FsEvent /\ a.path = p /\ a.kind \in ChangeKind
    BY EventTyped DEF ChangeKind
  <2>2. /\ p \notin Dir
        /\ \E closed \in {<<>>, <<Event("CloseWrite", p)>>} : Report(<<a>> \o closed)
    BY <1>3 DEF Write
  <2> HIDE DEF a
  <2> QED BY <1>1, <2>1, <2>2
<1>4. ASSUME NEW p \in Path, LateWrite(p)
      PROVE  \E events \in Seq(FsEvent) :
               /\ Report(events)
               /\ \A v \in Elements(events) : OfFile(v)
               /\ Plain(Elements(events))
  <2> DEFINE a == Event("Modify", p)
  <2>1. a \in FsEvent /\ a.path = p /\ a.kind \in ChangeKind
    BY EventTyped DEF ChangeKind
  <2>2. /\ p \notin Dir
        /\ \E closed \in {<<>>, <<Event("CloseWrite", p)>>} : Report(<<a>> \o closed)
    BY <1>4 DEF LateWrite
  <2> HIDE DEF a
  <2> QED BY <1>1, <2>1, <2>2
<1>5. ASSUME NEW p \in Path, Delete(p)
      PROVE  \E events \in Seq(FsEvent) :
               /\ Report(events)
               /\ \A v \in Elements(events) : OfFile(v)
               /\ Plain(Elements(events))
  <2> DEFINE a == Event("Delete", p)
  <2>1. a \in FsEvent /\ a.path = p /\ a.kind \in ChangeKind
    BY EventTyped DEF ChangeKind
  <2>2. p \notin Dir /\ Report(<<a>>)
    BY <1>5, <1>f DEF Delete
  <2> HIDE DEF a
  <2> QED BY <2>1, <2>2, ElementsOne DEF Plain, OfFile
<1>6. ASSUME NEW p \in Path, MoveOut(p)
      PROVE  \E events \in Seq(FsEvent) :
               /\ Report(events)
               /\ \A v \in Elements(events) : OfFile(v)
               /\ HalfMove(Elements(events))
  <2>1. PICK k \in Cookie : FreshCookie(k) /\ Report(<<MoveEvent("MovedFrom", p, k)>>)
    BY <1>6 DEF MoveOut
  <2>2. ~NoSources
    BY <1>6 DEF MoveOut, Operation, NoSources
  <2> QED BY <1>2, <2>1, <2>2
<1>7. ASSUME NEW p \in Path, NEW c \in Content, MoveIn(p, c)
      PROVE  \E events \in Seq(FsEvent) :
               /\ Report(events)
               /\ \A v \in Elements(events) : OfFile(v)
               /\ HalfMove(Elements(events))
  <2>1. PICK k \in Cookie : FreshCookie(k) /\ Report(<<MoveEvent("MovedTo", p, k)>>)
    BY <1>7 DEF MoveIn
  <2>2. p \notin Dir
    BY <1>7 DEF MoveIn
  <2> QED BY <1>2, <2>1, <2>2
<1>8. ASSUME NEW d \in Dir, MoveOutDir(d)
      PROVE  \E events \in Seq(FsEvent) :
               /\ Report(events)
               /\ \A v \in Elements(events) : OfFile(v)
               /\ HalfMove(Elements(events))
  <2>1. PICK k \in Cookie : FreshCookie(k) /\ Report(<<MoveEvent("MovedFrom", d, k)>>)
    BY <1>8 DEF MoveOutDir
  <2>2. d \in Path
    BY <1>8, DirAssumption
  <2> QED BY <1>2, <2>1, <2>2
<1>9. "rename" \notin FileOps /\ "renameDir" \notin FileOps /\ "arriveDir" \notin FileOps
  BY DEF NoRenames
<1>10. \/ \E p \in Path, c \in Content : Write(p, c) \/ MoveIn(p, c)
       \/ \E p \in Path : Delete(p) \/ MoveOut(p) \/ LateWrite(p)
       \/ \E d \in Dir : MoveOutDir(d)
  BY <1>9 DEF FileSystem, Rename, RenameDir, ArriveDir, Operation
<1> QED BY <1>3, <1>4, <1>5, <1>6, <1>7, <1>8, <1>10

\* No half of a rename meets its other half, and a directory only disappears.
Unpaired ==
  /\ \A v \in Elements(queue) : v \in FsEvent => OfFile(v)
  /\ \A v, w \in Elements(queue) :
       v.kind = "MovedTo" /\ w.kind = "MovedFrom" => v.cookie # w.cookie
  /\ \A v \in Elements(queue) : v.kind = "MovedTo" => ~MovePending(v.cookie)
  /\ \A p \in Path : entries[p].kind # "Moved" /\ (p \in Dir => entries[p].kind = "None")

\* A path has one change in a batch.
BatchPlain ==
  /\ \A e \in job.changes : e.kind \in ChangeKind /\ e.path \notin Dir
  /\ \A e, f \in job.changes : e.path = f.path => e = f

\* What the cache would become if the batch ended here are the rows so far.
CacheFollows ==
  phase = "batch" =>
    /\ Refreshed = tx.live
    /\ \A e \in job.changes : job.indexed[e.path] = Absent
    /\ job.deletes # {} => job.indexed = NoFiles

CacheInv == TypeInv /\ Unpaired /\ BatchPlain /\ CacheFollows /\ CacheTellsIndex

LEMMA FlushedPlain ==
  ASSUME TypeOK, Unpaired, NEW P \in SUBSET Path, \A p \in P : Buffered(p)
  PROVE  /\ \A e \in Changes(P) : e.kind \in ChangeKind /\ e.path \notin Dir /\ e.path \in P
         /\ \A e, f \in Changes(P) : e.path = f.path => e = f
<1>1. \A p \in P : entries[p].kind \in ChangeKind /\ p \notin Dir
  BY DEF TypeOK, BufferTypeOK, Entry, Buffered, Unpaired
<1> QED BY <1>1 DEF Changes

LEMMA RefreshedTyped == TypeOK => Refreshed \in [Path -> File]
BY DEF Refreshed, TypeOK, Job, File

LEMMA BeginCaches ==
  ASSUME CacheInv, NEW P \in SUBSET Path, NEW K \in SUBSET Cookie, NEW stopping \in BOOLEAN,
         \A p \in P : Buffered(p), \A k \in K : MovePending(k), Begin(P, K, stopping),
         phase \in {"receive", "flush"}, phase' \in {"receive", "batch"}
  PROVE  Unpaired' /\ BatchPlain' /\ CacheFollows' /\ CacheTellsIndex'
<1>t. TypeOK /\ Unpaired
  BY DEF CacheInv, TypeInv
<1>1. /\ job'.deletes = Deletions(K) /\ job'.changes = Changes(P)
      /\ job'.removed = {} /\ job'.indexed = NoFiles
  BY <1>t, BeginTyped
<1>2. /\ \A p \in Path : entries'[p] = IF p \in P THEN NoEntry ELSE entries[p]
      /\ moves' = [k \in Cookie |-> IF k \in K THEN NoMove ELSE moves[k]]
      /\ tx' = db /\ UNCHANGED <<fs, queue, db, prev>>
  BY DEF Begin, Remove
<1>3. Unpaired'
  <2>1. \A p \in Path : entries'[p].kind # "Moved" /\ (p \in Dir => entries'[p].kind = "None")
    BY <1>2, <1>t DEF Unpaired, NoEntry
  <2>2. ASSUME NEW v \in Elements(queue), v.kind = "MovedTo" PROVE ~MovePending(v.cookie)'
    <3>1. v \in Queued
      BY <1>t, ElementsTyped DEF TypeOK, Queued
    <3>2. v.cookie \in Cookie
      BY <2>2, <3>1, MarkTyped DEF Queued, FsEvent, ChangeKind
    <3>3. moves'[v.cookie] \in {moves[v.cookie], NoMove}
      BY <1>2, <3>2
    <3> QED BY <1>t, <2>2, <3>3 DEF Unpaired, MovePending, NoMove
  <2> QED BY <1>t, <1>2, <2>1, <2>2 DEF Unpaired
<1>4. BatchPlain'
  BY <1>t, <1>1, FlushedPlain DEF BatchPlain
<1>5. prev = db.live
  BY DEF CacheInv, CacheTellsIndex
<1>6. Refreshed' = prev
  <2>1. prev \in [Path -> File]
    BY <1>t DEF TypeOK
  <2>2. Refreshed' = [p \in Path |-> prev[p]]
    BY <1>1, <1>2 DEF Refreshed, NoFiles
  <2> QED BY <2>1, <2>2
<1>7. CacheFollows'
  <2>1. \A e \in Changes(P) : NoFiles[e.path] = Absent
    BY <1>t, FlushedPlain DEF NoFiles
  <2> QED BY <1>1, <1>2, <1>5, <1>6, <2>1 DEF CacheFollows
<1>8. CacheTellsIndex'
  BY <1>2, <1>5 DEF CacheTellsIndex
<1> QED BY <1>3, <1>4, <1>7, <1>8

LEMMA ReceiveCaches ==
  ASSUME CacheInv, ReceiveEvent
  PROVE  Unpaired' /\ BatchPlain' /\ CacheFollows' /\ CacheTellsIndex'
<1>t. TypeOK /\ queue \in Seq(Queued) /\ BufferTypeOK /\ Unpaired
  BY DEF CacheInv, TypeInv, TypeOK, Queued
<1> DEFINE h == Head(queue)
<1>1. /\ queue # <<>> /\ h # OverflowMark /\ Insert(h) /\ queue' = Tail(queue)
      /\ phase = "receive" /\ phase' = "flush"
      /\ UNCHANGED <<fs, db, tx, prev, job, unhealed, unread, counters>>
  BY DEF ReceiveEvent, history
<1>2. /\ Elements(queue') \subseteq Elements(queue) /\ h \in Elements(queue)
      /\ Elements(queue) \subseteq Queued
  BY <1>t, <1>1, ElementsTyped
<1>3. h \in FsEvent
  BY <1>1, <1>2 DEF Queued
<1> HIDE DEF h
<1>4. OfFile(h) /\ h.path \in Path /\ entries \in [Path -> Entry]
  BY <1>t, <1>2, <1>3 DEF Unpaired, FsEvent, BufferTypeOK
<1>5. \E x \in Entry : /\ entries' = [entries EXCEPT ![h.path] = x] /\ x.kind # "Moved"
                       /\ h.path \in Dir => x.kind = "None"
  <2>1. CASE h.kind = "MovedFrom"
    <3>1. entries' = [entries EXCEPT ![h.path] = NoEntry]
      BY <1>t, <1>1, <1>3, <2>1, InsertEntry
    <3> QED BY <3>1, NothingTyped DEF NoEntry
  <2>2. CASE h.kind # "MovedFrom"
    <3>1. PICK x \in Entry :
            /\ entries' = [entries EXCEPT ![h.path] = x]
            /\ h.kind \in ChangeKind => x.kind = h.kind
            /\ h.kind = "CloseWrite" =>
                 x.kind = IF Buffered(h.path) THEN entries[h.path].kind ELSE "Modify"
            /\ h.kind = "MovedTo" =>
                 x.kind = IF MovePending(h.cookie) THEN "Moved" ELSE "Create"
      BY <1>t, <1>1, <1>3, <2>2, InsertEntry
    <3>2. h.kind \in ChangeKind \cup {"CloseWrite", "MovedTo"}
      BY <1>3, <2>2 DEF FsEvent
    <3>3. h.kind = "MovedTo" => ~MovePending(h.cookie)
      BY <1>t, <1>2 DEF Unpaired
    <3>4. x.kind # "Moved"
      BY <1>t, <1>4, <3>1, <3>2, <3>3 DEF ChangeKind, Unpaired
    <3> QED BY <1>4, <2>2, <3>1, <3>4 DEF OfFile
  <2> QED BY <2>1, <2>2
<1>6. \A p \in Path : entries'[p].kind # "Moved" /\ (p \in Dir => entries'[p].kind = "None")
  <2>1. PICK x \in Entry : /\ entries' = [entries EXCEPT ![h.path] = x] /\ x.kind # "Moved"
                           /\ h.path \in Dir => x.kind = "None"
    BY <1>5
  <2>2. \A p \in Path : entries'[p] = IF p = h.path THEN x ELSE entries[p]
    BY <1>4, <2>1
  <2>3. \A p \in Path : entries[p].kind # "Moved" /\ (p \in Dir => entries[p].kind = "None")
    BY <1>t DEF Unpaired
  <2> QED BY <2>1, <2>2, <2>3
<1>7. ASSUME NEW v \in Elements(queue'), v.kind = "MovedTo" PROVE ~MovePending(v.cookie)'
  <2>1. v \in Elements(queue) /\ ~MovePending(v.cookie)
    BY <1>t, <1>2, <1>7 DEF Unpaired
  <2>2. v.cookie \in Cookie
    BY <1>2, <1>7, <2>1, MarkTyped DEF Queued, FsEvent, ChangeKind
  <2>3. CASE h.kind = "MovedFrom"
    <3>1. moves' = [moves EXCEPT ![h.cookie] = [from |-> h.path, age |-> 0]]
      BY <1>1, <2>3 DEF Insert, InsertMovedFrom, ChangeKind
    <3>2. v.cookie # h.cookie
      BY <1>t, <1>2, <1>7, <2>1, <2>3 DEF Unpaired
    <3>3. moves'[v.cookie] = moves[v.cookie]
      BY <1>t, <2>2, <3>1, <3>2 DEF BufferTypeOK
    <3> QED BY <2>1, <3>3 DEF MovePending
  <2>4. CASE h.kind # "MovedFrom"
    <3>1. moves'[v.cookie] \in {moves[v.cookie], NoMove}
      BY <1>t, <1>1, <1>3, <2>2, <2>4, InsertEntry
    <3> QED BY <2>1, <3>1 DEF MovePending, NoMove
  <2> QED BY <2>3, <2>4
<1>8. Unpaired'
  BY <1>t, <1>2, <1>6, <1>7 DEF Unpaired
<1>9. BatchPlain' /\ CacheFollows' /\ CacheTellsIndex'
  BY <1>1 DEF CacheInv, BatchPlain, CacheFollows, CacheTellsIndex
<1> QED BY <1>8, <1>9

LEMMA DiskCaches ==
  ASSUME CacheInv, NoRenames, FileSystem
  PROVE  Unpaired' /\ BatchPlain' /\ CacheFollows' /\ CacheTellsIndex'
<1>t. TypeOK /\ queue \in Seq(Queued) /\ Unpaired
  BY DEF CacheInv, TypeInv, TypeOK, Queued
<1>1. PICK events \in Seq(FsEvent) :
        /\ Report(events)
        /\ \A v \in Elements(events) : OfFile(v)
        /\ Plain(Elements(events)) \/ HalfMove(Elements(events))
  BY <1>t, FileReports
<1>2. UNCHANGED <<entries, moves, phase, db, tx, prev, job, unhealed, unread, stops, failures, faults>>
  BY <1>t, OperationCounts
<1>3. Elements(queue') \subseteq Elements(queue) \cup Elements(events) \cup {OverflowMark}
  BY <1>t, <1>1, QueueGrows
<1>4. \A v \in Elements(queue') : v \in FsEvent => OfFile(v)
  BY <1>t, <1>1, <1>3, MarkTyped DEF Unpaired
<1>5. ASSUME HalfMove(Elements(events)), NEW v \in Elements(events)
      PROVE  /\ ~MovePending(v.cookie) /\ v.kind \in {"MovedFrom", "MovedTo"}
             /\ Elements(events) = {v}
             /\ \A w \in Elements(queue) :
                  w.kind \in {"MovedFrom", "MovedTo"} => w.cookie # v.cookie
  <2>1. /\ Elements(events) = {v} /\ v.kind \in {"MovedFrom", "MovedTo"}
        /\ FreshCookie(v.cookie)
    BY <1>5 DEF HalfMove
  <2>2. DOMAIN queue = 1..Len(queue)
    BY <1>t, LenProperties
  <2> QED BY <2>1, <2>2 DEF FreshCookie, Elements
<1>6. \A v \in Elements(queue') : v.kind = "MovedTo" => ~MovePending(v.cookie)
  BY <1>t, <1>1, <1>3, <1>5, MarkTyped DEF Unpaired, Plain, ChangeKind
<1>7. ASSUME NEW v \in Elements(queue'), NEW w \in Elements(queue'),
             v.kind = "MovedTo", w.kind = "MovedFrom"
      PROVE  v.cookie # w.cookie
  <2>1. v \in Elements(queue) \cup Elements(events) /\ w \in Elements(queue) \cup Elements(events)
    BY <1>3, <1>7, MarkTyped
  <2>2. CASE v \in Elements(queue) /\ w \in Elements(queue)
    BY <1>t, <1>7, <2>2 DEF Unpaired
  <2>3. CASE v \notin Elements(queue) \/ w \notin Elements(queue)
    <3>1. HalfMove(Elements(events))
      BY <1>1, <1>7, <2>1, <2>3 DEF Plain, ChangeKind
    <3> QED BY <1>5, <1>7, <2>1, <2>3, <3>1
  <2> QED BY <2>2, <2>3
<1>8. Unpaired'
  BY <1>t, <1>2, <1>4, <1>6, <1>7 DEF Unpaired, MovePending
<1>9. BatchPlain' /\ CacheTellsIndex'
  BY <1>2 DEF CacheInv, BatchPlain, CacheTellsIndex
<1>10. CacheFollows'
  BY <1>2 DEF CacheInv, CacheFollows, Refreshed
<1> QED BY <1>8, <1>9, <1>10

LEMMA ProcessCaches ==
  ASSUME CacheInv, NEW e \in job.deletes \cup job.changes, Process(e)
  PROVE  Unpaired' /\ BatchPlain' /\ CacheFollows' /\ CacheTellsIndex'
<1>t. TypeOK /\ SourcesKnown /\ Unpaired /\ BatchPlain
  BY DEF CacheInv, TypeInv
<1> DEFINE F == IF e.kind = "Delete" THEN {} ELSE FilesAt(e.path)
<1>1. Take(e, F) /\ tx' = Applied(e)
  BY DEF Process, ReadBy
<1> HIDE DEF F
<1>2. /\ e \in FlushedEvent
      /\ job'.deletes = job.deletes \ {e}
      /\ job'.changes = IF job.deletes = {} THEN job.changes \ {e} ELSE job.changes
      /\ job'.removed = job.removed \cup Forgotten(e)
      /\ job'.indexed = [p \in Path |-> IF p \in F THEN fs[p] ELSE job.indexed[p]]
  <2>1. job \in Job /\ e \in FlushedEvent
    BY <1>t, <1>1, TakeTyped DEF TypeOK
  <2> QED BY <1>1, <2>1 DEF Take, Job
<1>3. /\ phase = "batch" /\ UNCHANGED <<fs, entries, moves, queue, phase, db, prev>>
      /\ e \in job.deletes \/ (job.deletes = {} /\ e \in job.changes)
  BY <1>1 DEF Take
<1>c. /\ Refreshed = tx.live
      /\ \A f \in job.changes : job.indexed[f.path] = Absent
      /\ job.deletes # {} => job.indexed = NoFiles
  BY <1>3 DEF CacheInv, CacheFollows
<1>f. /\ fs \in [Path -> File] /\ prev \in [Path -> File]
      /\ tx.live \in [Path -> File] /\ tx \in Rows
      /\ job.indexed \in [Path -> File] /\ e.path \in Path
      /\ tx'.live \in [Path -> File]
  <2>1. tx' \in Rows
    BY <1>1, <1>t, AppliedReads DEF ReadInto
  <2> QED BY <1>t, <1>2, <2>1, DiskFacts, RowsFields DEF TypeOK, Job, FlushedEvent
<1>4. Unpaired' /\ CacheTellsIndex'
  BY <1>t, <1>3 DEF Unpaired, MovePending, CacheTellsIndex
<1>5. job'.changes \subseteq job.changes /\ BatchPlain'
  BY <1>t, <1>2 DEF BatchPlain
<1>6. \A p \in Path : Refreshed'[p] = IF job'.indexed[p] # Absent THEN job'.indexed[p]
                                     ELSE IF p \in job'.removed THEN Absent ELSE prev[p]
  BY <1>3 DEF Refreshed
<1>7. \A p \in Path : tx.live[p] = IF job.indexed[p] # Absent THEN job.indexed[p]
                                  ELSE IF p \in job.removed THEN Absent ELSE prev[p]
  BY <1>c DEF Refreshed
<1>8. job.indexed[e.path] = Absent
  BY <1>3, <1>c, <1>f DEF NoFiles
<1>10. CASE e.kind = "Delete"
  <2>1. job'.indexed = job.indexed /\ job'.removed = job.removed \cup {e.path}
    BY <1>2, <1>f, <1>10 DEF Forgotten, F
  <2>2. tx'.live = [tx.live EXCEPT ![e.path] = Absent]
    BY <1>1, <1>f, <1>10 DEF Applied, Closed
  <2>3. \A p \in Path : Refreshed'[p] = tx'.live[p]
    BY <1>6, <1>7, <1>8, <1>f, <2>1, <2>2
  <2>4. Refreshed' = tx'.live
    BY <1>f, <2>3 DEF Refreshed
  <2> QED BY <1>c, <1>2, <1>4, <1>5, <2>1, <2>4 DEF CacheFollows
<1>11. CASE e.kind # "Delete"
  <2>1. e \in job.changes /\ job.deletes = {} /\ e.kind \in ChangeKind /\ e.path \notin Dir
    BY <1>3, <1>11, <1>t DEF SourcesKnown, BatchPlain
  <2>2. F = {e.path} /\ FilesAt(e.path) = {e.path}
    BY <1>11, <2>1 DEF FilesAt, F
  <2>3. job'.removed = job.removed /\ job'.deletes = {} /\ job'.changes = job.changes \ {e}
    BY <1>2, <2>1, <1>11 DEF Forgotten, ChangeKind
  <2>4. tx'.live = [p \in Path |-> IF p = e.path /\ fs[p] # Absent THEN fs[p] ELSE tx.live[p]]
    BY <1>1, <1>11, <2>1, <2>2 DEF Applied, Indexed, ChangeKind
  <2>5. \A p \in Path : job'.indexed[p] = IF p = e.path THEN fs[p] ELSE job.indexed[p]
    BY <1>2, <2>2
  <2>6. \A p \in Path : Refreshed'[p] = tx'.live[p]
    BY <1>6, <1>7, <1>8, <1>f, <2>3, <2>4, <2>5
  <2>7. Refreshed' = tx'.live
    BY <1>f, <2>6 DEF Refreshed
  <2>8. ASSUME NEW f \in job'.changes PROVE job'.indexed[f.path] = Absent
    <3>1. f \in job.changes /\ f.path # e.path
      BY <1>t, <2>1, <2>3 DEF BatchPlain
    <3>2. f.path \in Path
      BY <1>t, <3>1 DEF TypeOK, Job, FlushedEvent
    <3> QED BY <1>c, <2>5, <3>1, <3>2
  <2> QED BY <1>4, <1>5, <2>3, <2>7, <2>8 DEF CacheFollows
<1> QED BY <1>10, <1>11

LEMMA StepCaches ==
  ASSUME NoRenames, NoFailures
  PROVE  CacheInv /\ [Next]_vars => CacheInv'
<1> SUFFICES ASSUME CacheInv, [Next]_vars PROVE CacheInv'
  OBVIOUS
<1>t. TypeInv' /\ TypeInv /\ TypeOK
  BY StepTyped DEF CacheInv, TypeInv
<1> SUFFICES Unpaired' /\ BatchPlain' /\ CacheFollows' /\ CacheTellsIndex'
  BY <1>t DEF CacheInv
<1>s. queue \in Seq(Queued)
  BY <1>t DEF TypeOK, Queued
<1>1. CASE FileSystem
  BY <1>1, DiskCaches
<1>2. CASE Start
  BY <1>2 DEF Start, CacheInv, Unpaired, MovePending, BatchPlain, CacheFollows, CacheTellsIndex
<1>3. CASE ReceiveTimeout \/ UNCHANGED vars
  <2>1. /\ UNCHANGED <<fs, entries, moves, queue, db, tx, prev, job>>
        /\ phase' = phase \/ (phase = "receive" /\ phase' = "flush")
    BY <1>3 DEF ReceiveTimeout, vars, watcherVars
  <2>2. Refreshed' = Refreshed
    BY <2>1 DEF Refreshed
  <2> QED BY <2>1, <2>2
          DEF CacheInv, Unpaired, MovePending, BatchPlain, CacheFollows, CacheTellsIndex
<1>4. CASE StartupScan \/ PeriodicScan \/ FaultyPeriodicScan \/ ReceiveOverflow
  <2>1. AnyScan /\ UNCHANGED <<fs, entries, moves, job>> /\ phase' \in {"receive", "flush"}
    BY <1>4 DEF StartupScan, PeriodicScan, FaultyPeriodicScan, ReceiveOverflow, AnyScan
  <2>2. queue' = queue \/ (queue # <<>> /\ queue' = Tail(queue))
    BY <1>4 DEF StartupScan, PeriodicScan, FaultyPeriodicScan, ReceiveOverflow
  <2>3. Elements(queue') \subseteq Elements(queue)
    BY <1>s, <2>2, ElementsTyped
  <2>4. prev' = db'.live
    BY <1>t, <2>1, AnyScanTyped
  <2> QED BY <2>1, <2>3, <2>4
          DEF CacheInv, Unpaired, MovePending, BatchPlain, CacheFollows, CacheTellsIndex
<1>5. CASE Crash \/ CommitAndStop
  <2>1. Halt
    BY <1>5 DEF Crash, CommitAndStop
  <2>2. Elements(queue') = {} /\ job'.changes = {} /\ phase' = "down"
    BY <2>1 DEF Halt, NoJob, Elements
  <2>3. \A p \in Path : entries'[p].kind = "None"
    BY <2>1 DEF Halt, NoEntry
  <2> QED BY <2>2, <2>3 DEF Unpaired, BatchPlain, CacheFollows, CacheTellsIndex
<1>6. CASE ReceiveEvent
  BY <1>6, ReceiveCaches
<1>7. CASE Flush
  <2>1. /\ Begin(ReadyPaths, ExpiredCookies, FALSE) /\ phase \in {"receive", "flush"}
        /\ phase' \in {"receive", "batch"}
    BY <1>7 DEF Flush
  <2> QED BY <1>t, <2>1, FlushTakes, BeginCaches
<1>8. CASE Shutdown
  <2> DEFINE P == {p \in Path : Buffered(p)}
             K == {k \in Cookie : MovePending(k)}
  <2>1. /\ Begin(P, K, TRUE) /\ phase \in {"receive", "flush"} /\ phase' \in {"receive", "batch"}
        /\ P \in SUBSET Path /\ K \in SUBSET Cookie
        /\ (\A p \in P : Buffered(p)) /\ (\A k \in K : MovePending(k))
    BY <1>8 DEF Shutdown
  <2> HIDE DEF P, K
  <2> QED BY <2>1, BeginCaches
<1>9. ASSUME NEW e \in job.deletes \cup job.changes, Process(e)
      PROVE  Unpaired' /\ BatchPlain' /\ CacheFollows' /\ CacheTellsIndex'
  BY <1>9, ProcessCaches
<1>10. ASSUME NEW e \in job.deletes \cup job.changes, Fail(e) PROVE FALSE
  BY <1>10, <1>t DEF Fail, TypeOK, NoFailures
<1>11. CASE Commit
  <2>1. /\ UNCHANGED <<entries, moves, queue>> /\ job' = NoJob
        /\ phase = "batch" /\ phase' = "receive" /\ db' = tx /\ prev' = Refreshed
    BY <1>11 DEF Commit
  <2>2. prev' = db'.live
    BY <2>1 DEF CacheInv, CacheFollows
  <2> QED BY <2>1, <2>2
          DEF CacheInv, Unpaired, MovePending, BatchPlain, NoJob, CacheFollows, CacheTellsIndex
<1>12. CASE Age
  <2>1. UNCHANGED <<fs, queue, phase, db, tx, prev, job>>
    BY <1>12 DEF Age
  <2>2. /\ \A p \in Path : entries'[p].kind = entries[p].kind
        /\ \A k \in Cookie : moves'[k].from = moves[k].from
    BY <1>12, <1>t, TickKeeps DEF Age, TypeOK
  <2>3. \A v \in Elements(queue) : v.kind = "MovedTo" => v.cookie \in Cookie
    BY <1>s, ElementsTyped, MarkTyped DEF Queued, FsEvent, ChangeKind
  <2>4. Unpaired'
    BY <2>1, <2>2, <2>3 DEF CacheInv, Unpaired, MovePending
  <2>5. BatchPlain' /\ CacheTellsIndex'
    BY <2>1 DEF CacheInv, BatchPlain, CacheTellsIndex
  <2>6. CacheFollows'
    BY <2>1 DEF CacheInv, CacheFollows, Refreshed
  <2> QED BY <2>4, <2>5, <2>6
<1> QED
  BY <1>1, <1>2, <1>3, <1>4, <1>5, <1>6, <1>7, <1>8, <1>9, <1>10, <1>11, <1>12
     DEF Next, EventLoop

LEMMA InitCaches == Init => CacheInv
<1> SUFFICES ASSUME Init PROVE CacheInv
  OBVIOUS
<1>1. Elements(queue) = {} /\ job.changes = {} /\ phase = "down"
  BY DEF Init, NoJob, Elements
<1>2. \A p \in Path : entries[p].kind = "None"
  BY DEF Init, BufferInit, NoEntry
<1> QED BY <1>1, <1>2, InitSourced
        DEF CacheInv, Unpaired, BatchPlain, CacheFollows, CacheTellsIndex

\* Between two flushes the cache that decides which events are written is the
\* live rows, for writes, deletions, late writes and moves across the border
\* of the root, of files into it, whatever is lost and however often the watcher is
\* restarted.
THEOREM CacheIsIndex ==
  ASSUME NoRenames, NoFailures
  PROVE  Spec => []CacheTellsIndex
<1>1. CacheInv => CacheTellsIndex
  BY DEF CacheInv
<1>2. CacheInv /\ [Next]_vars => CacheInv'
  BY StepCaches
<1> QED BY <1>1, <1>2, InitCaches, PTL DEF Spec

-----------------------------------------------------------------------------
(* The event log.  Where only directories are moved out, every file is named  *)
(* by at most one event of a flush, and the cache as it was before the flush  *)
(* decides rightly which event to write: the state the log adds up to is the  *)
(* rows, within a transaction too.                                            *)

Unmoved ==
  /\ \A v \in Elements(queue) : v.kind = "MovedFrom" => v.path \in Dir
  /\ \A k \in Cookie : MovePending(k) => moves[k].from \in Dir
  /\ \A e \in job.deletes : e.kind = "Delete" /\ e.path \in Dir

LogFollows ==
  /\ db.view = db.live /\ tx.view = tx.live
  /\ \A e \in job.changes : e.path \notin job.removed

LogInv == CacheInv /\ Unmoved /\ LogFollows

LEMMA DiskUnmoved ==
  ASSUME CacheInv, Unmoved, NoRenames, NoSources, FileSystem
  PROVE  Unmoved'
<1>t. TypeOK
  BY DEF CacheInv, TypeInv
<1>1. PICK events \in Seq(FsEvent) :
        /\ Report(events)
        /\ Plain(Elements(events)) \/ HalfMove(Elements(events))
  BY <1>t, FileReports
<1>2. UNCHANGED <<moves, job>>
  BY <1>t, OperationCounts
<1>3. Elements(queue') \subseteq Elements(queue) \cup Elements(events) \cup {OverflowMark}
  BY <1>t, <1>1, QueueGrows
<1>4. \A v \in Elements(events) : v.kind = "MovedFrom" => v.path \in Dir
  BY <1>1 DEF Plain, HalfMove, ChangeKind
<1>5. \A v \in Elements(queue') : v.kind = "MovedFrom" => v.path \in Dir
  BY <1>3, <1>4, MarkTyped DEF Unmoved
<1> QED BY <1>2, <1>5 DEF Unmoved, MovePending

LEMMA ReceiveUnmoved ==
  ASSUME CacheInv, Unmoved, ReceiveEvent
  PROVE  Unmoved'
<1>t. TypeOK /\ queue \in Seq(Queued) /\ BufferTypeOK
  BY DEF CacheInv, TypeInv, TypeOK, Queued
<1> DEFINE h == Head(queue)
<1>1. /\ queue # <<>> /\ h # OverflowMark /\ Insert(h) /\ queue' = Tail(queue)
      /\ UNCHANGED job
  BY DEF ReceiveEvent
<1>2. Elements(queue') \subseteq Elements(queue) /\ h \in Elements(queue) /\ h \in Queued
  BY <1>t, <1>1, ElementsTyped
<1>3. h \in FsEvent /\ (h.kind = "MovedFrom" => h.path \in Dir)
  BY <1>1, <1>2 DEF Queued, Unmoved
<1> HIDE DEF h
<1>4. CASE h.kind # "MovedFrom"
  <2>1. \A k \in Cookie : moves'[k] \in {moves[k], NoMove}
    BY <1>t, <1>1, <1>3, <1>4, InsertEntry
  <2>2. \A k \in Cookie : MovePending(k)' => moves'[k].from \in Dir
    BY <2>1 DEF Unmoved, MovePending, NoMove
  <2> QED BY <1>1, <1>2, <2>2 DEF Unmoved
<1>5. CASE h.kind = "MovedFrom"
  <2>1. moves' = [moves EXCEPT ![h.cookie] = [from |-> h.path, age |-> 0]]
    BY <1>1, <1>5 DEF Insert, InsertMovedFrom, ChangeKind
  <2>2. moves \in [Cookie -> PendingMove]
    BY <1>t DEF BufferTypeOK
  <2>3. ASSUME NEW k \in Cookie, MovePending(k)' PROVE moves'[k].from \in Dir
    <3>1. CASE k = h.cookie
      BY <1>3, <1>5, <2>1, <2>2, <3>1
    <3>2. CASE k # h.cookie
      BY <2>1, <2>2, <2>3, <3>2 DEF Unmoved, MovePending
    <3> QED BY <3>1, <3>2
  <2> QED BY <1>1, <1>2, <2>3 DEF Unmoved
<1> QED BY <1>4, <1>5

LEMMA BeginFollows ==
  ASSUME CacheInv, Unmoved, LogFollows, NEW P \in SUBSET Path, NEW K \in SUBSET Cookie,
         NEW stopping \in BOOLEAN,
         \A p \in P : Buffered(p), \A k \in K : MovePending(k), Begin(P, K, stopping)
  PROVE  Unmoved' /\ LogFollows'
<1>t. TypeOK
  BY DEF CacheInv, TypeInv
<1>1. job'.deletes = Deletions(K) /\ job'.removed = {}
  BY <1>t, BeginTyped
<1>2. /\ moves' = [k \in Cookie |-> IF k \in K THEN NoMove ELSE moves[k]]
      /\ tx' = db /\ UNCHANGED <<queue, db>>
  BY DEF Begin, Remove
<1>3. \A e \in job'.deletes : e.kind = "Delete" /\ e.path \in Dir
  BY <1>1 DEF Deletions, Unmoved
<1>4. \A k \in Cookie : MovePending(k)' => moves'[k].from \in Dir
  BY <1>2 DEF Unmoved, MovePending, NoMove
<1> QED BY <1>1, <1>2, <1>3, <1>4 DEF Unmoved, LogFollows

LEMMA ProcessFollows ==
  ASSUME LogInv, NEW e \in job.deletes \cup job.changes, Process(e)
  PROVE  Unmoved' /\ LogFollows'
<1>t. TypeOK /\ SourcesKnown /\ BatchPlain /\ CacheFollows /\ Unmoved /\ LogFollows
  BY DEF LogInv, CacheInv, TypeInv
<1> DEFINE F == IF e.kind = "Delete" THEN {} ELSE FilesAt(e.path)
<1>1. Take(e, F) /\ tx' = Applied(e)
  BY DEF Process, ReadBy
<1> HIDE DEF F
<1>2. /\ phase = "batch" /\ UNCHANGED <<moves, queue, db>>
      /\ e \in job.deletes \/ (job.deletes = {} /\ e \in job.changes)
      /\ job'.deletes = job.deletes \ {e}
      /\ job'.changes = IF job.deletes = {} THEN job.changes \ {e} ELSE job.changes
      /\ job'.removed = job.removed \cup Forgotten(e)
  BY <1>1, <1>t DEF Take, TypeOK, Job
<1>3. /\ tx \in Rows /\ fs \in [Path -> File] /\ e.path \in Path
      /\ tx.live \in [Path -> File] /\ tx.view = tx.live
  BY <1>t, <1>2, DiskFacts, RowsFields DEF TypeOK, Job, FlushedEvent, LogFollows
<1>4. Unmoved'
  BY <1>2, <1>t DEF Unmoved, MovePending
<1>5. CASE e \in job.deletes
  <2>1. e.kind = "Delete" /\ e.path \in Dir
    BY <1>5, <1>t DEF Unmoved
  <2>2. tx'.view = tx'.live
    <3>1. tx' = Closed(tx, e.path)
      BY <1>1, <2>1 DEF Applied
    <3> QED BY <1>3, <3>1 DEF Closed
  <2>3. job'.changes = job.changes /\ job'.removed = job.removed \cup {e.path}
    BY <1>2, <1>5, <2>1 DEF Forgotten
  <2>4. \A f \in job'.changes : f.path \notin job'.removed
    BY <1>t, <2>1, <2>3 DEF BatchPlain, LogFollows
  <2> QED BY <1>2, <1>4, <1>t, <2>2, <2>4 DEF LogFollows
<1>6. CASE job.deletes = {} /\ e \in job.changes
  <2>1. e.kind \in ChangeKind /\ e.path \notin Dir
    BY <1>6, <1>t DEF BatchPlain
  <2>2. \A f \in job'.changes : f.path \notin job'.removed
    <3>1. Forgotten(e) \subseteq {e.path}
      BY <2>1 DEF Forgotten, ChangeKind
    <3> QED BY <1>2, <1>6, <1>t, <3>1 DEF BatchPlain, LogFollows
  <2>3. CASE e.kind = "Delete"
    <3>1. tx' = Closed(tx, e.path)
      BY <1>1, <2>3 DEF Applied
    <3>2. tx'.view = tx'.live
      BY <1>3, <3>1 DEF Closed
    <3> QED BY <1>2, <1>4, <1>t, <2>2, <3>2 DEF LogFollows
  <2>4. CASE e.kind # "Delete"
    <3>1. tx' = Indexed(tx, {e.path})
      BY <1>1, <2>1, <2>4 DEF Applied, FilesAt, ChangeKind
    <3>2. prev[e.path] = tx.live[e.path]
      <4>1. /\ Refreshed = tx.live /\ job.indexed[e.path] = Absent
            /\ e.path \notin job.removed
        BY <1>2, <1>6, <1>t DEF CacheFollows, LogFollows
      <4> QED BY <1>3, <4>1 DEF Refreshed
    <3>3. /\ tx'.live = [p \in Path |-> IF p = e.path /\ fs[p] # Absent
                                       THEN fs[p] ELSE tx.live[p]]
          /\ tx'.view = [p \in Path |-> IF p = e.path /\ fs[p] # Absent /\ prev[p] # fs[p]
                                       THEN fs[p] ELSE tx.live[p]]
      BY <1>3, <3>1 DEF Indexed
    <3>4. \A p \in Path : tx'.view[p] = tx'.live[p]
      BY <3>2, <3>3
    <3>5. tx'.view = tx'.live
      BY <3>3, <3>4
    <3> QED BY <1>2, <1>4, <1>t, <2>2, <3>5 DEF LogFollows
  <2> QED BY <2>3, <2>4
<1> QED BY <1>2, <1>4, <1>5, <1>6

LEMMA StepFollows ==
  ASSUME NoRenames, NoFailures, NoSources
  PROVE  LogInv /\ [Next]_vars => LogInv'
<1> SUFFICES ASSUME LogInv, [Next]_vars PROVE LogInv'
  OBVIOUS
<1>t. CacheInv /\ TypeOK /\ Unmoved /\ LogFollows /\ CacheInv'
  BY StepCaches DEF LogInv, CacheInv, TypeInv
<1> SUFFICES Unmoved' /\ LogFollows'
  BY <1>t DEF LogInv
<1>s. queue \in Seq(Queued)
  BY <1>t DEF TypeOK, Queued
<1>1. CASE FileSystem
  <2>1. UNCHANGED <<db, tx, job>>
    BY <1>1, <1>t, OperationCounts
  <2> QED BY <1>1, <1>t, <2>1, DiskUnmoved DEF LogFollows
<1>2. CASE Start \/ ReceiveTimeout \/ UNCHANGED vars
  <2>1. UNCHANGED <<moves, queue, db, tx, job>>
    BY <1>2 DEF Start, ReceiveTimeout, vars, watcherVars
  <2> QED BY <1>t, <2>1 DEF Unmoved, MovePending, LogFollows
<1>3. CASE StartupScan \/ PeriodicScan \/ FaultyPeriodicScan \/ ReceiveOverflow
  <2>1. AnyScan /\ UNCHANGED <<moves, job>>
    BY <1>3 DEF StartupScan, PeriodicScan, FaultyPeriodicScan, ReceiveOverflow, AnyScan
  <2>2. queue' = queue \/ (queue # <<>> /\ queue' = Tail(queue))
    BY <1>3 DEF StartupScan, PeriodicScan, FaultyPeriodicScan, ReceiveOverflow
  <2>3. Elements(queue') \subseteq Elements(queue)
    BY <1>s, <2>2, ElementsTyped
  <2>4. db'.view = db'.live /\ tx' = db'
    BY <1>t, <2>1, AnyScanTyped DEF ScannedTo, LogFollows
  <2> QED BY <1>t, <2>1, <2>3, <2>4 DEF Unmoved, MovePending, LogFollows
<1>4. CASE Crash \/ CommitAndStop
  <2>1. Halt /\ tx' = db' /\ db'.view = db'.live
    BY <1>4, <1>t, CrashLeaves DEF CommitAndStop, ScannedTo, LogFollows
  <2>2. Elements(queue') = {} /\ job'.changes = {} /\ job'.deletes = {}
    BY <2>1 DEF Halt, NoJob, Elements
  <2>3. \A k \in Cookie : ~MovePending(k)'
    BY <2>1 DEF Halt, MovePending, NoMove
  <2> QED BY <1>t, <2>1, <2>2, <2>3 DEF Unmoved, LogFollows
<1>5. CASE ReceiveEvent
  <2>1. UNCHANGED <<db, tx, job>>
    BY <1>5 DEF ReceiveEvent
  <2> QED BY <1>5, <1>t, <2>1, ReceiveUnmoved DEF LogFollows
<1>6. CASE Flush
  <2>1. Begin(ReadyPaths, ExpiredCookies, FALSE)
    BY <1>6 DEF Flush
  <2> QED BY <1>t, <2>1, FlushTakes, BeginFollows
<1>7. CASE Shutdown
  <2> DEFINE P == {p \in Path : Buffered(p)}
             K == {k \in Cookie : MovePending(k)}
  <2>1. /\ Begin(P, K, TRUE) /\ P \in SUBSET Path /\ K \in SUBSET Cookie
        /\ (\A p \in P : Buffered(p)) /\ (\A k \in K : MovePending(k))
    BY <1>7 DEF Shutdown
  <2> HIDE DEF P, K
  <2> QED BY <1>t, <2>1, BeginFollows
<1>8. ASSUME NEW e \in job.deletes \cup job.changes, Process(e)
      PROVE  Unmoved' /\ LogFollows'
  BY <1>8, ProcessFollows
<1>9. ASSUME NEW e \in job.deletes \cup job.changes, Fail(e) PROVE FALSE
  BY <1>9, <1>t DEF Fail, TypeOK, NoFailures
<1>10. CASE Commit
  <2>1. UNCHANGED <<moves, queue, tx>> /\ job' = NoJob /\ db' = tx
    BY <1>10 DEF Commit
  <2> QED BY <1>t, <2>1 DEF Unmoved, MovePending, NoJob, LogFollows
<1>11. CASE Age
  <2>1. UNCHANGED <<queue, db, tx, job>>
    BY <1>11 DEF Age
  <2>2. \A k \in Cookie : moves'[k].from = moves[k].from
    BY <1>11, <1>t, TickKeeps DEF Age, TypeOK
  <2>3. \A k \in Cookie : MovePending(k)' => moves'[k].from \in Dir
    BY <1>t, <2>2 DEF Unmoved, MovePending
  <2> QED BY <1>t, <2>1, <2>3 DEF Unmoved, LogFollows
<1> QED
  BY <1>1, <1>2, <1>3, <1>4, <1>5, <1>6, <1>7, <1>8, <1>9, <1>10, <1>11 DEF Next, EventLoop

LEMMA InitFollows == Init => LogInv
<1> SUFFICES ASSUME Init PROVE LogInv
  OBVIOUS
<1>1. Elements(queue) = {} /\ job.changes = {} /\ job.deletes = {}
  BY DEF Init, NoJob, Elements
<1>2. \A k \in Cookie : ~MovePending(k)
  BY DEF Init, BufferInit, MovePending, NoMove
<1>3. db.view = db.live /\ tx.view = tx.live
  BY DEF Init
<1> QED BY <1>1, <1>2, <1>3, InitCaches DEF LogInv, Unmoved, LogFollows

\* Where the log is the rows, the promise for the rows is the whole promise.
LEMMA PromiseKept ==
  ASSUME db.view = db.live, db'.view = db'.live,
         [PromiseOfRows!Next]_(PromiseOfRows!vars)
  PROVE  [Promise!Next]_(Promise!vars)
<1>1. CASE PromiseOfRows!DiskChanges
  BY <1>1 DEF Promise!Next, PromiseOfRows!DiskChanges, Promise!DiskChanges,
              PromiseOfRows!File, Promise!File
<1>2. CASE PromiseOfRows!Stage
  BY <1>2 DEF Promise!Next, PromiseOfRows!Stage, Promise!Stage,
              PromiseOfRows!File, Promise!File
<1>3. CASE PromiseOfRows!Discard
  BY <1>3 DEF Promise!Next, PromiseOfRows!Discard, Promise!Discard,
              PromiseOfRows!File, Promise!File
<1>4. CASE PromiseOfRows!Publish
  BY <1>4 DEF Promise!Next, PromiseOfRows!Publish, Promise!Publish,
              PromiseOfRows!File, Promise!File
<1>5. CASE UNCHANGED PromiseOfRows!vars
  BY <1>5 DEF PromiseOfRows!vars, Promise!vars
<1> QED BY <1>1, <1>2, <1>3, <1>4, <1>5 DEF PromiseOfRows!Next

\* Rows and event log together are what Mirror promises, for writes, deletions,
\* late writes, files moved in and directories moved out: every transaction that
\* changes what is live tells the log the same, whatever is lost and wherever the
\* watcher crashes.
THEOREM LogRefinesMirror ==
  ASSUME NoRenames, NoFailures, NoSources
  PROVE  Spec => ImplementsMirror
<1>1. Init => Promise!Init
  <2> SUFFICES ASSUME Init PROVE Promise!Init
    OBVIOUS
  <2>1. fs \in [Path -> Promise!File]
    BY DEF Init, Disk, Promise!File, File
  <2>2. tx.live = NoFiles /\ db.live = NoFiles /\ db.view = NoFiles
    BY DEF Init
  <2> QED BY <2>1, <2>2 DEF Promise!Init, Promise!Empty, NoFiles
<1>2. LogInv /\ LogInv' /\ [Next]_vars => [Promise!Next]_(Promise!vars)
  <2>1. ASSUME LogInv, LogInv', [Next]_vars
        PROVE  db.view = db.live /\ db'.view = db'.live
               /\ [PromiseOfRows!Next]_(PromiseOfRows!vars)
    BY <2>1, StepRefines DEF LogInv, LogFollows, CacheInv, TypeInv
  <2> QED BY <2>1, PromiseKept
<1>3. LogInv /\ [Next]_vars => LogInv'
  BY StepFollows
<1> QED BY <1>1, <1>2, <1>3, InitFollows, PTL DEF Spec, ImplementsMirror, Promise!Spec

-----------------------------------------------------------------------------
(* Steady state.  Of writes that are seen as they happen, deletions and files *)
(* moved in, the latest event of a path says whether the path is there, so    *)
(* the buffer and the batch end up saying so too.  A late write or a lost     *)
(* event makes the latest event wrong, and a source of a rename is closed     *)
(* long after it was reported.                                                *)

NoLateEvents == FileOps \subseteq {"write", "delete", "moveIn"}
NoLosses == MaxLosses = 0

\* A close repeats what the event before it said.
Alters(v, x) == v.path = x /\ v.kind # "CloseWrite"
Still(s, x) == \A i \in 1..Len(s) : ~Alters(s[i], x)
Newest(s, v) ==
  \E i \in 1..Len(s) : s[i] = v /\ \A j \in 1..Len(s) : j > i => ~Alters(s[j], v.path)

LEMMA ConcatItems ==
  ASSUME NEW s \in Seq(FsEvent), NEW t \in Seq(FsEvent)
  PROVE  /\ s \o t \in Seq(FsEvent)
         /\ Len(s) \in Nat /\ Len(t) \in Nat /\ Len(s \o t) = Len(s) + Len(t)
         /\ \A i \in 1..Len(s) : (s \o t)[i] = s[i]
         /\ \A i \in 1..Len(t) : (s \o t)[Len(s) + i] = t[i]
<1> DEFINE u == s \o t
<1>1. Len(s) \in Nat /\ Len(t) \in Nat
  BY LenProperties
<1>2. /\ u \in Seq(FsEvent) /\ Len(u) = Len(s) + Len(t)
      /\ \A i \in 1..Len(s) + Len(t) : u[i] = IF i <= Len(s) THEN s[i] ELSE t[i - Len(s)]
  BY ConcatProperties
<1> HIDE DEF u
<1>3. ASSUME NEW i \in 1..Len(t) PROVE u[Len(s) + i] = t[i]
  <2>1. /\ Len(s) + i \in 1..Len(s) + Len(t) /\ ~(Len(s) + i <= Len(s))
        /\ (Len(s) + i) - Len(s) = i
    BY <1>1
  <2> QED BY <1>2, <2>1
<1>4. \A i \in 1..Len(s) : u[i] = s[i]
  BY <1>1, <1>2
<1> QED BY <1>1, <1>2, <1>3, <1>4 DEF u

LEMMA AppendedNewest ==
  ASSUME NEW s \in Seq(FsEvent), NEW t \in Seq(FsEvent)
  PROVE  /\ \A v : Newest(s \o t, v) =>
              v \in Elements(t) \/ (Newest(s, v) /\ Still(t, v.path))
         /\ \A x : Still(s \o t, x) => Still(s, x) /\ Still(t, x)
<1> DEFINE u == s \o t
<1>1. /\ Len(s) \in Nat /\ Len(t) \in Nat /\ Len(u) = Len(s) + Len(t)
      /\ \A i \in 1..Len(s) : u[i] = s[i]
      /\ \A i \in 1..Len(t) : u[Len(s) + i] = t[i]
  BY ConcatItems
<1> HIDE DEF u
<1>2. ASSUME NEW j \in 1..Len(u), j \notin 1..Len(s)
      PROVE  j - Len(s) \in 1..Len(t) /\ u[j] = t[j - Len(s)]
  <2>1. j - Len(s) \in 1..Len(t) /\ j = Len(s) + (j - Len(s))
    BY <1>1, <1>2
  <2> QED BY <1>1, <2>1
<1>3. \A i \in 1..Len(s) : i \in 1..Len(u)
  BY <1>1
<1>4. \A i \in 1..Len(t) : Len(s) + i \in 1..Len(u) /\ \A k \in 1..Len(s) : Len(s) + i > k
  BY <1>1
<1>5. ASSUME NEW v, Newest(u, v), v \notin Elements(t)
      PROVE  Newest(s, v) /\ Still(t, v.path)
  <2>1. PICK i \in 1..Len(u) :
          u[i] = v /\ \A j \in 1..Len(u) : j > i => ~Alters(u[j], v.path)
    BY <1>5 DEF Newest
  <2>2. i \in 1..Len(s)
    BY <1>2, <1>5, <2>1 DEF Elements
  <2>3. s[i] = v /\ \A j \in 1..Len(s) : j > i => ~Alters(s[j], v.path)
    BY <1>1, <1>3, <2>1, <2>2
  <2>4. \A j \in 1..Len(t) : ~Alters(t[j], v.path)
    BY <1>1, <1>4, <2>1, <2>2
  <2> QED BY <2>2, <2>3, <2>4 DEF Newest, Still
<1>6. ASSUME NEW x, Still(u, x) PROVE Still(s, x) /\ Still(t, x)
  BY <1>1, <1>3, <1>4, <1>6 DEF Still
<1> QED BY <1>5, <1>6 DEF u

LEMMA TailNewest ==
  ASSUME NEW s \in Seq(FsEvent), s # <<>>
  PROVE  /\ Tail(s) \in Seq(FsEvent)
         /\ \A v : Newest(Tail(s), v) => Newest(s, v)
         /\ \A x : Still(Tail(s), x) => Still(s, x) \/ Alters(Head(s), x)
         /\ Still(Tail(s), Head(s).path) => Newest(s, Head(s))
<1> DEFINE u == Tail(s)
<1>1. /\ u \in Seq(FsEvent)
      /\ Len(s) \in Nat /\ Len(s) > 0 /\ Len(u) = Len(s) - 1 /\ Head(s) = s[1]
      /\ \A i \in 1..Len(u) : u[i] = s[i + 1]
  <2>1. Len(s) \in Nat /\ Len(s) # 0
    BY EmptySeq
  <2> QED BY <2>1, HeadTailProperties
<1> HIDE DEF u
<1>2. ASSUME NEW j \in 1..Len(s), j # 1 PROVE j - 1 \in 1..Len(u) /\ u[j - 1] = s[j]
  <2>1. j - 1 \in 1..Len(u) /\ j = (j - 1) + 1
    BY <1>1, <1>2
  <2> QED BY <1>1, <2>1
<1>3. 1 \in 1..Len(s) /\ \A k \in 1..Len(u) : k + 1 \in 1..Len(s)
  BY <1>1
<1>4. ASSUME NEW v, Newest(u, v) PROVE Newest(s, v)
  <2>1. PICK i \in 1..Len(u) :
          u[i] = v /\ \A j \in 1..Len(u) : j > i => ~Alters(u[j], v.path)
    BY <1>4 DEF Newest
  <2>2. i + 1 \in 1..Len(s) /\ s[i + 1] = v
    BY <1>1, <1>3, <2>1
  <2>3. ASSUME NEW j \in 1..Len(s), j > i + 1 PROVE ~Alters(s[j], v.path)
    <3>1. j # 1 /\ j - 1 > i
      BY <2>3
    <3> QED BY <1>2, <2>1, <3>1
  <2> QED BY <2>2, <2>3 DEF Newest
<1>5. ASSUME NEW x, Still(u, x), ~Alters(Head(s), x) PROVE Still(s, x)
  BY <1>1, <1>2, <1>5 DEF Still
<1>6. ASSUME Still(u, Head(s).path) PROVE Newest(s, Head(s))
  <2>1. \A j \in 1..Len(s) : j > 1 => ~Alters(s[j], Head(s).path)
    BY <1>2, <1>6 DEF Still
  <2> QED BY <1>1, <1>3, <2>1 DEF Newest
<1> QED BY <1>1, <1>4, <1>5, <1>6 DEF u

LEMMA ReportedWhole ==
  ASSUME TypeOK, NoLosses, NEW events, Report(events)
  PROVE  queue' = IF Watching THEN queue \o events ELSE queue
BY DEF TypeOK, NoLosses, Report

\* The events of a change of one file agree on whether it is there now.
Latest(p, t) ==
  /\ p \notin Dir /\ t \in Seq(FsEvent) /\ Report(t)
  /\ ~Still(t, p)
  /\ \A v \in Elements(t) : /\ v.path = p /\ v.kind # "MovedFrom"
                            /\ v.kind = "Delete" <=> fs'[p] = Absent
  /\ \A q \in Path : q # p => fs'[q] = fs[q]

LEMMA OneLatest ==
  ASSUME NEW p \in Path, p \notin Dir, NEW a \in FsEvent, Report(<<a>>),
         a.path = p, a.kind \notin {"CloseWrite", "MovedFrom"},
         a.kind = "Delete" <=> fs'[p] = Absent,
         \A q \in Path : q # p => fs'[q] = fs[q]
  PROVE  Latest(p, <<a>>)
<1>1. <<a>> \in Seq(FsEvent) /\ Len(<<a>>) = 1 /\ <<a>>[1] = a /\ Elements(<<a>>) = {a}
  BY OneEvent, ElementsOne
<1> DEFINE t == <<a>>
<1>2. Report(t) /\ t \in Seq(FsEvent) /\ Elements(t) = {a} /\ 1 \in 1..Len(t) /\ t[1] = a
  BY <1>1
<1> HIDE DEF t
<1>3. ~Still(t, p)
  BY <1>2 DEF Still, Alters
<1>4. Latest(p, t)
  BY <1>2, <1>3 DEF Latest
<1> QED BY <1>4 DEF t

LEMMA ClosedLatest ==
  ASSUME NEW p \in Path, p \notin Dir, NEW a \in FsEvent,
         a.path = p, a.kind \in {"Create", "Modify"}, fs'[p] # Absent,
         \A q \in Path : q # p => fs'[q] = fs[q],
         \E closed \in {<<>>, <<Event("CloseWrite", p)>>} : Report(<<a>> \o closed)
  PROVE  \E t : Latest(p, t)
<1> DEFINE b == Event("CloseWrite", p)
<1>1. b \in FsEvent /\ b.kind = "CloseWrite" /\ b.path = p
  BY EventTyped
<1>2. PICK closed \in {<<>>, <<b>>} : Report(<<a>> \o closed)
  OBVIOUS
<1> HIDE DEF b
<1>3. /\ <<a>> \in Seq(FsEvent) /\ Elements(<<a>>) = {a} /\ Len(<<a>>) = 1 /\ <<a>>[1] = a
      /\ <<b>> \in Seq(FsEvent) /\ Elements(<<b>>) = {b}
  BY <1>1, OneEvent, ElementsOne
<1>4. <<>> \in Seq(FsEvent) /\ Elements(<<>>) = {}
  BY DEF Elements
<1>5. closed \in Seq(FsEvent) /\ Elements(closed) \subseteq {b}
  BY <1>3, <1>4
<1>6. <<a>> \in Seq(Queued)
  BY <1>3, SeqMonotonic DEF Queued
<1>7. Elements(<<a>> \o closed) \subseteq {a, b}
  BY <1>3, <1>5, <1>6, ElementsConcat
<1> DEFINE t == <<a>> \o closed
<1>8. t \in Seq(FsEvent) /\ 1 \in 1..Len(t) /\ t[1] = a /\ Elements(t) \subseteq {a, b} /\ Report(t)
  <2> DEFINE s == <<a>>
  <2>1. s \in Seq(FsEvent) /\ Len(s) = 1 /\ s[1] = a
    BY <1>3
  <2> HIDE DEF s
  <2>2. 1 \in 1..Len(s)
    BY <2>1
  <2>3. /\ s \o closed \in Seq(FsEvent) /\ Len(closed) \in Nat
        /\ Len(s \o closed) = Len(s) + Len(closed)
        /\ \A i \in 1..Len(s) : (s \o closed)[i] = s[i]
    BY <1>5, <2>1, ConcatItems
  <2>4. /\ s \o closed \in Seq(FsEvent) /\ Len(closed) \in Nat
        /\ Len(s \o closed) = 1 + Len(closed) /\ (s \o closed)[1] = a
    BY <2>1, <2>2, <2>3
  <2>5. s \o closed \in Seq(FsEvent) /\ 1 \in 1..Len(s \o closed) /\ (s \o closed)[1] = a
    BY <2>4
  <2> QED BY <1>2, <1>7, <2>5 DEF s
<1> HIDE DEF t
<1>9. ~Still(t, p)
  BY <1>8 DEF Still, Alters
<1>10. \A v \in {a, b} : v.path = p /\ v.kind # "MovedFrom" /\ v.kind # "Delete"
  BY <1>1
<1> QED BY <1>8, <1>9, <1>10 DEF Latest

LEMMA FileChanges ==
  ASSUME TypeOK, FileSystem, NoLateEvents
  PROVE  \E p \in Path : \E t : Latest(p, t)
<1>f. /\ fs \in [Path -> File] /\ \A d \in Dir : fs[d] = Absent
      /\ Content \subseteq File /\ Absent \notin Content
  BY DiskFacts, ContentAssumption
<1>1. ASSUME NEW p \in Path, NEW c \in Content, Write(p, c) PROVE \E t : Latest(p, t)
  <2> DEFINE a == Event(IF fs[p] = Absent THEN "Create" ELSE "Modify", p)
  <2>1. a \in FsEvent /\ a.path = p /\ a.kind \in {"Create", "Modify"}
    BY EventTyped DEF ChangeKind
  <2>2. /\ p \notin Dir
        /\ \E closed \in {<<>>, <<Event("CloseWrite", p)>>} : Report(<<a>> \o closed)
    BY <1>1 DEF Write
  <2> HIDE DEF a
  <2>3. fs'[p] = c /\ \A q \in Path : q # p => fs'[q] = fs[q]
    BY <1>1, <1>f DEF Write
  <2>4. fs'[p] # Absent
    BY <1>f, <2>3
  <2> QED BY <2>1, <2>2, <2>3, <2>4, ClosedLatest
<1>2. ASSUME NEW p \in Path, NEW c \in Content, MoveIn(p, c) PROVE \E t : Latest(p, t)
  <2>1. PICK k \in Cookie : Report(<<MoveEvent("MovedTo", p, k)>>)
    BY <1>2 DEF MoveIn
  <2> DEFINE a == MoveEvent("MovedTo", p, k)
  <2>2. a \in FsEvent /\ a.path = p /\ a.kind = "MovedTo" /\ Report(<<a>>)
    BY <2>1, MoveEventTyped
  <2> HIDE DEF a
  <2>3. p \notin Dir /\ fs'[p] = c /\ \A q \in Path : q # p => fs'[q] = fs[q]
    BY <1>2, <1>f DEF MoveIn
  <2>4. fs'[p] # Absent
    BY <1>f, <2>3
  <2> QED BY <2>2, <2>3, <2>4, OneLatest
<1>3. ASSUME NEW p \in Path, Delete(p) PROVE \E t : Latest(p, t)
  <2> DEFINE a == Event("Delete", p)
  <2>1. a \in FsEvent /\ a.path = p /\ a.kind = "Delete" /\ Report(<<a>>)
    BY <1>3, EventTyped DEF ChangeKind, Delete
  <2> HIDE DEF a
  <2>2. p \notin Dir /\ fs'[p] = Absent /\ \A q \in Path : q # p => fs'[q] = fs[q]
    BY <1>3, <1>f DEF Delete
  <2> QED BY <2>1, <2>2, OneLatest
<1>4. \/ \E p \in Path, c \in Content : Write(p, c) \/ MoveIn(p, c)
      \/ \E p \in Path : Delete(p)
  <2>1. /\ "rename" \notin FileOps /\ "renameDir" \notin FileOps
        /\ "moveOutDir" \notin FileOps /\ "arriveDir" \notin FileOps
        /\ "moveOut" \notin FileOps /\ "lateWrite" \notin FileOps
    BY DEF NoLateEvents
  <2> QED BY <2>1 DEF FileSystem, Rename, RenameDir, MoveOutDir, ArriveDir, MoveOut,
                      LateWrite, Operation
<1> QED BY <1>1, <1>2, <1>3, <1>4

Agrees(kind, p) == kind = "Delete" <=> fs[p] = Absent

\* What is named in the buffer and in a batch: files, each once, and no
\* renames; nothing while the watcher is down.
Calm ==
  /\ queue \in Seq(FsEvent)
  /\ \A v \in Elements(queue) : v.kind # "MovedFrom" /\ v.path \notin Dir
  /\ \A k \in Cookie : ~MovePending(k)
  /\ \A p \in Path : entries[p].kind # "Moved" /\ (p \in Dir => entries[p].kind = "None")
  /\ job.deletes = {} /\ BatchPlain
  /\ phase = "down" => queue = <<>> /\ \A p \in Path : ~Buffered(p)

QueueAgrees == \A v \in Elements(queue) : Newest(queue, v) => Agrees(v.kind, v.path)

BufferAgrees ==
  \A p \in Path : Still(queue, p) /\ Buffered(p) => Agrees(entries[p].kind, p)

BatchAgrees ==
  \A p \in Path : Still(queue, p) /\ ~Buffered(p) =>
    \A e \in job.changes : e.path = p => Agrees(e.kind, p)

RowsAgree ==
  Serving /\ ~unhealed =>
    \A p \in Path : Still(queue, p) /\ ~Buffered(p) /\ (\A e \in job.changes : e.path # p)
                      => Held[p] = fs[p] \/ Passed(p)

Steady == Calm /\ QueueAgrees /\ BufferAgrees /\ BatchAgrees /\ RowsAgree
SteadyInv == HealInv /\ Steady

LEMMA DiskSteady ==
  ASSUME SteadyInv, NoLateEvents, NoLosses, FileSystem
  PROVE  Steady'
<1>t. TypeOK /\ Calm /\ QueueAgrees /\ BufferAgrees /\ BatchAgrees /\ RowsAgree /\ Idle
  BY DEF SteadyInv, Steady, HealInv, TypeInv
<1>0. PICK p \in Path : \E t : Latest(p, t)
  BY <1>t, FileChanges
<1>1. PICK t : Latest(p, t)
  BY <1>0
<1>2. UNCHANGED <<entries, moves, phase, db, tx, job, unhealed, unread>>
  BY <1>t, OperationCounts
<1>3. /\ queue' = IF Watching THEN queue \o t ELSE queue
      /\ p \notin Dir /\ t \in Seq(FsEvent)
  BY <1>t, <1>1, ReportedWhole DEF Latest
<1>4. CASE ~Watching
  <2>1. phase = "down" /\ queue' = queue
    BY <1>3, <1>4 DEF Watching
  <2>2. queue = <<>> /\ Elements(queue) = {} /\ \A x \in Path : ~Buffered(x)
    BY <1>t, <2>1 DEF Calm, Elements
  <2>3. job.changes = {} /\ ~Serving
    BY <1>t, <2>1 DEF Idle, Serving
  <2>4. Calm'
    BY <1>t, <1>2, <2>1 DEF Calm, MovePending, Buffered, BatchPlain
  <2> QED BY <1>2, <2>1, <2>2, <2>3, <2>4
          DEF Steady, QueueAgrees, BufferAgrees, BatchAgrees, RowsAgree, Buffered, Serving
<1>5. CASE Watching
  <2>1. queue' = queue \o t /\ phase # "down" /\ queue \in Seq(FsEvent) /\ t \in Seq(FsEvent)
    BY <1>t, <1>3, <1>5 DEF Watching, Calm
  <2>2. /\ queue' \in Seq(FsEvent)
        /\ \A v : Newest(queue', v) =>
             v \in Elements(t) \/ (Newest(queue, v) /\ Still(t, v.path))
        /\ \A x : Still(queue', x) => Still(queue, x) /\ Still(t, x)
    BY <2>1, AppendedNewest, ConcatItems
  <2>3. Elements(queue') = Elements(queue) \cup Elements(t)
    <3>1. queue \in Seq(Queued)
      BY <2>1, SeqMonotonic DEF Queued
    <3> QED BY <2>1, <3>1, ElementsConcat
  <2>4. /\ ~Still(t, p)
        /\ \A v \in Elements(t) : /\ v.path = p /\ v.kind # "MovedFrom"
                                  /\ v.kind = "Delete" <=> fs'[p] = Absent
        /\ \A q \in Path : q # p => fs'[q] = fs[q]
    BY <1>1 DEF Latest
  <2>5. Calm'
    BY <1>t, <1>2, <1>3, <2>1, <2>2, <2>3, <2>4 DEF Calm, MovePending, Buffered, BatchPlain
  <2>6. ASSUME NEW x \in Path, Still(queue', x)
        PROVE  Still(queue, x) /\ fs'[x] = fs[x]
    BY <2>2, <2>4, <2>6
  <2>7. ASSUME NEW v \in Elements(queue'), Newest(queue', v)
        PROVE  v.kind = "Delete" <=> fs'[v.path] = Absent
    <3>1. CASE v \in Elements(t)
      BY <2>4, <3>1
    <3>2. CASE v \notin Elements(t)
      <4>1. v \in Elements(queue) /\ Newest(queue, v) /\ Still(t, v.path)
        BY <2>2, <2>3, <2>7, <3>2
      <4>2. v \in FsEvent
        BY <2>2, <2>7, LenProperties, ElementOfSeq DEF Elements
      <4>3. v.path \in Path /\ v.path # p
        BY <2>4, <4>1, <4>2 DEF FsEvent
      <4> QED BY <1>t, <2>4, <4>1, <4>3 DEF QueueAgrees, Agrees
    <3> QED BY <3>1, <3>2
  <2>8. QueueAgrees'
    BY <2>7 DEF QueueAgrees, Agrees
  <2>9. BufferAgrees' /\ BatchAgrees'
    BY <1>t, <1>2, <2>6 DEF BufferAgrees, BatchAgrees, Agrees, Buffered
  <2>10. RowsAgree'
    <3>1. Held' = Held /\ Serving' = Serving
      BY <1>2 DEF Held, Serving
    <3> QED BY <1>t, <1>2, <2>6, <3>1 DEF RowsAgree, Buffered, Passed
  <2> QED BY <2>5, <2>8, <2>9, <2>10 DEF Steady
<1> QED BY <1>4, <1>5

LEMMA ReceiveSteady ==
  ASSUME SteadyInv, ReceiveEvent
  PROVE  Steady'
<1>t. TypeOK /\ BufferTypeOK /\ Calm /\ QueueAgrees /\ BufferAgrees /\ RowsAgree /\ Idle
  BY DEF SteadyInv, Steady, HealInv, TypeInv, TypeOK
<1> DEFINE h == Head(queue)
<1>1. /\ queue # <<>> /\ Insert(h) /\ queue' = Tail(queue)
      /\ phase = "receive" /\ phase' = "flush"
      /\ UNCHANGED <<fs, db, tx, job, unhealed, unread>>
  BY DEF ReceiveEvent, history
<1>2. queue \in Seq(FsEvent) /\ queue \in Seq(Queued) /\ job.changes = {}
  BY <1>t, <1>1 DEF Calm, TypeOK, Queued, Idle
<1>3. /\ queue' \in Seq(FsEvent)
      /\ \A v : Newest(queue', v) => Newest(queue, v)
      /\ \A x : Still(queue', x) => Still(queue, x) \/ Alters(h, x)
      /\ Still(queue', h.path) => Newest(queue, h)
  BY <1>1, <1>2, TailNewest
<1>4. Elements(queue') \subseteq Elements(queue) /\ h \in Elements(queue)
  BY <1>1, <1>2, ElementsTyped
<1>5. h \in FsEvent
  BY <1>1, <1>2, HeadTailProperties
<1> HIDE DEF h
<1>6. h.kind # "MovedFrom" /\ h.path \notin Dir /\ h.path \in Path
  BY <1>t, <1>4, <1>5 DEF Calm, FsEvent
<1>7. PICK x \in Entry :
        /\ entries' = [entries EXCEPT ![h.path] = x]
        /\ h.kind \in ChangeKind => x.kind = h.kind
        /\ h.kind = "CloseWrite" =>
             x.kind = IF Buffered(h.path) THEN entries[h.path].kind ELSE "Modify"
        /\ h.kind = "MovedTo" => x.kind = IF MovePending(h.cookie) THEN "Moved" ELSE "Create"
  BY <1>t, <1>1, <1>5, <1>6, InsertEntry
<1>8. /\ h.kind \in ChangeKind \cup {"CloseWrite", "MovedTo"}
      /\ h.kind = "MovedTo" => x.kind = "Create"
  <2>1. h.kind \in ChangeKind \cup {"CloseWrite", "MovedTo"}
    BY <1>5, <1>6 DEF FsEvent
  <2>2. h.kind = "MovedTo" => h.cookie \in Cookie
    BY <1>5 DEF FsEvent, ChangeKind
  <2> QED BY <1>t, <1>7, <2>1, <2>2 DEF Calm
<1>9. entries \in [Path -> Entry] /\ entries'[h.path] = x
      /\ \A p \in Path : p # h.path => entries'[p] = entries[p]
  BY <1>t, <1>6, <1>7 DEF BufferTypeOK
<1>10. x.kind \in ChangeKind
  <2>1. entries[h.path].kind \in ChangeKind \cup {"None"}
    BY <1>t, <1>6, <1>9 DEF Calm, Entry
  <2> QED BY <1>7, <1>8, <2>1 DEF Buffered, ChangeKind
<1>11. \A k \in Cookie : moves'[k] \in {moves[k], NoMove}
  BY <1>t, <1>1, <1>5, <1>6, InsertEntry
<1>12. Calm'
  <2>1. \A k \in Cookie : ~MovePending(k)'
    BY <1>t, <1>11 DEF Calm, MovePending, NoMove
  <2>2. \A p \in Path : entries'[p].kind # "Moved" /\ (p \in Dir => entries'[p].kind = "None")
    BY <1>t, <1>6, <1>9, <1>10 DEF Calm, ChangeKind
  <2> QED BY <1>t, <1>1, <1>3, <1>4, <2>1, <2>2 DEF Calm, BatchPlain
<1>13. QueueAgrees'
  BY <1>t, <1>1, <1>3, <1>4 DEF QueueAgrees, Agrees
<1>14. ASSUME NEW p \in Path, Still(queue', p), Buffered(p)'
       PROVE  entries'[p].kind = "Delete" <=> fs[p] = Absent
  <2>1. CASE p = h.path
    <3>1. h.kind = "Delete" <=> fs[p] = Absent
      BY <1>t, <1>3, <1>4, <1>14, <2>1 DEF QueueAgrees, Agrees
    <3>2. CASE h.kind \in ChangeKind \cup {"MovedTo"}
      BY <1>7, <1>8, <1>9, <2>1, <3>1, <3>2 DEF ChangeKind
    <3>3. CASE h.kind = "CloseWrite"
      <4>1. Still(queue, p)
        BY <1>3, <1>14, <3>3 DEF Alters
      <4> QED BY <1>t, <1>7, <1>9, <2>1, <3>1, <3>3, <4>1 DEF BufferAgrees, Agrees
    <3> QED BY <1>8, <3>2, <3>3
  <2>2. CASE p # h.path
    <3>1. Still(queue, p) /\ Buffered(p)
      BY <1>3, <1>9, <1>14, <2>2 DEF Alters, Buffered
    <3> QED BY <1>t, <1>9, <2>2, <3>1 DEF BufferAgrees, Agrees
  <2> QED BY <2>1, <2>2
<1>15. BufferAgrees'
  BY <1>1, <1>14 DEF BufferAgrees, Agrees
<1>16. ASSUME NEW p \in Path, Still(queue', p), ~Buffered(p)'
       PROVE  Still(queue, p) /\ ~Buffered(p)
  <2>1. p # h.path
    BY <1>9, <1>10, <1>16 DEF Buffered, ChangeKind
  <2> QED BY <1>3, <1>9, <1>16, <2>1 DEF Alters, Buffered
<1>17. BatchAgrees'
  BY <1>1, <1>2 DEF BatchAgrees
<1>18. RowsAgree'
  <2>1. Held' = Held /\ Serving
    BY <1>1 DEF Held, Serving
  <2> QED BY <1>t, <1>1, <1>2, <1>16, <2>1 DEF RowsAgree, Passed
<1> QED BY <1>12, <1>13, <1>15, <1>17, <1>18 DEF Steady

LEMMA BeginSteady ==
  ASSUME SteadyInv, NEW P \in SUBSET Path, NEW K \in SUBSET Cookie, NEW stopping \in BOOLEAN,
         \A p \in P : Buffered(p), \A k \in K : MovePending(k), Begin(P, K, stopping),
         phase \in {"receive", "flush"}, phase' \in {"receive", "batch"}
  PROVE  Steady'
<1>t. TypeOK /\ Calm /\ QueueAgrees /\ BufferAgrees /\ RowsAgree /\ Idle
  BY DEF SteadyInv, Steady, HealInv, TypeInv
<1>1. job'.deletes = Deletions(K) /\ job'.changes = Changes(P)
  BY <1>t, BeginTyped
<1>2. K = {}
  BY <1>t DEF Calm
<1>3. /\ \A p \in Path : entries'[p] = IF p \in P THEN NoEntry ELSE entries[p]
      /\ \A k \in Cookie : moves'[k] = moves[k]
      /\ tx' = db /\ UNCHANGED <<fs, queue, db, unhealed, unread>>
  BY <1>2 DEF Begin, Remove, history
<1>4. job.changes = {} /\ job'.deletes = {}
  BY <1>t, <1>1, <1>2 DEF Idle, Deletions
<1>5. \A e \in Changes(P) : e.path \in P /\ e.kind = entries[e.path].kind
  BY DEF Changes
<1>6. ASSUME NEW e \in Changes(P) PROVE e.kind \in ChangeKind /\ e.path \notin Dir
  <2>1. entries[e.path].kind \in ChangeKind /\ entries[e.path].kind # "None"
    BY <1>t, <1>5 DEF Calm, TypeOK, BufferTypeOK, Entry, Buffered
  <2> QED BY <1>t, <1>5, <2>1 DEF Calm
<1>7. \A e, f \in Changes(P) : e.path = f.path => e = f
  BY DEF Changes
<1>8. Calm'
  <2>1. \A p \in Path : entries'[p].kind # "Moved" /\ (p \in Dir => entries'[p].kind = "None")
    BY <1>t, <1>3 DEF Calm, NoEntry
  <2> QED BY <1>t, <1>1, <1>3, <1>4, <1>6, <1>7, <2>1 DEF Calm, MovePending, BatchPlain
<1>9. \A p \in Path : Buffered(p)' <=> (Buffered(p) /\ p \notin P)
  BY <1>3 DEF Buffered, NoEntry
<1>10. QueueAgrees' /\ BufferAgrees'
  BY <1>t, <1>3, <1>9 DEF QueueAgrees, BufferAgrees, Agrees
<1>11. BatchAgrees'
  BY <1>t, <1>1, <1>3, <1>5 DEF BatchAgrees, BufferAgrees, Agrees
<1>12. RowsAgree'
  <2>1. Held' = Held /\ Serving
    BY <1>3 DEF Held, Serving
  <2>2. ASSUME NEW p \in Path, \A e \in Changes(P) : e.path # p PROVE p \notin P
    <3>1. p \in P => [path |-> p, kind |-> entries[p].kind, from |-> entries[p].from] \in Changes(P)
      BY DEF Changes
    <3> QED BY <2>2, <3>1
  <2> QED BY <1>t, <1>1, <1>3, <1>4, <1>9, <2>1, <2>2 DEF RowsAgree, Passed
<1> QED BY <1>8, <1>10, <1>11, <1>12 DEF Steady

\* What every event of a batch does, processed or failed.
LEMMA TakeSteady ==
  ASSUME SteadyInv, NEW e, NEW F, Take(e, F)
  PROVE  /\ Calm' /\ QueueAgrees' /\ BufferAgrees' /\ BatchAgrees'
         /\ e \in job.changes /\ job'.changes = job.changes \ {e}
<1>t. TypeOK /\ Calm /\ QueueAgrees /\ BufferAgrees /\ BatchAgrees
  BY DEF SteadyInv, Steady, HealInv, TypeInv
<1>1. /\ e \in job.changes /\ UNCHANGED <<fs, entries, moves, queue, phase>>
      /\ job'.deletes = {} /\ job'.changes = job.changes \ {e}
  BY <1>t DEF Take, Calm, TypeOK, Job
<1>2. Calm'
  BY <1>t, <1>1 DEF Calm, MovePending, Buffered, BatchPlain
<1>3. QueueAgrees' /\ BufferAgrees' /\ BatchAgrees'
  BY <1>t, <1>1 DEF QueueAgrees, BufferAgrees, BatchAgrees, Agrees, Buffered
<1> QED BY <1>1, <1>2, <1>3

LEMMA ProcessSteady ==
  ASSUME SteadyInv, NEW e \in job.deletes \cup job.changes, Process(e)
  PROVE  Steady'
<1>t. TypeOK /\ Calm /\ BatchAgrees /\ RowsAgree
  BY DEF SteadyInv, Steady, HealInv, TypeInv
<1>1. PICK F : /\ Take(e, F) /\ tx' = Applied(e)
               /\ UNCHANGED unhealed /\ unread' = unread \ ReadBy(e)
  BY DEF Process
<1>2. /\ Calm' /\ QueueAgrees' /\ BufferAgrees' /\ BatchAgrees'
      /\ e \in job.changes /\ job'.changes = job.changes \ {e}
  BY <1>1, TakeSteady
<1>3. phase = "batch" /\ UNCHANGED <<fs, entries, queue, phase>>
  BY <1>1 DEF Take
<1>4. e.kind \in ChangeKind /\ e.path \notin Dir /\ e.path \in Path
      /\ tx.live \in [Path -> File] /\ tx \in Rows
  BY <1>t, <1>2, RowsFields DEF Calm, BatchPlain, TypeOK, Job, FlushedEvent
<1>5. \A p \in Path :
        tx'.live[p] = IF p # e.path THEN tx.live[p]
                      ELSE IF e.kind = "Delete" THEN Absent
                      ELSE IF fs[p] # Absent THEN fs[p] ELSE tx.live[p]
  <2>1. CASE e.kind = "Delete"
    BY <1>1, <1>4, <2>1 DEF Applied, Closed
  <2>2. CASE e.kind # "Delete"
    <3>1. tx' = Indexed(tx, {e.path})
      BY <1>1, <1>4, <2>2 DEF Applied, FilesAt, ChangeKind
    <3> QED BY <2>2, <3>1 DEF Indexed
  <2> QED BY <2>1, <2>2
<1>6. ASSUME Serving, ~unhealed, NEW p \in Path, Still(queue, p), ~Buffered(p),
             \A f \in job'.changes : f.path # p
      PROVE  tx'.live[p] = fs[p] \/ Passed(p)'
  <2>1. CASE p = e.path
    <3>1. e.kind = "Delete" <=> fs[p] = Absent
      BY <1>t, <1>2, <1>6, <2>1 DEF BatchAgrees, Agrees
    <3> QED BY <1>5, <2>1, <3>1
  <2>2. CASE p # e.path
    <3>1. \A f \in job.changes : f.path # p
      BY <1>2, <1>6, <2>2
    <3>2. p \notin ReadBy(e) /\ tx'.live[p] = tx.live[p]
      BY <1>4, <1>5, <2>2 DEF ReadBy, FilesAt
    <3>3. Passed(p) => Passed(p)'
      BY <1>1, <1>3, <3>2 DEF Passed, Held
    <3> QED BY <1>t, <1>3, <1>6, <3>1, <3>2, <3>3 DEF RowsAgree, Held
  <2> QED BY <2>1, <2>2
<1>7. RowsAgree'
  BY <1>1, <1>3, <1>6 DEF RowsAgree, Held, Buffered, Serving
<1> QED BY <1>2, <1>7 DEF Steady

\* A scan leaves the buffer as it is, and no row behind but those it passes over.
LEMMA ScanSteady ==
  ASSUME SteadyInv, AnyScan, UNCHANGED <<fs, entries, moves, queue, job>>,
         phase \in {"starting", "receive"}, phase' = "receive"
  PROVE  Steady'
<1>t. TypeOK /\ Calm /\ QueueAgrees /\ BufferAgrees /\ BatchAgrees
  BY DEF SteadyInv, Steady, HealInv, TypeInv
<1>1. unhealed' \/ \A p \in Path : Held'[p] = fs[p] \/ Passed(p)'
  BY <1>t, FullScanLeaves DEF AnyScan, ScanDrops, ScanStops, Faulty
<1>2. Calm'
  BY <1>t DEF Calm, MovePending, BatchPlain
<1>3. QueueAgrees' /\ BufferAgrees' /\ BatchAgrees'
  BY <1>t DEF QueueAgrees, BufferAgrees, BatchAgrees, Agrees, Buffered
<1>4. RowsAgree'
  BY <1>1 DEF RowsAgree
<1> QED BY <1>2, <1>3, <1>4 DEF Steady

LEMMA HaltSteady ==
  ASSUME Halt
  PROVE  Steady'
<1>1. queue' = <<>> /\ Elements(queue') = {} /\ job'.changes = {} /\ job'.deletes = {}
      /\ phase' = "down"
  BY DEF Halt, NoJob, Elements
<1>2. /\ \A p \in Path : entries'[p].kind = "None" /\ ~Buffered(p)'
      /\ \A k \in Cookie : ~MovePending(k)'
  BY DEF Halt, NoEntry, Buffered, MovePending, NoMove
<1>3. queue' \in Seq(FsEvent) /\ ~Serving'
  BY <1>1 DEF Serving
<1> QED BY <1>1, <1>2, <1>3
        DEF Steady, Calm, BatchPlain, QueueAgrees, BufferAgrees, BatchAgrees, RowsAgree

LEMMA StepSteady ==
  ASSUME NoLateEvents, NoLosses
  PROVE  SteadyInv /\ [Next]_vars => SteadyInv'
<1> SUFFICES ASSUME SteadyInv, [Next]_vars PROVE SteadyInv'
  OBVIOUS
<1>t. /\ HealInv' /\ TypeOK /\ Idle
      /\ Calm /\ QueueAgrees /\ BufferAgrees /\ BatchAgrees /\ RowsAgree
  BY StepHeals DEF SteadyInv, Steady, HealInv, TypeInv
<1> SUFFICES Steady'
  BY <1>t DEF SteadyInv
<1>1. CASE FileSystem
  BY <1>1, DiskSteady
<1>2. CASE Start \/ ReceiveTimeout \/ Commit \/ UNCHANGED vars
  <2>1. /\ UNCHANGED <<fs, entries, moves, queue, unhealed, unread>>
        /\ job'.changes = job.changes /\ job'.deletes = {}
        /\ phase' = "down" => phase = "down"
    <3>1. job.deletes = {}
      BY <1>t DEF Calm
    <3>2. CASE Commit
      BY <3>1, <3>2 DEF Commit, BatchDone, NoJob, history
    <3>3. CASE Start \/ ReceiveTimeout \/ UNCHANGED vars
      <4>1. /\ UNCHANGED <<fs, entries, moves, queue, unhealed, unread, job>>
            /\ phase' = "down" => phase = "down"
        BY <3>3 DEF Start, ReceiveTimeout, vars, watcherVars, history
      <4> QED BY <3>1, <4>1
    <3> QED BY <1>2, <3>2, <3>3
  <2>2. Serving' => Serving /\ Held' = Held
    BY <1>2 DEF Start, ReceiveTimeout, Commit, Serving, Held, vars, watcherVars
  <2>3. Calm'
    BY <1>t, <2>1 DEF Calm, MovePending, Buffered, BatchPlain
  <2>4. QueueAgrees' /\ BufferAgrees' /\ BatchAgrees'
    BY <1>t, <2>1 DEF QueueAgrees, BufferAgrees, BatchAgrees, Agrees, Buffered
  <2>5. RowsAgree'
    BY <1>t, <2>1, <2>2 DEF RowsAgree, Buffered, Passed
  <2> QED BY <2>3, <2>4, <2>5 DEF Steady
<1>3. CASE StartupScan \/ PeriodicScan \/ FaultyPeriodicScan
  <2>1. /\ AnyScan /\ UNCHANGED <<fs, entries, moves, queue, job>>
        /\ phase \in {"starting", "receive"} /\ phase' = "receive"
    BY <1>3 DEF StartupScan, PeriodicScan, FaultyPeriodicScan, AnyScan
  <2> QED BY <2>1, ScanSteady
<1>4. CASE ReceiveOverflow
  <2>1. Head(queue) = OverflowMark /\ queue # <<>>
    BY <1>4 DEF ReceiveOverflow
  <2>2. Head(queue) \in FsEvent
    BY <1>t, <2>1, HeadTailProperties DEF Calm
  <2> QED BY <2>1, <2>2, MarkTyped
<1>5. CASE Crash \/ CommitAndStop
  BY <1>5, HaltSteady DEF Crash, CommitAndStop
<1>6. CASE ReceiveEvent
  BY <1>6, ReceiveSteady
<1>7. CASE Flush
  <2>1. /\ Begin(ReadyPaths, ExpiredCookies, FALSE) /\ phase \in {"receive", "flush"}
        /\ phase' \in {"receive", "batch"}
    BY <1>7 DEF Flush
  <2> QED BY <1>t, <2>1, FlushTakes, BeginSteady
<1>8. CASE Shutdown
  <2> DEFINE P == {p \in Path : Buffered(p)}
             K == {k \in Cookie : MovePending(k)}
  <2>1. /\ Begin(P, K, TRUE) /\ phase \in {"receive", "flush"} /\ phase' \in {"receive", "batch"}
        /\ P \in SUBSET Path /\ K \in SUBSET Cookie
        /\ (\A p \in P : Buffered(p)) /\ (\A k \in K : MovePending(k))
    BY <1>8 DEF Shutdown
  <2> HIDE DEF P, K
  <2> QED BY <2>1, BeginSteady
<1>9. ASSUME NEW e \in job.deletes \cup job.changes, Process(e) PROVE Steady'
  BY <1>9, ProcessSteady
<1>10. ASSUME NEW e \in job.deletes \cup job.changes, Fail(e) PROVE Steady'
  <2>1. Take(e, {}) /\ unhealed' = TRUE
    BY <1>10 DEF Fail
  <2>2. Calm' /\ QueueAgrees' /\ BufferAgrees' /\ BatchAgrees'
    BY <2>1, TakeSteady
  <2>3. RowsAgree'
    BY <2>1 DEF RowsAgree
  <2> QED BY <2>2, <2>3 DEF Steady
<1>11. CASE Age
  <2>1. UNCHANGED <<fs, queue, phase, db, tx, job, unhealed, unread>>
    BY <1>11 DEF Age, history
  <2>2. /\ \A p \in Path : entries'[p].kind = entries[p].kind
        /\ \A k \in Cookie : moves'[k].from = moves[k].from
    BY <1>11, <1>t, TickKeeps DEF Age, TypeOK
  <2>3. Calm'
    BY <1>t, <2>1, <2>2 DEF Calm, MovePending, Buffered, BatchPlain
  <2>4. QueueAgrees' /\ BufferAgrees' /\ BatchAgrees'
    BY <1>t, <2>1, <2>2 DEF QueueAgrees, BufferAgrees, BatchAgrees, Agrees, Buffered
  <2>5. RowsAgree'
    BY <1>t, <2>1, <2>2 DEF RowsAgree, Buffered, Held, Serving, Passed
  <2> QED BY <2>3, <2>4, <2>5 DEF Steady
<1> QED
  BY <1>1, <1>2, <1>3, <1>4, <1>5, <1>6, <1>7, <1>8, <1>9, <1>10, <1>11 DEF Next, EventLoop

\* In steady state the live rows are the disk, overlooked files excepted, for
\* writes seen as they happen, deletions and files moved in, with events and
\* scans that fail and crashes, as long as the kernel loses no event.
THEOREM SteadyIsScanned ==
  ASSUME NoLateEvents, NoLosses
  PROVE  Spec => []SteadyStateIsFullScan
<1>1. Init => SteadyInv
  <2> SUFFICES ASSUME Init PROVE SteadyInv
    OBVIOUS
  <2>1. /\ queue = <<>> /\ Elements(queue) = {} /\ job.changes = {} /\ job.deletes = {}
        /\ phase = "down"
    BY DEF Init, NoJob, Elements
  <2>2. /\ \A p \in Path : entries[p].kind = "None" /\ ~Buffered(p)
        /\ \A k \in Cookie : ~MovePending(k)
    BY DEF Init, BufferInit, NoEntry, Buffered, MovePending, NoMove
  <2>3. queue \in Seq(FsEvent) /\ ~Serving
    BY <2>1 DEF Serving
  <2>4. HealInv
    BY InitHeals
  <2> QED BY <2>1, <2>2, <2>3, <2>4
          DEF SteadyInv, Steady, Calm, BatchPlain, QueueAgrees, BufferAgrees, BatchAgrees,
              RowsAgree
<1>2. SteadyInv /\ [Next]_vars => SteadyInv'
  BY StepSteady
<1>3. SteadyInv => SteadyStateIsFullScan
  <2> SUFFICES ASSUME SteadyInv, Settled, NEW p \in Path
               PROVE  db.live[p] = fs[p] \/ Overlooked(p)
    BY DEF SteadyStateIsFullScan
  <2>1. /\ queue = <<>> /\ Len(queue) = 0 /\ phase = "receive" /\ ~unhealed
        /\ ~Buffered(p)
    BY DEF Settled, IsEmpty
  <2>2. job.changes = {} /\ Still(queue, p)
    BY <2>1 DEF SteadyInv, HealInv, Idle, Still
  <2>3. Held[p] = fs[p] \/ Passed(p)
    BY <2>1, <2>2 DEF SteadyInv, Steady, RowsAgree, Serving
  <2> QED BY <2>1, <2>3 DEF Held, Passed, Overlooked, TakenOver
<1> QED BY <1>1, <1>2, <1>3, PTL DEF Spec
=============================================================================
