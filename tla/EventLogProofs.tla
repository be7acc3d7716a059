--------------------------- MODULE EventLogProofs ---------------------------
(***************************************************************************)
(* Theorems of EventLog, for every page size, retention, number of events  *)
(* and length of time, whatever is written, pruned and read in whatever    *)
(* order.                                                                  *)
(***************************************************************************)
EXTENDS EventLog, FiniteSetTheorems, WellFoundedInduction, TLAPS

-----------------------------------------------------------------------------
(* Sets of numbers.                                                        *)

LEMMA LeastExists ==
  ASSUME NEW S \in SUBSET Nat, S # {}
  PROVE  \E m \in S : \A x \in S : m <= x
<1>1. PICK m \in S : \A x \in S : ~ (<<x, m>> \in OpToRel(<, Nat))
  BY NatLessThanWellFounded, WFMin
<1>2. \A x \in S : ~ (x < m)
  BY <1>1 DEF OpToRel
<1> QED BY <1>2

LEMMA GreatestExists ==
  ASSUME NEW S \in SUBSET Nat, S # {}, NEW n \in Nat, \A x \in S : x <= n
  PROVE  \E m \in S : \A x \in S : x <= m
<1> DEFINE T == {n - x : x \in S}
<1>1. T \in SUBSET Nat /\ T # {}
  OBVIOUS
<1> HIDE DEF T
<1>2. PICK t \in T : \A y \in T : t <= y
  BY <1>1, LeastExists
<1>3. PICK m \in S : t = n - m
  BY <1>2 DEF T
<1>4. ASSUME NEW x \in S PROVE x <= m
  BY <1>2, <1>3 DEF T
<1> QED BY <1>4

-----------------------------------------------------------------------------
(* Types.  Ids are given in increasing order, so no id in the log is above *)
(* the last one given; without this the cursor could not be bounded.       *)

LogInv == TypeOK /\ \A i \in Ids : i <= last

LEMMA IdsTyped == LogInv => Ids \in SUBSET Nat /\ 0 \notin Ids /\ last \in Nat
BY LogAssumption DEF LogInv, TypeOK, Ids, EventId

\* A page is a part of the log after the cursor.
LEMMA PageTyped ==
  ASSUME LogInv, NEW limit, PageOf(limit) # {}
  PROVE  \E m \in PageOf(limit) : \A j \in PageOf(limit) : j <= m
<1>1. PageOf(limit) \subseteq Ids
  BY DEF PageOf
<1>2. PageOf(limit) \in SUBSET Nat /\ \A x \in PageOf(limit) : x <= last
  BY <1>1, IdsTyped DEF LogInv
<1> QED BY <1>2, IdsTyped, GreatestExists

\* A page skips no id of the log: with an id it holds every one between the
\* cursor and that id.
LEMMA PageClosed ==
  ASSUME LogInv, NEW limit \in Nat, NEW m \in PageOf(limit), NEW j \in Ids,
         cursor < j, j <= m
  PROVE  j \in PageOf(limit)
<1> DEFINE Upto(i) == {k \in Ids : cursor < k /\ k <= i}
           size == Smaller(limit, MaxPage)
<1>0. PageOf(limit) = {i \in Ids : i > cursor /\ Cardinality(Upto(i)) <= size}
  BY DEF PageOf
<1>1. m \in Ids /\ Cardinality(Upto(m)) <= size
  BY <1>0
<1>2. Ids \in SUBSET Nat /\ last \in Nat /\ (\A i \in Ids : i <= last) /\ cursor \in Nat
  BY IdsTyped DEF LogInv, TypeOK
<1>3. IsFiniteSet(Upto(m))
  <2>1. Upto(m) \in SUBSET Nat /\ \A i \in Upto(m) : i <= last
    BY <1>2
  <2> HIDE DEF Upto
  <2> QED BY <1>2, <2>1, FS_BoundedSetOfNaturals
<1>4. Upto(j) \in SUBSET Upto(m)
  <2>1. ASSUME NEW k \in Ids, k <= j PROVE k <= m
    BY <1>1, <1>2, <2>1
  <2> QED BY <2>1
<1> HIDE DEF Upto
<1>5. IsFiniteSet(Upto(j)) /\ Cardinality(Upto(j)) <= Cardinality(Upto(m))
  BY <1>3, <1>4, FS_Subset
<1>6. Cardinality(Upto(j)) \in Nat /\ Cardinality(Upto(m)) \in Nat
  BY <1>3, <1>5, FS_CardinalityType
<1>7. size \in Int
  BY LogAssumption DEF Smaller
<1>8. Cardinality(Upto(j)) <= size
  BY <1>1, <1>5, <1>6, <1>7
<1> QED BY <1>0, <1>2, <1>8

\* What ReadPage does to the cursor: it stays where it is, or it is moved to
\* an id of the page that no other exceeds.
LEMMA PageRead ==
  ASSUME LogInv, ReadPage
  PROVE  /\ asked \in Nat
         /\ \/ PageOf(asked) = {} /\ cursor' = cursor
            \/ cursor' \in PageOf(asked) /\ \A j \in PageOf(asked) : j <= cursor'
<1>1. asked \in Nat
  BY LogAssumption DEF LogInv, TypeOK
<1> QED BY <1>1, PageTyped DEF ReadPage

LEMMA InitLog == Init => LogInv
BY LogAssumption DEF Init, LogInv, TypeOK, Ids

LEMMA AppendedIds ==
  ASSUME NEW time, Appended(time)
  PROVE  Ids' = Ids \cup {last + 1}
<1> DEFINE new == [id |-> last + 1, time |-> time]
<1>1. log' = log \cup {new} /\ new.id = last + 1
  BY DEF Appended
<1> HIDE DEF new
<1>2. Ids' = {e.id : e \in log \cup {new}}
  BY <1>1 DEF Ids
<1>3. {e.id : e \in log \cup {new}} = {e.id : e \in log} \cup {new.id}
  OBVIOUS
<1> QED BY <1>1, <1>2, <1>3 DEF Ids

LEMMA AppendedLog ==
  ASSUME LogInv, NEW time \in 1..MaxClock, Appended(time)
  PROVE  /\ Ids' = Ids \cup {last + 1}
         /\ log' \in SUBSET [id : EventId, time : 1..MaxClock]
         /\ last' \in 0..MaxEvents
         /\ \A i \in Ids' : i <= last'
         /\ 0..last \subseteq 0..last'
<1>1. last \in 0..MaxEvents /\ last' = last + 1 /\ last < MaxEvents
  BY DEF Appended, LogInv, TypeOK
<1>2. [id |-> last + 1, time |-> time] \in [id : EventId, time : 1..MaxClock]
  BY <1>1, LogAssumption DEF EventId
<1>3. Ids' = Ids \cup {last + 1}
  BY AppendedIds
<1>4. log' \in SUBSET [id : EventId, time : 1..MaxClock]
  BY <1>2 DEF Appended, LogInv, TypeOK
<1>5. \A i \in Ids : i \in Nat /\ i <= last
  BY IdsTyped DEF LogInv
<1> QED BY <1>1, <1>3, <1>4, <1>5, LogAssumption

LEMMA StepLog == LogInv /\ [Next]_vars => LogInv'
<1> SUFFICES ASSUME LogInv, [Next]_vars PROVE LogInv'
  OBVIOUS
<1> USE LogAssumption
<1>0. TypeOK /\ (\A i \in Ids : i <= last) /\ Ids \in SUBSET Nat /\ last \in 0..MaxEvents
  BY IdsTyped DEF LogInv, TypeOK
<1>1. ASSUME NEW time \in 1..MaxClock, Appended(time), UNCHANGED <<clock, scanStart, cursor, asked, known, unseen>>
      PROVE  LogInv'
  BY <1>0, <1>1, AppendedLog DEF LogInv, TypeOK
<1>2. CASE WriteEvent
  BY <1>0, <1>1, <1>2 DEF WriteEvent, TypeOK
<1>3. CASE ScanDeletes
  <2>1. scanStart \in 1..MaxClock
    BY <1>0, <1>3 DEF ScanDeletes, TypeOK
  <2> QED BY <1>1, <1>3, <2>1 DEF ScanDeletes
<1>4. CASE ScanBegins \/ ScanEnds \/ ClockTick \/ UNCHANGED vars
  BY <1>0, <1>4 DEF ScanBegins, ScanEnds, ClockTick, vars, LogInv, TypeOK, Ids
<1>5. CASE Prune
  <2>1. Ids' \subseteq Ids
    BY <1>5 DEF Prune, Ids
  <2>2. unseen' \in SUBSET EventId
    BY <1>0, <1>5 DEF Prune, Ids, TypeOK
  <2> QED BY <1>0, <1>5, <2>1, <2>2 DEF Prune, LogInv, TypeOK
<1>8. ASSUME NEW limit \in Limits, Ask(limit) PROVE LogInv'
  BY <1>0, <1>8 DEF Ask, LogInv, TypeOK, Ids
<1>6. CASE ReadPage
  <2>1. cursor' \in 0..last
    <3>1. PageOf(asked) \subseteq Ids
      BY DEF PageOf
    <3>2. cursor' = cursor \/ cursor' \in Ids
      BY <1>6, <3>1, PageRead
    <3>3. cursor \in 0..last
      BY <1>0 DEF TypeOK
    <3>4. \A i \in Ids : i \in 0..last
      BY <1>0
    <3> QED BY <3>2, <3>3, <3>4
  <2>2. PageOf(asked) \subseteq EventId
    BY <1>0 DEF PageOf, Ids, TypeOK
  <2>3. NotOwed \subseteq EventId
    BY <1>0 DEF NotOwed, EventId
  <2> QED BY <1>0, <1>6, <2>1, <2>2, <2>3 DEF ReadPage, LogInv, TypeOK, Ids
<1>7. CASE Rebuild
  <2>1. 1..last \in SUBSET EventId /\ 0 \in 0..last
    BY <1>0 DEF EventId
  <2> QED BY <1>0, <1>7, <2>1 DEF Rebuild, LogInv, TypeOK, Ids
<1> QED BY <1>2, <1>3, <1>4, <1>5, <1>6, <1>7, <1>8 DEF Next, Read

\* The cursor is never beyond the last id given, so no event written later is
\* taken for one already read.
THEOREM TypeCorrect == Spec => []TypeOK
<1>1. LogInv => TypeOK
  BY DEF LogInv
<1> QED BY <1>1, InitLog, StepLog, PTL DEF Spec

-----------------------------------------------------------------------------
\* Paging skips no event that is still in the log, whatever is written and
\* pruned between two pages, for every page size.
THEOREM PagingSkipsNothing == Spec => []RetainedDelivered
<1>1. Init => RetainedDelivered
  BY DEF Init, RetainedDelivered, Ids
<1>2. LogInv /\ RetainedDelivered /\ [Next]_vars => RetainedDelivered'
  <2> SUFFICES ASSUME LogInv, RetainedDelivered, [Next]_vars PROVE RetainedDelivered'
    OBVIOUS
  <2>0. Ids \in SUBSET Nat /\ 0 \notin Ids /\ last \in Nat /\ cursor \in 0..last
    BY IdsTyped DEF LogInv, TypeOK
  <2>1. CASE WriteEvent \/ ScanDeletes
    <3>1. PICK time : Appended(time)
      BY <2>1 DEF WriteEvent, ScanDeletes
    <3>2. Ids' = Ids \cup {last + 1}
      BY <3>1, AppendedIds
    <3> QED BY <2>0, <2>1, <3>2 DEF WriteEvent, ScanDeletes, RetainedDelivered
  <2>2. CASE ScanBegins \/ ScanEnds \/ ClockTick \/ UNCHANGED vars
    BY <2>2 DEF ScanBegins, ScanEnds, ClockTick, vars, RetainedDelivered, Ids
  <2>3. CASE Prune
    BY <2>3 DEF Prune, RetainedDelivered, Ids
  <2>6. ASSUME NEW limit \in Limits, Ask(limit) PROVE RetainedDelivered'
    BY <2>6 DEF Ask, RetainedDelivered, Ids
  <2>4. CASE ReadPage
    <3> SUFFICES ASSUME NEW i \in Ids, i <= cursor' PROVE i \in known'
      BY <2>4 DEF RetainedDelivered, ReadPage, Ids
    <3>1. CASE i <= cursor
      BY <2>4, <3>1 DEF RetainedDelivered, ReadPage
    <3>2. CASE cursor < i
      <4>1. cursor' \in PageOf(asked) /\ asked \in Nat
        BY <2>0, <2>4, <3>2, PageRead
      <4> QED BY <2>4, <3>2, <4>1, PageClosed DEF ReadPage
    <3> QED BY <2>0, <3>1, <3>2
  <2>5. CASE Rebuild
    BY <2>0, <2>5 DEF Rebuild, RetainedDelivered, Ids
  <2> QED BY <2>1, <2>2, <2>3, <2>4, <2>5, <2>6 DEF Next, Read
<1> QED BY <1>1, <1>2, InitLog, StepLog, PTL DEF Spec

-----------------------------------------------------------------------------
(* NothingLostSilently needs two facts more: the log has no hole that is   *)
(* not in unseen, and what a check found still holds when the page is read, *)
(* or what was removed in between is in unseen.                            *)

NoHole == \A i \in Ids : \A j \in i..last : j \in Ids \cup unseen

CheckHolds ==
  asked # 0 /\ cursor > 0 =>
    \A j \in cursor + 1..last : (\A i \in Ids : j < i) => j \in unseen

LossInv == NoHole /\ CheckHolds

LEMMA StepLoss == LogInv /\ LossInv /\ [Next]_vars => LossInv'
<1> SUFFICES ASSUME LogInv, LossInv, [Next]_vars PROVE LossInv'
  OBVIOUS
<1>0. /\ TypeOK /\ (\A i \in Ids : i <= last) /\ Ids \in SUBSET Nat /\ last \in Nat
      /\ cursor \in Nat /\ NoHole /\ CheckHolds
  BY IdsTyped DEF LogInv, TypeOK, LossInv
<1>1. CASE WriteEvent \/ ScanDeletes
  <2>1. PICK time : Appended(time)
    BY <1>1 DEF WriteEvent, ScanDeletes
  <2>2. Ids' = Ids \cup {last + 1} /\ last' = last + 1 /\ UNCHANGED <<asked, cursor, unseen>>
    BY <1>1, <2>1, AppendedIds DEF Appended, WriteEvent, ScanDeletes
  <2>3. NoHole'
    <3> SUFFICES ASSUME NEW i \in Ids \cup {last + 1}, NEW j \in i..(last + 1)
                 PROVE  j \in Ids \cup {last + 1} \cup unseen
      BY <2>2 DEF NoHole
    <3>1. CASE j = last + 1
      BY <3>1
    <3>2. CASE j # last + 1
      <4>1. i \in Ids /\ j \in i..last
        BY <1>0, <3>2
      <4> QED BY <1>0, <4>1 DEF NoHole
    <3> QED BY <3>1, <3>2
  <2>4. CheckHolds'
    <3> SUFFICES ASSUME asked # 0, cursor > 0, NEW j \in cursor + 1..(last + 1),
                        \A i \in Ids \cup {last + 1} : j < i
                 PROVE  j \in unseen
      BY <2>2 DEF CheckHolds
    <3>1. j \in cursor + 1..last
      BY <1>0
    <3> QED BY <1>0, <3>1 DEF CheckHolds
  <2> QED BY <2>3, <2>4 DEF LossInv
<1>2. CASE ScanBegins \/ ScanEnds \/ ClockTick \/ UNCHANGED vars
  BY <1>0, <1>2 DEF ScanBegins, ScanEnds, ClockTick, vars, LossInv, NoHole, CheckHolds, Ids
<1>3. CASE Prune
  <2>1. /\ Ids' \subseteq Ids /\ UNCHANGED <<last, asked, cursor>>
        /\ unseen' = unseen \cup {i \in Ids \ Ids' : asked # 0 \/ \E j \in Ids' : j < i}
    BY <1>3 DEF Prune, Ids
  <2>2. NoHole'
    <3> SUFFICES ASSUME NEW i \in Ids', NEW j \in i..last, j \notin Ids', j \notin unseen
                 PROVE  j \in unseen'
      BY <2>1 DEF NoHole
    <3>1. j \in Ids
      BY <1>0, <2>1 DEF NoHole
    <3>2. i < j
      BY <1>0, <2>1
    <3> QED BY <2>1, <3>1, <3>2
  <2>3. CheckHolds'
    <3> SUFFICES ASSUME asked # 0, cursor > 0, NEW j \in cursor + 1..last,
                        \A i \in Ids' : j < i, j \notin unseen
                 PROVE  j \in unseen'
      BY <2>1 DEF CheckHolds
    <3>1. PICK i \in Ids : ~(j < i)
      BY <1>0 DEF CheckHolds
    <3>2. j \in i..last
      BY <1>0, <3>1
    <3>3. j \in Ids
      BY <1>0, <3>2 DEF NoHole
    <3>4. j \notin Ids'
      BY <1>0
    <3> QED BY <2>1, <3>3, <3>4
  <2> QED BY <2>2, <2>3 DEF LossInv
<1>4. ASSUME NEW limit \in Limits, Ask(limit) PROVE LossInv'
  <2>1. ~Expired /\ (cursor > 0 => log # {}) /\ UNCHANGED <<log, last, cursor, unseen>>
    BY <1>4 DEF Ask
  <2>2. Ids' = Ids
    BY <2>1 DEF Ids
  <2>3. ASSUME cursor > 0, NEW j \in cursor + 1..last PROVE \E i \in Ids : ~(j < i)
    <3>1. Ids # {} /\ Ids \in SUBSET Nat
      BY <1>0, <2>1, <2>3 DEF Ids
    <3>2. Oldest \in Ids
      BY <3>1, LeastExists DEF Oldest
    <3>3. Oldest <= cursor + 1
      BY <1>0, <2>1, <2>3, <3>2 DEF Expired
    <3> QED BY <1>0, <3>2, <3>3
  <2> QED BY <1>0, <2>1, <2>2, <2>3 DEF LossInv, NoHole, CheckHolds
<1>5. CASE ReadPage \/ Rebuild
  <2>1. asked' = 0 /\ UNCHANGED <<log, last, unseen>>
    BY <1>5 DEF ReadPage, Rebuild
  <2> QED BY <1>0, <2>1 DEF LossInv, NoHole, CheckHolds, Ids
<1> QED BY <1>1, <1>2, <1>3, <1>4, <1>5 DEF Next, Read

\* What a page passes over is not in the log, and not owed or in unseen.
LEMMA PassedOver ==
  ASSUME LogInv, LossInv, asked # 0, NEW m \in Ids,
         NEW j \in Nat, cursor < j, j <= m, j \notin Ids
  PROVE  j \in NotOwed \cup unseen
<1>0. (\A i \in Ids : i <= last) /\ Ids \in SUBSET Nat /\ last \in Nat /\ cursor \in Nat
  BY IdsTyped DEF LogInv, TypeOK
<1>1. j \in cursor + 1..last
  BY <1>0
<1>2. CASE cursor = 0
  <2>1. j \in (1..last) \ Ids
    BY <1>0, <1>1
  <2> QED BY <1>2, <2>1 DEF NotOwed
<1>3. CASE cursor > 0 /\ \A i \in Ids : j < i
  BY <1>1, <1>3 DEF LossInv, CheckHolds
<1>4. CASE \E i \in Ids : ~(j < i)
  <2>1. PICK i \in Ids : ~(j < i)
    BY <1>4
  <2>2. j \in i..last
    BY <1>0, <1>1, <2>1
  <2> QED BY <2>2 DEF LossInv, NoHole
<1> QED BY <1>0, <1>2, <1>3, <1>4

\* A consumer has been given every event up to its cursor or has been told to
\* rebuild, for every page size, retention and order of writes, scans, prunings
\* and reads, but for the two kinds of events the property names.
THEOREM LossesAnnounced == Spec => []NothingLostSilently
<1>1. Init => LossInv /\ NothingLostSilently
  BY DEF Init, LossInv, NoHole, CheckHolds, NothingLostSilently, Ids
<1>2. LogInv /\ LossInv /\ NothingLostSilently /\ [Next]_vars => NothingLostSilently'
  <2> SUFFICES ASSUME LogInv, LossInv, NothingLostSilently, [Next]_vars
               PROVE  NothingLostSilently'
    OBVIOUS
  <2>0. Ids \in SUBSET Nat /\ last \in Nat /\ cursor \in Nat
    BY IdsTyped DEF LogInv, TypeOK
  <2>1. CASE \/ WriteEvent \/ ScanBegins \/ ScanDeletes \/ ScanEnds \/ ClockTick
             \/ UNCHANGED vars \/ \E limit \in Limits : Ask(limit)
    BY <2>1 DEF WriteEvent, ScanBegins, ScanDeletes, ScanEnds, ClockTick, vars, Ask,
         NothingLostSilently
  <2>4. CASE Prune
    <3>1. UNCHANGED <<cursor, known>> /\ unseen \subseteq unseen'
      BY <2>4 DEF Prune
    <3> QED BY <3>1 DEF NothingLostSilently
  <2>2. CASE ReadPage
    <3>0. asked # 0 /\ known' = known \cup PageOf(asked) \cup NotOwed /\ unseen' = unseen
      BY <2>2 DEF ReadPage
    <3> SUFFICES ASSUME NEW j \in 1..cursor' PROVE j \in known' \cup unseen'
      BY DEF NothingLostSilently
    <3>1. CASE cursor' = cursor \/ j <= cursor
      BY <2>0, <3>0, <3>1 DEF NothingLostSilently
    <3>2. CASE cursor' # cursor /\ ~(j <= cursor)
      <4>1. cursor' \in PageOf(asked) /\ asked \in Nat
        BY <2>2, <3>2, PageRead
      <4>2. cursor' \in Ids /\ cursor < cursor' /\ cursor < j /\ j <= cursor' /\ j \in Nat
        BY <2>0, <3>2, <4>1 DEF PageOf
      <4>3. CASE j \in Ids
        BY <3>0, <4>1, <4>2, <4>3, PageClosed
      <4>4. CASE j \notin Ids
        BY <3>0, <4>2, <4>4, PassedOver
      <4> QED BY <4>3, <4>4
    <3> QED BY <3>1, <3>2
  <2>3. CASE Rebuild
    BY <2>3 DEF Rebuild, NothingLostSilently
  <2> QED BY <2>1, <2>2, <2>3, <2>4 DEF Next, Read
<1> QED BY <1>1, <1>2, StepLoss, InitLog, StepLog, PTL DEF Spec
=============================================================================
