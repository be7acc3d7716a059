---------------------------- MODULE TriageProofs ----------------------------
(***************************************************************************)
(* Theorems of Triage, for all files and directories, all scores and       *)
(* copies, whatever ~/.smritiignore holds at first, and any number of      *)
(* sessions that overlap.                                                  *)
(***************************************************************************)
EXTENDS Triage, FiniteSetTheorems, SequenceTheorems, WellFoundedInduction, TLAPS

-----------------------------------------------------------------------------
(* Numbers: the greatest and the least of some.                            *)

LEMMA LeastOf ==
  ASSUME NEW S \in SUBSET Nat, S # {}
  PROVE  \E m \in S : \A x \in S : m <= x
<1>1. PICK m \in S : \A x \in S : ~ (<<x, m>> \in OpToRel(<, Nat))
  BY NatLessThanWellFounded, WFMin
<1>2. ASSUME NEW x \in S PROVE m <= x
  <2>1. x \in Nat /\ m \in Nat /\ ~ (x < m)
    BY <1>1 DEF OpToRel
  <2> QED BY <2>1
<1> QED BY <1>2

LEMMA GreatestOf ==
  ASSUME NEW n \in Nat, NEW S \in SUBSET (0..n), S # {}
  PROVE  \E m \in S : \A x \in S : x <= m
<1> DEFINE T == {n - x : x \in S}
<1>1. T \in SUBSET Nat /\ T # {}
  <2>1. \A x \in S : n - x \in Nat
    OBVIOUS
  <2> QED BY <2>1
<1>2. PICK t \in T : \A y \in T : t <= y
  <2> HIDE DEF T
  <2> QED BY <1>1, LeastOf
<1>3. PICK m \in S : t = n - m
  BY <1>2
<1>4. ASSUME NEW x \in S PROVE x <= m
  <2>1. n - x \in T /\ n - m <= n - x
    BY <1>2, <1>3
  <2> QED BY <2>1
<1> QED BY <1>4

-----------------------------------------------------------------------------
(* Sections: the last header above a line decides.                         *)

Lines == Seq(Line)

\* h is the last header of lines above line i.
LastAbove(lines, i, h) ==
  h \in Headers(lines) /\ h < i /\ \A g \in Headers(lines) : g < i => g <= h

NoneAbove(lines, i) == \A h \in Headers(lines) : ~ (h < i)

LEMMA HeadersTyped ==
  ASSUME NEW s \in Lines
  PROVE  Headers(s) \in SUBSET (1..Len(s)) /\ Len(s) \in Nat
BY LenProperties DEF Headers, Lines

\* Either no header is above a line, or there is a last one.
LEMMA SomeOrNone ==
  ASSUME NEW s \in Lines, NEW i \in Int, ~ NoneAbove(s, i)
  PROVE  \E h \in Headers(s) : LastAbove(s, i, h)
<1> DEFINE above == {h \in Headers(s) : h < i}
<1>1. above \in SUBSET (0..Len(s)) /\ above # {} /\ Len(s) \in Nat
  BY HeadersTyped DEF NoneAbove
<1>2. PICK h \in above : \A g \in above : g <= h
  <2> HIDE DEF above
  <2> QED BY <1>1, GreatestOf
<1> QED BY <1>2 DEF LastAbove

LEMMA SectionIs ==
  ASSUME NEW s \in Lines, NEW i \in Int
  PROVE  /\ NoneAbove(s, i) => SectionOf(s, i) = "ignored"
         /\ \A h \in Headers(s) : LastAbove(s, i, h) => SectionOf(s, i) = s[h]
<1>1. NoneAbove(s, i) => SectionOf(s, i) = "ignored"
  BY DEF SectionOf, NoneAbove
<1>2. ASSUME NEW h \in Headers(s), LastAbove(s, i, h) PROVE SectionOf(s, i) = s[h]
  <2> DEFINE above == {g \in Headers(s) : g < i}
             last == CHOOSE g \in above : \A k \in above : k <= g
  <2>1. above # {} /\ h \in above /\ \A k \in above : k <= h
    BY <1>2 DEF LastAbove
  <2>2. last \in above /\ \A k \in above : k <= last
    BY <2>1
  <2>3. h \in Int /\ last \in Int /\ last <= h /\ h <= last
    BY <2>1, <2>2, HeadersTyped
  <2>4. h = last
    BY <2>3
  <2> QED BY <2>1, <2>4 DEF SectionOf
<1> QED BY <1>1, <1>2

-----------------------------------------------------------------------------
(* Patterns put between the lines of a file.                               *)

\* Where line i goes when m lines come after line n.
Moved(n, m, i) == IF i <= n THEN i ELSE i + m

\* u is s with the patterns of t after line n.
Inserted(s, u, n, t) ==
  /\ s \in Lines /\ u \in Lines /\ t \in Seq(Target) /\ n \in 0..Len(s)
  /\ Len(u) = Len(s) + Len(t)
  /\ \A i \in 1..Len(s) : u[Moved(n, Len(t), i)] = s[i]
  /\ \A k \in 1..Len(t) : u[n + k] = t[k]

LEMMA TargetsAreLines ==
  ASSUME NEW t \in Seq(Target)
  PROVE  t \in Lines
BY SeqMonotonic DEF Lines, Line

LEMMA BetweenLines ==
  ASSUME NEW s \in Lines, NEW t \in Seq(Target), NEW n \in 0..Len(s)
  PROVE  Inserted(s, SubSeq(s, 1, n) \o t \o SubSeq(s, n + 1, Len(s)), n, t)
<1> DEFINE a == SubSeq(s, 1, n)
           b == SubSeq(s, n + 1, Len(s))
           at == a \o t
           u == at \o b
<1>1. Len(s) \in Nat /\ Len(t) \in Nat /\ n \in Nat /\ n <= Len(s) /\ t \in Lines
  BY LenProperties, TargetsAreLines DEF Lines
<1>2. \A i \in 1..Len(s) : s[i] \in Line
  BY ElementOfSeq DEF Lines
<1>3. a \in Lines /\ Len(a) = n /\ \A i \in 1..n : a[i] = s[i]
  <2>1. \A i \in 1..n : s[i] \in Line
    BY <1>1, <1>2
  <2>2. /\ a \in Seq(Line) /\ Len(a) = IF 1 <= n THEN n - 1 + 1 ELSE 0
        /\ \A i \in 1..(n - 1 + 1) : a[i] = s[1 + i - 1]
    BY <1>1, <2>1, SubSeqProperties
  <2>3. Len(a) = n
    BY <1>1, <2>2
  <2>4. \A i \in 1..n : i \in 1..(n - 1 + 1) /\ 1 + i - 1 = i
    BY <1>1
  <2> QED BY <2>2, <2>3, <2>4 DEF Lines
<1>4. b \in Lines /\ Len(b) = Len(s) - n /\ \A i \in 1..(Len(s) - n) : b[i] = s[n + i]
  <2>1. \A i \in (n + 1)..Len(s) : s[i] \in Line
    BY <1>1, <1>2
  <2>2. n + 1 \in Int /\ Len(s) \in Int
    BY <1>1
  <2>3. /\ b \in Seq(Line) /\ Len(b) = IF n + 1 <= Len(s) THEN Len(s) - (n + 1) + 1 ELSE 0
        /\ \A i \in 1..(Len(s) - (n + 1) + 1) : b[i] = s[n + 1 + i - 1]
    BY <2>1, <2>2, SubSeqProperties
  <2>4. Len(b) = Len(s) - n
    BY <1>1, <2>3
  <2>5. \A i \in 1..(Len(s) - n) : i \in 1..(Len(s) - (n + 1) + 1) /\ n + 1 + i - 1 = n + i
    BY <1>1
  <2> QED BY <2>3, <2>4, <2>5 DEF Lines
<1> HIDE DEF a, b
<1>5. at \in Lines /\ Len(at) = n + Len(t)
      /\ \A i \in 1..(n + Len(t)) : at[i] = IF i <= n THEN a[i] ELSE t[i - n]
  BY <1>1, <1>3, ConcatProperties DEF Lines
<1> HIDE DEF at
<1>6. u \in Lines /\ Len(u) = Len(s) + Len(t)
      /\ \A i \in 1..(Len(s) + Len(t)) : u[i] = IF i <= n + Len(t) THEN at[i] ELSE b[i - (n + Len(t))]
  <2>1. /\ u \in Seq(Line) /\ Len(u) = Len(at) + Len(b)
        /\ \A i \in 1..(Len(at) + Len(b)) : u[i] = IF i <= Len(at) THEN at[i] ELSE b[i - Len(at)]
    BY <1>4, <1>5, ConcatProperties DEF Lines
  <2>2. Len(at) + Len(b) = Len(s) + Len(t)
    BY <1>1, <1>4, <1>5
  <2> QED BY <2>1, <2>2, <1>5 DEF Lines
<1> HIDE DEF u
<1>7. ASSUME NEW i \in 1..Len(s) PROVE u[Moved(n, Len(t), i)] = s[i]
  <2>1. CASE i <= n
    <3>1. Moved(n, Len(t), i) = i /\ i \in 1..(Len(s) + Len(t)) /\ i \in 1..(n + Len(t))
          /\ i <= n + Len(t) /\ i \in 1..n
      BY <1>1, <2>1 DEF Moved
    <3> QED BY <3>1, <2>1, <1>3, <1>5, <1>6
  <2>2. CASE ~ (i <= n)
    <3> DEFINE j == i + Len(t)
    <3>1. Moved(n, Len(t), i) = j /\ j \in 1..(Len(s) + Len(t)) /\ ~ (j <= n + Len(t))
          /\ j - (n + Len(t)) = i - n /\ i - n \in 1..(Len(s) - n) /\ n + (i - n) = i
      BY <1>1, <2>2 DEF Moved
    <3>2. u[j] = b[i - n]
      BY <3>1, <1>6
    <3>3. b[i - n] = s[n + (i - n)]
      BY <3>1, <1>4
    <3> QED BY <3>1, <3>2, <3>3
  <2> QED BY <2>1, <2>2
<1>8. ASSUME NEW k \in 1..Len(t) PROVE u[n + k] = t[k]
  <2>1. n + k \in 1..(Len(s) + Len(t)) /\ n + k <= n + Len(t) /\ n + k \in 1..(n + Len(t))
        /\ ~ (n + k <= n) /\ (n + k) - n = k
    BY <1>1
  <2> QED BY <2>1, <1>5, <1>6
<1>9. Inserted(s, u, n, t)
  BY <1>1, <1>6, <1>7, <1>8 DEF Inserted
<1> QED BY <1>9 DEF u, at, a, b

LEMMA AfterLines ==
  ASSUME NEW s \in Lines, NEW t \in Seq(Target)
  PROVE  Inserted(s, s \o t, Len(s), t)
<1>1. Len(s) \in Nat /\ Len(t) \in Nat /\ t \in Lines /\ Len(s) \in 0..Len(s)
  BY LenProperties, TargetsAreLines DEF Lines
<1>2. /\ s \o t \in Lines /\ Len(s \o t) = Len(s) + Len(t)
      /\ \A i \in 1..(Len(s) + Len(t)) : (s \o t)[i] = IF i <= Len(s) THEN s[i] ELSE t[i - Len(s)]
  BY <1>1, ConcatProperties DEF Lines
<1>3. ASSUME NEW i \in 1..Len(s) PROVE (s \o t)[Moved(Len(s), Len(t), i)] = s[i]
  <2>1. Moved(Len(s), Len(t), i) = i /\ i \in 1..(Len(s) + Len(t)) /\ i <= Len(s)
    BY <1>1 DEF Moved
  <2> QED BY <2>1, <1>2
<1>4. ASSUME NEW k \in 1..Len(t) PROVE (s \o t)[Len(s) + k] = t[k]
  <2>1. Len(s) + k \in 1..(Len(s) + Len(t)) /\ ~ (Len(s) + k <= Len(s)) /\ (Len(s) + k) - Len(s) = k
    BY <1>1
  <2> QED BY <2>1, <1>2
<1> QED BY <1>1, <1>2, <1>3, <1>4 DEF Inserted

\* The headers move with their lines, and the patterns put in are none.
LEMMA InsertedHeaders ==
  ASSUME NEW s, NEW u, NEW n, NEW t, Inserted(s, u, n, t)
  PROVE  /\ \A h \in Headers(s) : Moved(n, Len(t), h) \in Headers(u) /\ u[Moved(n, Len(t), h)] = s[h]
         /\ \A g \in Headers(u) : \E h \in Headers(s) : g = Moved(n, Len(t), h)
<1>1. /\ Len(s) \in Nat /\ Len(t) \in Nat /\ Len(u) = Len(s) + Len(t) /\ n \in 0..Len(s)
      /\ DOMAIN s = 1..Len(s) /\ DOMAIN t = 1..Len(t) /\ DOMAIN u = 1..Len(u)
      /\ \A k \in 1..Len(t) : t[k] \in Target
  BY LenProperties, ElementOfSeq DEF Inserted, Lines
<1>2. ASSUME NEW h \in Headers(s)
      PROVE  Moved(n, Len(t), h) \in Headers(u) /\ u[Moved(n, Len(t), h)] = s[h]
  <2>1. h \in 1..Len(s) /\ s[h] \in Header
    BY <1>1 DEF Headers
  <2>2. Moved(n, Len(t), h) \in 1..Len(u)
    BY <1>1, <2>1 DEF Moved
  <2>3. u[Moved(n, Len(t), h)] = s[h]
    BY <2>1 DEF Inserted
  <2> QED BY <1>1, <2>1, <2>2, <2>3 DEF Headers
<1>3. ASSUME NEW g \in Headers(u) PROVE \E h \in Headers(s) : g = Moved(n, Len(t), h)
  <2>1. g \in 1..Len(u) /\ u[g] \in Header
    BY <1>1 DEF Headers
  <2>2. CASE \E k \in 1..Len(t) : g = n + k
    <3>1. PICK k \in 1..Len(t) : g = n + k
      BY <2>2
    <3>2. u[g] = t[k] /\ t[k] \in Target
      BY <1>1, <3>1 DEF Inserted
    <3> QED BY <2>1, <3>2, TargetAssumption
  <2>3. CASE ~ \E k \in 1..Len(t) : g = n + k
    <3>1. PICK h \in 1..Len(s) : g = Moved(n, Len(t), h)
      <4>1. CASE g <= n
        <5>1. g \in 1..Len(s) /\ g = Moved(n, Len(t), g)
          BY <1>1, <2>1, <4>1 DEF Moved
        <5> QED BY <5>1
      <4>2. CASE ~ (g <= n)
        <5>1. ~ (g - n \in 1..Len(t))
          <6>1. g = n + (g - n)
            BY <1>1, <2>1
          <6> QED BY <2>3, <6>1
        <5>2. g - Len(t) \in 1..Len(s) /\ g = Moved(n, Len(t), g - Len(t))
          BY <1>1, <2>1, <4>2, <5>1 DEF Moved
        <5> QED BY <5>2
      <4> QED BY <4>1, <4>2
    <3>2. s[h] = u[g]
      BY <3>1 DEF Inserted
    <3> QED BY <1>1, <2>1, <3>1, <3>2 DEF Headers
  <2> QED BY <2>2, <2>3
<1> QED BY <1>2, <1>3

\* A line of the new file is in the section of the old one whose headers are
\* above it.
LEMMA SectionMoves ==
  ASSUME NEW s, NEW u, NEW n, NEW t, Inserted(s, u, n, t), NEW i \in Int, NEW j \in Int,
         \A h \in Headers(s) : h < i <=> Moved(n, Len(t), h) < j
  PROVE  SectionOf(u, j) = SectionOf(s, i)
<1>1. s \in Lines /\ u \in Lines /\ Len(t) \in Nat /\ n \in Int
  BY LenProperties DEF Inserted, Lines
<1>2. CASE NoneAbove(s, i)
  <2>1. NoneAbove(u, j)
    BY <1>2, InsertedHeaders DEF NoneAbove
  <2> QED BY <1>1, <1>2, <2>1, SectionIs
<1>3. CASE ~ NoneAbove(s, i)
  <2>1. PICK h \in Headers(s) : LastAbove(s, i, h)
    BY <1>1, <1>3, SomeOrNone
  <2> DEFINE g == Moved(n, Len(t), h)
  <2>2. g \in Headers(u) /\ u[g] = s[h] /\ g < j
    BY <2>1, InsertedHeaders DEF LastAbove
  <2>3. ASSUME NEW k \in Headers(u), k < j PROVE k <= g
    <3>1. PICK l \in Headers(s) : k = Moved(n, Len(t), l)
      BY InsertedHeaders
    <3>2. l < i /\ l <= h /\ l \in Int /\ h \in Int
      BY <1>1, <2>1, <2>3, <3>1, HeadersTyped DEF LastAbove
    <3> QED BY <1>1, <3>1, <3>2 DEF Moved
  <2>4. LastAbove(u, j, g)
    BY <2>2, <2>3 DEF LastAbove
  <2>5. SectionOf(u, j) = u[g] /\ SectionOf(s, i) = s[h]
    BY <1>1, <2>1, <2>2, <2>4, SectionIs
  <2> QED BY <2>2, <2>5
<1> QED BY <1>2, <1>3

LEMMA PatternIs ==
  ASSUME NEW s \in Lines, NEW section, NEW x
  PROVE  x \in Patterns(s, section)
           <=> \E i \in 1..Len(s) : i \notin Headers(s) /\ SectionOf(s, i) = section /\ x = s[i]
BY LenProperties DEF Patterns, Lines

\* The patterns come to the section that the file has at that place, and no
\* other pattern changes its own.
LEMMA InsertedPatterns ==
  ASSUME NEW s, NEW u, NEW n, NEW t, Inserted(s, u, n, t), NEW section
  PROVE  Patterns(u, section) =
           Patterns(s, section) \cup (IF section = SectionOf(s, n + 1) THEN Range(t) ELSE {})
<1>1. /\ s \in Lines /\ u \in Lines
      /\ Len(s) \in Nat /\ Len(t) \in Nat /\ Len(u) = Len(s) + Len(t) /\ n \in 0..Len(s)
      /\ DOMAIN t = 1..Len(t) /\ \A k \in 1..Len(t) : t[k] \in Target
  BY LenProperties, ElementOfSeq DEF Inserted, Lines
<1>2. \A h \in Headers(s) : h \in 1..Len(s)
  BY <1>1, HeadersTyped
<1>3. ASSUME NEW i \in 1..Len(s) PROVE SectionOf(u, Moved(n, Len(t), i)) = SectionOf(s, i)
  <2>1. Moved(n, Len(t), i) \in Int
    BY <1>1 DEF Moved
  <2>2. ASSUME NEW h \in Headers(s) PROVE h < i <=> Moved(n, Len(t), h) < Moved(n, Len(t), i)
    BY <1>1, <1>2 DEF Moved
  <2> QED BY <2>1, <2>2, SectionMoves
<1>4. ASSUME NEW k \in 1..Len(t) PROVE SectionOf(u, n + k) = SectionOf(s, n + 1)
  <2>1. n + k \in Int /\ n + 1 \in Int
    BY <1>1
  <2>2. ASSUME NEW h \in Headers(s) PROVE h < n + 1 <=> Moved(n, Len(t), h) < n + k
    BY <1>1, <1>2 DEF Moved
  <2> QED BY <2>1, <2>2, SectionMoves
<1>5. ASSUME NEW i \in 1..Len(s), i \notin Headers(s)
      PROVE  Moved(n, Len(t), i) \in 1..Len(u) /\ Moved(n, Len(t), i) \notin Headers(u)
             /\ u[Moved(n, Len(t), i)] = s[i]
  <2>1. Moved(n, Len(t), i) \in 1..Len(u)
    BY <1>1 DEF Moved
  <2>2. u[Moved(n, Len(t), i)] = s[i]
    BY DEF Inserted
  <2>3. s[i] \notin Header
    BY <1>1, <1>5, LenProperties DEF Headers, Lines
  <2> QED BY <2>1, <2>2, <2>3 DEF Headers
<1>6. ASSUME NEW k \in 1..Len(t)
      PROVE  n + k \in 1..Len(u) /\ n + k \notin Headers(u) /\ u[n + k] = t[k]
  <2>1. n + k \in 1..Len(u)
    BY <1>1
  <2>2. u[n + k] = t[k] /\ t[k] \in Target
    BY <1>1 DEF Inserted
  <2> QED BY <2>1, <2>2, TargetAssumption DEF Headers
<1>7. ASSUME NEW j \in 1..Len(u)
      PROVE  \/ \E k \in 1..Len(t) : j = n + k
             \/ \E i \in 1..Len(s) : j = Moved(n, Len(t), i)
  <2>1. CASE j <= n
    <3>1. j \in 1..Len(s) /\ j = Moved(n, Len(t), j)
      BY <1>1, <2>1 DEF Moved
    <3> QED BY <3>1
  <2>2. CASE n < j /\ j <= n + Len(t)
    <3>1. j - n \in 1..Len(t) /\ j = n + (j - n)
      BY <1>1, <2>2
    <3> QED BY <3>1
  <2>3. CASE n + Len(t) < j
    <3>1. j - Len(t) \in 1..Len(s) /\ j = Moved(n, Len(t), j - Len(t))
      BY <1>1, <2>3 DEF Moved
    <3> QED BY <3>1
  <2> QED BY <1>1, <2>1, <2>2, <2>3
<1>8. ASSUME NEW x \in Patterns(s, section) PROVE x \in Patterns(u, section)
  <2>1. PICK i \in 1..Len(s) : i \notin Headers(s) /\ SectionOf(s, i) = section /\ x = s[i]
    BY <1>1, PatternIs
  <2> QED BY <1>1, <2>1, <1>3, <1>5, PatternIs
<1>9. ASSUME NEW x \in Range(t), section = SectionOf(s, n + 1) PROVE x \in Patterns(u, section)
  <2>1. PICK k \in 1..Len(t) : x = t[k]
    BY <1>1 DEF Range
  <2> QED BY <1>1, <1>4, <1>6, <1>9, <2>1, PatternIs
<1>10. ASSUME NEW x \in Patterns(u, section)
       PROVE  x \in Patterns(s, section) \/ (section = SectionOf(s, n + 1) /\ x \in Range(t))
  <2>1. PICK j \in 1..Len(u) : j \notin Headers(u) /\ SectionOf(u, j) = section /\ x = u[j]
    BY <1>1, PatternIs
  <2>2. CASE \E k \in 1..Len(t) : j = n + k
    <3>1. PICK k \in 1..Len(t) : j = n + k
      BY <2>2
    <3>2. x = t[k] /\ section = SectionOf(s, n + 1)
      BY <2>1, <3>1, <1>4, <1>6
    <3> QED BY <1>1, <3>2 DEF Range
  <2>3. CASE \E i \in 1..Len(s) : j = Moved(n, Len(t), i)
    <3>1. PICK i \in 1..Len(s) : j = Moved(n, Len(t), i)
      BY <2>3
    <3>2. i \notin Headers(s)
      BY <2>1, <3>1, InsertedHeaders
    <3>3. SectionOf(s, i) = section /\ x = s[i]
      BY <2>1, <3>1, <3>2, <1>3, <1>5
    <3> QED BY <1>1, <3>2, <3>3, PatternIs
  <2> QED BY <1>7, <2>2, <2>3
<1> QED BY <1>8, <1>9, <1>10

\* What is appended comes to the section at the end of the file.
LEMMA SectionAtEnd ==
  ASSUME NEW s, NEW u, NEW t, Inserted(s, u, Len(s), t)
  PROVE  SectionOf(u, Len(u) + 1) = SectionOf(s, Len(s) + 1)
<1>1. /\ s \in Lines /\ Len(s) \in Nat /\ Len(t) \in Nat /\ Len(u) = Len(s) + Len(t)
  BY LenProperties DEF Inserted, Lines
<1>2. ASSUME NEW h \in Headers(s) PROVE h < Len(s) + 1 <=> Moved(Len(s), Len(t), h) < Len(u) + 1
  BY <1>1, HeadersTyped DEF Moved
<1>3. Len(s) + 1 \in Int /\ Len(u) + 1 \in Int
  BY <1>1
<1> QED BY <1>2, <1>3, SectionMoves

-----------------------------------------------------------------------------
(* What Written makes of a file.                                           *)

LEMMA CatalogAppended ==
  ASSUME NEW s \in Lines
  PROVE  LET v == Append(s, "[catalog]")
         IN /\ v \in Lines /\ SectionOf(v, Len(v) + 1) = "[catalog]"
            /\ \A section : Patterns(v, section) = Patterns(s, section)
<1> DEFINE v == Append(s, "[catalog]")
<1>1. /\ v \in Lines /\ Len(s) \in Nat /\ Len(v) = Len(s) + 1
      /\ DOMAIN s = 1..Len(s) /\ DOMAIN v = 1..Len(v)
      /\ v[Len(s) + 1] = "[catalog]" /\ \A i \in 1..Len(s) : v[i] = s[i]
  <2>1. "[catalog]" \in Line
    BY DEF Line, Header
  <2>2. /\ v \in Seq(Line) /\ Len(v) = Len(s) + 1
        /\ \A i \in 1..Len(s) : v[i] = s[i]
        /\ v[Len(s) + 1] = "[catalog]"
    BY <2>1, AppendProperties DEF Lines
  <2> QED BY <2>2, LenProperties DEF Lines
<1> HIDE DEF v
<1>2. Headers(v) = Headers(s) \cup {Len(s) + 1}
  BY <1>1 DEF Headers, Header
<1>3. ASSUME NEW i \in 1..Len(s) PROVE SectionOf(v, i) = SectionOf(s, i)
  <2>1. i \in Int /\ ~ (Len(s) + 1 < i)
    BY <1>1
  <2>2. CASE NoneAbove(s, i)
    <3>1. NoneAbove(v, i)
      BY <1>2, <2>1, <2>2 DEF NoneAbove
    <3> QED BY <1>1, <2>1, <2>2, <3>1, SectionIs
  <2>3. CASE ~ NoneAbove(s, i)
    <3>1. PICK h \in Headers(s) : LastAbove(s, i, h)
      BY <2>1, <2>3, SomeOrNone
    <3>2. LastAbove(v, i, h) /\ h \in Headers(v)
      BY <1>2, <2>1, <3>1 DEF LastAbove
    <3>3. v[h] = s[h]
      BY <1>1, HeadersTyped
    <3> QED BY <1>1, <2>1, <3>1, <3>2, <3>3, SectionIs
  <2> QED BY <2>2, <2>3
<1>4. SectionOf(v, Len(v) + 1) = "[catalog]"
  <2>1. Len(s) + 1 \in Headers(v) /\ Len(v) + 1 \in Int
    BY <1>1, <1>2
  <2>2. LastAbove(v, Len(v) + 1, Len(s) + 1)
    BY <1>1, <2>1, HeadersTyped DEF LastAbove
  <2> QED BY <1>1, <2>1, <2>2, SectionIs
<1>5. ASSUME NEW section PROVE Patterns(v, section) = Patterns(s, section)
  <2>1. \A i \in 1..Len(v) : i \notin Headers(v) <=> i \in 1..Len(s) /\ i \notin Headers(s)
    BY <1>1, <1>2
  <2>2. \A i \in 1..Len(s) : i \in 1..Len(v)
    BY <1>1
  <2>3. ASSUME NEW x \in Patterns(v, section) PROVE x \in Patterns(s, section)
    <3>1. PICK i \in 1..Len(v) : i \notin Headers(v) /\ SectionOf(v, i) = section /\ x = v[i]
      BY <1>1, PatternIs
    <3>2. i \in 1..Len(s) /\ i \notin Headers(s)
      BY <2>1, <3>1
    <3>3. SectionOf(s, i) = section /\ x = s[i]
      BY <1>1, <1>3, <3>1, <3>2
    <3> QED BY <3>2, <3>3, PatternIs
  <2>4. ASSUME NEW x \in Patterns(s, section) PROVE x \in Patterns(v, section)
    <3>1. PICK i \in 1..Len(s) : i \notin Headers(s) /\ SectionOf(s, i) = section /\ x = s[i]
      BY PatternIs
    <3>2. i \in 1..Len(v) /\ i \notin Headers(v)
      BY <2>1, <2>2, <3>1
    <3>3. SectionOf(v, i) = section /\ x = v[i]
      BY <1>1, <1>3, <3>1
    <3> QED BY <1>1, <3>2, <3>3, PatternIs
  <2> QED BY <2>3, <2>4
<1> QED BY <1>1, <1>4, <1>5 DEF v

LEMMA Listed ==
  ASSUME NEW S \in SUBSET Target
  PROVE  SetToSeq(S) \in Seq(Target) /\ Range(SetToSeq(S)) = S
<1> DEFINE n == Cardinality(S)
           t == SetToSeq(S)
<1>1. IsFiniteSet(S)
  BY TargetAssumption, FS_Subset
<1>2. n \in Nat /\ ExistsBijection(1..n, S)
  BY <1>1, FS_CardinalityType
<1>3. t \in [1..n -> S] /\ IsInjective(t)
  <2>1. \E f \in [1..n -> S] : IsInjective(f)
    BY <1>2 DEF ExistsBijection, Bijection, Injection
  <2> QED BY <2>1 DEF SetToSeq
<1> HIDE DEF t
<1>4. t \in Seq(Target)
  <2>1. t \in [1..n -> Target]
    BY <1>3
  <2> QED BY <1>2, <2>1, SeqDef
<1>5. Range(t) = S
  <2> DEFINE R == Range(t)
  <2>1. R \in SUBSET S
    BY <1>3 DEF Range
  <2>2. t \in Bijection(1..n, R)
    <3>1. t \in [1..n -> R]
      BY <1>3 DEF Range
    <3>2. \A x \in R : \E i \in 1..n : t[i] = x
      BY <1>3 DEF Range
    <3> QED BY <1>3, <3>1, <3>2 DEF Bijection, Injection, Surjection
  <2> HIDE DEF R
  <2>3. Cardinality(R) = n
    BY <1>2, <2>2, FS_CountingElements DEF ExistsBijection
  <2> QED BY <1>1, <2>1, <2>3, FS_Subset DEF R
<1> QED BY <1>4, <1>5 DEF t

\* Where catalog entries go is in the first section of that name.
LEMMA CatalogEndIs ==
  ASSUME NEW s \in Lines, NEW c \in DOMAIN s, s[c] = "[catalog]"
  PROVE  CatalogEnd(s) \in 1..(Len(s) + 1) /\ SectionOf(s, CatalogEnd(s)) = "[catalog]"
<1> DEFINE first(i) == s[i] = "[catalog]" /\ \A j \in Headers(s) : s[j] = "[catalog]" => i <= j
           catalog == CHOOSE i \in Headers(s) : first(i)
           next == {i \in Headers(s) : i > catalog}
           end == IF next = {} THEN Len(s) + 1 ELSE CHOOSE i \in next : \A j \in next : i <= j
<1>1. Len(s) \in Nat /\ Headers(s) \in SUBSET (1..Len(s))
  BY HeadersTyped
<1>2. catalog \in Headers(s) /\ s[catalog] = "[catalog]"
  <2> DEFINE T == {i \in Headers(s) : s[i] = "[catalog]"}
  <2>1. c \in T /\ T \in SUBSET Nat
    BY <1>1 DEF Headers, Header
  <2>2. PICK m \in T : \A x \in T : m <= x
    <3> HIDE DEF T
    <3> QED BY <2>1, LeastOf
  <2>3. first(m) /\ m \in Headers(s)
    BY <2>2
  <2> QED BY <2>3
<1> HIDE DEF catalog
<1>3. /\ end \in 1..(Len(s) + 1) /\ catalog < end
      /\ \A h \in Headers(s) : h < end => h <= catalog
  <2>1. CASE next = {}
    <3>1. end = Len(s) + 1
      BY <2>1
    <3>2. \A h \in Headers(s) : ~ (h > catalog)
      BY <2>1
    <3> QED BY <1>1, <1>2, <3>1, <3>2
  <2>2. CASE next # {}
    <3>1. PICK m \in next : \A x \in next : m <= x
      <4>1. next \in SUBSET Nat
        BY <1>1
      <4> HIDE DEF next
      <4> QED BY <2>2, <4>1, LeastOf
    <3>2. end \in next /\ \A x \in next : end <= x
      BY <2>2, <3>1
    <3> HIDE DEF end
    <3>3. end \in Headers(s) /\ end > catalog /\ \A h \in Headers(s) : h > catalog => end <= h
      BY <3>2
    <3>4. end \in 1..(Len(s) + 1) /\ catalog < end
      BY <1>1, <1>2, <3>3
    <3>5. \A h \in Headers(s) : h < end => h <= catalog
      BY <1>1, <1>2, <3>3
    <3> QED BY <3>4, <3>5
  <2> QED BY <2>1, <2>2
<1>4. CatalogEnd(s) = end
  BY DEF CatalogEnd, catalog
<1> HIDE DEF end
<1>5. LastAbove(s, end, catalog)
  BY <1>2, <1>3 DEF LastAbove
<1>6. end \in Int
  BY <1>1, <1>3
<1> QED BY <1>2, <1>3, <1>4, <1>5, <1>6, SectionIs

\* Targets put to the catalog section come to it, and nothing else changes.
LEMMA WithCatalogIs ==
  ASSUME NEW s \in Lines, NEW S \in SUBSET Target
  PROVE  /\ WithCatalog(s, S) \in Lines
         /\ \A section : Patterns(WithCatalog(s, S), section) =
              Patterns(s, section) \cup (IF section = "[catalog]" THEN S ELSE {})
<1> DEFINE t == SetToSeq(S)
<1>1. t \in Seq(Target) /\ Range(t) = S
  BY Listed
<1> HIDE DEF t
<1>2. CASE S = {}
  BY <1>2 DEF WithCatalog
<1>3. CASE S # {} /\ \E i \in DOMAIN s : s[i] = "[catalog]"
  <2> DEFINE n == CatalogEnd(s) - 1
             u == SubSeq(s, 1, n) \o t \o SubSeq(s, n + 1, Len(s))
  <2>1. CatalogEnd(s) \in 1..(Len(s) + 1) /\ SectionOf(s, CatalogEnd(s)) = "[catalog]"
    BY <1>3, CatalogEndIs
  <2>2. n \in 0..Len(s) /\ n + 1 = CatalogEnd(s)
    BY <2>1, HeadersTyped
  <2>3. WithCatalog(s, S) = u
    BY <1>3, <2>2 DEF WithCatalog, t
  <2>4. Inserted(s, u, n, t)
    <3> HIDE DEF n
    <3> QED BY <1>1, <2>2, BetweenLines
  <2> HIDE DEF u, n
  <2>5. \A section : Patterns(u, section) =
          Patterns(s, section) \cup (IF section = SectionOf(s, n + 1) THEN Range(t) ELSE {})
    BY <2>4, InsertedPatterns
  <2>6. u \in Lines
    BY <2>4 DEF Inserted
  <2> QED BY <1>1, <2>1, <2>2, <2>3, <2>5, <2>6
<1>4. CASE S # {} /\ ~ \E i \in DOMAIN s : s[i] = "[catalog]"
  <2> DEFINE v == Append(s, "[catalog]")
             u == v \o t
  <2>1. /\ v \in Lines /\ SectionOf(v, Len(v) + 1) = "[catalog]"
        /\ \A section : Patterns(v, section) = Patterns(s, section)
    BY CatalogAppended
  <2>2. WithCatalog(s, S) = u
    BY <1>4 DEF WithCatalog, t
  <2> HIDE DEF v
  <2>3. Inserted(v, u, Len(v), t)
    BY <1>1, <2>1, AfterLines
  <2> HIDE DEF u
  <2>4. \A section : Patterns(u, section) =
          Patterns(v, section) \cup (IF section = SectionOf(v, Len(v) + 1) THEN Range(t) ELSE {})
    BY <2>3, InsertedPatterns
  <2>5. u \in Lines
    BY <2>3 DEF Inserted
  <2> QED BY <1>1, <2>1, <2>2, <2>4, <2>5
<1> QED BY <1>2, <1>3, <1>4

Decision == [action : {"catalog", "ignore"}, target : Target]

\* Entries to be ignored come to the section at the end of the file, entries to
\* be cataloged to the catalog section, and every pattern stays where it was.
LEMMA WrittenIs ==
  ASSUME NEW s \in Lines, NEW D \in SUBSET Decision
  PROVE  /\ Written(s, D) \in Lines
         /\ \A section : Patterns(Written(s, D), section) =
              Patterns(s, section)
                \cup (IF section = SectionOf(s, Len(s) + 1) THEN As("ignore", D) ELSE {})
                \cup (IF section = "[catalog]" THEN As("catalog", D) ELSE {})
<1> DEFINE t == SetToSeq(As("ignore", D))
           u == s \o t
<1>1. As("ignore", D) \in SUBSET Target /\ As("catalog", D) \in SUBSET Target
  BY DEF As, Decision
<1>2. t \in Seq(Target) /\ Range(t) = As("ignore", D)
  BY <1>1, Listed
<1>3. Written(s, D) = WithCatalog(u, As("catalog", D))
  BY DEF Written
<1> HIDE DEF t
<1>4. Inserted(s, u, Len(s), t)
  BY <1>2, AfterLines
<1> HIDE DEF u
<1>5. \A section : Patterns(u, section) =
        Patterns(s, section) \cup (IF section = SectionOf(s, Len(s) + 1) THEN Range(t) ELSE {})
  BY <1>4, InsertedPatterns
<1>6. u \in Lines
  BY <1>4 DEF Inserted
<1>7. /\ WithCatalog(u, As("catalog", D)) \in Lines
      /\ \A section : Patterns(WithCatalog(u, As("catalog", D)), section) =
           Patterns(u, section) \cup (IF section = "[catalog]" THEN As("catalog", D) ELSE {})
  BY <1>1, <1>6, WithCatalogIs
<1> QED BY <1>2, <1>3, <1>5, <1>7

-----------------------------------------------------------------------------
(* Classes.                                                                *)

\* A pattern of a section matches f.
Hit(lines, section, f) == \E t \in Patterns(lines, section) : Matches(t, f)

LEMMA ClassIs ==
  ASSUME NEW s, NEW f \in File
  PROVE  /\ Hit(s, "ignored", f) => Classes(s)[f] = "Ignored"
         /\ ~ Hit(s, "ignored", f) /\ Hit(s, "[catalog]", f) => Classes(s)[f] = "Cataloged"
         /\ ~ Hit(s, "ignored", f) /\ ~ Hit(s, "[catalog]", f) => Classes(s)[f] = "Indexed"
<1> DEFINE ign == \E t \in Patterns(s, "ignored") : Matches(t, f)
           cat == \E t \in Patterns(s, "[catalog]") : Matches(t, f)
<1>1. Classes(s)[f] = CASE ign -> "Ignored" [] ~ign /\ cat -> "Cataloged" [] OTHER -> "Indexed"
  BY DEF Classes
<1>2. (ign <=> Hit(s, "ignored", f)) /\ (cat <=> Hit(s, "[catalog]", f))
  BY DEF Hit
<1> HIDE DEF ign, cat
<1> QED BY <1>1, <1>2

LEMMA RankIs ==
  Rank("Indexed") = 0 /\ Rank("Cataloged") = 1 /\ Rank("Ignored") = 2
BY DEF Rank

\* More patterns in either section never make a file less restricted.
LEMMA MorePatterns ==
  ASSUME NEW s, NEW u, NEW f \in File,
         Patterns(s, "ignored") \subseteq Patterns(u, "ignored"),
         Patterns(s, "[catalog]") \subseteq Patterns(u, "[catalog]")
  PROVE  Rank(Classes(u)[f]) >= Rank(Classes(s)[f])
<1>1. /\ Hit(s, "ignored", f) => Hit(u, "ignored", f)
      /\ Hit(s, "[catalog]", f) => Hit(u, "[catalog]", f)
  BY DEF Hit
<1> QED BY <1>1, ClassIs, RankIs

\* A file whose class has changed is matched by a pattern that is new.
LEMMA ChangedByNew ==
  ASSUME NEW s, NEW u, NEW f \in File, NEW S, NEW T,
         Patterns(u, "ignored") = Patterns(s, "ignored") \cup S,
         Patterns(u, "[catalog]") = Patterns(s, "[catalog]") \cup T,
         Classes(u)[f] # Classes(s)[f]
  PROVE  \E t \in S \cup T : Matches(t, f)
<1>1. SUFFICES ASSUME ~ \E t \in S \cup T : Matches(t, f) PROVE FALSE
  OBVIOUS
<1>2. /\ Hit(s, "ignored", f) <=> Hit(u, "ignored", f)
      /\ Hit(s, "[catalog]", f) <=> Hit(u, "[catalog]", f)
  BY <1>1 DEF Hit
<1> QED BY <1>2, ClassIs

-----------------------------------------------------------------------------
(* The invariant: types, and what a report says of the copies it keeps.     *)

Report ==
  [suggestions : SUBSET [action : {"catalog", "keep"}, target : Target], canonical : SUBSET File]

SessionState ==
  [at : {"start", "editor", "write", "done"}, report : Report,
   decisions : SUBSET Decision, read : Lines]

TypeOK ==
  /\ rules \in Lines
  /\ indexed \in SUBSET File
  /\ session \in [Session -> SessionState]

\* No report suggests to catalog a canonical copy by its own name.
KeptAlone ==
  \A s \in Session : \A f \in session[s].report.canonical :
    [action |-> "catalog", target |-> f] \notin session[s].report.suggestions

IInv == TypeOK /\ KeptAlone

\* The directory a collapsed group is suggested by is that of a copy.
LEMMA PairTyped ==
  ASSUME indexed \in SUBSET File, NEW C \in Canonicals, NEW c \in Duplicated, PairOf(c, C) # <<>>
  PROVE  PairOf(c, C)[2] \in Dir
<1> DEFINE kept == CHOOSE f \in Copies(c) : f \in C
           dup == CHOOSE f \in Copies(c) : f \notin C
<1>1. Cardinality(Copies(c)) = 2 /\ PairOf(c, C) = <<Parent[kept], Parent[dup]>>
  BY DEF PairOf
<1>2. Cardinality(C \cap Copies(c)) = 1
  BY DEF Canonicals
<1>3. \E f \in Copies(c) : f \notin C
  <2>1. SUFFICES ASSUME Copies(c) \subseteq C PROVE FALSE
    OBVIOUS
  <2>2. C \cap Copies(c) = Copies(c)
    BY <2>1
  <2> QED BY <1>1, <1>2, <2>2
<1>4. dup \in File
  <2>1. dup \in Copies(c)
    BY <1>3
  <2> QED BY <2>1 DEF Copies
<1> HIDE DEF kept, dup
<1>5. PairOf(c, C)[2] = Parent[dup]
  BY <1>1
<1> QED BY <1>4, <1>5, TargetAssumption

LEMMA CanonicalsTyped ==
  ASSUME indexed \in SUBSET File, NEW C \in Canonicals
  PROVE  C \in SUBSET File
<1>1. \A c \in Duplicated : Best(c) \subseteq File
  BY DEF Best, Copies
<1> QED BY <1>1 DEF Canonicals

\* A suggestion is of a directory, or to keep what is canonical and catalog
\* what is not.
LEMMA SuggestionIs ==
  ASSUME indexed \in SUBSET File, NEW C \in Canonicals, NEW x \in Suggested(C)
  PROVE  /\ x \in [action : {"catalog", "keep"}, target : Target]
         /\ x.target \in Dir \/ (x.target \in C => x.action = "keep")
<1>1. CASE x \in Recommended
  <2>1. PICK d \in Dir : x \in {[action |-> "catalog", target |-> d], [action |-> "keep", target |-> d]}
    BY <1>1, TargetAssumption DEF Recommended
  <2> QED BY <2>1 DEF Target
<1>2. CASE x \notin Recommended
  <2>1. PICK c \in Duplicated :
          x \in (IF Collapsed(c, C)
                 THEN {[action |-> "catalog", target |-> PairOf(c, C)[2]]}
                 ELSE {[action |-> IF f \in C THEN "keep" ELSE "catalog", target |-> f] :
                         f \in Copies(c)})
    BY <1>2 DEF Suggested
  <2>2. CASE Collapsed(c, C)
    <3>1. PairOf(c, C)[2] \in Dir
      BY <2>2, PairTyped DEF Collapsed
    <3>2. x = [action |-> "catalog", target |-> PairOf(c, C)[2]]
      BY <2>1, <2>2
    <3> QED BY <3>1, <3>2 DEF Target
  <2>3. CASE ~ Collapsed(c, C)
    <3>1. PICK f \in Copies(c) : x = [action |-> IF f \in C THEN "keep" ELSE "catalog", target |-> f]
      BY <2>1, <2>3
    <3>2. f \in File
      BY <3>1 DEF Copies
    <3> QED BY <3>1, <3>2 DEF Target
  <2> QED BY <2>2, <2>3
<1> QED BY <1>1, <1>2

LEMMA DecisionsTyped ==
  ASSUME NEW S \in SUBSET [action : {"catalog", "keep"}, target : Target], NEW D \in Decisions(S)
  PROVE  D \in SUBSET Decision
<1>1. PICK choice \in [S -> {"catalog", "ignore", "keep"}] :
        D = {[action |-> choice[x], target |-> ReadBack[x.target]] :
               x \in {y \in S : choice[y] # "keep"}}
  BY DEF Decisions
<1>2. ASSUME NEW x \in S, choice[x] # "keep"
      PROVE  [action |-> choice[x], target |-> ReadBack[x.target]] \in Decision
  <2>1. choice[x] \in {"catalog", "ignore"} /\ x.target \in Target
    BY <1>1, <1>2
  <2>2. ReadBack[x.target] \in Target
    BY <2>1, TargetAssumption
  <2> QED BY <2>1, <2>2 DEF Decision
<1> QED BY <1>1, <1>2

LEMMA InitInv == Init => IInv
<1>1. ASSUME Init PROVE IInv
  <2>1. rules \in Lines
    BY <1>1, TargetAssumption DEF Init, Lines
  <2>2. Idle.report \in Report /\ Idle.read \in Lines /\ Idle.decisions \in SUBSET Decision
    BY EmptySeq DEF Idle, NoReport, Report, Lines
  <2>3. TypeOK
    BY <1>1, <2>1, <2>2 DEF TypeOK, SessionState, Init, Idle
  <2>4. KeptAlone
    BY <1>1 DEF KeptAlone, Init, Idle, NoReport
  <2> QED BY <2>3, <2>4 DEF IInv
<1> QED BY <1>1

LEMMA StepInv == IInv /\ [Next]_vars => IInv'
<1> SUFFICES ASSUME IInv, [Next]_vars PROVE IInv'
  OBVIOUS
<1> USE DEF IInv
<1>1. ASSUME NEW s \in Session, Analyze(s) PROVE IInv'
  <2>1. PICK C \in Canonicals :
          session' = [session EXCEPT ![s].at = "editor",
                        ![s].report = [suggestions |-> Suggested(C), canonical |-> C]]
    BY <1>1 DEF Analyze
  <2>2. [suggestions |-> Suggested(C), canonical |-> C] \in Report
    <3>1. C \in SUBSET File /\ Suggested(C) \in SUBSET [action : {"catalog", "keep"}, target : Target]
      BY CanonicalsTyped, SuggestionIs DEF TypeOK
    <3> QED BY <3>1 DEF Report
  <2>3. TypeOK'
    <3>1. session' \in [Session -> SessionState]
      <4> DEFINE R == [suggestions |-> Suggested(C), canonical |-> C]
                 new == [session[s] EXCEPT !.at = "editor", !.report = R]
      <4>1. session[s] \in SessionState /\ R \in Report
        BY <2>2 DEF TypeOK
      <4>2. new \in SessionState
        <5> HIDE DEF R
        <5> QED BY <4>1 DEF SessionState
      <4>3. session' = [session EXCEPT ![s] = new]
        BY <2>1
      <4> HIDE DEF new
      <4> QED BY <4>2, <4>3 DEF TypeOK
    <3> QED BY <1>1, <3>1 DEF TypeOK, Analyze
  <2>4. ASSUME NEW f \in C PROVE [action |-> "catalog", target |-> f] \notin Suggested(C)
    <3> DEFINE x == [action |-> "catalog", target |-> f]
    <3>1. f \in File
      BY CanonicalsTyped DEF TypeOK
    <3>2. f \notin Dir
      BY <3>1, TargetAssumption
    <3>3. x \in Suggested(C) => (x.target \in Dir \/ (x.target \in C => x.action = "keep"))
      BY SuggestionIs DEF TypeOK
    <3> QED BY <3>2, <3>3
  <2>5. KeptAlone'
    BY <2>1, <2>4 DEF KeptAlone, TypeOK, SessionState
  <2> QED BY <2>3, <2>5
<1>2. ASSUME NEW s \in Session, Read(s) PROVE IInv'
  <2>1. PICK decisions \in Decisions(session[s].report.suggestions) :
          session' = [session EXCEPT ![s].at = IF decisions = {} THEN "done" ELSE "write",
                                     ![s].decisions = decisions, ![s].read = rules]
    BY <1>2 DEF Read
  <2>2. decisions \in SUBSET Decision
    <3>1. session[s].report.suggestions \in SUBSET [action : {"catalog", "keep"}, target : Target]
      BY DEF TypeOK, SessionState, Report
    <3> QED BY <2>1, <3>1, DecisionsTyped
  <2>3. TypeOK'
    <3>1. session' \in [Session -> SessionState]
      <4> DEFINE new == [session[s] EXCEPT !.at = IF decisions = {} THEN "done" ELSE "write",
                                           !.decisions = decisions, !.read = rules]
      <4>1. session[s] \in SessionState /\ rules \in Lines
        BY DEF TypeOK
      <4>2. new \in SessionState
        BY <2>2, <4>1 DEF SessionState
      <4>3. session' = [session EXCEPT ![s] = new]
        BY <2>1
      <4> HIDE DEF new
      <4> QED BY <4>2, <4>3 DEF TypeOK
    <3> QED BY <1>2, <3>1 DEF TypeOK, Read
  <2>4. KeptAlone'
    BY <2>1 DEF KeptAlone, TypeOK, SessionState
  <2> QED BY <2>3, <2>4
<1>3. ASSUME NEW s \in Session, Write(s) PROVE IInv'
  <2>1. rules' \in Lines
    <3>1. session[s].read \in Lines /\ session[s].decisions \in SUBSET Decision
      BY DEF TypeOK, SessionState
    <3> QED BY <1>3, <3>1, WrittenIs DEF Write
  <2>2. TypeOK'
    BY <1>3, <2>1 DEF TypeOK, SessionState, Write
  <2>3. KeptAlone'
    BY <1>3 DEF KeptAlone, TypeOK, SessionState, Write
  <2> QED BY <2>2, <2>3
<1>4. ASSUME Rescan PROVE IInv'
  BY <1>4 DEF Rescan, TypeOK, KeptAlone
<1>5. ASSUME UNCHANGED vars PROVE IInv'
  BY <1>5 DEF vars, TypeOK, KeptAlone
<1> QED BY <1>1, <1>2, <1>3, <1>4, <1>5 DEF Next

-----------------------------------------------------------------------------
(* What a write does.                                                      *)

\* A session that goes from "write" to "done" writes what it has read, with its
\* decisions.
LEMMA WritesWritten ==
  ASSUME IInv, [Next]_vars, NEW s \in Session, Writes(s)
  PROVE  /\ rules' = Written(session[s].read, session[s].decisions)
         /\ session[s].read \in Lines /\ session[s].decisions \in SUBSET Decision
<1>1. session \in [Session -> SessionState]
  BY DEF IInv, TypeOK
<1>2. session[s].read \in Lines /\ session[s].decisions \in SUBSET Decision
  BY <1>1 DEF SessionState
<1>3. Write(s)
  <2>1. ASSUME NEW t \in Session, Analyze(t) PROVE Write(s)
    BY <1>1, <2>1 DEF Analyze, Writes, SessionState
  <2>2. ASSUME NEW t \in Session, Read(t) PROVE Write(s)
    BY <1>1, <2>2 DEF Read, Writes, SessionState
  <2>3. ASSUME NEW t \in Session, Write(t) PROVE Write(s)
    BY <1>1, <2>3 DEF Write, Writes, SessionState
  <2>4. ASSUME Rescan PROVE Write(s)
    BY <2>4 DEF Rescan, Writes
  <2>5. ASSUME UNCHANGED vars PROVE Write(s)
    BY <2>5 DEF vars, Writes
  <2> QED BY <2>1, <2>2, <2>3, <2>4, <2>5 DEF Next
<1> QED BY <1>2, <1>3 DEF Write

LEMMA EffectStep ==
  ASSUME IInv, [Next]_vars
  PROVE  \A s \in Session : Writes(s) =>
           \A d \in session[s].decisions, f \in File :
             Matches(d.target, f) =>
               \/ d.action = "catalog" /\ Classes(rules')[f] # "Indexed"
               \/ d.action = "ignore" /\ Classes(rules')[f] = "Ignored"
               \/ d.action = "ignore" /\ Headers(session[s].read) # {}
<1> SUFFICES ASSUME NEW s \in Session, Writes(s), NEW d \in session[s].decisions,
                    NEW f \in File, Matches(d.target, f)
             PROVE  \/ d.action = "catalog" /\ Classes(rules')[f] # "Indexed"
                    \/ d.action = "ignore" /\ Classes(rules')[f] = "Ignored"
                    \/ d.action = "ignore" /\ Headers(session[s].read) # {}
  OBVIOUS
<1>1. PICK lines \in Lines, D \in SUBSET Decision, new \in Lines :
        lines = session[s].read /\ D = session[s].decisions /\ new = rules' /\ new = Written(lines, D)
  BY WritesWritten, WrittenIs
<1>2. d \in D /\ d.action \in {"catalog", "ignore"}
  BY <1>1 DEF Decision
<1>3. CASE d.action = "catalog"
  <2>1. d.target \in As("catalog", D)
    BY <1>2, <1>3 DEF As
  <2>2. d.target \in Patterns(new, "[catalog]")
    BY <1>1, <2>1, WrittenIs
  <2>3. Hit(new, "[catalog]", f)
    BY <2>2 DEF Hit
  <2>4. Classes(new)[f] # "Indexed"
    BY <2>3, ClassIs
  <2> QED BY <1>1, <1>3, <2>4
<1>4. CASE d.action = "ignore" /\ Headers(lines) = {}
  <2>1. d.target \in As("ignore", D)
    BY <1>2, <1>4 DEF As
  <2>2. SectionOf(lines, Len(lines) + 1) = "ignored"
    <3>1. NoneAbove(lines, Len(lines) + 1) /\ Len(lines) + 1 \in Int
      BY <1>4, HeadersTyped DEF NoneAbove
    <3> QED BY <3>1, SectionIs
  <2>3. d.target \in Patterns(new, "ignored")
    BY <1>1, <2>1, <2>2, WrittenIs
  <2>4. Hit(new, "ignored", f)
    BY <2>3 DEF Hit
  <2>5. Classes(new)[f] = "Ignored"
    BY <2>4, ClassIs
  <2> QED BY <1>1, <1>4, <2>5
<1> QED BY <1>1, <1>2, <1>3, <1>4

\* The patterns of a file that a session has written: those it has read, and
\* targets of its decisions.
LEMMA PatternsGrow ==
  ASSUME NEW s \in Lines, NEW D \in SUBSET Decision
  PROVE  \E S \in SUBSET As("ignore", D), T \in SUBSET (As("ignore", D) \cup As("catalog", D)) :
           /\ Patterns(Written(s, D), "ignored") = Patterns(s, "ignored") \cup S
           /\ Patterns(Written(s, D), "[catalog]") = Patterns(s, "[catalog]") \cup T
<1> DEFINE S == IF "ignored" = SectionOf(s, Len(s) + 1) THEN As("ignore", D) ELSE {}
           U == IF "[catalog]" = SectionOf(s, Len(s) + 1) THEN As("ignore", D) ELSE {}
           T == U \cup As("catalog", D)
<1>1. /\ Patterns(Written(s, D), "ignored") = Patterns(s, "ignored") \cup S
      /\ Patterns(Written(s, D), "[catalog]") = Patterns(s, "[catalog]") \cup T
  BY WrittenIs
<1>2. S \in SUBSET As("ignore", D) /\ T \in SUBSET (As("ignore", D) \cup As("catalog", D))
  OBVIOUS
<1> HIDE DEF S, T
<1> QED BY <1>1, <1>2

LEMMA OnlyStep ==
  ASSUME IInv, [Next]_vars
  PROVE  \A s \in Session : Writes(s) /\ Current(s) =>
           \A f \in File :
             /\ Rank(Classes(rules')[f]) >= Rank(Classes(rules)[f])
             /\ \/ Classes(rules')[f] = Classes(rules)[f]
                \/ \E d \in session[s].decisions : Matches(d.target, f)
<1> SUFFICES ASSUME NEW s \in Session, Writes(s), Current(s), NEW f \in File
             PROVE  /\ Rank(Classes(rules')[f]) >= Rank(Classes(rules)[f])
                    /\ \/ Classes(rules')[f] = Classes(rules)[f]
                       \/ \E d \in session[s].decisions : Matches(d.target, f)
  OBVIOUS
<1>1. PICK lines \in Lines, D \in SUBSET Decision, new \in Lines :
        lines = rules /\ D = session[s].decisions /\ new = rules' /\ new = Written(lines, D)
  BY WritesWritten, WrittenIs DEF Current
<1>2. PICK S \in SUBSET As("ignore", D), T \in SUBSET (As("ignore", D) \cup As("catalog", D)) :
        /\ Patterns(new, "ignored") = Patterns(lines, "ignored") \cup S
        /\ Patterns(new, "[catalog]") = Patterns(lines, "[catalog]") \cup T
  <2>1. new = Written(lines, D)
    BY <1>1
  <2>2. \E S \in SUBSET As("ignore", D), T \in SUBSET (As("ignore", D) \cup As("catalog", D)) :
          /\ Patterns(Written(lines, D), "ignored") = Patterns(lines, "ignored") \cup S
          /\ Patterns(Written(lines, D), "[catalog]") = Patterns(lines, "[catalog]") \cup T
    BY PatternsGrow
  <2> QED BY <2>1, <2>2
<1>3. Rank(Classes(new)[f]) >= Rank(Classes(lines)[f])
  BY <1>2, MorePatterns
<1>4. Classes(new)[f] # Classes(lines)[f] => \E d \in D : Matches(d.target, f)
  <2> SUFFICES ASSUME Classes(new)[f] # Classes(lines)[f] PROVE \E d \in D : Matches(d.target, f)
    OBVIOUS
  <2>1. PICK t \in S \cup T : Matches(t, f)
    BY <1>2, ChangedByNew
  <2>2. t \in As("ignore", D) \cup As("catalog", D)
    BY <2>1
  <2>3. PICK d \in D : d.target = t
    BY <2>2 DEF As
  <2> QED BY <2>1, <2>3
<1>5. \/ Classes(new)[f] = Classes(lines)[f]
      \/ \E d \in D : Matches(d.target, f)
  BY <1>4
<1> QED BY <1>1, <1>3, <1>5

LEMMA CopyStep ==
  ASSUME IInv, [Next]_vars
  PROVE  \A s \in Session : Writes(s) /\ Current(s) /\ AsSuggested(s) /\ Legible(s) =>
           \A f \in session[s].report.canonical :
             \/ Classes(rules')[f] = Classes(rules)[f]
             \/ [action |-> "catalog", target |-> Parent[f]] \in session[s].report.suggestions
<1> SUFFICES ASSUME NEW s \in Session, Writes(s), Current(s), AsSuggested(s),
                    NEW f \in session[s].report.canonical,
                    Classes(rules')[f] # Classes(rules)[f]
             PROVE  [action |-> "catalog", target |-> Parent[f]] \in session[s].report.suggestions
  OBVIOUS
<1>1. f \in File /\ session[s].report.suggestions
                      \in SUBSET [action : {"catalog", "keep"}, target : Target]
  BY DEF IInv, TypeOK, SessionState, Report
<1>2. PICK d \in session[s].decisions : Matches(d.target, f)
  BY <1>1, OnlyStep
<1>3. PICK x \in session[s].report.suggestions :
        x.action = "catalog" /\ d = [action |-> "catalog", target |-> x.target]
  BY <1>2 DEF AsSuggested
<1>4. x = [action |-> "catalog", target |-> x.target]
  BY <1>1, <1>3
<1>5. d.target = x.target /\ (x.target = f \/ x.target = Parent[f])
  BY <1>2, <1>3 DEF Matches
<1>6. x.target # f
  BY <1>3, <1>4 DEF IInv, KeptAlone
<1> QED BY <1>3, <1>4, <1>5, <1>6

-----------------------------------------------------------------------------
(* The theorems.                                                           *)

LEMMA Invariant == Spec => []IInv
BY InitInv, StepInv, PTL DEF Spec

\* Whatever sessions overlap, rescans and decisions there are, what is written
\* to ~/.smritiignore (apply_triage) are headers and patterns, and reports and
\* decisions name targets that there are.
THEOREM TypeCorrect == Spec => []TypeOK
<1>1. IInv => TypeOK
  BY DEF IInv
<1> QED BY <1>1, Invariant, PTL

\* What apply_triage writes for a decision is read by parse_smritiignore as that
\* decision, whatever the file held, as DecisionsTakeEffect says.
THEOREM DecisionsEffective == Spec => DecisionsTakeEffect
<1>1. IInv /\ [Next]_vars =>
        (\A s \in Session : Writes(s) =>
           \A d \in session[s].decisions, f \in File :
             Matches(d.target, f) =>
               \/ d.action = "catalog" /\ Classes(rules')[f] # "Indexed"
               \/ d.action = "ignore" /\ Classes(rules')[f] = "Ignored"
               \/ d.action = "ignore" /\ Headers(session[s].read) # {})
  BY EffectStep
<1> QED BY <1>1, Invariant, PTL DEF Spec, DecisionsTakeEffect

\* No pattern of the file changes its section when apply_triage inserts others,
\* so that a session only restricts files it has decided about.
THEOREM OnlyDecidedChanges == Spec => OnlyDecided
<1>1. IInv /\ [Next]_vars =>
        (\A s \in Session : Writes(s) /\ Current(s) =>
           \A f \in File :
             /\ Rank(Classes(rules')[f]) >= Rank(Classes(rules)[f])
             /\ \/ Classes(rules')[f] = Classes(rules)[f]
                \/ \E d \in session[s].decisions : Matches(d.target, f))
  BY OnlyStep
<1> QED BY <1>1, Invariant, PTL DEF Spec, OnlyDecided

\* Suggestions taken as analyze makes them leave the canonical copy of every
\* group as it was, unless its directory is suggested as a whole.
THEOREM ACopyIsKept == Spec => KeepsACopy
<1>1. IInv /\ [Next]_vars =>
        (\A s \in Session : Writes(s) /\ Current(s) /\ AsSuggested(s) /\ Legible(s) =>
           \A f \in session[s].report.canonical :
             \/ Classes(rules')[f] = Classes(rules)[f]
             \/ [action |-> "catalog", target |-> Parent[f]] \in session[s].report.suggestions)
  BY CopyStep
<1> QED BY <1>1, Invariant, PTL DEF Spec, KeepsACopy
=============================================================================
