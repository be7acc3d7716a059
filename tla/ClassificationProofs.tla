------------------------ MODULE ClassificationProofs ------------------------
(***************************************************************************)
(* Theorems of Classification, for every tree and every order of its walk, *)
(* every list of roots, nested or not, and all rules the user, the built-in *)
(* ones and the directories may have.                                      *)
(***************************************************************************)
EXTENDS Classification, SequenceTheorems, WellFoundedInduction, TLAPS

-----------------------------------------------------------------------------
(* Numbers: induction over a set, and the greatest and least of some.       *)

LEMMA UpTo ==
  ASSUME NEW n \in Nat, NEW S, 0 \in S, \A m \in 1..n : m - 1 \in S => m \in S
  PROVE  \A m \in 0..n : m \in S
<1> DEFINE T == (0..n) \ S
<1>1. SUFFICES ASSUME T # {} PROVE FALSE
  OBVIOUS
<1>2. T \in SUBSET Nat
  OBVIOUS
<1>3. PICK m \in T : \A x \in T : ~ (<<x, m>> \in OpToRel(<, Nat))
  BY <1>1, <1>2, NatLessThanWellFounded, WFMin
<1>4. m \in 1..n /\ m - 1 \in 0..n /\ m - 1 < m
  <2>1. m \in 0..n /\ m \notin S
    BY <1>3
  <2>2. m # 0
    BY <2>1
  <2> QED BY <2>1, <2>2
<1>5. m - 1 \notin T
  BY <1>2, <1>3, <1>4 DEF OpToRel
<1> QED BY <1>3, <1>4, <1>5

LEMMA LeastIs ==
  ASSUME NEW n \in Nat, NEW S \in SUBSET (0..n), S # {}
  PROVE  Min(S) \in S /\ \A x \in S : Min(S) <= x
<1>1. S \in SUBSET Nat
  OBVIOUS
<1>2. PICK m \in S : \A x \in S : ~ (<<x, m>> \in OpToRel(<, Nat))
  BY <1>1, NatLessThanWellFounded, WFMin
<1>3. ASSUME NEW x \in S PROVE m <= x
  <2>1. x \in Nat /\ m \in Nat /\ ~ (x < m)
    BY <1>1, <1>2 DEF OpToRel
  <2> QED BY <2>1
<1> QED BY <1>3 DEF Min

LEMMA GreatestIs ==
  ASSUME NEW n \in Nat, NEW S \in SUBSET (0..n), S # {}
  PROVE  Max(S) \in S /\ \A x \in S : x <= Max(S)
<1> DEFINE T == {n - x : x \in S}
<1>1. T \in SUBSET Nat /\ T # {}
  <2>1. \A x \in S : n - x \in Nat
    OBVIOUS
  <2> QED BY <2>1
<1>2. PICK t \in T : \A y \in T : ~ (<<y, t>> \in OpToRel(<, Nat))
  BY <1>1, NatLessThanWellFounded, WFMin
<1>3. PICK m \in S : t = n - m
  BY <1>2
<1>4. ASSUME NEW x \in S PROVE x <= m
  <2>1. n - x \in T /\ ~ (n - x < n - m)
    BY <1>1, <1>2, <1>3 DEF OpToRel
  <2> QED BY <2>1
<1>5. \A x \in S : m >= x
  BY <1>4
<1> QED BY <1>5 DEF Max

-----------------------------------------------------------------------------
(* Paths: their prefixes, and the chain from a root down to one.            *)

Paths == Seq(Name)

LEMMA NodeTyped ==
  /\ \A n \in Node : n \in Paths /\ Len(n) \in Nat \ {0}
  /\ \A d \in Dir : d \in Node
BY TreeAssumption, EmptySeq DEF Node, Paths

LEMMA Length == \A p \in Paths : Len(p) \in Nat
BY LenProperties DEF Paths

LEMMA UpperPart ==
  ASSUME NEW p \in Paths, NEW n \in 0..Len(p)
  PROVE  /\ SubSeq(p, 1, n) \in Paths /\ Len(SubSeq(p, 1, n)) = n
         /\ \A i \in 1..n : SubSeq(p, 1, n)[i] = p[i]
<1>1. Len(p) \in Nat /\ \A i \in 1..n : p[i] \in Name
  BY LenProperties, ElementOfSeq DEF Paths
<1> QED BY <1>1, SubSeqProperties DEF Paths

LEMMA SamePath ==
  ASSUME NEW p \in Paths, NEW q \in Paths, Len(p) = Len(q), \A i \in 1..Len(p) : p[i] = q[i]
  PROVE  p = q
BY SeqEqual DEF Paths

LEMMA PrefixIs ==
  ASSUME NEW p \in Paths, NEW q \in Paths
  PROVE  IsPrefix(p, q) <=> Len(p) <= Len(q) /\ \A i \in 1..Len(p) : p[i] = q[i]
<1>1. Len(p) \in Nat /\ Len(q) \in Nat
  BY Length
<1>2. SubSeq(p, 1, Len(p)) = p
  BY SubSeqFull DEF Paths
<1>3. ASSUME Len(p) <= Len(q)
      PROVE  SubSeq(q, 1, Len(p)) = p <=> \A i \in 1..Len(p) : p[i] = q[i]
  <2>1. /\ SubSeq(q, 1, Len(p)) \in Paths /\ Len(SubSeq(q, 1, Len(p))) = Len(p)
        /\ \A i \in 1..Len(p) : SubSeq(q, 1, Len(p))[i] = q[i]
    BY <1>1, <1>3, UpperPart
  <2>2. ASSUME \A i \in 1..Len(p) : p[i] = q[i] PROVE SubSeq(q, 1, Len(p)) = p
    BY <2>1, <2>2, SamePath
  <2> QED BY <2>1, <2>2
<1> QED BY <1>2, <1>3 DEF IsPrefix

LEMMA PrefixFacts ==
  ASSUME NEW p \in Paths, NEW q \in Paths, NEW r \in Paths
  PROVE  /\ IsPrefix(p, p)
         /\ IsPrefix(p, q) /\ IsPrefix(q, r) => IsPrefix(p, r)
         /\ IsPrefix(p, q) /\ IsPrefix(q, p) => p = q
         /\ IsPrefix(p, r) /\ IsPrefix(q, r) /\ Len(p) <= Len(q) => IsPrefix(p, q)
         /\ IsStrictPrefix(p, q) => Len(p) < Len(q)
         /\ IsPrefix(p, q) /\ Len(p) = Len(q) => p = q
<1>1. Len(p) \in Nat /\ Len(q) \in Nat /\ Len(r) \in Nat
  BY Length
<1>2. /\ IsPrefix(p, p) <=> Len(p) <= Len(p) /\ \A i \in 1..Len(p) : p[i] = p[i]
      /\ IsPrefix(p, q) <=> Len(p) <= Len(q) /\ \A i \in 1..Len(p) : p[i] = q[i]
      /\ IsPrefix(q, p) <=> Len(q) <= Len(p) /\ \A i \in 1..Len(q) : q[i] = p[i]
      /\ IsPrefix(q, r) <=> Len(q) <= Len(r) /\ \A i \in 1..Len(q) : q[i] = r[i]
      /\ IsPrefix(p, r) <=> Len(p) <= Len(r) /\ \A i \in 1..Len(p) : p[i] = r[i]
  BY PrefixIs
<1>3. IsPrefix(p, q) /\ Len(p) = Len(q) => p = q
  BY <1>2, SamePath
<1>4. IsPrefix(p, q) /\ IsPrefix(q, p) => p = q
  BY <1>1, <1>2, <1>3
<1>5. IsStrictPrefix(p, q) => Len(p) < Len(q)
  BY <1>1, <1>2, <1>3 DEF IsStrictPrefix
<1>6. IsPrefix(p, q) /\ IsPrefix(q, r) => IsPrefix(p, r)
  BY <1>1, <1>2
<1>7. IsPrefix(p, r) /\ IsPrefix(q, r) /\ Len(p) <= Len(q) => IsPrefix(p, q)
  BY <1>1, <1>2
<1> QED BY <1>1, <1>2, <1>3, <1>4, <1>5, <1>6, <1>7

\* The parent of a path.
LEMMA ParentIs ==
  ASSUME NEW p \in Paths, p # <<>>
  PROVE  /\ Front(p) \in Paths /\ Len(p) \in Nat \ {0} /\ Len(Front(p)) = Len(p) - 1
         /\ IsStrictPrefix(Front(p), p)
         /\ \A q \in Paths : IsStrictPrefix(q, p) => IsPrefix(q, Front(p))
<1>1. Len(p) \in Nat \ {0}
  BY EmptySeq DEF Paths
<1>2. /\ Front(p) \in Paths /\ Len(Front(p)) = Len(p) - 1
      /\ \A i \in 1..(Len(p) - 1) : Front(p)[i] = p[i]
  <2>1. Len(p) - 1 \in 0..Len(p) /\ Front(p) = SubSeq(p, 1, Len(p) - 1)
    BY <1>1 DEF Front
  <2> QED BY <2>1, UpperPart
<1>3. IsPrefix(Front(p), p) /\ Front(p) # p
  BY <1>1, <1>2, PrefixIs
<1>4. ASSUME NEW q \in Paths, IsStrictPrefix(q, p) PROVE IsPrefix(q, Front(p))
  <2>1. Len(q) < Len(p) /\ IsPrefix(q, p) /\ Len(q) \in Nat
    BY <1>4, PrefixFacts, Length DEF IsStrictPrefix
  <2> QED BY <1>1, <1>2, <1>3, <2>1, PrefixFacts
<1> QED BY <1>1, <1>2, <1>3, <1>4 DEF IsStrictPrefix

LEMMA PartsOfPart ==
  ASSUME NEW p \in Paths, NEW n \in 1..Len(p)
  PROVE  Front(SubSeq(p, 1, n)) = SubSeq(p, 1, n - 1)
<1>1. Len(p) \in Nat /\ n \in 0..Len(p) /\ n - 1 \in 0..Len(p)
  BY Length
<1> DEFINE q == SubSeq(p, 1, n)
<1>2. q \in Paths /\ Len(q) = n /\ \A i \in 1..n : q[i] = p[i]
  BY <1>1, UpperPart
<1>3. /\ SubSeq(p, 1, n - 1) \in Paths /\ Len(SubSeq(p, 1, n - 1)) = n - 1
      /\ \A i \in 1..(n - 1) : SubSeq(p, 1, n - 1)[i] = p[i]
  BY <1>1, UpperPart
<1> HIDE DEF q
<1>4. /\ SubSeq(q, 1, n - 1) \in Paths /\ Len(SubSeq(q, 1, n - 1)) = n - 1
      /\ \A i \in 1..(n - 1) : SubSeq(q, 1, n - 1)[i] = q[i]
  BY <1>1, <1>2, UpperPart
<1>5. SubSeq(q, 1, n - 1) = SubSeq(p, 1, n - 1)
  BY <1>1, <1>2, <1>3, <1>4, SamePath
<1> QED BY <1>2, <1>5 DEF Front, q

LEMMA PrefixIsPart ==
  ASSUME NEW p \in Paths, NEW q \in Paths, IsPrefix(p, q)
  PROVE  Len(p) \in 0..Len(q) /\ p = SubSeq(q, 1, Len(p))
<1>1. Len(p) \in 0..Len(q) /\ \A i \in 1..Len(p) : p[i] = q[i]
  BY PrefixIs, Length
<1>2. /\ SubSeq(q, 1, Len(p)) \in Paths /\ Len(SubSeq(q, 1, Len(p))) = Len(p)
      /\ \A i \in 1..Len(p) : SubSeq(q, 1, Len(p))[i] = q[i]
  BY <1>1, UpperPart
<1> QED BY <1>1, <1>2, SamePath

LEMMA PartIsPrefix ==
  ASSUME NEW p \in Paths, NEW n \in 0..Len(p)
  PROVE  IsPrefix(SubSeq(p, 1, n), p)
<1> DEFINE q == SubSeq(p, 1, n)
<1>1. q \in Paths /\ Len(q) = n /\ \A i \in 1..n : q[i] = p[i]
  BY UpperPart
<1>2. n <= Len(p)
  BY Length
<1> HIDE DEF q
<1>3. IsPrefix(q, p)
  BY <1>1, <1>2, PrefixIs
<1> QED BY <1>3 DEF q

LEMMA ChainTyped ==
  ASSUME NEW root \in Paths, NEW path \in Paths, root # <<>>, Len(root) - 1 <= Len(path)
  PROVE  /\ Chain(root, path) \in Seq(Paths)
         /\ Len(Chain(root, path)) = Len(path) - Len(root) + 1
         /\ \A i \in 1..(Len(path) - Len(root) + 1) :
              Chain(root, path)[i] = SubSeq(path, 1, Len(root) + i - 1)
<1> DEFINE m == Len(path) - Len(root) + 1
<1>1. Len(path) \in Nat /\ Len(root) \in Nat \ {0} /\ m \in Nat
  BY Length, ParentIs
<1>2. \A i \in 1..m : SubSeq(path, 1, Len(root) + i - 1) \in Paths
  BY <1>1, UpperPart
<1>3. Chain(root, path) \in [1..m -> Paths]
  BY <1>2 DEF Chain
<1>4. Chain(root, path) \in Seq(Paths)
  BY <1>1, <1>3, SeqDef
<1>5. DOMAIN Chain(root, path) = 1..m
  BY <1>3
<1>6. Len(Chain(root, path)) = m
  BY <1>1, <1>4, <1>5, LenProperties
<1> QED BY <1>4, <1>6 DEF Chain

\* The chain holds what lies between the two.
LEMMA OnChain ==
  ASSUME NEW root \in Paths, NEW path \in Paths, root # <<>>, IsPrefix(root, path), NEW p
  PROVE  p \in Range(Chain(root, path)) <=>
           p \in Paths /\ IsPrefix(root, p) /\ IsPrefix(p, path)
<1> DEFINE m == Len(path) - Len(root) + 1
<1>1. Len(path) \in Nat /\ Len(root) \in Nat \ {0} /\ Len(root) <= Len(path)
  BY Length, ParentIs, PrefixIs
<1>2. /\ DOMAIN Chain(root, path) = 1..m
      /\ \A i \in 1..m : Chain(root, path)[i] = SubSeq(path, 1, Len(root) + i - 1)
  BY <1>1, ChainTyped, LenProperties
<1>3. ASSUME NEW i \in 1..m, p = SubSeq(path, 1, Len(root) + i - 1)
      PROVE  p \in Paths /\ IsPrefix(root, p) /\ IsPrefix(p, path)
  <2>1. Len(root) + i - 1 \in 0..Len(path)
    BY <1>1
  <2>2. p \in Paths /\ IsPrefix(p, path) /\ Len(p) = Len(root) + i - 1
    BY <1>3, <2>1, UpperPart, PartIsPrefix
  <2>3. Len(root) <= Len(p)
    BY <1>1, <2>2
  <2> QED BY <2>2, <2>3, PrefixFacts
<1>4. ASSUME p \in Paths, IsPrefix(root, p), IsPrefix(p, path)
      PROVE  \E i \in 1..m : p = SubSeq(path, 1, Len(root) + i - 1)
  <2>1. Len(p) \in Nat /\ Len(root) <= Len(p) /\ Len(p) <= Len(path) /\ p = SubSeq(path, 1, Len(p))
    BY <1>4, PrefixIs, PrefixIsPart, Length
  <2>2. Len(p) - Len(root) + 1 \in 1..m /\ Len(root) + (Len(p) - Len(root) + 1) - 1 = Len(p)
    BY <1>1, <2>1
  <2> QED BY <2>1, <2>2
<1> HIDE DEF m
<1> QED BY <1>2, <1>3, <1>4 DEF Range

LEMMA ChainGrows ==
  ASSUME NEW root \in Paths, NEW path \in Paths, root # <<>>, Len(root) <= Len(path)
  PROVE  Chain(root, path) = Append(Chain(root, Front(path)), path)
<1>1. Len(path) \in Nat \ {0} /\ Len(root) \in Nat \ {0}
  BY Length, ParentIs
<1>2. path # <<>>
  BY <1>1, EmptySeq
<1>3. Front(path) \in Paths /\ Len(Front(path)) = Len(path) - 1
  BY <1>2, ParentIs
<1> DEFINE m == Len(path) - Len(root)
           s == Chain(root, Front(path))
           t == Append(s, path)
           c == Chain(root, path)
<1>4. /\ s \in Seq(Paths) /\ Len(s) = m
      /\ \A i \in 1..m : s[i] = SubSeq(Front(path), 1, Len(root) + i - 1)
  BY <1>1, <1>3, ChainTyped
<1>5. /\ c \in Seq(Paths) /\ Len(c) = m + 1
      /\ \A i \in 1..(m + 1) : c[i] = SubSeq(path, 1, Len(root) + i - 1)
  BY <1>1, ChainTyped
<1> HIDE DEF s, c
<1>6. /\ t \in Seq(Paths) /\ Len(t) = m + 1
      /\ \A i \in 1..m : t[i] = s[i]
      /\ t[m + 1] = path
  BY <1>4, AppendProperties
<1> HIDE DEF t
<1>7. ASSUME NEW i \in 1..(m + 1) PROVE c[i] = t[i]
  <2>1. CASE i = m + 1
    <3>1. c[i] = SubSeq(path, 1, Len(path))
      BY <1>1, <1>5, <2>1
    <3> QED BY <1>6, <2>1, <3>1, SubSeqFull DEF Paths
  <2>2. CASE i # m + 1
    <3>1. i \in 1..m /\ Len(root) + i - 1 \in 0..Len(path) /\ Len(root) + i - 1 \in 0..Len(Front(path))
      BY <1>1, <1>3, <2>2
    <3> DEFINE n == Len(root) + i - 1
    <3>2. /\ SubSeq(path, 1, n) \in Paths /\ Len(SubSeq(path, 1, n)) = n
          /\ \A j \in 1..n : SubSeq(path, 1, n)[j] = path[j]
          /\ SubSeq(Front(path), 1, n) \in Paths /\ Len(SubSeq(Front(path), 1, n)) = n
          /\ \A j \in 1..n : SubSeq(Front(path), 1, n)[j] = Front(path)[j]
      BY <1>3, <3>1, UpperPart
    <3>3. \A j \in 1..(Len(path) - 1) : Front(path)[j] = path[j]
      BY <1>1, UpperPart DEF Front
    <3>4. \A j \in 1..n : Front(path)[j] = path[j]
      BY <1>1, <1>3, <3>1, <3>3
    <3>5. SubSeq(Front(path), 1, n) = SubSeq(path, 1, n)
      BY <3>2, <3>4, SamePath
    <3> QED BY <1>4, <1>5, <1>6, <3>1, <3>5
  <2> QED BY <2>1, <2>2
<1>8. c = t
  BY <1>5, <1>6, <1>7, SeqEqual
<1> QED BY <1>8 DEF c, t, s

-----------------------------------------------------------------------------
(* The layers on a chain of directories.                                    *)

Holding == DOMAIN book.layer

HeldAt(s, f, i) ==
  IF i = 0 THEN <<>>
  ELSE IF s[i] \in Holding THEN Append(f[i - 1], s[i]) ELSE f[i - 1]

Held(s, f, m) == f = [i \in 0..m |-> HeldAt(s, f, i)]

\* The function in WithRules exists: it is extended one directory at a time.
LEMMA HeldExists ==
  ASSUME NEW s \in Seq(Paths)
  PROVE  \E f : Held(s, f, Len(s)) /\ WithRules(s) = f[Len(s)]
<1> DEFINE n == Len(s)
           S == {m \in 0..n : \E f : Held(s, f, m)}
<1>0. n \in Nat
  BY LenProperties
<1>1. 0 \in S
  <2> DEFINE g == [i \in 0..0 |-> <<>>]
  <2>1. g = [i \in 0..0 |-> HeldAt(s, g, i)]
    BY DEF HeldAt
  <2> QED BY <1>0, <2>1 DEF Held
<1>2. ASSUME NEW m \in 1..n, m - 1 \in S PROVE m \in S
  <2>1. m \in 0..n /\ m - 1 \in 0..n /\ m \in Nat /\ m # 0
    BY <1>0
  <2>2. PICK f : Held(s, f, m - 1)
    BY <1>2
  <2> DEFINE g == [i \in 0..m |-> IF i = m THEN HeldAt(s, f, m) ELSE f[i]]
  <2>3. ASSUME NEW i \in 0..m PROVE g[i] = HeldAt(s, g, i)
    <3>1. CASE i = m
      BY <2>1, <3>1 DEF HeldAt
    <3>2. CASE i # m
      <4>1. i \in 0..(m - 1) /\ (i # 0 => i - 1 \in 0..m /\ i - 1 # m)
        BY <2>1, <3>2
      <4>2. f[i] = HeldAt(s, f, i)
        BY <2>2, <4>1 DEF Held
      <4> QED BY <3>2, <4>1, <4>2 DEF HeldAt
    <3> QED BY <3>1, <3>2
  <2>4. Held(s, g, m)
    BY <2>3 DEF Held
  <2> QED BY <2>1, <2>4
<1> HIDE DEF S
<1>3. n \in S
  <2>1. \A m \in 0..n : m \in S
    BY <1>0, <1>1, <1>2, UpTo
  <2> QED BY <1>0, <2>1
<1>4. PICK h : Held(s, h, n)
  BY <1>3 DEF S
<1> DEFINE held[i \in 0..n] ==
             IF i = 0 THEN <<>>
             ELSE IF s[i] \in DOMAIN book.layer THEN Append(held[i - 1], s[i]) ELSE held[i - 1]
<1>5. Held(s, held, n)
  <2>1. h = [i \in 0..n |-> IF i = 0 THEN <<>>
                            ELSE IF s[i] \in DOMAIN book.layer THEN Append(h[i - 1], s[i])
                                 ELSE h[i - 1]]
    BY <1>4 DEF Held, HeldAt, Holding
  <2> QED BY <2>1 DEF Held, HeldAt, Holding
<1>6. WithRules(s) = held[n]
  BY DEF WithRules
<1> HIDE DEF held
<1> QED BY <1>5, <1>6

LEMMA WithRulesStep ==
  ASSUME NEW s \in Seq(Paths), NEW d \in Paths
  PROVE  /\ Len(s) = 0 => WithRules(s) = <<>>
         /\ WithRules(Append(s, d)) =
              IF d \in Holding THEN Append(WithRules(s), d) ELSE WithRules(s)
<1> DEFINE n == Len(s)
           t == Append(s, d)
<1>0. /\ n \in Nat /\ t \in Seq(Paths) /\ Len(t) = n + 1 /\ t[n + 1] = d
      /\ \A i \in 1..n : t[i] = s[i]
  BY LenProperties, AppendProperties
<1> HIDE DEF t
<1>1. PICK f : Held(s, f, n) /\ WithRules(s) = f[n]
  BY HeldExists
<1>2. PICK g : Held(t, g, n + 1) /\ WithRules(t) = g[n + 1]
  BY <1>0, HeldExists
<1> DEFINE S == {m \in 0..n : f[m] = g[m]}
<1>3. 0 \in S
  BY <1>0, <1>1, <1>2 DEF Held, HeldAt
<1>4. ASSUME NEW m \in 1..n, m - 1 \in S PROVE m \in S
  <2>1. m \in 0..n /\ m \in 0..(n + 1) /\ m # 0
    BY <1>0
  <2>2. f[m] = HeldAt(s, f, m) /\ g[m] = HeldAt(t, g, m) /\ f[m - 1] = g[m - 1]
    BY <1>1, <1>2, <1>4, <2>1 DEF Held
  <2> QED BY <1>0, <2>1, <2>2 DEF HeldAt
<1> HIDE DEF S
<1>5. f[n] = g[n]
  <2>1. \A m \in 0..n : m \in S
    BY <1>0, <1>3, <1>4, UpTo
  <2>2. n \in S
    BY <1>0, <2>1
  <2> QED BY <2>2 DEF S
<1>6. g[n + 1] = HeldAt(t, g, n + 1) /\ n + 1 # 0 /\ (n + 1) - 1 = n
  BY <1>0, <1>2 DEF Held
<1>7. WithRules(t) = IF d \in Holding THEN Append(WithRules(s), d) ELSE WithRules(s)
  BY <1>0, <1>1, <1>2, <1>5, <1>6 DEF HeldAt
<1>8. n = 0 => WithRules(s) = <<>>
  BY <1>1 DEF Held, HeldAt
<1> QED BY <1>7, <1>8 DEF t

\* The layers from a root down to a path.
LayersTo(root, path) == WithRules(Chain(root, path))

LEMMA LayersStep ==
  ASSUME NEW root \in Paths, NEW path \in Paths, root # <<>>, Len(root) - 1 <= Len(path)
  PROVE  IF Len(path) = Len(root) - 1 THEN LayersTo(root, path) = <<>>
         ELSE /\ Len(Front(path)) = Len(path) - 1 /\ Front(path) \in Paths
              /\ LayersTo(root, path) =
                   IF path \in Holding THEN Append(LayersTo(root, Front(path)), path)
                   ELSE LayersTo(root, Front(path))
<1>1. Len(path) \in Nat /\ Len(root) \in Nat \ {0}
  BY Length, ParentIs
<1>2. CASE Len(path) = Len(root) - 1
  <2>1. Chain(root, path) \in Seq(Paths) /\ Len(Chain(root, path)) = 0
    BY <1>1, <1>2, ChainTyped
  <2> QED BY <1>2, <2>1, WithRulesStep DEF LayersTo
<1>3. CASE Len(path) # Len(root) - 1
  <2>1. Len(root) <= Len(path) /\ path # <<>>
    BY <1>1, <1>3, EmptySeq
  <2>2. Front(path) \in Paths /\ Len(Front(path)) = Len(path) - 1
    BY <2>1, ParentIs
  <2>3. Chain(root, Front(path)) \in Seq(Paths)
    BY <1>1, <2>1, <2>2, ChainTyped
  <2>4. Chain(root, path) = Append(Chain(root, Front(path)), path)
    BY <2>1, ChainGrows
  <2> QED BY <1>3, <2>2, <2>3, <2>4, WithRulesStep DEF LayersTo
<1> QED BY <1>2, <1>3

\* Exactly the directories from the root down to path that hold rules.
Fits(root, path, s) ==
  /\ s \in Seq(Paths)
  /\ \A i \in 1..Len(s) : /\ s[i] \in Holding /\ IsPrefix(s[i], path)
                          /\ Len(root) <= Len(s[i]) /\ Len(s[i]) <= Len(path)
  /\ \A d \in Paths : d \in Holding /\ IsPrefix(d, path) /\ Len(root) <= Len(d) =>
       \E i \in 1..Len(s) : s[i] = d

LEMMA FitsStep ==
  ASSUME NEW root \in Paths, NEW path \in Paths, path # <<>>, Len(root) <= Len(path),
         NEW s, Fits(root, Front(path), s)
  PROVE  Fits(root, path, IF path \in Holding THEN Append(s, path) ELSE s)
<1>1. /\ Front(path) \in Paths /\ Len(path) \in Nat \ {0} /\ Len(Front(path)) = Len(path) - 1
      /\ IsPrefix(Front(path), path)
      /\ \A q \in Paths : IsPrefix(q, path) /\ q # path => IsPrefix(q, Front(path))
  BY ParentIs DEF IsStrictPrefix
<1>2. s \in Seq(Paths) /\ Len(s) \in Nat /\ \A i \in 1..Len(s) : s[i] \in Paths
  BY LenProperties, ElementOfSeq DEF Fits
<1>3. \A i \in 1..Len(s) : /\ s[i] \in Holding /\ IsPrefix(s[i], path)
                           /\ Len(root) <= Len(s[i]) /\ Len(s[i]) <= Len(path)
  <2> TAKE i \in 1..Len(s)
  <2>1. /\ s[i] \in Holding /\ IsPrefix(s[i], Front(path)) /\ s[i] \in Paths
        /\ Len(root) <= Len(s[i]) /\ Len(s[i]) <= Len(Front(path)) /\ Len(s[i]) \in Nat
    BY <1>2, Length DEF Fits
  <2>2. IsPrefix(s[i], path)
    BY <1>1, <2>1, PrefixFacts
  <2> QED BY <1>1, <2>1, <2>2
<1>4. \A d \in Paths : d \in Holding /\ IsPrefix(d, path) /\ Len(root) <= Len(d) /\ d # path =>
        \E i \in 1..Len(s) : s[i] = d
  BY <1>1 DEF Fits
<1>5. CASE path \in Holding
  <2> DEFINE t == Append(s, path)
  <2>1. /\ t \in Seq(Paths) /\ Len(t) = Len(s) + 1
        /\ \A i \in 1..Len(s) : t[i] = s[i]
        /\ t[Len(s) + 1] = path
    BY <1>2, AppendProperties
  <2> HIDE DEF t
  <2>2. IsPrefix(path, path)
    BY PrefixFacts
  <2>3. \A i \in 1..Len(t) : /\ t[i] \in Holding /\ IsPrefix(t[i], path)
                             /\ Len(root) <= Len(t[i]) /\ Len(t[i]) <= Len(path)
    <3> TAKE i \in 1..Len(t)
    <3>1. i \in 1..Len(s) \/ i = Len(s) + 1
      BY <1>2, <2>1
    <3> QED BY <1>1, <1>3, <1>5, <2>1, <2>2, <3>1
  <2>4. \A d \in Paths : d \in Holding /\ IsPrefix(d, path) /\ Len(root) <= Len(d) =>
          \E i \in 1..Len(t) : t[i] = d
    <3> SUFFICES ASSUME NEW d \in Paths, d \in Holding, IsPrefix(d, path), Len(root) <= Len(d)
                 PROVE  \E i \in 1..Len(t) : t[i] = d
      OBVIOUS
    <3>1. CASE d = path
      <4>1. Len(s) + 1 \in 1..Len(t)
        BY <1>2, <2>1
      <4> QED BY <2>1, <3>1, <4>1
    <3>2. CASE d # path
      <4>1. PICK i \in 1..Len(s) : s[i] = d
        BY <1>4, <3>2
      <4>2. i \in 1..Len(t)
        BY <1>2, <2>1
      <4> QED BY <2>1, <4>1, <4>2
    <3> QED BY <3>1, <3>2
  <2>5. Fits(root, path, t)
    BY <2>1, <2>3, <2>4 DEF Fits
  <2> QED BY <1>5, <2>5 DEF t
<1>6. CASE path \notin Holding
  <2>1. Fits(root, path, s)
    BY <1>2, <1>3, <1>4, <1>6 DEF Fits
  <2> QED BY <1>6, <2>1
<1> QED BY <1>5, <1>6

LEMMA LayersFit ==
  ASSUME NEW root \in Paths, NEW path \in Paths, root # <<>>, Len(root) - 1 <= Len(path)
  PROVE  Fits(root, path, LayersTo(root, path))
<1> DEFINE N == Len(path) - Len(root) + 1
           Part(m) == SubSeq(path, 1, Len(root) - 1 + m)
           S == {m \in 0..N : Fits(root, Part(m), LayersTo(root, Part(m)))}
<1>1. Len(path) \in Nat /\ Len(root) \in Nat \ {0} /\ N \in Nat
  BY Length, ParentIs
<1>2. \A m \in 0..N : Part(m) \in Paths /\ Len(Part(m)) = Len(root) - 1 + m
  <2> TAKE m \in 0..N
  <2>1. Len(root) - 1 + m \in 0..Len(path)
    BY <1>1
  <2> QED BY <2>1, UpperPart
<1>3. \A m \in 1..N : Front(Part(m)) = Part(m - 1)
  <2> TAKE m \in 1..N
  <2>1. Len(root) - 1 + m \in 1..Len(path) /\ Len(root) - 1 + m - 1 = Len(root) - 1 + (m - 1)
    BY <1>1
  <2> QED BY <2>1, PartsOfPart
<1>4. Part(N) = path
  <2>1. Len(root) - 1 + N = Len(path)
    BY <1>1
  <2> QED BY <2>1, SubSeqFull DEF Paths
<1> HIDE DEF Part
<1>5. 0 \in S
  <2>1. Part(0) \in Paths /\ Len(Part(0)) = Len(root) - 1 /\ 0 \in 0..N
    BY <1>1, <1>2
  <2>2. LayersTo(root, Part(0)) = <<>>
    BY <1>1, <2>1, LayersStep
  <2>3. \A d \in Paths : IsPrefix(d, Part(0)) => ~ (Len(root) <= Len(d))
    BY <1>1, <2>1, PrefixIs, Length
  <2>4. <<>> \in Seq(Paths) /\ Len(<<>>) = 0
    BY EmptySeq
  <2>5. Fits(root, Part(0), <<>>)
    BY <2>3, <2>4 DEF Fits
  <2> QED BY <2>1, <2>2, <2>5
<1>6. ASSUME NEW m \in 1..N, m - 1 \in S PROVE m \in S
  <2>1. m \in 0..N /\ m - 1 \in 0..N
    BY <1>1
  <2>2. Part(m) \in Paths /\ Len(Part(m)) = Len(root) - 1 + m /\ Front(Part(m)) = Part(m - 1)
    BY <1>2, <1>3, <2>1
  <2>3. Len(root) <= Len(Part(m)) /\ Part(m) # <<>> /\ Len(Part(m)) # Len(root) - 1
    BY <1>1, <2>1, <2>2, EmptySeq
  <2>4. Fits(root, Front(Part(m)), LayersTo(root, Front(Part(m))))
    BY <1>6, <2>2
  <2>5. LayersTo(root, Part(m)) = IF Part(m) \in Holding
                                  THEN Append(LayersTo(root, Front(Part(m))), Part(m))
                                  ELSE LayersTo(root, Front(Part(m)))
    BY <1>1, <2>2, <2>3, LayersStep
  <2> HIDE DEF LayersTo
  <2>6. Fits(root, Part(m), LayersTo(root, Part(m)))
    BY <2>2, <2>3, <2>4, <2>5, FitsStep
  <2> QED BY <2>1, <2>6
<1> HIDE DEF S
<1>7. N \in S
  <2>1. \A m \in 0..N : m \in S
    BY <1>1, <1>5, <1>6, UpTo
  <2> QED BY <1>1, <2>1
<1> QED BY <1>4, <1>7 DEF S

\* What a longer chain adds comes on top, and is deeper.
Tops(path, s, t) ==
  /\ s \in Seq(Paths) /\ t \in Seq(Paths) /\ Len(s) <= Len(t)
  /\ \A i \in 1..Len(s) : t[i] = s[i]
  /\ \A i \in (Len(s) + 1)..Len(t) : Len(path) < Len(t[i])

LEMMA LayersExtend ==
  ASSUME NEW root \in Paths, NEW top \in Paths, NEW path \in Paths, root # <<>>,
         Len(root) - 1 <= Len(top), IsPrefix(top, path)
  PROVE  Tops(top, LayersTo(root, top), LayersTo(root, path))
<1> DEFINE N == Len(path) - Len(top)
           Part(m) == SubSeq(path, 1, Len(top) + m)
           s == LayersTo(root, top)
           S == {m \in 0..N : Tops(top, s, LayersTo(root, Part(m)))}
<1>1. /\ Len(path) \in Nat /\ Len(top) \in Nat /\ N \in Nat /\ Len(root) \in Nat \ {0}
      /\ top = SubSeq(path, 1, Len(top))
  BY Length, PrefixIs, PrefixIsPart, ParentIs
<1>2. \A m \in 0..N : Part(m) \in Paths /\ Len(Part(m)) = Len(top) + m
  <2> TAKE m \in 0..N
  <2>1. Len(top) + m \in 0..Len(path)
    BY <1>1
  <2> QED BY <2>1, UpperPart
<1>3. \A m \in 1..N : Front(Part(m)) = Part(m - 1)
  <2> TAKE m \in 1..N
  <2>1. Len(top) + m \in 1..Len(path) /\ Len(top) + m - 1 = Len(top) + (m - 1)
    BY <1>1
  <2> QED BY <2>1, PartsOfPart
<1>4. Part(N) = path /\ Part(0) = top
  <2>1. Len(top) + N = Len(path) /\ Len(top) + 0 = Len(top)
    BY <1>1
  <2> QED BY <1>1, <2>1, SubSeqFull DEF Paths
<1> HIDE DEF Part
<1>5. s \in Seq(Paths) /\ Len(s) \in Nat
  BY LayersFit, LenProperties DEF Fits
<1> HIDE DEF s
<1>6. 0 \in S
  <2>1. LayersTo(root, Part(0)) = s
    BY <1>4 DEF s
  <2>2. Tops(top, s, s)
    BY <1>5 DEF Tops
  <2> QED BY <1>1, <2>1, <2>2
<1>7. ASSUME NEW m \in 1..N, m - 1 \in S PROVE m \in S
  <2>1. m \in 0..N /\ m - 1 \in 0..N
    BY <1>1
  <2>2. Part(m) \in Paths /\ Len(Part(m)) = Len(top) + m /\ Front(Part(m)) = Part(m - 1)
    BY <1>2, <1>3, <2>1
  <2>3. Len(root) - 1 <= Len(Part(m)) /\ Len(Part(m)) # Len(root) - 1 /\ Len(top) < Len(Part(m))
    BY <1>1, <2>1, <2>2
  <2> DEFINE t == LayersTo(root, Part(m - 1))
  <2>4. LayersTo(root, Part(m)) = IF Part(m) \in Holding THEN Append(t, Part(m)) ELSE t
    BY <2>2, <2>3, LayersStep
  <2>5. /\ t \in Seq(Paths) /\ Len(t) \in Nat /\ Len(s) <= Len(t)
        /\ \A i \in 1..Len(s) : t[i] = s[i]
        /\ \A i \in (Len(s) + 1)..Len(t) : Len(top) < Len(t[i])
    BY <1>7, LenProperties DEF Tops
  <2> HIDE DEF t
  <2>6. CASE Part(m) \in Holding
    <3> DEFINE u == Append(t, Part(m))
    <3>1. /\ u \in Seq(Paths) /\ Len(u) = Len(t) + 1
          /\ \A i \in 1..Len(t) : u[i] = t[i]
          /\ u[Len(t) + 1] = Part(m)
      BY <2>2, <2>5, AppendProperties
    <3> HIDE DEF u
    <3>2. \A i \in 1..Len(s) : u[i] = s[i]
      BY <1>5, <2>5, <3>1
    <3>3. \A i \in (Len(s) + 1)..Len(u) : Len(top) < Len(u[i])
      <4> TAKE i \in (Len(s) + 1)..Len(u)
      <4>1. (i \in (Len(s) + 1)..Len(t) /\ i \in 1..Len(t)) \/ i = Len(t) + 1
        BY <1>5, <2>5, <3>1
      <4> QED BY <2>3, <2>5, <3>1, <4>1
    <3>4. Tops(top, s, u)
      BY <1>5, <2>5, <3>1, <3>2, <3>3 DEF Tops
    <3> QED BY <2>1, <2>4, <2>6, <3>4 DEF u
  <2>7. CASE Part(m) \notin Holding
    <3>1. Tops(top, s, t)
      BY <1>5, <2>5 DEF Tops
    <3> QED BY <2>1, <2>4, <2>7, <3>1
  <2> QED BY <2>6, <2>7
<1> HIDE DEF S
<1>8. N \in S
  <2>1. \A m \in 0..N : m \in S
    BY <1>1, <1>6, <1>7, UpTo
  <2> QED BY <1>1, <2>1
<1> QED BY <1>4, <1>8 DEF S, s

\* Popping down to the depth of an entry leaves the layers above it.
LEMMA KeptFits ==
  ASSUME NEW root \in Paths, root = roots[ri], root # <<>>,
         NEW path \in Paths, Len(root) - 1 <= Len(path),
         layers = LayersTo(root, path),
         depths = [i \in DOMAIN layers |-> Len(layers[i]) - Len(root)],
         Entry \in Paths, Entry # <<>>, Len(root) <= Len(Entry), IsPrefix(Front(Entry), path)
  PROVE  /\ SubSeq(layers, 1, Kept) = LayersTo(root, Front(Entry))
         /\ Kept = Len(LayersTo(root, Front(Entry))) /\ Kept \in 0..Len(layers)
<1> DEFINE s == LayersTo(root, Front(Entry))
<1>1. /\ Front(Entry) \in Paths /\ Len(Front(Entry)) = Len(Entry) - 1
      /\ Len(Entry) \in Nat \ {0} /\ Len(root) \in Nat \ {0} /\ Len(root) - 1 <= Len(Front(Entry))
  BY ParentIs
<1>2. Fits(root, Front(Entry), s)
  BY <1>1, LayersFit
<1>3. Tops(Front(Entry), s, layers)
  BY <1>1, LayersExtend
<1> HIDE DEF s
<1>4. /\ s \in Seq(Paths) /\ layers \in Seq(Paths) /\ Len(s) \in Nat /\ Len(layers) \in Nat
      /\ Len(s) <= Len(layers) /\ DOMAIN layers = 1..Len(layers)
      /\ \A i \in 1..Len(layers) : layers[i] \in Paths /\ Len(layers[i]) \in Nat
  BY <1>3, LenProperties, ElementOfSeq, Length DEF Tops
<1>5. \A i \in 1..Len(layers) : depths[i] < Depth <=> i <= Len(s)
  <2> TAKE i \in 1..Len(layers)
  <2> DEFINE n == Len(layers[i])
             f == Len(Front(Entry))
             e == Len(Entry)
             z == Len(root)
  <2>1. depths[i] = n - z /\ Depth = e - z
    BY <1>4 DEF Depth
  <2>2. n \in Nat /\ f \in Nat /\ e \in Nat /\ z \in Nat /\ f = e - 1
    BY <1>1, <1>4
  <2> HIDE DEF n, f, e, z
  <2>3. depths[i] < Depth <=> n <= f
    <3>1. ASSUME NEW x \in Int, NEW y \in Int, x = n - z, y = e - z PROVE x < y <=> n <= f
      BY <2>2, <3>1
    <3>2. n - z \in Int /\ e - z \in Int
      BY <2>2
    <3> QED BY <2>1, <3>1, <3>2
  <2>4. CASE i <= Len(s)
    <3>1. i \in 1..Len(s)
      BY <1>4, <2>4
    <3>2. n <= f
      BY <1>2, <1>3, <3>1 DEF Fits, Tops, n, f
    <3> QED BY <2>3, <2>4, <3>2
  <2>5. CASE ~ (i <= Len(s))
    <3>1. i \in (Len(s) + 1)..Len(layers)
      BY <1>4, <2>5
    <3>2. f < n
      BY <1>3, <3>1 DEF Tops, n, f
    <3>3. ~ (n <= f)
      BY <2>2, <3>2
    <3> QED BY <2>3, <2>5, <3>3
  <2> QED BY <2>4, <2>5
<1> DEFINE Lower(i) == depths[i] < Depth
           K == {0} \cup {i \in DOMAIN depths : Lower(i)}
<1>6. K = 0..Len(s)
  <2>1. DOMAIN depths = 1..Len(layers)
    BY <1>4
  <2>2. \A i \in 1..Len(layers) : Lower(i) <=> i <= Len(s)
    BY <1>5
  <2> HIDE DEF Lower
  <2>3. \A i \in 0..Len(s) : i # 0 => i \in 1..Len(layers) /\ i <= Len(s)
    BY <1>4
  <2>4. \A i \in 1..Len(layers) : i <= Len(s) => i \in 0..Len(s)
    BY <1>4
  <2>5. 0 \in 0..Len(s)
    BY <1>4
  <2>6. \A i \in K : i \in 0..Len(s)
    BY <2>1, <2>2, <2>4, <2>5
  <2>7. \A i \in 0..Len(s) : i \in K
    BY <2>1, <2>2, <2>3
  <2> QED BY <2>6, <2>7
<1>7. Max(0..Len(s)) = Len(s)
  <2>1. Max(0..Len(s)) \in 0..Len(s) /\ \A x \in 0..Len(s) : x <= Max(0..Len(s))
    <3>1. 0 \in 0..Len(s) /\ 0..Len(s) \in SUBSET (0..Len(s))
      BY <1>4
    <3> QED BY <1>4, <3>1, GreatestIs
  <2>2. Len(s) \in 0..Len(s)
    BY <1>4
  <2> QED BY <1>4, <2>1, <2>2
<1>8. Kept = Len(s)
  BY <1>6, <1>7 DEF Kept
<1>9. SubSeq(layers, 1, Len(s)) = s
  <2>1. /\ SubSeq(layers, 1, Len(s)) \in Seq(Paths) /\ Len(SubSeq(layers, 1, Len(s))) = Len(s)
        /\ \A i \in 1..Len(s) : SubSeq(layers, 1, Len(s))[i] = layers[i]
    BY <1>4, SubSeqProperties
  <2>2. \A i \in 1..Len(s) : layers[i] = s[i]
    BY <1>3 DEF Tops
  <2> QED BY <1>4, <2>1, <2>2, SeqEqual
<1> QED BY <1>4, <1>8, <1>9 DEF s

-----------------------------------------------------------------------------
(* What a stack of layers makes of a path.                                  *)

\* Nothing on the stack, nor under it, has an opinion of the path.
Passes(root, dirs, path) ==
  /\ Against(book.defaults, root, path) = "None"
  /\ \A i \in DOMAIN dirs : Against(book.layer[dirs[i]], dirs[i], path) = "None"

Verdict == {"Ignored", "Cataloged", "None"}

LEMMA AgainstTyped ==
  ASSUME NEW rules, NEW base, NEW path
  PROVE  Against(rules, base, path) \in Verdict
BY DEF Against, Verdict

LEMMA StackIndexed ==
  ASSUME NEW root, NEW dirs \in Seq(Paths), NEW path
  PROVE  /\ StackClassify(root, dirs, path) \in Class
         /\ StackClassify(root, dirs, path) = "Indexed" <=> Passes(root, dirs, path)
<1> DEFINE a == Against(book.defaults, root, path)
           B(i) == Against(book.layer[dirs[i]], dirs[i], path)
           n == Len(dirs)
           t == [i \in DOMAIN dirs |-> B(i)]
           v == <<a>> \o t
           hits == {i \in DOMAIN v : v[i] # "None"}
<1>1. StackClassify(root, dirs, path) = IF hits = {} THEN "Indexed" ELSE v[Max(hits)]
  BY DEF StackClassify
<1>2. a \in Verdict /\ \A i \in 1..n : B(i) \in Verdict
  BY AgainstTyped
<1>3. Passes(root, dirs, path) <=> a = "None" /\ \A i \in DOMAIN dirs : B(i) = "None"
  BY DEF Passes
<1>4. n \in Nat /\ DOMAIN dirs = 1..n
  BY LenProperties
<1> HIDE DEF a, B, n
<1>5. t \in Seq(Verdict) /\ Len(t) = n /\ \A i \in 1..n : t[i] = B(i)
  <2>1. t \in [1..n -> Verdict]
    BY <1>2, <1>4
  <2>2. t \in Seq(Verdict)
    BY <1>4, <2>1, SeqDef
  <2>3. DOMAIN t = 1..n
    BY <2>1
  <2> QED BY <1>4, <2>2, <2>3, LenProperties
<1> HIDE DEF t
<1>6. /\ v \in Seq(Verdict) /\ DOMAIN v = 1..(n + 1)
      /\ v[1] = a /\ \A i \in 1..n : v[i + 1] = B(i)
  <2> DEFINE u == <<a>>
  <2>1. u \in Seq(Verdict) /\ Len(u) = 1 /\ u[1] = a
    BY <1>2
  <2> HIDE DEF u
  <2>2. /\ u \o t \in Seq(Verdict) /\ Len(u \o t) = Len(u) + Len(t)
        /\ \A i \in 1..(Len(u) + Len(t)) : (u \o t)[i] = IF i <= Len(u) THEN u[i] ELSE t[i - Len(u)]
    BY <1>5, <2>1, ConcatProperties
  <2>3. DOMAIN (u \o t) = 1..(n + 1)
    BY <1>4, <1>5, <2>1, <2>2, LenProperties
  <2>4. (u \o t)[1] = a
    BY <1>4, <1>5, <2>1, <2>2
  <2>5. \A i \in 1..n : (u \o t)[i + 1] = B(i)
    <3> TAKE i \in 1..n
    <3>1. i + 1 \in 1..(Len(u) + Len(t)) /\ ~ (i + 1 <= Len(u)) /\ (i + 1) - Len(u) = i
      BY <1>4, <1>5, <2>1
    <3> QED BY <1>5, <2>2, <3>1
  <2> QED BY <2>2, <2>3, <2>4, <2>5 DEF u
<1> HIDE DEF v
<1>7. hits = {} <=> a = "None" /\ \A i \in 1..n : B(i) = "None"
  <2>1. ASSUME hits = {} PROVE a = "None" /\ \A i \in 1..n : B(i) = "None"
    <3>1. \A i \in 1..(n + 1) : v[i] = "None"
      BY <1>6, <2>1
    <3>2. 1 \in 1..(n + 1) /\ \A i \in 1..n : i + 1 \in 1..(n + 1)
      BY <1>4
    <3> QED BY <1>6, <3>1, <3>2
  <2>2. ASSUME a = "None", \A i \in 1..n : B(i) = "None" PROVE hits = {}
    <3>1. ASSUME NEW i \in 1..(n + 1) PROVE v[i] = "None"
      <4>1. i = 1 \/ (i - 1 \in 1..n /\ (i - 1) + 1 = i)
        BY <1>4
      <4> QED BY <1>6, <2>2, <4>1
    <3> QED BY <1>6, <3>1
  <2> QED BY <2>1, <2>2
<1>8. hits # {} => v[Max(hits)] \in {"Ignored", "Cataloged"}
  <2>1. hits \in SUBSET (0..(n + 1)) /\ n + 1 \in Nat
    BY <1>4, <1>6
  <2>2. hits # {} => Max(hits) \in hits
    BY <2>1, GreatestIs
  <2>3. \A i \in hits : v[i] \in Verdict /\ v[i] # "None"
    BY <1>4, <1>6, ElementOfSeq, LenProperties
  <2> QED BY <2>2, <2>3 DEF Verdict
<1> HIDE DEF hits
<1> QED BY <1>1, <1>3, <1>4, <1>7, <1>8 DEF Class

LEMMA UserTyped == \A path : UserClassify(path) \in Class
BY AgainstTyped DEF UserClassify, Class, Verdict

LEMMA MostRestrictiveIs ==
  ASSUME NEW classes \in SUBSET Class
  PROVE  MostRestrictive(classes) = "Indexed" <=> \A c \in classes : c = "Indexed"
BY DEF MostRestrictive, Class

\* With fewer layers, not more is excluded.
LEMMA PassesBelow ==
  ASSUME NEW root \in Paths, root # <<>>, NEW top \in Paths, NEW path \in Paths, NEW p,
         Len(root) - 1 <= Len(top), IsPrefix(top, path),
         Passes(root, LayersTo(root, path), p)
  PROVE  Passes(root, LayersTo(root, top), p)
<1>1. Tops(top, LayersTo(root, top), LayersTo(root, path))
  BY LayersExtend
<1> DEFINE s == LayersTo(root, top)
           t == LayersTo(root, path)
<1> HIDE DEF s, t
<1>2. /\ DOMAIN s = 1..Len(s) /\ DOMAIN t = 1..Len(t) /\ Len(s) \in Nat /\ Len(t) \in Nat
      /\ Len(s) <= Len(t) /\ \A i \in 1..Len(s) : t[i] = s[i]
  BY <1>1, LenProperties DEF Tops, s, t
<1>3. \A i \in DOMAIN s : i \in DOMAIN t /\ t[i] = s[i]
  BY <1>2
<1>4. Passes(root, s, p)
  BY <1>3 DEF Passes, t
<1> QED BY <1>4 DEF s

LEMMA AdmittedIs ==
  ASSUME NEW root \in Paths, root # <<>>, NEW p \in Paths, p # <<>>, Len(root) <= Len(p)
  PROVE  /\ ParentOrSelf(p) \in Paths /\ Len(root) - 1 <= Len(ParentOrSelf(p))
         /\ Admitted(root, p) <=> /\ UserClassify(p) = "Indexed"
                                  /\ Passes(root, LayersTo(root, ParentOrSelf(p)), p)
<1>1. ParentOrSelf(p) \in Paths /\ Len(root) - 1 <= Len(ParentOrSelf(p))
  BY ParentIs, Length DEF ParentOrSelf
<1>2. LayersTo(root, ParentOrSelf(p)) \in Seq(Paths)
  BY <1>1, LayersFit DEF Fits
<1> QED BY <1>1, <1>2, StackIndexed DEF Admitted, LayersTo

\* What the watcher indexes is not excluded on the way down either.
LEMMA ClassifyPathIs ==
  ASSUME NEW root \in Paths, root # <<>>, NEW f \in File, IsPrefix(root, f), root # f,
         ClassifyPath(root, f) = "Indexed"
  PROVE  Wanted(root, f)
<1>1. /\ f \in Paths /\ f # <<>> /\ Front(f) \in Paths /\ Len(f) \in Nat \ {0} /\ f \notin Dir
      /\ Len(Front(f)) = Len(f) - 1 /\ IsPrefix(root, Front(f)) /\ ParentOrSelf(f) = Front(f)
      /\ \A q \in Paths : IsPrefix(q, f) /\ q # f => IsPrefix(q, Front(f))
  <2>1. f \in Node /\ f \notin Dir
    BY TreeAssumption DEF Node
  <2>2. f \in Paths /\ f # <<>>
    BY <2>1, NodeTyped, EmptySeq
  <2> QED BY <2>1, <2>2, ParentIs DEF IsStrictPrefix, ParentOrSelf
<1> DEFINE dirs == LayersTo(root, Front(f))
           chain == {f} \cup Range(Chain(root, Front(f)))
<1>2. Len(root) \in Nat \ {0} /\ Len(root) <= Len(Front(f)) /\ Len(root) <= Len(f)
  BY <1>1, ParentIs, PrefixIs
<1>3. dirs \in Seq(Paths)
  BY <1>1, <1>2, LayersFit DEF Fits
<1>4. ClassifyPath(root, f) = MostRestrictive({UserClassify(p) : p \in chain}
                                               \cup {StackClassify(root, dirs, p) : p \in chain})
  BY <1>1 DEF ClassifyPath, LayersTo
<1> HIDE DEF dirs, chain
<1>5. \A p \in chain : UserClassify(p) = "Indexed" /\ StackClassify(root, dirs, p) = "Indexed"
  <2> DEFINE all == {UserClassify(p) : p \in chain} \cup {StackClassify(root, dirs, p) : p \in chain}
  <2>1. all \in SUBSET Class
    BY <1>3, UserTyped, StackIndexed
  <2>2. \A p \in chain : UserClassify(p) \in all /\ StackClassify(root, dirs, p) \in all
    OBVIOUS
  <2>3. MostRestrictive(all) = "Indexed"
    BY <1>4
  <2> HIDE DEF all
  <2> QED BY <2>1, <2>2, <2>3, MostRestrictiveIs
<1>6. ASSUME NEW p \in Range(Chain(root, f)) PROVE Admitted(root, p)
  <2>1. p \in Paths /\ IsPrefix(root, p) /\ IsPrefix(p, f)
    BY <1>1, OnChain
  <2>2. p \in chain
    <3>1. CASE p = f
      BY <3>1 DEF chain
    <3>2. CASE p # f
      <4>1. IsPrefix(p, Front(f))
        BY <1>1, <2>1, <3>2
      <4> QED BY <1>1, <2>1, <4>1, OnChain DEF chain
    <3> QED BY <3>1, <3>2
  <2>3. UserClassify(p) = "Indexed" /\ Passes(root, dirs, p)
    BY <1>3, <1>5, <2>2, StackIndexed
  <2>4. Len(root) <= Len(p) /\ p # <<>>
    BY <1>2, <2>1, PrefixIs, EmptySeq
  <2>5. IsPrefix(ParentOrSelf(p), Front(f))
    <3>1. CASE p = f
      BY <1>1, <3>1, PrefixFacts
    <3>2. CASE p # f
      <4>1. IsPrefix(p, Front(f)) /\ Front(p) \in Paths /\ IsPrefix(Front(p), p)
        BY <1>1, <2>1, <2>4, <3>2, ParentIs DEF IsStrictPrefix
      <4> QED BY <1>1, <2>1, <4>1, PrefixFacts DEF ParentOrSelf
    <3> QED BY <3>1, <3>2
  <2>6. Passes(root, LayersTo(root, ParentOrSelf(p)), p)
    BY <1>1, <2>1, <2>3, <2>4, <2>5, AdmittedIs, PassesBelow DEF dirs
  <2> QED BY <2>1, <2>3, <2>4, <2>6, AdmittedIs
<1> QED BY <1>6 DEF Wanted

\* All this depends on the rules, which do not change during a walk.
LEMMA SameRules ==
  ASSUME book' = book, NEW root, NEW path
  PROVE  /\ LayersTo(root, path)' = LayersTo(root, path)
         /\ Admitted(root, path)' = Admitted(root, path)
         /\ Wanted(root, path)' = Wanted(root, path)
<1>1. ASSUME NEW dirs PROVE WithRules(dirs)' = WithRules(dirs)
  BY DEF WithRules
<1>2. ASSUME NEW dirs, NEW p PROVE StackClassify(root, dirs, p)' = StackClassify(root, dirs, p)
  BY DEF StackClassify
<1>3. ASSUME NEW p PROVE UserClassify(p)' = UserClassify(p)
  BY DEF UserClassify
<1>4. LayersTo(root, path)' = LayersTo(root, path)
  BY <1>1 DEF LayersTo
<1>5. ASSUME NEW p PROVE Admitted(root, p)' = Admitted(root, p)
  BY <1>1, <1>2, <1>3 DEF Admitted
<1>6. Wanted(root, path)' = Wanted(root, path)
  BY <1>5 DEF Wanted
<1> QED BY <1>4, <1>5, <1>6

-----------------------------------------------------------------------------
(* Where a walk is.                                                         *)

Root == roots[ri]

\* What is left is a stretch of the order, all below the root, and nothing
\* that is below it comes later.
Ordered(k, b) ==
  /\ k \in 1..(b + 1) /\ b \in 0..Len(WalkOrder) /\ todo = SubSeq(WalkOrder, k, b)
  /\ \A i \in k..b : IsPrefix(Root, WalkOrder[i])
  /\ \A i \in DOMAIN WalkOrder : IsPrefix(Root, WalkOrder[i]) => i <= b

LEMMA OrderTyped ==
  /\ WalkOrder \in Seq(Node) /\ Len(WalkOrder) \in Nat /\ DOMAIN WalkOrder = 1..Len(WalkOrder)
  /\ \A i \in 1..Len(WalkOrder) : WalkOrder[i] \in Node /\ WalkOrder[i] \in Paths
BY TreeAssumption, LenProperties, ElementOfSeq, NodeTyped

LEMMA Stretch ==
  ASSUME NEW b \in 0..Len(WalkOrder), NEW k \in 1..(b + 1)
  PROVE  /\ SubSeq(WalkOrder, k, b) \in Seq(Node)
         /\ SubSeq(WalkOrder, k, b) = <<>> <=> ~ (k <= b)
         /\ \A n : n \in Range(SubSeq(WalkOrder, k, b)) <=> \E i \in k..b : n = WalkOrder[i]
         /\ k <= b => /\ Head(SubSeq(WalkOrder, k, b)) = WalkOrder[k]
                      /\ Tail(SubSeq(WalkOrder, k, b)) = SubSeq(WalkOrder, k + 1, b)
<1> DEFINE s == SubSeq(WalkOrder, k, b)
           m == b - k + 1
<1>1. /\ k \in Nat \ {0} /\ b \in Nat /\ m \in Nat
      /\ \A i \in k..b : i \in 1..Len(WalkOrder) /\ WalkOrder[i] \in Node
  BY OrderTyped
<1>2. s \in Seq(Node) /\ Len(s) = m /\ \A i \in 1..m : s[i] = WalkOrder[k + i - 1]
  BY <1>1, SubSeqProperties
<1>3. \A i \in (k + 1)..b : i \in 1..Len(WalkOrder) /\ WalkOrder[i] \in Node
  BY <1>1
<1> DEFINE r == SubSeq(WalkOrder, k + 1, b)
<1>4. /\ r \in Seq(Node) /\ Len(r) = IF k + 1 <= b THEN b - (k + 1) + 1 ELSE 0
      /\ \A i \in 1..(b - (k + 1) + 1) : r[i] = WalkOrder[(k + 1) + i - 1]
  BY <1>1, <1>3, SubSeqProperties
<1> HIDE DEF s, r
<1>5. s = <<>> <=> ~ (k <= b)
  <2>1. m = 0 <=> ~ (k <= b)
    BY <1>1
  <2>2. s = <<>> <=> Len(s) = 0
    BY <1>2, EmptySeq
  <2> QED BY <1>2, <2>1, <2>2
<1>6. \A n : n \in Range(s) <=> \E i \in k..b : n = WalkOrder[i]
  <2> TAKE n
  <2>1. DOMAIN s = 1..m
    BY <1>2, LenProperties
  <2>2. ASSUME NEW i \in 1..m PROVE k + i - 1 \in k..b /\ s[i] = WalkOrder[k + i - 1]
    BY <1>1, <1>2
  <2>3. ASSUME NEW i \in k..b PROVE i - k + 1 \in 1..m /\ s[i - k + 1] = WalkOrder[i]
    <3>1. i - k + 1 \in 1..m /\ k + (i - k + 1) - 1 = i
      BY <1>1
    <3> QED BY <1>2, <3>1
  <2>4. n \in Range(s) <=> \E i \in 1..m : n = s[i]
    BY <2>1 DEF Range
  <2>5. ASSUME NEW i \in 1..m, n = s[i] PROVE \E j \in k..b : n = WalkOrder[j]
    BY <2>2, <2>5
  <2>6. ASSUME NEW j \in k..b, n = WalkOrder[j] PROVE \E i \in 1..m : n = s[i]
    BY <2>3, <2>6
  <2> QED BY <2>4, <2>5, <2>6
<1>7. ASSUME k <= b PROVE Head(s) = WalkOrder[k] /\ Tail(s) = r
  <2>1. s # <<>> /\ 1 \in 1..m /\ k + 1 - 1 = k
    BY <1>1, <1>5, <1>7
  <2>2. Head(s) = s[1]
    BY <1>2, <2>1
  <2>3. Tail(s) \in Seq(Node) /\ Len(Tail(s)) = m - 1 /\ \A i \in 1..(m - 1) : Tail(s)[i] = s[i + 1]
    BY <1>2, <2>1, HeadTailProperties
  <2>4. Len(r) = m - 1
    BY <1>1, <1>4, <1>7
  <2>5. ASSUME NEW i \in 1..(m - 1) PROVE Tail(s)[i] = r[i]
    <3>1. i + 1 \in 1..m /\ i \in 1..(b - (k + 1) + 1) /\ k + (i + 1) - 1 = (k + 1) + i - 1
      BY <1>1
    <3> QED BY <1>2, <1>4, <2>3, <3>1
  <2>6. Tail(s) = r
    BY <1>4, <2>3, <2>4, <2>5, SeqEqual
  <2> QED BY <1>2, <2>1, <2>2, <2>6
<1> QED BY <1>2, <1>5, <1>6, <1>7 DEF s, r

\* Below takes all of a root's part of the order and starts at the root.
LEMMA BelowIs ==
  ASSUME NEW root \in Dir
  PROVE  \E b \in 0..Len(WalkOrder) : \E k \in 1..(b + 1) :
           /\ Below(root) = SubSeq(WalkOrder, k, b)
           /\ \A i \in k..b : IsPrefix(root, WalkOrder[i])
           /\ \A i \in DOMAIN WalkOrder : IsPrefix(root, WalkOrder[i]) => i \in k..b
<1> DEFINE at == {i \in DOMAIN WalkOrder : IsPrefix(root, WalkOrder[i])}
           k == Min(at)
           b == Max(at)
<1>1. root \in Node /\ root \in Paths
  BY NodeTyped
<1>2. PICK r \in 1..Len(WalkOrder) : WalkOrder[r] = root
  BY <1>1, OrderTyped, TreeAssumption
<1>3. r \in at
  BY <1>1, <1>2, OrderTyped, PrefixFacts
<1>4. at \in SUBSET (0..Len(WalkOrder)) /\ at # {} /\ at \in SUBSET (1..Len(WalkOrder))
  BY <1>3, OrderTyped
<1>5. /\ k \in at /\ \A x \in at : k <= x
      /\ b \in at /\ \A x \in at : x <= b
  <2> HIDE DEF at
  <2> QED BY <1>4, OrderTyped, LeastIs, GreatestIs
<1>6. Below(root) = SubSeq(WalkOrder, k, b)
  BY DEF Below
<1>7. \A x \in at : x \in 1..Len(WalkOrder)
  BY <1>4
<1>8. \A i : i \in at <=> i \in 1..Len(WalkOrder) /\ IsPrefix(root, WalkOrder[i])
  BY OrderTyped
<1> HIDE DEF at, k, b
<1>9. k \in 1..(b + 1) /\ b \in 0..Len(WalkOrder)
  BY <1>5, <1>7, OrderTyped
<1>10. ASSUME NEW i \in 1..Len(WalkOrder), IsPrefix(root, WalkOrder[i]) PROVE i \in k..b
  BY <1>5, <1>7, <1>8, <1>10, OrderTyped
<1>11. WalkOrder[k] = root
  <2>1. k \in 1..Len(WalkOrder) /\ IsPrefix(root, WalkOrder[k]) /\ k <= r
    BY <1>3, <1>5, <1>7, <1>8
  <2>2. ASSUME WalkOrder[k] # root PROVE FALSE
    <3>1. IsStrictPrefix(WalkOrder[r], WalkOrder[k])
      BY <1>2, <2>1, <2>2 DEF IsStrictPrefix
    <3>2. r < k
      BY <2>1, <3>1, OrderTyped, TreeAssumption
    <3> QED BY <2>1, <3>2
  <2> QED BY <2>2
<1>12. ASSUME NEW i \in k..b PROVE IsPrefix(root, WalkOrder[i])
  <2>1. k \in at /\ b \in at /\ k \in 1..Len(WalkOrder) /\ b \in 1..Len(WalkOrder)
    BY <1>5, <1>7
  <2>2. i \in 1..Len(WalkOrder) /\ (i = k \/ i = b \/ (k < i /\ i < b))
    BY <2>1
  <2>3. CASE k < i /\ i < b
    <3>1. IsPrefix(WalkOrder[k], WalkOrder[b])
      BY <1>8, <1>11, <2>1
    <3>2. IsPrefix(WalkOrder[k], WalkOrder[i])
      BY <2>1, <2>2, <2>3, <3>1, OrderTyped, TreeAssumption
    <3> QED BY <1>11, <3>2
  <2> QED BY <1>8, <2>1, <2>2, <2>3
<1> QED BY <1>6, <1>9, <1>10, <1>12, OrderTyped

LEMMA RootTyped ==
  ASSUME roots \in RootLists, NEW i \in 1..Len(roots)
  PROVE  /\ roots[i] \in Dir /\ roots[i] \in Node /\ roots[i] \in Paths /\ roots[i] # <<>>
         /\ Len(roots[i]) \in Nat \ {0}
         /\ Front(roots[i]) \in Paths /\ Len(Front(roots[i])) = Len(roots[i]) - 1
         /\ IsStrictPrefix(Front(roots[i]), roots[i])
<1>1. roots \in Seq(Dir)
  BY TreeAssumption
<1>2. roots[i] \in Dir
  BY <1>1, ElementOfSeq
<1>3. roots[i] \in Node /\ roots[i] \in Paths /\ roots[i] # <<>>
  BY <1>2, NodeTyped, EmptySeq
<1> QED BY <1>2, <1>3, ParentIs

\* The walk is in a root, and in order.
Walking(k, b) == roots \in RootLists /\ ri \in 1..Len(roots) /\ Ordered(k, b)

LEMMA EntryIs ==
  ASSUME NEW b \in 0..Len(WalkOrder), NEW k \in 1..(b + 1), Walking(k, b)
  PROVE  /\ todo \in Seq(Node)
         /\ \A n : n \in Range(todo) <=> \E i \in k..b : n = WalkOrder[i]
         /\ todo # <<>> =>
              /\ k \in 1..Len(WalkOrder) /\ k \in k..b /\ Entry = WalkOrder[k]
              /\ Entry \in Node /\ Entry \in Paths /\ Entry # <<>>
              /\ IsPrefix(Root, Entry) /\ Len(Root) <= Len(Entry)
              /\ Tail(todo) = SubSeq(WalkOrder, k + 1, b) /\ k + 1 \in 1..(b + 1)
              /\ Entry \in Range(todo)
              /\ \A n : n \in Range(todo) <=> n = Entry \/ n \in Range(Tail(todo))
<1>1. todo = SubSeq(WalkOrder, k, b) /\ k \in Nat \ {0} /\ b \in Nat
  BY OrderTyped DEF Walking, Ordered
<1>2. /\ todo \in Seq(Node) /\ (todo = <<>> <=> ~ (k <= b))
      /\ \A n : n \in Range(todo) <=> \E i \in k..b : n = WalkOrder[i]
      /\ k <= b => /\ Entry = WalkOrder[k]
                   /\ Tail(todo) = SubSeq(WalkOrder, k + 1, b)
  BY <1>1, Stretch DEF Entry
<1>3. ASSUME todo # <<>>
      PROVE  /\ k \in 1..Len(WalkOrder) /\ k \in k..b /\ Entry = WalkOrder[k]
             /\ Entry \in Node /\ Entry \in Paths /\ Entry # <<>>
             /\ IsPrefix(Root, Entry) /\ Len(Root) <= Len(Entry)
             /\ Tail(todo) = SubSeq(WalkOrder, k + 1, b) /\ k + 1 \in 1..(b + 1)
             /\ Entry \in Range(todo)
             /\ \A n : n \in Range(todo) <=> n = Entry \/ n \in Range(Tail(todo))
  <2>1. k <= b
    BY <1>2, <1>3
  <2>2. k \in 1..Len(WalkOrder) /\ k \in k..b /\ k + 1 \in 1..(b + 1)
    BY <1>1, <2>1, OrderTyped
  <2>3. Entry \in Node /\ Entry \in Paths /\ Entry # <<>>
    BY <1>2, <2>1, <2>2, OrderTyped, NodeTyped, EmptySeq
  <2>4. IsPrefix(Root, Entry)
    BY <1>2, <2>1, <2>2 DEF Walking, Ordered
  <2>5. Root \in Paths
    BY RootTyped DEF Walking, Root
  <2>6. Len(Root) <= Len(Entry)
    BY <2>3, <2>4, <2>5, PrefixIs
  <2>7. \A n : n \in Range(Tail(todo)) <=> \E i \in (k + 1)..b : n = WalkOrder[i]
    BY <1>2, <2>1, <2>2, Stretch
  <2>8. \A i : i \in k..b <=> i = k \/ i \in (k + 1)..b
    BY <1>1, <2>1
  <2>9. \A n : n \in Range(todo) <=> n = Entry \/ n \in Range(Tail(todo))
    <3> TAKE n
    <3>1. ASSUME NEW i \in k..b, n = WalkOrder[i] PROVE n = Entry \/ n \in Range(Tail(todo))
      BY <1>2, <2>1, <2>7, <2>8, <3>1
    <3>2. ASSUME n = Entry \/ n \in Range(Tail(todo)) PROVE \E i \in k..b : n = WalkOrder[i]
      BY <1>2, <2>1, <2>2, <2>7, <2>8, <3>2
    <3> QED BY <1>2, <3>1, <3>2
  <2>10. Entry \in Range(todo)
    BY <2>9
  <2> QED BY <1>2, <2>1, <2>2, <2>3, <2>4, <2>6, <2>9, <2>10
<1> QED BY <1>2, <1>3

\* A directory that has been passed and still has something below it to come
\* is above the entry.
LEMMA AboveEntry ==
  ASSUME NEW b \in 0..Len(WalkOrder), NEW k \in 1..(b + 1), Walking(k, b),
         NEW d \in Dir, IsPrefix(Root, d), d \notin Range(todo),
         NEW n \in Range(todo), IsStrictPrefix(d, n)
  PROVE  IsStrictPrefix(d, Entry)
<1>1. PICK j \in k..b : n = WalkOrder[j]
  BY EntryIs
<1>2. /\ k \in 1..Len(WalkOrder) /\ j \in 1..Len(WalkOrder) /\ k <= b
      /\ Entry = WalkOrder[k] /\ Entry \in Range(todo)
  <2>1. k <= b /\ b \in Nat /\ k \in Nat
    BY OrderTyped
  <2>2. todo # <<>>
    BY <2>1, Stretch DEF Walking, Ordered
  <2>3. j \in 1..Len(WalkOrder)
    BY OrderTyped
  <2> QED BY <2>1, <2>2, <2>3, EntryIs
<1>3. PICK i \in 1..Len(WalkOrder) : d = WalkOrder[i]
  BY NodeTyped, OrderTyped, TreeAssumption
<1>4. i < j /\ i <= b
  BY <1>1, <1>2, <1>3, OrderTyped, TreeAssumption DEF Walking, Ordered
<1>5. ~ (k <= i)
  <2>1. k <= i => i \in k..b
    BY <1>2, <1>3, <1>4, OrderTyped
  <2> QED BY <1>3, <2>1, EntryIs
<1>6. CASE j = k
  BY <1>1, <1>2, <1>6
<1>7. CASE j # k
  <2>1. i < k /\ k < j
    BY <1>1, <1>2, <1>5, <1>7
  <2>2. IsPrefix(WalkOrder[i], WalkOrder[j])
    BY <1>1, <1>3 DEF IsStrictPrefix
  <2>3. IsPrefix(d, Entry)
    BY <1>2, <1>3, <2>1, <2>2, OrderTyped, TreeAssumption
  <2> QED BY <1>2, <2>3 DEF IsStrictPrefix
<1> QED BY <1>6, <1>7

\* What is above the entry has been passed.
LEMMA Passed ==
  ASSUME NEW b \in 0..Len(WalkOrder), NEW k \in 1..(b + 1), Walking(k, b),
         todo # <<>>, NEW d, IsStrictPrefix(d, Entry)
  PROVE  d \notin Range(todo)
<1>1. k \in 1..Len(WalkOrder) /\ Entry = WalkOrder[k]
  BY EntryIs
<1>2. ASSUME NEW i \in k..b, d = WalkOrder[i] PROVE FALSE
  <2>1. i \in 1..Len(WalkOrder)
    BY OrderTyped
  <2>2. i < k
    BY <1>1, <1>2, <2>1, OrderTyped, TreeAssumption
  <2> QED BY <1>1, <2>1, <2>2
<1> QED BY <1>2, EntryIs

LEMMA OrderStep ==
  ASSUME NEW b \in 0..Len(WalkOrder), NEW k \in 1..(b + 1), Walking(k, b),
         todo # <<>>, todo' = Tail(todo), ri' = ri, roots' = roots
  PROVE  k + 1 \in 1..(b + 1) /\ Walking(k + 1, b)'
<1>1. Tail(todo) = SubSeq(WalkOrder, k + 1, b) /\ k + 1 \in 1..(b + 1)
  BY EntryIs
<1>2. \A i \in (k + 1)..b : i \in k..b
  BY OrderTyped
<1> QED BY <1>1, <1>2 DEF Walking, Ordered, Root

\* The depth of each layer below the root.
DepthsOf(root, s) == [i \in DOMAIN s |-> Len(s[i]) - Len(root)]

\* The first of the roots that are above this one or the same.
First(i) == \A m \in Under(roots[i]) : i <= m

\* On the stack are the layers down to P, the directory visited last, or none
\* at the start; and a directory that has been passed and has something to come
\* is in a skipped subtree, or above P with nothing in the way.
Custody(P) ==
  /\ P \in Paths /\ (P = Front(Root) \/ IsPrefix(Root, P))
  /\ layers = LayersTo(Root, P)
  /\ depths = DepthsOf(Root, layers)
  /\ \A d \in Dir, n \in Range(todo) :
       IsPrefix(Root, d) /\ IsStrictPrefix(d, n) /\ d \notin Range(todo) =>
         \/ \E s \in skip : IsPrefix(s, d)
         \/ IsPrefix(d, P) /\ Wanted(Root, d)

LEMMA FrontIs ==
  ASSUME NEW b \in 0..Len(WalkOrder), NEW k \in 1..(b + 1), Walking(k, b), skip \subseteq Dir,
         NEW P \in Paths, Custody(P), todo # <<>>, ~InSkipped
  PROVE  /\ Front(Entry) \in Paths /\ IsPrefix(Front(Entry), P)
         /\ Len(Root) - 1 <= Len(Front(Entry))
         /\ Entry # Root => /\ Front(Entry) \in Dir /\ IsPrefix(Root, Front(Entry))
                            /\ Wanted(Root, Front(Entry)) /\ Root \notin Range(todo)
<1>1. /\ Entry \in Node /\ Entry \in Paths /\ Entry # <<>> /\ Entry \in Range(todo)
      /\ IsPrefix(Root, Entry) /\ Len(Root) <= Len(Entry)
  BY EntryIs
<1>2. /\ Root \in Dir /\ Root \in Paths /\ Len(Root) \in Nat \ {0} /\ Front(Root) \in Paths
      /\ IsPrefix(Front(Root), Root)
  BY RootTyped DEF Walking, Root, IsStrictPrefix
<1>3. /\ Front(Entry) \in Paths /\ Len(Front(Entry)) = Len(Entry) - 1
      /\ IsStrictPrefix(Front(Entry), Entry) /\ Len(Entry) \in Nat \ {0}
      /\ \A q \in Paths : IsStrictPrefix(q, Entry) => IsPrefix(q, Front(Entry))
  BY <1>1, ParentIs
<1>4. CASE Entry = Root
  <2>1. IsPrefix(Front(Root), P)
    BY <1>2, PrefixFacts DEF Custody
  <2> QED BY <1>1, <1>2, <1>3, <1>4, <2>1
<1>5. CASE Entry # Root
  <2>1. IsStrictPrefix(Root, Entry)
    BY <1>1, <1>5 DEF IsStrictPrefix
  <2>2. Front(Entry) \in Dir /\ IsPrefix(Root, Front(Entry))
    BY <1>1, <1>2, <1>3, <2>1, TreeAssumption
  <2>3. Front(Entry) \notin Range(todo) /\ Root \notin Range(todo)
    BY <1>3, <2>1, Passed
  <2>4. ~ \E s \in skip : IsPrefix(s, Front(Entry))
    <3> SUFFICES ASSUME NEW s \in skip, IsPrefix(s, Front(Entry)) PROVE FALSE
      OBVIOUS
    <3>1. s \in Paths /\ Len(s) \in Nat
      BY NodeTyped, Length
    <3>2. IsPrefix(s, Entry) /\ Len(s) <= Len(Front(Entry))
      BY <1>1, <1>3, <3>1, PrefixFacts, PrefixIs DEF IsStrictPrefix
    <3>3. s # Entry
      BY <1>3, <3>1, <3>2
    <3> QED BY <3>2, <3>3 DEF InSkipped, IsStrictPrefix
  <2>5. IsPrefix(Front(Entry), P) /\ Wanted(Root, Front(Entry))
    BY <1>1, <1>3, <2>2, <2>3, <2>4 DEF Custody
  <2> QED BY <1>1, <1>3, <1>5, <2>2, <2>3, <2>5
<1> QED BY <1>4, <1>5

\* The layers an entry is judged by are those of the directories above it, and
\* its own.
LEMMA StackIs ==
  ASSUME NEW b \in 0..Len(WalkOrder), NEW k \in 1..(b + 1), Walking(k, b), skip \subseteq Dir,
         NEW P \in Paths, Custody(P), todo # <<>>, ~InSkipped
  PROVE  /\ SubSeq(layers, 1, Kept) = LayersTo(Root, Front(Entry))
         /\ Kept \in 0..Len(layers) /\ Kept = Len(LayersTo(Root, Front(Entry)))
         /\ StackNow = LayersTo(Root, ParentOrSelf(Entry))
         /\ ParentOrSelf(Entry) \in Paths
         /\ ParentOrSelf(Entry) = Front(Root) \/ IsPrefix(Root, ParentOrSelf(Entry))
         /\ Entry \in Dir \/ (Entry \in File /\ Entry # Root)
         /\ Classified = "Indexed" <=> Admitted(Root, Entry)
<1>1. /\ Entry \in Node /\ Entry \in Paths /\ Entry # <<>>
      /\ IsPrefix(Root, Entry) /\ Len(Root) <= Len(Entry) /\ Len(Entry) \in Nat
  BY EntryIs, Length
<1>2. Root \in Dir /\ Root \in Paths /\ Root # <<>> /\ Len(Root) \in Nat \ {0} /\ Root = roots[ri]
  BY RootTyped DEF Walking, Root
<1>3. /\ Front(Entry) \in Paths /\ IsPrefix(Front(Entry), P) /\ Len(Root) - 1 <= Len(Front(Entry))
      /\ Entry # Root => IsPrefix(Root, Front(Entry))
  BY FrontIs
<1>4. Len(Root) - 1 <= Len(P)
  <2>1. Len(Front(Root)) = Len(Root) - 1
    BY RootTyped DEF Walking, Root
  <2>2. IsPrefix(Root, P) => Len(Root) <= Len(P)
    BY <1>2, PrefixIs
  <2> QED BY <1>2, <2>1, <2>2, Length DEF Custody
<1>5. /\ SubSeq(layers, 1, Kept) = LayersTo(Root, Front(Entry))
      /\ Kept \in 0..Len(layers) /\ Kept = Len(LayersTo(Root, Front(Entry)))
  <2>1. layers = LayersTo(Root, P) /\ depths = [i \in DOMAIN layers |-> Len(layers[i]) - Len(Root)]
    BY DEF Custody, DepthsOf
  <2> QED BY <1>1, <1>2, <1>3, <1>4, <2>1, KeptFits
<1>6. Entry \in Dir \/ (Entry \in File /\ Entry \notin Dir /\ Entry # Root)
  BY <1>1, <1>2, TreeAssumption DEF Node
<1> DEFINE s == LayersTo(Root, Front(Entry))
<1>7. s \in Seq(Paths) /\ s \o <<>> = s /\ s \o <<Entry>> = Append(s, Entry)
  <2>1. s \in Seq(Paths)
    BY <1>2, <1>3, LayersFit DEF Fits
  <2> HIDE DEF s
  <2> QED BY <1>1, <2>1, ConcatEmptySeq, AppendIsConcat
<1>8. LayersTo(Root, Entry) = IF Entry \in Holding THEN Append(s, Entry) ELSE s
  <2>1. Len(Root) - 1 <= Len(Entry) /\ Len(Entry) # Len(Root) - 1
    BY <1>1, <1>2
  <2> QED BY <1>1, <1>2, <2>1, LayersStep
<1> HIDE DEF s
<1>9. StackNow = LayersTo(Root, ParentOrSelf(Entry))
  <2>1. StackNow = s \o (IF Pushed THEN <<Entry>> ELSE <<>>)
    BY <1>5 DEF StackNow, s
  <2>2. CASE Entry \in Dir
    BY <1>7, <1>8, <2>1, <2>2 DEF Pushed, ParentOrSelf, Holding
  <2>3. CASE Entry \notin Dir
    BY <1>7, <2>1, <2>3 DEF Pushed, ParentOrSelf, s
  <2> QED BY <2>2, <2>3
<1>10. /\ ParentOrSelf(Entry) \in Paths
       /\ ParentOrSelf(Entry) = Front(Root) \/ IsPrefix(Root, ParentOrSelf(Entry))
  BY <1>1, <1>3, <1>6 DEF ParentOrSelf
<1>11. Classified = "Indexed" <=> Admitted(Root, Entry)
  <2>1. ParentOrSelf(Entry) \in Paths /\ Len(Root) - 1 <= Len(ParentOrSelf(Entry))
    BY <1>1, <1>2, AdmittedIs
  <2>2. StackNow \in Seq(Paths)
    BY <1>2, <1>9, <2>1, LayersFit DEF Fits
  <2> DEFINE u == UserClassify(Entry)
             v == StackClassify(Root, StackNow, Entry)
  <2>3. u \in Class /\ v \in Class
    BY <2>2, UserTyped, StackIndexed
  <2>4. Classified = MostRestrictive({u, v})
    BY <1>2 DEF Classified
  <2>5. Admitted(Root, Entry) <=> u = "Indexed" /\ v = "Indexed"
    BY <1>9 DEF Admitted, LayersTo
  <2> HIDE DEF u, v
  <2> QED BY <2>3, <2>4, <2>5, MostRestrictiveIs
<1> QED BY <1>5, <1>6, <1>9, <1>10, <1>11

\* The second stack keeps the depths of the layers.
LEMMA DepthsNow ==
  ASSUME NEW root \in Paths, root # <<>>, NEW s \in Seq(Paths),
         NEW n \in 0..Len(s), NEW e \in Paths, NEW new, new = <<>> \/ new = <<e>>
  PROVE  SubSeq(DepthsOf(root, s), 1, n)
           \o (IF new = <<>> THEN <<>> ELSE <<Len(e) - Len(root)>>)
           = DepthsOf(root, SubSeq(s, 1, n) \o new)
<1> DEFINE d == DepthsOf(root, s)
<1>1. /\ Len(root) \in Nat /\ Len(e) \in Nat /\ Len(s) \in Nat /\ n \in Nat /\ DOMAIN s = 1..Len(s)
      /\ \A i \in 1..n : i \in 1..Len(s) /\ s[i] \in Paths
  BY Length, LenProperties, ElementOfSeq
<1>2. \A i \in 1..n : d[i] \in Int /\ d[i] = Len(s[i]) - Len(root)
  BY <1>1, Length DEF DepthsOf
<1> HIDE DEF d
<1> DEFINE a == SubSeq(s, 1, n)
           c == SubSeq(d, 1, n)
           z == IF new = <<>> THEN <<>> ELSE <<Len(e) - Len(root)>>
<1>3. /\ a \in Seq(Paths) /\ Len(a) = n /\ \A i \in 1..n : a[i] = s[i]
      /\ c \in Seq(Int) /\ Len(c) = n /\ \A i \in 1..n : c[i] = d[i]
  <2>1. (IF 1 <= n THEN n - 1 + 1 ELSE 0) = n /\ n - 1 + 1 = n /\ \A i \in 1..n : 1 + i - 1 = i
    BY <1>1
  <2>2. a \in Seq(Paths) /\ Len(a) = n /\ \A i \in 1..n : a[i] = s[i]
    BY <1>1, <2>1, SubSeqProperties
  <2>3. c \in Seq(Int) /\ Len(c) = n /\ \A i \in 1..n : c[i] = d[i]
    BY <1>1, <1>2, <2>1, SubSeqProperties
  <2> QED BY <2>2, <2>3
<1>4. /\ new \in Seq(Paths) /\ z \in Seq(Int) /\ Len(new) = Len(z) /\ Len(new) \in {0, 1}
      /\ Len(new) = 1 => new[1] = e /\ z[1] = Len(e) - Len(root)
  <2>1. CASE new = <<>>
    BY <2>1, EmptySeq
  <2>2. CASE new = <<e>>
    <3>1. new # <<>> /\ new \in Seq(Paths) /\ Len(new) = 1 /\ new[1] = e
      BY <2>2
    <3>2. Len(e) - Len(root) \in Int
      BY <1>1
    <3>3. z = <<Len(e) - Len(root)>>
      BY <3>1
    <3> HIDE DEF z
    <3> QED BY <3>1, <3>2, <3>3
  <2> QED BY <2>1, <2>2
<1> HIDE DEF a, c, z
<1> DEFINE t == a \o new
           u == c \o z
           m == n + Len(new)
           g == DepthsOf(root, t)
<1>5. /\ t \in Seq(Paths) /\ Len(t) = m /\ DOMAIN t = 1..m /\ m \in Nat
      /\ \A i \in 1..m : t[i] = IF i <= n THEN a[i] ELSE new[i - n]
  <2>1. m \in Nat
    BY <1>1, <1>4
  <2>2. a \in Seq(Paths) /\ new \in Seq(Paths) /\ Len(a) = n
    BY <1>3, <1>4
  <2>3. /\ t \in Seq(Paths) /\ Len(t) = Len(a) + Len(new)
        /\ \A i \in 1..(Len(a) + Len(new)) : t[i] = IF i <= Len(a) THEN a[i] ELSE new[i - Len(a)]
    BY <2>2, ConcatProperties
  <2> HIDE DEF t
  <2>4. DOMAIN t = 1..Len(t)
    BY <2>3, LenProperties
  <2> QED BY <2>1, <2>2, <2>3, <2>4
<1>6. /\ u \in Seq(Int) /\ Len(u) = m
      /\ \A i \in 1..m : u[i] = IF i <= n THEN c[i] ELSE z[i - n]
  <2>1. c \in Seq(Int) /\ z \in Seq(Int) /\ Len(c) = n /\ Len(z) = Len(new)
    BY <1>3, <1>4
  <2>2. /\ u \in Seq(Int) /\ Len(u) = Len(c) + Len(z)
        /\ \A i \in 1..(Len(c) + Len(z)) : u[i] = IF i <= Len(c) THEN c[i] ELSE z[i - Len(c)]
    <3> DEFINE I == Int
    <3>1. c \in Seq(I) /\ z \in Seq(I)
      BY <2>1
    <3> HIDE DEF I
    <3>2. /\ u \in Seq(I) /\ Len(u) = Len(c) + Len(z)
          /\ \A i \in 1..(Len(c) + Len(z)) : u[i] = IF i <= Len(c) THEN c[i] ELSE z[i - Len(c)]
      BY <3>1, ConcatProperties
    <3> QED BY <3>2 DEF I
  <2> HIDE DEF u
  <2> QED BY <2>1, <2>2
<1> HIDE DEF t, u
<1>7. g \in Seq(Int) /\ Len(g) = m /\ \A i \in 1..m : g[i] = Len(t[i]) - Len(root)
  <2>1. \A i \in 1..m : Len(t[i]) - Len(root) \in Int
    BY <1>1, <1>5, ElementOfSeq, Length
  <2>2. g \in [1..m -> Int] /\ DOMAIN g = 1..m /\ \A i \in 1..m : g[i] = Len(t[i]) - Len(root)
    BY <1>5, <2>1 DEF DepthsOf
  <2> HIDE DEF g, m
  <2>3. g \in Seq(Int)
    BY <1>5, <2>2, SeqDef
  <2> QED BY <1>5, <2>2, <2>3, LenProperties
<1>8. \A i \in 1..m : u[i] = g[i]
  <2> TAKE i \in 1..m
  <2>1. CASE i <= n
    <3>1. i \in 1..n
      BY <1>1, <1>5, <2>1
    <3>2. u[i] = c[i] /\ t[i] = a[i] /\ g[i] = Len(t[i]) - Len(root)
      BY <1>5, <1>6, <1>7, <2>1
    <3>3. c[i] = d[i] /\ a[i] = s[i] /\ d[i] = Len(s[i]) - Len(root)
      BY <1>2, <1>3, <3>1
    <3> QED BY <3>2, <3>3
  <2>2. CASE ~ (i <= n)
    <3>1. Len(new) = 1
      BY <1>1, <1>4, <1>5, <2>2
    <3>2. i - n = 1
      BY <1>1, <2>2, <3>1
    <3> QED BY <1>4, <1>5, <1>6, <1>7, <2>2, <3>1, <3>2
  <2> QED BY <2>1, <2>2
<1> HIDE DEF g
<1>9. u = g
  BY <1>6, <1>7, <1>8, SeqEqual
<1> QED BY <1>9 DEF u, g, t, a, c, z, d

\* A directory or file that is not skipped and classified as indexed is wanted:
\* what is above it has been judged already.
LEMMA WantedIs ==
  ASSUME NEW b \in 0..Len(WalkOrder), NEW k \in 1..(b + 1), Walking(k, b), skip \subseteq Dir,
         NEW P \in Paths, Custody(P), todo # <<>>, ~InSkipped, Classified = "Indexed"
  PROVE  Wanted(Root, Entry)
<1>1. Entry \in Paths /\ Entry # <<>> /\ IsPrefix(Root, Entry)
  BY EntryIs
<1>2. Root \in Paths /\ Root # <<>>
  BY RootTyped DEF Walking, Root
<1> SUFFICES ASSUME NEW p \in Range(Chain(Root, Entry)) PROVE Admitted(Root, p)
  BY DEF Wanted
<1>3. p \in Paths /\ IsPrefix(Root, p) /\ IsPrefix(p, Entry)
  BY <1>1, <1>2, OnChain
<1>4. CASE p = Entry
  BY <1>4, StackIs
<1>5. CASE p # Entry
  <2>1. IsPrefix(p, Front(Entry)) /\ Front(Entry) \in Paths
    BY <1>1, <1>3, <1>5, ParentIs DEF IsStrictPrefix
  <2>2. Entry # Root
    BY <1>2, <1>3, <1>5, PrefixFacts
  <2>3. IsPrefix(Root, Front(Entry)) /\ Wanted(Root, Front(Entry))
    BY <2>2, FrontIs
  <2>4. p \in Range(Chain(Root, Front(Entry)))
    BY <1>2, <1>3, <2>1, <2>3, OnChain
  <2> QED BY <2>3, <2>4 DEF Wanted
<1> QED BY <1>4, <1>5

\* The entry that is visited takes custody.
LEMMA CustodyVisit ==
  ASSUME NEW b \in 0..Len(WalkOrder), NEW k \in 1..(b + 1), Walking(k, b), skip \subseteq Dir,
         NEW P \in Paths, Custody(P), Visit,
         Entry \in Dir => Entry \in skip' \/ Classified = "Indexed",
         NEW Q, Q = ParentOrSelf(Entry)
  PROVE  Custody(Q)'
<1>1. todo # <<>> /\ ~InSkipped /\ todo' = Tail(todo) /\ layers' = StackNow
      /\ ri' = ri /\ roots' = roots /\ book' = book
  BY DEF Visit, given
<1>2. /\ Entry \in Node /\ Entry \in Paths /\ Entry # <<>> /\ Entry \in Range(todo)
      /\ IsPrefix(Root, Entry) /\ Len(Root) <= Len(Entry)
      /\ \A n : n \in Range(todo) <=> n = Entry \/ n \in Range(Tail(todo))
  BY <1>1, EntryIs
<1>3. Root \in Dir /\ Root \in Paths /\ Root # <<>>
  BY RootTyped DEF Walking, Root
<1>4. /\ Kept \in 0..Len(layers) /\ StackNow = LayersTo(Root, Q)
      /\ Q \in Paths /\ (Q = Front(Root) \/ IsPrefix(Root, Q))
      /\ Classified = "Indexed" <=> Admitted(Root, Entry)
  BY <1>1, StackIs
<1>5. depths' = DepthsOf(Root, StackNow)
  <2> DEFINE new == IF Pushed THEN <<Entry>> ELSE <<>>
  <2>1. depths' = SubSeq(depths, 1, Kept) \o (IF Pushed THEN <<Depth>> ELSE <<>>)
    BY DEF Visit
  <2>2. Depth = Len(Entry) - Len(Root) /\ depths = DepthsOf(Root, layers)
    BY DEF Depth, Root, Custody
  <2>3. layers \in Seq(Paths)
    <3>1. Len(Root) - 1 <= Len(P)
      <4>1. Len(Front(Root)) = Len(Root) - 1 /\ Len(Root) \in Nat
        BY RootTyped DEF Walking, Root
      <4>2. IsPrefix(Root, P) => Len(Root) <= Len(P)
        BY <1>3, PrefixIs
      <4> QED BY <4>1, <4>2, Length DEF Custody
    <3> QED BY <1>3, <3>1, LayersFit DEF Custody, Fits
  <2>4. (new = <<>> \/ new = <<Entry>>) /\ (Pushed <=> new # <<>>)
    OBVIOUS
  <2>5. StackNow = SubSeq(layers, 1, Kept) \o new
    BY DEF StackNow
  <2> HIDE DEF new
  <2>6. SubSeq(DepthsOf(Root, layers), 1, Kept)
          \o (IF new = <<>> THEN <<>> ELSE <<Len(Entry) - Len(Root)>>)
          = DepthsOf(Root, StackNow)
    BY <1>2, <1>3, <1>4, <2>3, <2>4, <2>5, DepthsNow
  <2>7. (IF Pushed THEN <<Depth>> ELSE <<>>)
           = (IF new = <<>> THEN <<>> ELSE <<Len(Entry) - Len(Root)>>)
    BY <2>2, <2>4
  <2> QED BY <2>1, <2>2, <2>6, <2>7
<1>6. ASSUME NEW d \in Dir, NEW n \in Range(Tail(todo)),
             IsPrefix(Root, d), IsStrictPrefix(d, n), d \notin Range(Tail(todo))
      PROVE  \/ \E s \in skip' : IsPrefix(s, d)
             \/ IsPrefix(d, Q) /\ Wanted(Root, d)
  <2>0. d \in Paths /\ n \in Range(todo)
    BY <1>2, NodeTyped
  <2>1. CASE d \notin Range(todo)
    <3>1. IsStrictPrefix(d, Entry)
      BY <1>6, <2>0, <2>1, AboveEntry
    <3>2. IsPrefix(d, Front(Entry)) /\ Front(Entry) \in Paths /\ IsPrefix(Front(Entry), Entry)
      BY <1>2, <2>0, <3>1, ParentIs DEF IsStrictPrefix
    <3>3. IsPrefix(d, Q)
      BY <1>2, <2>0, <3>1, <3>2 DEF ParentOrSelf, IsStrictPrefix
    <3>4. ASSUME NEW s \in skip, IsPrefix(s, d) PROVE FALSE
      <4>1. s \in Paths /\ Len(s) \in Nat /\ Len(d) \in Nat /\ Len(d) < Len(Entry)
        BY <1>2, <2>0, <3>1, NodeTyped, Length, PrefixFacts
      <4>2. IsPrefix(s, Entry) /\ Len(s) <= Len(d)
        BY <1>2, <2>0, <3>1, <3>4, <4>1, PrefixFacts, PrefixIs DEF IsStrictPrefix
      <4>3. s # Entry
        BY <4>1, <4>2
      <4> QED BY <1>1, <4>2, <4>3 DEF InSkipped, IsStrictPrefix
    <3>5. Wanted(Root, d)
      BY <1>2, <1>6, <2>1, <3>1, <3>4 DEF Custody
    <3> QED BY <3>3, <3>5
  <2>2. CASE d \in Range(todo)
    <3>1. d = Entry
      BY <1>2, <1>6, <2>2
    <3>2. CASE Entry \in skip'
      <4>1. IsPrefix(d, d)
        BY <2>0, PrefixFacts
      <4> QED BY <3>1, <3>2, <4>1
    <3>3. CASE Classified = "Indexed"
      <4>1. Q = Entry /\ IsPrefix(d, Q)
        BY <2>0, <3>1, PrefixFacts DEF ParentOrSelf
      <4>2. Wanted(Root, Entry)
        BY <1>1, <3>3, WantedIs
      <4> QED BY <3>1, <4>1, <4>2
    <3> QED BY <3>1, <3>2, <3>3
  <2> QED BY <2>1, <2>2
<1>7. Root' = Root
  BY <1>1 DEF Root
<1>8. ASSUME NEW d PROVE LayersTo(Root, d)' = LayersTo(Root, d) /\ Wanted(Root, d)' = Wanted(Root, d)
  BY <1>1, <1>7, SameRules
<1>9. DepthsOf(Root, layers)' = DepthsOf(Root, StackNow)
  BY <1>1, <1>7 DEF DepthsOf
<1> QED BY <1>1, <1>4, <1>5, <1>6, <1>7, <1>8, <1>9 DEF Custody

-----------------------------------------------------------------------------
(* The invariant.                                                           *)

\* What is skipped was excluded under a root walked so far, and, in the first
\* root that covers it, what is skipped is excluded under that very root.
SkipInv ==
  /\ \A s \in skip : \E i \in 1..ri : IsPrefix(roots[i], s) /\ ~Admitted(roots[i], s)
  /\ ri # 0 /\ First(ri) /\ Root \notin Range(todo) =>
       \A s \in skip : IsPrefix(Root, s) => ~Admitted(Root, s)

\* What was found is wanted, and what is wanted under a root that no earlier
\* one is above has been found, or is to come.
FoundInv ==
  /\ \A f \in entries : \E i \in Under(f) : Wanted(roots[i], f)
  /\ \A f \in File, i \in 1..ri : i \in Under(f) /\ First(i) /\ Wanted(roots[i], f) =>
       f \in entries \/ (i = ri /\ f \in Range(todo))

Somewhere ==
  \E b \in 0..Len(WalkOrder) : \E k \in 1..(b + 1) : \E P \in Paths : Walking(k, b) /\ Custody(P)

IInv ==
  /\ book \in Rulebooks /\ roots \in RootLists /\ ri \in 0..Len(roots)
  /\ skip \subseteq Dir /\ catalog \subseteq Dir /\ entries \subseteq File
  /\ ri = 0 => todo = <<>> /\ layers = <<>> /\ depths = <<>>
  /\ ri # 0 => Somewhere
  /\ SkipInv /\ FoundInv

\* The four actions that visit an entry, in one.
Visits ==
  /\ Visit
  /\ skip' = Retained(Entry) \cup (IF Entry \in Dir /\ Classified # "Indexed" THEN {Entry} ELSE {})
  /\ entries' = entries \cup (IF Entry \in File /\ Classified = "Indexed" THEN {Entry} ELSE {})
  /\ catalog' \subseteq catalog \cup ({Entry} \cap Dir)

LEMMA EachVisits ==
  ASSUME SkipDirectory \/ EnterDirectory \/ SkipFile \/ IndexFile
  PROVE  Visits
<1>1. Entry \in Dir => Entry \notin File
  BY TreeAssumption
<1>2. CASE SkipDirectory
  BY <1>1, <1>2 DEF SkipDirectory, Visits
<1>3. CASE EnterDirectory
  BY <1>1, <1>3 DEF EnterDirectory, Visits
<1>4. CASE SkipFile
  BY <1>1, <1>4 DEF SkipFile, Visits
<1>5. CASE IndexFile
  BY <1>1, <1>5 DEF IndexFile, Visits
<1> QED BY <1>2, <1>3, <1>4, <1>5

LEMMA NothingLeft == Range(<<>>) = {}
BY DEF Range

LEMMA InARoot ==
  ASSUME IInv, todo # <<>>
  PROVE  ri # 0 /\ ri \in 1..Len(roots) /\ Somewhere
<1>1. roots \in Seq(Dir) /\ Len(roots) \in Nat
  BY TreeAssumption, LenProperties DEF IInv
<1> QED BY <1>1 DEF IInv

LEMMA InitInv == Init => IInv
<1> SUFFICES ASSUME Init PROVE IInv
  OBVIOUS
<1>1. roots \in Seq(Dir) /\ Len(roots) \in Nat
  BY TreeAssumption, LenProperties DEF Init
<1>2. SkipInv /\ FoundInv
  BY DEF Init, SkipInv, FoundInv
<1> QED BY <1>1, <1>2 DEF Init, IInv

LEMMA NextRootInv ==
  ASSUME IInv, NextRoot
  PROVE  IInv'
<1>1. /\ todo = <<>> /\ ri' = ri + 1 /\ ri \in 0..Len(roots) /\ ri + 1 \in 1..Len(roots)
      /\ todo' = Below(roots[ri + 1]) /\ layers' = <<>> /\ depths' = <<>>
      /\ roots' = roots /\ book' = book /\ skip' = skip /\ catalog' = catalog
      /\ entries' = entries /\ Len(roots) \in Nat /\ ri \in Nat
  <2>1. roots \in Seq(Dir) /\ Len(roots) \in Nat
    BY TreeAssumption, LenProperties DEF IInv
  <2> QED BY <2>1 DEF NextRoot, given, IInv
<1> DEFINE R == roots[ri + 1]
<1>2. /\ R \in Dir /\ R \in Paths /\ R # <<>> /\ Len(R) \in Nat \ {0} /\ Front(R) \in Paths
      /\ Len(Front(R)) = Len(R) - 1 /\ R \in Node
  BY <1>1, RootTyped DEF IInv
<1>3. Root' = R
  BY <1>1 DEF Root
<1>4. PICK b \in 0..Len(WalkOrder) : \E k \in 1..(b + 1) :
        /\ todo' = SubSeq(WalkOrder, k, b)
        /\ \A i \in k..b : IsPrefix(R, WalkOrder[i])
        /\ \A i \in DOMAIN WalkOrder : IsPrefix(R, WalkOrder[i]) => i \in k..b
  BY <1>1, <1>2, BelowIs
<1>5. PICK k \in 1..(b + 1) :
        /\ todo' = SubSeq(WalkOrder, k, b)
        /\ \A i \in k..b : IsPrefix(R, WalkOrder[i])
        /\ \A i \in DOMAIN WalkOrder : IsPrefix(R, WalkOrder[i]) => i \in k..b
  BY <1>4
<1> HIDE DEF R
<1>6. \A n \in Node : IsPrefix(R, n) => n \in Range(todo')
  <2> SUFFICES ASSUME NEW n \in Node, IsPrefix(R, n) PROVE n \in Range(todo')
    OBVIOUS
  <2>1. PICK i \in DOMAIN WalkOrder : WalkOrder[i] = n
    BY TreeAssumption
  <2>2. i \in k..b
    BY <1>5, <2>1
  <2> QED BY <1>5, <2>1, <2>2, Stretch
<1>7. Walking(k, b)'
  <2>1. \A i \in k..b : i <= b
    BY OrderTyped
  <2> QED BY <1>1, <1>3, <1>5, <2>1 DEF Walking, Ordered, IInv
<1>8. \E P \in Paths : Custody(P)'
  <2>1. LayersTo(R, Front(R)) = <<>>
    BY <1>2, LayersStep
  <2>2. DepthsOf(Root, layers)' = <<>>
    BY <1>1 DEF DepthsOf
  <2>3. ASSUME NEW d \in Dir, IsPrefix(R, d) PROVE d \in Range(todo')
    BY <1>6, <2>3, NodeTyped
  <2>4. PICK P \in Paths : P = Front(R)
    BY <1>2
  <2>5. LayersTo(Root, P)' = <<>> /\ P = Front(Root')
    BY <1>1, <1>3, <2>1, <2>4, SameRules
  <2>6. Custody(P)'
    BY <1>1, <2>2, <2>3, <2>5, <1>3 DEF Custody
  <2> QED BY <2>6
<1>9. SkipInv'
  <2>1. Root' \in Range(todo')
    BY <1>2, <1>3, <1>6, PrefixFacts
  <2>2. ASSUME NEW s \in skip
        PROVE  \E i \in 1..(ri + 1) : IsPrefix(roots[i], s) /\ ~Admitted(roots[i], s)'
    <3>1. PICK i \in 1..ri : IsPrefix(roots[i], s) /\ ~Admitted(roots[i], s)
      BY DEF IInv, SkipInv
    <3>2. i \in 1..(ri + 1)
      BY <1>1
    <3>3. ~Admitted(roots[i], s)'
      BY <1>1, <3>1, SameRules
    <3> QED BY <3>1, <3>2, <3>3
  <2> QED BY <1>1, <2>1, <2>2 DEF SkipInv
<1>10. FoundInv'
  <2>1. ASSUME NEW f \in entries PROVE \E i \in Under(f)' : Wanted(roots[i], f)'
    <3>1. PICK i \in Under(f) : Wanted(roots[i], f)
      BY DEF IInv, FoundInv
    <3>2. Wanted(roots[i], f)'
      BY <1>1, <3>1, SameRules
    <3> QED BY <1>1, <3>1, <3>2 DEF Under
  <2>2. ASSUME NEW f \in File, NEW i \in 1..(ri + 1),
               i \in Under(f)', First(i)', Wanted(roots[i], f)'
        PROVE  f \in entries \/ (i = ri + 1 /\ f \in Range(todo'))
    <3>1. i \in Under(f) /\ First(i) /\ Wanted(roots[i], f)
      BY <1>1, <2>2, SameRules DEF Under, First
    <3>2. CASE i = ri + 1
      <4>1. IsPrefix(R, f) /\ f \in Node
        BY <3>1, <3>2 DEF Under, R, Node
      <4> QED BY <1>6, <3>2, <4>1
    <3>3. CASE i # ri + 1
      <4>1. i \in 1..ri
        BY <1>1, <3>3
      <4>2. f \in entries \/ f \in Range(todo)
        BY <3>1, <4>1 DEF IInv, FoundInv
      <4> QED BY <1>1, <4>2, NothingLeft
    <3> QED BY <3>2, <3>3
  <2> QED BY <1>1, <2>1, <2>2 DEF FoundInv
<1>11. ri' # 0 /\ ri' \in 0..Len(roots')
  BY <1>1
<1>12. Somewhere'
  <2>1. PICK P \in Paths : Custody(P)'
    BY <1>8
  <2>2. Walking(k, b)' /\ Custody(P)'
    BY <1>7, <2>1
  <2> QED BY <2>2 DEF Somewhere
<1>13. /\ book' \in Rulebooks /\ roots' \in RootLists
       /\ skip' \subseteq Dir /\ catalog' \subseteq Dir /\ entries' \subseteq File
  BY <1>1 DEF IInv
<1> QED BY <1>9, <1>10, <1>11, <1>12, <1>13 DEF IInv

\* What was skipped above the first root that covers it, was so under that root.
LEMMA SkippedAbove ==
  ASSUME IInv, ri \in 1..Len(roots), First(ri), NEW s \in skip, IsPrefix(s, Root)
  PROVE  IsPrefix(Root, s) /\ ~Admitted(Root, s)
<1>1. PICK i \in 1..ri : IsPrefix(roots[i], s) /\ ~Admitted(roots[i], s)
  BY DEF IInv, SkipInv
<1>2. /\ i \in 1..Len(roots) /\ i \in Nat /\ ri \in Nat /\ i <= ri /\ DOMAIN roots = 1..Len(roots)
      /\ roots \in RootLists
  <2>1. roots \in Seq(Dir) /\ roots \in RootLists
    BY TreeAssumption DEF IInv
  <2> QED BY <2>1, LenProperties
<1>3. roots[i] \in Paths /\ Root \in Paths /\ s \in Paths
  BY <1>2, RootTyped, NodeTyped DEF Root, IInv
<1>4. IsPrefix(roots[i], Root)
  BY <1>1, <1>3, PrefixFacts
<1>5. i = ri
  BY <1>2, <1>4 DEF First, Under, Root
<1> QED BY <1>1, <1>5 DEF Root

LEMMA SkipEntryInv ==
  ASSUME IInv, SkipEntry
  PROVE  IInv'
<1>1. /\ todo # <<>> /\ InSkipped /\ todo' = Tail(todo) /\ ri' = ri /\ layers' = layers
      /\ depths' = depths /\ skip' = skip /\ catalog' = catalog /\ entries' = entries
      /\ roots' = roots /\ book' = book
  BY DEF SkipEntry, given
<1>2. PICK b \in 0..Len(WalkOrder) : \E k \in 1..(b + 1) : \E P \in Paths : Walking(k, b) /\ Custody(P)
  BY <1>1, InARoot DEF Somewhere
<1>3. PICK k \in 1..(b + 1), P \in Paths : Walking(k, b) /\ Custody(P)
  BY <1>2
<1>4. /\ skip \subseteq Dir /\ Entry \in Paths /\ IsPrefix(Root, Entry) /\ ri # 0
      /\ \A n : n \in Range(todo) <=> n = Entry \/ n \in Range(Tail(todo))
      /\ ri \in 1..Len(roots) /\ roots \in RootLists
  BY <1>1, <1>3, EntryIs, InARoot DEF IInv
<1>5. Root \in Paths /\ Root # <<>> /\ Root \in Dir
  BY <1>4, RootTyped DEF Root
<1>6. PICK t \in skip : IsStrictPrefix(t, Entry)
  BY <1>1 DEF InSkipped
<1>7. t \in Paths /\ IsPrefix(t, Entry) /\ Len(t) \in Nat /\ Len(t) < Len(Entry)
  BY <1>4, <1>6, NodeTyped, PrefixFacts, Length DEF IsStrictPrefix
<1>8. k + 1 \in 1..(b + 1) /\ Walking(k + 1, b)'
  BY <1>1, <1>3, OrderStep
<1>9. Custody(P)'
  <2>1. Root' = Root
    BY <1>1 DEF Root
  <2>2. ASSUME NEW d \in Dir, NEW n \in Range(Tail(todo)),
               IsPrefix(Root, d), IsStrictPrefix(d, n), d \notin Range(Tail(todo))
        PROVE  \/ \E s \in skip : IsPrefix(s, d)
               \/ IsPrefix(d, P) /\ Wanted(Root, d)
    <3>1. CASE d = Entry
      BY <1>7, <3>1
    <3>2. CASE d # Entry
      BY <1>3, <1>4, <2>2, <3>2 DEF Custody
    <3> QED BY <3>1, <3>2
  <2>3. LayersTo(Root, P)' = LayersTo(Root, P) /\ \A d : Wanted(Root, d)' = Wanted(Root, d)
    BY <1>1, <2>1, SameRules
  <2>4. DepthsOf(Root, layers)' = DepthsOf(Root, layers)
    BY <1>1, <2>1 DEF DepthsOf
  <2> QED BY <1>1, <1>3, <2>1, <2>2, <2>3, <2>4 DEF Custody
<1>10. SkipInv'
  <2>1. ASSUME NEW s \in skip
        PROVE  \E i \in 1..ri : IsPrefix(roots[i], s) /\ ~Admitted(roots[i], s)'
    BY <1>1, SameRules DEF IInv, SkipInv
  <2>2. ASSUME First(ri)', Root' \notin Range(todo'), NEW s \in skip, IsPrefix(Root, s)
        PROVE  ~Admitted(Root, s)'
    <3>1. First(ri)
      BY <1>1, <2>2 DEF First, Under
    <3>2. Root \notin Range(todo)
      <4>1. ASSUME Root = Entry PROVE FALSE
        <5>1. IsPrefix(Root, t)
          BY <1>4, <1>7, <3>1, <4>1, SkippedAbove
        <5> QED BY <1>5, <1>7, <4>1, <5>1, PrefixIs, Length
      <4>2. Root' = Root
        BY <1>1 DEF Root
      <4> QED BY <1>1, <1>4, <2>2, <4>1, <4>2
    <3>3. ~Admitted(Root, s)
      BY <1>4, <2>2, <3>1, <3>2 DEF IInv, SkipInv
    <3> QED BY <1>1, <3>3, SameRules DEF Root
  <2>3. Root' = Root
    BY <1>1 DEF Root
  <2> QED BY <1>1, <2>1, <2>2, <2>3 DEF SkipInv
<1>11. FoundInv'
  <2>1. ASSUME NEW f \in entries PROVE \E i \in Under(f)' : Wanted(roots[i], f)'
    <3>1. PICK i \in Under(f) : Wanted(roots[i], f)
      BY DEF IInv, FoundInv
    <3>2. Wanted(roots[i], f)'
      BY <1>1, <3>1, SameRules
    <3> QED BY <1>1, <3>1, <3>2 DEF Under
  <2>2. ASSUME NEW f \in File, NEW i \in 1..ri,
               i \in Under(f)', First(i)', Wanted(roots[i], f)'
        PROVE  f \in entries \/ (i = ri /\ f \in Range(Tail(todo)))
    <3>1. i \in Under(f) /\ First(i) /\ Wanted(roots[i], f)
      BY <1>1, <2>2, SameRules DEF Under, First
    <3>2. f \in entries \/ (i = ri /\ f \in Range(todo))
      BY <3>1 DEF IInv, FoundInv
    <3>3. ASSUME i = ri, f = Entry PROVE FALSE
      <4>1. First(ri) /\ Wanted(Root, Entry) /\ Entry \in File
        BY <3>1, <3>3 DEF Root
      <4>2. Root # Entry
        BY <1>5, <4>1, TreeAssumption
      <4>3. IsStrictPrefix(Root, Entry) /\ Root \notin Range(todo)
        BY <1>1, <1>3, <1>4, <4>2, Passed DEF IsStrictPrefix
      <4>4. CASE IsPrefix(Root, t)
        <5>1. ~Admitted(Root, t)
          BY <1>4, <4>1, <4>3, <4>4 DEF IInv, SkipInv
        <5>2. t \in Range(Chain(Root, Entry))
          BY <1>4, <1>5, <1>7, <4>4, OnChain
        <5> QED BY <4>1, <5>1, <5>2 DEF Wanted
      <4>5. CASE ~ IsPrefix(Root, t)
        <5>1. IsPrefix(t, Root)
          BY <1>4, <1>5, <1>7, <4>5, PrefixFacts, Length
        <5> QED BY <1>4, <4>1, <4>5, <5>1, SkippedAbove
      <4> QED BY <4>4, <4>5
    <3> QED BY <1>4, <3>2, <3>3
  <2> QED BY <1>1, <2>1, <2>2 DEF FoundInv
<1>12. Somewhere'
  BY <1>8, <1>9 DEF Somewhere
<1> QED BY <1>1, <1>4, <1>10, <1>11, <1>12 DEF IInv

LEMMA VisitsInv ==
  ASSUME IInv, Visits
  PROVE  IInv'
<1>1. /\ Visit /\ todo # <<>> /\ ~InSkipped /\ todo' = Tail(todo) /\ ri' = ri
      /\ roots' = roots /\ book' = book
  BY DEF Visits, Visit, given
<1>2. PICK b \in 0..Len(WalkOrder) : \E k \in 1..(b + 1) : \E P \in Paths : Walking(k, b) /\ Custody(P)
  BY <1>1, InARoot DEF Somewhere
<1>3. PICK k \in 1..(b + 1), P \in Paths : Walking(k, b) /\ Custody(P)
  BY <1>2
<1>4. /\ skip \subseteq Dir /\ Entry \in Node /\ Entry \in Paths /\ Entry # <<>>
      /\ IsPrefix(Root, Entry) /\ ri # 0
      /\ \A n : n \in Range(todo) <=> n = Entry \/ n \in Range(Tail(todo))
      /\ ri \in 1..Len(roots) /\ roots \in RootLists /\ DOMAIN roots = 1..Len(roots) /\ ri \in 1..ri
  <2>1. ri \in 1..Len(roots) /\ roots \in RootLists /\ ri # 0
    BY <1>1, InARoot DEF IInv
  <2>2. roots \in Seq(Dir)
    BY <2>1, TreeAssumption
  <2>3. DOMAIN roots = 1..Len(roots) /\ ri \in 1..ri
    BY <2>1, <2>2, LenProperties
  <2> QED BY <1>1, <1>3, <2>1, <2>3, EntryIs DEF IInv
<1>5. Root \in Paths /\ Root # <<>> /\ Root \in Dir /\ Root' = Root
  BY <1>1, <1>4, RootTyped DEF Root
<1>6. /\ Classified = "Indexed" <=> Admitted(Root, Entry)
      /\ ParentOrSelf(Entry) \in Paths
  BY <1>1, <1>3, <1>4, StackIs
<1>7. /\ skip' \subseteq Retained(Entry) \cup {Entry} /\ Retained(Entry) \subseteq skip
      /\ Entry \in skip' \ Retained(Entry) => Entry \in Dir /\ Classified # "Indexed"
      /\ Entry \in Dir => Entry \in skip' \/ Classified = "Indexed"
      /\ skip' \subseteq Dir /\ catalog' \subseteq Dir /\ entries' \subseteq File
  <2>1. Retained(Entry) \subseteq skip
    BY DEF Retained
  <2> QED BY <1>4, <2>1 DEF Visits, IInv
<1>8. k + 1 \in 1..(b + 1) /\ Walking(k + 1, b)'
  BY <1>1, <1>3, OrderStep
<1>9. PICK Q \in Paths : Q = ParentOrSelf(Entry)
  BY <1>6
<1>10. Custody(Q)'
  BY <1>1, <1>3, <1>4, <1>7, <1>9, CustodyVisit
<1>11. SkipInv'
  <2>1. ASSUME NEW s \in skip'
        PROVE  \E i \in 1..ri : IsPrefix(roots[i], s) /\ ~Admitted(roots[i], s)'
    <3>1. CASE s \in Retained(Entry)
      <4>1. PICK i \in 1..ri : IsPrefix(roots[i], s) /\ ~Admitted(roots[i], s)
        BY <1>7, <3>1 DEF IInv, SkipInv
      <4>2. ~Admitted(roots[i], s)'
        BY <1>1, <4>1, SameRules
      <4> QED BY <4>1, <4>2
    <3>2. CASE s \notin Retained(Entry)
      <4>1. s = Entry /\ IsPrefix(roots[ri], s) /\ ~Admitted(roots[ri], s)
        BY <1>4, <1>6, <1>7, <2>1, <3>2 DEF Root
      <4>2. PICK i \in 1..ri : i = ri
        BY <1>4
      <4>3. ~Admitted(roots[i], s)'
        BY <1>1, <4>1, <4>2, SameRules
      <4> QED BY <4>1, <4>2, <4>3
    <3> QED BY <3>1, <3>2
  <2>2. ASSUME First(ri)', Root' \notin Range(todo'), NEW s \in skip', IsPrefix(Root, s)
        PROVE  ~Admitted(Root, s)'
    <3>1. First(ri)
      BY <1>1, <2>2 DEF First, Under
    <3>2. CASE s \notin Retained(Entry)
      <4>1. s = Entry /\ Classified # "Indexed"
        BY <1>7, <2>2, <3>2
      <4>2. ~Admitted(Root, s)
        BY <1>6, <4>1
      <4> QED BY <1>1, <1>5, <4>2, SameRules
    <3>3. CASE s \in Retained(Entry) /\ Entry # Root
      <4>1. Root \notin Range(todo)
        BY <1>1, <1>3, <1>4, <3>3, FrontIs
      <4>2. ~Admitted(Root, s)
        BY <1>4, <1>7, <2>2, <3>1, <3>3, <4>1 DEF IInv, SkipInv
      <4> QED BY <1>1, <1>5, <4>2, SameRules
    <3>4. CASE s \in Retained(Entry) /\ Entry = Root
      <4>1. s \in skip /\ s \in Paths
        BY <1>4, <1>7, <3>4, NodeTyped
      <4>2. IsPrefix(s, Root) \/ ~IsPrefix(Front(Root), s)
        BY <3>4 DEF Retained
      <4>3. Front(Root) \in Paths /\ IsPrefix(Front(Root), Root)
        BY <1>5, ParentIs DEF IsStrictPrefix
      <4>4. IsPrefix(s, Root)
        BY <1>5, <2>2, <4>1, <4>2, <4>3, PrefixFacts
      <4>5. ~Admitted(Root, s)
        BY <1>4, <3>1, <4>1, <4>4, SkippedAbove
      <4> QED BY <1>1, <1>5, <4>5, SameRules
    <3> QED BY <3>2, <3>3, <3>4
  <2> QED BY <1>1, <1>5, <2>1, <2>2 DEF SkipInv
<1>12. FoundInv'
  <2>0. entries' = entries \cup (IF Entry \in File /\ Classified = "Indexed" THEN {Entry} ELSE {})
    BY DEF Visits
  <2>1. ASSUME NEW f \in entries' PROVE \E i \in Under(f)' : Wanted(roots[i], f)'
    <3>1. PICK i : i \in Under(f) /\ Wanted(roots[i], f)
      <4>1. CASE f \in entries
        BY <4>1 DEF IInv, FoundInv
      <4>2. CASE f \notin entries
        <5>1. f = Entry /\ Classified = "Indexed"
          BY <2>0, <2>1, <4>2
        <5>2. Wanted(Root, f)
          BY <1>1, <1>3, <1>4, <5>1, WantedIs
        <5> QED BY <1>4, <5>1, <5>2 DEF Under, Root
      <4> QED BY <4>1, <4>2
    <3>2. Wanted(roots[i], f)'
      BY <1>1, <3>1, SameRules
    <3> QED BY <1>1, <3>1, <3>2 DEF Under
  <2>2. ASSUME NEW f \in File, NEW i \in 1..ri,
               i \in Under(f)', First(i)', Wanted(roots[i], f)'
        PROVE  f \in entries' \/ (i = ri /\ f \in Range(Tail(todo)))
    <3>1. i \in Under(f) /\ First(i) /\ Wanted(roots[i], f)
      BY <1>1, <2>2, SameRules DEF Under, First
    <3>2. f \in entries \/ (i = ri /\ f \in Range(todo))
      BY <3>1 DEF IInv, FoundInv
    <3>3. ASSUME i = ri, f = Entry PROVE f \in entries'
      <4>1. Wanted(Root, Entry)
        BY <3>1, <3>3 DEF Root
      <4>2. Entry \in Range(Chain(Root, Entry))
        BY <1>4, <1>5, OnChain, PrefixFacts
      <4>3. Admitted(Root, Entry)
        BY <4>1, <4>2 DEF Wanted
      <4> QED BY <1>6, <2>0, <3>3, <4>3
    <3> QED BY <1>4, <2>0, <3>2, <3>3
  <2> QED BY <1>1, <2>1, <2>2 DEF FoundInv
<1>13. Somewhere'
  BY <1>8, <1>10 DEF Somewhere
<1>14. book' \in Rulebooks /\ roots' \in RootLists /\ ri' \in 0..Len(roots') /\ ri' # 0
  BY <1>1, <1>4 DEF IInv
<1> QED BY <1>7, <1>11, <1>12, <1>13, <1>14 DEF IInv

LEMMA StutterInv == IInv /\ UNCHANGED vars => IInv'
<1> SUFFICES ASSUME IInv, UNCHANGED vars PROVE IInv'
  OBVIOUS
<1>1. /\ todo' = todo /\ ri' = ri /\ layers' = layers /\ depths' = depths /\ skip' = skip
      /\ catalog' = catalog /\ entries' = entries /\ roots' = roots /\ book' = book
  BY DEF vars, given
<1>2. Root' = Root /\ DepthsOf(Root, layers)' = DepthsOf(Root, layers)
  BY <1>1 DEF Root, DepthsOf
<1>3. ASSUME NEW P PROVE Custody(P) => Custody(P)'
  BY <1>1, <1>2, SameRules DEF Custody
<1>4. ASSUME NEW k, NEW b PROVE Walking(k, b) => Walking(k, b)'
  BY <1>1, <1>2 DEF Walking, Ordered
<1>5. Somewhere => Somewhere'
  BY <1>3, <1>4 DEF Somewhere
<1>6. SkipInv'
  <2>1. ASSUME NEW i, NEW s PROVE Admitted(roots[i], s)' = Admitted(roots[i], s)
    BY <1>1, SameRules
  <2>2. ASSUME NEW s PROVE Admitted(Root, s)' = Admitted(Root, s)
    BY <1>1, <1>2, SameRules
  <2>3. First(ri)' = First(ri)
    BY <1>1 DEF First, Under
  <2> QED BY <1>1, <1>2, <2>1, <2>2, <2>3 DEF IInv, SkipInv
<1>7. FoundInv'
  <2>1. ASSUME NEW i, NEW f
        PROVE  /\ Wanted(roots[i], f)' = Wanted(roots[i], f) /\ First(i)' = First(i)
               /\ Under(f)' = Under(f)
    BY <1>1, SameRules DEF First, Under
  <2> QED BY <1>1, <2>1 DEF IInv, FoundInv
<1> QED BY <1>1, <1>5, <1>6, <1>7 DEF IInv

LEMMA NextInv == IInv /\ [Next]_vars => IInv'
BY StutterInv, NextRootInv, SkipEntryInv, VisitsInv, EachVisits DEF Next

-----------------------------------------------------------------------------
(* Theorems.                                                                *)

LEMMA LayersTyped ==
  ASSUME IInv
  PROVE  layers \in Seq(Holding) /\ depths \in Seq(Nat) /\ Len(depths) = Len(layers) /\ todo \in Seq(Node)
<1>1. CASE ri = 0
  <2>1. layers = <<>> /\ depths = <<>> /\ todo = <<>>
    BY <1>1 DEF IInv
  <2> QED BY <2>1, EmptySeq
<1>2. CASE ri # 0
  <2>1. PICK b \in 0..Len(WalkOrder) : \E k \in 1..(b + 1) : \E P \in Paths : Walking(k, b) /\ Custody(P)
    BY <1>2 DEF IInv, Somewhere
  <2>2. PICK k \in 1..(b + 1), P \in Paths : Walking(k, b) /\ Custody(P)
    BY <2>1
  <2>3. todo \in Seq(Node)
    BY <2>2, EntryIs
  <2>4. /\ Root \in Paths /\ Root # <<>> /\ Len(Root) \in Nat \ {0}
        /\ Len(Front(Root)) = Len(Root) - 1
    BY <2>2, RootTyped DEF Walking, Root
  <2>5. Len(Root) - 1 <= Len(P)
    <3>1. IsPrefix(Root, P) => Len(Root) <= Len(P)
      BY <2>4, PrefixIs
    <3> QED BY <2>2, <2>4, <3>1, Length DEF Custody
  <2>6. Fits(Root, P, layers)
    BY <2>2, <2>4, <2>5, LayersFit DEF Custody
  <2> DEFINE n == Len(layers)
  <2>7. /\ layers \in Seq(Paths) /\ n \in Nat /\ DOMAIN layers = 1..n
        /\ \A i \in 1..n : /\ layers[i] \in Holding /\ layers[i] \in Paths
                           /\ Len(layers[i]) - Len(Root) \in Nat
    <3>1. layers \in Seq(Paths) /\ n \in Nat /\ DOMAIN layers = 1..n
      BY <2>6, LenProperties DEF Fits
    <3>2. ASSUME NEW i \in 1..n
          PROVE  layers[i] \in Holding /\ layers[i] \in Paths /\ Len(layers[i]) - Len(Root) \in Nat
      <4>1. layers[i] \in Paths /\ Len(layers[i]) \in Nat
        BY <3>1, ElementOfSeq, Length
      <4>2. layers[i] \in Holding /\ Len(Root) <= Len(layers[i])
        BY <2>6 DEF Fits
      <4> QED BY <2>4, <4>1, <4>2
    <3> QED BY <3>1, <3>2
  <2>8. layers \in [1..n -> Holding]
    BY <2>7
  <2>9. depths \in [1..n -> Nat]
    BY <2>2, <2>7 DEF Custody, DepthsOf
  <2> HIDE DEF n
  <2>10. layers \in Seq(Holding) /\ depths \in Seq(Nat)
    BY <2>7, <2>8, <2>9, SeqDef
  <2>11. Len(depths) = n /\ Len(layers) = n
    BY <2>7, <2>9, <2>10, LenProperties DEF n
  <2> QED BY <2>3, <2>10, <2>11
<1> QED BY <1>1, <1>2

LEMMA Typed == IInv => TypeOK
BY LayersTyped DEF IInv, TypeOK, Holding

LEMMA Fitting == IInv => StackFits
<1> SUFFICES ASSUME IInv, todo # <<>>, ~InSkipped
             PROVE  SubSeq(layers, 1, Kept) = WithRules(Chain(roots[ri], Front(Entry)))
  BY Typed DEF StackFits
<1>1. PICK b \in 0..Len(WalkOrder) : \E k \in 1..(b + 1) : \E P \in Paths : Walking(k, b) /\ Custody(P)
  BY InARoot DEF Somewhere
<1>2. PICK k \in 1..(b + 1), P \in Paths : Walking(k, b) /\ Custody(P)
  BY <1>1
<1>3. SubSeq(layers, 1, Kept) = LayersTo(Root, Front(Entry))
  BY <1>2, StackIs DEF IInv
<1> QED BY <1>3 DEF LayersTo, Root

\* The roots a node is under, and the first of them.
LEMMA UnderIs ==
  ASSUME IInv, NEW n \in Node, Under(n) # {}
  PROVE  /\ Min(Under(n)) \in Under(n) /\ \A m \in Under(n) : Min(Under(n)) <= m
         /\ Min(Under(n)) \in 1..Len(roots) /\ First(Min(Under(n)))
         /\ RootFor(n) = roots[Min(Under(n))] /\ IsPrefix(RootFor(n), n)
<1>1. roots \in Seq(Dir) /\ roots \in RootLists
  BY TreeAssumption DEF IInv
<1>2. Len(roots) \in Nat /\ DOMAIN roots = 1..Len(roots)
  BY <1>1, LenProperties
<1>3. Under(n) \in SUBSET (0..Len(roots)) /\ Under(n) \in SUBSET (1..Len(roots))
  BY <1>2 DEF Under
<1> DEFINE i == Min(Under(n))
<1>4. i \in Under(n) /\ \A m \in Under(n) : i <= m
  BY <1>2, <1>3, LeastIs
<1>5. RootFor(n) = roots[i]
  BY DEF RootFor
<1> HIDE DEF i
<1>6. i \in 1..Len(roots) /\ IsPrefix(roots[i], n)
  BY <1>3, <1>4 DEF Under
<1>7. First(i)
  <2> SUFFICES ASSUME NEW m \in Under(roots[i]) PROVE i <= m
    BY DEF First
  <2>1. m \in 1..Len(roots) /\ IsPrefix(roots[m], roots[i])
    BY <1>2 DEF Under
  <2>2. roots[m] \in Paths /\ roots[i] \in Paths /\ n \in Paths
    BY <1>1, <1>6, <2>1, RootTyped, NodeTyped
  <2>3. IsPrefix(roots[m], n)
    BY <1>6, <2>1, <2>2, PrefixFacts
  <2> QED BY <1>2, <1>4, <2>1, <2>3 DEF Under
<1> QED BY <1>4, <1>5, <1>6, <1>7 DEF i

\* After the walk, what is wanted under the first root above anything is found.
LEMMA AllFound ==
  ASSUME IInv, Done, NEW n \in Node, Under(n) # {},
         NEW f \in File, IsPrefix(n, f), Wanted(RootFor(n), f)
  PROVE  f \in entries
<1> DEFINE i == Min(Under(n))
<1>1. i \in 1..Len(roots) /\ First(i) /\ RootFor(n) = roots[i] /\ IsPrefix(roots[i], n)
  BY UnderIs
<1> HIDE DEF i
<1>2. ri = Len(roots) /\ todo = <<>> /\ DOMAIN roots = 1..Len(roots) /\ roots \in RootLists
  <2>1. roots \in Seq(Dir) /\ roots \in RootLists
    BY TreeAssumption DEF IInv
  <2> QED BY <2>1, LenProperties DEF Done
<1>3. roots[i] \in Paths /\ n \in Paths /\ f \in Paths
  BY <1>1, <1>2, RootTyped, NodeTyped DEF Node
<1>4. IsPrefix(roots[i], f)
  BY <1>1, <1>3, PrefixFacts
<1>5. i \in Under(f) /\ i \in 1..ri
  BY <1>1, <1>2, <1>4 DEF Under
<1>6. f \in entries \/ f \in Range(todo)
  BY <1>1, <1>5 DEF IInv, FoundInv
<1> QED BY <1>2, <1>6, NothingLeft

LEMMA Walked == IInv => WalkIndexesWanted
<1> SUFFICES ASSUME IInv, Done, NEW f \in File, Under(f) # {}, Wanted(RootFor(f), f)
             PROVE  f \in entries
  BY DEF IInv, FoundInv, WalkIndexesWanted
<1>1. f \in Node /\ IsPrefix(f, f)
  BY NodeTyped, PrefixFacts DEF Node
<1> QED BY <1>1, AllFound

LEMMA Watched == IInv => WatcherIndexesOnlyWalked
<1> SUFFICES ASSUME IInv, Done, NEW n \in Node, Under(n) # {}, NEW f \in IndexedOn(n)
             PROVE  f \in entries
  BY DEF WatcherIndexesOnlyWalked
<1>1. f \in File /\ IsPrefix(n, f) /\ ClassifyPath(RootFor(n), f) = "Indexed"
  BY DEF IndexedOn
<1>2. RootFor(n) \in Dir /\ RootFor(n) \in Paths /\ RootFor(n) # <<>> /\ IsPrefix(RootFor(n), n)
  BY UnderIs, RootTyped DEF IInv
<1>3. n \in Paths /\ f \in Paths
  BY <1>1, NodeTyped DEF Node
<1>4. IsPrefix(RootFor(n), f) /\ RootFor(n) # f
  BY <1>1, <1>2, <1>3, PrefixFacts, TreeAssumption
<1>5. Wanted(RootFor(n), f)
  BY <1>1, <1>2, <1>4, ClassifyPathIs
<1> QED BY <1>1, <1>5, AllFound

LEMMA Invariant == Spec => []IInv
BY InitInv, NextInv, PTL DEF Spec

\* The two stacks, the entries to come and the sets are what they are typed as:
\* a layer is a directory with rules, only directories are skipped or cataloged
\* and only files indexed (walk_roots).
THEOREM TypeCorrect == Spec => []TypeOK
BY Invariant, Typed, PTL

\* However the walk has skipped, left and entered directories, in one root or in
\* several nested ones, an entry is judged by the rules of the directories above
\* it in its root and no others: popping by depth is enough (ignore_stack and
\* dir_depth_stack of walk_roots).
THEOREM StackAlwaysFits == Spec => []StackFits
BY Invariant, Fitting, PTL

\* A scan indexes nothing that the rules exclude under every root, and when it is
\* complete everything that is wanted under the first root it is in, the subtrees
\* an earlier root has skipped notwithstanding (skip_subtrees of walk_roots).
THEOREM WalkFindsWanted == Spec => []WalkIndexesWanted
BY Invariant, Walked, PTL

\* What the watcher indexes on an event, path by path, a full scan indexes too:
\* classify_path is never laxer than the walk (src/src/watcher.rs against
\* walk_roots).
THEOREM WatcherAgreesWithWalk == Spec => []WatcherIndexesOnlyWalked
BY Invariant, Watched, PTL
=============================================================================
