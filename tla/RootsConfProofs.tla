--------------------------- MODULE RootsConfProofs ---------------------------
(***************************************************************************)
(* Theorems of RootsConf, for any number of roots and commands and for all *)
(* bounds, whatever the commands write, the kernel drops and the watcher   *)
(* fails at.                                                               *)
(***************************************************************************)
EXTENDS RootsConf, SequenceTheorems, FiniteSetTheorems, WellFoundedInduction, TLAPS

-----------------------------------------------------------------------------
(* Lines.  A text names a root once when no two of its lines are the same   *)
(* root's.                                                                 *)

NamesOnce(lines) ==
  \A i, j \in 1..Len(lines) : lines[i].root = lines[j].root => i = j

\* What the first i lines leave without those of r.
Keeps(lines, r, i, text) ==
  /\ text \in Seq(Line)
  /\ Range(text) = {lines[j] : j \in {k \in 1..i : lines[k].root # r}}
  /\ NamesOnce(lines) => NamesOnce(text)

\* Induction up to n, over a set instead of a predicate.
LEMMA UpTo ==
  ASSUME NEW n \in Nat, NEW S, 0 \in S, \A m \in 1..n : m - 1 \in S => m \in S
  PROVE  \A m \in 0..n : m \in S
<1> DEFINE T == (0..n) \ S
<1>1. SUFFICES ASSUME T # {} PROVE FALSE
  OBVIOUS
<1>2. T \in SUBSET Nat
  OBVIOUS
<1>3. PICK m \in T : \A x \in T : ~ (<<x, m>> \in OpToRel(<, Nat))
  BY <1>1, <1>2, NatLessThanWellFounded, WFMin
<1>4. m \in 1..n /\ m - 1 \in 0..n /\ m - 1 < m
  <2>1. m \in 0..n /\ m \notin S
    BY <1>3
  <2>2. m # 0
    BY <2>1
  <2> QED BY <2>1, <2>2
<1>5. m - 1 \notin T
  BY <1>2, <1>3, <1>4 DEF OpToRel
<1> QED BY <1>3, <1>4, <1>5

LEMMA AppendRange ==
  ASSUME NEW s \in Seq(Line), NEW l \in Line
  PROVE  /\ Append(s, l) \in Seq(Line)
         /\ Range(Append(s, l)) = Range(s) \cup {l}
<1>1. /\ Append(s, l) \in Seq(Line) /\ Len(Append(s, l)) = Len(s) + 1
      /\ \A i \in 1..Len(s) : Append(s, l)[i] = s[i]
      /\ Append(s, l)[Len(s) + 1] = l
  BY AppendProperties
<1>2. DOMAIN s = 1..Len(s) /\ DOMAIN Append(s, l) = 1..Len(s) + 1 /\ Len(s) \in Nat
  BY <1>1, LenProperties
<1>3. 1..Len(s) + 1 = (1..Len(s)) \cup {Len(s) + 1}
  BY <1>2
<1> QED BY <1>1, <1>2, <1>3 DEF Range

\* A line of a root the text does not name yet.
LEMMA AppendNamesOnce ==
  ASSUME NEW s \in Seq(Line), NEW l \in Line, NamesOnce(s),
         \A x \in Range(s) : x.root # l.root
  PROVE  NamesOnce(Append(s, l))
<1>1. /\ Len(Append(s, l)) = Len(s) + 1
      /\ \A i \in 1..Len(s) : Append(s, l)[i] = s[i]
      /\ Append(s, l)[Len(s) + 1] = l
      /\ DOMAIN s = 1..Len(s) /\ Len(s) \in Nat
  BY AppendProperties, LenProperties
<1>2. \A i \in 1..Len(s) : s[i].root # l.root
  BY <1>1 DEF Range
<1> QED BY <1>1, <1>2 DEF NamesOnce

LEMMA WithoutKeeps ==
  ASSUME NEW lines \in Seq(Line), NEW r \in Root
  PROVE  Keeps(lines, r, Len(lines), Without(lines, r))
<1> DEFINE n == Len(lines)
           Body(f, i) == IF i = 0 THEN <<>>
                         ELSE IF lines[i].root = r THEN f[i - 1]
                              ELSE Append(f[i - 1], lines[i])
           Is(f, m) == f = [i \in 0..m |-> Body(f, i)]
<1>0. n \in Nat /\ \A i \in 1..n : lines[i] \in Line
  BY LenProperties, ElementOfSeq
\* The function exists: it is extended one line at a time.
<1>1. \E f : Is(f, n)
  <2> DEFINE S == {m \in 0..n : \E f : Is(f, m)}
  <2>1. 0 \in S
    <3> DEFINE g == [i \in 0..0 |-> <<>>]
    <3>1. g = [i \in 0..0 |-> Body(g, i)]
      OBVIOUS
    <3>2. 0 \in 0..n
      BY <1>0
    <3> QED BY <3>1, <3>2
  <2>2. ASSUME NEW m \in 1..n, m - 1 \in S PROVE m \in S
    <3>1. m \in 0..n /\ m - 1 \in 0..n /\ m \in Nat /\ m # 0
      BY <1>0
    <3>2. PICK f : Is(f, m - 1)
      BY <2>2
    <3> DEFINE g == [i \in 0..m |-> IF i = m THEN Body(f, m) ELSE f[i]]
    <3>3. ASSUME NEW i \in 0..m PROVE g[i] = Body(g, i)
      <4>1. CASE i = m
        BY <3>1, <4>1
      <4>2. CASE i # m
        <5>1. i \in 0..(m - 1) /\ (i # 0 => i - 1 \in 0..m /\ i - 1 # m)
          BY <3>1, <4>2
        <5>2. f[i] = Body(f, i)
          BY <3>2, <5>1
        <5> QED BY <4>2, <5>1, <5>2
      <4> QED BY <4>1, <4>2
    <3>4. Is(g, m)
      BY <3>3
    <3> QED BY <3>1, <3>4
  <2> HIDE DEF S
  <2>3. \A m \in 0..n : m \in S
    BY <1>0, <2>1, <2>2, UpTo
  <2>4. n \in 0..n
    BY <1>0
  <2> QED BY <2>3, <2>4 DEF S
<1> DEFINE kept[i \in 0..n] == Body(kept, i)
<1>2. Is(kept, n)
  BY <1>1
<1>3. Without(lines, r) = kept[n]
  BY DEF Without
<1> HIDE DEF kept
<1> DEFINE S == {m \in 0..n : Keeps(lines, r, m, kept[m])}
<1>4. 0 \in S
  <2>1. kept[0] = <<>> /\ 0 \in 0..n
    BY <1>0, <1>2
  <2>2. <<>> \in Seq(Line) /\ Len(<<>>) = 0 /\ DOMAIN <<>> = 1..0
    BY EmptySeq, LenProperties
  <2>3. Keeps(lines, r, 0, <<>>)
    BY <2>2 DEF Keeps, NamesOnce, Range
  <2> QED BY <2>1, <2>3
<1>5. ASSUME NEW m \in 1..n, m - 1 \in S PROVE m \in S
  <2>1. m \in 0..n /\ m # 0
    BY <1>0
  <2>0. kept[m] = Body(kept, m)
    BY <1>2, <2>1
  <2>2. Keeps(lines, r, m - 1, kept[m - 1])
    BY <1>5
  <2>3. 1..m = (1..(m - 1)) \cup {m} /\ m \notin 1..(m - 1)
    BY <1>0, <2>1
  <2>4. CASE lines[m].root = r
    <3>1. {k \in 1..m : lines[k].root # r} = {k \in 1..(m - 1) : lines[k].root # r}
      BY <2>3, <2>4
    <3>2. kept[m] = kept[m - 1]
      BY <2>0, <2>1, <2>4
    <3> QED BY <2>1, <2>2, <3>1, <3>2 DEF Keeps
  <2>5. CASE lines[m].root # r
    <3>1. {k \in 1..m : lines[k].root # r} = {k \in 1..(m - 1) : lines[k].root # r} \cup {m}
      BY <2>3, <2>5
    <3>2. kept[m] = Append(kept[m - 1], lines[m])
      BY <2>0, <2>1, <2>5
    <3>3. lines[m] \in Line /\ kept[m - 1] \in Seq(Line)
      BY <1>0, <2>1, <2>2 DEF Keeps
    <3>4. kept[m] \in Seq(Line) /\ Range(kept[m]) = Range(kept[m - 1]) \cup {lines[m]}
      BY <3>2, <3>3, AppendRange
    <3>5. Range(kept[m]) = {lines[j] : j \in {k \in 1..m : lines[k].root # r}}
      BY <2>2, <3>1, <3>4 DEF Keeps
    <3>6. ASSUME NamesOnce(lines) PROVE NamesOnce(kept[m])
      <4>1. ASSUME NEW x \in Range(kept[m - 1]) PROVE x.root # lines[m].root
        <5>1. PICK j \in 1..(m - 1) : x = lines[j]
          BY <2>2 DEF Keeps
        <5>2. j \in 1..n /\ j # m
          BY <1>0, <2>1
        <5> QED BY <2>1, <3>6, <5>1, <5>2 DEF NamesOnce
      <4> QED BY <2>2, <3>2, <3>3, <3>6, <4>1, AppendNamesOnce DEF Keeps
    <3>7. Keeps(lines, r, m, kept[m])
      BY <3>4, <3>5, <3>6 DEF Keeps
    <3> QED BY <2>1, <3>7
  <2> QED BY <2>4, <2>5
<1> HIDE DEF S
<1>6. \A m \in 0..n : m \in S
  BY <1>0, <1>4, <1>5, UpTo
<1>7. n \in 0..n
  BY <1>0
<1> QED BY <1>3, <1>6, <1>7 DEF S

-----------------------------------------------------------------------------
(* What lines say of the roots.                                            *)

LEMMA ToldIs ==
  ASSUME NEW lines \in Seq(Line), NEW q \in Root
  PROVE  Told(lines)[q] =
           IF \A l \in Range(lines) : l.root # q THEN "absent"
           ELSE IF \E l \in Range(lines) : l.root = q /\ l.enabled THEN "enabled"
           ELSE "disabled"
BY DEF Told, Configured, Enabled

LEMMA ToldTyped ==
  ASSUME NEW lines \in Seq(Line)
  PROVE  Told(lines) \in [Root -> {"absent", "enabled", "disabled"}]
BY DEF Told

LEMMA LinesAre ==
  ASSUME NEW lines \in Seq(Line)
  PROVE  /\ \A l \in Range(lines) : l \in Line
         /\ Range(lines) = {lines[i] : i \in 1..Len(lines)}
         /\ \A i \in 1..Len(lines) : lines[i] \in Line
         /\ Configured(lines) \subseteq Root /\ Enabled(lines) \subseteq Root
<1>1. DOMAIN lines = 1..Len(lines) /\ \A i \in 1..Len(lines) : lines[i] \in Line
  BY LenProperties, ElementOfSeq
<1>2. \A l \in Range(lines) : l \in Line
  BY <1>1 DEF Range
<1> QED BY <1>1, <1>2 DEF Range, Configured, Enabled, Line

\* The text with a line for each root and no more is as long as its roots are
\* many.
LEMMA OnceIsLength ==
  ASSUME NEW lines \in Seq(Line)
  PROVE  NamesOnce(lines) <=> Len(lines) = Cardinality(Configured(lines))
<1> DEFINE n == Len(lines)
           f == [i \in 1..n |-> lines[i].root]
<1>1. n \in Nat
  BY LenProperties
<1>2. Configured(lines) = {lines[i].root : i \in 1..n}
  BY LinesAre DEF Configured
<1>3. f \in Surjection(1..n, Configured(lines))
  BY <1>2 DEF Surjection
<1>4. f \in Injection(1..n, Configured(lines)) <=> NamesOnce(lines)
  <2>1. f \in [1..n -> Configured(lines)] /\ \A i \in 1..n : f[i] = lines[i].root
    BY <1>2
  <2> HIDE DEF f
  <2> QED BY <2>1 DEF Injection, IsInjective, NamesOnce
<1>5. IsFiniteSet(1..n) /\ Cardinality(1..n) = n
  BY <1>1, FS_Interval
<1> QED BY <1>3, <1>4, <1>5, FS_Surjection

\* What `remove`, `enable` and `disable` leave of a text: the lines of the
\* other roots as they are.
Says(op) ==
  CASE op = "remove" -> "absent" [] op = "enable" -> "enabled" [] op = "disable" -> "disabled"

LEMMA RemovalTells ==
  ASSUME NEW r \in Root, conf \in Seq(Line)
  PROVE  /\ Edited("remove", r) \in Seq(Line)
         /\ NamesOnce(conf) => NamesOnce(Edited("remove", r))
         /\ Told(Edited("remove", r)) = [Told(conf) EXCEPT ![r] = "absent"]
<1> DEFINE text == Edited("remove", r)
<1>1. Keeps(conf, r, Len(conf), text)
  BY WithoutKeeps DEF Edited
<1>2. text \in Seq(Line) /\ (NamesOnce(conf) => NamesOnce(text))
  BY <1>1 DEF Keeps
<1>3. Range(text) = {l \in Range(conf) : l.root # r}
  BY <1>1, LinesAre DEF Keeps
<1> HIDE DEF text
<1>4. ASSUME NEW q \in Root
      PROVE  Told(text)[q] = [Told(conf) EXCEPT ![r] = "absent"][q]
  <2>1. CASE q = r
    BY <1>2, <1>3, <2>1, ToldIs, ToldTyped
  <2>2. CASE q # r
    <3>1. \A l \in Range(conf) : l.root = q => l \in Range(text)
      BY <1>3, <2>2
    <3>2. \A l \in Range(text) : l \in Range(conf)
      BY <1>3
    <3> QED BY <1>2, <2>2, <3>1, <3>2, ToldIs, ToldTyped
  <2> QED BY <2>1, <2>2
<1>5. Told(text) = [Told(conf) EXCEPT ![r] = "absent"]
  BY <1>2, <1>4, ToldTyped DEF Told
<1> QED BY <1>2, <1>5 DEF text

LEMMA SwitchTells ==
  ASSUME NEW r \in Root, NEW op \in {"enable", "disable"},
         conf \in Seq(Line), r \in Configured(conf)
  PROVE  /\ Edited(op, r) \in Seq(Line)
         /\ NamesOnce(conf) => NamesOnce(Edited(op, r))
         /\ Told(Edited(op, r)) = [Told(conf) EXCEPT ![r] = Says(op)]
<1> DEFINE text == Edited(op, r)
           n == Len(conf)
<1>0. /\ n \in Nat /\ DOMAIN conf = 1..n /\ \A i \in 1..n : conf[i] \in Line
      /\ Range(conf) = {conf[i] : i \in 1..n}
  BY LenProperties, LinesAre
<1>1. text = [i \in 1..n |-> IF conf[i].root = r
                             THEN [conf[i] EXCEPT !.enabled = (op = "enable")] ELSE conf[i]]
  BY <1>0 DEF Edited
<1> HIDE DEF text
<1>2. ASSUME NEW i \in 1..n
      PROVE  /\ text[i] \in Line /\ text[i].root = conf[i].root
             /\ text[i].enabled = IF conf[i].root = r THEN op = "enable" ELSE conf[i].enabled
  BY <1>0, <1>1 DEF Line
<1>3. text \in Seq(Line) /\ Len(text) = n
  BY <1>0, <1>1, <1>2, IsASeq
<1>4. NamesOnce(conf) => NamesOnce(text)
  BY <1>2, <1>3 DEF NamesOnce
<1>5. Range(text) = {text[i] : i \in 1..n}
  BY <1>3, LinesAre
<1>6. ASSUME NEW q \in Root
      PROVE  Told(text)[q] = [Told(conf) EXCEPT ![r] = Says(op)][q]
  <2>1. (\A l \in Range(text) : l.root # q) <=> (\A l \in Range(conf) : l.root # q)
    BY <1>0, <1>2, <1>5
  <2>2. (\E l \in Range(text) : l.root = q /\ l.enabled)
          <=> \E i \in 1..n : text[i].root = q /\ text[i].enabled
    BY <1>5
  <2>3. (\E l \in Range(conf) : l.root = q /\ l.enabled)
          <=> \E i \in 1..n : conf[i].root = q /\ conf[i].enabled
    BY <1>0
  <2>4. CASE q = r
    <3>1. \E l \in Range(conf) : l.root = q
      BY <2>4 DEF Configured
    <3>2. PICK i \in 1..n : conf[i].root = q
      BY <1>0, <3>1
    <3>3. (\E j \in 1..n : text[j].root = q /\ text[j].enabled) <=> op = "enable"
      BY <1>2, <2>4, <3>2
    <3>4. Told(text)[q] = IF op = "enable" THEN "enabled" ELSE "disabled"
      BY <1>3, <2>1, <2>2, <3>1, <3>3, ToldIs
    <3> QED BY <2>4, <3>4, ToldTyped DEF Says
  <2>5. CASE q # r
    <3>1. (\E i \in 1..n : text[i].root = q /\ text[i].enabled)
            <=> \E i \in 1..n : conf[i].root = q /\ conf[i].enabled
      BY <1>2, <2>5
    <3>2. Told(text)[q] = Told(conf)[q]
      BY <1>3, <2>1, <2>2, <2>3, <3>1, ToldIs
    <3> QED BY <2>5, <3>2, ToldTyped
  <2> QED BY <2>4, <2>5
<1>7. Told(text) = [Told(conf) EXCEPT ![r] = Says(op)]
  BY <1>3, <1>6, ToldTyped DEF Told
<1> QED BY <1>3, <1>4, <1>7 DEF text

\* `add` appends a line for a root that has none.
LEMMA AdditionTells ==
  ASSUME conf \in Seq(Line), NEW r \in Root, r \notin Configured(conf)
  PROVE  LET text == Append(conf, [root |-> r, enabled |-> TRUE])
         IN  /\ text \in Seq(Line)
             /\ NamesOnce(conf) => NamesOnce(text)
             /\ Told(text) = [Told(conf) EXCEPT ![r] = "enabled"]
<1> DEFINE new == [root |-> r, enabled |-> TRUE]
           text == Append(conf, new)
<1>1. new \in Line /\ new.root = r /\ new.enabled
  BY DEF Line
<1> HIDE DEF new
<1>2. \A l \in Range(conf) : l.root # r
  BY DEF Configured
<1>3. /\ text \in Seq(Line) /\ Range(text) = Range(conf) \cup {new}
      /\ NamesOnce(conf) => NamesOnce(text)
  BY <1>1, <1>2, AppendRange, AppendNamesOnce
<1> HIDE DEF text
<1>4. ASSUME NEW q \in Root
      PROVE  Told(text)[q] = [Told(conf) EXCEPT ![r] = "enabled"][q]
  <2>1. CASE q = r
    BY <1>1, <1>3, <2>1, ToldIs, ToldTyped
  <2>2. CASE q # r
    <3>1. Told(text)[q] = Told(conf)[q]
      BY <1>1, <1>3, <2>2, ToldIs
    <3> QED BY <2>2, <3>1, ToldTyped
  <2> QED BY <2>1, <2>2
<1>5. Told(text) = [Told(conf) EXCEPT ![r] = "enabled"]
  BY <1>3, <1>4, ToldTyped DEF Told
<1> QED BY <1>3, <1>5 DEF text, new

-----------------------------------------------------------------------------
(* Types.  A command that is about to append a line must have a root.      *)

RootsInv ==
  /\ TypeOK
  /\ \A c \in Cmd : cmd[c].pc = "checked" => cmd[c].root \in Root

LEMMA Bounds ==
  MaxUpsets \in Nat /\ MaxStops \in Nat
BY RootsAssumption

LEMMA InitTyped == Init => RootsInv
<1> SUFFICES ASSUME Init PROVE RootsInv
  OBVIOUS
<1>1. conf \in Seq(Line) /\ <<>> \in Seq(Line)
  BY RootsAssumption DEF Init
<1>2. [op |-> "none", root |-> NoRoot, pc |-> "idle", text |-> <<>>] \in Command
  BY <1>1 DEF Command
<1>3. cmd \in [Cmd -> Command] /\ \A c \in Cmd : cmd[c].pc = "idle"
  BY <1>2 DEF Init
<1>4. wanted \in [Root -> {"absent", "enabled", "disabled"}]
  BY <1>1, ToldTyped DEF Init
<1>5. upsets \in 0..MaxUpsets /\ stops \in 0..MaxStops
  BY Bounds DEF Init
<1> QED BY <1>1, <1>3, <1>4, <1>5 DEF Init, RootsInv, TypeOK

LEMMA EditedTyped ==
  ASSUME NEW r \in Root, NEW op \in {"remove", "enable", "disable"},
         conf \in Seq(Line), r \in Configured(conf)
  PROVE  Edited(op, r) \in Seq(Line)
BY RemovalTells, SwitchTells

\* What a step does to the commands: one of them gets another state.
LEMMA CommandTyped ==
  ASSUME RootsInv, NEW c \in Cmd, NEW x \in Command, cmd' = [cmd EXCEPT ![c] = x],
         x.pc = "checked" => x.root \in Root
  PROVE  /\ cmd' \in [Cmd -> Command]
         /\ \A d \in Cmd : cmd'[d].pc = "checked" => cmd'[d].root \in Root
BY DEF RootsInv, TypeOK

LEMMA CommandStepTyped ==
  ASSUME RootsInv, CommandStep
  PROVE  RootsInv'
<1>0. <<>> \in Seq(Line) /\ conf \in Seq(Line) /\ cmd \in [Cmd -> Command]
  BY DEF RootsInv, TypeOK
<1>1. ASSUME NEW c \in Cmd, NEW r \in Root, AddChecks(c, r)
      PROVE  RootsInv'
  <2> DEFINE x == [op |-> "add", root |-> r, text |-> <<>>,
                   pc |-> IF r \in Configured(conf) THEN "over" ELSE "checked"]
  <2>1. x \in Command /\ x.root \in Root /\ cmd' = [cmd EXCEPT ![c] = x]
    BY <1>0, <1>1 DEF AddChecks, Command
  <2> HIDE DEF x
  <2>2. /\ cmd' \in [Cmd -> Command]
        /\ \A d \in Cmd : cmd'[d].pc = "checked" => cmd'[d].root \in Root
    BY <2>1, CommandTyped
  <2> QED BY <1>1, <2>2 DEF AddChecks, Begin, watcherUnchanged, counters, RootsInv, TypeOK
<1>2. ASSUME NEW c \in Cmd, NEW r \in Root, NEW op \in {"remove", "enable", "disable"},
             EditReads(c, op, r)
      PROVE  RootsInv'
  <2> DEFINE x == IF r \in Configured(conf)
                  THEN [op |-> op, root |-> r, pc |-> "ready", text |-> Edited(op, r)]
                  ELSE [op |-> op, root |-> r, pc |-> "over", text |-> <<>>]
  <2>1. x \in Command
    BY <1>0, EditedTyped DEF Command
  <2>2. x.root \in Root /\ cmd' = [cmd EXCEPT ![c] = x]
    BY <1>2 DEF EditReads
  <2> HIDE DEF x
  <2>3. /\ cmd' \in [Cmd -> Command]
        /\ \A d \in Cmd : cmd'[d].pc = "checked" => cmd'[d].root \in Root
    BY <2>1, <2>2, CommandTyped
  <2> QED BY <1>2, <2>3 DEF EditReads, Begin, watcherUnchanged, counters, RootsInv, TypeOK
<1>3. ASSUME NEW c \in Cmd, AddReads(c)
      PROVE  RootsInv'
  <2> DEFINE new == [root |-> cmd[c].root, enabled |-> TRUE]
             x == [cmd[c] EXCEPT !.pc = "ready", !.text = Append(conf, new)]
  <2>1. new \in Line
    BY <1>3 DEF AddReads, RootsInv, Line
  <2>2. Append(conf, new) \in Seq(Line)
    BY <1>0, <2>1, AppendProperties
  <2>3. x \in Command /\ x.pc = "ready"
    BY <1>0, <2>2 DEF Command
  <2>4. cmd' = [cmd EXCEPT ![c] = x]
    BY <1>0, <1>3 DEF AddReads, Command
  <2> HIDE DEF x
  <2>5. /\ cmd' \in [Cmd -> Command]
        /\ \A d \in Cmd : cmd'[d].pc = "checked" => cmd'[d].root \in Root
    BY <2>3, <2>4, CommandTyped
  <2> QED BY <1>3, <2>5 DEF AddReads, watcherUnchanged, counters, RootsInv, TypeOK
<1>4. ASSUME NEW c \in Cmd, NEW pc \in {"truncated", "over"}, cmd' = [cmd EXCEPT ![c].pc = pc]
      PROVE  /\ cmd' \in [Cmd -> Command]
             /\ \A d \in Cmd : cmd'[d].pc = "checked" => cmd'[d].root \in Root
  <2> DEFINE x == [cmd[c] EXCEPT !.pc = pc]
  <2>1. x \in Command /\ x.pc # "checked" /\ cmd' = [cmd EXCEPT ![c] = x]
    BY <1>0, <1>4 DEF Command
  <2> HIDE DEF x
  <2> QED BY <2>1, CommandTyped
<1>5. ASSUME NEW c \in Cmd, Truncate(c)
      PROVE  RootsInv'
  <2>1. /\ cmd' \in [Cmd -> Command]
        /\ \A d \in Cmd : cmd'[d].pc = "checked" => cmd'[d].root \in Root
    BY <1>4, <1>5 DEF Truncate
  <2> QED BY <1>0, <1>5, <2>1 DEF Truncate, FileEvent, counters, RootsInv, TypeOK
<1>6. ASSUME NEW c \in Cmd, Write(c)
      PROVE  RootsInv'
  <2>1. /\ cmd' \in [Cmd -> Command]
        /\ \A d \in Cmd : cmd'[d].pc = "checked" => cmd'[d].root \in Root
    BY <1>4, <1>6 DEF Write
  <2>2. cmd[c].text \in Seq(Line)
    BY <1>0 DEF Command
  <2>3. SubSeq(conf, Len(cmd[c].text) + 1, Len(conf)) \in Seq(Line)
    <3>1. Len(cmd[c].text) \in Nat /\ Len(conf) \in Nat
      BY <1>0, <2>2, LenProperties
    <3>2. \A i \in (Len(cmd[c].text) + 1)..Len(conf) : conf[i] \in Line
      BY <1>0, <3>1, ElementOfSeq
    <3> QED BY <1>0, <3>1, <3>2, SubSeqProperties
  <2>4. conf' \in Seq(Line)
    BY <1>6, <2>2, <2>3, ConcatProperties DEF Write
  <2> QED BY <1>6, <2>1, <2>4 DEF Write, FileEvent, counters, RootsInv, TypeOK
<1>7. ASSUME NEW c \in Cmd, Die(c)
      PROVE  RootsInv'
  <2>1. /\ cmd' \in [Cmd -> Command]
        /\ \A d \in Cmd : cmd'[d].pc = "checked" => cmd'[d].root \in Root
    BY <1>4, <1>7 DEF Die
  <2> QED BY <1>7, <2>1 DEF Die, watcherUnchanged, counters, RootsInv, TypeOK
<1> QED BY <1>1, <1>2, <1>3, <1>5, <1>6, <1>7 DEF CommandStep

LEMMA StepTyped == RootsInv /\ [Next]_vars => RootsInv'
<1> SUFFICES ASSUME RootsInv, [Next]_vars PROVE RootsInv'
  OBVIOUS
<1>0. conf \in Seq(Line) /\ Enabled(conf) \subseteq Root
  BY LinesAre DEF RootsInv, TypeOK
<1>1. CASE CommandStep
  BY <1>1, CommandStepTyped
<1>u. Upset \/ NoUpset => upsets' \in 0..MaxUpsets
  BY Bounds DEF Upset, NoUpset, RootsInv, TypeOK
<1>2. CASE Mount
  BY <1>2, <1>u DEF Mount, RootsInv, TypeOK
<1>3. CASE Start
  BY <1>0, <1>3 DEF Start, commandsUnchanged, counters, RootsInv, TypeOK
<1>4. CASE Arm
  BY <1>4 DEF Arm, commandsUnchanged, counters, RootsInv, TypeOK
<1>5. CASE StartupScan
  BY <1>5 DEF StartupScan, ScanOf, commandsUnchanged, counters, RootsInv, TypeOK
<1>6. CASE ReceiveEvent
  BY <1>6 DEF ReceiveEvent, commandsUnchanged, counters, RootsInv, TypeOK
<1>7. CASE DebounceEnds
  BY <1>7 DEF DebounceEnds, commandsUnchanged, counters, RootsInv, TypeOK
<1>8. CASE Reconcile
  <2>1. ASSUME CannotRead
        PROVE  /\ roots' \subseteq Root /\ watched' \subseteq Root /\ indexed' \subseteq Root
               /\ stuck' \subseteq Root /\ due' \in BOOLEAN /\ missed' \in BOOLEAN
               /\ upsets' \in 0..MaxUpsets
    BY <1>u, <2>1 DEF CannotRead, RootsInv, TypeOK
  <2>2. ASSUME NEW S \in SUBSET (Added \cap present),
               NEW K \in SUBSET (Removed \cap watched), TakeUp(S, K)
        PROVE  /\ roots' \subseteq Root /\ watched' \subseteq Root /\ indexed' \subseteq Root
               /\ stuck' \subseteq Root /\ due' \in BOOLEAN /\ missed' \in BOOLEAN
               /\ upsets' \in 0..MaxUpsets
    <3>1. upsets' \in 0..MaxUpsets
      BY <1>u, <2>2 DEF TakeUp
    <3>2. indexed' \subseteq Root /\ due' \in BOOLEAN
      BY <2>2 DEF TakeUp, ScanOf, RootsInv, TypeOK
    <3>3. roots' \subseteq Root /\ missed' \in BOOLEAN
      BY <1>0, <2>2 DEF TakeUp
    <3>4. watched' \subseteq Root /\ stuck' \subseteq Root
      BY <1>0, <2>2 DEF TakeUp, Rewatched, Added, Removed, RootsInv, TypeOK
    <3> QED BY <3>1, <3>2, <3>3, <3>4
  <2> QED BY <1>8, <2>1, <2>2 DEF Reconcile, commandsUnchanged, RootsInv, TypeOK
<1>9. CASE IntervalPasses
  BY <1>9 DEF IntervalPasses, commandsUnchanged, counters, RootsInv, TypeOK
<1>10. CASE PeriodicScan
  <2>1. upsets' \in 0..MaxUpsets
    BY <1>10, <1>u DEF PeriodicScan
  <2>2. indexed' \subseteq Root
    BY <1>10 DEF PeriodicScan, ScanOf, RootsInv, TypeOK
  <2> QED BY <1>10, <2>1, <2>2 DEF PeriodicScan, commandsUnchanged, RootsInv, TypeOK
<1>11. CASE Request
  <2>1. upsets' \in 0..MaxUpsets
    BY <1>11, <1>u DEF Request
  <2>2. indexed' \subseteq Root /\ due' \in BOOLEAN
    BY <1>11 DEF Request, ScanOf, RootsInv, TypeOK
  <2> QED BY <1>11, <2>1, <2>2 DEF Request, commandsUnchanged, RootsInv, TypeOK
<1>14. CASE Overflow
  <2>1. upsets' \in 0..MaxUpsets
    BY <1>14, <1>u DEF Overflow
  <2>2. indexed' \subseteq Root
    BY <1>14 DEF Overflow, ScanOf, RootsInv, TypeOK
  <2>3. event' \in BOOLEAN /\ missed' \in BOOLEAN /\ due' \in BOOLEAN
    BY <1>14 DEF Overflow, RootsInv, TypeOK
  <2> QED BY <1>14, <2>1, <2>2, <2>3 DEF Overflow, commandsUnchanged, RootsInv, TypeOK
<1>12. CASE Crash
  <2>1. stops' \in 0..MaxStops
    BY <1>12, Bounds DEF Crash, RootsInv, TypeOK
  <2> QED BY <1>12, <2>1 DEF Crash, commandsUnchanged, RootsInv, TypeOK
<1>13. CASE UNCHANGED vars
  BY <1>13 DEF vars, counters, RootsInv, TypeOK
<1> QED BY <1>1, <1>2, <1>3, <1>4, <1>5, <1>6, <1>7, <1>8, <1>9, <1>10, <1>11, <1>12, <1>13, <1>14
        DEF Next, WatcherStep

\* What commands write is lines, even what one of them leaves of the text of
\* another; roots and watches are of directories.
THEOREM TypeCorrect == Spec => []TypeOK
<1>1. RootsInv => TypeOK
  BY DEF RootsInv
<1> QED BY <1>1, InitTyped, StepTyped, PTL DEF Spec

-----------------------------------------------------------------------------
(* The watcher and the file.  RootsFollowConf is about the loop alone; the *)
(* roots are read before that, so the invariant follows them from there.   *)

Follows ==
  /\ phase # "down" /\ ~event /\ changed = "no" /\ ~missed => roots = Enabled(conf)
  /\ phase \in {"down", "loaded"} => watched = {}
  /\ watched \subseteq roots \cup stuck

LEMMA StepFollows == RootsInv /\ Follows /\ [Next]_vars => Follows'
<1> SUFFICES ASSUME RootsInv, Follows, [Next]_vars PROVE Follows'
  OBVIOUS
<1>0. /\ event \in BOOLEAN /\ missed \in BOOLEAN
      /\ phase \in {"down", "loaded", "armed", "loop"}
  BY DEF RootsInv, TypeOK
<1>1. ASSUME NEW c \in Cmd, Truncate(c) \/ Write(c)
      PROVE  Follows'
  BY <1>0, <1>1 DEF Truncate, Write, FileEvent, Follows
<1>2. CASE CommandStep /\ ~ \E c \in Cmd : Truncate(c) \/ Write(c)
  <2>1. UNCHANGED <<conf, phase, roots, watched, event, changed, missed, stuck>>
    BY <1>2 DEF CommandStep, AddChecks, EditReads, Begin, AddReads, Die, watcherUnchanged
  <2> QED BY <2>1 DEF Follows, Enabled
<1>3. CASE Mount
  BY <1>3 DEF Mount, Follows, Enabled
<1>4. CASE Start \/ Arm \/ StartupScan
  BY <1>4 DEF Start, Arm, StartupScan, commandsUnchanged, Follows, Enabled
<1>5. CASE ReceiveEvent \/ DebounceEnds \/ IntervalPasses \/ PeriodicScan \/ Request
  BY <1>5 DEF ReceiveEvent, DebounceEnds, IntervalPasses, PeriodicScan, Request,
              commandsUnchanged, Follows, Enabled
<1>6. CASE Reconcile
  <2>1. phase = "loop" /\ phase' = phase /\ conf' = conf
    BY <1>6 DEF Reconcile, commandsUnchanged
  <2>2. CASE CannotRead
    BY <1>0, <2>1, <2>2 DEF CannotRead, Follows, Enabled
  <2>3. ASSUME NEW S \in SUBSET (Added \cap present),
               NEW K \in SUBSET (Removed \cap watched), TakeUp(S, K)
        PROVE  Follows'
    <3>1. roots' = Enabled(conf)
      BY <2>3 DEF TakeUp
    <3>2. watched' \subseteq roots' \cup stuck'
      BY <2>3 DEF TakeUp, Rewatched, Added, Removed, Follows
    <3> QED BY <2>1, <3>1, <3>2 DEF Follows, Enabled
  <2> QED BY <1>6, <2>2, <2>3 DEF Reconcile
<1>7. CASE Overflow
  BY <1>0, <1>7 DEF Overflow, commandsUnchanged, Follows, Enabled
<1>8. CASE Crash
  BY <1>8 DEF Crash, Follows
<1>9. CASE UNCHANGED vars
  BY <1>9 DEF vars, Follows, Enabled
<1> QED BY <1>1, <1>2, <1>3, <1>4, <1>5, <1>6, <1>7, <1>8, <1>9
        DEF Next, WatcherStep

LEMMA InitFollows == Init => Follows
BY DEF Init, Follows

\* A watcher that has nothing of roots.conf left to take up has the roots the
\* file names, however commands overlap or die and however reconciliations
\* fail, unless a change came while it started, was dropped by the kernel or
\* found a file that could not be read.
THEOREM RootsFollow == Spec => []RootsFollowConf
<1>1. Follows => RootsFollowConf
  BY DEF Follows, RootsFollowConf
<1> QED BY <1>1, InitTyped, StepTyped, InitFollows, StepFollows, PTL DEF Spec

\* Nothing is watched that is not a root any more, however often roots are
\* removed, disabled, unmounted and mounted, and watches refused; a watch that
\* could not be given up is the one exception.
THEOREM OnlyRootsWatched == Spec => []WatchedAreRoots
<1>1. Follows => WatchedAreRoots
  BY DEF Follows, WatchedAreRoots
<1> QED BY <1>1, InitTyped, StepTyped, InitFollows, StepFollows, PTL DEF Spec

-----------------------------------------------------------------------------
(* Commands one after the other.  What has been asked for is in the file   *)
(* while none runs, in the text a command is about to write while one      *)
(* does, and while `add` has only checked, it is the file and a line more. *)

OneAtATime == \A c, d \in Active : c = d

AboutToWrite(c) ==
  /\ cmd[c].pc = "checked" =>
       /\ NamesOnce(conf) /\ cmd[c].root \notin Configured(conf)
       /\ wanted = [Told(conf) EXCEPT ![cmd[c].root] = "enabled"]
  /\ cmd[c].pc \in {"ready", "truncated"} =>
       NamesOnce(cmd[c].text) /\ Told(cmd[c].text) = wanted
  /\ cmd[c].pc = "truncated" => conf = <<>>

Serial ==
  ~disturbed =>
    /\ OneAtATime
    /\ Active = {} => Told(conf) = wanted /\ NamesOnce(conf)
    /\ \A c \in Cmd : AboutToWrite(c)

\* A command begins when no other one runs: it is the only one then.
LEMMA BeginSerial ==
  ASSUME RootsInv, Serial, ~disturbed', NEW c \in Cmd, NEW r \in Root,
         NEW op \in {"add", "remove", "enable", "disable"}, Begin(c, op, r)
  PROVE  /\ Active = {} /\ ~disturbed /\ conf' = conf
         /\ NamesOnce(conf) /\ Told(conf) = wanted
         /\ wanted' = [Told(conf) EXCEPT ![r] =
              CASE op = "add" -> IF @ = "absent" THEN "enabled" ELSE @
                [] op = "remove" -> "absent"
                [] op = "enable" -> IF @ = "absent" THEN @ ELSE "enabled"
                [] op = "disable" -> IF @ = "absent" THEN @ ELSE "disabled"]
<1>1. Active = {} /\ ~disturbed /\ conf' = conf
  BY DEF Begin, RootsInv, TypeOK
<1>2. NamesOnce(conf) /\ Told(conf) = wanted
  BY <1>1 DEF Serial
<1> QED BY <1>1, <1>2 DEF Begin

\* The state in which one command alone has begun.
LEMMA AloneSerial ==
  ASSUME RootsInv, NEW c \in Cmd, NEW x \in Command,
         cmd' = [cmd EXCEPT ![c] = x], Active \subseteq {c},
         x.pc \in {"checked", "ready", "truncated", "over"},
         AboutToWrite(c)',
         x.pc = "over" => Told(conf)' = wanted' /\ NamesOnce(conf)'
  PROVE  Serial'
<1>1. /\ cmd \in [Cmd -> Command] /\ cmd'[c] = x
      /\ \A d \in Cmd : d # c => cmd'[d] = cmd[d]
  BY DEF RootsInv, TypeOK
<1>2. \A d \in Cmd : d # c => cmd'[d].pc \notin {"checked", "ready", "truncated"}
  BY <1>1 DEF Active
<1>3. \A d \in Active' : d = c
  BY <1>2 DEF Active
<1>4. Active' = {} => x.pc = "over"
  BY <1>1 DEF Active
<1>5. \A d \in Cmd : d # c => AboutToWrite(d)'
  BY <1>2 DEF AboutToWrite
<1> QED BY <1>3, <1>4, <1>5 DEF Serial, OneAtATime

LEMMA StepSerial == RootsInv /\ Serial /\ [Next]_vars => Serial'
<1> SUFFICES ASSUME RootsInv, Serial, [Next]_vars, ~disturbed' PROVE Serial'
  BY DEF Serial
<1>0. /\ conf \in Seq(Line) /\ <<>> \in Seq(Line) /\ cmd \in [Cmd -> Command]
      /\ disturbed \in BOOLEAN
      /\ Told(conf) \in [Root -> {"absent", "enabled", "disabled"}]
      /\ \A q \in Root : Told(conf)[q] = "absent" <=> q \notin Configured(conf)
  BY ToldTyped DEF RootsInv, TypeOK, Told
<1>1. ASSUME NEW c \in Cmd, NEW r \in Root, AddChecks(c, r)
      PROVE  Serial'
  <2> DEFINE x == [op |-> "add", root |-> r, text |-> <<>>,
                   pc |-> IF r \in Configured(conf) THEN "over" ELSE "checked"]
  <2>1. x \in Command /\ cmd' = [cmd EXCEPT ![c] = x] /\ x.root = r
        /\ x.pc = (IF r \in Configured(conf) THEN "over" ELSE "checked")
    BY <1>0, <1>1 DEF AddChecks, Command
  <2> HIDE DEF x
  <2>2. /\ Active = {} /\ conf' = conf /\ NamesOnce(conf) /\ Told(conf) = wanted
        /\ wanted' = [Told(conf) EXCEPT ![r] = IF @ = "absent" THEN "enabled" ELSE @]
    BY <1>1, BeginSerial DEF AddChecks
  <2>3. CASE r \in Configured(conf)
    <3>1. wanted' = Told(conf)
      BY <1>0, <2>2, <2>3
    <3>2. AboutToWrite(c)' /\ Told(conf)' = wanted' /\ NamesOnce(conf)'
      BY <1>0, <2>1, <2>2, <2>3, <3>1 DEF AboutToWrite
    <3> QED BY <2>1, <2>2, <2>3, <3>2, AloneSerial
  <2>4. CASE r \notin Configured(conf)
    <3>1. wanted' = [Told(conf) EXCEPT ![r] = "enabled"]
      BY <1>0, <2>2, <2>4
    <3>2. cmd'[c] = x
      BY <1>0, <2>1
    <3>3. AboutToWrite(c)'
      BY <2>1, <2>2, <2>4, <3>1, <3>2 DEF AboutToWrite
    <3> QED BY <2>1, <2>2, <2>4, <3>3, AloneSerial
  <2> QED BY <2>3, <2>4
<1>2. ASSUME NEW c \in Cmd, NEW r \in Root, NEW op \in {"remove", "enable", "disable"},
             EditReads(c, op, r)
      PROVE  Serial'
  <2> DEFINE x == IF r \in Configured(conf)
                  THEN [op |-> op, root |-> r, pc |-> "ready", text |-> Edited(op, r)]
                  ELSE [op |-> op, root |-> r, pc |-> "over", text |-> <<>>]
  <2>1. /\ x \in Command /\ cmd' = [cmd EXCEPT ![c] = x]
        /\ r \in Configured(conf) => x.pc = "ready" /\ x.text = Edited(op, r)
        /\ r \notin Configured(conf) => x.pc = "over"
    BY <1>0, <1>2, EditedTyped DEF EditReads, Command
  <2> HIDE DEF x
  <2>2. /\ Active = {} /\ conf' = conf /\ NamesOnce(conf) /\ Told(conf) = wanted
        /\ wanted' = [Told(conf) EXCEPT ![r] =
              CASE op = "add" -> IF @ = "absent" THEN "enabled" ELSE @
                [] op = "remove" -> "absent"
                [] op = "enable" -> IF @ = "absent" THEN @ ELSE "enabled"
                [] op = "disable" -> IF @ = "absent" THEN @ ELSE "disabled"]
    BY <1>2, BeginSerial DEF EditReads
  <2>3. cmd'[c] = x
    BY <1>0, <2>1
  <2>4. CASE r \in Configured(conf)
    <3>1. wanted' = [Told(conf) EXCEPT ![r] = Says(op)]
      BY <1>0, <2>2, <2>4 DEF Says
    <3>2. NamesOnce(Edited(op, r)) /\ Told(Edited(op, r)) = wanted'
      BY <1>0, <2>2, <2>4, <3>1, RemovalTells, SwitchTells DEF Says
    <3>3. AboutToWrite(c)'
      BY <2>1, <2>3, <2>4, <3>2 DEF AboutToWrite
    <3> QED BY <2>1, <2>2, <2>4, <3>3, AloneSerial
  <2>5. CASE r \notin Configured(conf)
    <3>1. wanted' = Told(conf)
      BY <1>0, <2>2, <2>5
    <3>2. AboutToWrite(c)' /\ Told(conf)' = wanted' /\ NamesOnce(conf)'
      BY <2>1, <2>2, <2>3, <2>5, <3>1 DEF AboutToWrite
    <3> QED BY <2>1, <2>2, <2>5, <3>2, AloneSerial
  <2> QED BY <2>4, <2>5
\* A command that is under way goes on; it is the only one.
<1>3. ASSUME NEW c \in Cmd, c \in Active, ~disturbed
      PROVE  Active \subseteq {c} /\ AboutToWrite(c)
  BY <1>3 DEF Serial, OneAtATime
<1>4. ASSUME NEW c \in Cmd, AddReads(c)
      PROVE  Serial'
  <2> DEFINE new == [root |-> cmd[c].root, enabled |-> TRUE]
             x == [cmd[c] EXCEPT !.pc = "ready", !.text = Append(conf, new)]
  <2>1. /\ c \in Active /\ ~disturbed /\ cmd[c].root \in Root
        /\ conf' = conf /\ wanted' = wanted
    BY <1>4 DEF AddReads, Active, RootsInv
  <2>2. /\ Active \subseteq {c} /\ NamesOnce(conf) /\ cmd[c].root \notin Configured(conf)
        /\ wanted = [Told(conf) EXCEPT ![cmd[c].root] = "enabled"]
    BY <1>3, <1>4, <2>1 DEF AboutToWrite, AddReads
  <2>3. /\ Append(conf, new) \in Seq(Line) /\ NamesOnce(Append(conf, new))
        /\ Told(Append(conf, new)) = wanted
    BY <1>0, <2>1, <2>2, AdditionTells
  <2>4. x \in Command /\ x.pc = "ready" /\ x.text = Append(conf, new)
    BY <1>0, <2>3 DEF Command
  <2>5. cmd' = [cmd EXCEPT ![c] = x]
    BY <1>0, <1>4 DEF AddReads, Command
  <2> HIDE DEF x, new
  <2>6. cmd'[c] = x
    BY <1>0, <2>5
  <2>7. AboutToWrite(c)'
    BY <2>1, <2>3, <2>4, <2>6 DEF AboutToWrite
  <2> QED BY <2>2, <2>4, <2>5, <2>7, AloneSerial
<1>5. ASSUME NEW c \in Cmd, Truncate(c)
      PROVE  Serial'
  <2> DEFINE x == [cmd[c] EXCEPT !.pc = "truncated"]
  <2>1. c \in Active /\ ~disturbed /\ conf' = <<>> /\ wanted' = wanted
    BY <1>5 DEF Truncate, Active
  <2>2. /\ Active \subseteq {c}
        /\ NamesOnce(cmd[c].text) /\ Told(cmd[c].text) = wanted
    BY <1>3, <1>5, <2>1 DEF AboutToWrite, Truncate
  <2>3. x \in Command /\ x.pc = "truncated" /\ x.text = cmd[c].text
    BY <1>0 DEF Command
  <2>4. cmd' = [cmd EXCEPT ![c] = x]
    BY <1>5 DEF Truncate
  <2> HIDE DEF x
  <2>5. cmd'[c] = x
    BY <1>0, <2>4
  <2>6. AboutToWrite(c)'
    BY <2>1, <2>2, <2>3, <2>5 DEF AboutToWrite
  <2> QED BY <2>2, <2>3, <2>4, <2>6, AloneSerial
<1>6. ASSUME NEW c \in Cmd, Write(c)
      PROVE  Serial'
  <2> DEFINE x == [cmd[c] EXCEPT !.pc = "over"]
  <2>1. c \in Active /\ ~disturbed /\ wanted' = wanted
    BY <1>6 DEF Write, Active
  <2>2. /\ Active \subseteq {c} /\ conf = <<>>
        /\ NamesOnce(cmd[c].text) /\ Told(cmd[c].text) = wanted
    BY <1>3, <1>6, <2>1 DEF AboutToWrite, Write
  <2>3. conf' = cmd[c].text
    <3>1. cmd[c].text \in Seq(Line) /\ Len(cmd[c].text) \in Nat /\ Len(<<>>) = 0
      BY <1>0, LenProperties, EmptySeq DEF Command
    <3>2. SubSeq(<<>>, Len(cmd[c].text) + 1, 0) = <<>>
      BY <1>0, <3>1, SubSeqEmpty
    <3> QED BY <1>6, <2>2, <3>1, <3>2, ConcatEmptySeq DEF Write
  <2>4. x \in Command /\ x.pc = "over"
    BY <1>0 DEF Command
  <2>5. cmd' = [cmd EXCEPT ![c] = x]
    BY <1>6 DEF Write
  <2> HIDE DEF x
  <2>6. cmd'[c] = x
    BY <1>0, <2>5
  <2>7. AboutToWrite(c)' /\ Told(conf)' = wanted' /\ NamesOnce(conf)'
    BY <2>1, <2>2, <2>3, <2>4, <2>6 DEF AboutToWrite
  <2> QED BY <2>2, <2>4, <2>5, <2>7, AloneSerial
<1>7. ASSUME NEW c \in Cmd, Die(c)
      PROVE  FALSE
  BY <1>7 DEF Die
<1>8. CASE UNCHANGED <<conf, cmd, wanted, disturbed>>
  BY <1>8 DEF Serial, OneAtATime, Active, AboutToWrite
<1>9. CASE ~CommandStep
  <2>1. UNCHANGED <<conf, cmd, wanted, disturbed>>
    BY <1>9 DEF Next, WatcherStep, Mount, Start, Arm, StartupScan, ReceiveEvent, DebounceEnds,
       Reconcile, IntervalPasses, PeriodicScan, Request, Overflow, Crash, commandsUnchanged, vars
  <2> QED BY <1>8, <2>1
<1> QED BY <1>1, <1>2, <1>4, <1>5, <1>6, <1>7, <1>9 DEF CommandStep

\* Any number of commands, one after the other, leave the file as their
\* effects would: each changes its own root only and no root gets a second
\* line, from any file that names each root once.  (A file edited by hand may
\* name a root twice, and no command then mends it.)
THEOREM SerialCommands ==
  ASSUME \A lines \in InitialConf : Len(lines) = Cardinality(Configured(lines))
  PROVE  Spec => []SerialCommandsApply
<1>1. Init => Serial
  <2> SUFFICES ASSUME Init PROVE Serial
    OBVIOUS
  <2>1. conf \in InitialConf /\ conf \in Seq(Line)
    BY RootsAssumption DEF Init
  <2>2. NamesOnce(conf) /\ Told(conf) = wanted
    BY <2>1, OnceIsLength DEF Init
  <2>3. \A c \in Cmd : cmd[c].pc = "idle"
    BY DEF Init
  <2>4. Active = {} /\ \A c \in Cmd : AboutToWrite(c)
    BY <2>3 DEF Active, AboutToWrite
  <2> QED BY <2>2, <2>4 DEF Serial, OneAtATime
<1>2. RootsInv /\ Serial => SerialCommandsApply
  BY OnceIsLength DEF Serial, SerialCommandsApply, RootsInv, TypeOK
<1> QED BY <1>1, <1>2, InitTyped, StepTyped, StepSerial, PTL DEF Spec
=============================================================================
