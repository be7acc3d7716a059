-------------------------------- MODULE Triage --------------------------------
(***************************************************************************)
(* `smriti triage` (src/src/triage.rs, cmd_triage in src/src/main.rs): the *)
(* report over the index that suggests what to catalog, the decisions the  *)
(* user makes of it in an editor, their way back into ~/.smritiignore, and *)
(* what the parser of that file (parse_smritiignore in src/src/ignore.rs)  *)
(* then makes of them.                                                     *)
(*                                                                         *)
(* A target is a file or a directory; a pattern is the target it was       *)
(* written for.  The file is the sequence of its headers and patterns.     *)
(***************************************************************************)
EXTENDS Integers, FiniteSets, Sequences, SequencesExt

CONSTANTS
  File, Dir,
  Parent,      \* file -> its directory
  Content,     \* file -> its content
  Score,       \* file -> canonical_score, its rules aside
  Regenerable, \* directories the heuristics suggest to catalog
  Heavy,       \* directories of large media, suggested to be kept
  Outside,     \* targets not below the home directory
  ReadBack,    \* target -> the target whose path is its first word
  CollapseAt,  \* duplicates in two directories that make one suggestion of them
  FirstRules,  \* what the user may have in ~/.smritiignore at first
  Session      \* invocations of the command

Target == File \cup Dir
Header == {"[catalog]", "[no-embed]"}
Line == Header \cup Target

\* A pattern begins with a slash, a header with a bracket.
ASSUME TargetAssumption ==
  /\ IsFiniteSet(Target) /\ File \cap Dir = {} /\ Header \cap Target = {}
  /\ Parent \in [File -> Dir] /\ Score \in [File -> Int]
  /\ Regenerable \subseteq Dir /\ Heavy \subseteq Dir /\ Outside \subseteq Target
  /\ ReadBack \in [Target -> Target]
  /\ FirstRules \subseteq Seq(Line)

VARIABLES
  rules,     \* the lines of ~/.smritiignore
  indexed,   \* files with a live row
  session    \* session -> where it is and what it holds: its report (suggestions,
             \* canonical copies), its decisions, the file as it has read it

vars == <<rules, indexed, session>>

\* A suggestion is to catalog or to keep a target, a decision to catalog or to
\* ignore one.
NoReport == [suggestions |-> {}, canonical |-> {}]

Idle == [at |-> "start", report |-> NoReport, decisions |-> {}, read |-> <<>>]

-----------------------------------------------------------------------------
(* parse_smritiignore and the classification of a file.                    *)

Headers(lines) == {i \in DOMAIN lines : lines[i] \in Header}

\* The section of line i: that of the last header above it.
SectionOf(lines, i) ==
  LET above == {h \in Headers(lines) : h < i}
  IN IF above = {} THEN "ignored"
     ELSE lines[CHOOSE h \in above : \A g \in above : g <= h]

Patterns(lines, section) ==
  {lines[i] : i \in {j \in DOMAIN lines \ Headers(lines) : SectionOf(lines, j) = section}}

\* A pattern is anchored to the home directory, so it matches nothing outside;
\* one that matches a directory takes what is below it along.
Matches(t, f) == t \notin Outside /\ (t = f \/ t = Parent[f])

Classes(lines) ==
  LET ignored == Patterns(lines, "ignored")
      cataloged == Patterns(lines, "[catalog]")
  IN [f \in File |-> CASE \E t \in ignored : Matches(t, f) -> "Ignored"
                      [] ~(\E t \in ignored : Matches(t, f))
                           /\ \E t \in cataloged : Matches(t, f) -> "Cataloged"
                      [] OTHER -> "Indexed"]

-----------------------------------------------------------------------------
(* analyze and format_triage_file.                                         *)

\* Only a pattern for the file itself counts here, none for its directory.
Penalty(f) ==
  CASE f \in Patterns(rules, "ignored") \ Outside -> 80
    [] f \in Patterns(rules, "[catalog]") \ (Patterns(rules, "ignored") \cup Outside) -> 50
    [] OTHER -> 0

Scores == [f \in File |-> Score[f] - Penalty(f)]

Copies(c) == {f \in indexed : Content[f] = c}
Duplicated == {c \in {Content[f] : f \in indexed} : Cardinality(Copies(c)) > 1}

\* The best copy is the first of its group; of equals any one may be.
Best(c) == {f \in Copies(c) : \A g \in Copies(c) : Scores[f] >= Scores[g]}

Canonicals ==
  {C \in SUBSET UNION {Best(c) : c \in Duplicated} :
     \A c \in Duplicated : Cardinality(C \cap Copies(c)) = 1}

\* Two copies in two directories: the pair <<directory of the canonical one,
\* directory of the other>>.
PairOf(c, C) ==
  IF Cardinality(Copies(c)) # 2 THEN <<>>
  ELSE LET kept == CHOOSE f \in Copies(c) : f \in C
           dup == CHOOSE f \in Copies(c) : f \notin C
       IN IF Parent[kept] = Parent[dup] THEN <<>> ELSE <<Parent[kept], Parent[dup]>>

Collapsed(c, C) ==
  LET alike == {d \in Duplicated : PairOf(d, C) = PairOf(c, C)}
  IN PairOf(c, C) # <<>> /\ Cardinality(alike) >= CollapseAt

WithFiles == {Parent[f] : f \in indexed}

\* The heuristics over directories, which go by names, sizes and manifests.
Recommended ==
  {[action |-> "catalog", target |-> d] : d \in Regenerable \cap WithFiles}
    \cup {[action |-> "keep", target |-> d] : d \in (Heavy \ Regenerable) \cap WithFiles}

\* Mutant of Suggested: of a group every copy is cataloged.
SuggestedAll(C) ==
  {[action |-> "catalog", target |-> f] : f \in {g \in indexed : Content[g] \in Duplicated}}

Suggested(C) ==
  Recommended \cup
    UNION {IF Collapsed(c, C)
           THEN {[action |-> "catalog", target |-> PairOf(c, C)[2]]}
           ELSE {[action |-> IF f \in C THEN "keep" ELSE "catalog", target |-> f] :
                   f \in Copies(c)} : c \in Duplicated}

Analyze(s) ==
  /\ session[s].at = "start"
  /\ \E C \in Canonicals :
       /\ Suggested(C) # {}
       /\ session' = [session EXCEPT ![s].at = "editor",
                        ![s].report = [suggestions |-> Suggested(C), canonical |-> C]]
  /\ UNCHANGED <<rules, indexed>>

-----------------------------------------------------------------------------
(* parse_triage_file and apply_triage.                                     *)

\* What comes back of the edited lines: any action for each of them, and its
\* path up to the first blank.
Decisions(suggestions) ==
  {{[action |-> choice[x], target |-> ReadBack[x.target]] :
      x \in {y \in suggestions : choice[y] # "keep"}} :
     choice \in [suggestions -> {"catalog", "ignore", "keep"}]}

As(action, decisions) == {d.target : d \in {x \in decisions : x.action = action}}

\* The file is read after the editor has closed; nothing is written when
\* nothing was decided.
Read(s) ==
  /\ session[s].at = "editor"
  /\ \E decisions \in Decisions(session[s].report.suggestions) :
       session' = [session EXCEPT ![s].at = IF decisions = {} THEN "done" ELSE "write",
                                  ![s].decisions = decisions, ![s].read = rules]
  /\ UNCHANGED <<rules, indexed>>

\* Where catalog entries go: before the header that follows [catalog], or at
\* the end.
CatalogEnd(lines) ==
  LET catalog == CHOOSE i \in Headers(lines) :
                   lines[i] = "[catalog]" /\ \A j \in Headers(lines) :
                                               lines[j] = "[catalog]" => i <= j
      next == {i \in Headers(lines) : i > catalog}
  IN IF next = {} THEN Len(lines) + 1 ELSE CHOOSE i \in next : \A j \in next : i <= j

WithCatalog(lines, targets) ==
  IF targets = {} THEN lines
  ELSE IF \E i \in DOMAIN lines : lines[i] = "[catalog]"
  THEN SubSeq(lines, 1, CatalogEnd(lines) - 1) \o SetToSeq(targets)
         \o SubSeq(lines, CatalogEnd(lines), Len(lines))
  ELSE Append(lines, "[catalog]") \o SetToSeq(targets)

\* Mutant of Written: ignore entries are appended last.
WrittenLast(lines, decisions) ==
  WithCatalog(lines, As("catalog", decisions)) \o SetToSeq(As("ignore", decisions))

\* Mutant of Written: the file is replaced, not extended.
WrittenAnew(lines, decisions) ==
  WithCatalog(SetToSeq(As("ignore", decisions)), As("catalog", decisions))

\* Ignore entries go to the end of the file, in whatever section that is.
Written(lines, decisions) ==
  WithCatalog(lines \o SetToSeq(As("ignore", decisions)), As("catalog", decisions))

Write(s) ==
  /\ session[s].at = "write"
  /\ rules' = Written(session[s].read, session[s].decisions)
  /\ session' = [session EXCEPT ![s].at = "done"]
  /\ UNCHANGED indexed

\* A scan that has read the rules as they are: of all files only those
\* classified as indexed have a live row afterwards.
Rescan ==
  /\ indexed' = {f \in File : Classes(rules)[f] = "Indexed"}
  /\ UNCHANGED <<rules, session>>

-----------------------------------------------------------------------------
Init ==
  /\ rules \in FirstRules
  /\ indexed = {f \in File : Classes(rules)[f] = "Indexed"}
  /\ session = [s \in Session |-> Idle]

Next == (\E s \in Session : Analyze(s) \/ Read(s) \/ Write(s)) \/ Rescan

Spec == Init /\ [][Next]_vars

-----------------------------------------------------------------------------
(* What a session's write does to the classes of files.                    *)

Writes(s) == session[s].at = "write" /\ session'[s].at = "done"

\* No other session has written the file since this one read it.
Current(s) == session[s].read = rules

Rank(class) == CASE class = "Indexed" -> 0 [] class = "Cataloged" -> 1 [] OTHER -> 2

\* The decisions of a session take effect: what is to be cataloged below the
\* home directory is no longer indexed, and what is to be ignored is ignored,
\* unless the file already had a section, into which the entries then fall.
DecisionsTakeEffect ==
  [][\A s \in Session : Writes(s) =>
       \A d \in session[s].decisions, f \in File :
         Matches(d.target, f) =>
           \/ d.action = "catalog" /\ Classes(rules')[f] # "Indexed"
           \/ d.action = "ignore" /\ Classes(rules')[f] = "Ignored"
           \/ d.action = "ignore" /\ Headers(session[s].read) # {}]_vars

\* A session changes the class of no file it has no decision about, and makes
\* none less restricted, while no other session writes in between.
OnlyDecided ==
  [][\A s \in Session : Writes(s) /\ Current(s) =>
       \A f \in File :
         /\ Rank(Classes(rules')[f]) >= Rank(Classes(rules)[f])
         /\ \/ Classes(rules')[f] = Classes(rules)[f]
            \/ \E d \in session[s].decisions : Matches(d.target, f)]_vars

Legible(s) == \A x \in session[s].report.suggestions : ReadBack[x.target] = x.target

\* A user who takes the suggestions as they are keeps one copy of every
\* duplicate indexed, unless its directory is itself suggested as a whole.
AsSuggested(s) ==
  session[s].decisions = {[action |-> "catalog", target |-> x.target] :
                            x \in {y \in session[s].report.suggestions : y.action = "catalog"}}

KeepsACopy ==
  [][\A s \in Session : Writes(s) /\ Current(s) /\ AsSuggested(s) /\ Legible(s) =>
       \A f \in session[s].report.canonical :
         \/ Classes(rules')[f] = Classes(rules)[f]
         \/ [action |-> "catalog", target |-> Parent[f]] \in session[s].report.suggestions]_vars
=============================================================================
