--------------------------- MODULE Classification ---------------------------
(***************************************************************************)
(* Which files are indexed: the walk of a scan with its stack of           *)
(* .smritiignore layers (walk_roots in src/src/scanner.rs), and the        *)
(* classification the watcher makes of one path (classify_path in          *)
(* src/src/watcher.rs), over the rules of src/src/ignore.rs.               *)
(*                                                                         *)
(* A path is the sequence of its names.  A pattern is one literal name;    *)
(* how the crate `ignore` matches one is modelled by Matches.              *)
(***************************************************************************)
EXTENDS Integers, Sequences, FiniteSets, SequencesExt

CONSTANTS
  Name,        \* the names a path is made of
  Dir, File,   \* the paths there are
  WalkOrder,   \* the same in the order of a walk: directories before what is
               \* in them, names sorted
  RootLists,   \* the configured roots, in order: a set of sequences
  Rulebooks    \* the rules there may be: each a record of the user's rules,
               \* the built-in rules, and those of the directories with a file

Node == Dir \cup File

\* What holds something is a directory, and a walk is depth first: it comes to
\* a directory before what is in it, and to all of that before anything else.
ASSUME TreeAssumption ==
  /\ Dir \cap File = {} /\ Node \subseteq Seq(Name) \ {<<>>}
  /\ \A d \in Dir, n \in Node : IsStrictPrefix(d, n) => Front(n) \in Dir
  /\ WalkOrder \in Seq(Node) /\ \A n \in Node : \E i \in DOMAIN WalkOrder : WalkOrder[i] = n
  /\ \A i, j \in DOMAIN WalkOrder : IsStrictPrefix(WalkOrder[i], WalkOrder[j]) => i < j
  /\ \A i, j, k \in DOMAIN WalkOrder :
       i < j /\ j < k /\ IsPrefix(WalkOrder[i], WalkOrder[k]) => IsPrefix(WalkOrder[i], WalkOrder[j])
  /\ \A list \in RootLists : list \in Seq(Dir)

VARIABLES
  book, roots,    \* what the walk is given
  ri, todo,       \* the root being walked, and its entries not yet visited
  layers,         \* ignore_stack: the directories whose rules are on it
  depths,         \* dir_depth_stack
  skip,           \* skip_subtrees
  catalog,        \* catalog_dirs
  entries         \* the files to be indexed

given == <<book, roots>>
vars == <<given, ri, todo, layers, depths, skip, catalog, entries>>

Class == {"Ignored", "Cataloged", "Indexed"}

-----------------------------------------------------------------------------
(* Rules: ignore.rs.                                                       *)

\* The path as the matcher of the rules of base sees it: relative to base if
\* it is below it, as it is if not.
Relative(base, path) ==
  IF IsPrefix(base, path) THEN SubSeq(path, Len(base) + 1, Len(path)) ELSE path

\* A pattern with a leading slash matches in its base only, one without at any
\* depth; one with a trailing slash matches directories only.
Matches(pattern, base, path) ==
  LET rel == Relative(base, path)
  IN /\ rel # <<>> /\ Last(rel) = pattern.name
     /\ pattern.dirOnly => path \in Dir
     /\ pattern.anchored => IsPrefix(base, path) /\ Len(rel) = 1

\* Gitignore::matched: the last pattern that matches decides.
Matched(section, base, path) ==
  LET hits == {i \in DOMAIN section : Matches(section[i], base, path)}
  IN IF hits = {} THEN "None"
     ELSE IF section[Max(hits)].negated THEN "Whitelist" ELSE "Ignore"

\* classify_against: of the two sections the first has priority.
Against(rules, base, path) ==
  IF Matched(rules.ignored, base, path) = "Ignore" THEN "Ignored"
  ELSE IF Matched(rules.cataloged, base, path) = "Ignore" THEN "Cataloged"
  ELSE "None"

\* IgnoreStack::classify: the topmost layer with an opinion, the built-in rules
\* of the root at the bottom.
StackClassify(root, dirs, path) ==
  LET verdict == <<Against(book.defaults, root, path)>>
                   \o [i \in DOMAIN dirs |-> Against(book.layer[dirs[i]], dirs[i], path)]
      hits == {i \in DOMAIN verdict : verdict[i] # "None"}
  IN IF hits = {} THEN "Indexed" ELSE verdict[Max(hits)]

\* classify_section_rules, of the user's own rules.
UserClassify(path) ==
  LET c == Against(book.user, <<>>, path) IN IF c = "None" THEN "Indexed" ELSE c

\* most_restrictive, of any number of classifications.
MostRestrictive(classes) ==
  IF "Ignored" \in classes THEN "Ignored"
  ELSE IF "Cataloged" \in classes THEN "Cataloged" ELSE "Indexed"

\* The paths from root to path, and those of them that hold rules.
Chain(root, path) == [i \in 1..(Len(path) - Len(root) + 1) |-> SubSeq(path, 1, Len(root) + i - 1)]
WithRules(dirs) ==
  LET held[i \in 0..Len(dirs)] ==
        IF i = 0 THEN <<>>
        ELSE IF dirs[i] \in DOMAIN book.layer THEN Append(held[i - 1], dirs[i])
        ELSE held[i - 1]
  IN  held[Len(dirs)]
ParentOrSelf(path) == IF path \in Dir THEN path ELSE Front(path)

-----------------------------------------------------------------------------
(* The walk: walk_roots.                                                   *)

Init ==
  /\ book \in Rulebooks /\ roots \in RootLists
  /\ ri = 0 /\ todo = <<>>
  /\ layers = <<>> /\ depths = <<>>
  /\ skip = {} /\ catalog = {} /\ entries = {}

\* The part of the order that is below root.
Below(root) ==
  LET at == {i \in DOMAIN WalkOrder : IsPrefix(root, WalkOrder[i])}
  IN SubSeq(WalkOrder, Min(at), Max(at))

NextRoot ==
  /\ todo = <<>> /\ ri < Len(roots)
  /\ ri' = ri + 1 /\ todo' = Below(roots[ri + 1])
  /\ layers' = <<>> /\ depths' = <<>>
  /\ UNCHANGED <<given, skip, catalog, entries>>

Entry == Head(todo)
Depth == Len(Entry) - Len(roots[ri])

InSkipped == \E s \in skip : IsStrictPrefix(s, Entry)

\* The subtrees that are kept in skip_subtrees when the walk comes to path.
Retained(path) == {s \in skip : IsPrefix(s, path) \/ ~IsPrefix(Front(path), s)}

\* Mutant of Kept: the layer of a sibling directory stays.
KeptSibling == Max({0} \cup {i \in DOMAIN depths : depths[i] <= Depth})

\* How many layers are left when those at the depth of the entry, or deeper,
\* have been popped.
Kept == Max({0} \cup {i \in DOMAIN depths : depths[i] < Depth})

Pushed == Entry \in Dir /\ Entry \in DOMAIN book.layer
StackNow == SubSeq(layers, 1, Kept) \o (IF Pushed THEN <<Entry>> ELSE <<>>)

Classified == MostRestrictive({UserClassify(Entry), StackClassify(roots[ri], StackNow, Entry)})

SkipEntry ==
  /\ todo # <<>> /\ InSkipped
  /\ todo' = Tail(todo)
  /\ UNCHANGED <<given, ri, layers, depths, skip, catalog, entries>>

\* What is done with every entry that is not in a skipped subtree.
Visit ==
  /\ todo # <<>> /\ ~InSkipped
  /\ todo' = Tail(todo)
  /\ layers' = StackNow
  /\ depths' = SubSeq(depths, 1, Kept) \o (IF Pushed THEN <<Depth>> ELSE <<>>)
  /\ UNCHANGED <<given, ri>>

\* Mutant of SkipDirectory: its subtree is walked.
SkipNothing ==
  /\ Visit /\ Entry \in Dir /\ Classified # "Indexed"
  /\ skip' = Retained(Entry)
  /\ UNCHANGED <<catalog, entries>>

SkipDirectory ==
  /\ Visit /\ Entry \in Dir /\ Classified # "Indexed"
  /\ skip' = Retained(Entry) \cup {Entry}
  /\ catalog' = IF Classified = "Cataloged" THEN catalog \cup {Entry} ELSE catalog
  /\ UNCHANGED entries

EnterDirectory ==
  /\ Visit /\ Entry \in Dir /\ Classified = "Indexed"
  /\ skip' = Retained(Entry)
  /\ UNCHANGED <<catalog, entries>>

SkipFile ==
  /\ Visit /\ Entry \in File /\ Classified # "Indexed"
  /\ skip' = Retained(Entry)
  /\ UNCHANGED <<catalog, entries>>

IndexFile ==
  /\ Visit /\ Entry \in File /\ Classified = "Indexed"
  /\ skip' = Retained(Entry)
  /\ entries' = entries \cup {Entry}
  /\ UNCHANGED catalog

Next == NextRoot \/ SkipEntry \/ SkipDirectory \/ EnterDirectory \/ SkipFile \/ IndexFile

Spec == Init /\ [][Next]_vars

Done == ri = Len(roots) /\ todo = <<>>

-----------------------------------------------------------------------------
(* One path: the watcher.                                                  *)

\* find_root_for_path: the first root the path is under.
Under(path) == {i \in DOMAIN roots : IsPrefix(roots[i], path)}
RootFor(path) == roots[Min(Under(path))]

\* Mutant of ClassifyPath: its ancestors are not classified.
ClassifyItself(root, path) ==
  LET dirs == WithRules(Chain(root, ParentOrSelf(path)))
  IN MostRestrictive({UserClassify(path), StackClassify(root, dirs, path)})

\* classify_path: every directory on the way down is classified with all the
\* layers down to the path's own directory on the stack.
ClassifyPath(root, path) ==
  LET dirs == WithRules(Chain(root, ParentOrSelf(path)))
      chain == {path} \cup Range(Chain(root, ParentOrSelf(path)))
  IN MostRestrictive({UserClassify(p) : p \in chain} \cup {StackClassify(root, dirs, p) : p \in chain})

\* handle_file and handle_new_directory: the files an event on path indexes.
\* A directory that is not indexed is passed over but not its contents, which
\* are classified one by one.
IndexedOn(path) ==
  IF ClassifyPath(RootFor(path), path) # "Indexed" THEN {}
  ELSE {f \in File : IsPrefix(path, f) /\ ClassifyPath(RootFor(path), f) = "Indexed"}

-----------------------------------------------------------------------------
(* What both are to compute.                                               *)

\* A file is to be indexed under a root if neither it nor a directory on the
\* way to it is excluded by the rules of the directories above it (its own for
\* a directory).
Admitted(root, p) ==
  /\ UserClassify(p) = "Indexed"
  /\ StackClassify(root, WithRules(Chain(root, ParentOrSelf(p))), p) = "Indexed"

Wanted(root, file) == \A p \in Range(Chain(root, file)) : Admitted(root, p)

\* The two stacks grow and shrink together, a layer belongs to a directory that
\* has rules, only directories are skipped or cataloged, only files indexed.
TypeOK ==
  /\ book \in Rulebooks /\ roots \in RootLists
  /\ ri \in 0..Len(roots) /\ todo \in Seq(Node)
  /\ layers \in Seq(DOMAIN book.layer) /\ depths \in Seq(Nat) /\ Len(depths) = Len(layers)
  /\ skip \subseteq Dir /\ catalog \subseteq Dir /\ entries \subseteq File

\* Whatever was skipped or left in between, the layers an entry is judged by
\* are those of the directories above it that have rules, and no others; and
\* the two stacks keep one length.
StackFits ==
  /\ TypeOK
  /\ todo # <<>> /\ ~InSkipped =>
       SubSeq(layers, 1, Kept) = WithRules(Chain(roots[ri], Front(Entry)))

\* No file is indexed that the rules exclude under every root it is in, and a
\* completed walk has indexed every file that is wanted under the first root it
\* is in, whatever other roots above or below that one were walked before.
WalkIndexesWanted ==
  /\ \A f \in entries : \E i \in Under(f) : Wanted(roots[i], f)
  /\ Done => \A f \in File : Under(f) # {} /\ Wanted(RootFor(f), f) => f \in entries

\* The watcher indexes no file, on an event of its own or of a directory above
\* it, that a full scan would close again because it does not see it.
WatcherIndexesOnlyWalked ==
  Done => \A n \in Node : Under(n) # {} => IndexedOn(n) \subseteq entries
=============================================================================
