------------------------------ MODULE RootsConf ------------------------------
(***************************************************************************)
(* The configured roots: `smriti roots add | remove | enable | disable`    *)
(* edit ~/.smriti/roots.conf (src/src/roots.rs), and the watcher follows   *)
(* the file (reconcile_roots and event_loop in src/src/watcher.rs).        *)
(*                                                                         *)
(* Of the index only the roots that have live rows are kept: Scan.tla      *)
(* models a scan, ScanRequests.tla how the scans clients ask for are       *)
(* queued, claimed and settled.  Each command runs once.                   *)
(***************************************************************************)
EXTENDS Integers, Sequences, FiniteSets, SequencesExt

CONSTANTS
  Root,        \* the directories that may be roots
  Cmd,         \* runs of `smriti roots`
  NoRoot,      \* the root of a command that has not begun
  InitialConf, \* the files to begin with
  MaxUpsets,   \* bound: times a root appears or disappears, the inotify queue
               \* overflows, a client asks for a scan, or a reconciliation or
               \* a periodic scan fails in part or as a whole
  MaxStops     \* bound: crashes of the watcher

Line == [root : Root, enabled : BOOLEAN]

ASSUME RootsAssumption ==
  /\ NoRoot \notin Root
  /\ InitialConf \subseteq Seq(Line)
  /\ {MaxUpsets, MaxStops} \subseteq Nat

VARIABLES
  conf,      \* the lines of roots.conf; a missing file has none
  cmd,       \* each command: what it does, where it is, what it will write
  present,   \* the roots that are directories now
  phase,     \* the watcher: "down", "loaded", "armed", "loop"
  roots,     \* the roots it has read
  watched,   \* the roots the kernel reports events of
  event,     \* an event of roots.conf is queued
  changed,   \* roots_changed, and whether roots_debounce is over since:
             \* "no", "recent", "ripe"
  due,       \* full_scan_interval has elapsed since last_full_scan
  indexed,   \* the roots that have live rows
  wanted,    \* observer: what the commands have asked for, one by one
  disturbed, \* observer: commands have overlapped, or one died half-way
  missed,    \* observer: roots.conf has changed and the watcher does not know
  stuck,     \* observer: roots no more whose watch it could not give up
  upsets, stops   \* counters for the bounds

counters == <<upsets, stops>>
vars == <<conf, cmd, present, phase, roots, watched, event, changed, due,
          indexed, wanted, disturbed, missed, stuck, counters>>

\* load_roots (without SMRITI_ROOTS, which fixes the roots).
Enabled(lines) == {l.root : l \in {m \in Range(lines) : m.enabled}}

Configured(lines) == {l.root : l \in Range(lines)}

\* What the lines say of each root.
Told(lines) ==
  [r \in Root |-> IF r \notin Configured(lines) THEN "absent"
                  ELSE IF r \in Enabled(lines) THEN "enabled" ELSE "disabled"]

Active == {c \in Cmd : cmd[c].pc \in {"checked", "ready", "truncated"}}

Command == [op : {"none", "add", "remove", "enable", "disable"},
            root : Root \cup {NoRoot},
            pc : {"idle", "checked", "ready", "truncated", "over"},
            text : Seq(Line)]

\* Commands write lines, the kernel reports events only of roots the watcher
\* has asked for.
TypeOK ==
  /\ conf \in Seq(Line) /\ cmd \in [Cmd -> Command]
  /\ present \subseteq Root /\ indexed \subseteq Root
  /\ phase \in {"down", "loaded", "armed", "loop"}
  /\ roots \subseteq Root /\ watched \subseteq Root /\ stuck \subseteq Root
  /\ event \in BOOLEAN /\ changed \in {"no", "recent", "ripe"} /\ due \in BOOLEAN
  /\ wanted \in [Root -> {"absent", "enabled", "disabled"}]
  /\ disturbed \in BOOLEAN /\ missed \in BOOLEAN
  /\ upsets \in 0..MaxUpsets /\ stops \in 0..MaxStops

Init ==
  /\ conf \in InitialConf
  /\ cmd = [c \in Cmd |-> [op |-> "none", root |-> NoRoot, pc |-> "idle", text |-> <<>>]]
  /\ present = Root
  /\ phase = "down" /\ roots = {} /\ watched = {}
  /\ event = FALSE /\ changed = "no" /\ due = FALSE
  /\ indexed = {}
  /\ wanted = Told(conf) /\ disturbed = FALSE /\ missed = FALSE /\ stuck = {}
  /\ upsets = 0 /\ stops = 0

-----------------------------------------------------------------------------
(* The commands: roots.rs.  Each reads the file, makes the new text of it,  *)
(* truncates it and writes (fs::write), without a lock.                     *)

watcherUnchanged ==
  UNCHANGED <<phase, roots, watched, event, changed, due, missed, stuck>>

\* A change of the file, for the watcher: an event if it has come to watch the
\* directory of the file, and nothing if it has read the file before that.
FileEvent ==
  /\ event' = (event \/ phase \in {"armed", "loop"})
  /\ missed' = (missed \/ phase = "loaded")
  /\ UNCHANGED <<phase, roots, watched, changed, due, stuck>>

\* The lines of the other roots, in their order.
Without(lines, r) ==
  LET kept[i \in 0..Len(lines)] ==
        IF i = 0 THEN <<>>
        ELSE IF lines[i].root = r THEN kept[i - 1] ELSE Append(kept[i - 1], lines[i])
  IN  kept[Len(lines)]

\* Mutant of Edited: a line that is to be disabled is dropped.
EditedAway(op, r) ==
  IF op \in {"remove", "disable"} THEN Without(conf, r)
  ELSE [i \in DOMAIN conf |->
          IF conf[i].root = r THEN [conf[i] EXCEPT !.enabled = (op = "enable")] ELSE conf[i]]

\* The text remove_root and set_root_enabled make of what they read.
Edited(op, r) ==
  IF op = "remove" THEN Without(conf, r)
  ELSE [i \in DOMAIN conf |->
          IF conf[i].root = r THEN [conf[i] EXCEPT !.enabled = (op = "enable")] ELSE conf[i]]

\* What the command is for; it takes the file as it finds it when it begins.
Begin(c, op, r) ==
  /\ cmd[c].pc = "idle"
  /\ disturbed' = (disturbed \/ Active # {})
  /\ wanted' = [wanted EXCEPT ![r] =
       CASE op = "add" -> IF @ = "absent" THEN "enabled" ELSE @
         [] op = "remove" -> "absent"
         [] op = "enable" -> IF @ = "absent" THEN @ ELSE "enabled"
         [] op = "disable" -> IF @ = "absent" THEN @ ELSE "disabled"]
  /\ watcherUnchanged
  /\ UNCHANGED <<conf, present, indexed, counters>>

\* add_root: nothing to do for a root that has a line, a disabled one included.
AddChecks(c, r) ==
  /\ Begin(c, "add", r)
  /\ cmd' = [cmd EXCEPT ![c] = [op |-> "add", root |-> r, text |-> <<>>,
       pc |-> IF r \in Configured(conf) THEN "over" ELSE "checked"]]

\* It reads the file a second time.
AddReads(c) ==
  /\ cmd[c].pc = "checked"
  /\ cmd' = [cmd EXCEPT ![c].pc = "ready",
                        ![c].text = Append(conf, [root |-> cmd[c].root, enabled |-> TRUE])]
  /\ watcherUnchanged
  /\ UNCHANGED <<conf, present, indexed, wanted, disturbed, counters>>

\* The others: an error if no line is the root's.
EditReads(c, op, r) ==
  /\ Begin(c, op, r)
  /\ cmd' = [cmd EXCEPT ![c] =
       IF r \in Configured(conf)
       THEN [op |-> op, root |-> r, pc |-> "ready", text |-> Edited(op, r)]
       ELSE [op |-> op, root |-> r, pc |-> "over", text |-> <<>>]]

Truncate(c) ==
  /\ cmd[c].pc = "ready"
  /\ cmd' = [cmd EXCEPT ![c].pc = "truncated"]
  /\ conf' = <<>>
  /\ FileEvent
  /\ UNCHANGED <<present, indexed, wanted, disturbed, counters>>

\* Over what another command may have written since the truncation: the end of
\* a longer text remains.  (Lines are taken to be of one length.)
Write(c) ==
  /\ cmd[c].pc = "truncated"
  /\ cmd' = [cmd EXCEPT ![c].pc = "over"]
  /\ conf' = cmd[c].text \o SubSeq(conf, Len(cmd[c].text) + 1, Len(conf))
  /\ FileEvent
  /\ UNCHANGED <<present, indexed, wanted, disturbed, counters>>

\* The command is killed.
Die(c) ==
  /\ c \in Active
  /\ cmd' = [cmd EXCEPT ![c].pc = "over"]
  /\ disturbed' = TRUE
  /\ watcherUnchanged
  /\ UNCHANGED <<conf, present, indexed, wanted, counters>>

CommandStep ==
  \E c \in Cmd :
    \/ \E r \in Root : AddChecks(c, r)
    \/ \E r \in Root, op \in {"remove", "enable", "disable"} : EditReads(c, op, r)
    \/ AddReads(c) \/ Truncate(c) \/ Write(c) \/ Die(c)

-----------------------------------------------------------------------------
(* A root is mounted or created, or goes away, and its watch with it.       *)

\* One more of a bounded number of things that go another way.
Upset == upsets < MaxUpsets /\ upsets' = upsets + 1
NoUpset == UNCHANGED upsets

Mount ==
  /\ Upset
  /\ \E r \in Root :
       /\ present' = IF r \in present THEN present \ {r} ELSE present \cup {r}
       /\ watched' = watched \ {r} /\ stuck' = stuck \ {r}
  /\ UNCHANGED <<conf, cmd, phase, roots, event, changed, due, indexed, wanted,
                 disturbed, missed, stops>>

-----------------------------------------------------------------------------
(* The watcher: run_watch_with_shutdown and event_loop.                    *)

commandsUnchanged == UNCHANGED <<conf, cmd, present, wanted, disturbed>>

\* Every scan closes the rows of the roots it does not go over, and of those
\* that are not there.
ScanOf(S) == indexed' = S \cap present

\* Without roots, or if it cannot read the file, it exits at once, to be
\* started again.
Start ==
  /\ phase = "down" /\ Enabled(conf) # {}
  /\ phase' = "loaded" /\ roots' = Enabled(conf)
  /\ commandsUnchanged
  /\ UNCHANGED <<watched, event, changed, due, indexed, missed, stuck, counters>>

\* The roots are watched, and after them the directory of roots.conf.
Arm ==
  /\ phase = "loaded"
  /\ phase' = "armed" /\ watched' = roots \cap present
  /\ commandsUnchanged
  /\ UNCHANGED <<roots, event, changed, due, indexed, missed, stuck, counters>>

StartupScan ==
  /\ phase = "armed"
  /\ phase' = "loop" /\ due' = FALSE
  /\ ScanOf(roots)
  /\ commandsUnchanged
  /\ UNCHANGED <<roots, watched, event, changed, missed, stuck, counters>>

\* Mutant of ReceiveEvent: only the first event of a burst is noted.
ReceiveFirst ==
  /\ phase = "loop" /\ event
  /\ event' = FALSE /\ changed' = IF changed = "no" THEN "recent" ELSE "no"
  /\ commandsUnchanged
  /\ UNCHANGED <<phase, roots, watched, due, indexed, missed, stuck, counters>>

ReceiveEvent ==
  /\ phase = "loop" /\ event
  /\ event' = FALSE /\ changed' = "recent"
  /\ commandsUnchanged
  /\ UNCHANGED <<phase, roots, watched, due, indexed, missed, stuck, counters>>

DebounceEnds ==
  /\ phase = "loop" /\ changed = "recent"
  /\ changed' = "ripe"
  /\ commandsUnchanged
  /\ UNCHANGED <<phase, roots, watched, event, due, indexed, missed, stuck, counters>>

Added == Enabled(conf) \ roots
Removed == roots \ Enabled(conf)

\* Mutant of Rewatched: removed roots are watched on.
RewatchedAdded(S, K) == watched \cup S

\* S are the added roots it comes to watch, K the removed ones it cannot stop
\* watching.
Rewatched(S, K) == (watched \ (Removed \ K)) \cup S

\* roots.conf is not to be read, or no UTF-8: an error that is logged, and
\* roots_changed has been reset.
CannotRead ==
  /\ Upset
  /\ missed' = (missed \/ roots # Enabled(conf))
  /\ UNCHANGED <<roots, watched, indexed, due, stuck>>

\* A root that is no directory or whose watch is refused is taken for a root
\* like the others and not tried again.  The scan goes over the added roots
\* alone and resets the clock of the periodic scan.
TakeUp(S, K) ==
  /\ roots' = Enabled(conf) /\ missed' = FALSE
  /\ watched' = Rewatched(S, K) /\ stuck' = (stuck \ Removed) \cup K
  /\ \/ /\ IF S = Added \cap present /\ K = {} THEN NoUpset ELSE Upset
        /\ IF S = {} THEN UNCHANGED <<indexed, due>> ELSE ScanOf(S) /\ due' = FALSE
     \/ S # {} /\ Upset                   \* the scan fails
        /\ UNCHANGED indexed /\ due' = FALSE
     \/ Added \cup Removed # {} /\ Upset  \* the heartbeat is not written
        /\ UNCHANGED <<indexed, due>>
     \/ S # {} /\ Upset                   \* ... or not after the scan
        /\ ScanOf(S) /\ UNCHANGED due

\* reconcile_roots.
Reconcile ==
  /\ phase = "loop" /\ changed = "ripe"
  /\ changed' = "no"
  /\ \/ CannotRead
     \/ \E S \in SUBSET (Added \cap present), K \in SUBSET (Removed \cap watched) : TakeUp(S, K)
  /\ commandsUnchanged
  /\ UNCHANGED <<phase, event, stops>>

IntervalPasses ==
  /\ phase = "loop" /\ ~due
  /\ due' = TRUE
  /\ commandsUnchanged
  /\ UNCHANGED <<phase, roots, watched, event, changed, indexed, missed, stuck, counters>>

\* Mutant of PeriodicScan: only the clock is reset.
PeriodicReset ==
  /\ phase = "loop" /\ due
  /\ due' = FALSE
  /\ commandsUnchanged
  /\ UNCHANGED <<phase, roots, watched, event, changed, indexed, missed, stuck, counters>>

\* The periodic scan; if it fails the clock starts again.
PeriodicScan ==
  /\ phase = "loop" /\ due
  /\ due' = FALSE
  /\ \/ ScanOf(roots) /\ NoUpset
     \/ UNCHANGED indexed /\ Upset
  /\ commandsUnchanged
  /\ UNCHANGED <<phase, roots, watched, event, changed, missed, stuck, stops>>

\* A scan that a client has asked for: of all roots, which resets the clock, or
\* of those it names.
Request ==
  /\ phase = "loop" /\ Upset
  /\ \/ ScanOf(roots) /\ due' = FALSE
     \/ (\E S \in SUBSET Root : ScanOf(S)) /\ UNCHANGED due
     \/ UNCHANGED indexed /\ due' \in {due, FALSE}
  /\ commandsUnchanged
  /\ UNCHANGED <<phase, roots, watched, event, changed, missed, stuck, stops>>

\* An overflow: an event of roots.conf may be among those dropped; a full scan
\* of the roots as they were follows.
Overflow ==
  /\ phase = "loop" /\ Upset
  /\ event' \in {event, FALSE} /\ missed' = (missed \/ event # event')
  /\ due' = FALSE
  /\ ScanOf(roots) \/ UNCHANGED indexed
  /\ commandsUnchanged
  /\ UNCHANGED <<phase, roots, watched, changed, stuck, stops>>

\* Killed, stopped, or ended by an error: a watch refused or a scan failed at
\* startup, a commit.
Crash ==
  /\ phase # "down" /\ stops < MaxStops
  /\ stops' = stops + 1
  /\ phase' = "down" /\ roots' = {} /\ watched' = {}
  /\ event' = FALSE /\ changed' = "no" /\ due' = FALSE /\ missed' = FALSE
  /\ stuck' = {}
  /\ commandsUnchanged
  /\ UNCHANGED <<indexed, upsets>>

WatcherStep ==
  Start \/ Arm \/ StartupScan \/ ReceiveEvent \/ DebounceEnds \/ Reconcile
    \/ IntervalPasses \/ PeriodicScan

Next == CommandStep \/ Mount \/ WatcherStep \/ Request \/ Overflow \/ Crash

\* The watcher is restarted and its loop goes on; the periodic scan comes when
\* its time has come.  Nothing is assumed of the commands.
Fairness ==
  /\ WF_vars(Start) /\ WF_vars(Arm) /\ WF_vars(StartupScan)
  /\ WF_vars(ReceiveEvent) /\ WF_vars(DebounceEnds) /\ WF_vars(Reconcile)
  /\ WF_vars(IntervalPasses) /\ WF_vars(PeriodicScan)

Spec == Init /\ [][Next]_vars

FairSpec == Spec /\ Fairness

-----------------------------------------------------------------------------
\* Commands that neither overlap nor die leave the file as their effects one
\* after the other would: each changes its own root only, and no root gets a
\* second line.
SerialCommandsApply ==
  ~disturbed /\ Active = {} =>
    Told(conf) = wanted /\ Len(conf) = Cardinality(Configured(conf))

\* A watcher with no event of roots.conf queued and no reconciliation pending
\* has the roots the file names, unless a change escaped it: one made while it
\* started, between its reading of the file and its watch on it, one whose
\* event was lost in an overflow, or one it could not read the file for.
RootsFollowConf ==
  phase = "loop" /\ ~event /\ changed = "no" /\ ~missed => roots = Enabled(conf)

\* No events are taken of a root that has been removed or disabled, unless its
\* watch could not be given up.
WatchedAreRoots == watched \subseteq roots \cup stuck

\* The watcher comes to follow the file, whatever the commands and the crashes
\* do on the way, or a change has escaped it in one of these ways: then nothing
\* makes it read the file before the next change or start.
FollowsEventually == <>[](missed \/ roots = Enabled(conf))

\* Every enabled root that is mounted is indexed in the end, though every
\* reconciliation, every full scan without it and every scan a client asked for
\* of other roots had closed its rows: the periodic scan goes over them all.
IndexedEventually == <>[](missed \/ Enabled(conf) \cap present \subseteq indexed)
=============================================================================
