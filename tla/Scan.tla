-------------------------------- MODULE Scan --------------------------------
(***************************************************************************)
(* The batch scanner (src/src/scanner.rs) and the rows of table paths it   *)
(* shares with the watcher's per-event writes.                             *)
(*                                                                         *)
(* One writer at a time (the writer lock).  The disk may change between    *)
(* any two steps of a scan; a scan may stop after any of them, by a crash  *)
(* or an error, and whatever its batches committed stays.                  *)
(*                                                                         *)
(* Timestamps are whole seconds, as in the database: clock.  Files have    *)
(* the same size, so the short-circuit on mtime and size is one on mtime.  *)
(***************************************************************************)
EXTENDS Integers, FiniteSets

CONSTANTS
  Path, Content, Absent,
  Root,        \* the configured roots
  RootOf,      \* the root each path is under
  ScanRoots,   \* the sets of roots a scan may be asked for
  BatchSize,   \* config.scan_batch_size
  MaxClock, MaxOps, MaxScans, MaxFaults   \* bounds

ASSUME ScanAssumption ==
  /\ Absent \notin Content
  /\ RootOf \in [Path -> Root]
  /\ ScanRoots \subseteq SUBSET Root
  /\ BatchSize \in Nat \ {0}
  /\ MaxClock \in Nat \ {0} /\ MaxOps \in Nat /\ MaxScans \in Nat /\ MaxFaults \in Nat

VARIABLES
  clock,     \* the current second
  fs,        \* path -> content and mtime of the file; the mtime of a removed
             \* file is kept only to fill the record
  rows,      \* table paths
  view,      \* what the event log says is at each path
  scan,      \* the scan under way, or the last one
  verified,  \* the rows were last seen to agree with an undisturbed disk
  ops, faults   \* counters for the bounds

vars == <<clock, fs, rows, view, scan, verified, ops, faults>>

File == Content \cup {Absent}
Second == 0..MaxClock
ScanId == 0..MaxScans
Live == 0       \* disappeared IS NULL
Unstamped == 0  \* last_seen_scan IS NULL

Row == [path : Path, content : Content, mtime : Second, appeared : Second,
        gone : Second, seen : ScanId]

\* An entry of the scan: not walked or dropped, to be hashed, to be committed
\* as unchanged or as read, committed.
EntryState == {"none", "pending", "short", "read", "done"}
EntryRec == [state : EntryState, content : File, mtime : Second]
NoEntry == [state |-> "none", content |-> Absent, mtime |-> 0]

Scan == [active : BOOLEAN, id : ScanId, now : Second, roots : SUBSET Root,
         prev : [Path -> File], stamp : [Path -> Second],
         unwalked : SUBSET Path, seen : SUBSET Path,
         entry : [Path -> EntryRec],
         events : [Path -> {"none", "created", "updated", "moved", "copied"}],
         faithful : BOOLEAN]

\* Rows are only written with the content, the seconds and the scan ids the
\* columns of table paths may have.
TypeOK ==
  /\ clock \in 1..MaxClock
  /\ fs \in [Path -> [content : File, mtime : Second]]
  /\ rows \in SUBSET Row
  /\ view \in [Path -> File]
  /\ scan \in Scan
  /\ verified \in BOOLEAN
  /\ ops \in 0..MaxOps /\ faults \in 0..MaxFaults

NoScan == [active |-> FALSE, id |-> 0, now |-> 0, roots |-> {},
           prev |-> [p \in Path |-> Absent], stamp |-> [p \in Path |-> 0],
           unwalked |-> {}, seen |-> {}, entry |-> [p \in Path |-> NoEntry],
           events |-> [p \in Path |-> "none"], faithful |-> FALSE]

Init ==
  /\ clock = 1
  /\ fs \in [Path -> [content : File, mtime : {0}]]
  /\ rows = {}
  /\ view = [p \in Path |-> Absent]
  /\ scan = NoScan
  /\ verified = FALSE
  /\ ops = 0 /\ faults = 0

-----------------------------------------------------------------------------
(* The rows.                                                               *)

LiveRows(R) == {r \in R : r.gone = Live}

LiveAt(R, p) == {r \in R : r.gone = Live /\ r.path = p}

\* load_prev_paths, content and mtime of the live row of each path.
LiveContent(R, p) ==
  IF LiveAt(R, p) = {} THEN Absent ELSE (CHOOSE r \in LiveAt(R, p) : TRUE).content
LiveStamp(R, p) ==
  IF LiveAt(R, p) = {} THEN 0 ELSE (CHOOSE r \in LiveAt(R, p) : TRUE).mtime

\* Mutant of Close: rows already closed are closed again.
CloseAgain(R, S, now) ==
  {IF \E s \in S : s.path = r.path THEN [r EXCEPT !.gone = now] ELSE r : r \in R}

\* UPDATE paths SET disappeared = now WHERE ... AND disappeared IS NULL.
Close(R, S, now) ==
  {IF r \in S /\ r.gone = Live THEN [r EXCEPT !.gone = now] ELSE r : r \in R}

\* INSERT OR REPLACE: (content, path, appeared) is unique.
Replace(R, new) ==
  {r \in R : ~(/\ r.path = new.path /\ r.content = new.content
               /\ r.appeared = new.appeared)} \cup {new}

\* Mutants of PutRead: the row appears at the file's mtime; a row closed
\* earlier comes back.
PutReadAtMtime(R, p, c, m, id, now) ==
  Replace(Close(R, LiveAt(R, p), now),
          [path |-> p, content |-> c, mtime |-> m, appeared |-> m,
           gone |-> Live, seen |-> id])

PutReadRevived(R, p, c, m, id, now) ==
  IF \E r \in R : r.path = p /\ r.gone # Live
  THEN {IF r.path = p /\ r.gone # Live THEN [r EXCEPT !.gone = Live, !.seen = id] ELSE r :
          r \in Close(R, LiveAt(R, p), now)}
  ELSE Replace(R, [path |-> p, content |-> c, mtime |-> m, appeared |-> now,
                   gone |-> Live, seen |-> id])

\* process_path for a file that was read, and for a short-circuited one.
PutRead(R, p, c, m, id, now) ==
  Replace(Close(R, LiveAt(R, p), now),
          [path |-> p, content |-> c, mtime |-> m, appeared |-> now,
           gone |-> Live, seen |-> id])

\* Mutant of PutShort: the row is not stamped.
PutShortUnstamped(R, p, id) == R

PutShort(R, p, id) ==
  {IF r \in LiveAt(R, p) THEN [r EXCEPT !.seen = id] ELSE r : r \in R}

-----------------------------------------------------------------------------
(* The disk and the clock.  A rename keeps the file's mtime.               *)

DiskChange ==
  /\ ops < MaxOps
  /\ ops' = ops + 1
  /\ verified' = FALSE
  /\ scan' = [scan EXCEPT !.faithful = FALSE]
  /\ UNCHANGED <<clock, rows, view, faults>>

WriteFile(p, c) ==
  /\ DiskChange
  /\ fs' = [fs EXCEPT ![p] = [content |-> c, mtime |-> clock]]

RemoveFile(p) ==
  /\ fs[p].content # Absent
  /\ DiskChange
  /\ fs' = [fs EXCEPT ![p].content = Absent]

RenameFile(p, q) ==
  /\ p # q /\ fs[p].content # Absent
  /\ DiskChange
  /\ fs' = [fs EXCEPT ![q] = fs[p], ![p].content = Absent]

ClockTick ==
  /\ clock < MaxClock
  /\ clock' = clock + 1
  /\ UNCHANGED <<fs, rows, view, scan, verified, ops, faults>>

-----------------------------------------------------------------------------
(* The watcher's per-event writes, between scans (handle_file and          *)
(* handle_delete of src/src/watcher.rs): the rows get no scan id.          *)

ReadByWatcher(p) == PutRead(rows, p, fs[p].content, fs[p].mtime, Unstamped, clock)

\* Whether an event is written is decided from the cache: what it knows of the
\* path may be older than the row (Watcher has the cache).  An event left out
\* for that counts as a fault, to bound it.
WatcherIndex(p, known) ==
  /\ ~scan.active
  /\ fs[p].content # Absent
  /\ rows' = ReadByWatcher(p)
  /\ view' = [view EXCEPT ![p] = IF known = fs[p].content THEN @ ELSE fs[p].content]
  /\ IF known = fs[p].content /\ known # LiveContent(rows, p)
     THEN faults < MaxFaults /\ faults' = faults + 1
     ELSE UNCHANGED faults
  /\ UNCHANGED <<clock, fs, scan, verified, ops>>

WatcherDelete(p) ==
  /\ ~scan.active
  /\ LiveAt(rows, p) # {}
  /\ rows' = Close(rows, LiveAt(rows, p), clock)
  /\ view' = [view EXCEPT ![p] = Absent]
  /\ verified' = FALSE
  /\ UNCHANGED <<clock, fs, scan, ops, faults>>

\* One that fails half-way is committed with the rest of its flush: the old
\* row closed, the new one perhaps written, and no event.
WatcherFails(p) ==
  /\ ~scan.active
  /\ faults < MaxFaults
  /\ faults' = faults + 1
  /\ \/ rows' = Close(rows, LiveAt(rows, p), clock)
     \/ fs[p].content # Absent /\ rows' = ReadByWatcher(p)
  /\ verified' = FALSE
  /\ UNCHANGED <<clock, fs, view, scan, ops>>

-----------------------------------------------------------------------------
(* A scan: scan_with_heartbeat, walk_roots, flush_batch, finalize_scan.    *)

\* A live row that has the mtime of its file and not its content: a change
\* within the second, or a file renamed over another of the same second.
Misleading ==
  \E r \in LiveRows(rows) :
    fs[r.path].mtime = r.mtime /\ fs[r.path].content \notin {Absent, r.content}

Begin(S) ==
  /\ ~scan.active
  /\ scan.id < MaxScans
  /\ scan' = [active |-> TRUE, id |-> scan.id + 1, now |-> clock, roots |-> S,
              prev |-> [p \in Path |-> LiveContent(rows, p)],
              stamp |-> [p \in Path |-> LiveStamp(rows, p)],
              unwalked |-> {p \in Path : RootOf[p] \in S}, seen |-> {},
              entry |-> [p \in Path |-> NoEntry],
              events |-> [p \in Path |-> "none"],
              faithful |-> S = Root /\ ~Misleading]
  /\ UNCHANGED <<clock, fs, rows, view, verified, ops, faults>>

WalkEntry(p) ==
  IF scan.prev[p] # Absent /\ scan.stamp[p] = fs[p].mtime
  THEN [state |-> "short", content |-> scan.prev[p], mtime |-> fs[p].mtime]
  ELSE [state |-> "pending", content |-> Absent, mtime |-> fs[p].mtime]

Walk(p) ==
  /\ scan.active /\ p \in scan.unwalked
  /\ scan' = IF fs[p].content = Absent
             THEN [scan EXCEPT !.unwalked = @ \ {p}]
             ELSE [scan EXCEPT !.unwalked = @ \ {p}, !.seen = @ \cup {p},
                               !.entry[p] = WalkEntry(p)]
  /\ UNCHANGED <<clock, fs, rows, view, verified, ops, faults>>

\* A file that walkdir or a stat refuses is left out, of seen too.
WalkFails(p) ==
  /\ scan.active /\ p \in scan.unwalked
  /\ faults < MaxFaults
  /\ faults' = faults + 1
  /\ scan' = [scan EXCEPT !.unwalked = @ \ {p}, !.faithful = FALSE]
  /\ UNCHANGED <<clock, fs, rows, view, verified, ops>>

\* Files are read in parallel after the walk.  One that is gone or cannot be
\* read is dropped from the entries; it stays in seen.
Hash(p) ==
  /\ scan.active /\ scan.unwalked = {}
  /\ scan.entry[p].state = "pending"
  /\ scan' = IF fs[p].content = Absent
             THEN [scan EXCEPT !.entry[p] = NoEntry]
             ELSE [scan EXCEPT !.entry[p].state = "read",
                               !.entry[p].content = fs[p].content]
  /\ UNCHANGED <<clock, fs, rows, view, verified, ops, faults>>

HashFails(p) ==
  /\ scan.active /\ scan.unwalked = {}
  /\ scan.entry[p].state = "pending"
  /\ faults < MaxFaults
  /\ faults' = faults + 1
  /\ scan' = [scan EXCEPT !.entry[p] = NoEntry, !.faithful = FALSE]
  /\ UNCHANGED <<clock, fs, rows, view, verified, ops>>

Hashed ==
  /\ scan.active /\ scan.unwalked = {}
  /\ \A p \in Path : scan.entry[p].state # "pending"

ToCommit == {p \in Path : scan.entry[p].state \in {"short", "read"}}

\* A chunk of the entries; the last one may be smaller.
Batches ==
  {B \in SUBSET ToCommit :
     B # {} /\ (Cardinality(B) = BatchSize
                \/ (B = ToCommit /\ Cardinality(B) < BatchSize))}

\* determine_event_type_provisional.
Provisional(p) ==
  IF scan.entry[p].content = scan.prev[p] THEN "none"
  ELSE IF scan.prev[p] = Absent THEN "created" ELSE "updated"

\* The paths of a batch are distinct, so are the rows it touches.
Committed(R, B) ==
  {r \in R : r.path \notin B}
    \cup UNION {{r \in (IF scan.entry[p].state = "short"
                        THEN PutShort(R, p, scan.id)
                        ELSE PutRead(R, p, scan.entry[p].content,
                                     scan.entry[p].mtime, scan.id, scan.now)) :
                   r.path = p} : p \in B}

CommitBatch(B) ==
  /\ Hashed
  /\ rows' = Committed(rows, B)
  /\ view' = [p \in Path |-> IF p \in B /\ Provisional(p) # "none"
                             THEN scan.entry[p].content ELSE view[p]]
  /\ scan' = [scan EXCEPT
       !.entry = [p \in Path |-> IF p \in B THEN [@[p] EXCEPT !.state = "done"]
                                 ELSE @[p]],
       !.events = [p \in Path |-> IF p \in B THEN Provisional(p) ELSE @[p]]]
  /\ UNCHANGED <<clock, fs, verified, ops, faults>>

\* finalize_scan: rows of any root that this scan did not stamp are closed,
\* with the second the scan began in.
Unseen(R) == {r \in LiveRows(R) : r.seen = Unstamped \/ r.seen < scan.id}

Finalized == Close(rows, Unseen(rows), scan.now)

\* Mutant of Vanished: deletions are reported for stamped rows only.
VanishedStamped ==
  {r.path : r \in {q \in Finalized :
                     /\ q.gone = scan.now /\ q.seen # Unstamped /\ q.seen < scan.id
                     /\ LiveAt(Finalized, q.path) = {}}}

\* The paths that get a 'deleted' event.
Vanished ==
  {r.path : r \in {q \in Finalized :
                     /\ q.gone = scan.now
                     /\ q.seen = Unstamped \/ q.seen < scan.id
                     /\ LiveAt(Finalized, q.path) = {}}}

\* Mutant of Upgraded: any path that had the content is a source.
UpgradedAlways(p) ==
  IF scan.events[p] = "created" /\ \E q \in Path : scan.prev[q] = scan.entry[p].content
  THEN "moved" ELSE scan.events[p]

\* 'created' becomes 'moved' if some path that had the content was not seen
\* by the walk, else 'copied' if some path had it (or 'hardlinked', the same
\* with a shared inode).
Upgraded(p) ==
  LET former == {q \in Path : scan.prev[q] = scan.entry[p].content}
  IN  IF scan.events[p] # "created" \/ former = {} THEN scan.events[p]
      ELSE IF former \subseteq scan.seen THEN "copied" ELSE "moved"

Finalize ==
  /\ Hashed /\ ToCommit = {}
  /\ rows' = Finalized
  /\ view' = [p \in Path |-> IF p \in Vanished THEN Absent ELSE view[p]]
  /\ scan' = [NoScan EXCEPT !.id = scan.id,
                            !.events = [p \in Path |-> Upgraded(p)]]
  /\ verified' = scan.faithful
  /\ UNCHANGED <<clock, fs, ops, faults>>

\* A crash, or an error of the walk, of a batch, of an update of scan_runs or
\* of the final transaction.
Abort ==
  /\ scan.active
  /\ scan' = [NoScan EXCEPT !.id = scan.id, !.events = scan.events]
  /\ UNCHANGED <<clock, fs, rows, view, verified, ops, faults>>

-----------------------------------------------------------------------------
Disk ==
  \/ \E p \in Path, c \in Content : WriteFile(p, c)
  \/ \E p \in Path : RemoveFile(p)
  \/ \E p, q \in Path : RenameFile(p, q)

ScanStep ==
  \/ \E S \in ScanRoots : Begin(S)
  \/ \E p \in Path : Walk(p) \/ WalkFails(p) \/ Hash(p) \/ HashFails(p)
  \/ \E B \in Batches : CommitBatch(B)
  \/ Finalize \/ Abort

Next ==
  \/ Disk \/ ClockTick \/ ScanStep
  \/ \E p \in Path : WatcherDelete(p) \/ WatcherFails(p)
                     \/ \E known \in File : WatcherIndex(p, known)

Spec == Init /\ [][Next]_vars

-----------------------------------------------------------------------------
\* A path has at most one live row, whatever stopped half-way: the table has
\* no constraint that says so.  HistoryDisjoint, which the runs check, implies
\* it; the proofs use it by itself.
OneLiveRow ==
  \A r, s \in LiveRows(rows) : r.path = s.path => r = s

\* After a scan of all roots during which the disk did not change, and which
\* no stale mtime misled, the live rows are what is on disk, whatever earlier
\* scans had left half-done.
CompletedScanMirrors ==
  verified => \A p \in Path : LiveContent(rows, p) = fs[p].content

\* The stretches of time the rows of one path cover do not overlap and do not
\* end before they begin.
HistoryDisjoint ==
  \A r, s \in rows :
    /\ r.gone # Live => r.appeared <= r.gone
    /\ r # s /\ r.path = s.path =>
         \/ r.gone # Live /\ r.gone <= s.appeared
         \/ s.gone # Live /\ s.gone <= r.appeared

\* A closed row stays as it is; the only thing that may take its place is a
\* live row of the same content that appeared in the same second.
HistoryKept ==
  [][\A r \in rows : r.gone # Live =>
       \/ r \in rows'
       \/ \E s \in rows' : /\ s.path = r.path /\ s.content = r.content
                           /\ s.appeared = r.appeared /\ s.gone = Live]_vars

\* A 'moved' event has a source: a path that had the content, and whose row
\* the same scan closes.
MovedHasSource ==
  [][Finalize =>
       \A p \in Path : scan'.events[p] = "moved" =>
         \E q \in Path : scan.prev[q] = scan.entry[p].content
                         /\ LiveAt(rows', q) = {}]_vars

\* A scan leaves the rows of roots it was not asked to scan alone.
OtherRootsPreserved ==
  [][Finalize => \A r \in LiveRows(rows) : RootOf[r.path] \notin scan.roots => r \in rows']_vars

\* Where the event log adds up to the live rows it goes on doing so, through
\* the batches of scans that never finish and the deletions of those that do.
\* Only the watcher parts them: by an event decided from what it no longer
\* should know, or one that failed half-way.
LogKept ==
  [][\A p \in Path : view[p] = LiveContent(rows, p) =>
       \/ view'[p] = LiveContent(rows', p)
       \/ WatcherFails(p)
       \/ \E known \in File : known # LiveContent(rows, p) /\ WatcherIndex(p, known)]_vars

\* Scans and per-event writes implement Mirror in what they do to the rows,
\* step by step: a content becomes live only by having been read at its path,
\* by the batch that commits it or by the event that led to it.
LiveContents == [p \in Path |-> LiveContent(rows, p)]

Promise == INSTANCE Mirror WITH
  disk <- [p \in Path |-> fs[p].content],
  staged <- [p \in Path |-> IF scan.entry[p].state = "read" THEN scan.entry[p].content
                            ELSE LiveContent(rows, p)],
  index <- LiveContents,
  log <- LiveContents

ImplementsMirror == Promise!Spec
=============================================================================
