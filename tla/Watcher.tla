------------------------------- MODULE Watcher -------------------------------
(***************************************************************************)
(* The watcher process (src/src/watcher.rs): a filesystem whose changes    *)
(* are reported through a queue, the debounce buffer, and the rows and     *)
(* event log of index.db that the single-threaded event loop maintains.    *)
(*                                                                         *)
(* One root, files and the directories that hold them.  A scan is one step *)
(* here: Scan.tla models its phases and batches.                           *)
(***************************************************************************)
EXTENDS Debounce, Sequences

CONSTANTS
  Content,    \* versions of a file: what is in it, its mtime and its size
  Looks,      \* version -> what a scan compares: mtime in seconds, and size
  Absent,     \* no file, no live row
  Dir,        \* the paths that are directories
  Name,       \* names of the files in a directory
  Below,      \* directory -> name -> path of the file
  FileOps,    \* the filesystem operations of the instance
  MaxOps,     \* bound: filesystem operations
  MaxLosses,  \* bound: overflows of the inotify queue
  MaxStops,   \* bound: crashes and shutdowns of the watcher
  MaxFailures,\* bound: events whose processing fails
  MaxFaults   \* bound: scans that stop on an error or drop files

ASSUME ContentAssumption == Absent \notin Content

ASSUME DirAssumption ==
  Dir \subseteq Path /\ Below \in [Dir -> [Name -> Path \ Dir]]

ASSUME BoundAssumption ==
  MaxOps \in Nat /\ MaxLosses \in Nat /\ MaxStops \in Nat
  /\ MaxFailures \in Nat /\ MaxFaults \in Nat

VARIABLES
  fs,      \* what is on disk: path -> content
  queue,   \* events between the kernel and recv_timeout
  phase,   \* where the watcher is
  db,      \* committed: live rows, and the state the event log adds up to
  tx,      \* the same as seen inside the transaction of a flush
  prev,    \* ctx.prev_paths: path -> content last known to the watcher
  job,     \* the flush being processed
  unhealed,   \* history: an event or a scan failed since the last scan that
              \* met no fault
  unread,     \* history: paths whose row that scan took over unread although
              \* the file was another, and that no event has led to since
  ops, losses, stops, failures, faults   \* counters for the bounds

watcherVars == <<entries, moves, queue, phase, db, tx, prev, job>>
history == <<unhealed, unread>>
counters == <<ops, losses, stops, failures, faults>>
vars == <<fs, watcherVars, history, counters>>

OverflowMark == [kind |-> "Overflow"]

File == Content \cup {Absent}
Rows == [live : [Path -> File], view : [Path -> File]]
NoFiles == [p \in Path |-> Absent]

Job == [deletes : SUBSET FlushedEvent, changes : SUBSET FlushedEvent,
        removed : SUBSET Path, indexed : [Path -> File], stopping : BOOLEAN]

\* A directory is there as long as a file is in it; it has no content itself.
Disk == {f \in [Path -> File] : \A d \in Dir : f[d] = Absent}
NoJob == [deletes |-> {}, changes |-> {}, removed |-> {}, indexed |-> NoFiles,
          stopping |-> FALSE]

\* Rows, caches and the batch under way keep their shapes, and the queue holds
\* only events that insert and the overflow branch know.
TypeOK ==
  /\ BufferTypeOK
  /\ fs \in Disk
  /\ queue \in Seq(FsEvent \cup {OverflowMark})
  /\ phase \in {"down", "starting", "receive", "flush", "batch"}
  /\ db \in Rows /\ tx \in Rows
  /\ prev \in [Path -> File]
  /\ job \in Job
  /\ ops \in 0..MaxOps /\ losses \in 0..MaxLosses /\ stops \in 0..MaxStops
  /\ failures \in 0..MaxFailures /\ faults \in 0..MaxFaults
  /\ unhealed \in BOOLEAN /\ unread \in SUBSET Path

Init ==
  /\ BufferInit
  /\ fs \in Disk
  /\ queue = <<>>
  /\ phase = "down"
  /\ db = [live |-> NoFiles, view |-> NoFiles]
  /\ tx = db
  /\ prev = NoFiles
  /\ job = NoJob
  /\ unhealed = FALSE /\ unread = {}
  /\ ops = 0 /\ losses = 0 /\ stops = 0 /\ failures = 0 /\ faults = 0

-----------------------------------------------------------------------------
(* The filesystem.  Watches are registered from "starting" on; while the   *)
(* watcher is down nothing is reported.  A full inotify queue loses the    *)
(* events of an operation and leaves one overflow mark at its end.         *)

Watching == phase # "down"

Report(events) ==
  \/ /\ queue' = IF Watching THEN queue \o events ELSE queue
     /\ UNCHANGED losses
  \/ /\ Watching /\ losses < MaxLosses
     /\ queue' = Append(queue, OverflowMark)
     /\ losses' = losses + 1

Operation(op) ==
  /\ op \in FileOps
  /\ ops < MaxOps
  /\ ops' = ops + 1
  /\ UNCHANGED <<entries, moves, phase, db, tx, prev, job, history,
                 stops, failures, faults>>

Event(kind, p) == [kind |-> kind, path |-> p]
MoveEvent(kind, p, k) == [kind |-> kind, path |-> p, cookie |-> k]

\* A cookie no event in flight carries.
FreshCookie(k) ==
  /\ ~MovePending(k)
  /\ \A i \in DOMAIN queue :
       queue[i].kind \in {"MovedFrom", "MovedTo"} => queue[i].cookie # k

Write(p, c) ==
  /\ p \notin Dir
  /\ Operation("write")
  /\ fs' = [fs EXCEPT ![p] = c]
  /\ \E closed \in {<<>>, <<Event("CloseWrite", p)>>} :
       Report(<<Event(IF fs[p] = Absent THEN "Create" ELSE "Modify", p)>> \o closed)

Delete(p) ==
  /\ fs[p] # Absent
  /\ Operation("delete")
  /\ fs' = [fs EXCEPT ![p] = Absent]
  /\ Report(<<Event("Delete", p)>>)

\* A write to a file that was unlinked while open is reported under the path
\* the file had.
LateWrite(p) ==
  /\ p \notin Dir
  /\ Operation("lateWrite")
  /\ UNCHANGED fs
  /\ \E closed \in {<<>>, <<Event("CloseWrite", p)>>} :
       Report(<<Event("Modify", p)>> \o closed)

Rename(p, q) ==
  /\ fs[p] # Absent /\ p # q /\ q \notin Dir
  /\ Operation("rename")
  /\ fs' = [fs EXCEPT ![q] = fs[p], ![p] = Absent]
  /\ \E k \in Cookie :
       /\ FreshCookie(k)
       /\ Report(<<MoveEvent("MovedFrom", p, k), MoveEvent("MovedTo", q, k)>>)

\* A rename out of every watched directory, and one into a watched directory.
MoveOut(p) ==
  /\ fs[p] # Absent
  /\ Operation("moveOut")
  /\ fs' = [fs EXCEPT ![p] = Absent]
  /\ \E k \in Cookie : FreshCookie(k) /\ Report(<<MoveEvent("MovedFrom", p, k)>>)

MoveIn(p, c) ==
  /\ p \notin Dir
  /\ Operation("moveIn")
  /\ fs' = [fs EXCEPT ![p] = c]
  /\ \E k \in Cookie : FreshCookie(k) /\ Report(<<MoveEvent("MovedTo", p, k)>>)

Files(d) == {Below[d][n] : n \in Name}
Occupied(d) == \E p \in Files(d) : fs[p] # Absent
Emptied(d) == [p \in Path |-> IF p \in Files(d) THEN Absent ELSE fs[p]]

\* A directory is renamed as a whole, onto no directory or an empty one, and
\* only its own path is reported.
RenameDir(d, e) ==
  /\ Occupied(d) /\ ~Occupied(e) /\ d # e
  /\ Operation("renameDir")
  /\ fs' = [p \in Path |-> IF p \in Files(e)
                           THEN fs[Below[d][CHOOSE n \in Name : Below[e][n] = p]]
                           ELSE Emptied(d)[p]]
  /\ \E k \in Cookie :
       /\ FreshCookie(k)
       /\ Report(<<MoveEvent("MovedFrom", d, k), MoveEvent("MovedTo", e, k)>>)

MoveOutDir(d) ==
  /\ Occupied(d)
  /\ Operation("moveOutDir")
  /\ fs' = Emptied(d)
  /\ \E k \in Cookie : FreshCookie(k) /\ Report(<<MoveEvent("MovedFrom", d, k)>>)

\* A directory that comes with its files, moved in or made and filled before
\* it is watched.
ArriveDir(d, held) ==
  /\ ~Occupied(d)
  /\ Operation("arriveDir")
  /\ fs' = [p \in Path |-> IF \E n \in Name : p = Below[d][n]
                           THEN held[CHOOSE n \in Name : p = Below[d][n]] ELSE fs[p]]
  /\ \/ Report(<<Event("Create", d)>>)
     \/ \E k \in Cookie : FreshCookie(k) /\ Report(<<MoveEvent("MovedTo", d, k)>>)

FileSystem ==
  \/ \E p \in Path, c \in Content : Write(p, c) \/ MoveIn(p, c)
  \/ \E p \in Path : Delete(p) \/ MoveOut(p) \/ LateWrite(p)
  \/ \E p, q \in Path : Rename(p, q)
  \/ \E d, e \in Dir : RenameDir(d, e)
  \/ \E d \in Dir : MoveOutDir(d) \/ \E held \in [Name -> Content] : ArriveDir(d, held)

-----------------------------------------------------------------------------
(* Scans.  The walk compares the disk with the live rows; the event log    *)
(* records the differences, so a log that had already diverged stays so.   *)
(* Both caches are reloaded afterwards.                                    *)

\* needs_hash of walk_roots: a row whose mtime and size are the file's is
\* taken for the file's, and the file is not read.
TakenOver(p) ==
  Absent \notin {db.live[p], fs[p]} /\ Looks[db.live[p]] = Looks[fs[p]]

ScanOf(p) == IF TakenOver(p) THEN db.live[p] ELSE fs[p]

\* The rows a scan leaves, and the log with the events it writes.
Rewritten(live) ==
  [live |-> live,
   view |-> [p \in Path |-> IF live[p] = db.live[p] THEN db.view[p] ELSE live[p]]]

\* Mutant of Scanned: rows of vanished files are not closed.
ScannedAdding ==
  Rewritten([p \in Path |-> IF fs[p] = Absent THEN db.live[p] ELSE ScanOf(p)])

Scanned == Rewritten([p \in Path |-> ScanOf(p)])

\* A scan that walkdir, a stat or a read refuses files goes on without them,
\* and closes their rows.
ScannedWithout(dropped) ==
  Rewritten([p \in Path |-> IF p \in dropped THEN Absent ELSE ScanOf(p)])

\* A scan that stops on an error or is killed leaves the batches it committed,
\* and closes nothing.
ScannedOnly(committed) ==
  Rewritten([p \in Path |-> IF p \in committed /\ fs[p] # Absent
                            THEN ScanOf(p) ELSE db.live[p]])

Reload(rows) == db' = rows /\ tx' = rows /\ prev' = rows.live

FullScan ==
  /\ Reload(Scanned)
  /\ unhealed' = FALSE
  /\ unread' = {p \in Path : TakenOver(p) /\ db.live[p] # fs[p]}
  /\ UNCHANGED faults

Faulty ==
  /\ faults < MaxFaults
  /\ faults' = faults + 1
  /\ unhealed' = TRUE
  /\ UNCHANGED unread

ScanDrops == Faulty /\ \E S \in SUBSET Path : Reload(ScannedWithout(S))

\* The error is logged and the loop goes on.
ScanStops == Faulty /\ \E S \in SUBSET Path : Reload(ScannedOnly(S))

-----------------------------------------------------------------------------
(* Life cycle: watches are registered before the startup scan, and a       *)
(* stopped watcher is restarted by the service manager.                    *)

Start ==
  /\ phase = "down"
  /\ phase' = "starting"
  /\ UNCHANGED <<fs, entries, moves, queue, db, tx, prev, job, history, counters>>

\* A startup scan that stops ends the process: a crash.
StartupScan ==
  /\ phase = "starting"
  /\ FullScan \/ ScanDrops
  /\ phase' = "receive"
  /\ UNCHANGED <<fs, entries, moves, queue, job, ops, losses, stops, failures>>

Halt ==
  /\ phase' = "down"
  /\ queue' = <<>>
  /\ entries' = [p \in Path |-> NoEntry]
  /\ moves' = [k \in Cookie |-> NoMove]
  /\ prev' = NoFiles
  /\ job' = NoJob

\* A crash, or a failed commit, in any phase: the open transaction is lost,
\* the batches of a scan are not.
Crash ==
  /\ phase # "down" /\ stops < MaxStops
  /\ Halt
  /\ \/ UNCHANGED db
     \/ phase \in {"starting", "receive"} /\ \E S \in SUBSET Path : db' = ScannedOnly(S)
  /\ tx' = db'
  /\ stops' = stops + 1
  /\ UNCHANGED <<fs, history, ops, losses, failures, faults>>

-----------------------------------------------------------------------------
(* The event loop.                                                         *)

PeriodicScan ==
  /\ phase = "receive"
  /\ FullScan
  /\ UNCHANGED <<fs, entries, moves, queue, phase, job, counters>>

FaultyPeriodicScan ==
  /\ phase = "receive"
  /\ ScanDrops \/ ScanStops
  /\ UNCHANGED <<fs, entries, moves, queue, phase, job, ops, losses, stops, failures>>

ReceiveEvent ==
  /\ phase = "receive"
  /\ queue # <<>> /\ Head(queue) # OverflowMark
  /\ Insert(Head(queue))
  /\ queue' = Tail(queue)
  /\ phase' = "flush"
  /\ UNCHANGED <<fs, db, tx, prev, job, history, counters>>

\* The reconciliation scan leaves the buffer as it is.  When it fails nothing
\* brings the lost events back before the next scan.
ReceiveOverflow ==
  /\ phase = "receive"
  /\ queue # <<>> /\ Head(queue) = OverflowMark
  /\ FullScan \/ ScanDrops \/ ScanStops
  /\ queue' = Tail(queue)
  /\ phase' = "flush"
  /\ UNCHANGED <<fs, entries, moves, job, ops, losses, stops, failures>>

ReceiveTimeout ==
  /\ phase = "receive"
  /\ queue = <<>>
  /\ phase' = "flush"
  /\ UNCHANGED <<fs, entries, moves, queue, db, tx, prev, job, history, counters>>

\* The transaction opens; job carries the flushed events.
Begin(P, K, stopping) ==
  /\ Remove(P, K)
  /\ tx' = db
  /\ job' = [NoJob EXCEPT !.deletes = Deletions(K), !.changes = Changes(P),
                          !.stopping = stopping]
  /\ UNCHANGED <<fs, queue, db, prev, history, ops, losses, failures, faults>>

Flush ==
  /\ phase = "flush"
  /\ Begin(ReadyPaths, ExpiredCookies, FALSE)
  /\ phase' = IF ReadyPaths = {} /\ ExpiredCookies = {} THEN "receive" ELSE "batch"
  /\ UNCHANGED stops

\* drain_shutdown: the buffer is flushed whole.
Shutdown ==
  /\ phase = "receive" /\ stops < MaxStops
  /\ Begin({p \in Path : Buffered(p)}, {k \in Cookie : MovePending(k)}, TRUE)
  /\ phase' = "batch"
  /\ stops' = stops + 1

-----------------------------------------------------------------------------
(* process_flushed, on the rows of the transaction.                        *)

\* Mutant of Closed: the 'deleted' event is not written.
ClosedUnreported(rows, p) == [rows EXCEPT !.live[p] = Absent]

\* handle_delete: the row is closed without a look at the disk; the event is
\* written only when there was a live row.
Closed(rows, p) ==
  IF rows.live[p] = Absent THEN rows
  ELSE [live |-> [rows.live EXCEPT ![p] = Absent],
        view |-> [rows.view EXCEPT ![p] = Absent]]

\* The files an event on a path leads to: a directory is walked.
FilesAt(p) == IF p \in Dir THEN Files(p) ELSE {p}

\* Mutant of Indexed: a path that has a row is taken to be indexed.
IndexedOnce(rows, F) ==
  [live |-> [p \in Path |-> IF p \in F /\ rows.live[p] = Absent THEN fs[p] ELSE rows.live[p]],
   view |-> [p \in Path |-> IF p \in F /\ rows.live[p] = Absent THEN fs[p] ELSE rows.view[p]]]

\* handle_file and process_path: rows become what is on disk; whether an
\* event is written is decided from the cache, which the flush has not
\* updated yet.
Indexed(rows, F) ==
  LET found == {p \in F : fs[p] # Absent}
  IN [live |-> [p \in Path |-> IF p \in found THEN fs[p] ELSE rows.live[p]],
      view |-> [p \in Path |-> IF p \in found /\ prev[p] # fs[p]
                               THEN fs[p] ELSE rows.view[p]]]

\* Mutant of Applied: a moved file keeps the content of its old row.
AppliedCarried(e) ==
  CASE e.kind = "Delete" -> Closed(tx, e.path)
    [] e.kind = "Moved" ->
         [Closed(tx, e.from) EXCEPT !.live[e.path] = tx.live[e.from]]
    [] OTHER -> Indexed(tx, FilesAt(e.path))

\* A deletion is of the path itself: rows below a directory stay.
Applied(e) ==
  CASE e.kind = "Delete" -> Closed(tx, e.path)
    [] e.kind = "Moved" -> Indexed(Closed(tx, e.from), FilesAt(e.path))
    [] OTHER -> Indexed(tx, FilesAt(e.path))

Forgotten(e) ==
  CASE e.kind = "Delete" -> {e.path}
    [] e.kind = "Moved" -> {e.from}
    [] OTHER -> {}

\* The rows a failing event leaves on the way to indexing path: a walk may
\* have indexed some files already, and process_path may stop between its
\* statements, with the old row closed, the new one perhaps written, and no
\* event.
HalfIndexed(rows, path) ==
  LET found == {p \in FilesAt(path) : fs[p] # Absent}
      walked == IF path \in Dir THEN SUBSET found ELSE {{}}
  IN UNION {{Indexed(rows, F)} \cup
            UNION {{[Indexed(rows, F) EXCEPT !.live[p] = c] : c \in {Absent, fs[p]}} :
                     p \in found \ F} : F \in walked}

\* The rows left behind by an event whose processing fails.
HalfApplied(e) ==
  CASE e.kind = "Delete" -> {tx, ClosedUnreported(tx, e.path)}
    [] e.kind = "Moved" -> {tx, ClosedUnreported(tx, e.from)}
                             \cup HalfIndexed(Closed(tx, e.from), e.path)
    [] OTHER -> HalfIndexed(tx, e.path)

\* Events are taken one by one, deletions of expired cookies first; the disk
\* may change between two of them.  update_prev_paths takes every flushed
\* event for processed; indexed are the files that really were.
Take(e, indexed) ==
  /\ phase = "batch"
  /\ e \in job.deletes \/ (job.deletes = {} /\ e \in job.changes)
  /\ job' = [job EXCEPT
               !.deletes = @ \ {e},
               !.changes = IF job.deletes = {} THEN @ \ {e} ELSE @,
               !.removed = @ \cup Forgotten(e),
               !.indexed = [p \in Path |-> IF p \in indexed THEN fs[p] ELSE @[p]]]
  /\ UNCHANGED <<fs, entries, moves, queue, phase, db, prev, ops, losses, stops, faults>>

\* The files an event leads to are read, whatever their rows look like.
ReadBy(e) == IF e.kind = "Delete" THEN {} ELSE FilesAt(e.path)

Process(e) ==
  /\ Take(e, ReadBy(e))
  /\ tx' = Applied(e)
  /\ unread' = unread \ ReadBy(e)
  /\ UNCHANGED <<unhealed, failures>>

\* An event that fails is logged; what it wrote stays in the transaction.
Fail(e) ==
  /\ failures < MaxFailures
  /\ Take(e, {})
  /\ tx' \in HalfApplied(e)
  /\ unhealed' = TRUE
  /\ failures' = failures + 1
  /\ UNCHANGED unread

BatchDone == job.deletes = {} /\ job.changes = {}

\* Mutant of Refreshed: deleted paths stay in the cache.
RefreshedIndexed ==
  [p \in Path |-> IF job.indexed[p] # Absent THEN job.indexed[p] ELSE prev[p]]

\* update_prev_paths for every flushed event, then the indexed files.
Refreshed ==
  [p \in Path |-> IF job.indexed[p] # Absent THEN job.indexed[p]
                  ELSE IF p \in job.removed THEN Absent ELSE prev[p]]

Commit ==
  /\ phase = "batch" /\ ~job.stopping
  /\ BatchDone
  /\ db' = tx
  /\ prev' = Refreshed
  /\ job' = NoJob
  /\ phase' = "receive"
  /\ UNCHANGED <<fs, entries, moves, queue, tx, history, counters>>

\* The drain commits what it processed, when it is done or at its deadline.
CommitAndStop ==
  /\ phase = "batch" /\ job.stopping
  /\ db' = tx
  /\ Halt
  /\ UNCHANGED <<fs, tx, history, counters>>

Age == Tick /\ UNCHANGED <<fs, queue, phase, db, tx, prev, job, history, counters>>

-----------------------------------------------------------------------------
EventLoop ==
  \/ ReceiveEvent \/ ReceiveOverflow \/ ReceiveTimeout
  \/ Flush \/ Commit \/ CommitAndStop
  \/ \E e \in job.deletes \cup job.changes : Process(e)

Next ==
  \/ FileSystem \/ Start \/ StartupScan \/ Crash \/ PeriodicScan \/ FaultyPeriodicScan
  \/ \E e \in job.deletes \cup job.changes : Fail(e)
  \/ EventLoop \/ Shutdown \/ Age

Spec == Init /\ [][Next]_vars

\* systemd restarts the watcher, the loop never blocks past a deadline, the
\* periodic scan's clock runs and a scan again and again meets no fault, and
\* time passes.
Fairness ==
  /\ WF_vars(Start) /\ WF_vars(StartupScan) /\ WF_vars(EventLoop)
  /\ SF_vars(PeriodicScan) /\ WF_vars(Age)

FairSpec == Spec /\ Fairness

-----------------------------------------------------------------------------
\* Nothing is on its way from the disk to the index, and neither an event nor
\* a scan has failed since the last scan.
Settled == phase = "receive" /\ queue = <<>> /\ IsEmpty /\ ~unhealed

\* The last scan took the row for the file's, and would do so again.
Overlooked(p) == p \in unread /\ TakenOver(p)

\* In steady state the live rows are the disk.  The one exception is a file
\* whose change no event told of, and which the scan that should have made up
\* for it takes for the old one: same second, same size.
SteadyStateIsFullScan ==
  Settled => \A p \in Path : db.live[p] = fs[p] \/ Overlooked(p)

\* In steady state a path that is on disk and in the index has the content
\* that is on disk, unless it was overlooked: neither directories that move as
\* one event, nor writes to unlinked files, nor events and scans that failed
\* before the last scan leave a row with a file's old content.
NoStaleContent ==
  Settled => \A p \in Path :
    \/ Absent \in {db.live[p], fs[p]}
    \/ db.live[p] = fs[p]
    \/ Overlooked(p)

\* Between two flushes the cache that decides which events are written agrees
\* with the live rows.
CacheTellsIndex == phase \in {"receive", "flush"} => prev = db.live

\* Once the disk is quiet the index becomes, and stays, what is on disk, files
\* that are overlooked excepted.
EventuallyMirrors == <>[](\A p \in Path : db.live[p] = fs[p] \/ Overlooked(p))

\* The watcher implements Mirror: a transaction indexes only what was on disk
\* at that path while it was open.  With one path the log moves with the rows;
\* with several only the rows are claimed (PromiseOfRows).
Promise == INSTANCE Mirror WITH
  disk <- fs, staged <- tx.live, index <- db.live, log <- db.view
PromiseOfRows == INSTANCE Mirror WITH
  disk <- fs, staged <- tx.live, index <- db.live, log <- db.live

ImplementsMirror == Promise!Spec

\* The same with renames, and the rows alone: a file that was moved is read
\* again where it is now, its old row is not carried over.
RowsImplementMirror == PromiseOfRows!Spec
=============================================================================
