----------------------------- MODULE ScanProofs -----------------------------
(***************************************************************************)
(* Theorems of Scan, for every set of paths, contents and roots, every     *)
(* batch size and number of scans, whatever changes on disk while a scan   *)
(* is under way and wherever it stops.                                     *)
(***************************************************************************)
EXTENDS Scan, TLAPS

-----------------------------------------------------------------------------
(* Types of the operators on rows.                                         *)

Instants == 1..MaxClock

LEMMA CloseTyped ==
  ASSUME NEW R \in SUBSET Row, NEW S, NEW now \in Second
  PROVE  Close(R, S, now) \in SUBSET Row
<1>1. ASSUME NEW r \in Row PROVE [r EXCEPT !.gone = now] \in Row
  BY <1>1 DEF Row
<1> QED BY <1>1 DEF Close

LEMMA ReplaceTyped ==
  ASSUME NEW R \in SUBSET Row, NEW new \in Row
  PROVE  Replace(R, new) \in SUBSET Row
BY DEF Replace

LEMMA NewRowTyped ==
  ASSUME NEW p \in Path, NEW c \in Content, NEW m \in Second, NEW id \in ScanId,
         NEW now \in Instants
  PROVE  [path |-> p, content |-> c, mtime |-> m, appeared |-> now,
          gone |-> Live, seen |-> id] \in Row
BY ScanAssumption DEF Row, Second, Live, Instants

LEMMA PutReadTyped ==
  ASSUME NEW R \in SUBSET Row, NEW p \in Path, NEW c \in Content, NEW m \in Second,
         NEW id \in ScanId, NEW now \in Instants
  PROVE  PutRead(R, p, c, m, id, now) \in SUBSET Row
<1>1. now \in Second
  BY ScanAssumption DEF Instants, Second
<1> QED BY <1>1, CloseTyped, ReplaceTyped, NewRowTyped DEF PutRead

LEMMA PutShortTyped ==
  ASSUME NEW R \in SUBSET Row, NEW p, NEW id \in ScanId
  PROVE  PutShort(R, p, id) \in SUBSET Row
<1>1. ASSUME NEW r \in Row PROVE [r EXCEPT !.seen = id] \in Row
  BY <1>1 DEF Row
<1> QED BY <1>1 DEF PutShort

-----------------------------------------------------------------------------
(* Types of the scan.  A scan under way has a start time, and an entry to  *)
(* be committed has a content.                                             *)

ScanWellFormed ==
  /\ scan.active => scan.now \in Instants
  /\ \A p \in Path : scan.entry[p].state \in {"short", "read"} => scan.entry[p].content \in Content

ScanInv == TypeOK /\ ScanWellFormed

LEMMA LiveContentTyped ==
  ASSUME NEW R \in SUBSET Row, NEW p \in Path
  PROVE  LiveContent(R, p) \in File /\ LiveStamp(R, p) \in Second
<1>1. CASE LiveAt(R, p) = {}
  BY <1>1, ScanAssumption DEF LiveContent, LiveStamp, File, Second
<1>2. CASE LiveAt(R, p) # {}
  <2>1. (CHOOSE r \in LiveAt(R, p) : TRUE) \in Row
    BY <1>2 DEF LiveAt
  <2> QED BY <1>2, <2>1 DEF LiveContent, LiveStamp, File, Row
<1> QED BY <1>1, <1>2

LEMMA NoEntryTyped == NoEntry \in EntryRec
BY ScanAssumption DEF NoEntry, EntryRec, EntryState, File, Second

LEMMA NoScanTyped == NoScan \in Scan
<1>1. 0 \in ScanId /\ 0 \in Second /\ Absent \in File
  BY ScanAssumption DEF ScanId, Second, File
<1>2. [p \in Path |-> NoEntry] \in [Path -> EntryRec]
  BY NoEntryTyped
<1> QED BY <1>1, <1>2 DEF NoScan, Scan

LEMMA ScanFields ==
  ASSUME NEW s \in Scan
  PROVE  /\ s.active \in BOOLEAN
         /\ s.id \in ScanId
         /\ s.now \in Second
         /\ s.roots \in SUBSET Root
         /\ s.prev \in [Path -> File]
         /\ s.stamp \in [Path -> Second]
         /\ s.unwalked \in SUBSET Path
         /\ s.seen \in SUBSET Path
         /\ s.entry \in [Path -> EntryRec]
         /\ s.events \in [Path -> {"none", "created", "updated", "moved", "copied"}]
         /\ s.faithful \in BOOLEAN
BY DEF Scan

LEMMA WithUnfaithful ==
  ASSUME NEW s \in Scan
  PROVE  LET t == [s EXCEPT !.faithful = FALSE]
         IN  t \in Scan /\ t.active = s.active /\ t.now = s.now /\ t.entry = s.entry
BY DEF Scan

LEMMA WithEntry ==
  ASSUME NEW s \in Scan, NEW e \in [Path -> EntryRec], NEW t, t = [s EXCEPT !.entry = e]
  PROVE  t \in Scan /\ t.active = s.active /\ t.now = s.now /\ t.entry = e
BY DEF Scan

LEMMA InitInv == Init => ScanInv
<1> SUFFICES ASSUME Init PROVE ScanInv
  OBVIOUS
<1>1. fs \in [Path -> [content : File, mtime : Second]]
  BY ScanAssumption DEF Init, Second
<1>2. clock \in 1..MaxClock /\ ops \in 0..MaxOps /\ faults \in 0..MaxFaults
  BY ScanAssumption DEF Init
<1>3. view \in [Path -> File] /\ rows \in SUBSET Row /\ scan \in Scan
  BY NoScanTyped DEF Init, File
<1>4. verified \in BOOLEAN
  BY DEF Init
<1>5. TypeOK
  BY <1>1, <1>2, <1>3, <1>4 DEF TypeOK
<1>6. ScanWellFormed
  BY DEF Init, ScanWellFormed, NoScan, NoEntry
<1> QED BY <1>5, <1>6 DEF ScanInv

\* The row table and the event log a batch writes.
LEMMA CommittedTyped ==
  ASSUME ScanInv, scan.active, NEW B, B \subseteq ToCommit
  PROVE  Committed(rows, B) \in SUBSET Row
<1>0. rows \in SUBSET Row /\ scan.id \in ScanId /\ scan.now \in Instants
      /\ scan.entry \in [Path -> EntryRec]
  BY ScanFields DEF ScanInv, TypeOK, ScanWellFormed
<1>1. ASSUME NEW p \in B
      PROVE  /\ p \in Path
             /\ (IF scan.entry[p].state = "short" THEN PutShort(rows, p, scan.id)
                 ELSE PutRead(rows, p, scan.entry[p].content, scan.entry[p].mtime, scan.id, scan.now))
                  \in SUBSET Row
  <2>1. p \in Path /\ scan.entry[p].content \in Content /\ scan.entry[p].mtime \in Second
    BY <1>0 DEF ToCommit, ScanInv, ScanWellFormed, EntryRec
  <2>2. /\ PutShort(rows, p, scan.id) \in SUBSET Row
        /\ PutRead(rows, p, scan.entry[p].content, scan.entry[p].mtime, scan.id, scan.now)
             \in SUBSET Row
    BY <1>0, <2>1, PutShortTyped, PutReadTyped
  <2> QED BY <2>1, <2>2
<1> QED BY <1>0, <1>1 DEF Committed

\* Whatever the watcher does between scans, it reads one file into its rows or
\* closes the live ones of one path.
WatcherWrites(p) ==
  WatcherDelete(p) \/ WatcherFails(p) \/ \E known \in File : WatcherIndex(p, known)

LEMMA WatcherRows ==
  ASSUME NEW p \in Path, WatcherWrites(p)
  PROVE  /\ UNCHANGED <<clock, fs, scan, ops>> /\ ~scan.active
         /\ \/ fs[p].content # Absent
               /\ rows' = PutRead(rows, p, fs[p].content, fs[p].mtime, Unstamped, clock)
            \/ rows' = Close(rows, LiveAt(rows, p), clock)
<1>1. CASE WatcherDelete(p)
  BY <1>1 DEF WatcherDelete
<1>2. CASE WatcherFails(p)
  BY <1>2 DEF WatcherFails, ReadByWatcher
<1>3. ASSUME NEW known \in File, WatcherIndex(p, known)
      PROVE  /\ UNCHANGED <<clock, fs, scan, ops>> /\ ~scan.active
             /\ fs[p].content # Absent
             /\ rows' = PutRead(rows, p, fs[p].content, fs[p].mtime, Unstamped, clock)
  BY <1>3 DEF WatcherIndex, ReadByWatcher
<1> QED BY <1>1, <1>2, <1>3 DEF WatcherWrites

\* A file the walk could not stat is only crossed off.
LEMMA WalkFailed ==
  ASSUME scan \in Scan, NEW p \in Path, WalkFails(p)
  PROVE  /\ p \in scan.unwalked /\ UNCHANGED <<clock, fs, rows, view, verified, ops>>
         /\ scan' \in Scan /\ scan'.active = scan.active /\ scan'.id = scan.id
         /\ scan'.now = scan.now /\ scan'.prev = scan.prev /\ scan'.stamp = scan.stamp
         /\ scan'.seen = scan.seen /\ scan'.entry = scan.entry /\ scan'.events = scan.events
         /\ scan'.unwalked = scan.unwalked \ {p} /\ ~scan'.faithful
<1>1. PICK u \in SUBSET Path : /\ u = scan.unwalked \ {p}
                               /\ scan' = [scan EXCEPT !.unwalked = u, !.faithful = FALSE]
  BY ScanFields DEF WalkFails
<1>2. /\ scan' \in Scan /\ scan'.active = scan.active /\ scan'.id = scan.id
      /\ scan'.now = scan.now /\ scan'.prev = scan.prev /\ scan'.stamp = scan.stamp
      /\ scan'.seen = scan.seen /\ scan'.entry = scan.entry /\ scan'.events = scan.events
      /\ scan'.unwalked = u /\ ~scan'.faithful
  BY <1>1 DEF Scan
<1> QED BY <1>1, <1>2 DEF WalkFails

LEMMA StepTyped == ScanInv /\ [Next]_vars => ScanInv'
<1> SUFFICES ASSUME ScanInv, [Next]_vars PROVE ScanInv'
  OBVIOUS
<1> USE ScanAssumption
<1>0. /\ clock \in 1..MaxClock
      /\ fs \in [Path -> [content : File, mtime : Second]]
      /\ rows \in SUBSET Row
      /\ view \in [Path -> File]
      /\ scan \in Scan
      /\ verified \in BOOLEAN
      /\ ops \in 0..MaxOps /\ faults \in 0..MaxFaults
      /\ clock \in Second /\ clock \in Instants /\ scan.now \in Second
  BY ScanFields DEF ScanInv, TypeOK, Second, Instants
<1>w. scan \in Scan /\ ScanWellFormed
  BY <1>0 DEF ScanInv
<1>1. ASSUME DiskChange, fs' \in [Path -> [content : File, mtime : Second]]
      PROVE  ScanInv'
  <2>1. scan' \in Scan /\ scan'.active = scan.active /\ scan'.now = scan.now /\ scan'.entry = scan.entry
    BY <1>0, <1>1, WithUnfaithful DEF DiskChange
  <2>2. ScanWellFormed'
    BY <1>w, <2>1 DEF ScanWellFormed
  <2>3. verified' \in BOOLEAN
    BY <1>1 DEF DiskChange
  <2>4. ops' \in 0..MaxOps
    BY <1>0, <1>1 DEF DiskChange
  <2>5. UNCHANGED <<clock, rows, view, faults>>
    BY <1>1 DEF DiskChange
  <2> QED BY <1>0, <1>1, <2>1, <2>2, <2>3, <2>4, <2>5 DEF ScanInv, TypeOK
<1>2. CASE Disk
  <2>1. ASSUME NEW p \in Path, NEW c \in Content, WriteFile(p, c) PROVE ScanInv'
    BY <1>0, <1>1, <2>1 DEF WriteFile, File
  <2>2. ASSUME NEW p \in Path, RemoveFile(p) PROVE ScanInv'
    BY <1>0, <1>1, <2>2 DEF RemoveFile, File
  <2>3. ASSUME NEW p \in Path, NEW q \in Path, RenameFile(p, q) PROVE ScanInv'
    BY <1>0, <1>1, <2>3 DEF RenameFile, File
  <2> QED BY <1>2, <2>1, <2>2, <2>3 DEF Disk
<1>3. CASE ClockTick \/ UNCHANGED vars
  BY <1>0, <1>w, <1>3 DEF ClockTick, vars, ScanInv, TypeOK, ScanWellFormed
<1>4. ASSUME NEW p \in Path, WatcherWrites(p) PROVE ScanInv'
  <2>1. /\ UNCHANGED <<clock, fs, scan, ops>>
        /\ \/ fs[p].content # Absent
              /\ rows' = PutRead(rows, p, fs[p].content, fs[p].mtime, Unstamped, clock)
           \/ rows' = Close(rows, LiveAt(rows, p), clock)
    BY <1>4, WatcherRows
  <2>2. view' \in [Path -> File] /\ verified' \in BOOLEAN /\ faults' \in 0..MaxFaults
    <3>1. CASE WatcherDelete(p)
      BY <1>0, <3>1 DEF WatcherDelete, File
    <3>2. CASE WatcherFails(p)
      <4>1. view' = view /\ verified' = FALSE /\ faults < MaxFaults /\ faults' = faults + 1
        BY <3>2 DEF WatcherFails
      <4>2. view' \in [Path -> File]
        BY <1>0, <4>1
      <4>3. faults' \in 0..MaxFaults
        BY <1>0, <4>1
      <4> QED BY <4>1, <4>2, <4>3
    <3>3. ASSUME NEW known \in File, WatcherIndex(p, known)
          PROVE  view' \in [Path -> File] /\ verified' \in BOOLEAN /\ faults' \in 0..MaxFaults
      <4>1. faults' = faults \/ (faults < MaxFaults /\ faults' = faults + 1)
        BY <3>3 DEF WatcherIndex
      <4>2. faults' \in 0..MaxFaults
        BY <1>0, <4>1
      <4>3. view' = [view EXCEPT ![p] = IF known = fs[p].content THEN view[p] ELSE fs[p].content]
            /\ verified' = verified
        BY <3>3 DEF WatcherIndex
      <4> QED BY <1>0, <4>2, <4>3
    <3> QED BY <1>4, <3>1, <3>2, <3>3 DEF WatcherWrites
  <2>3. rows' \in SUBSET Row
    <3>1. Unstamped \in ScanId /\ fs[p].mtime \in Second /\ fs[p].content \in File
      BY <1>0 DEF Unstamped, ScanId
    <3>2. fs[p].content # Absent =>
            PutRead(rows, p, fs[p].content, fs[p].mtime, Unstamped, clock) \in SUBSET Row
      BY <1>0, <3>1, PutReadTyped DEF File
    <3>3. Close(rows, LiveAt(rows, p), clock) \in SUBSET Row
      BY <1>0, CloseTyped
    <3> QED BY <2>1, <3>2, <3>3
  <2> QED BY <1>0, <1>w, <2>1, <2>2, <2>3 DEF ScanInv, TypeOK, ScanWellFormed
<1>5. ASSUME UNCHANGED <<clock, fs, rows, view, ops>>, scan' \in Scan, ScanWellFormed',
             verified' \in BOOLEAN, faults' \in 0..MaxFaults
      PROVE  ScanInv'
  BY <1>0, <1>5 DEF ScanInv, TypeOK
<1>6. ASSUME NEW S \in ScanRoots, Begin(S) PROVE ScanInv'
  <2>1. scan.id + 1 \in ScanId
    BY <1>0, <1>6, ScanFields DEF Begin, ScanId
  <2>2. [p \in Path |-> LiveContent(rows, p)] \in [Path -> File]
        /\ [p \in Path |-> LiveStamp(rows, p)] \in [Path -> Second]
    BY <1>0, LiveContentTyped
  <2>3. S \in SUBSET Root /\ [p \in Path |-> NoEntry] \in [Path -> EntryRec]
    BY NoEntryTyped
  <2>4. {p \in Path : RootOf[p] \in S} \in SUBSET Path /\ {} \in SUBSET Path
    OBVIOUS
  <2>5. [p \in Path |-> "none"] \in [Path -> {"none", "created", "updated", "moved", "copied"}]
    OBVIOUS
  <2>6. (S = Root /\ ~Misleading) \in BOOLEAN
    OBVIOUS
  <2>7. scan' = [active |-> TRUE, id |-> scan.id + 1, now |-> clock, roots |-> S,
                 prev |-> [p \in Path |-> LiveContent(rows, p)],
                 stamp |-> [p \in Path |-> LiveStamp(rows, p)],
                 unwalked |-> {p \in Path : RootOf[p] \in S}, seen |-> {},
                 entry |-> [p \in Path |-> NoEntry],
                 events |-> [p \in Path |-> "none"],
                 faithful |-> S = Root /\ ~Misleading]
    BY <1>6 DEF Begin
  <2> DEFINE f == (S = Root /\ ~Misleading)
  <2>8. f \in BOOLEAN
    BY <2>6
  <2> HIDE DEF f
  <2>9. scan' \in Scan
    BY <1>0, <2>1, <2>2, <2>3, <2>4, <2>5, <2>7, <2>8 DEF Scan, f
  <2>10. scan'.now = clock /\ scan'.entry = [p \in Path |-> NoEntry]
    BY <2>7
  <2>11. ScanWellFormed'
    BY <1>0, <2>10 DEF ScanWellFormed, NoEntry
  <2> QED BY <1>0, <1>5, <1>6, <2>9, <2>11 DEF Begin
<1>7. ASSUME NEW e \in [Path -> EntryRec], scan' \in Scan, scan'.active = scan.active,
             scan'.now = scan.now, scan'.entry = e,
             \A p \in Path : e[p].state \in {"short", "read"} => e[p].content \in Content
      PROVE  ScanWellFormed'
  BY <1>w, <1>7 DEF ScanWellFormed
<1>8. ASSUME NEW p \in Path, Walk(p) PROVE ScanInv'
  <2>1. fs[p].mtime \in Second /\ scan.prev[p] \in File /\ scan.unwalked \ {p} \in SUBSET Path
        /\ scan.seen \cup {p} \in SUBSET Path /\ scan.entry \in [Path -> EntryRec]
        /\ scan.seen \in SUBSET Path
    BY <1>0, ScanFields
  <2>2. WalkEntry(p) \in EntryRec /\ (WalkEntry(p).state \in {"short", "read"} => WalkEntry(p).content \in Content)
    BY <2>1 DEF WalkEntry, EntryRec, EntryState, File
  <2> DEFINE e == [scan.entry EXCEPT ![p] = WalkEntry(p)]
  <2>3. e \in [Path -> EntryRec]
        /\ \A q \in Path : e[q].state \in {"short", "read"} => e[q].content \in Content
    BY <1>w, <2>1, <2>2 DEF ScanWellFormed
  <2>4. CASE fs[p].content = Absent
    <3>1. scan' = [scan EXCEPT !.unwalked = scan.unwalked \ {p}]
      BY <1>8, <2>4 DEF Walk
    <3>2. scan' = [scan EXCEPT !.unwalked = scan.unwalked \ {p}, !.seen = scan.seen,
                               !.entry = scan.entry]
      BY <1>0, <3>1 DEF Scan
    <3>3. scan' \in Scan /\ scan'.active = scan.active /\ scan'.now = scan.now /\ scan'.entry = scan.entry
      <4>1. PICK u \in SUBSET Path, v \in SUBSET Path, x \in [Path -> EntryRec] :
              x = scan.entry /\ scan' = [scan EXCEPT !.unwalked = u, !.seen = v, !.entry = x]
        BY <2>1, <3>2
      <4>2. scan \in Scan
        BY <1>0
      <4> QED BY <4>1, <4>2 DEF Scan
    <3>4. ScanWellFormed'
      BY <1>w, <3>3 DEF ScanWellFormed
    <3> QED BY <1>0, <1>5, <1>8, <3>3, <3>4 DEF Walk
  <2>5. CASE fs[p].content # Absent
    <3>1. scan' = [scan EXCEPT !.unwalked = scan.unwalked \ {p}, !.seen = scan.seen \cup {p},
                               !.entry = e]
      BY <1>8, <2>5 DEF Walk
    <3> HIDE DEF e
    <3>2. scan' \in Scan /\ scan'.active = scan.active /\ scan'.now = scan.now /\ scan'.entry = e
      <4>1. PICK u \in SUBSET Path, v \in SUBSET Path, x \in [Path -> EntryRec] :
              x = e /\ scan' = [scan EXCEPT !.unwalked = u, !.seen = v, !.entry = x]
        BY <2>1, <2>3, <3>1
      <4>2. scan \in Scan
        BY <1>0
      <4> QED BY <4>1, <4>2 DEF Scan
    <3>3. ScanWellFormed'
      BY <1>7, <2>3, <3>2
    <3> QED BY <1>0, <1>5, <1>8, <3>2, <3>3 DEF Walk
  <2> QED BY <2>4, <2>5
<1>14. ASSUME NEW p \in Path, WalkFails(p) PROVE ScanInv'
  <2>1. /\ UNCHANGED <<clock, fs, rows, view, verified, ops>> /\ scan' \in Scan
        /\ scan'.active = scan.active /\ scan'.now = scan.now /\ scan'.entry = scan.entry
    BY <1>0, <1>14, WalkFailed
  <2>2. faults' \in 0..MaxFaults
    BY <1>0, <1>14 DEF WalkFails
  <2>3. ScanWellFormed'
    BY <1>w, <2>1 DEF ScanWellFormed
  <2> QED BY <1>0, <1>5, <2>1, <2>2, <2>3
<1>9. ASSUME NEW p \in Path, Hash(p) \/ HashFails(p) PROVE ScanInv'
  <2>1. PICK e : /\ e = [scan.entry EXCEPT ![p] = NoEntry]
                     \/ /\ fs[p].content # Absent
                        /\ e = [scan.entry EXCEPT ![p] = [scan.entry[p] EXCEPT !.state = "read",
                                                                  !.content = fs[p].content]]
                 /\ scan' = [scan EXCEPT !.entry = e]
                    \/ scan' = [[scan EXCEPT !.faithful = FALSE] EXCEPT !.entry = e]
    <3>1. CASE Hash(p) /\ fs[p].content = Absent
      BY <3>1 DEF Hash
    <3>2. CASE Hash(p) /\ fs[p].content # Absent
      <4>1. scan.entry[p] \in EntryRec /\ scan.entry \in [Path -> EntryRec]
        BY <1>0, ScanFields
      <4>2. scan' = [scan EXCEPT !.entry[p].state = "read", !.entry[p].content = fs[p].content]
        BY <3>2 DEF Hash
      <4>3. [[scan.entry EXCEPT ![p].state = "read"] EXCEPT ![p].content = fs[p].content]
              = [scan.entry EXCEPT ![p] = [scan.entry[p] EXCEPT !.state = "read",
                                                  !.content = fs[p].content]]
        BY <4>1 DEF EntryRec
      <4>4. scan' = [scan EXCEPT !.entry = [scan.entry EXCEPT ![p] =
                        [scan.entry[p] EXCEPT !.state = "read", !.content = fs[p].content]]]
        BY <1>0, <4>2, <4>3 DEF Scan
      <4> QED BY <3>2, <4>4
    <3>3. CASE HashFails(p)
      <4>1. scan' = [scan EXCEPT !.entry[p] = NoEntry, !.faithful = FALSE]
        BY <3>3 DEF HashFails
      <4>2. scan' = [[scan EXCEPT !.faithful = FALSE]
                       EXCEPT !.entry = [scan.entry EXCEPT ![p] = NoEntry]]
        BY <1>0, <4>1 DEF Scan
      <4> QED BY <4>2
    <3> QED BY <1>9, <3>1, <3>2, <3>3
  <2>2. e \in [Path -> EntryRec]
        /\ \A q \in Path : e[q].state \in {"short", "read"} => e[q].content \in Content
    <3>1. scan.entry \in [Path -> EntryRec] /\ fs[p].content \in File
      BY <1>0, ScanFields
    <3>2. CASE e = [scan.entry EXCEPT ![p] = NoEntry]
      BY <1>w, <3>1, <3>2, NoEntryTyped DEF ScanWellFormed, NoEntry
    <3>3. CASE /\ fs[p].content # Absent
               /\ e = [scan.entry EXCEPT ![p] = [scan.entry[p] EXCEPT !.state = "read",
                                                        !.content = fs[p].content]]
      <4> DEFINE x == [scan.entry[p] EXCEPT !.state = "read", !.content = fs[p].content]
      <4>1. x \in EntryRec /\ x.content \in Content
        BY <3>1, <3>3 DEF EntryRec, EntryState, File
      <4>2. e = [scan.entry EXCEPT ![p] = x]
        BY <3>3
      <4> HIDE DEF x
      <4> QED BY <1>w, <3>1, <4>1, <4>2 DEF ScanWellFormed
    <3> QED BY <2>1, <3>2, <3>3
  <2>3. scan' \in Scan /\ scan'.active = scan.active /\ scan'.now = scan.now /\ scan'.entry = e
    <3> DEFINE s == [scan EXCEPT !.faithful = FALSE]
    <3>1. s \in Scan /\ s.active = scan.active /\ s.now = scan.now
      BY <1>0, WithUnfaithful
    <3>2. scan' = [scan EXCEPT !.entry = e] \/ scan' = [s EXCEPT !.entry = e]
      BY <2>1
    <3> HIDE DEF s
    <3>3. CASE scan' = [scan EXCEPT !.entry = e]
      BY <1>0, <2>2, <3>3, WithEntry
    <3>4. CASE scan' = [s EXCEPT !.entry = e]
      BY <2>2, <3>1, <3>4, WithEntry
    <3> QED BY <3>2, <3>3, <3>4
  <2>4. ScanWellFormed'
    BY <1>7, <2>2, <2>3
  <2>5. UNCHANGED <<clock, fs, rows, view, verified, ops>> /\ faults' \in 0..MaxFaults
    BY <1>0, <1>9 DEF Hash, HashFails
  <2> QED BY <1>0, <1>5, <2>3, <2>4, <2>5
<1>10. ASSUME NEW B \in Batches, CommitBatch(B) PROVE ScanInv'
  <2>1. B \subseteq ToCommit /\ scan.active
    BY <1>10 DEF Batches, CommitBatch, Hashed
  <2>2. rows' \in SUBSET Row
    BY <1>10, <2>1, CommittedTyped DEF CommitBatch
  <2>3. scan.entry \in [Path -> EntryRec]
        /\ scan.events \in [Path -> {"none", "created", "updated", "moved", "copied"}]
    BY <1>0, ScanFields
  <2>4. view' \in [Path -> File]
    <3>1. \A p \in Path : scan.entry[p].content \in File
      BY <2>3 DEF EntryRec
    <3> QED BY <1>0, <1>10, <3>1 DEF CommitBatch
  <2> DEFINE e == [p \in Path |-> IF p \in B THEN [scan.entry[p] EXCEPT !.state = "done"]
                                  ELSE scan.entry[p]]
             v == [p \in Path |-> IF p \in B THEN Provisional(p) ELSE scan.events[p]]
  <2>5. e \in [Path -> EntryRec]
        /\ \A q \in Path : e[q].state \in {"short", "read"} => e[q].content \in Content
    <3> SUFFICES ASSUME NEW q \in Path
                 PROVE  e[q] \in EntryRec /\ (e[q].state \in {"short", "read"} => e[q].content \in Content)
      OBVIOUS
    <3>1. CASE q \in B
      BY <2>3, <3>1 DEF EntryRec, EntryState
    <3>2. CASE q \notin B
      BY <1>w, <2>3, <3>2 DEF ScanWellFormed
    <3> QED BY <3>1, <3>2
  <2>6. v \in [Path -> {"none", "created", "updated", "moved", "copied"}]
    BY <2>3 DEF Provisional
  <2>7. scan' = [scan EXCEPT !.entry = e, !.events = v]
    BY <1>10 DEF CommitBatch
  <2> HIDE DEF e, v
  <2>8. scan' \in Scan /\ scan'.active = scan.active /\ scan'.now = scan.now /\ scan'.entry = e
    BY <1>0, <2>5, <2>6, <2>7 DEF Scan
  <2>9. ScanWellFormed'
    BY <1>7, <2>5, <2>8
  <2> QED BY <1>0, <1>10, <2>2, <2>4, <2>8, <2>9 DEF CommitBatch, ScanInv, TypeOK
<1>11. ASSUME NEW ev \in [Path -> {"none", "created", "updated", "moved", "copied"}],
              scan' = [NoScan EXCEPT !.id = scan.id, !.events = ev]
       PROVE  scan' \in Scan /\ ScanWellFormed'
  <2>1. scan.id \in ScanId
    BY <1>0, ScanFields
  <2>2. scan' \in Scan /\ scan'.active = NoScan.active /\ scan'.entry = NoScan.entry
    BY <1>11, <2>1, NoScanTyped DEF Scan
  <2>3. ~NoScan.active /\ NoScan.entry = [p \in Path |-> NoEntry]
    BY DEF NoScan
  <2>4. NoEntry.state = "none"
    BY DEF NoEntry
  <2> QED BY <2>2, <2>3, <2>4 DEF ScanWellFormed
<1>12. CASE Finalize
  <2>1. scan.active /\ scan.now \in Second
    BY <1>0, <1>12 DEF Finalize, Hashed
  <2>2. rows' \in SUBSET Row
    BY <1>0, <1>12, <2>1, CloseTyped DEF Finalize, Finalized
  <2>3. view' \in [Path -> File]
    BY <1>0, <1>12 DEF Finalize, File
  <2>4. [p \in Path |-> Upgraded(p)] \in [Path -> {"none", "created", "updated", "moved", "copied"}]
    BY <1>0, ScanFields DEF Upgraded
  <2>5. scan' \in Scan /\ ScanWellFormed'
    BY <1>11, <1>12, <2>4 DEF Finalize
  <2>6. verified' \in BOOLEAN
    BY <1>0, <1>12, ScanFields DEF Finalize
  <2> QED BY <1>0, <1>12, <2>2, <2>3, <2>5, <2>6 DEF Finalize, ScanInv, TypeOK
<1>13. CASE Abort
  <2>1. scan.events \in [Path -> {"none", "created", "updated", "moved", "copied"}]
    BY <1>0, ScanFields
  <2>2. scan' \in Scan /\ ScanWellFormed'
    BY <1>11, <1>13, <2>1 DEF Abort
  <2> QED BY <1>0, <1>5, <1>13, <2>2 DEF Abort
<1> QED
  BY <1>2, <1>3, <1>4, <1>6, <1>8, <1>9, <1>10, <1>12, <1>13, <1>14
     DEF Next, ScanStep, WatcherWrites

\* Rows, entries and the scan keep their types; in particular no row is ever
\* written without a content, and no scan is ever under way without the
\* second it began in.
THEOREM TypeCorrect == Spec => []TypeOK
<1>1. ScanInv => TypeOK
  BY DEF ScanInv
<1> QED BY <1>1, InitInv, StepTyped, PTL DEF Spec

-----------------------------------------------------------------------------
(* What the statements on table paths do to its live and its closed rows.  *)

OneLive(R) == \A r, s \in LiveRows(R) : r.path = s.path => r = s

\* A closed row r of R is still in T, or a live row of its path, content and
\* second of appearance is there instead.
Kept(r, T) ==
  \/ r \in T
  \/ \E s \in T : s.path = r.path /\ s.content = r.content /\ s.appeared = r.appeared
                  /\ s.gone = Live

\* Close leaves live only rows that were live and that it was not given.
LEMMA CloseLive ==
  ASSUME NEW R \in SUBSET Row, NEW S, NEW now \in Instants,
         NEW r \in Close(R, S, now), r.gone = Live
  PROVE  r \in LiveRows(R) /\ r \notin S
<1>1. PICK q \in R : r = IF q \in S /\ q.gone = Live THEN [q EXCEPT !.gone = now] ELSE q
  BY DEF Close
<1>2. now # Live
  BY ScanAssumption DEF Instants, Live
<1>3. ~(q \in S /\ q.gone = Live)
  BY <1>1, <1>2 DEF Row
<1> QED BY <1>1, <1>3 DEF LiveRows

LEMMA CloseKeeps ==
  ASSUME NEW R, NEW S, NEW now, NEW r \in R, r.gone # Live
  PROVE  r \in Close(R, S, now)
BY DEF Close

\* process_path leaves exactly one live row at the path, the one it writes.
LEMMA PutReadLive ==
  ASSUME NEW R \in SUBSET Row, NEW p, NEW c, NEW m, NEW id, NEW now \in Instants,
         NEW r \in PutRead(R, p, c, m, id, now), r.gone = Live
  PROVE  \/ r = [path |-> p, content |-> c, mtime |-> m, appeared |-> now,
                 gone |-> Live, seen |-> id]
         \/ r \in LiveRows(R) /\ r.path # p
<1> DEFINE new == [path |-> p, content |-> c, mtime |-> m, appeared |-> now,
                   gone |-> Live, seen |-> id]
<1>1. r = new \/ r \in Close(R, LiveAt(R, p), now)
  BY DEF PutRead, Replace
<1>2. CASE r \in Close(R, LiveAt(R, p), now)
  BY <1>2, CloseLive DEF LiveAt, LiveRows
<1> QED BY <1>1, <1>2

LEMMA PutReadKeeps ==
  ASSUME NEW R, NEW p, NEW c, NEW m, NEW id, NEW now, NEW r \in R, r.gone # Live
  PROVE  \/ r \in PutRead(R, p, c, m, id, now)
         \/ \E s \in PutRead(R, p, c, m, id, now) :
              /\ s.path = p /\ s.path = r.path /\ s.content = r.content
              /\ s.appeared = r.appeared /\ s.gone = Live
<1> DEFINE new == [path |-> p, content |-> c, mtime |-> m, appeared |-> now,
                   gone |-> Live, seen |-> id]
           C == Close(R, LiveAt(R, p), now)
<1>1. r \in C
  BY CloseKeeps
<1>2. PutRead(R, p, c, m, id, now) = Replace(C, new)
  BY DEF PutRead
<1>3. new.path = p /\ new.gone = Live
  OBVIOUS
<1> HIDE DEF new, C
<1>4. new \in Replace(C, new)
  BY DEF Replace
<1>5. r \in Replace(C, new) \/ (r.path = new.path /\ r.content = new.content
                               /\ r.appeared = new.appeared)
  BY <1>1 DEF Replace
<1> QED BY <1>2, <1>3, <1>4, <1>5

LEMMA PutShortLive ==
  ASSUME NEW R \in SUBSET Row, OneLive(R), NEW p, NEW id,
         NEW r \in PutShort(R, p, id), NEW s \in PutShort(R, p, id),
         r.gone = Live, s.gone = Live, r.path = s.path
  PROVE  r = s
<1> DEFINE Stamped(q) == IF q \in LiveAt(R, p) THEN [q EXCEPT !.seen = id] ELSE q
<1>1. PICK q \in R : r = Stamped(q)
  BY DEF PutShort
<1>2. PICK t \in R : s = Stamped(t)
  BY DEF PutShort
<1>3. q.path = r.path /\ q.gone = Live /\ t.path = s.path /\ t.gone = Live
  BY <1>1, <1>2 DEF Row, LiveAt
<1>4. q = t
  BY <1>3 DEF OneLive, LiveRows
<1> QED BY <1>1, <1>2, <1>4

LEMMA PutShortKeeps ==
  ASSUME NEW R, NEW p, NEW id, NEW r \in R, r.gone # Live
  PROVE  r \in PutShort(R, p, id)
BY DEF PutShort, LiveAt

-----------------------------------------------------------------------------
(* A batch.  Put is what it does to the table for one path.                *)

Put(R, p) ==
  IF scan.entry[p].state = "short" THEN PutShort(R, p, scan.id)
  ELSE PutRead(R, p, scan.entry[p].content, scan.entry[p].mtime, scan.id, scan.now)

LEMMA CommittedRows ==
  ASSUME NEW R, NEW B, NEW r
  PROVE  r \in Committed(R, B) <=> \/ r \in R /\ r.path \notin B
                                   \/ r.path \in B /\ r \in Put(R, r.path)
BY DEF Committed, Put

LEMMA CommittedLive ==
  ASSUME NEW R \in SUBSET Row, OneLive(R), NEW B, scan.now \in Instants
  PROVE  OneLive(Committed(R, B))
<1> SUFFICES ASSUME NEW r \in Committed(R, B), NEW s \in Committed(R, B),
                    r.gone = Live, s.gone = Live, r.path = s.path
             PROVE  r = s
  BY DEF OneLive, LiveRows
<1>1. CASE r.path \notin B
  BY <1>1, CommittedRows DEF OneLive, LiveRows
<1>2. CASE r.path \in B
  <2>1. r \in Put(R, r.path) /\ s \in Put(R, r.path)
    BY <1>2, CommittedRows
  <2>2. CASE scan.entry[r.path].state = "short"
    BY <2>1, <2>2, PutShortLive DEF Put
  <2>3. CASE scan.entry[r.path].state # "short"
    <3> DEFINE T == PutRead(R, r.path, scan.entry[r.path].content,
                            scan.entry[r.path].mtime, scan.id, scan.now)
    <3>1. r \in T /\ s \in T
      BY <2>1, <2>3 DEF Put
    <3> QED BY <3>1, PutReadLive
  <2> QED BY <2>2, <2>3
<1> QED BY <1>1, <1>2

LEMMA CommittedKeeps ==
  ASSUME NEW R, NEW B, NEW r \in R, r.gone # Live
  PROVE  Kept(r, Committed(R, B))
<1>1. CASE r.path \notin B
  BY <1>1, CommittedRows DEF Kept
<1>2. CASE r.path \in B
  <2>1. r \in Put(R, r.path)
        \/ \E s \in Put(R, r.path) :
             /\ s.path = r.path /\ s.content = r.content
             /\ s.appeared = r.appeared /\ s.gone = Live
    BY PutShortKeeps, PutReadKeeps DEF Put
  <2> QED BY <1>2, <2>1, CommittedRows DEF Kept
<1> QED BY <1>1, <1>2

-----------------------------------------------------------------------------
(* The steps that write to table paths.  Now is the second a writer of the *)
(* moment puts into the rows: a scan keeps to the one it began in.         *)

Now == IF scan.active THEN scan.now ELSE clock

RowsStep ==
  \/ UNCHANGED rows
  \/ \E p \in Path, c \in Content : \E m \in Second :
       clock = Now /\ rows' = PutRead(rows, p, c, m, Unstamped, clock)
  \/ \E S, now : now = Now /\ now \in Instants /\ rows' = Close(rows, S, now)
  \/ \E B \in SUBSET Path :
       scan.now = Now /\ scan.now \in Instants /\ rows' = Committed(rows, B)

LEMMA StepRows == ScanInv /\ [Next]_vars => RowsStep
<1> SUFFICES ASSUME ScanInv, [Next]_vars PROVE RowsStep
  OBVIOUS
<1>0. /\ fs \in [Path -> [content : File, mtime : Second]]
      /\ clock \in Instants
      /\ scan.active => scan.now \in Instants
  BY DEF ScanInv, TypeOK, ScanWellFormed, Instants
<1>1. CASE Disk
  BY <1>1 DEF Disk, WriteFile, RemoveFile, RenameFile, DiskChange, RowsStep
<1>2. CASE ClockTick \/ UNCHANGED vars \/ Abort
  BY <1>2 DEF ClockTick, vars, Abort, RowsStep
<1>3. ASSUME NEW p \in Path, WatcherWrites(p) PROVE RowsStep
  <2>1. clock = Now
    BY <1>3, WatcherRows DEF Now
  <2>2. fs[p].content # Absent => fs[p].content \in Content /\ fs[p].mtime \in Second
    BY <1>0 DEF File
  <2>3. CASE /\ fs[p].content # Absent
             /\ rows' = PutRead(rows, p, fs[p].content, fs[p].mtime, Unstamped, clock)
    BY <2>1, <2>2, <2>3 DEF RowsStep
  <2>4. CASE rows' = Close(rows, LiveAt(rows, p), clock)
    BY <1>0, <2>1, <2>4 DEF RowsStep
  <2> QED BY <1>3, <2>3, <2>4, WatcherRows
<1>5. ASSUME NEW S \in ScanRoots, Begin(S) PROVE RowsStep
  BY <1>5 DEF Begin, RowsStep
<1>6. ASSUME NEW p \in Path, Walk(p) \/ WalkFails(p) \/ Hash(p) \/ HashFails(p) PROVE RowsStep
  BY <1>6 DEF Walk, WalkFails, Hash, HashFails, RowsStep
<1>7. ASSUME NEW B \in Batches, CommitBatch(B) PROVE RowsStep
  <2>1. scan.now = Now /\ scan.now \in Instants /\ rows' = Committed(rows, B)
    BY <1>0, <1>7 DEF CommitBatch, Hashed, Now
  <2>2. B \in SUBSET Path
    BY DEF Batches, ToCommit
  <2> QED BY <2>1, <2>2 DEF RowsStep
<1>8. CASE Finalize
  <2>1. scan.now = Now /\ scan.now \in Instants /\ rows' = Close(rows, Unseen(rows), scan.now)
    BY <1>0, <1>8 DEF Finalize, Hashed, Finalized, Now
  <2> QED BY <2>1 DEF RowsStep
<1> QED BY <1>1, <1>2, <1>3, <1>5, <1>6, <1>7, <1>8 DEF Next, ScanStep, WatcherWrites

\* Of the statements a step may execute, none leaves a second live row.
LEMMA OneLiveRowStep == ScanInv /\ OneLiveRow /\ [Next]_vars => OneLiveRow'
<1> SUFFICES ASSUME ScanInv, OneLiveRow, [Next]_vars PROVE OneLive(rows')
  BY DEF OneLiveRow, OneLive, LiveRows
<1>0. rows \in SUBSET Row /\ OneLive(rows) /\ clock \in Instants
  BY DEF ScanInv, TypeOK, OneLiveRow, OneLive, Instants
<1>1. RowsStep
  BY StepRows
<1>2. CASE UNCHANGED rows
  BY <1>0, <1>2
<1>3. ASSUME NEW p, NEW c, NEW m, rows' = PutRead(rows, p, c, m, Unstamped, clock)
      PROVE  OneLive(rows')
  <2> SUFFICES ASSUME NEW r \in rows', NEW s \in rows', r.gone = Live, s.gone = Live,
                      r.path = s.path
               PROVE  r = s
    BY DEF OneLive, LiveRows
  <2> DEFINE new == [path |-> p, content |-> c, mtime |-> m, appeared |-> clock,
                     gone |-> Live, seen |-> Unstamped]
  <2>1. /\ r = new \/ (r \in LiveRows(rows) /\ r.path # p)
        /\ s = new \/ (s \in LiveRows(rows) /\ s.path # p)
    BY <1>0, <1>3, PutReadLive
  <2>2. new.path = p
    OBVIOUS
  <2> HIDE DEF new
  <2> QED BY <1>0, <2>1, <2>2 DEF OneLive
<1>4. ASSUME NEW S, NEW now \in Instants, rows' = Close(rows, S, now)
      PROVE  OneLive(rows')
  BY <1>0, <1>4, CloseLive DEF OneLive, LiveRows
<1>5. ASSUME NEW B, scan.now \in Instants, rows' = Committed(rows, B)
      PROVE  OneLive(rows')
  BY <1>0, <1>5, CommittedLive
<1> QED BY <1>1, <1>2, <1>3, <1>4, <1>5 DEF RowsStep

\* A path has at most one live row after every transaction, for every batch
\* size, wherever a scan stops and whatever the watcher writes between scans;
\* no constraint of the table says so.
THEOREM OneLiveRowPerPath == Spec => []OneLiveRow
<1>1. Init => OneLiveRow
  BY DEF Init, OneLiveRow, LiveRows
<1> QED BY <1>1, OneLiveRowStep, InitInv, StepTyped, PTL DEF Spec

\* No step ever changes a row that is closed; the only thing that may take its
\* place is a live row of the same path and content that appeared in the same
\* second, which INSERT OR REPLACE puts over it.
THEOREM ClosedRowsKept == Spec => HistoryKept
<1>1. ScanInv /\ [Next]_vars => \A r \in rows : r.gone # Live => Kept(r, rows')
  <2> SUFFICES ASSUME ScanInv, [Next]_vars, NEW r \in rows, r.gone # Live
               PROVE  Kept(r, rows')
    OBVIOUS
  <2>1. RowsStep
    BY StepRows
  <2>2. CASE UNCHANGED rows
    BY <2>2 DEF Kept
  <2>3. ASSUME NEW p, NEW c, NEW m, rows' = PutRead(rows, p, c, m, Unstamped, clock)
        PROVE  Kept(r, rows')
    BY <2>3, PutReadKeeps DEF Kept
  <2>4. ASSUME NEW S, NEW now, rows' = Close(rows, S, now) PROVE Kept(r, rows')
    BY <2>4, CloseKeeps DEF Kept
  <2>5. ASSUME NEW B, rows' = Committed(rows, B) PROVE Kept(r, rows')
    BY <2>5, CommittedKeeps
  <2> QED BY <2>1, <2>2, <2>3, <2>4, <2>5 DEF RowsStep
<1>2. ScanInv /\ [Next]_vars =>
        [\A r \in rows : r.gone # Live =>
           \/ r \in rows'
           \/ \E s \in rows' : /\ s.path = r.path /\ s.content = r.content
                               /\ s.appeared = r.appeared /\ s.gone = Live]_vars
  BY <1>1 DEF Kept
<1> QED BY <1>2, InitInv, StepTyped, PTL DEF Spec, HistoryKept

-----------------------------------------------------------------------------
(* The history of a path.  HistoryDisjoint is not inductive: a statement   *)
(* that closes a row or begins one does so at the present second, and that *)
(* must not lie before what the table holds already.  So the invariant     *)
(* also bounds the rows by Now, and Now never goes back, the clock being   *)
(* at or past the second a scan under way began in.                        *)

Disjoint(R) ==
  \A r, s \in R :
    /\ r.gone # Live => r.appeared <= r.gone
    /\ r # s /\ r.path = s.path =>
         \/ r.gone # Live /\ r.gone <= s.appeared
         \/ s.gone # Live /\ s.gone <= r.appeared

Within(R, now) == \A r \in R : r.appeared <= now /\ r.gone <= now

TimesInv ==
  /\ scan.active => scan.now <= clock
  /\ Within(rows, Now)
  /\ HistoryDisjoint

LEMMA RowNumbers ==
  ASSUME NEW r \in Row
  PROVE  r.appeared \in Nat /\ r.gone \in Nat /\ r.path \in Path
BY ScanAssumption DEF Row, Second

LEMMA CloseDisjoint ==
  ASSUME NEW R \in SUBSET Row, NEW S, NEW now \in Instants, Disjoint(R), Within(R, now)
  PROVE  Disjoint(Close(R, S, now)) /\ Within(Close(R, S, now), now)
<1> DEFINE Closed(r) == IF r \in S /\ r.gone = Live THEN [r EXCEPT !.gone = now] ELSE r
<1>0. now \in Nat /\ now # Live
  BY ScanAssumption DEF Instants, Live
<1>1. Close(R, S, now) = {Closed(r) : r \in R}
  BY DEF Close
<1>2. ASSUME NEW r \in R
      PROVE  /\ Closed(r).path = r.path /\ Closed(r).appeared = r.appeared
             /\ Closed(r).gone = r.gone \/ (r.gone = Live /\ Closed(r).gone = now)
  BY DEF Row
<1>3. ASSUME NEW r \in R
      PROVE  r.appeared \in Nat /\ r.gone \in Nat /\ r.appeared <= now /\ r.gone <= now
  BY RowNumbers DEF Within
<1> HIDE DEF Closed
<1>4. Within(Close(R, S, now), now)
  BY <1>0, <1>1, <1>2, <1>3 DEF Within
<1>5. ASSUME NEW r \in R, NEW s \in R
      PROVE  /\ Closed(r).gone # Live => Closed(r).appeared <= Closed(r).gone
             /\ Closed(r) # Closed(s) /\ r.path = s.path =>
                  \/ Closed(r).gone # Live /\ Closed(r).gone <= s.appeared
                  \/ Closed(s).gone # Live /\ Closed(s).gone <= r.appeared
  <2>1. Closed(r).gone # Live => Closed(r).appeared <= Closed(r).gone
    BY <1>0, <1>2, <1>3 DEF Disjoint
  <2>2. ASSUME r # s, r.path = s.path
        PROVE  \/ Closed(r).gone # Live /\ Closed(r).gone <= s.appeared
               \/ Closed(s).gone # Live /\ Closed(s).gone <= r.appeared
    <3>1. \/ r.gone # Live /\ r.gone <= s.appeared
          \/ s.gone # Live /\ s.gone <= r.appeared
      BY <2>2 DEF Disjoint
    <3> QED BY <1>2, <3>1
  <2> QED BY <2>1, <2>2
<1>6. Disjoint(Close(R, S, now))
  BY <1>1, <1>2, <1>5 DEF Disjoint
<1> QED BY <1>4, <1>6

\* The row a read writes begins where the one before it ended.
LEMMA PutReadDisjoint ==
  ASSUME NEW R \in SUBSET Row, NEW p \in Path, NEW c, NEW m, NEW id,
         NEW now \in Instants, Disjoint(R), Within(R, now)
  PROVE  Disjoint(PutRead(R, p, c, m, id, now)) /\ Within(PutRead(R, p, c, m, id, now), now)
<1> DEFINE new == [path |-> p, content |-> c, mtime |-> m, appeared |-> now,
                   gone |-> Live, seen |-> id]
           C == Close(R, LiveAt(R, p), now)
           T == PutRead(R, p, c, m, id, now)
<1>0. now \in Nat /\ now # Live /\ Live \in Nat /\ Live <= now
  BY ScanAssumption DEF Instants, Live
<1>1. C \in SUBSET Row
  BY ScanAssumption, CloseTyped DEF Instants, Second
<1>2. Disjoint(C) /\ Within(C, now)
  BY CloseDisjoint
<1>3. \A r \in C : r.path = p => r.gone # Live
  BY CloseLive DEF LiveAt, LiveRows
<1>4. new.path = p /\ new.appeared = now /\ new.gone = Live
  OBVIOUS
<1>5. T \subseteq C \cup {new}
  BY DEF PutRead, Replace
<1> HIDE DEF new, C, T
<1>6. \A r \in C : r.path = p => r.gone # Live /\ r.gone <= new.appeared
  BY <1>2, <1>3, <1>4 DEF Within
<1>7. Within(T, now)
  BY <1>0, <1>2, <1>4, <1>5 DEF Within
<1>8. Disjoint(T)
  BY <1>2, <1>4, <1>5, <1>6 DEF Disjoint
<1> QED BY <1>7, <1>8 DEF T

\* A stamp moves nothing in time.
LEMMA PutShortDisjoint ==
  ASSUME NEW R \in SUBSET Row, NEW p, NEW id, NEW now, Disjoint(R), Within(R, now)
  PROVE  Disjoint(PutShort(R, p, id)) /\ Within(PutShort(R, p, id), now)
<1> DEFINE Stamped(r) == IF r \in LiveAt(R, p) THEN [r EXCEPT !.seen = id] ELSE r
<1>1. PutShort(R, p, id) = {Stamped(r) : r \in R}
  BY DEF PutShort
<1>2. ASSUME NEW r \in R
      PROVE  /\ Stamped(r).path = r.path /\ Stamped(r).appeared = r.appeared
             /\ Stamped(r).gone = r.gone
  BY DEF Row
<1> HIDE DEF Stamped
<1>3. Within(PutShort(R, p, id), now)
  BY <1>1, <1>2 DEF Within
<1>4. Disjoint(PutShort(R, p, id))
  BY <1>1, <1>2 DEF Disjoint
<1> QED BY <1>3, <1>4

LEMMA CommittedDisjoint ==
  ASSUME NEW R \in SUBSET Row, NEW B \in SUBSET Path, scan.now \in Instants,
         Disjoint(R), Within(R, scan.now)
  PROVE  Disjoint(Committed(R, B)) /\ Within(Committed(R, B), scan.now)
<1>1. ASSUME NEW p \in Path PROVE Disjoint(Put(R, p)) /\ Within(Put(R, p), scan.now)
  BY PutShortDisjoint, PutReadDisjoint DEF Put
<1>2. \A r \in Committed(R, B) : \/ r \in R /\ r.path \notin B
                                 \/ r.path \in B /\ r \in Put(R, r.path)
  BY CommittedRows
<1> QED BY <1>1, <1>2 DEF Disjoint, Within

LEMMA StepTimes == ScanInv /\ TimesInv /\ [Next]_vars => TimesInv'
<1> SUFFICES ASSUME ScanInv, TimesInv, [Next]_vars PROVE TimesInv'
  OBVIOUS
<1>0. /\ rows \in SUBSET Row /\ Disjoint(rows) /\ Within(rows, Now) /\ scan \in Scan
      /\ clock \in Instants /\ clock \in Nat /\ scan.now \in Nat
      /\ scan.active => scan.now \in Instants
      /\ scan.active => scan.now <= clock
  BY ScanFields, ScanAssumption
     DEF ScanInv, TypeOK, ScanWellFormed, TimesInv, HistoryDisjoint, Disjoint, Instants, Second
<1>1. Disjoint(rows') /\ Within(rows', Now)
  <2>1. CASE UNCHANGED rows
    BY <1>0, <2>1
  <2>2. ASSUME NEW p \in Path, NEW c, NEW m, clock = Now,
               rows' = PutRead(rows, p, c, m, Unstamped, clock)
        PROVE  Disjoint(rows') /\ Within(rows', Now)
    <3>1. \A now \in Instants : Within(rows, now) =>
            LET T == PutRead(rows, p, c, m, Unstamped, now)
            IN  Disjoint(T) /\ Within(T, now)
      BY <1>0, PutReadDisjoint
    <3> QED BY <1>0, <2>2, <3>1
  <2>3. ASSUME NEW S, NEW now \in Instants, now = Now, rows' = Close(rows, S, now)
        PROVE  Disjoint(rows') /\ Within(rows', Now)
    BY <1>0, <2>3, CloseDisjoint
  <2>4. ASSUME NEW B \in SUBSET Path, scan.now = Now, scan.now \in Instants,
               rows' = Committed(rows, B)
        PROVE  Disjoint(rows') /\ Within(rows', Now)
    BY <1>0, <2>4, CommittedDisjoint
  <2> QED BY <2>1, <2>2, <2>3, <2>4, StepRows DEF RowsStep
\* The present second does not go back.
<1>2. /\ scan'.active => scan'.now <= clock'
      /\ Now <= Now' /\ Now \in Nat /\ Now' \in Nat
  <2>1. CASE UNCHANGED <<clock, scan>>
    BY <1>0, <2>1 DEF Now
  <2>2. CASE ClockTick
    BY <1>0, <2>2 DEF ClockTick, Now
  <2>3. ASSUME NEW S \in ScanRoots, Begin(S) PROVE  /\ scan'.active => scan'.now <= clock'
               /\ Now <= Now' /\ Now \in Nat /\ Now' \in Nat
    <3>1. ~scan.active /\ scan'.active /\ scan'.now = clock /\ clock' = clock
      BY <2>3 DEF Begin
    <3> QED BY <1>0, <3>1 DEF Now
  <2>4. CASE Finalize \/ Abort
    <3>1. scan.active /\ ~scan'.active /\ clock' = clock
      BY <2>4 DEF Finalize, Abort, Hashed, NoScan
    <3> QED BY <1>0, <3>1 DEF Now
  <2>5. CASE UNCHANGED clock /\ scan'.active = scan.active /\ scan'.now = scan.now
    BY <1>0, <2>5 DEF Now
  <2>6. ASSUME NEW p \in Path, Walk(p) \/ WalkFails(p) \/ Hash(p) \/ HashFails(p)
        PROVE  UNCHANGED clock /\ scan'.active = scan.active /\ scan'.now = scan.now
    BY <1>0, <2>6, WalkFailed DEF Walk, Hash, HashFails, Scan
  <2>7. ASSUME NEW B \in Batches, CommitBatch(B)
        PROVE  UNCHANGED clock /\ scan'.active = scan.active /\ scan'.now = scan.now
    BY <1>0, <2>7 DEF CommitBatch, Scan
  <2>8. CASE Disk
    <3>1. scan' = [scan EXCEPT !.faithful = FALSE] /\ UNCHANGED clock
      BY <2>8 DEF Disk, WriteFile, RemoveFile, RenameFile, DiskChange
    <3> QED BY <1>0, <2>5, <3>1, WithUnfaithful
  <2>9. ASSUME NEW p \in Path, WatcherWrites(p) PROVE UNCHANGED <<clock, scan>>
    BY <2>9, WatcherRows
  <2>10. CASE UNCHANGED vars
    BY <2>1, <2>10 DEF vars
  <2> QED BY <2>1, <2>2, <2>3, <2>4, <2>5, <2>6, <2>7, <2>8, <2>9, <2>10
          DEF Next, ScanStep, WatcherWrites
<1>3. Within(rows', Now')
  <2>1. rows' \in SUBSET Row
    BY StepTyped DEF ScanInv, TypeOK
  <2> QED BY <1>1, <1>2, <2>1, RowNumbers DEF Within
<1> QED BY <1>1, <1>2, <1>3 DEF TimesInv, HistoryDisjoint, Disjoint

\* The stretches of time the rows of a path cover never overlap, whatever scans
\* and per-event writes follow each other, though a scan writes every row with
\* the second it began in, however long ago, and INSERT OR REPLACE may take a
\* row of the same second away.
THEOREM HistoriesDisjoint == Spec => []HistoryDisjoint
<1>1. Init => TimesInv
  BY DEF Init, TimesInv, HistoryDisjoint, Within, NoScan
<1>2. TimesInv => HistoryDisjoint
  BY DEF TimesInv
<1> QED BY <1>1, <1>2, StepTimes, InitInv, StepTyped, PTL DEF Spec

-----------------------------------------------------------------------------
(* The batch scanner implements Mirror in what it does to the rows: nothing *)
(* gets into them that was not read at their path.  And a transaction that  *)
(* changes what is live tells the event log so, unless it is one of the     *)
(* watcher's that the property names.                                       *)

-----------------------------------------------------------------------------
(* The content the live rows give a path, after each kind of statement.    *)

LEMMA SameLiveContent ==
  ASSUME NEW R, NEW T, NEW p, LiveAt(T, p) = LiveAt(R, p)
  PROVE  LiveContent(T, p) = LiveContent(R, p)
BY DEF LiveContent

LEMMA LiveContentOf ==
  ASSUME NEW R, OneLive(R), NEW r \in R, r.gone = Live
  PROVE  LiveContent(R, r.path) = r.content
<1>1. LiveAt(R, r.path) = {r}
  BY DEF OneLive, LiveRows, LiveAt
<1> QED BY <1>1 DEF LiveContent

\* process_path leaves the content it writes at its path, and other paths as
\* they were.
LEMMA PutReadContent ==
  ASSUME NEW R \in SUBSET Row, NEW p, NEW c, NEW m, NEW id, NEW now \in Instants, NEW q
  PROVE  LiveContent(PutRead(R, p, c, m, id, now), q)
           = IF q = p THEN c ELSE LiveContent(R, q)
<1> DEFINE new == [path |-> p, content |-> c, mtime |-> m, appeared |-> now,
                   gone |-> Live, seen |-> id]
           T == PutRead(R, p, c, m, id, now)
<1>1. new \in T
  BY DEF PutRead, Replace
<1>2. new.path = p /\ new.content = c /\ new.gone = Live
  OBVIOUS
<1>3. ASSUME NEW r \in T, r.gone = Live PROVE r = new \/ (r \in LiveRows(R) /\ r.path # p)
  BY <1>3, PutReadLive
<1>4. ASSUME NEW r \in R, r.gone = Live, r.path # p PROVE r \in T
  BY <1>4 DEF PutRead, Replace, Close, LiveAt
<1> HIDE DEF new, T
<1>5. CASE q = p
  <2>1. LiveAt(T, q) = {new}
    BY <1>1, <1>2, <1>3, <1>5 DEF LiveAt
  <2> QED BY <1>2, <1>5, <2>1 DEF LiveContent, T
<1>6. CASE q # p
  <2>1. LiveAt(T, q) = LiveAt(R, q)
    BY <1>2, <1>3, <1>4, <1>6 DEF LiveAt, LiveRows
  <2> QED BY <1>6, <2>1, SameLiveContent DEF T
<1> QED BY <1>5, <1>6

\* A stamp changes no content.
LEMMA PutShortContent ==
  ASSUME NEW R \in SUBSET Row, OneLive(R), NEW p, NEW id, NEW q
  PROVE  LiveContent(PutShort(R, p, id), q) = LiveContent(R, q)
<1> DEFINE T == PutShort(R, p, id)
           Stamped(r) == IF r \in LiveAt(R, p) THEN [r EXCEPT !.seen = id] ELSE r
<1>1. T = {Stamped(r) : r \in R}
  BY DEF PutShort
<1>2. ASSUME NEW r \in R
      PROVE  /\ Stamped(r).path = r.path /\ Stamped(r).gone = r.gone
             /\ Stamped(r).content = r.content
  BY <1>2 DEF Row
<1>3. OneLive(T)
  BY PutShortLive DEF OneLive, LiveRows
<1> HIDE DEF T, Stamped
<1>4. CASE LiveAt(R, q) = {}
  <2>1. LiveAt(T, q) = {}
    BY <1>1, <1>2, <1>4 DEF LiveAt
  <2> QED BY <1>4, <2>1, SameLiveContent DEF T
<1>5. CASE LiveAt(R, q) # {}
  <2>1. PICK r \in R : r.gone = Live /\ r.path = q
    BY <1>5 DEF LiveAt
  <2>2. LiveContent(R, q) = r.content
    BY <2>1, LiveContentOf
  <2>3. LiveContent(T, q) = r.content
    BY <1>1, <1>2, <1>3, <2>1, LiveContentOf
  <2> QED BY <2>2, <2>3 DEF T
<1> QED BY <1>4, <1>5

\* Closing rows leaves a path without a live row or leaves it alone.
LEMMA CloseContent ==
  ASSUME NEW R \in SUBSET Row, OneLive(R), NEW S, NEW now \in Instants, NEW q
  PROVE  LiveContent(Close(R, S, now), q)
           = IF LiveAt(R, q) \subseteq S THEN Absent ELSE LiveContent(R, q)
<1> DEFINE T == Close(R, S, now)
<1>1. ASSUME NEW r \in T, r.gone = Live PROVE r \in LiveRows(R) /\ r \notin S
  BY <1>1, CloseLive
<1>2. ASSUME NEW r \in R, r \notin S PROVE r \in T
  BY <1>2 DEF Close
<1> HIDE DEF T
<1>3. CASE LiveAt(R, q) \subseteq S
  <2>1. LiveAt(T, q) = {}
    BY <1>1, <1>3 DEF LiveAt, LiveRows
  <2> QED BY <1>3, <2>1 DEF LiveContent, T
<1>4. CASE ~(LiveAt(R, q) \subseteq S)
  <2>1. PICK r \in LiveAt(R, q) : r \notin S
    BY <1>4
  <2>2. LiveAt(R, q) = {r}
    BY <2>1 DEF LiveAt, OneLive, LiveRows
  <2>3. LiveAt(T, q) = {r}
    BY <1>1, <1>2, <2>1, <2>2 DEF LiveAt, LiveRows
  <2> QED BY <1>4, <2>2, <2>3, SameLiveContent DEF T
<1> QED BY <1>3, <1>4

LEMMA CommittedContent ==
  ASSUME NEW R \in SUBSET Row, OneLive(R), NEW B, scan.now \in Instants, NEW q
  PROVE  LiveContent(Committed(R, B), q)
           = IF q \in B /\ scan.entry[q].state # "short" THEN scan.entry[q].content
             ELSE LiveContent(R, q)
<1>1. CASE q \notin B
  <2>1. LiveAt(Committed(R, B), q) = LiveAt(R, q)
    BY <1>1, CommittedRows DEF LiveAt
  <2> QED BY <1>1, <2>1, SameLiveContent
<1>2. CASE q \in B
  <2>1. LiveAt(Committed(R, B), q) = LiveAt(Put(R, q), q)
    BY <1>2, CommittedRows DEF LiveAt
  <2>2. LiveContent(Committed(R, B), q) = LiveContent(Put(R, q), q)
    BY <2>1, SameLiveContent
  <2>3. CASE scan.entry[q].state = "short"
    BY <2>2, <2>3, PutShortContent DEF Put
  <2>4. CASE scan.entry[q].state # "short"
    BY <1>2, <2>2, <2>4, PutReadContent DEF Put
  <2> QED BY <2>3, <2>4
<1> QED BY <1>1, <1>2
-----------------------------------------------------------------------------
(* The invariant: what a scan remembers of the rows of the paths it has    *)
(* not committed yet is still so, nobody else writing while it holds the   *)
(* lock; and a short-circuited entry is one of a path that has a row.      *)

PrevIsLive ==
  scan.active => \A p \in Path :
    p \in scan.unwalked \/ scan.entry[p].state # "done" =>
      scan.prev[p] = LiveContent(rows, p)

ShortIsPrev ==
  \A p \in Path : scan.entry[p].state = "short" =>
    scan.entry[p].content = scan.prev[p] /\ scan.prev[p] # Absent

MirrorInv == ScanInv /\ OneLiveRow /\ PrevIsLive /\ ShortIsPrev

LEMMA MirrorFacts ==
  ASSUME MirrorInv
  PROVE  /\ rows \in SUBSET Row /\ OneLive(rows)
         /\ view \in [Path -> File] /\ scan \in Scan
         /\ fs \in [Path -> [content : File, mtime : Second]]
         /\ clock \in Instants
         /\ scan.active => scan.now \in Instants
         /\ scan.entry \in [Path -> EntryRec] /\ scan.prev \in [Path -> File]
BY ScanFields DEF MirrorInv, ScanInv, TypeOK, ScanWellFormed, OneLiveRow, OneLive, Instants

\* The rows and the log after a batch.
LEMMA CommitBatchContent ==
  ASSUME MirrorInv, NEW B \in Batches, CommitBatch(B), NEW p \in Path
  PROVE  /\ LiveContent(rows', p) = IF p \in B THEN scan.entry[p].content
                                    ELSE LiveContent(rows, p)
         /\ view[p] = LiveContent(rows, p) => view'[p] = LiveContent(rows', p)
<1>0. /\ rows \in SUBSET Row /\ OneLive(rows) /\ scan.now \in Instants
      /\ B \subseteq ToCommit /\ scan.active
  BY MirrorFacts DEF CommitBatch, Hashed, Batches
<1>1. ASSUME p \in B
      PROVE  /\ scan.entry[p].state # "done" /\ scan.prev[p] = LiveContent(rows, p)
             /\ scan.entry[p].state = "short" => scan.entry[p].content = LiveContent(rows, p)
  BY <1>0, <1>1 DEF ToCommit, MirrorInv, PrevIsLive, ShortIsPrev
<1>2. rows' = Committed(rows, B)
      /\ view'[p] = IF p \in B /\ Provisional(p) # "none" THEN scan.entry[p].content ELSE view[p]
  BY DEF CommitBatch
<1>3. LiveContent(rows', p) = IF p \in B /\ scan.entry[p].state # "short"
                              THEN scan.entry[p].content ELSE LiveContent(rows, p)
  BY <1>0, <1>2, CommittedContent
<1>4. p \in B /\ Provisional(p) = "none" => scan.entry[p].content = LiveContent(rows, p)
  BY <1>1 DEF Provisional
<1> QED BY <1>0, <1>1, <1>2, <1>3, <1>4

\* The rows and the log after the last transaction of a scan: a path loses its
\* row exactly when it is reported deleted.
LEMMA FinalizeContent ==
  ASSUME MirrorInv, Finalize, NEW p \in Path
  PROVE  /\ LiveContent(rows', p) \in {LiveContent(rows, p), Absent}
         /\ view[p] = LiveContent(rows, p) => view'[p] = LiveContent(rows', p)
<1>0. /\ rows \in SUBSET Row /\ OneLive(rows) /\ scan.now \in Instants
      /\ rows' = Close(rows, Unseen(rows), scan.now) /\ rows' = Finalized
      /\ view'[p] = IF p \in Vanished THEN Absent ELSE view[p]
  BY MirrorFacts DEF Finalize, Hashed, Finalized
<1>1. LiveContent(rows', p) = IF LiveAt(rows, p) \subseteq Unseen(rows) THEN Absent
                              ELSE LiveContent(rows, p)
  <2>1. \A S : LiveContent(Close(rows, S, scan.now), p)
                = IF LiveAt(rows, p) \subseteq S THEN Absent ELSE LiveContent(rows, p)
    BY <1>0, CloseContent
  <2>2. LiveContent(Close(rows, Unseen(rows), scan.now), p)
          = IF LiveAt(rows, p) \subseteq Unseen(rows) THEN Absent ELSE LiveContent(rows, p)
    BY <2>1
  <2> QED BY <1>0, <2>2
<1>2. CASE LiveAt(rows, p) = {}
  <2>1. LiveContent(rows, p) = Absent
    BY <1>2 DEF LiveContent
  <2> QED BY <1>0, <1>1, <2>1
<1>3. CASE LiveAt(rows, p) # {} /\ LiveAt(rows, p) \subseteq Unseen(rows)
  <2>1. PICK r \in LiveAt(rows, p) : r \in Unseen(rows)
    BY <1>3
  <2> DEFINE q == [r EXCEPT !.gone = scan.now]
  <2>2. /\ r \in rows /\ r.gone = Live /\ r.path = p
        /\ r.seen = Unstamped \/ r.seen < scan.id
    BY <2>1 DEF LiveAt, Unseen, LiveRows
  <2>3. q \in Finalized
    BY <1>0, <2>1, <2>2 DEF Close
  <2>4. q.gone = scan.now /\ q.path = p /\ q.seen = r.seen
    BY <1>0, <2>2 DEF Row
  <2>5. LiveAt(Finalized, p) = {}
    <3>1. ASSUME NEW s \in Finalized, s.gone = Live PROVE s \in LiveRows(rows) /\ s \notin Unseen(rows)
      <4>1. \A S : \A t \in Close(rows, S, scan.now) :
              t.gone = Live => t \in LiveRows(rows) /\ t \notin S
        BY <1>0, CloseLive
      <4> QED BY <1>0, <3>1, <4>1
    <3> QED BY <1>3, <3>1 DEF LiveAt, LiveRows
  <2> HIDE DEF q
  <2>6. p \in Vanished
    BY <2>2, <2>3, <2>4, <2>5 DEF Vanished
  <2> QED BY <1>0, <1>1, <1>3, <2>6
<1>4. CASE ~(LiveAt(rows, p) \subseteq Unseen(rows))
  <2>1. PICK r \in LiveAt(rows, p) : r \notin Unseen(rows)
    BY <1>4
  <2>2. r \in LiveAt(Finalized, p)
    BY <1>0, <2>1 DEF LiveAt, Close
  <2>3. p \notin Vanished
    BY <2>2 DEF Vanished
  <2> QED BY <1>0, <1>1, <1>4, <2>3
<1> QED BY <1>2, <1>3, <1>4

LEMMA InitMirror == Init => MirrorInv
<1> SUFFICES ASSUME Init PROVE MirrorInv
  OBVIOUS
<1>1. ScanInv
  BY InitInv
<1>2. OneLiveRow
  BY DEF Init, OneLiveRow, LiveRows
<1>3. PrevIsLive /\ ShortIsPrev
  BY DEF Init, PrevIsLive, ShortIsPrev, NoScan, NoEntry
<1> QED BY <1>1, <1>2, <1>3 DEF MirrorInv

\* A step that reads or forgets an entry: the paths it makes uncommitted were
\* so before, and a short-circuited entry has the previous content.
LEMMA EntryStep ==
  ASSUME MirrorInv, UNCHANGED rows, ScanInv',
         scan'.active = scan.active, scan'.prev = scan.prev,
         scan'.unwalked \subseteq scan.unwalked,
         NEW p \in Path, p \in scan.unwalked \/ scan.entry[p].state = "pending",
         \A q \in Path : q # p => scan'.entry[q] = scan.entry[q],
         scan'.entry[p].state = "short" =>
           scan'.entry[p].content = scan.prev[p] /\ scan.prev[p] # Absent
  PROVE  MirrorInv'
<1>1. OneLiveRow'
  BY DEF MirrorInv, OneLiveRow
<1>2. PrevIsLive'
  BY DEF MirrorInv, PrevIsLive
<1>3. ShortIsPrev'
  BY DEF MirrorInv, ShortIsPrev
<1> QED BY <1>1, <1>2, <1>3 DEF MirrorInv

\* What reading a file, or failing to, makes of its entry.
LEMMA HashedEntry ==
  ASSUME ScanInv, NEW p \in Path, Hash(p) \/ HashFails(p)
  PROVE  \E e \in EntryRec :
           /\ e.state # "short"
           /\ e.state = "read" => e.content = fs[p].content
           /\ scan'.active = scan.active /\ scan'.prev = scan.prev
           /\ scan'.unwalked = scan.unwalked
           /\ scan'.entry = [scan.entry EXCEPT ![p] = e]
<1>0. scan \in Scan /\ scan.entry \in [Path -> EntryRec] /\ scan.entry[p] \in EntryRec
      /\ fs[p].content \in File
  BY ScanFields DEF ScanInv, TypeOK
<1>1. CASE scan' = [scan EXCEPT !.entry[p] = NoEntry]
           \/ scan' = [scan EXCEPT !.entry[p] = NoEntry, !.faithful = FALSE]
  <2>1. /\ scan'.active = scan.active /\ scan'.prev = scan.prev
        /\ scan'.unwalked = scan.unwalked
        /\ scan'.entry = [scan.entry EXCEPT ![p] = NoEntry]
    BY <1>0, <1>1 DEF Scan
  <2> QED BY <2>1, NoEntryTyped DEF NoEntry
<1>2. CASE scan' = [scan EXCEPT !.entry[p].state = "read", !.entry[p].content = fs[p].content]
  <2> DEFINE e == [scan.entry[p] EXCEPT !.state = "read", !.content = fs[p].content]
  <2>1. e \in EntryRec /\ e.state = "read" /\ e.content = fs[p].content
    BY <1>0 DEF EntryRec, EntryState
  <2>2. [[scan.entry EXCEPT ![p].state = "read"] EXCEPT ![p].content = fs[p].content]
          = [scan.entry EXCEPT ![p] = e]
    BY <1>0 DEF EntryRec
  <2>3. scan' = [scan EXCEPT !.entry = [scan.entry EXCEPT ![p] = e]]
    BY <1>0, <1>2, <2>2 DEF Scan
  <2> HIDE DEF e
  <2>4. /\ scan'.active = scan.active /\ scan'.prev = scan.prev
        /\ scan'.unwalked = scan.unwalked
        /\ scan'.entry = [scan.entry EXCEPT ![p] = e]
    BY <1>0, <2>3 DEF Scan
  <2> QED BY <2>1, <2>4
<1> QED BY <1>1, <1>2 DEF Hash, HashFails

LEMMA StepMirror == MirrorInv /\ [Next]_vars => MirrorInv'
<1> SUFFICES ASSUME MirrorInv, [Next]_vars PROVE MirrorInv'
  OBVIOUS
<1>0. ScanInv' /\ OneLiveRow'
  BY StepTyped, OneLiveRowStep DEF MirrorInv
<1>f. /\ rows \in SUBSET Row /\ OneLive(rows)
      /\ view \in [Path -> File] /\ scan \in Scan /\ clock \in Instants
      /\ scan.entry \in [Path -> EntryRec] /\ scan.unwalked \in SUBSET Path
  BY MirrorFacts, ScanFields
<1>i. PrevIsLive /\ ShortIsPrev
  BY DEF MirrorInv
<1>1. CASE Disk \/ ClockTick \/ UNCHANGED vars
  <2>1. UNCHANGED rows
    BY <1>1 DEF Disk, WriteFile, RemoveFile, RenameFile, DiskChange, ClockTick, vars
  <2>2. scan' = scan \/ scan' = [scan EXCEPT !.faithful = FALSE]
    BY <1>1 DEF Disk, WriteFile, RemoveFile, RenameFile, DiskChange, ClockTick, vars
  <2>3. /\ scan'.active = scan.active /\ scan'.entry = scan.entry
        /\ scan'.prev = scan.prev /\ scan'.unwalked = scan.unwalked
    BY <1>f, <2>2 DEF Scan
  <2>4. PrevIsLive' /\ ShortIsPrev'
    BY <1>i, <2>1, <2>3 DEF PrevIsLive, ShortIsPrev
  <2> QED BY <1>0, <2>4 DEF MirrorInv
<1>2. ASSUME NEW p \in Path, WatcherWrites(p) PROVE MirrorInv'
  <2>1. ~scan.active /\ scan' = scan
    BY <1>2, WatcherRows
  <2>2. PrevIsLive' /\ ShortIsPrev'
    BY <1>i, <2>1 DEF PrevIsLive, ShortIsPrev
  <2> QED BY <1>0, <2>2 DEF MirrorInv
<1>3. ASSUME NEW S \in ScanRoots, Begin(S) PROVE MirrorInv'
  <2>1. /\ scan'.entry = [p \in Path |-> NoEntry]
        /\ scan'.prev = [p \in Path |-> LiveContent(rows, p)]
        /\ UNCHANGED rows
    BY <1>3 DEF Begin
  <2>2. PrevIsLive' /\ ShortIsPrev'
    BY <2>1 DEF PrevIsLive, ShortIsPrev, NoEntry
  <2> QED BY <1>0, <2>2 DEF MirrorInv
<1>4. ASSUME NEW p \in Path, Walk(p) PROVE MirrorInv'
  <2>1. p \in scan.unwalked /\ UNCHANGED rows
    BY <1>4 DEF Walk
  <2>2. /\ scan'.active = scan.active /\ scan'.prev = scan.prev
        /\ scan'.unwalked = scan.unwalked \ {p}
        /\ scan'.entry = scan.entry \/ scan'.entry = [scan.entry EXCEPT ![p] = WalkEntry(p)]
    BY <1>f, <1>4 DEF Walk, Scan
  <2>3. WalkEntry(p).state = "short" =>
          WalkEntry(p).content = scan.prev[p] /\ scan.prev[p] # Absent
    BY DEF WalkEntry
  <2>4. scan'.entry[p].state = "short" =>
          scan'.entry[p].content = scan.prev[p] /\ scan.prev[p] # Absent
    BY <1>f, <1>i, <2>2, <2>3 DEF ShortIsPrev
  <2>5. \A q \in Path : q # p => scan'.entry[q] = scan.entry[q]
    BY <1>f, <2>2
  <2> QED BY <1>0, <2>1, <2>2, <2>4, <2>5, EntryStep
<1>5. ASSUME NEW p \in Path, Hash(p) \/ HashFails(p) PROVE MirrorInv'
  <2>1. scan.entry[p].state = "pending" /\ UNCHANGED rows
    BY <1>5 DEF Hash, HashFails
  <2>2. PICK e \in EntryRec : /\ e.state # "short"
                              /\ scan'.active = scan.active /\ scan'.prev = scan.prev
                              /\ scan'.unwalked = scan.unwalked
                              /\ scan'.entry = [scan.entry EXCEPT ![p] = e]
    BY <1>5, <1>f, HashedEntry DEF MirrorInv
  <2> QED BY <1>0, <1>f, <2>1, <2>2, EntryStep
<1>6. ASSUME NEW B \in Batches, CommitBatch(B) PROVE MirrorInv'
  <2>2. /\ scan'.prev = scan.prev /\ scan'.unwalked = {}
        /\ \A q \in Path : scan'.entry[q] = IF q \in B THEN [scan.entry[q] EXCEPT !.state = "done"]
                                            ELSE scan.entry[q]
        /\ scan.active
    BY <1>f, <1>6 DEF CommitBatch, Hashed, Scan
  <2>3. \A q \in B \cap Path : scan'.entry[q].state = "done"
    BY <1>f, <2>2 DEF EntryRec
  <2>4. PrevIsLive'
    BY <1>6, <1>i, <2>2, <2>3, CommitBatchContent DEF PrevIsLive
  <2>5. ShortIsPrev'
    BY <1>i, <2>2, <2>3 DEF ShortIsPrev
  <2> QED BY <1>0, <2>4, <2>5 DEF MirrorInv
<1>7. CASE Finalize \/ Abort
  <2>2. ~scan'.active /\ scan'.entry = [p \in Path |-> NoEntry]
    BY <1>7 DEF Finalize, Abort, NoScan
  <2>3. PrevIsLive' /\ ShortIsPrev'
    BY <2>2 DEF PrevIsLive, ShortIsPrev, NoEntry
  <2> QED BY <1>0, <2>3 DEF MirrorInv
<1>8. ASSUME NEW p \in Path, WalkFails(p) PROVE MirrorInv'
  <2>1. /\ p \in scan.unwalked /\ UNCHANGED rows
        /\ scan'.active = scan.active /\ scan'.prev = scan.prev
        /\ scan'.entry = scan.entry /\ scan'.unwalked = scan.unwalked \ {p}
    BY <1>f, <1>8, WalkFailed
  <2>2. scan'.entry[p].state = "short" =>
          scan'.entry[p].content = scan.prev[p] /\ scan.prev[p] # Absent
    BY <1>i, <2>1 DEF ShortIsPrev
  <2> QED BY <1>0, <2>1, <2>2, EntryStep
<1> QED
  BY <1>1, <1>2, <1>3, <1>4, <1>5, <1>6, <1>7, <1>8 DEF Next, ScanStep, WatcherWrites

\* What the watcher writes at a path, it writes at that path only.
LEMMA WatcherElsewhere ==
  ASSUME MirrorInv, NEW p \in Path, WatcherWrites(p), NEW q \in Path, q # p
  PROVE  LiveContent(rows', q) = LiveContent(rows, q) /\ view'[q] = view[q]
<1>0. rows \in SUBSET Row /\ OneLive(rows) /\ clock \in Instants /\ view \in [Path -> File]
  BY MirrorFacts
<1>1. LiveContent(Close(rows, LiveAt(rows, p), clock), q) = LiveContent(rows, q)
  <2>1. \A S : LiveContent(Close(rows, S, clock), q)
                 = IF LiveAt(rows, q) \subseteq S THEN Absent ELSE LiveContent(rows, q)
    BY <1>0, CloseContent
  <2>2. LiveAt(rows, q) \subseteq LiveAt(rows, p) => LiveContent(rows, q) = Absent
    BY DEF LiveAt, LiveContent
  <2> QED BY <2>1, <2>2
<1>2. LiveContent(PutRead(rows, p, fs[p].content, fs[p].mtime, Unstamped, clock), q)
        = LiveContent(rows, q)
  BY <1>0, PutReadContent
<1>3. view'[q] = view[q]
  BY <1>0 DEF WatcherWrites, WatcherDelete, WatcherFails, WatcherIndex
<1> QED BY <1>1, <1>2, <1>3, WatcherRows

\* A batch and the last transaction of a scan keep the log in step with the
\* rows, in every instance, a batch that no other follows included; so does
\* the watcher, but for an event decided from a cache that is behind the rows
\* and one that fails half-way.
THEOREM LogStaysKept == Spec => LogKept
<1>1. MirrorInv /\ [Next]_vars =>
        [\A p \in Path : view[p] = LiveContent(rows, p) =>
           \/ view'[p] = LiveContent(rows', p)
           \/ WatcherFails(p)
           \/ \E known \in File : known # LiveContent(rows, p) /\ WatcherIndex(p, known)]_vars
  <2> SUFFICES ASSUME MirrorInv, [Next]_vars, NEW p \in Path, view[p] = LiveContent(rows, p),
                      ~WatcherFails(p),
                      \A known \in File : WatcherIndex(p, known) => known = LiveContent(rows, p)
               PROVE  view'[p] = LiveContent(rows', p)
    OBVIOUS
  <2>f. rows \in SUBSET Row /\ OneLive(rows) /\ clock \in Instants /\ view \in [Path -> File]
        /\ scan \in Scan
    BY MirrorFacts
  <2>1. CASE UNCHANGED <<rows, view>>
    BY <2>1
  <2>2. CASE Disk \/ ClockTick \/ UNCHANGED vars \/ Abort \/ \E S \in ScanRoots : Begin(S)
    BY <2>1, <2>2 DEF Disk, WriteFile, RemoveFile, RenameFile, DiskChange, ClockTick, vars,
                      Abort, Begin
  <2>3. ASSUME NEW q \in Path, Walk(q) \/ WalkFails(q) \/ Hash(q) \/ HashFails(q)
        PROVE  UNCHANGED <<rows, view>>
    BY <2>3 DEF Walk, WalkFails, Hash, HashFails
  <2>4. ASSUME NEW q \in Path, q # p, WatcherWrites(q) PROVE view'[p] = LiveContent(rows', p)
    BY <2>4, WatcherElsewhere
  <2>5. CASE WatcherDelete(p)
    <3>1. \A S : LiveContent(Close(rows, S, clock), p)
                   = IF LiveAt(rows, p) \subseteq S THEN Absent ELSE LiveContent(rows, p)
      BY <2>f, CloseContent
    <3>2. rows' = Close(rows, LiveAt(rows, p), clock) /\ view' = [view EXCEPT ![p] = Absent]
      BY <2>5 DEF WatcherDelete
    <3> QED BY <2>f, <3>1, <3>2
  <2>6. ASSUME NEW known \in File, WatcherIndex(p, known)
        PROVE  view'[p] = LiveContent(rows', p)
    <3>1. rows' = PutRead(rows, p, fs[p].content, fs[p].mtime, Unstamped, clock)
          /\ view' = [view EXCEPT ![p] = IF known = fs[p].content THEN view[p]
                                         ELSE fs[p].content]
      BY <2>6 DEF WatcherIndex, ReadByWatcher
    <3>2. LiveContent(rows', p) = fs[p].content
      BY <2>f, <3>1, PutReadContent
    <3>3. known = view[p]
      BY <2>6
    <3> QED BY <2>f, <3>1, <3>2, <3>3
  <2>7. ASSUME NEW B \in Batches, CommitBatch(B) PROVE view'[p] = LiveContent(rows', p)
    BY <2>7, CommitBatchContent
  <2>8. CASE Finalize
    BY <2>8, FinalizeContent
  <2>9. CASE \E q \in Path : WatcherWrites(q)
    BY <2>4, <2>5, <2>6, <2>9 DEF WatcherWrites
  <2> QED BY <2>1, <2>2, <2>3, <2>7, <2>8, <2>9 DEF Next, ScanStep, WatcherWrites
<1> QED BY <1>1, InitMirror, StepMirror, PTL DEF Spec, LogKept
-----------------------------------------------------------------------------
(* The refinement.  LiveContents, which stands for index and for log, is a  *)
(* substitution of Promise; so are the two below.                           *)

StagedOf == [p \in Path |-> IF scan.entry[p].state = "read" THEN scan.entry[p].content
                            ELSE LiveContent(rows, p)]

DiskOf == [p \in Path |-> fs[p].content]

Refined ==
  /\ LiveContents \in [Path -> File] /\ StagedOf \in [Path -> File]
  /\ DiskOf \in [Path -> File]

LEMMA RefinedTyped == MirrorInv => Refined
<1> SUFFICES ASSUME MirrorInv PROVE Refined
  OBVIOUS
<1>1. \A p \in Path : LiveContent(rows, p) \in File
  BY MirrorFacts, LiveContentTyped
<1>2. \A p \in Path : scan.entry[p].content \in File
  BY MirrorFacts DEF EntryRec
<1> QED BY <1>1, <1>2, MirrorFacts DEF Refined, LiveContents, StagedOf, DiskOf

LEMMA RefinedTypedNext == MirrorInv' => Refined'
BY RefinedTyped, PTL

\* A step of a scan that commits nothing stages what it read or gives it up.
LEMMA DiscardStep ==
  ASSUME MirrorInv, MirrorInv', UNCHANGED <<fs, rows>>,
         \A p \in Path : scan'.entry[p].state = "read" => scan'.entry[p] = scan.entry[p]
  PROVE  Promise!Discard
<1>1. DiskOf' = DiskOf /\ LiveContents' = LiveContents
  BY DEF DiskOf, LiveContents
<1>2. StagedOf' \in [Path -> File]
  BY RefinedTypedNext DEF Refined
<1>3. \A p \in Path : StagedOf'[p] \in {StagedOf[p], LiveContents[p]}
  BY DEF StagedOf, LiveContents
<1> QED BY <1>1, <1>2, <1>3 DEF Promise!Discard, Promise!File, File, DiskOf, StagedOf, LiveContents

\* A transaction publishes only what is staged, on disk, or nothing.
LEMMA PublishStep ==
  ASSUME MirrorInv, MirrorInv', UNCHANGED fs,
         \A p \in Path :
           LiveContent(rows', p) \in {LiveContent(rows, p), StagedOf[p], fs[p].content, Absent},
         \A p \in Path : scan'.entry[p].state = "read" => scan'.entry[p] = scan.entry[p]
  PROVE  Promise!Publish
<1>1. /\ LiveContents' \in [Path -> File] /\ StagedOf' \in [Path -> File]
      /\ DiskOf' = DiskOf
  <2>1. LiveContents' \in [Path -> File] /\ StagedOf' \in [Path -> File]
    BY RefinedTypedNext DEF Refined
  <2> QED BY <2>1 DEF DiskOf
<1>2. \A p \in Path : LiveContents'[p] \in {LiveContents[p], StagedOf[p], DiskOf[p], Absent}
  BY DEF LiveContents, DiskOf
<1>3. \A p \in Path : StagedOf'[p] \in {StagedOf[p], LiveContents'[p]}
  BY DEF StagedOf, LiveContents
<1> QED BY <1>1, <1>2, <1>3 DEF Promise!Publish, Promise!File, File, DiskOf, StagedOf, LiveContents

LEMMA InitRefines == Init => Promise!Init
<1> SUFFICES ASSUME Init PROVE Promise!Init
  OBVIOUS
<1>1. Refined
  BY InitMirror, RefinedTyped
<1>2. \A p \in Path : LiveContent(rows, p) = Absent /\ scan.entry[p].state # "read"
  BY DEF Init, LiveContent, LiveAt, NoScan, NoEntry
<1> QED BY <1>1, <1>2 DEF Init, Promise!Init, Promise!Empty, Promise!File, Refined, File,
                          LiveContents, StagedOf, DiskOf

LEMMA StepRefines == MirrorInv /\ MirrorInv' /\ [Next]_vars => [Promise!Next]_(Promise!vars)
<1> SUFFICES ASSUME MirrorInv, MirrorInv', [Next]_vars PROVE [Promise!Next]_(Promise!vars)
  OBVIOUS
<1>f. /\ rows \in SUBSET Row /\ OneLive(rows) /\ clock \in Instants /\ scan \in Scan
      /\ scan.entry \in [Path -> EntryRec]
      /\ fs \in [Path -> [content : File, mtime : Second]]
  BY MirrorFacts
<1>r. Refined /\ Refined'
  BY RefinedTyped, RefinedTypedNext
<1>d. ASSUME Promise!Discard \/ Promise!Publish PROVE Promise!Next
  BY <1>d DEF Promise!Next
<1>1. CASE Disk
  <2>1. scan' = [scan EXCEPT !.faithful = FALSE] /\ UNCHANGED rows
    BY <1>1 DEF Disk, WriteFile, RemoveFile, RenameFile, DiskChange
  <2>2. scan'.entry = scan.entry
    BY <1>f, <2>1 DEF Scan
  <2>3. LiveContents' = LiveContents /\ StagedOf' = StagedOf
    BY <2>1, <2>2 DEF LiveContents, StagedOf
  <2>4. Promise!DiskChanges
    BY <1>r, <2>1, <2>3 DEF Promise!DiskChanges, Promise!File, Refined, File, LiveContents, StagedOf, DiskOf
  <2> QED BY <2>4 DEF Promise!Next
<1>2. CASE ClockTick \/ UNCHANGED vars
  <2>1. UNCHANGED <<fs, rows, scan>>
    BY <1>2 DEF ClockTick, vars
  <2>2. UNCHANGED Promise!vars
    BY <2>1 DEF Promise!vars, LiveContents
  <2> QED BY <2>2
<1>3. ASSUME NEW p \in Path, WatcherWrites(p) PROVE Promise!Next
  <2>1. UNCHANGED <<fs, scan>>
    BY <1>3, WatcherRows
  <2>2. \A q \in Path : LiveContent(PutRead(rows, p, fs[p].content, fs[p].mtime, Unstamped, clock), q)
                          \in {LiveContent(rows, q), fs[q].content}
    BY <1>f, PutReadContent
  <2>3. \A S, q : LiveContent(Close(rows, S, clock), q) \in {LiveContent(rows, q), Absent}
    BY <1>f, CloseContent
  <2>4. \A q \in Path : LiveContent(rows', q) \in {LiveContent(rows, q), fs[q].content, Absent}
    BY <1>3, <2>2, <2>3, WatcherRows
  <2> QED BY <1>d, <2>1, <2>4, PublishStep
<1>5. ASSUME NEW S \in ScanRoots, Begin(S) PROVE Promise!Next
  <2>1. UNCHANGED <<fs, rows>> /\ scan'.entry = [p \in Path |-> NoEntry]
    BY <1>5 DEF Begin
  <2> QED BY <1>d, <2>1, DiscardStep DEF NoEntry
<1>6. ASSUME NEW p \in Path, Walk(p) PROVE Promise!Next
  <2>1. UNCHANGED <<fs, rows>>
        /\ (scan'.entry = scan.entry \/ scan'.entry = [scan.entry EXCEPT ![p] = WalkEntry(p)])
    BY <1>f, <1>6 DEF Walk, Scan
  <2>2. WalkEntry(p).state # "read"
    BY DEF WalkEntry
  <2>3. \A q \in Path : scan'.entry[q].state = "read" => scan'.entry[q] = scan.entry[q]
    BY <1>f, <2>1, <2>2
  <2> QED BY <1>d, <2>1, <2>3, DiscardStep
<1>7. ASSUME NEW p \in Path, Hash(p) \/ HashFails(p) PROVE Promise!Next
  <2>1. UNCHANGED <<fs, rows>> /\ scan.entry[p].state = "pending"
    BY <1>7 DEF Hash, HashFails
  <2>2. PICK e \in EntryRec : /\ e.state = "read" => e.content = fs[p].content
                              /\ scan'.entry = [scan.entry EXCEPT ![p] = e]
    BY <1>7, HashedEntry DEF MirrorInv
  <2>3. CASE e.state # "read"
    <3>1. \A q \in Path : scan'.entry[q].state = "read" => scan'.entry[q] = scan.entry[q]
      BY <1>f, <2>2, <2>3
    <3> QED BY <1>d, <2>1, <3>1, DiscardStep
  <2>4. CASE e.state = "read"
    <3>1. StagedOf' = [StagedOf EXCEPT ![p] = DiskOf[p]]
      BY <1>f, <2>1, <2>2, <2>4 DEF StagedOf, DiskOf
    <3>2. LiveContents' = LiveContents /\ DiskOf' = DiskOf
      BY <2>1 DEF LiveContents, DiskOf
    <3>3. Promise!Stage
      BY <1>r, <3>1, <3>2 DEF Promise!Stage, Promise!File, File, Refined, LiveContents, StagedOf, DiskOf
    <3> QED BY <3>3 DEF Promise!Next
  <2> QED BY <2>3, <2>4
<1>8. ASSUME NEW B \in Batches, CommitBatch(B) PROVE Promise!Next
  <2>1. UNCHANGED fs /\ B \subseteq ToCommit /\ ToCommit \subseteq Path
    BY <1>8 DEF CommitBatch, Batches, ToCommit
  <2>2. \A q \in Path : scan'.entry[q] = IF q \in B THEN [scan.entry[q] EXCEPT !.state = "done"]
                                         ELSE scan.entry[q]
    BY <1>f, <1>8 DEF CommitBatch, Scan
  <2>3. \A q \in Path : scan'.entry[q].state = "read" => scan'.entry[q] = scan.entry[q]
    BY <1>f, <2>2 DEF EntryRec
  <2>4. ASSUME NEW q \in Path PROVE LiveContent(rows', q) \in {LiveContent(rows, q), StagedOf[q]}
    <3>1. LiveContent(rows', q) = IF q \in B THEN scan.entry[q].content ELSE LiveContent(rows, q)
      BY <1>8, CommitBatchContent
    <3>2. CASE q \in B /\ scan.entry[q].state = "short"
      <4>1. scan.entry[q].content = scan.prev[q] /\ scan.active
        BY <1>8, <3>2 DEF MirrorInv, ShortIsPrev, CommitBatch, Hashed
      <4>2. scan.prev[q] = LiveContent(rows, q)
        BY <3>2, <4>1 DEF MirrorInv, PrevIsLive
      <4> QED BY <3>1, <4>1, <4>2
    <3>3. CASE q \in B /\ scan.entry[q].state # "short"
      <4>1. scan.entry[q].state = "read"
        BY <2>1, <3>3 DEF ToCommit
      <4> QED BY <3>1, <3>3, <4>1 DEF StagedOf
    <3> QED BY <3>1, <3>2, <3>3
  <2> QED BY <1>d, <2>1, <2>3, <2>4, PublishStep
<1>9. CASE Finalize
  <2>1. UNCHANGED fs /\ scan'.entry = [p \in Path |-> NoEntry]
    BY <1>9 DEF Finalize, NoScan
  <2>2. \A q \in Path : LiveContent(rows', q) \in {LiveContent(rows, q), Absent}
    BY <1>9, FinalizeContent
  <2> QED BY <1>d, <2>1, <2>2, PublishStep DEF NoEntry
<1>10. CASE Abort
  <2>1. UNCHANGED <<fs, rows>> /\ scan'.entry = [p \in Path |-> NoEntry]
    BY <1>10 DEF Abort, NoScan
  <2> QED BY <1>d, <2>1, DiscardStep DEF NoEntry
<1>11. ASSUME NEW p \in Path, WalkFails(p) PROVE Promise!Next
  <2>1. UNCHANGED <<fs, rows>> /\ scan'.entry = scan.entry
    BY <1>f, <1>11, WalkFailed
  <2> QED BY <1>d, <2>1, DiscardStep
<1> QED
  BY <1>1, <1>2, <1>3, <1>5, <1>6, <1>7, <1>8, <1>9, <1>10, <1>11
     DEF Next, ScanStep, WatcherWrites

\* Scans and per-event writes implement the promise of Mirror for the rows in
\* every instance: no content is indexed that was not read at its path,
\* whatever stops or fails half-way.
THEOREM ScanImplementsMirror == Spec => ImplementsMirror
<1> QED BY InitMirror, StepMirror, InitRefines, StepRefines, PTL
        DEF Spec, ImplementsMirror, Promise!Spec

-----------------------------------------------------------------------------
(* Which rows a scan has stamped.  Ids only grow, so a row that carries the *)
(* id of the scan under way got it from that scan, at a path its walk saw; *)
(* the last transaction closes the live rows of every other path.          *)

StampInv ==
  /\ \A r \in rows : r.seen <= scan.id
  /\ scan.active =>
       /\ scan.id # 0
       /\ \A p \in Path : scan.entry[p].state # "none" => p \in scan.seen
       /\ \A r \in rows : r.seen = scan.id => r.path \in scan.seen
       /\ \A p \in Path : scan.events[p] # "moved"

(* What a scan that nothing disturbs knows of a path, from the walk to the *)
(* batch that commits it; and a scan that began over rows that mirror the  *)
(* disk still reads what is there.                                         *)

Faith(p) ==
  \/ /\ p \in scan.unwalked /\ p \notin scan.seen
     /\ scan.prev[p] # Absent /\ scan.stamp[p] = fs[p].mtime =>
          fs[p].content \in {Absent, scan.prev[p]}
  \/ /\ p \notin scan.unwalked
     /\ \/ scan.entry[p].state = "none" /\ fs[p].content = Absent /\ p \notin scan.seen
        \/ scan.entry[p].state = "pending" /\ fs[p].content # Absent
        \/ scan.entry[p].state \in {"short", "read"} /\ scan.entry[p].content = fs[p].content
        \/ /\ scan.entry[p].state = "done"
           /\ \E r \in LiveAt(rows, p) : r.seen = scan.id /\ r.content = fs[p].content

AgreeInv ==
  /\ CompletedScanMirrors
  /\ scan.active /\ (verified \/ scan.faithful) =>
       \A p \in Path : scan.entry[p].state = "read" => scan.entry[p].content = fs[p].content
  /\ scan.active /\ scan.faithful => \A p \in Path : Faith(p)

\* A statement writes rows with the id it is given, at its path, and leaves the
\* ids of the others alone.
From(r, R) == \E q \in R : q.path = r.path /\ q.seen = r.seen

LEMMA CloseFrom ==
  ASSUME NEW R \in SUBSET Row, NEW S, NEW now, NEW r \in Close(R, S, now)
  PROVE  From(r, R)
<1>1. PICK q \in R : r = IF q \in S /\ q.gone = Live THEN [q EXCEPT !.gone = now] ELSE q
  BY DEF Close
<1>2. q.path = r.path /\ q.seen = r.seen
  BY <1>1 DEF Row
<1> QED BY <1>2 DEF From

LEMMA PutReadFrom ==
  ASSUME NEW R \in SUBSET Row, NEW p, NEW c, NEW m, NEW id, NEW now,
         NEW r \in PutRead(R, p, c, m, id, now)
  PROVE  (r.path = p /\ r.seen = id) \/ From(r, R)
<1> DEFINE new == [path |-> p, content |-> c, mtime |-> m, appeared |-> now,
                   gone |-> Live, seen |-> id]
<1>1. r = new \/ r \in Close(R, LiveAt(R, p), now)
  BY DEF PutRead, Replace
<1> QED BY <1>1, CloseFrom

LEMMA PutShortFrom ==
  ASSUME NEW R \in SUBSET Row, NEW p, NEW id, NEW r \in PutShort(R, p, id)
  PROVE  (r.path = p /\ r.seen = id) \/ From(r, R)
<1>1. PICK q \in R : r = IF q \in LiveAt(R, p) THEN [q EXCEPT !.seen = id] ELSE q
  BY DEF PutShort
<1>2. CASE q \in LiveAt(R, p)
  BY <1>1, <1>2 DEF LiveAt, Row
<1>3. CASE q \notin LiveAt(R, p)
  BY <1>1, <1>3 DEF From
<1> QED BY <1>2, <1>3

LEMMA CommittedFrom ==
  ASSUME NEW R \in SUBSET Row, NEW B, NEW r \in Committed(R, B)
  PROVE  (r.path \in B /\ r.seen = scan.id) \/ From(r, R)
<1>1. CASE r \in R /\ r.path \notin B
  BY <1>1 DEF From
<1>2. CASE r.path \in B /\ r \in Put(R, r.path)
  BY <1>2, PutReadFrom, PutShortFrom DEF Put
<1> QED BY <1>1, <1>2, CommittedRows

\* A step of the scan that touches neither the table nor the ids.
LEMMA StampEntry ==
  ASSUME MirrorInv, StampInv, UNCHANGED rows, scan'.id = scan.id,
         scan'.active = scan.active, scan.seen \subseteq scan'.seen,
         scan'.events = scan.events,
         \A p \in Path : scan'.entry[p].state # "none" =>
           scan.entry[p].state # "none" \/ p \in scan'.seen
  PROVE  StampInv'
BY DEF StampInv

LEMMA StepStamps == MirrorInv /\ StampInv /\ [Next]_vars => StampInv'
<1> SUFFICES ASSUME MirrorInv, StampInv, [Next]_vars PROVE StampInv'
  OBVIOUS
<1>f. /\ rows \in SUBSET Row /\ scan \in Scan /\ scan.id \in Nat
      /\ scan.entry \in [Path -> EntryRec] /\ scan.seen \in SUBSET Path
      /\ \A r \in rows : r.seen \in Nat
  BY MirrorFacts, ScanFields, ScanAssumption DEF ScanId, Row
<1>1. CASE Disk
  <2>1. scan' = [scan EXCEPT !.faithful = FALSE] /\ UNCHANGED rows
    BY <1>1 DEF Disk, WriteFile, RemoveFile, RenameFile, DiskChange
  <2>2. /\ scan'.active = scan.active /\ scan'.id = scan.id /\ scan'.seen = scan.seen
        /\ scan'.entry = scan.entry /\ scan'.events = scan.events
    BY <1>f, <2>1 DEF Scan
  <2> QED BY <2>1, <2>2, StampEntry
<1>2. CASE ClockTick \/ UNCHANGED vars
  BY <1>2 DEF ClockTick, vars, StampInv
<1>3. ASSUME NEW p \in Path, WatcherWrites(p) PROVE StampInv'
  <2>1. UNCHANGED scan /\ ~scan.active
    BY <1>3, WatcherRows
  <2>2. \A r \in rows' : r.seen = 0 \/ From(r, rows)
    <3>1. CASE rows' = PutRead(rows, p, fs[p].content, fs[p].mtime, Unstamped, clock)
      BY <1>f, <3>1, PutReadFrom DEF Unstamped
    <3>2. CASE rows' = Close(rows, LiveAt(rows, p), clock)
      BY <1>f, <3>2, CloseFrom
    <3> QED BY <1>3, <3>1, <3>2, WatcherRows
  <2> QED BY <1>f, <2>1, <2>2 DEF StampInv, From
<1>5. ASSUME NEW S \in ScanRoots, Begin(S) PROVE StampInv'
  <2>1. /\ UNCHANGED rows /\ scan'.id = scan.id + 1 /\ scan'.seen = {}
        /\ scan'.entry = [p \in Path |-> NoEntry]
        /\ scan'.events = [p \in Path |-> "none"]
    BY <1>5 DEF Begin
  <2>2. \A r \in rows : r.seen < scan.id + 1
    BY <1>f DEF StampInv
  <2> QED BY <1>f, <2>1, <2>2 DEF StampInv, NoEntry
<1>6. ASSUME NEW p \in Path, Walk(p) PROVE StampInv'
  <2>1. /\ UNCHANGED rows /\ scan'.id = scan.id /\ scan'.active = scan.active
        /\ scan'.events = scan.events
        /\ \/ scan'.seen = scan.seen /\ scan'.entry = scan.entry
           \/ /\ scan'.seen = scan.seen \cup {p}
              /\ scan'.entry = [scan.entry EXCEPT ![p] = WalkEntry(p)]
    BY <1>f, <1>6 DEF Walk, Scan
  <2>2. \A q \in Path : scan'.entry[q].state # "none" =>
           scan.entry[q].state # "none" \/ q \in scan'.seen
    BY <1>f, <2>1
  <2> QED BY <2>1, <2>2, StampEntry
<1>7. ASSUME NEW p \in Path, Hash(p) \/ HashFails(p) PROVE StampInv'
  <2>1. /\ UNCHANGED rows /\ scan'.id = scan.id /\ scan'.active = scan.active
        /\ scan'.events = scan.events /\ scan'.seen = scan.seen
    BY <1>f, <1>7 DEF Hash, HashFails, Scan
  <2>2. scan.entry[p].state = "pending"
    BY <1>7 DEF Hash, HashFails
  <2>3. PICK e \in EntryRec : scan'.entry = [scan.entry EXCEPT ![p] = e]
    BY <1>7, HashedEntry DEF MirrorInv
  <2>4. \A q \in Path : scan'.entry[q].state # "none" => scan.entry[q].state # "none"
    BY <1>f, <2>2, <2>3
  <2> QED BY <2>1, <2>4, StampEntry
<1>8. ASSUME NEW B \in Batches, CommitBatch(B) PROVE StampInv'
  <2>1. /\ rows' = Committed(rows, B) /\ scan.active /\ scan'.id = scan.id
        /\ scan'.seen = scan.seen
        /\ \A q \in Path :
             /\ scan'.entry[q] = IF q \in B THEN [scan.entry[q] EXCEPT !.state = "done"]
                                 ELSE scan.entry[q]
             /\ scan'.events[q] = IF q \in B THEN Provisional(q) ELSE scan.events[q]
    BY <1>f, <1>8 DEF CommitBatch, Hashed, Scan
  <2>2. B \subseteq scan.seen /\ \A q \in B : q \in Path /\ scan.entry[q].state # "none"
    BY <2>1 DEF Batches, ToCommit, StampInv
  <2>3. \A r \in rows' : (r.path \in B /\ r.seen = scan.id) \/ From(r, rows)
    BY <1>f, <2>1, CommittedFrom
  <2>4. \A r \in rows' : r.seen <= scan'.id /\ (r.seen = scan'.id => r.path \in scan'.seen)
    BY <1>f, <2>1, <2>2, <2>3 DEF StampInv, From
  <2>5. \A q \in Path : scan'.entry[q].state # "none" => q \in scan'.seen
    BY <2>1, <2>2 DEF StampInv
  <2>6. \A q \in Path : scan'.events[q] # "moved"
    BY <2>1 DEF StampInv, Provisional
  <2> QED BY <2>1, <2>4, <2>5, <2>6 DEF StampInv
<1>9. CASE Finalize \/ Abort
  <2>1. scan'.id = scan.id /\ ~scan'.active
    BY <1>9 DEF Finalize, Abort, NoScan
  <2>2. rows' = rows \/ \E S, now : rows' = Close(rows, S, now)
    BY <1>9 DEF Finalize, Finalized, Abort
  <2>3. \A r \in rows' : From(r, rows)
    BY <1>f, <2>2, CloseFrom DEF From
  <2> QED BY <2>1, <2>3 DEF StampInv, From
<1>10. ASSUME NEW p \in Path, WalkFails(p) PROVE StampInv'
  <2>1. /\ UNCHANGED rows /\ scan'.id = scan.id /\ scan'.active = scan.active
        /\ scan'.events = scan.events /\ scan'.seen = scan.seen /\ scan'.entry = scan.entry
    BY <1>f, <1>10, WalkFailed
  <2> QED BY <2>1, StampEntry
<1> QED
  BY <1>1, <1>2, <1>3, <1>5, <1>6, <1>7, <1>8, <1>9, <1>10 DEF Next, ScanStep, WatcherWrites

LEMMA InitStamps == Init => StampInv
BY DEF Init, StampInv, NoScan

\* What the last transaction leaves live: the rows this scan stamped.
LEMMA FinalizeKeepsStamped ==
  ASSUME MirrorInv, StampInv, Finalize, NEW p \in Path
  PROVE  /\ p \notin scan.seen => LiveAt(rows', p) = {}
         /\ \A r \in LiveAt(rows, p) : r.seen = scan.id =>
              LiveContent(rows', p) = r.content
<1>0. /\ rows \in SUBSET Row /\ OneLive(rows) /\ scan.now \in Instants /\ scan.active
      /\ rows' = Close(rows, Unseen(rows), scan.now)
  BY MirrorFacts DEF Finalize, Hashed, Finalized
<1>n. scan.id \in Nat /\ \A r \in rows : r.seen \in Nat
  BY <1>0, MirrorFacts, ScanFields, ScanAssumption DEF ScanId, Row
<1>1. ASSUME p \notin scan.seen PROVE LiveAt(rows', p) = {}
  <2>1. \A r \in rows : r.path = p => r.seen < scan.id
    BY <1>0, <1>n, <1>1 DEF StampInv
  <2>2. ASSUME NEW r \in rows', r.gone = Live PROVE r \in LiveRows(rows) /\ r \notin Unseen(rows)
    <3>1. \A S : \A t \in Close(rows, S, scan.now) :
            t.gone = Live => t \in LiveRows(rows) /\ t \notin S
      BY <1>0, CloseLive
    <3> QED BY <1>0, <2>2, <3>1
  <2> QED BY <2>1, <2>2 DEF LiveAt, LiveRows, Unseen
<1>2. ASSUME NEW r \in LiveAt(rows, p), r.seen = scan.id
      PROVE  LiveContent(rows', p) = r.content
  <2>0. r \in rows /\ r.path = p /\ r.gone = Live
    BY DEF LiveAt
  <2>1. scan.id # 0
    BY <1>0 DEF StampInv
  <2>2. r \notin Unseen(rows)
    BY <1>n, <1>2, <2>1 DEF Unseen, Unstamped
  <2>3. LiveContent(rows', p) = IF LiveAt(rows, p) \subseteq Unseen(rows) THEN Absent
                                ELSE LiveContent(rows, p)
    <3>1. \A S : LiveContent(Close(rows, S, scan.now), p)
                  = IF LiveAt(rows, p) \subseteq S THEN Absent ELSE LiveContent(rows, p)
      BY <1>0, CloseContent
    <3> QED BY <1>0, <3>1
  <2> QED BY <1>0, <2>0, <2>2, <2>3, LiveContentOf
<1> QED BY <1>1, <1>2

\* A file is reported moved only if the walk saw nothing where its content was
\* before, and then the same transaction has closed the row there, whether it
\* was written by a scan or by the watcher.
THEOREM MovesHaveSources == Spec => MovedHasSource
<1>1. MirrorInv /\ StampInv /\ Finalize =>
        \A p \in Path : scan'.events[p] = "moved" =>
          \E q \in Path : scan.prev[q] = scan.entry[p].content /\ LiveAt(rows', q) = {}
  <2> SUFFICES ASSUME MirrorInv, StampInv, Finalize, NEW p \in Path, scan'.events[p] = "moved"
               PROVE  \E q \in Path : scan.prev[q] = scan.entry[p].content
                                      /\ LiveAt(rows', q) = {}
    OBVIOUS
  <2>1. scan.active /\ scan'.events = [q \in Path |-> Upgraded(q)]
    BY DEF Finalize, Hashed, NoScan
  <2>2. Upgraded(p) = "moved" /\ scan.events[p] # "moved"
    BY <2>1 DEF StampInv
  <2>3. ~({q \in Path : scan.prev[q] = scan.entry[p].content} \subseteq scan.seen)
    BY <2>2 DEF Upgraded
  <2>4. PICK q \in Path : scan.prev[q] = scan.entry[p].content /\ q \notin scan.seen
    BY <2>3
  <2> QED BY <2>4, FinalizeKeepsStamped
<1>2. MirrorInv /\ StampInv /\ [Next]_vars =>
        [Finalize => \A p \in Path : scan'.events[p] = "moved" =>
           \E q \in Path : scan.prev[q] = scan.entry[p].content
                           /\ LiveAt(rows', q) = {}]_vars
  BY <1>1
<1> QED BY <1>2, InitMirror, StepMirror, InitStamps, StepStamps, PTL
        DEF Spec, MovedHasSource

-----------------------------------------------------------------------------
(* A scan that nothing disturbs.                                           *)

\* A path without entry, for what the scan knows of it.
LEMMA FaithSame ==
  ASSUME NEW p \in Path, Faith(p), UNCHANGED <<fs, rows>>,
         scan'.prev = scan.prev, scan'.stamp = scan.stamp, scan'.id = scan.id,
         scan'.entry[p] = scan.entry[p],
         p \in scan'.unwalked <=> p \in scan.unwalked,
         p \in scan'.seen <=> p \in scan.seen
  PROVE  Faith(p)'
BY DEF Faith

LEMMA BeginFaith ==
  ASSUME MirrorInv, NEW S \in ScanRoots, Begin(S), scan'.faithful, NEW p \in Path
  PROVE  Faith(p)'
<1>0. rows \in SUBSET Row /\ OneLive(rows)
  BY MirrorFacts
<1>1. /\ UNCHANGED fs /\ S = Root /\ ~Misleading
      /\ scan'.unwalked = {q \in Path : RootOf[q] \in S} /\ scan'.seen = {}
      /\ scan'.prev[p] = LiveContent(rows, p) /\ scan'.stamp[p] = LiveStamp(rows, p)
  BY DEF Begin
<1>2. p \in scan'.unwalked /\ p \notin scan'.seen
  BY <1>1, ScanAssumption
<1>3. ASSUME LiveContent(rows, p) # Absent, LiveStamp(rows, p) = fs[p].mtime
      PROVE  fs[p].content \in {Absent, LiveContent(rows, p)}
  <2>1. LiveAt(rows, p) # {}
    BY <1>3 DEF LiveContent
  <2> DEFINE r == CHOOSE r \in LiveAt(rows, p) : TRUE
  <2>2. r \in LiveAt(rows, p) /\ LiveContent(rows, p) = r.content /\ LiveStamp(rows, p) = r.mtime
    BY <2>1 DEF LiveContent, LiveStamp
  <2> HIDE DEF r
  <2>3. r \in LiveRows(rows) /\ r.path = p
    BY <2>2 DEF LiveAt, LiveRows
  <2> QED BY <1>1, <1>3, <2>2, <2>3 DEF Misleading
<1> QED BY <1>1, <1>2, <1>3 DEF Faith

LEMMA WalkFaith ==
  ASSUME MirrorInv, StampInv, \A q \in Path : Faith(q), NEW p \in Path, Walk(p), NEW q \in Path
  PROVE  Faith(q)'
<1>0. /\ scan \in Scan /\ scan.entry \in [Path -> EntryRec] /\ scan.unwalked \in SUBSET Path
      /\ fs[p].content \in File /\ scan.seen \in SUBSET Path
  BY MirrorFacts, ScanFields
<1>1. /\ p \in scan.unwalked /\ scan.active /\ UNCHANGED <<fs, rows>>
      /\ scan'.prev = scan.prev /\ scan'.stamp = scan.stamp /\ scan'.id = scan.id
      /\ scan'.unwalked = scan.unwalked \ {p}
      /\ IF fs[p].content = Absent
         THEN scan'.seen = scan.seen /\ scan'.entry = scan.entry
         ELSE /\ scan'.seen = scan.seen \cup {p}
              /\ scan'.entry = [scan.entry EXCEPT ![p] = WalkEntry(p)]
  BY <1>0 DEF Walk, Scan
<1>2. CASE q # p
  <2>1. scan'.entry[q] = scan.entry[q]
    BY <1>0, <1>1, <1>2
  <2> QED BY <1>1, <1>2, <2>1, FaithSame
<1>3. CASE q = p /\ fs[p].content = Absent
  <2>1. p \notin scan.seen
    BY <1>1 DEF Faith
  <2>2. scan.entry[p].state = "none"
    BY <1>1, <2>1 DEF StampInv
  <2> QED BY <1>1, <1>3, <2>1, <2>2 DEF Faith
<1>4. CASE q = p /\ fs[p].content # Absent
  <2>1. /\ p \notin scan.seen
        /\ scan.prev[p] # Absent /\ scan.stamp[p] = fs[p].mtime => fs[p].content = scan.prev[p]
    BY <1>1, <1>4 DEF Faith
  <2>2. scan'.entry[p] = WalkEntry(p)
    BY <1>0, <1>1, <1>4
  <2>3. \/ WalkEntry(p).state = "pending"
        \/ WalkEntry(p).state = "short" /\ WalkEntry(p).content = fs[p].content
    BY <2>1 DEF WalkEntry
  <2> QED BY <1>1, <1>4, <2>2, <2>3 DEF Faith
<1> QED BY <1>2, <1>3, <1>4

LEMMA HashFaith ==
  ASSUME MirrorInv, \A q \in Path : Faith(q), NEW p \in Path, Hash(p), NEW q \in Path
  PROVE  Faith(q)'
<1>0. scan \in Scan /\ scan.entry \in [Path -> EntryRec] /\ scan.entry[p] \in EntryRec
  BY MirrorFacts, ScanFields
<1>1. /\ scan.unwalked = {} /\ scan.entry[p].state = "pending" /\ UNCHANGED <<fs, rows>>
  BY DEF Hash
<1>2. fs[p].content # Absent
  BY <1>1 DEF Faith
<1>3. scan' = [scan EXCEPT !.entry[p].state = "read", !.entry[p].content = fs[p].content]
  BY <1>2 DEF Hash
<1>4. /\ scan'.prev = scan.prev /\ scan'.stamp = scan.stamp /\ scan'.id = scan.id
      /\ scan'.unwalked = scan.unwalked /\ scan'.seen = scan.seen
      /\ scan'.entry = [[scan.entry EXCEPT ![p].state = "read"]
                          EXCEPT ![p].content = fs[p].content]
  BY <1>0, <1>3 DEF Scan
<1>5. CASE q # p
  <2>1. scan'.entry[q] = scan.entry[q]
    BY <1>0, <1>4, <1>5
  <2> QED BY <1>1, <1>4, <2>1, FaithSame
<1>6. CASE q = p
  <2>1. scan'.entry[p].state = "read" /\ scan'.entry[p].content = fs[p].content
    BY <1>0, <1>4 DEF EntryRec
  <2> QED BY <1>1, <1>4, <1>6, <2>1 DEF Faith
<1> QED BY <1>5, <1>6

\* The rows a batch leaves for a path it commits.
LEMMA CommitFaith ==
  ASSUME MirrorInv, \A q \in Path : Faith(q), NEW B \in Batches, CommitBatch(B), NEW q \in Path
  PROVE  Faith(q)'
<1>0. /\ rows \in SUBSET Row /\ OneLive(rows) /\ scan \in Scan /\ scan.active
      /\ scan.unwalked = {} /\ scan.now \in Instants /\ scan.entry \in [Path -> EntryRec]
      /\ rows' = Committed(rows, B) /\ UNCHANGED fs /\ B \subseteq ToCommit
  BY MirrorFacts DEF CommitBatch, Hashed, Batches
<1>1. /\ scan'.prev = scan.prev /\ scan'.stamp = scan.stamp /\ scan'.id = scan.id
      /\ scan'.unwalked = scan.unwalked /\ scan'.seen = scan.seen
      /\ scan'.entry[q] = IF q \in B THEN [scan.entry[q] EXCEPT !.state = "done"]
                          ELSE scan.entry[q]
  BY <1>0 DEF CommitBatch, Scan
<1>2. CASE q \notin B
  <2>1. LiveAt(rows', q) = LiveAt(rows, q)
    BY <1>0, <1>2, CommittedRows DEF LiveAt
  <2> QED BY <1>0, <1>1, <1>2, <2>1 DEF Faith
<1>3. CASE q \in B
  <2>1. scan.entry[q].state \in {"short", "read"} /\ scan.entry[q].content = fs[q].content
    BY <1>0, <1>3 DEF ToCommit, Faith
  <2>2. scan'.entry[q].state = "done"
    BY <1>0, <1>1, <1>3 DEF EntryRec
  <2>3. \A r : r \in rows' /\ r.path = q <=> r \in Put(rows, q) /\ r.path = q
    BY <1>0, <1>3, CommittedRows
  <2>4. \E r \in Put(rows, q) : r.path = q /\ r.gone = Live /\ r.seen = scan.id
                                /\ r.content = fs[q].content
    <3>1. CASE scan.entry[q].state = "read"
      <4> DEFINE new == [path |-> q, content |-> scan.entry[q].content,
                         mtime |-> scan.entry[q].mtime, appeared |-> scan.now,
                         gone |-> Live, seen |-> scan.id]
      <4>1. new \in Put(rows, q)
        BY <3>1 DEF Put, PutRead, Replace
      <4>2. new.path = q /\ new.gone = Live /\ new.seen = scan.id /\ new.content = fs[q].content
        BY <2>1
      <4> QED BY <4>1, <4>2
    <3>2. CASE scan.entry[q].state = "short"
      <4>1. /\ scan.entry[q].content = scan.prev[q] /\ scan.prev[q] # Absent
            /\ scan.prev[q] = LiveContent(rows, q)
        BY <1>0, <3>2 DEF MirrorInv, ShortIsPrev, PrevIsLive
      <4>2. PICK r \in LiveAt(rows, q) : TRUE
        BY <4>1 DEF LiveContent
      <4>3. r \in rows /\ r.gone = Live /\ r.path = q
        BY <4>2 DEF LiveAt
      <4>4. r.content = fs[q].content
        BY <1>0, <2>1, <4>1, <4>3, LiveContentOf
      <4> DEFINE s == [r EXCEPT !.seen = scan.id]
      <4>5. s \in Put(rows, q)
        BY <3>2, <4>2, <4>3 DEF Put, PutShort
      <4>6. s.path = q /\ s.gone = Live /\ s.seen = scan.id /\ s.content = fs[q].content
        BY <1>0, <4>3, <4>4 DEF Row
      <4> QED BY <4>5, <4>6
    <3> QED BY <2>1, <3>1, <3>2
  <2>5. \E r \in LiveAt(rows', q) : r.seen = scan.id /\ r.content = fs[q].content
    BY <2>3, <2>4 DEF LiveAt
  <2> QED BY <1>0, <1>1, <2>2, <2>5 DEF Faith
<1> QED BY <1>2, <1>3

\* The last transaction of such a scan leaves what is on disk.
LEMMA FinalizeAgrees ==
  ASSUME MirrorInv, StampInv, Finalize, \A q \in Path : Faith(q), NEW p \in Path
  PROVE  LiveContent(rows', p) = fs[p].content
<1>1. /\ scan.unwalked = {} /\ scan.entry[p].state \notin {"pending", "short", "read"}
  BY DEF Finalize, Hashed, ToCommit
<1>2. \/ fs[p].content = Absent /\ p \notin scan.seen
      \/ \E r \in LiveAt(rows, p) : r.seen = scan.id /\ r.content = fs[p].content
  BY <1>1 DEF Faith
<1>3. CASE fs[p].content = Absent /\ p \notin scan.seen
  BY <1>3, FinalizeKeepsStamped DEF LiveContent
<1>4. CASE \E r \in LiveAt(rows, p) : r.seen = scan.id /\ r.content = fs[p].content
  BY <1>4, FinalizeKeepsStamped
<1> QED BY <1>2, <1>3, <1>4

LEMMA StepAgrees == MirrorInv /\ StampInv /\ AgreeInv /\ [Next]_vars => AgreeInv'
<1> SUFFICES ASSUME MirrorInv, StampInv, AgreeInv, [Next]_vars PROVE AgreeInv'
  OBVIOUS
<1>f. /\ rows \in SUBSET Row /\ OneLive(rows) /\ scan \in Scan /\ clock \in Instants
      /\ scan.entry \in [Path -> EntryRec] /\ scan.faithful \in BOOLEAN /\ verified \in BOOLEAN
  BY MirrorFacts, ScanFields DEF MirrorInv, ScanInv, TypeOK
<1>v. verified => \A p \in Path : LiveContent(rows, p) = fs[p].content
  BY DEF AgreeInv, CompletedScanMirrors
\* Steps of the scan that commit nothing.
<1>r. ASSUME UNCHANGED <<fs, rows, verified>>, scan'.active => scan.active,
             scan'.active /\ scan'.faithful =>
               scan.faithful /\ ((\A p \in Path : Faith(p)) => \A p \in Path : Faith(p)'),
             scan'.active => \A p \in Path : scan'.entry[p].state = "read" =>
               scan'.entry[p] = scan.entry[p] \/ scan'.entry[p].content = fs[p].content
      PROVE  AgreeInv'
  <2>1. CompletedScanMirrors'
    BY <1>r DEF AgreeInv, CompletedScanMirrors
  <2> QED BY <1>r, <2>1 DEF AgreeInv
<1>1. CASE Disk
  <2>1. scan' = [scan EXCEPT !.faithful = FALSE] /\ ~verified'
    BY <1>1 DEF Disk, WriteFile, RemoveFile, RenameFile, DiskChange
  <2>2. ~scan'.faithful
    BY <1>f, <2>1 DEF Scan
  <2> QED BY <2>1, <2>2 DEF AgreeInv, CompletedScanMirrors
<1>2. CASE ClockTick \/ UNCHANGED vars
  BY <1>2 DEF ClockTick, vars, AgreeInv, CompletedScanMirrors, Faith
<1>3. ASSUME NEW p \in Path, NEW known \in File, WatcherIndex(p, known) PROVE AgreeInv'
  <2>1. /\ rows' = PutRead(rows, p, fs[p].content, fs[p].mtime, Unstamped, clock)
        /\ UNCHANGED <<fs, scan, verified>> /\ ~scan.active
    BY <1>3 DEF WatcherIndex, ReadByWatcher
  <2>2. \A q \in Path : LiveContent(rows', q) = IF q = p THEN fs[p].content
                                                ELSE LiveContent(rows, q)
    BY <1>f, <2>1, PutReadContent
  <2> QED BY <1>v, <2>1, <2>2 DEF AgreeInv, CompletedScanMirrors
<1>4. ASSUME NEW p \in Path, WatcherDelete(p) \/ WatcherFails(p) PROVE AgreeInv'
  <2>1. ~verified' /\ UNCHANGED scan /\ ~scan.active
    BY <1>4 DEF WatcherDelete, WatcherFails
  <2> QED BY <2>1 DEF AgreeInv, CompletedScanMirrors
<1>5. ASSUME NEW S \in ScanRoots, Begin(S) PROVE AgreeInv'
  <2>1. UNCHANGED <<fs, rows, verified>> /\ scan'.entry = [p \in Path |-> NoEntry]
    BY <1>5 DEF Begin
  <2>2. scan'.faithful => \A p \in Path : Faith(p)'
    BY <1>5, BeginFaith
  <2>3. CompletedScanMirrors'
    BY <1>v, <2>1 DEF CompletedScanMirrors
  <2> QED BY <2>1, <2>2, <2>3 DEF AgreeInv, NoEntry
<1>6. ASSUME NEW p \in Path, Walk(p) PROVE AgreeInv'
  <2>1. /\ UNCHANGED <<fs, rows, verified>> /\ scan'.active = scan.active
        /\ scan'.faithful = scan.faithful
        /\ scan'.entry = scan.entry \/ scan'.entry = [scan.entry EXCEPT ![p] = WalkEntry(p)]
    BY <1>f, <1>6 DEF Walk, Scan
  <2>2. WalkEntry(p).state # "read"
    BY DEF WalkEntry
  <2>3. \A q \in Path : scan'.entry[q].state = "read" => scan'.entry[q] = scan.entry[q]
    BY <1>f, <2>1, <2>2
  <2>4. (\A q \in Path : Faith(q)) => \A q \in Path : Faith(q)'
    BY <1>6, WalkFaith
  <2> QED BY <1>r, <2>1, <2>3, <2>4
<1>7. ASSUME NEW p \in Path, Hash(p) \/ HashFails(p) PROVE AgreeInv'
  <2>1. /\ UNCHANGED <<fs, rows, verified>> /\ scan'.active = scan.active
        /\ scan'.faithful => Hash(p) /\ scan.faithful
    BY <1>f, <1>7 DEF Hash, HashFails, Scan
  <2>2. PICK e \in EntryRec : /\ e.state = "read" => e.content = fs[p].content
                              /\ scan'.entry = [scan.entry EXCEPT ![p] = e]
    BY <1>7, HashedEntry DEF MirrorInv
  <2>3. \A q \in Path : scan'.entry[q].state = "read" =>
               scan'.entry[q] = scan.entry[q] \/ scan'.entry[q].content = fs[q].content
    BY <1>f, <2>2
  <2>4. scan'.faithful /\ (\A q \in Path : Faith(q)) => \A q \in Path : Faith(q)'
    BY <2>1, HashFaith
  <2> QED BY <1>r, <2>1, <2>3, <2>4
<1>8. ASSUME NEW B \in Batches, CommitBatch(B) PROVE AgreeInv'
  <2>1. /\ UNCHANGED <<fs, verified>> /\ scan.active /\ B \subseteq ToCommit
        /\ scan'.faithful = scan.faithful /\ scan'.active = scan.active
        /\ \A q \in Path : scan'.entry[q] = IF q \in B THEN [scan.entry[q] EXCEPT !.state = "done"]
                                            ELSE scan.entry[q]
    BY <1>f, <1>8 DEF CommitBatch, Batches, Hashed, Scan
  <2>2. \A q \in Path : scan'.entry[q].state = "read" => scan'.entry[q] = scan.entry[q]
    BY <1>f, <2>1 DEF EntryRec
  <2>3. ASSUME verified, NEW q \in Path PROVE LiveContent(rows', q) = fs[q].content
    <3>1. LiveContent(rows', q) = IF q \in B THEN scan.entry[q].content ELSE LiveContent(rows, q)
      BY <1>8, CommitBatchContent
    <3>2. CASE q \in B /\ scan.entry[q].state = "short"
      <4>1. scan.entry[q].content = LiveContent(rows, q)
        BY <2>1, <3>2 DEF MirrorInv, ShortIsPrev, PrevIsLive
      <4> QED BY <1>v, <2>3, <3>1, <4>1
    <3>3. CASE q \in B /\ scan.entry[q].state # "short"
      <4>1. scan.entry[q].state = "read"
        BY <2>1, <3>3 DEF ToCommit
      <4> QED BY <2>1, <2>3, <3>1, <3>3, <4>1 DEF AgreeInv
    <3> QED BY <1>v, <2>3, <3>1, <3>2, <3>3
  <2>4. scan'.faithful => \A q \in Path : Faith(q)'
    BY <1>8, <2>1, CommitFaith DEF AgreeInv
  <2> QED BY <2>1, <2>2, <2>3, <2>4 DEF AgreeInv, CompletedScanMirrors
<1>9. CASE Finalize
  <2>1. ~scan'.active /\ verified' = scan.faithful /\ UNCHANGED fs /\ scan.active
    BY <1>9 DEF Finalize, Hashed, NoScan
  <2>2. verified' => \A p \in Path : LiveContent(rows', p) = fs[p].content
    BY <1>9, <2>1, FinalizeAgrees DEF AgreeInv
  <2> QED BY <2>1, <2>2 DEF AgreeInv, CompletedScanMirrors
<1>10. CASE Abort
  <2>1. UNCHANGED <<fs, rows, verified>> /\ ~scan'.active
    BY <1>10 DEF Abort, NoScan
  <2> QED BY <1>r, <2>1
<1>11. ASSUME NEW p \in Path, WalkFails(p) PROVE AgreeInv'
  <2>1. /\ UNCHANGED <<fs, rows, verified>> /\ scan'.active = scan.active
        /\ ~scan'.faithful /\ scan'.entry = scan.entry
    BY <1>f, <1>11, WalkFailed
  <2> QED BY <1>r, <2>1
<1> QED
  BY <1>1, <1>2, <1>3, <1>4, <1>5, <1>6, <1>7, <1>8, <1>9, <1>10, <1>11 DEF Next, ScanStep

\* A scan of all roots that no change of the disk, no failed read and no stale
\* mtime disturbs leaves exactly what is on disk, over whatever rows earlier
\* scans and the watcher left; and until the disk changes, neither the files
\* the watcher indexes nor the batches of a later scan, aborted or not, undo it.
THEOREM CompletedScanAgrees == Spec => []CompletedScanMirrors
<1>1. Init => AgreeInv
  BY DEF Init, AgreeInv, CompletedScanMirrors, NoScan
<1>2. AgreeInv => CompletedScanMirrors
  BY DEF AgreeInv
<1> QED BY <1>1, <1>2, InitMirror, StepMirror, InitStamps, StepStamps, StepAgrees, PTL
        DEF Spec
=============================================================================
