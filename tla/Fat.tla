-------------------------------- MODULE Fat --------------------------------
(***************************************************************************)
(* The FAT16 file system of NeptuneOS (kernel/fat.c) as vfs.c drives it,   *)
(* on the block layer of BlockCache: every sector a function reads or      *)
(* writes goes through the cache, and every transfer may fail, be dropped  *)
(* by the drive unnoticed or be the one at which the power goes.           *)
(*                                                                         *)
(* System calls are not preempted and the drivers poll, so a call is one   *)
(* step.  The volume is one that ramdisk_seed_fat16 formats: one sector to *)
(* a cluster, one FAT; it holds a file of one byte.  Only directory        *)
(* entries that this code writes occur (nothing deletes, hides or protects *)
(* a file).  Bytes of one write are alike: the number of the call.         *)
(***************************************************************************)
EXTENDS BlockCache, Sequences, FiniteSets, FiniteSetsExt

CONSTANTS
  NClusters,    \* clusters of the volume (cluster_count)
  ClusterSize,  \* bytes of a cluster
  RootEntries,  \* root_entries
  DirEntries,   \* entries in the cluster of a subdirectory
  FilePaths,    \* the files that programs open
  DirPaths,     \* the directories that programs make and list
  FirstFile,    \* the path of the file the volume comes with
  Handles,      \* bound: files open at a time
  Lens,         \* the lengths of writes
  ReadLens,     \* the lengths of reads
  MaxCalls,     \* bound: opens, writes and mkdirs
  MaxFaults     \* bound: failed transfers and power failures

ASSUME FatAssumption ==
  /\ NClusters \in Nat \ {0} /\ ClusterSize \in Nat \ {0}
  /\ RootEntries \in Nat \ {0} /\ DirEntries \in Nat /\ DirEntries >= 2
  /\ NSectors = 3 + NClusters
  /\ FirstFile \in FilePaths /\ Len(FirstFile) = 1

VARIABLES
  st,      \* the block layer; misread is a history, see fat_alloc_cluster
  ready,   \* fat.ready
  open,    \* struct fat_file and offset of each open file
  calls,   \* counts the calls that write
  res,     \* the result of the last call, if it read or wrote
  content, \* history: what each file should hold, if that is known
  half     \* history: clusters of directories whose mkdir failed half-way

vars == <<st, ready, open, calls, res, content, half>>

Cluster == 2..NClusters + 1
EOC == -1                     \* FAT16_EOC and above
Closed == [path |-> <<>>]
Unknown == <<-1>>             \* the content of a file after a failed write
Byte == 0..MaxCalls + 1

BootSector == 0
FatSector == 1
RootSector == 2

\* cluster_to_sector, with one sector to a cluster.
cluster_to_sector(c) == 3 + (c - 2)

-----------------------------------------------------------------------------
(* What a sector holds, as the code that reads it sees it. *)

FreeSlot == [name |-> "", dir |-> FALSE, start |-> 0, size |-> 0]
Entry(name, dir, start, size) ==
  [name |-> name, dir |-> dir, start |-> start, size |-> size]
EmptySlots == [i \in 1..DirEntries |-> FreeSlot]
\* File data read as a directory: entries that have no name a caller asks for.
JunkSlots == [i \in 1..DirEntries |-> Entry("junk", FALSE, 0, 0)]
Zeros == [bytes |-> [i \in 1..ClusterSize |-> 0]]

SlotsOf(sec) == CASE "slots" \in DOMAIN sec -> sec.slots
                  [] sec = Zeros -> EmptySlots
                  [] OTHER -> JunkSlots

BytesOf(sec) == IF "bytes" \in DOMAIN sec THEN sec.bytes
                ELSE [i \in 1..ClusterSize |-> MaxCalls + 1]

\* ramdisk_seed_fat16: boot sector, FAT, root directory with one file, whose
\* data is the byte 0; the other clusters hold what was there before.
Seed(rest) ==
  [b \in Sector |->
     CASE b = BootSector -> [bpb |-> TRUE]
       [] b = FatSector ->
            [fat |-> [c \in Cluster |-> IF c = 2 THEN EOC ELSE 0]]
       [] b = RootSector ->
            [slots |-> [i \in 1..RootEntries |->
               IF i = 1 THEN Entry(FirstFile[1], FALSE, 2, 1) ELSE FreeSlot]]
       [] b = cluster_to_sector(2) -> Zeros
       [] OTHER -> rest]

Old == [bytes |-> [i \in 1..ClusterSize |-> MaxCalls + 1]]

-----------------------------------------------------------------------------
(* The allocation table. *)

\* fat_next_cluster: 0 also when the sector cannot be read.
fat_next_cluster(s, c) ==
  {[s |-> o.s, val |-> IF o.rc = 0 THEN o.data.fat[c] ELSE 0] :
     o \in block_read(s, FatSector)}

\* fat_set_cluster: the FAT sector is read, changed and written.
fat_set_cluster(s, c, value) ==
  UNION {IF o.rc # 0 THEN {Fail(o.s)}
         ELSE block_write(o.s, FatSector, [o.data EXCEPT !.fat[c] = value]) :
           o \in block_read(s, FatSector)}

\* The clusters from c on, for fat_alloc_cluster.  A cluster whose entry
\* could not be read passes for a free one; if it was in use and is taken,
\* misread is set.
RECURSIVE AllocFrom(_, _, _)
AllocFrom(s, c, total) ==
  IF c >= total THEN {[s |-> s, val |-> 0]}
  ELSE UNION {
    IF o.val # 0 THEN AllocFrom(o.s, c + 1, total)
    ELSE {IF w.rc # 0 THEN [s |-> w.s, val |-> 0]
          ELSE [s |-> [w.s EXCEPT !.misread = @ \/ s.disk[FatSector].fat[c] # 0],
                val |-> c] : w \in fat_set_cluster(o.s, c, EOC)} :
      o \in fat_next_cluster(s, c)}

\* Mutant: a cluster is handed out without a mark in the table.
AllocUnmarked(s) ==
  {[o EXCEPT !.s = [s EXCEPT !.faults = o.s.faults]] : o \in AllocFrom(s, 2, NClusters + 2)}

\* fat_alloc_cluster: the first free cluster, made the end of a chain; or 0.
fat_alloc_cluster(s) == AllocFrom(s, 2, NClusters + 2)

\* Mutant: a new cluster is not linked to the one before it.
NextUnlinked(s, c) ==
  UNION {
    IF o.val \notin {0, EOC} THEN {[s |-> o.s, c |-> o.val]}
    ELSE {[s |-> n.s, c |-> n.val] : n \in fat_alloc_cluster(o.s)} :
    o \in fat_next_cluster(s, c)}

\* The cluster after c, allocated and linked if c is the last: the body of
\* both loops of fat_write.  0 when there is none.
NextOrNew(s, c) ==
  UNION {
    IF o.val \notin {0, EOC} THEN {[s |-> o.s, c |-> o.val]}
    ELSE UNION {
      IF n.val = 0 THEN {[s |-> n.s, c |-> 0]}
      ELSE {[s |-> w.s, c |-> IF w.rc = 0 THEN n.val ELSE 0] :
              w \in fat_set_cluster(n.s, c, n.val)} :
        n \in fat_alloc_cluster(o.s)} :
    o \in fat_next_cluster(s, c)}

-----------------------------------------------------------------------------
(* Directories. *)

\* Mutant: directories are taken for files and files for directories.
MatchesOtherKind(e, name, want) ==
  /\ e.name = name
  /\ want = 1 => ~e.dir
  /\ want = 0 => e.dir

\* Does an entry match?  want is 1 for directories, 0 for files, -1 for both.
Matches(e, name, want) ==
  /\ e.name = name
  /\ want = 1 => e.dir
  /\ want = 0 => ~e.dir

NotFound(s) == [s |-> s, rc |-> -1]

\* The cluster (or the root directory) from which dir_find_entry reads on: rc
\* is 0 for an entry found, 1 for a free one if that will do, else -1.
RECURSIVE DirScan(_, _, _, _, _)
DirScan(s, c, name, want, allow_free) ==
  LET sec == IF c = 0 THEN RootSector ELSE cluster_to_sector(c)
      At(t, slots, i) ==
        IF slots[i] # FreeSlot
        THEN [s |-> t, rc |-> 0, sec |-> sec, slot |-> i, ent |-> slots[i]]
        ELSE IF allow_free THEN [s |-> t, rc |-> 1, sec |-> sec, slot |-> i]
        ELSE NotFound(t)
      Rest(t) ==
        IF c = 0 THEN {NotFound(t)}
        ELSE UNION {IF n.val \in {0, EOC} THEN {NotFound(n.s)}
                    ELSE DirScan(n.s, n.val, name, want, allow_free) :
                      n \in fat_next_cluster(t, c)}
      In(t, slots) ==
        LET hit == {i \in DOMAIN slots :
                      slots[i] = FreeSlot \/ Matches(slots[i], name, want)}
        IN  IF hit = {} THEN Rest(t) ELSE {At(t, slots, Min(hit))}
  IN  UNION {IF o.rc # 0 THEN {NotFound(o.s)} ELSE In(o.s, SlotsOf(o.data)) :
               o \in block_read(s, sec)}

\* dir_find_entry.
dir_find_entry(s, dir_cluster, name, want, allow_free) ==
  DirScan(s, dir_cluster, name, want, allow_free)

\* A directory sector with one entry changed by Ch.
Patch(s, sec, slot, Ch(_)) ==
  UNION {IF o.rc # 0 THEN {Fail(o.s)}
         ELSE block_write(o.s, sec,
                [slots |-> [SlotsOf(o.data) EXCEPT ![slot] = Ch(@)]]) :
           o \in block_read(s, sec)}

\* dir_write_entry.
dir_write_entry(s, sec, slot, ent) == Patch(s, sec, slot, LAMBDA e : ent)

FileAt(o, ent) == [start |-> ent.start, size |-> ent.size, sec |-> o.sec,
                   slot |-> o.slot]

\* fat_traverse_path from dir_cluster on; a missing last name is created.
RECURSIVE Traverse(_, _, _, _, _)
Traverse(s, dir_cluster, path, create, want_last) ==
  LET last == Len(path) = 1
      allow == last /\ create /\ want_last = 0
      new == Entry(path[1], FALSE, 0, 0)
  IN  UNION {
        CASE o.rc = 0 /\ ~last ->
               Traverse(o.s, o.ent.start, Tail(path), create, want_last)
          [] o.rc = 0 /\ last -> {[s |-> o.s, rc |-> 0, file |-> FileAt(o, o.ent)]}
          [] o.rc = 1 ->
               {IF w.rc # 0 THEN NotFound(w.s)
                ELSE [s |-> w.s, rc |-> 0, file |-> FileAt(o, new)] :
                  w \in dir_write_entry(o.s, o.sec, o.slot, new)}
          [] OTHER -> {NotFound(o.s)} :
        o \in dir_find_entry(s, dir_cluster, path[1],
                             IF last THEN want_last ELSE 1, allow)}

\* fat_open, fat_open_dir and fat_create.
fat_open(s, path) == Traverse(s, 0, path, FALSE, 0)
fat_open_dir(s, path) == Traverse(s, 0, path, FALSE, 1)
fat_create(s, path) == Traverse(s, 0, path, TRUE, 0)

\* fat_find_parent: the cluster of the directory that holds the last name.
fat_find_parent(s, path) ==
  IF Len(path) = 1 THEN {[s |-> s, rc |-> 0, cluster |-> 0]}
  ELSE {IF o.rc # 0 THEN NotFound(o.s)
        ELSE [s |-> o.s, rc |-> 0, cluster |-> o.file.start] :
          o \in fat_open_dir(s, SubSeq(path, 1, Len(path) - 1))}

\* init_dir_cluster, with zero_cluster: zeros first, then "." and "..".
init_dir_cluster(s, c, parent) ==
  LET b == cluster_to_sector(c)
      dots == [EmptySlots EXCEPT ![1] = Entry(".", TRUE, c, 0),
                                 ![2] = Entry("..", TRUE, parent, 0)]
  IN  UNION {
        IF z.rc # 0 THEN {Fail(z.s)}
        ELSE UNION {IF o.rc # 0 THEN {Fail(o.s)}
                    ELSE block_write(o.s, b, [slots |-> dots]) :
                      o \in block_read(z.s, b)} :
        z \in block_write(s, b, Zeros)}

\* fat_mkdir: the entry is written before the cluster it names is initialised.
\* half names the cluster of a directory left like that.
fat_mkdir(s, path) ==
  LET name == path[Len(path)]
      Done(t, rc) == [s |-> t, rc |-> rc, half |-> {}]
      Made(o, parent, a) ==
        UNION {
          IF w.rc # 0 THEN {Done(w.s, -1)}
          ELSE {[s |-> i.s, rc |-> i.rc,
                 half |-> IF i.rc = 0 THEN {} ELSE {a.val}] :
                  i \in init_dir_cluster(w.s, a.val, parent)} :
          w \in dir_write_entry(a.s, o.sec, o.slot, Entry(name, TRUE, a.val, 0))}
      In(p) ==
        UNION {
          CASE o.rc = 0 -> {Done(o.s, IF o.ent.dir THEN 0 ELSE -1)}
            [] o.rc = 1 ->
                 UNION {IF a.val = 0 THEN {Done(a.s, -1)} ELSE Made(o, p.cluster, a) :
                          a \in fat_alloc_cluster(o.s)}
            [] OTHER -> {Done(o.s, -1)} :
          o \in dir_find_entry(p.s, p.cluster, name, -1, TRUE)}
  IN  UNION {IF p.rc # 0 THEN {Done(p.s, -1)} ELSE In(p) :
               p \in fat_find_parent(s, path)}

\* list_dir and fat_list_dir: the entries up to the first free one.
RECURSIVE ListFrom(_, _)
ListFrom(s, c) ==
  LET sec == IF c = 0 THEN RootSector ELSE cluster_to_sector(c)
      Named(slots) ==
        LET free == {i \in DOMAIN slots : slots[i] = FreeSlot}
            end == IF free = {} THEN Len(slots) + 1 ELSE Min(free)
        IN  {slots[i] : i \in {j \in 1..end - 1 : slots[j].name \notin {".", ".."}}}
      Rest(t, got) ==
        IF c = 0 THEN {[s |-> t, list |-> got]}
        ELSE UNION {IF n.val \in {0, EOC} THEN {[s |-> n.s, list |-> got]}
                    ELSE {[l EXCEPT !.list = @ \cup got] : l \in ListFrom(n.s, n.val)} :
                      n \in fat_next_cluster(t, c)}
  IN  UNION {
        IF o.rc # 0 THEN {[s |-> o.s, list |-> {}]}
        ELSE IF \E i \in DOMAIN SlotsOf(o.data) : SlotsOf(o.data)[i] = FreeSlot
        THEN {[s |-> o.s, list |-> Named(SlotsOf(o.data))]}
        ELSE Rest(o.s, Named(SlotsOf(o.data))) :
        o \in block_read(s, sec)}

fat_list_dir(s, path) ==
  IF path = <<>> THEN ListFrom(s, 0)
  ELSE UNION {IF o.rc # 0 THEN {[s |-> o.s, list |-> {}]}
              ELSE ListFrom(o.s, o.file.start) : o \in fat_open_dir(s, path)}

-----------------------------------------------------------------------------
(* Reading and writing; f is a struct fat_file with the offset. *)

\* The cluster that holds byte skip of the chain from c, for fat_read: 0 when
\* the chain ends before it.
RECURSIVE SkipRead(_, _, _)
SkipRead(s, c, skip) ==
  IF skip < ClusterSize THEN {[s |-> s, c |-> c, skip |-> skip]}
  ELSE UNION {IF n.val \in {0, EOC} THEN {[s |-> n.s, c |-> 0, skip |-> skip]}
              ELSE SkipRead(n.s, n.val, skip - ClusterSize) :
                n \in fat_next_cluster(s, c)}

\* The copying loop of fat_read.
RECURSIVE ReadLoop(_, _, _, _, _)
ReadLoop(s, c, skip, len, got) ==
  UNION {
    IF o.rc # 0 THEN {[s |-> o.s, rc |-> -1, data |-> <<>>]}
    ELSE LET chunk == Min({ClusterSize - skip, len})
             data == got \o SubSeq(BytesOf(o.data), skip + 1, skip + chunk)
         IN  IF chunk = len THEN {[s |-> o.s, rc |-> Len(data), data |-> data]}
             ELSE UNION {IF n.val \in {0, EOC}
                         THEN {[s |-> n.s, rc |-> Len(data), data |-> data]}
                         ELSE ReadLoop(n.s, n.val, 0, len - chunk, data) :
                           n \in fat_next_cluster(o.s, c)} :
    o \in block_read(s, cluster_to_sector(c))}

\* fat_read.
fat_read(s, f, len) ==
  IF f.start = 0 \/ f.offset >= f.size
  THEN {[s |-> s, rc |-> 0, data |-> <<>>]}
  ELSE UNION {
         IF k.c = 0 THEN {[s |-> k.s, rc |-> 0, data |-> <<>>]}
         ELSE ReadLoop(k.s, k.c, k.skip, Min({len, f.size - f.offset}), <<>>) :
         k \in SkipRead(s, f.start, f.offset)}

\* The first cluster of an empty file, and its place in the directory.
FirstCluster(s, f) ==
  IF f.start # 0 THEN {[s |-> s, rc |-> 0, f |-> f]}
  ELSE UNION {
         IF a.val = 0 THEN {[s |-> a.s, rc |-> -1, f |-> f]}
         ELSE {[s |-> w.s, rc |-> w.rc, f |-> [f EXCEPT !.start = a.val]] :
                 w \in Patch(a.s, f.sec, f.slot,
                             LAMBDA e : [e EXCEPT !.start = a.val])} :
         a \in fat_alloc_cluster(s)}

\* The cluster that holds byte skip of the chain from c, for fat_write.
RECURSIVE SkipWrite(_, _, _)
SkipWrite(s, c, skip) ==
  IF skip < ClusterSize THEN {[s |-> s, c |-> c, skip |-> skip]}
  ELSE UNION {IF n.c = 0 THEN {[s |-> n.s, c |-> 0, skip |-> skip]}
              ELSE SkipWrite(n.s, n.c, skip - ClusterSize) :
                n \in NextOrNew(s, c)}

\* The copying loop of fat_write: done says whether it got to its end.
RECURSIVE WriteLoop(_, _, _, _, _, _)
WriteLoop(s, c, skip, len, written, byte) ==
  LET b == cluster_to_sector(c)
      chunk == Min({ClusterSize - skip, len})
      New(old) == [i \in 1..ClusterSize |->
                     IF i \in skip + 1..skip + chunk THEN byte ELSE old[i]]
      Out(t, rc, done) == [s |-> t, rc |-> rc, done |-> done]
      Next(t) ==
        IF chunk = len THEN {Out(t, written + chunk, TRUE)}
        ELSE UNION {IF n.c = 0 THEN {Out(n.s, written + chunk, FALSE)}
                    ELSE WriteLoop(n.s, n.c, 0, len - chunk, written + chunk, byte) :
                      n \in NextOrNew(t, c)}
  IN  UNION {
        IF o.rc # 0 THEN {Out(o.s, -1, FALSE)}
        ELSE UNION {IF w.rc # 0 THEN {Out(w.s, -1, FALSE)} ELSE Next(w.s) :
                      w \in block_write(o.s, b, [bytes |-> New(BytesOf(o.data))])} :
        o \in block_read(s, b)}

\* The end of fat_write: the size in the directory, whose failure is ignored,
\* and the offset.
Finish(o, f, len) ==
  LET end == f.offset + len
      g == [f EXCEPT !.offset = end]
      h == [g EXCEPT !.size = end]
  IN  IF end <= f.size THEN {[s |-> o.s, rc |-> o.rc, f |-> g]}
      ELSE {[s |-> w.s, rc |-> o.rc, f |-> h] :
              w \in Patch(o.s, f.sec, f.slot, LAMBDA e : [e EXCEPT !.size = end])}

\* fat_write: a loop that stops early leaves offset and size as they were.
fat_write(s, f, len, byte) ==
  UNION {
    IF a.rc # 0 THEN {a}
    ELSE UNION {
      IF k.c = 0 THEN {[s |-> k.s, rc |-> -1, f |-> a.f]}
      ELSE UNION {IF o.done THEN Finish(o, a.f, len)
                  ELSE {[s |-> o.s, rc |-> o.rc, f |-> a.f]} :
                    o \in WriteLoop(k.s, k.c, k.skip, len, 0, byte)} :
      k \in SkipWrite(a.s, a.f.start, a.f.offset)} :
    a \in FirstCluster(s, f)}

-----------------------------------------------------------------------------
(* The calls. *)

FreshContent == [p \in FilePaths |-> IF p = FirstFile THEN <<0>> ELSE <<>>]

\* Power comes back: RAM is lost, and with it the RAM disk (block_init).
Reboot(s) ==
  [s EXCEPT !.up = TRUE, !.cache = block_cache_reset,
            !.disk = IF s.dev = "ramdisk" THEN Seed(Zeros) ELSE @,
            !.misread = @ /\ s.dev = "ata"]

NoResult == [call |-> "none"]

\* A call that ends in state s with these files open and this content.
Ends(s, files, r, known, halfNow) ==
  IF s.up
  THEN /\ st' = s /\ open' = files /\ content' = known /\ half' = halfNow
       /\ res' = r /\ UNCHANGED ready
  ELSE /\ st' = Reboot(s)
       /\ ready' = FALSE
       /\ open' = [h \in Handles |-> Closed]
       /\ res' = NoResult
       /\ content' = IF s.dev = "ramdisk" THEN FreshContent ELSE known
       /\ half' = IF s.dev = "ramdisk" THEN {} ELSE halfNow

Clean(s) == s.faults = st.faults

\* Does the open file know its first cluster and size as the directory does?
UpToDate(s, f) ==
  LET e == SlotsOf(s.disk[f.sec])[f.slot]
  IN  e.start = f.start /\ e.size = f.size

\* fat_init.
Mount ==
  /\ ~ready
  /\ \E o \in block_read(st, BootSector) :
       IF o.s.up
       THEN /\ st' = o.s
            /\ ready' = (o.rc = 0)
            /\ UNCHANGED <<open, content, half, res>>
       ELSE Ends(o.s, open, NoResult, content, half)
  /\ UNCHANGED calls

\* vfs_open of a path below /disk.
Open(h, p) ==
  /\ ready /\ calls < MaxCalls /\ open[h] = Closed
  /\ \E o \in UNION {IF a.rc = 0 THEN {a} ELSE fat_create(a.s, p) : a \in fat_open(st, p)} :
       Ends(o.s,
            IF o.rc # 0 THEN open
            ELSE [open EXCEPT ![h] = [path |-> p, offset |-> 0, start |-> o.file.start,
                                      size |-> o.file.size, sec |-> o.file.sec,
                                      slot |-> o.file.slot]],
            NoResult, content, half)
  /\ calls' = calls + 1

\* vfs_open of a path below /disk with a slash at its end.  Neither a read nor
\* a write of the file it gives does anything, so none is kept open.
Mkdir(p) ==
  /\ ready /\ calls < MaxCalls
  /\ \E o \in fat_mkdir(st, p) :
       IF o.rc # 0
       THEN Ends(o.s, open, NoResult, content, half \cup o.half)
       ELSE \E q \in fat_open_dir(o.s, p) :
              Ends(q.s, open, NoResult, content, half)
  /\ calls' = calls + 1

\* vfs_close.
Close(h) ==
  /\ open[h] # Closed
  /\ open' = [open EXCEPT ![h] = Closed]
  /\ res' = NoResult
  /\ UNCHANGED <<st, ready, calls, content, half>>

\* vfs_read: an error leaves the offset.
Read(h, len) ==
  /\ ready /\ open[h] # Closed
  /\ \E o \in fat_read(st, open[h], len) :
       Ends(o.s,
            IF o.rc < 0 THEN open ELSE [open EXCEPT ![h].offset = @ + o.rc],
            [call |-> "read", path |-> open[h].path, offset |-> open[h].offset,
             len |-> len, rc |-> o.rc, data |-> o.data,
             clean |-> Clean(o.s) /\ UpToDate(st, open[h])],
            content, half)
  /\ UNCHANGED calls

\* What a file holds when a write of len bytes at off has done all its work.
Written(old, off, len, byte) ==
  [i \in 1..Max({Len(old), off + len}) |->
     IF i \in off + 1..off + len THEN byte ELSE old[i]]

\* vfs_write.
Write(h, len) ==
  /\ ready /\ open[h] # Closed /\ calls < MaxCalls
  /\ LET f == open[h]
     IN  \E o \in fat_write(st, f, len, calls + 1) :
           Ends(o.s,
                [open EXCEPT ![h] = o.f],
                NoResult,
                [content EXCEPT ![f.path] =
                   IF @ # Unknown /\ Clean(o.s) /\ o.rc = len /\ UpToDate(st, f)
                   THEN Written(@, f.offset, len, calls + 1) ELSE Unknown],
                half)
  /\ calls' = calls + 1

\* vfs_read of /dev/ls/disk.
List(p) ==
  /\ ready
  /\ \E o \in fat_list_dir(st, p) :
       Ends(o.s, open, NoResult, content, half)
  /\ UNCHANGED calls

\* The power goes between two calls.
PowerOff ==
  /\ st.faults > 0
  /\ Ends([st EXCEPT !.up = FALSE, !.faults = @ - 1], open, NoResult, content, half)
  /\ UNCHANGED calls

Init ==
  /\ \E dev \in {"ramdisk", "ata"} :
       st = [dev |-> dev, disk |-> Seed(IF dev = "ata" THEN Old ELSE Zeros),
             cache |-> block_cache_reset, faults |-> MaxFaults, up |-> TRUE,
             misread |-> FALSE, lost |-> {}, dropped |-> {}]
  /\ ready = FALSE
  /\ open = [h \in Handles |-> Closed]
  /\ calls = 0
  /\ res = NoResult
  /\ content = FreshContent
  /\ half = {}

Next ==
  \/ Mount
  \/ \E h \in Handles, p \in FilePaths : Open(h, p)
  \/ \E p \in DirPaths : Mkdir(p)
  \/ \E h \in Handles : Close(h)
  \/ \E h \in Handles, len \in ReadLens : Read(h, len)
  \/ \E h \in Handles, len \in Lens : Write(h, len)
  \/ \E p \in DirPaths \cup {<<>>} : List(p)
  \/ PowerOff

Spec == Init /\ [][Next]_vars

-----------------------------------------------------------------------------
(* Properties. *)

FatTable == st.disk[FatSector].fat

\* The entries of a directory, by its cluster, and the places of those that
\* the code made for files and directories.
DirSlots(c) == SlotsOf(st.disk[IF c = 0 THEN RootSector ELSE cluster_to_sector(c)])
Named(c) == {<<c, i>> : i \in {j \in DOMAIN DirSlots(c) :
                                DirSlots(c)[j].name \notin {"", "junk", ".", ".."}}}

\* The directories below directory c, and all such places on the disk.
SubDirs(c) ==
  {DirSlots(c)[pl[2]].start : pl \in {q \in Named(c) : DirSlots(c)[q[2]].dir}}
Dirs == {0} \cup SubDirs(0) \cup UNION {SubDirs(c) : c \in SubDirs(0)}
Places == UNION {Named(c) : c \in Dirs}
At(pl) == DirSlots(pl[1])[pl[2]]

\* A block_read that the cache answers gives what the disk holds, whatever
\* transfers failed before: block_write stores a sector in the cache only if
\* the driver returned 0, so the two differ only while the last write of the
\* sector is one that ata_write reported as done and the drive had dropped.
CacheCoherent == Coherent(st)

\* The drive has done every write of the table that ata_write reported as done.
TableKept == FatSector \notin st.dropped

\* No chain leads to a cluster that is free: fat_write and fat_mkdir mark a
\* cluster in the table before anything refers to it, so neither an error nor
\* a power failure in between leaves a reference to a free cluster, as long as
\* the drive drops no write of the table itself.
ChainsAllocated ==
  TableKept =>
    /\ \A c \in Cluster : FatTable[c] \in Cluster => FatTable[FatTable[c]] # 0
    /\ \A pl \in Places : At(pl).start # 0 => FatTable[At(pl).start] # 0
    /\ \A h \in Handles : open[h] # Closed /\ open[h].start # 0 => FatTable[open[h].start] # 0

\* No cluster belongs to two chains, whatever failed and however many open
\* files the same entry has, unless fat_alloc_cluster once took a sector it
\* could not read for a table of free clusters (fat.c:57) or the drive dropped
\* a write of the table.
ChainsDisjoint ==
  ~st.misread /\ TableKept =>
    \A c \in Cluster :
      Cardinality({d \in Cluster : FatTable[d] = c})
        + Cardinality({pl \in Places : At(pl).start = c}) <= 1

\* A read in which nothing fails returns exactly what was written to the file,
\* after any calls on other files, failed or dropped transfers and power
\* failures; it is about files all of whose writes were made without error and
\* through open files that agreed with the directory, on a table that is sound.
ReadsBack ==
  /\ res.call = "read" /\ res.clean /\ content[res.path] # Unknown
  /\ ~st.misread /\ TableKept
  =>
    res.data = SubSeq(content[res.path], res.offset + 1, 
                      Min({res.offset + res.len, Len(content[res.path])}))

\* A directory has no two entries of one name and kind, though a failed open
\* is followed by a create (vfs_open) and calls are repeated after a failure.
NamesUnique ==
  \A p, q \in Places :
    /\ p[1] = q[1] /\ p # q
    => At(p).name # At(q).name \/ At(p).dir # At(q).dir

\* Every directory has its "." and "..", unless the fat_mkdir that made it
\* failed between writing its entry and initialising its cluster, or the drive
\* dropped the write of that cluster or of the table.
DirsInitialised ==
  \A pl \in Places :
    /\ At(pl).dir /\ At(pl).start \notin half /\ ~st.misread /\ TableKept
    /\ cluster_to_sector(At(pl).start) \notin st.dropped
    =>
      LET s == DirSlots(At(pl).start)
      IN  s[1] = Entry(".", TRUE, At(pl).start, 0) /\ s[2] = Entry("..", TRUE, pl[1], 0)

\* The two together: the chains of the table are sound after any failure.
ChainsSound == ChainsAllocated /\ ChainsDisjoint

\* The two together: the directories are sound after any failure.
DirectoriesSound == NamesUnique /\ DirsInitialised
=============================================================================
