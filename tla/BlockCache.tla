----------------------------- MODULE BlockCache -----------------------------
(***************************************************************************)
(* The block layer of NeptuneOS: the direct-mapped, write-through sector   *)
(* cache of kernel/block.c over the RAM disk (block.c) or the PIO disk of  *)
(* kernel/ata.c.                                                           *)
(*                                                                         *)
(* A call is an operator from a state s to the SET of its outcomes, since  *)
(* a drive may fail: s.up says whether the machine still has power and     *)
(* s.faults how many failures are left to come.  Every call in the tree    *)
(* moves one sector, so count is 1; then an ata_poll that fails comes      *)
(* before the data and the sector is as it was.  An error the drive raises *)
(* after the data is not looked at: s.lost is a history of the sectors     *)
(* whose last write went that way, s.dropped of all that ever did.         *)
(* block_init picks the device and empties the cache, and nothing calls    *)
(* block_set_default later, so cache entries need not name their device.   *)
(***************************************************************************)
EXTENDS Integers

CONSTANTS
  NSectors,     \* sectors of the device (RAMDISK_SECTORS)
  CacheEntries  \* BLOCK_CACHE_ENTRIES

ASSUME BlockAssumption ==
  /\ NSectors \in Nat
  /\ CacheEntries \in Nat \ {0}

Sector == 0..NSectors - 1
Slot == 0..CacheEntries - 1

\* An entry of block_cache with valid = 0.
NoEntry == [valid |-> FALSE]

\* block_cache_reset.
block_cache_reset == [i \in Slot |-> NoEntry]

\* block_cache_lookup: is lba in its slot?
block_cache_lookup(s, lba) ==
  LET e == s.cache[lba % CacheEntries]
  IN  e.valid /\ e.lba = lba

\* block_cache_store.
block_cache_store(s, lba, data) ==
  [s EXCEPT !.cache[lba % CacheEntries] =
              [valid |-> TRUE, lba |-> lba, data |-> data]]

Fail(s) == [s |-> s, rc |-> -1]

\* The drive reports an error or does not answer in time, which ata_poll sees.
ata_poll(s) == IF s.faults > 0 THEN {[s EXCEPT !.faults = @ - 1]} ELSE {}

\* The power goes before the sector is transferred.
PowerFails(s) == IF s.faults > 0 THEN {[s EXCEPT !.faults = @ - 1, !.up = FALSE]} ELSE {}

\* The RAM disk fails on a bad sector number only.
ramdisk_read(s, lba) ==
  IF lba \notin Sector THEN {Fail(s)}
  ELSE {[s |-> s, rc |-> 0, data |-> s.disk[lba]]} \cup {Fail(t) : t \in PowerFails(s)}

ramdisk_write(s, lba, data) ==
  IF lba \notin Sector THEN {Fail(s)}
  ELSE {[s |-> [s EXCEPT !.disk[lba] = data], rc |-> 0]} \cup {Fail(t) : t \in PowerFails(s)}

ata_read(s, lba) ==
  IF lba \notin Sector THEN {Fail(s)}
  ELSE {[s |-> s, rc |-> 0, data |-> s.disk[lba]]}
       \cup {Fail(t) : t \in ata_poll(s) \cup PowerFails(s)}

\* ata_write has sent the data and the flush command, and returns 0 without a
\* look at the status: the drive may have failed to write the sector.
Dropped(s, lba) ==
  {[t EXCEPT !.lost = @ \cup {lba}, !.dropped = @ \cup {lba}] : t \in ata_poll(s)}

ata_write(s, lba, data) ==
  IF lba \notin Sector THEN {Fail(s)}
  ELSE {[s |-> [s EXCEPT !.disk[lba] = data, !.lost = @ \ {lba}], rc |-> 0]}
       \cup {[s |-> t, rc |-> 0] : t \in Dropped(s, lba)}
       \cup {Fail(t) : t \in ata_poll(s) \cup PowerFails(s)}

\* dev->read and dev->write.
DevRead(s, lba) == IF s.dev = "ata" THEN ata_read(s, lba) ELSE ramdisk_read(s, lba)
DevWrite(s, lba, data) ==
  IF s.dev = "ata" THEN ata_write(s, lba, data) ELSE ramdisk_write(s, lba, data)

\* block_read.
block_read(s, lba) ==
  IF ~s.up THEN {Fail(s)}
  ELSE IF block_cache_lookup(s, lba)
  THEN {[s |-> s, rc |-> 0, data |-> s.cache[lba % CacheEntries].data]}
  ELSE {IF o.rc # 0 THEN o
        ELSE [s |-> block_cache_store(o.s, lba, o.data), rc |-> 0, data |-> o.data] :
          o \in DevRead(s, lba)}

\* Mutant: the cache is written whether or not the device took the data.
StoreAlways(s, lba, data) ==
  IF ~s.up THEN {Fail(s)}
  ELSE {[s |-> block_cache_store(o.s, lba, data), rc |-> o.rc] : o \in DevWrite(s, lba, data)}

\* block_write: through to the device, and into the cache if that returned 0.
block_write(s, lba, data) ==
  IF ~s.up THEN {Fail(s)}
  ELSE {IF o.rc # 0 THEN o ELSE [s |-> block_cache_store(o.s, lba, data), rc |-> 0] :
          o \in DevWrite(s, lba, data)}

-----------------------------------------------------------------------------
\* A cached sector is the sector on the disk, or one the drive dropped when it
\* was last written.
Coherent(s) ==
  \A i \in Slot : s.cache[i].valid =>
    /\ s.cache[i].lba \in Sector
    /\ s.cache[i].lba % CacheEntries = i
    /\ s.cache[i].lba \notin s.lost => s.cache[i].data = s.disk[s.cache[i].lba]
=============================================================================
