---------------------------- MODULE BlockManager ----------------------------
(***************************************************************************)
(* The files of one entry: the block manager                               *)
(* (reductstore/src/storage/block_manager/), its write-ahead log, its      *)
(* block index, and the recovery of entry/entry_loader.rs.                 *)
(*                                                                         *)
(* An operation runs under the block manager's lock.  It is a sequence of  *)
(* file writes (todo), done one by one; the process may crash between any  *)
(* two of them.  What was written stays (loss of power is not modelled).   *)
(* Memory is updated when the operation begins, since nobody can look at   *)
(* it before the lock is released, and is lost in a crash.                 *)
(*                                                                         *)
(* A record is one unit of data, its content is its timestamp, and its     *)
(* labels are a version.  A CRC is the thing it was computed from.         *)
(***************************************************************************)
EXTENDS Integers, Sequences, FiniteSets, SequencesExt, FiniteSetsExt, Functions

CONSTANTS
    MaxTime,     \* timestamps are 1..MaxTime
    MaxLabels,   \* bound on the label versions of a record
    MaxRecords,  \* max_block_records, and max_block_size in units of data
    MaxOps,      \* bound on operations
    MaxCrashes,  \* bound on crashes
    Windows      \* the windows in which a crash is considered (see E)

ASSUME BlockManagerAssumption ==
    /\ {MaxTime, MaxLabels, MaxRecords} \subseteq Nat \ {0}
    /\ {MaxOps, MaxCrashes} \subseteq Nat
    /\ Windows \subseteq {"plain", "torn", "version", "index", "wal", "remove"}

Timestamp == 1..MaxTime

VARIABLES
    disk,     \* the files: data, descriptors and WALs by block, the block index
    index,    \* memory: the block index
    cache,    \* memory: the blocks loaded, by block id
    todo,     \* the file writes the operation under way still has to do
    pc,       \* "down", "replay" or "ready"
    replay,   \* recovery: the WALs still to be replayed
    acked,    \* history: acked[t], the version of t the clients were told of (0: none)
    promise,  \* what acked becomes when the operation under way ends
    touched,  \* history: records whose operation was cut off by a crash
    home,     \* history: home[t], the block t was written into (0: none); a record
              \* of a damaged block keeps it when it is written again
    damaged,  \* history: blocks of which a crash cut a non-atomic update
    ops, crashes  \* counters

memory == <<index, cache>>
history == <<acked, promise, touched, home, damaged, ops, crashes>>
vars == <<disk, memory, todo, pc, replay, history>>

NoRecords == [t \in {} |-> 0]
NoBlocks == [b \in {} |-> 0]
Absent == [st |-> "absent"]
Torn == [st |-> "torn"]
Data(bytes) == [st |-> "ok", bytes |-> bytes]
Desc(ver, recs) == [st |-> "ok", ver |-> ver, recs |-> recs, bad |-> FALSE]
NoCrc == Desc(0, NoRecords)

\* An entry of the block index; version 0 stands for none.
IndexEntry(ver, crc, bad) == [ver |-> ver, crc |-> crc, bad |-> bad]
New == IndexEntry(0, NoCrc, FALSE)

\* A file write.  The window names what a crash right before it would cut in
\* two: "torn" the set_len and the write of a descriptor, "version" a
\* descriptor and the index when the version was reset, "index" the set_len
\* and the write of the index, "wal" the parts of a WAL entry, "remove" the
\* new data file of a block that lost records and what describes it.
E(file, b, to, window) == [file |-> file, block |-> b, to |-> to, window |-> window]

InWindow(window, writes) ==
    [i \in DOMAIN writes |->
        [writes[i] EXCEPT !.window = IF @ = "index" THEN @ ELSE window]]

Apply(d, e) ==
    IF e.file = "index" THEN [d EXCEPT !.index = e.to]
                        ELSE [d EXCEPT ![e.file] = [@ EXCEPT ![e.block] = e.to]]

With(f, x, v) == [y \in DOMAIN f \union {x} |-> IF y = x THEN v ELSE f[y]]
Without(f, S) == [y \in DOMAIN f \ S |-> f[y]]

Init ==
    /\ disk = [data |-> [b \in Timestamp |-> Absent], desc |-> [b \in Timestamp |-> Absent],
               wal |-> [b \in Timestamp |-> Absent], index |-> Absent]
    /\ index = NoBlocks /\ cache = NoBlocks
    /\ todo = <<>> /\ pc = "ready" /\ replay = {}
    /\ acked = [t \in Timestamp |-> 0] /\ promise = acked
    /\ touched = {} /\ home = acked /\ damaged = {}
    /\ ops = 0 /\ crashes = 0

-----------------------------------------------------------------------------
(* Parts of operations *)

\* BlockIndex::save, because of block b (0: of none)
SaveIndex(i, b, window) ==
    <<E("index", b, Torn, window),
      E("index", b, [st |-> "ok", blocks |-> i], "index")>>

\* Mutant: the log is overwritten from its start.
AppendOverwrites(b, wal, entry, window) ==
    <<E("wal", b, [st |-> "ok", entries |-> <<entry>>], window)>>

\* WalImpl::append: the entry and its CRC are two writes.
Append1(b, wal, entry, window) ==
    <<E("wal", b, Torn, window), E("wal", b, [st |-> "ok", entries |-> Append(wal, entry)], "wal")>>

WalOf(b) == IF disk.wal[b].st = "ok" THEN disk.wal[b].entries ELSE <<>>

NextVersion(i, b) == (IF b \in DOMAIN i THEN i[b].ver ELSE 0) + 1

\* The index after save_meta_on_disk.
Saved(i, b, recs) ==
    LET v == NextVersion(i, b) IN With(i, b, IndexEntry(v, Desc(v, recs), FALSE))

\* Mutant: the WAL is removed before the descriptor and the index are written.
SaveMetaWalFirst(b, recs, i) ==
    LET s == Saved(i, b, recs)
    IN  <<E("wal", b, Absent, "plain"), E("desc", b, Torn, "plain"),
          E("desc", b, s[b].crc, "torn")>>
        \o SaveIndex(s, b, "plain")

\* save_meta_on_disk: the descriptor (set_len changes nothing if the records
\* are the same), the index, and the WAL goes.
SaveMeta(b, recs, i) ==
    LET s == Saved(i, b, recs)
        onDisk == disk.index.st = "ok" /\ b \in DOMAIN disk.index.blocks
        reset == onDisk /\ disk.index.blocks[b].ver >= s[b].ver
        same == disk.desc[b].st = "ok" /\ disk.desc[b].recs = recs
    IN  (IF same THEN <<>> ELSE <<E("desc", b, Torn, "plain")>>)
        \o <<E("desc", b, s[b].crc, IF same THEN "plain" ELSE "torn")>>
        \o SaveIndex(s, b, IF reset THEN "version" ELSE "plain")
        \o <<E("wal", b, Absent, "plain")>>

\* set_len of a data file.
SetLen(d, n) ==
    LET bytes == IF d.st = "ok" THEN d.bytes ELSE <<>>
    IN  Data([i \in 1..n |-> IF i <= Len(bytes) THEN bytes[i] ELSE 0])

SizeOf(recs) == Cardinality(DOMAIN recs)

\* finish_block: the data file is cut to the size of the block.
FinishBlock(b, recs, i) ==
    <<E("data", b, SetLen(disk.data[b], SizeOf(recs)), "plain")>> \o SaveMeta(b, recs, i)

\* remove_block
RemoveBlock(b, wal, i, window) ==
    Append1(b, wal, [op |-> "removeBlock"], window)
    \o <<E("data", b, Absent, "plain"), E("desc", b, Absent, "plain")>>
    \o SaveIndex(Without(i, {b}), b, "plain")
    \o <<E("wal", b, Absent, "plain")>>

-----------------------------------------------------------------------------
(* Loading a block *)


\* load_block of a block that is not cached: the descriptor is decoded and
\* agrees with the index, or is newer than the index.
Loads(b) ==
    LET d == disk.desc[b]
    IN  /\ d.st = "ok" /\ b \in DOMAIN index
        /\ index[b].crc = NoCrc \/ index[b].crc = d \/ d.ver > index[b].ver

\* The index after load_block: a newer descriptor is taken over, any other
\* disagreement marks the block as corrupted.
IndexAfterLoad(b) ==
    LET d == disk.desc[b]
    IN  IF b \notin DOMAIN index THEN index
        ELSE IF ~Loads(b) THEN [index EXCEPT ![b].bad = TRUE]
        ELSE IF index[b].crc \notin {NoCrc, d} THEN [index EXCEPT ![b] = IndexEntry(d.ver, d, d.bad)]
        ELSE index

\* The writes of load_block; mark_block_corrupted also flags the descriptor, if it
\* can be decoded.
LoadWrites(b) ==
    LET d == disk.desc[b]
        flag == IF b \in DOMAIN index /\ ~Loads(b) /\ d.st = "ok" /\ ~d.bad
                THEN <<E("desc", b, Torn, "plain"), E("desc", b, [d EXCEPT !.bad = TRUE], "torn")>>
                ELSE <<>>
    IN  flag \o (IF IndexAfterLoad(b) = index THEN <<>>
                 ELSE SaveIndex(IndexAfterLoad(b), b, "plain"))

Available(b) == b \in DOMAIN index /\ ~index[b].bad /\ (b \in DOMAIN cache \/ Loads(b))

\* Loading the block, if it is not cached, changes nothing (otherwise ReadBlock
\* comes first).
Ready(b) == Available(b) /\ (b \in DOMAIN cache \/ IndexAfterLoad(b) = index)

Records(b) == IF b \in DOMAIN cache THEN cache[b] ELSE disk.desc[b].recs

active_tree == {b \in DOMAIN index : ~index[b].bad}

\* find_block_id: the block of that id, or the nearest one before it.
FindBlock(t) ==
    LET before == {b \in active_tree : b <= t}
    IN  IF before = {} THEN 0 ELSE Max(before)

\* The version of t a reader gets: 0 if there is no such record, -1 if its
\* place in the data file holds something else.
Value(t) ==
    LET b == FindBlock(t)
        bytes == IF disk.data[b].st = "ok" THEN disk.data[b].bytes ELSE <<>>
    IN  IF b = 0 THEN 0
        ELSE IF ~Available(b) THEN -1
        ELSE IF t \notin DOMAIN Records(b) THEN 0
        ELSE LET r == Records(b)[t]
             IN  IF r.begin <= Len(bytes) /\ bytes[r.begin] = t THEN r.labels ELSE -1

-----------------------------------------------------------------------------
(* Operations *)

\* An operation begins: its writes, and what its clients will be told.
Begin(writes, told) ==
    /\ ops < MaxOps /\ ops' = ops + 1
    /\ todo' = writes /\ promise' = told
    /\ UNCHANGED <<disk, pc, replay, acked, touched, damaged, crashes>>

Idle == pc = "ready" /\ todo = <<>>

\* load_block of a block that a reader or an operation needs.  One that agrees
\* with the index only enters the cache, which Records does not tell apart.
ReadBlock(b) ==
    /\ Idle /\ b \in active_tree /\ ~Ready(b)
    /\ index' = IndexAfterLoad(b)
    /\ cache' = IF Loads(b) THEN With(cache, b, disk.desc[b].recs) ELSE cache
    /\ Begin(LoadWrites(b), acked)
    /\ UNCHANGED home

\* save_block puts a block into the write cache; another block c (0: none) that has
\* to leave it for that is saved, with the index as it is.
Evict(c, i) == IF c = 0 THEN <<>> ELSE SaveMeta(c, cache[c], i)
EvictIndex(c, i) == IF c = 0 THEN i ELSE Saved(i, c, cache[c])
Evictable(b) == {0} \union (DOMAIN cache \ {b})

\* A record later than all others is written: begin_write takes the last
\* block, or finishes it when it is full and starts a new one;
\* RecordWriter::try_new enters the block anew in the index (its version and
\* CRC are gone), the content is written and finish_write_record logs it.  A
\* block c leaves the write cache before the content is written or at the end.
\* New timestamps are used one after the other: only their order matters.
WriteRecord(t, c, early) ==
    LET last == Max(active_tree)
        full == active_tree # {} => SizeOf(Records(last)) >= MaxRecords
        finish == full /\ active_tree # {}
        b == IF full THEN t ELSE last
        old == IF full THEN NoRecords ELSE Records(last)
        rec == [begin |-> SizeOf(old) + 1, labels |-> 1]
        i == With(IF finish THEN Saved(index, last, Records(last)) ELSE index, b, New)
        file == SetLen(disk.data[b], IF full THEN MaxRecords
                                     ELSE Max({rec.begin, Len(disk.data[b].bytes)}))
    IN  /\ Idle
        /\ \A u \in 1..(t - 1) : home[u] # 0
        /\ \A d \in DOMAIN index : d < t
        /\ \A d \in active_tree : Available(d) => \A u \in DOMAIN Records(d) : u < t
        /\ active_tree # {} => Ready(last) /\ c # last
        /\ ~full => disk.data[last].st = "ok"
        /\ c \in Evictable(b)
        /\ index' = EvictIndex(c, i)
        /\ cache' = With(IF finish THEN With(cache, last, Records(last)) ELSE cache,
                         b, With(old, t, rec))
        /\ home' = [home EXCEPT ![t] = IF @ \in damaged THEN @ ELSE b]
        /\ Begin((IF finish THEN FinishBlock(last, Records(last), index) ELSE <<>>)
                 \o (IF full THEN <<E("data", b, file, "plain")>> ELSE <<>>)
                 \o (IF early THEN Evict(c, i) ELSE <<>>)
                 \o <<E("data", b, Data([file.bytes EXCEPT ![rec.begin] = t]), "plain")>>
                 \o Append1(b, IF full THEN <<>> ELSE WalOf(b),
                            [op |-> "put", time |-> t, rec |-> rec], "plain")
                 \o (IF early THEN <<>> ELSE Evict(c, i)),
                 [acked EXCEPT ![t] = 1])

\* update_records: the labels of a record change.
UpdateRecord(t, c) ==
    LET b == FindBlock(t)
        rec == [Records(b)[t] EXCEPT !.labels = @ + 1]
    IN  /\ Idle /\ b # 0 /\ Ready(b)
        /\ t \in DOMAIN Records(b) /\ Records(b)[t].labels < MaxLabels
        /\ c \in Evictable(b)
        /\ index' = EvictIndex(c, index)
        /\ cache' = With(cache, b, With(Records(b), t, rec))
        /\ Begin(Append1(b, WalOf(b), [op |-> "put", time |-> t, rec |-> rec], "plain")
                 \o Evict(c, index),
                 [acked EXCEPT ![t] = rec.labels])
        /\ UNCHANGED home

\* The data file without the removed records, and their new places.
Compacted(recs) == [t \in DOMAIN recs |->
    [recs[t] EXCEPT !.begin = Cardinality({u \in DOMAIN recs : u <= t})]]
CompactedData(b, recs) ==
    LET order == SetToSortSeq(DOMAIN recs, <)
    IN  Data([i \in 1..Len(order) |-> disk.data[b].bytes[recs[order[i]].begin]])

\* The WAL entries of remove_records, one for each record.
RemovalLog(b, S, more) ==
    LET order == SetToSortSeq(S, <)
        wal(n) == WalOf(b) \o [i \in 1..n |-> [op |-> "removeRecord", time |-> order[i]]]
    IN  [log |-> FlattenSeq([i \in 1..Len(order) |->
                     Append1(b, wal(i - 1), wal(i)[Len(wal(i))], IF i = 1 THEN "plain" ELSE more)]),
         wal |-> wal(Len(order))]

\* remove_records: log the removals, then replace the data file by one without
\* the removed records and save the descriptor; a block left empty goes.
RemoveRecords(b, S) ==
    LET kept == Without(Records(b), S)
        log == RemovalLog(b, S, IF DOMAIN kept = {} THEN "plain" ELSE "remove")
        new == Compacted(kept)
    IN  /\ Idle /\ b \in active_tree /\ Ready(b)
        /\ S # {} /\ S \subseteq DOMAIN Records(b)
        /\ disk.data[b].st = "ok"
        /\ index' = IF DOMAIN kept = {} THEN Without(index, {b}) ELSE Saved(index, b, new)
        /\ cache' = IF DOMAIN kept = {} THEN Without(cache, {b}) ELSE With(cache, b, new)
        /\ Begin(log.log \o
                 IF DOMAIN kept = {}
                 THEN RemoveBlock(b, log.wal, index, "plain")
                 ELSE InWindow("remove",
                        <<E("data", b, Absent, ""), E("data", b, CompactedData(b, kept), "")>>
                        \o SaveMeta(b, new, index)),
                 [t \in Timestamp |-> IF t \in S THEN 0 ELSE acked[t]])
        /\ UNCHANGED home

\* Mutant: the removed block stays in the cache.
RemoveOldestCached ==
    LET b == Min(DOMAIN index)
    IN  /\ Idle /\ DOMAIN index # {}
        /\ index' = Without(index, {b}) /\ UNCHANGED cache
        /\ Begin(RemoveBlock(b, WalOf(b), index, "plain"),
                 [t \in Timestamp |->
                     IF Available(b) /\ t \in DOMAIN Records(b) THEN 0 ELSE acked[t]])
        /\ UNCHANGED home

\* try_remove_oldest_block: the whole first block goes (FIFO quota, deletion).
RemoveOldest ==
    LET b == Min(DOMAIN index)
    IN  /\ Idle /\ DOMAIN index # {}
        /\ index' = Without(index, {b}) /\ cache' = Without(cache, {b})
        /\ Begin(RemoveBlock(b, WalOf(b), index, "plain"),
                 [t \in Timestamp |->
                     IF Available(b) /\ t \in DOMAIN Records(b) THEN 0 ELSE acked[t]])
        /\ UNCHANGED home

\* A cached block is saved: compaction or the periodic synchronisation.
SaveBlock(b) ==
    /\ Idle /\ b \in DOMAIN cache /\ disk.wal[b].st # "absent"
    /\ index' = Saved(index, b, cache[b])
    /\ Begin(SaveMeta(b, cache[b], index), acked)
    /\ UNCHANGED <<cache, home>>

\* The next file write of the operation under way.  After the last one its
\* clients get their answer.
Write ==
    /\ todo # <<>>
    /\ disk' = Apply(disk, Head(todo))
    /\ todo' = Tail(todo)
    /\ acked' = IF Tail(todo) = <<>> THEN promise ELSE acked
    /\ UNCHANGED <<memory, pc, replay, promise, touched, home, damaged, ops, crashes>>

-----------------------------------------------------------------------------
(* Crash and recovery *)

Crash ==
    /\ pc # "down" /\ crashes < MaxCrashes
    /\ todo # <<>> => Head(todo).window \in Windows
    /\ pc' = "down" /\ todo' = <<>> /\ index' = NoBlocks /\ cache' = NoBlocks
    /\ replay' = {} /\ crashes' = crashes + 1
    /\ touched' = touched \union {t \in Timestamp : promise[t] # acked[t]}
    /\ damaged' = IF todo # <<>> /\ Head(todo).window # "plain"
                  THEN damaged \union {Head(todo).block} ELSE damaged
    /\ promise' = acked
    /\ UNCHANGED <<disk, acked, home, ops>>

\* restore_entry_from_blocks: an index made of the descriptors; what cannot be
\* decoded is removed with its data.
DescriptorsWithout(gone) == {b \in Timestamp : disk.desc[b].st # "absent"} \ gone

Rebuilt(gone) ==
    [b \in {c \in DescriptorsWithout(gone) : disk.desc[c].st = "ok"} |->
        IndexEntry(disk.desc[b].ver, disk.desc[b], disk.desc[b].bad)]

Rebuild(gone) ==
    LET torn == SetToSortSeq({b \in DescriptorsWithout(gone) : disk.desc[b].st = "torn"}, <)
    IN  FlattenSeq([i \in 1..Len(torn) |-> <<E("desc", torn[i], Absent, "plain"),
                                            E("data", torn[i], Absent, "plain")>>])
        \o SaveIndex(Rebuilt(gone), 0, "plain")

\* BlockIndex::try_load: a truncated index is taken for an empty one.
StoredIndex == IF disk.index.st = "torn" THEN NoBlocks ELSE disk.index.blocks

\* restore_entry: the index is read, or rebuilt when there is none; the WALs
\* are next.
LoadEntry ==
    LET missing == disk.index.st = "absent"
    IN  /\ pc = "down"
        /\ pc' = "replay"
        /\ replay' = {b \in Timestamp : disk.wal[b].st # "absent"}
        /\ index' = IF missing THEN Rebuilt({}) ELSE StoredIndex
        /\ todo' = IF missing THEN Rebuild({}) ELSE <<>>
        /\ UNCHANGED <<disk, cache, history>>

\* The records of a block after the entries of its WAL.
Replayed(recs, entries) ==
    FoldLeft(LAMBDA r, e : IF e.op = "put" THEN With(r, e.time, e.rec) ELSE Without(r, {e.time}),
             recs, SelectSeq(entries, LAMBDA e : e.op # "removeBlock"))

\* One block of restore_uncommitted_changes.  A WAL that cannot be read is
\* dropped; a descriptor that cannot be loaded counts for nothing.
ReplayWal(b) ==
    LET wal == WalOf(b)
        i == IF disk.desc[b].st = "absent" THEN index ELSE IndexAfterLoad(b)
        recs == Replayed(IF Loads(b) THEN disk.desc[b].recs ELSE NoRecords, wal)
        load == IF disk.desc[b].st = "absent" THEN <<>> ELSE LoadWrites(b)
        removed == \E n \in 1..Len(wal) : wal[n].op = "removeBlock"
    IN  /\ pc = "replay" /\ todo = <<>> /\ b \in replay
        /\ replay' = replay \ {b}
        /\ IF disk.wal[b].st = "torn"
           THEN todo' = <<E("wal", b, Absent, "plain")>> /\ UNCHANGED memory
           ELSE IF removed
           THEN /\ index' = Without(i, {b}) /\ UNCHANGED cache
                /\ todo' = load \o RemoveBlock(b, <<>>, i, "plain")
           ELSE /\ index' = Saved(i, b, recs)
                /\ cache' = IF Loads(b) THEN With(cache, b, recs) ELSE cache
                /\ todo' = load \o FinishBlock(b, recs, i)
        /\ UNCHANGED <<disk, pc, history>>

\* The integrity check at the end of restore_entry: every block of the index
\* has its files and there are no other descriptors; otherwise the index is
\* rebuilt, without the descriptors that have no data.
CheckIntegrity ==
    LET dataless == {b \in DOMAIN index : disk.desc[b].st # "absent" /\ disk.data[b].st = "absent"}
        order == SetToSortSeq(dataless, <)
        sound == dataless = {} /\ DescriptorsWithout({}) = DOMAIN index
    IN  /\ pc = "replay" /\ replay = {} /\ todo = <<>>
        /\ pc' = "ready"
        /\ IF sound
           THEN todo' = <<>> /\ UNCHANGED memory
           ELSE /\ index' = Rebuilt(dataless) /\ cache' = NoBlocks
                /\ todo' = [i \in 1..Len(order) |-> E("desc", order[i], Absent, "plain")]
                           \o Rebuild(dataless)
        /\ UNCHANGED <<disk, replay, history>>

-----------------------------------------------------------------------------
Next ==
    \/ \E t \in Timestamp, c \in 0..MaxTime, early \in BOOLEAN : WriteRecord(t, c, early)
    \/ \E t \in Timestamp, c \in 0..MaxTime : UpdateRecord(t, c)
    \/ \E b \in Timestamp : ReadBlock(b)
    \/ \E b \in Timestamp : \E S \in SUBSET Timestamp : RemoveRecords(b, S)
    \/ \E b \in Timestamp : SaveBlock(b)
    \/ RemoveOldest
    \/ Write
    \/ Crash
    \/ LoadEntry
    \/ \E b \in Timestamp : ReplayWal(b)
    \/ CheckIntegrity

Spec == Init /\ [][Next]_vars

-----------------------------------------------------------------------------
(* Properties *)

\* Types: files are absent, torn or whole; memory holds blocks of records.
TypeOK ==
    /\ \A b \in Timestamp : /\ disk.data[b].st \in {"absent", "ok"}
                            /\ disk.desc[b].st \in {"absent", "torn", "ok"}
                            /\ disk.wal[b].st \in {"absent", "torn", "ok"}
    /\ disk.index.st \in {"absent", "torn", "ok"}
    /\ DOMAIN index \subseteq Timestamp /\ DOMAIN cache \subseteq DOMAIN index
    /\ pc \in {"down", "replay", "ready"} /\ replay \subseteq Timestamp
    /\ acked \in [Timestamp -> 0..MaxLabels] /\ promise \in [Timestamp -> 0..MaxLabels]
    /\ home \in [Timestamp -> 0..MaxTime] /\ damaged \subseteq Timestamp
    /\ touched \subseteq Timestamp /\ ops \in 0..MaxOps /\ crashes \in 0..MaxCrashes

\* Durability: in a running entry every record has the labels and the content
\* of the last write, update or removal its client was told of, whatever
\* crashes and recoveries there were.  Records whose own operation was cut off
\* by a crash may be in either state.  Excepted are the records of a block of
\* which a crash cut an update that is not atomic: its descriptor after
\* set_len (save_meta_on_disk), descriptor and index when the version started
\* again at 1 (try_new drops it), an entry of its WAL (append), or the swap
\* of its data file (remove_records).  Acknowledged records of that block may
\* be lost; those of every other block may not.
Durable ==
    Idle => \A t \in Timestamp \ touched : home[t] \notin damaged => Value(t) = acked[t]


\* What a recovery would rebuild of a block, from its descriptor and its WAL,
\* is what memory holds: no acknowledged change is in memory only.
LogCoversMemory ==
    Idle => \A b \in DOMAIN cache :
        Replayed(IF disk.desc[b].st = "ok" THEN disk.desc[b].recs ELSE NoRecords, WalOf(b)) = cache[b]

\* The comment in BlockIndex::try_load: "If the index file is empty, check if
\* there are any block descriptors. If there are, the index file is
\* corrupted."  An entry with descriptors is never opened with an empty index.
EmptyIndexIsCorrupted ==
    [][LoadEntry /\ disk.index.st = "torn" => DescriptorsWithout({}) = {}]_vars

=============================================================================
