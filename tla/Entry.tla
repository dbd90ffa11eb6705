-------------------------------- MODULE Entry --------------------------------
(***************************************************************************)
(* The operations of one entry (reductstore/src/storage/entry/) and how    *)
(* they interleave: begin_write and the record writer, remove_records,     *)
(* update_labels and the removal of the oldest block.  Each takes the      *)
(* block manager's lock several times and keeps block references, record   *)
(* clones and file offsets in between; an action is what is done under one *)
(* lock.  Nothing crashes here (see BlockManager) and cached blocks stay.  *)
(*                                                                         *)
(* All records have one unit of data, and the content of a record is its   *)
(* timestamp.  Its labels are the number of updates applied to it.         *)
(***************************************************************************)
EXTENDS Integers, Sequences, FiniteSets, FiniteSetsExt, SequencesExt

CONSTANTS
    Proc,      \* clients
    MaxTime,   \* timestamps are 1..MaxTime
    Scenario   \* the uses of the entry to consider; each one has
               \*   ops        the operations used: "write", "remove", "update", "evict"
               \*   seed       the records in the entry at first, in one block
               \*   maxRecords max_block_records
               \*   maxOps     a bound on operations
               \*   sequential TRUE if an operation begins when no other is under way
               \*   inOrder    TRUE if no record is earlier than one in the entry
               \*   distinct   TRUE if no record is written twice at a time, or updated
               \*              while it is written

ASSUME EntryAssumption ==
    /\ MaxTime \in Nat \ {0}
    /\ \A c \in Scenario :
          /\ c.ops \subseteq {"write", "remove", "update", "evict"}
          /\ c.seed \subseteq 1..MaxTime
          /\ c.maxRecords \in Nat \ {0} /\ c.maxOps \in Nat
          /\ {c.sequential, c.inOrder, c.distinct} \subseteq BOOLEAN

Timestamp == 1..MaxTime

VARIABLES
    blocks,   \* block objects, by reference: [id, recs]
    tree,     \* the block index: ids of blocks
    cache,    \* the reference under each id (0: none)
    data,     \* data[b][i], the content of the data file of b at place i
    proc,     \* proc[p]: what the operation of p keeps between its steps
    panicked, \* an unwrap failed; the process exits
    written,  \* history: acknowledged writes by timestamp
    updates,  \* history: acknowledged updates by timestamp
    overlap,  \* history: timestamps of which two updates were under way at once
    gone,     \* history: timestamps a removal was aimed at
    scenario, \* the use of the entry
    ops       \* operations begun

memory == <<blocks, tree, cache, data>>
history == <<written, updates, overlap, gone>>
vars == <<memory, proc, panicked, history, scenario, ops>>

\* Places in a data file: blocks overfill when writers race.
Places == 1..(MaxTime + 1)
NoData == [i \in Places |-> 0]
Record(begin, state) == [begin |-> begin, state |-> state, labels |-> 0]
NoRecord == Record(0, "none")
Rest == [pc |-> "idle", time |-> 0, ref |-> 0, id |-> 0, rec |-> NoRecord]

With(f, x, v) == [y \in DOMAIN f \union {x} |-> IF y = x THEN v ELSE f[y]]
Without(f, x) == [y \in DOMAIN f \ {x} |-> f[y]]

\* Block::size and latest_record_time
SizeOf(block) == Cardinality(DOMAIN block.recs)
Latest(block) == IF block.recs = <<>> THEN 0 ELSE Max(DOMAIN block.recs)

PlaceIn(S, t) == Cardinality({u \in S : u <= t})

Init ==
    /\ scenario \in Scenario
    /\ LET seed == scenario.seed
           at(i) == {t \in seed : PlaceIn(seed, t) = i}
       IN  /\ tree = IF seed = {} THEN {} ELSE {Min(seed)}
           /\ blocks = SetToSeq({[id |-> b, recs |-> [t \in seed |-> Record(PlaceIn(seed, t), "finished")]]
                                 : b \in tree})
           /\ data = [b \in Timestamp |-> [i \in Places |->
                        IF b \in tree /\ at(i) # {} THEN Max(at(i)) ELSE 0]]
           /\ written = [t \in Timestamp |-> IF t \in seed THEN 1 ELSE 0]
    /\ cache = [b \in Timestamp |-> IF b \in tree THEN 1 ELSE 0]
    /\ proc = [p \in Proc |-> Rest]
    /\ panicked = FALSE
    /\ updates = [t \in Timestamp |-> 0]
    /\ overlap = {} /\ gone = {} /\ ops = 0

\* find_block: the block of that id, or the nearest one before it (0: none).
find_block(t) ==
    LET before == {b \in tree : b <= t} IN IF before = {} THEN 0 ELSE Max(before)

\* What a reader of t gets: its content, or 0.
Read(t) ==
    LET b == find_block(t)
        recs == blocks[cache[b]].recs
    IN  IF b = 0 THEN 0
        ELSE IF t \notin DOMAIN recs THEN 0
        ELSE IF recs[t].state # "finished" THEN 0
        ELSE data[b][recs[t].begin]

-----------------------------------------------------------------------------
(* Steps *)

Quiet == \A p \in Proc : proc[p].pc = "idle"

Starts(p, op) ==
    /\ ~panicked /\ proc[p].pc = "idle" /\ op \in scenario.ops
    /\ ops < scenario.maxOps /\ ops' = ops + 1
    /\ scenario.sequential => Quiet
    /\ UNCHANGED scenario

At(p, pc) == ~panicked /\ proc[p].pc = pc /\ UNCHANGED scenario
Goto(p, r) == proc' = [proc EXCEPT ![p] = r]
Done(p) == Goto(p, Rest)
MyBlock(p) == blocks[proc[p].ref]

\* start_new_block: a new object takes the place of one with the same id.
StartNewBlock(t) ==
    /\ blocks' = Append(blocks, [id |-> t, recs |-> <<>>])
    /\ tree' = tree \union {t}
    /\ cache' = [cache EXCEPT ![t] = Len(blocks) + 1]
    /\ UNCHANGED data

Insert(r, t, rec) == blocks' = [blocks EXCEPT ![r].recs = With(@, t, rec)]

-----------------------------------------------------------------------------
(* begin_write and the record writer *)

\* The last block, or the first one there is.
BeginWrite(p, t) ==
    LET next(r) == [Rest EXCEPT !.pc = "chosen", !.time = t, !.ref = r]
    IN  /\ Starts(p, "write")
        /\ scenario.inOrder => \A b \in tree : b <= t /\ Latest(blocks[cache[b]]) <= t
        /\ scenario.distinct => \A q \in Proc : proc[q].time # t
        /\ IF tree = {}
           THEN StartNewBlock(t) /\ Goto(p, next(Len(blocks) + 1))
           ELSE Goto(p, next(cache[Max(tree)])) /\ UNCHANGED memory
        /\ gone' = IF Quiet THEN gone \ {t} ELSE gone
        /\ UNCHANGED <<panicked, written, updates, overlap>>

\* is_belated
CheckBelated(p) ==
    /\ At(p, "chosen")
    /\ Goto(p, [proc[p] EXCEPT !.pc =
                   IF Latest(MyBlock(p)) >= proc[p].time THEN "belated" ELSE "room"])
    /\ UNCHANGED <<memory, panicked, history, ops>>

\* A belated record: a new block if it is the earliest of all, else the block
\* find_block returns.  index_tree.first() is unwrapped.
FindBelated(p) ==
    LET t == proc[p].time
        next(r, pc) == Goto(p, [proc[p] EXCEPT !.ref = r, !.pc = pc])
    IN  /\ At(p, "belated")
        /\ panicked' = (tree = {})
        /\ IF panicked' THEN UNCHANGED <<memory, proc>>
           ELSE IF find_block(t) = 0
           THEN StartNewBlock(t) /\ next(Len(blocks) + 1, "room")
           ELSE next(cache[find_block(t)], "exists") /\ UNCHANGED memory
        /\ UNCHANGED <<history, ops>>

\* A record that exists is a conflict, unless it is errored.
CheckExists(p) ==
    LET t == proc[p].time
        recs == MyBlock(p).recs
    IN  /\ At(p, "exists")
        /\ IF t \notin DOMAIN recs THEN Goto(p, [proc[p] EXCEPT !.pc = "room"])
           ELSE IF recs[t].state = "errored"
           THEN Goto(p, [proc[p] EXCEPT !.pc = "overwrite", !.rec = recs[t]])
           ELSE Done(p)
        /\ UNCHANGED <<memory, panicked, history, ops>>

\* An errored record of the same size is started again in its place.
Overwrite(p) ==
    /\ At(p, "overwrite")
    /\ Insert(proc[p].ref, proc[p].time, [proc[p].rec EXCEPT !.state = "started", !.labels = 0])
    /\ Goto(p, [proc[p] EXCEPT !.pc = "index"])
    /\ UNCHANGED <<tree, cache, data, panicked, history, ops>>

\* has_too_many_records, read without the block manager's lock.
CheckRoom(p) ==
    /\ At(p, "room")
    /\ Goto(p, [proc[p] EXCEPT !.pc =
                   IF SizeOf(MyBlock(p)) + 1 > scenario.maxRecords THEN "rotate" ELSE "insert"])
    /\ UNCHANGED <<memory, panicked, history, ops>>

\* finish_block cuts the data file to the size of the block and enters the
\* block in the index; start_new_block follows under the same lock.
Rotate(p) ==
    LET t == proc[p].time
        b == MyBlock(p).id
        kept == IF cache[b] = 0 THEN [cache EXCEPT ![b] = proc[p].ref] ELSE cache
    IN  /\ At(p, "rotate")
        /\ data' = [data EXCEPT ![b] = [i \in Places |-> IF i <= SizeOf(MyBlock(p)) THEN @[i] ELSE 0]]
        /\ blocks' = Append(blocks, [id |-> t, recs |-> <<>>])
        /\ tree' = tree \union {b, t}
        /\ cache' = [kept EXCEPT ![t] = Len(blocks) + 1]
        /\ Goto(p, [proc[p] EXCEPT !.ref = Len(blocks) + 1, !.pc = "insert"])
        /\ UNCHANGED <<panicked, history, ops>>

\* Mutant: the record is placed at the start of the block.
PrepareAtStart(p) ==
    /\ At(p, "insert")
    /\ Insert(proc[p].ref, proc[p].time, Record(1, "started"))
    /\ Goto(p, [proc[p] EXCEPT !.pc = "index"])
    /\ UNCHANGED <<tree, cache, data, panicked, history, ops>>

\* prepare_block_for_writing
Prepare(p) ==
    /\ At(p, "insert")
    /\ Insert(proc[p].ref, proc[p].time, Record(SizeOf(MyBlock(p)) + 1, "started"))
    /\ Goto(p, [proc[p] EXCEPT !.pc = "index"])
    /\ UNCHANGED <<tree, cache, data, panicked, history, ops>>

\* RecordWriter::try_new: the block enters the index and the cache; the offset
\* is taken from the record, which is unwrapped (begin_write_record).
NewWriter(p) ==
    LET b == MyBlock(p)
        t == proc[p].time
    IN  /\ At(p, "index")
        /\ panicked' = (t \notin DOMAIN b.recs)
        /\ tree' = tree \union {b.id}
        /\ cache' = IF panicked' THEN cache ELSE [cache EXCEPT ![b.id] = proc[p].ref]
        /\ IF panicked' THEN UNCHANGED proc
           ELSE Goto(p, [proc[p] EXCEPT !.pc = "size", !.id = b.id, !.rec = b.recs[t]])
        /\ UNCHANGED <<blocks, data, history, ops>>

\* After the lock is released the record is looked up, and unwrapped, again for the
\* size of its content.
ContentSize(p) ==
    /\ At(p, "size")
    /\ panicked' = (proc[p].time \notin DOMAIN MyBlock(p).recs)
    /\ IF panicked' THEN UNCHANGED proc ELSE Goto(p, [proc[p] EXCEPT !.pc = "content"])
    /\ UNCHANGED <<memory, history, ops>>

\* The content goes to the offset taken before; or the client sends too little.
Receive(p) ==
    /\ At(p, "content")
    /\ \/ /\ data' = [data EXCEPT ![proc[p].id][proc[p].rec.begin] = proc[p].time]
          /\ Goto(p, [proc[p] EXCEPT !.pc = "finish", !.rec.state = "finished"])
       \/ /\ Goto(p, [proc[p] EXCEPT !.pc = "finish", !.rec.state = "errored"])
          /\ UNCHANGED data
    /\ UNCHANGED <<blocks, tree, cache, panicked, history, ops>>

\* finish_write_record, by the id of the block.  If the block or the record is
\* gone the error is logged only: the client sees its write succeed.
FinishWrite(p) ==
    LET b == proc[p].id
        t == proc[p].time
        r == cache[b]
        found == r # 0 /\ t \in DOMAIN blocks[r].recs
    IN  /\ At(p, "finish")
        /\ IF found THEN Insert(r, t, [blocks[r].recs[t] EXCEPT !.state = proc[p].rec.state])
                    ELSE UNCHANGED blocks
        /\ written' = IF proc[p].rec.state = "finished" THEN [written EXCEPT ![t] = @ + 1] ELSE written
        /\ updates' = [updates EXCEPT ![t] = 0]
        /\ Done(p)
        /\ UNCHANGED <<tree, cache, data, panicked, overlap, gone, ops>>

-----------------------------------------------------------------------------
(* Removal *)

\* Mutant: the block stays in the index.
RemoveBlockIndexed(b) ==
    /\ UNCHANGED tree
    /\ cache' = [cache EXCEPT ![b] = 0]
    /\ data' = [data EXCEPT ![b] = NoData]

\* remove_block; the object lives on where somebody holds a reference to it.
RemoveBlock(b) ==
    /\ tree' = tree \ {b}
    /\ cache' = [cache EXCEPT ![b] = 0]
    /\ data' = [data EXCEPT ![b] = NoData]

\* inner_remove_records: the record is looked up.
FindRemove(p, t) ==
    LET b == find_block(t)
        found == b # 0 /\ t \in DOMAIN blocks[cache[b]].recs
    IN  /\ Starts(p, "remove")
        /\ IF found THEN Goto(p, [Rest EXCEPT !.pc = "remove", !.time = t, !.id = b]) ELSE Done(p)
        /\ gone' = IF found THEN gone \union {t} ELSE gone
        /\ UNCHANGED <<memory, panicked, written, updates, overlap>>

\* Mutant: the places of the records are not adjusted to the new data file.
RemoveRecordsUnmoved(p) ==
    LET b == proc[p].id
        t == proc[p].time
        old == blocks[cache[b]].recs
        left == Without(old, t)
    IN  /\ At(p, "remove") /\ cache[b] # 0 /\ left # <<>>
        /\ blocks' = [blocks EXCEPT ![cache[b]].recs = left]
        /\ data' = [data EXCEPT ![b] = [i \in Places |->
                IF \E u \in DOMAIN left : PlaceIn(DOMAIN left, u) = i
                THEN @[left[CHOOSE u \in DOMAIN left : PlaceIn(DOMAIN left, u) = i].begin] ELSE 0]]
        /\ written' = [written EXCEPT ![t] = 0] /\ updates' = [updates EXCEPT ![t] = 0]
        /\ Done(p)
        /\ UNCHANGED <<tree, cache, panicked, overlap, gone, ops>>

\* Mutant: the removal is acknowledged and forgotten.
RemoveRecordsKept(p) ==
    /\ At(p, "remove")
    /\ written' = [written EXCEPT ![proc[p].time] = 0]
    /\ Done(p)
    /\ UNCHANGED <<memory, updates, overlap, panicked, gone, ops>>

\* BlockManager::remove_records, by the id of the block, in another lock: the
\* records left move to the front of a new data file; an empty block goes.
RemoveRecords(p) ==
    LET b == proc[p].id
        t == proc[p].time
        old == blocks[cache[b]].recs
        left == Without(old, t)
        at(u) == PlaceIn(DOMAIN left, u)
    IN  /\ At(p, "remove")
        /\ IF cache[b] = 0 THEN UNCHANGED <<memory, written, updates>>
           ELSE /\ blocks' = [blocks EXCEPT ![cache[b]].recs =
                                [u \in DOMAIN left |-> [left[u] EXCEPT !.begin = at(u)]]]
                /\ IF left = <<>> THEN RemoveBlock(b)
                   ELSE /\ data' = [data EXCEPT ![b] = [i \in Places |->
                               IF \E u \in DOMAIN left : at(u) = i
                               THEN @[left[CHOOSE u \in DOMAIN left : at(u) = i].begin] ELSE 0]]
                        /\ UNCHANGED <<tree, cache>>
                /\ written' = [written EXCEPT ![t] = 0] /\ updates' = [updates EXCEPT ![t] = 0]
        /\ Done(p)
        /\ UNCHANGED <<panicked, overlap, gone, ops>>

\* try_remove_oldest_block: the id is read, the lock released and taken again.
FindOldest(p) ==
    /\ Starts(p, "evict") /\ tree # {}
    /\ Goto(p, [Rest EXCEPT !.pc = "evict", !.id = Min(tree)])
    /\ UNCHANGED <<memory, panicked, history>>

RemoveOldest(p) ==
    LET b == proc[p].id
        lost == IF cache[b] = 0 THEN {} ELSE DOMAIN blocks[cache[b]].recs
    IN  /\ At(p, "evict")
        /\ RemoveBlock(b)
        /\ written' = [t \in Timestamp |-> IF t \in lost THEN 0 ELSE written[t]]
        /\ updates' = [t \in Timestamp |-> IF t \in lost THEN 0 ELSE updates[t]]
        /\ gone' = gone \union lost
        /\ Done(p)
        /\ UNCHANGED <<blocks, panicked, overlap, ops>>

-----------------------------------------------------------------------------
(* update_labels *)

\* The record is looked up and cloned.
FindUpdate(p, t) ==
    LET b == find_block(t)
        recs == blocks[cache[b]].recs
        found == b # 0 /\ t \in DOMAIN recs
    IN  /\ Starts(p, "update")
        /\ scenario.distinct => \A q \in Proc : proc[q].time = t => proc[q].pc = "update"
        /\ overlap' = IF \E q \in Proc : proc[q].pc = "update" /\ proc[q].time = t
                      THEN overlap \union {t} ELSE overlap
        /\ IF found THEN Goto(p, [pc |-> "update", time |-> t, ref |-> 0, id |-> b, rec |-> recs[t]])
                    ELSE Done(p)
        /\ UNCHANGED <<memory, panicked, written, updates, gone>>

\* Mutant: the update is acknowledged and forgotten.
UpdateRecordsNot(p) ==
    /\ At(p, "update")
    /\ updates' = [updates EXCEPT ![proc[p].time] = @ + 1]
    /\ Done(p)
    /\ UNCHANGED <<memory, panicked, written, overlap, gone, ops>>

\* update_records, in another lock: the whole clone takes the record's place.
UpdateRecords(p) ==
    LET r == cache[proc[p].id]
        t == proc[p].time
    IN  /\ At(p, "update")
        /\ IF r = 0 THEN UNCHANGED <<blocks, updates>>
           ELSE /\ Insert(r, t, [proc[p].rec EXCEPT !.labels = @ + 1])
                /\ updates' = [updates EXCEPT ![t] = @ + 1]
        /\ Done(p)
        /\ UNCHANGED <<tree, cache, data, panicked, written, overlap, gone, ops>>

-----------------------------------------------------------------------------
Step(p) ==
    \/ \E t \in Timestamp : BeginWrite(p, t) \/ FindRemove(p, t) \/ FindUpdate(p, t)
    \/ CheckBelated(p) \/ FindBelated(p) \/ CheckExists(p) \/ Overwrite(p)
    \/ CheckRoom(p) \/ Rotate(p) \/ Prepare(p) \/ NewWriter(p) \/ ContentSize(p) \/ Receive(p)
    \/ FinishWrite(p)
    \/ RemoveRecords(p) \/ FindOldest(p) \/ RemoveOldest(p) \/ UpdateRecords(p)

Next == \E p \in Proc : Step(p)

Spec == Init /\ [][Next]_vars

-----------------------------------------------------------------------------
(* Properties *)

\* Types: references point to objects and the index to cached blocks.
TypeOK ==
    /\ \A i \in 1..Len(blocks) : blocks[i].id \in Timestamp /\ DOMAIN blocks[i].recs \subseteq Timestamp
    /\ tree \subseteq Timestamp /\ \A b \in tree : cache[b] \in 1..Len(blocks) /\ blocks[cache[b]].id = b
    /\ \A p \in Proc : proc[p].ref \in 0..Len(blocks)
    /\ panicked \in BOOLEAN /\ overlap \union gone \subseteq Timestamp /\ ops \in 0..scenario.maxOps

\* A record whose write was acknowledged, and that nobody removed, can be read
\* back with its content once nobody is at work.
WrittenIsReadable ==
    Quiet => \A t \in Timestamp \ gone : written[t] > 0 => Read(t) = t

\* A record that was not written, or was removed, cannot be read.
RemovedIsGone ==
    Quiet => \A t \in Timestamp : written[t] = 0 => Read(t) = 0

\* Every acknowledged update of a record is in its labels, although it replaces the
\* whole record by a clone made under an earlier lock, with updates and writes of
\* other records of the block in between.  Updates of one record that overlap are
\* excepted: each clone lacks what the others changed, and only the last is sure to be
\* there, although all are acknowledged (update_labels).
UpdatesAreKept ==
    Quiet => \A t \in Timestamp \ gone :
        Read(t) # 0 =>
           LET labels == blocks[cache[find_block(t)]].recs[t].labels
           IN  labels = updates[t] \/ (t \in overlap /\ labels \in 1..updates[t])

\* Two records of a block never share a place in its data file, and a record
\* is in one block only, whoever is at work.
PlacesAreDisjoint ==
    /\ \A b \in tree : LET recs == blocks[cache[b]].recs
                       IN  \A t, u \in DOMAIN recs : t # u => recs[t].begin # recs[u].begin
    /\ \A b, c \in tree : b # c =>
           DOMAIN blocks[cache[b]].recs \intersect DOMAIN blocks[cache[c]].recs = {}

\* update_labels returns "an error if the record was not found": an update
\* brings no record into a block.
UpdateInsertsNothing ==
    [][\A p \in Proc : UpdateRecords(p) =>
          \A i \in 1..Len(blocks) : DOMAIN blocks'[i].recs = DOMAIN blocks[i].recs]_vars

=============================================================================
