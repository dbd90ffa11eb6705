--------------------------- MODULE TransactionLog ---------------------------
(***************************************************************************)
(* The replication transaction log of one entry                            *)
(* (reductstore/src/replication/transaction_log.rs): a ring buffer in a    *)
(* file, with the write and the read position in the file's header and     *)
(* cached in memory.                                                       *)
(*                                                                         *)
(* Every write to the file is a step of its own, so that a crash of the    *)
(* process can fall between any two of them.  What was written before the  *)
(* crash stays in the file (the page cache outlives the process; loss of   *)
(* power is not modelled).  Each operation runs under the log's write lock *)
(* and is therefore interrupted by nothing but a crash.                    *)
(*                                                                         *)
(* Positions are counted in entries after the header: position p stands    *)
(* for byte HEADER_SIZE + p * ENTRY_SIZE, and capacity c for a file of     *)
(* HEADER_SIZE + c * ENTRY_SIZE bytes.                                     *)
(***************************************************************************)
EXTENDS Integers, Sequences

CONSTANTS
    Transaction,    \* the transactions that can be logged
    NoTransaction,  \* what a zero-filled slot or an absent result holds
    MaxCapacity,    \* the largest capacity ever configured
    Reconfigure     \* pairs <<old, new>>: the capacity changes a restart may bring

ASSUME TransactionLogAssumption ==
    /\ NoTransaction \notin Transaction
    /\ MaxCapacity \in Nat \ {0}
    /\ Reconfigure \subseteq (1..MaxCapacity) \X (1..MaxCapacity)

VARIABLES
    slots,       \* the entries in the file
    fileState,   \* "absent", "torn" (created, header not written) or "ok"
    fileLen,     \* the length of the file, in entries
    fileWrite,   \* the write position in the header
    fileRead,    \* the read position in the header
    capacity,    \* memory: capacity_in_bytes
    writePos,    \* memory: write_pos
    readPos,     \* memory: read_pos
    pc,          \* the operation under way
    toPop,       \* pops that pop_front still has to do
    configured,  \* the transaction_log_size of the running configuration
    evicted      \* the transaction the last push_back returned

file == <<slots, fileState, fileLen, fileWrite, fileRead>>
memory == <<capacity, writePos, readPos>>
vars == <<file, memory, pc, toPop, configured, evicted>>

Slot == 0..(MaxCapacity - 1)
Empty == [s \in Slot |-> NoTransaction]

-----------------------------------------------------------------------------
(* Positions *)

\* Mutant: wraps one entry late.
AdvanceLate(p, c) == IF p + 1 > c THEN 0 ELSE p + 1

\* The next position of a ring of c entries: the wrap at the end of the file.
Advance(p, c) == IF p + 1 >= c THEN 0 ELSE p + 1

\* Mutant: forgets the wrap.
lenUnwrapped == IF readPos <= writePos THEN writePos - readPos ELSE readPos - writePos

\* TransactionLog::len
len == IF readPos <= writePos THEN writePos - readPos
                              ELSE capacity - readPos + writePos

is_empty == readPos = writePos

\* Mutant: does not stop at the write position.
unsafe_headUnbounded(n) ==
    LET at[i \in 0..n] == IF i = 0 THEN readPos ELSE Advance(at[i - 1], capacity)
    IN  [i \in 1..n |-> slots[at[i - 1]]]

\* The loop of unsafe_head: the positions it reads for n entries, stopping
\* after the one whose successor is the write position.
unsafe_head(n) ==
    LET at[i \in 0..n] == IF i = 0 THEN readPos ELSE Advance(at[i - 1], capacity)
        stop == {i \in 1..n : at[i] = writePos}
        m == IF stop = {} THEN n ELSE CHOOSE i \in stop : \A j \in stop : i <= j
    IN  [i \in 1..m |-> slots[at[i - 1]]]

front(n) == IF is_empty THEN <<>> ELSE unsafe_head(n)

-----------------------------------------------------------------------------
(* Creating and loading the file *)

Init ==
    /\ slots = Empty
    /\ fileState = "absent" /\ fileLen = 0 /\ fileWrite = 0 /\ fileRead = 0
    /\ capacity = 0 /\ writePos = 0 /\ readPos = 0
    /\ pc = "down" /\ toPop = 0 /\ evicted = NoTransaction
    /\ configured \in {r[1] : r \in Reconfigure}

\* try_load_or_create, no file: created and sized, the header still zero.
CreateFile ==
    /\ pc = "down" /\ fileState = "absent"
    /\ fileState' = "torn" /\ fileLen' = configured
    /\ slots' = Empty /\ fileWrite' = 0 /\ fileRead' = 0
    /\ pc' = "create"
    /\ UNCHANGED <<memory, toPop, configured, evicted>>

\* try_load_or_create, no file: both positions written to the header.
WriteHeader ==
    /\ pc = "create"
    /\ fileState' = "ok"
    /\ capacity' = configured /\ writePos' = 0 /\ readPos' = 0
    /\ pc' = "idle"
    /\ UNCHANGED <<slots, fileLen, fileWrite, fileRead, toPop, configured, evicted>>

\* integrity_check.  A torn header fails it: its positions are zero bytes,
\* below HEADER_SIZE.
integrity_check ==
    /\ fileState = "ok"
    /\ fileWrite < fileLen
    /\ fileRead < fileLen

\* set_len: the file is cut, or extended by zeros.
Resized(c) == [s \in Slot |-> IF s < fileLen /\ s < c THEN slots[s] ELSE NoTransaction]

\* Mutant: resizes a log that is not empty.
LoadResizing ==
    /\ pc = "down" /\ integrity_check
    /\ writePos' = fileWrite /\ readPos' = fileRead
    /\ capacity' = configured /\ fileLen' = configured /\ slots' = Resized(configured)
    /\ pc' = "idle"
    /\ UNCHANGED <<fileState, fileWrite, fileRead, toPop, configured, evicted>>

\* try_load_or_create, existing file: the positions come from the header, and
\* the capacity follows the configuration if the log is empty.
Load ==
    /\ pc = "down" /\ integrity_check
    /\ writePos' = fileWrite /\ readPos' = fileRead
    /\ IF configured # fileLen /\ fileRead = fileWrite
          THEN capacity' = configured /\ fileLen' = configured /\ slots' = Resized(configured)
          ELSE capacity' = fileLen /\ UNCHANGED <<fileLen, slots>>
    /\ pc' = "idle"
    /\ UNCHANGED <<fileState, fileWrite, fileRead, toPop, configured, evicted>>

\* load_or_recreate_transaction_log: a file that does not load is removed, and
\* created again.
RemoveBroken ==
    /\ pc = "down" /\ fileState # "absent" /\ ~integrity_check
    /\ fileState' = "absent" /\ fileLen' = 0 /\ slots' = Empty
    /\ fileWrite' = 0 /\ fileRead' = 0
    /\ UNCHANGED <<memory, pc, toPop, configured, evicted>>

-----------------------------------------------------------------------------
(* push_back and pop_front *)

\* push_back: the entry is written at the write position, which advances in
\* memory.  A write past the end of the file extends the file.
PushEntry(t) ==
    /\ pc = "idle"
    /\ slots' = [slots EXCEPT ![writePos] = t]
    /\ fileLen' = IF writePos < fileLen THEN fileLen ELSE writePos + 1
    /\ writePos' = Advance(writePos, capacity)
    /\ evicted' = NoTransaction
    /\ pc' = "header"
    /\ UNCHANGED <<fileState, fileWrite, fileRead, capacity, readPos, toPop, configured>>

\* Mutant: a full log evicts nothing.
PushHeaderOnly ==
    /\ pc = "header"
    /\ fileWrite' = writePos
    /\ pc' = "idle"
    /\ UNCHANGED <<slots, fileState, fileLen, fileRead, memory, toPop, configured, evicted>>

\* push_back: the write position reaches the header.  It meets the read
\* position when the log is full.
PushHeader ==
    /\ pc = "header"
    /\ fileWrite' = writePos
    /\ pc' = IF writePos = readPos THEN "evict" ELSE "idle"
    /\ UNCHANGED <<slots, fileState, fileLen, fileRead, memory, toPop, configured, evicted>>

\* push_back on a full log: the oldest transaction is popped and returned.
PushEvict ==
    /\ pc = "evict"
    /\ evicted' = slots[readPos]
    /\ readPos' = Advance(readPos, capacity)
    /\ fileRead' = readPos'
    /\ pc' = "idle"
    /\ UNCHANGED <<slots, fileState, fileLen, fileWrite, capacity, writePos, toPop, configured>>

\* pop_front(n) is called.
PopFront(n) ==
    /\ pc = "idle"
    /\ toPop' = n
    /\ pc' = "pop"
    /\ UNCHANGED <<file, memory, configured, evicted>>

\* One turn of pop_front's loop: unsafe_pop advances the read position in
\* memory and in the header; the loop ends early when the log is empty.
PopOne ==
    /\ pc = "pop" /\ toPop > 0 /\ ~is_empty
    /\ readPos' = Advance(readPos, capacity)
    /\ fileRead' = readPos'
    /\ toPop' = toPop - 1
    /\ UNCHANGED <<slots, fileState, fileLen, fileWrite, capacity, writePos, pc, configured, evicted>>

PopDone ==
    /\ pc = "pop" /\ (toPop = 0 \/ is_empty)
    /\ toPop' = 0
    /\ pc' = "idle"
    /\ UNCHANGED <<file, memory, configured, evicted>>

\* The process dies between two writes and is started again, perhaps with
\* another transaction_log_size.
Crash ==
    /\ pc # "down"
    /\ pc' = "down" /\ toPop' = 0 /\ evicted' = NoTransaction
    /\ capacity' = 0 /\ writePos' = 0 /\ readPos' = 0
    /\ \E r \in Reconfigure : r[1] = configured /\ configured' = r[2]
    /\ UNCHANGED file

Next ==
    \/ CreateFile \/ WriteHeader \/ Load \/ RemoveBroken
    \/ \E t \in Transaction : PushEntry(t)
    \/ PushHeader \/ PushEvict
    \/ \E n \in 1..MaxCapacity : PopFront(n)
    \/ PopOne \/ PopDone
    \/ Crash

Spec == Init /\ [][Next]_vars

-----------------------------------------------------------------------------
(* The queue the file stands for *)

\* The n entries from position r on, in a ring of c slots.
Ring(entries, r, n, c) ==
    [i \in 1..n |-> entries[IF r + i - 1 < c THEN r + i - 1 ELSE r + i - 1 - c]]

FilePending == IF fileRead <= fileWrite THEN fileWrite - fileRead
                                        ELSE fileLen - fileRead + fileWrite

\* What a restart would find in the file.  While a push to a full log is
\* between its two header writes the file reads as empty; the queue is then
\* still the one before the push.
Pending ==
    IF fileState # "ok" THEN <<>>
    ELSE IF pc = "evict" THEN Ring(slots, readPos, fileLen - 1, fileLen)
    ELSE Ring(slots, fileRead, FilePending, fileLen)

Bound == IF fileState = "absent" THEN 0 ELSE fileLen - 1

Running == pc # "down"

Fifo == INSTANCE BoundedFifo WITH queue <- Pending, bound <- Bound, running <- Running

-----------------------------------------------------------------------------
(* Properties *)

\* As long as the configured size is never lowered: the header positions lie
\* inside the file, memory agrees with the header except for the write position
\* inside push_back, and the two positions of a running log lie inside its
\* capacity.
PositionsInv ==
    /\ slots \in [Slot -> Transaction \union {NoTransaction}]
    /\ fileState \in {"absent", "torn", "ok"}
    /\ fileLen \in 0..MaxCapacity /\ configured \in 1..MaxCapacity
    /\ fileLen <= configured
    /\ pc \in {"down", "create", "idle", "header", "evict", "pop"}
    /\ toPop \in 0..MaxCapacity
    /\ evicted \in Transaction \union {NoTransaction}
    /\ capacity \in 0..MaxCapacity /\ writePos \in Slot /\ readPos \in Slot
    /\ fileWrite \in Slot /\ fileRead \in Slot
    /\ fileState = "ok" => fileWrite < fileLen /\ fileRead < fileLen
    /\ fileState = "torn" => fileLen > 0
    /\ fileState # "ok" => fileWrite = 0 /\ fileRead = 0
    /\ pc = "create" => fileState = "torn" /\ fileLen = configured
    /\ pc \in {"idle", "header", "evict", "pop"} =>
        /\ fileState = "ok" /\ capacity = fileLen
        /\ readPos = fileRead
        /\ writePos = IF pc = "header" THEN Advance(fileWrite, capacity) ELSE fileWrite
    /\ pc = "evict" => readPos = writePos

\* The configured size is never lowered.
GrowOnly == \A r \in Reconfigure : r[1] <= r[2]

\* Every position between the read and the write position was written by a
\* push: the log never serves the zero bytes of a fresh or grown file, which
\* decode as a write of the record at time 0.
ServesOnlyPushed == \A i \in DOMAIN Pending : Pending[i] \in Transaction

\* len() is the number of transactions front() can return, as long as the
\* configured size is never lowered: an emptied log that is cut below its
\* positions makes the unsigned subtraction of len() wrap around.
LenCountsPending == pc = "idle" => len = Len(front(MaxCapacity))

\* front(n) is the n oldest pending transactions, in their order, for every n
\* the sender may ask for.
FrontIsOldest ==
    pc = "idle" => \A n \in 1..MaxCapacity :
        front(n) = SubSeq(Pending, 1, IF n < Len(Pending) THEN n ELSE Len(Pending))

\* The log is a bounded queue: no reordering, no duplicate, no loss but that of
\* the oldest on overflow and that of a crash of a full log, which the file has
\* in one window, between the two header writes of an overflowing push.
ImplementsFifo == Fifo!Spec

=============================================================================
