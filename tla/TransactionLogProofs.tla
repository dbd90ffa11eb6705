------------------------ MODULE TransactionLogProofs ------------------------
(* Proofs about TransactionLog, for every capacity and every set of transactions. *)
EXTENDS TransactionLog, TLAPS

USE TransactionLogAssumption

-----------------------------------------------------------------------------
(* PositionsInv is inductive. *)

LEMMA PositionsInit == Init /\ GrowOnly => PositionsInv
<1> SUFFICES ASSUME Init, GrowOnly PROVE PositionsInv
  OBVIOUS
<1>1. configured \in 1..MaxCapacity
  BY DEF Init
<1>2. Empty \in [Slot -> Transaction \union {NoTransaction}]
  BY DEF Empty
<1> QED
  BY <1>1, <1>2 DEF Init, PositionsInv, Slot

LEMMA PositionsStep == PositionsInv /\ GrowOnly /\ [Next]_vars => PositionsInv'
<1> SUFFICES ASSUME PositionsInv, GrowOnly, [Next]_vars PROVE PositionsInv'
  OBVIOUS
<1> USE DEF PositionsInv, Slot, Advance, file, memory
<1>1. CASE CreateFile
  BY <1>1 DEF CreateFile, Empty
<1>2. CASE WriteHeader
  BY <1>2 DEF WriteHeader
<1>3. CASE Load
  <2>1. slots' \in [Slot -> Transaction \union {NoTransaction}]
    BY <1>3 DEF Load, Resized
  <2> QED
    BY <1>3, <2>1 DEF Load, integrity_check
<1>4. CASE RemoveBroken
  BY <1>4 DEF RemoveBroken, Empty
<1>5. ASSUME NEW t \in Transaction, PushEntry(t) PROVE PositionsInv'
  BY <1>5 DEF PushEntry
<1>6. CASE PushHeader
  BY <1>6 DEF PushHeader
<1>7. CASE PushEvict
  BY <1>7 DEF PushEvict
<1>8. ASSUME NEW n \in 1..MaxCapacity, PopFront(n) PROVE PositionsInv'
  BY <1>8 DEF PopFront
<1>9. CASE PopOne
  BY <1>9 DEF PopOne
<1>10. CASE PopDone
  BY <1>10 DEF PopDone
<1>11. CASE Crash
  BY <1>11 DEF Crash, GrowOnly
<1>12. CASE UNCHANGED vars
  BY <1>12 DEF vars
<1> QED
  BY <1>1, <1>2, <1>3, <1>4, <1>5, <1>6, <1>7, <1>8, <1>9, <1>10, <1>11, <1>12 DEF Next

\* Whatever the capacities, and however pushes, pops and crashes interleave, the
\* positions of push_back, pop_front and try_load_or_create stay inside the file
\* and integrity_check never rejects a log that was created completely, as long
\* as transaction_log_size is never lowered.
THEOREM PositionsAlwaysValid ==
    ASSUME GrowOnly
    PROVE  Spec => []PositionsInv
<1>1. Init => PositionsInv
  BY PositionsInit, GrowOnly
<1>2. PositionsInv /\ [Next]_vars => PositionsInv'
  BY PositionsStep, GrowOnly
<1> QED
  BY <1>1, <1>2, PTL DEF Spec

-----------------------------------------------------------------------------
(* The slots between the positions hold transactions. *)

\* Position p lies between the read and the write position of the header.
Live(p) == IF fileRead <= fileWrite THEN fileRead <= p /\ p < fileWrite
                                    ELSE (fileRead <= p /\ p < fileLen) \/ p < fileWrite

\* The strengthening of ServesOnlyPushed: inside push_back, the slot that the
\* next header write will make live, or the whole ring, is written already.
WrittenInv ==
    /\ fileState = "ok" => \A p \in Slot : Live(p) => slots[p] \in Transaction
    /\ pc = "header" => slots[fileWrite] \in Transaction
    /\ pc = "evict" => \A p \in Slot : p < fileLen => slots[p] \in Transaction

LEMMA WrittenStep ==
    ASSUME PositionsInv, PositionsInv', WrittenInv, [Next]_vars
    PROVE  WrittenInv'
<1> USE DEF PositionsInv, WrittenInv, Live, Slot, Advance, file, memory
<1>1. CASE CreateFile
  BY <1>1 DEF CreateFile
<1>2. CASE WriteHeader
  BY <1>2 DEF WriteHeader
<1>3. CASE Load
  BY <1>3 DEF Load, Resized
<1>4. CASE RemoveBroken
  BY <1>4 DEF RemoveBroken
<1>5. ASSUME NEW t \in Transaction, PushEntry(t) PROVE WrittenInv'
  BY <1>5 DEF PushEntry
<1>6. CASE PushHeader
  BY <1>6 DEF PushHeader
<1>7. CASE PushEvict
  BY <1>7 DEF PushEvict
<1>8. ASSUME NEW n \in 1..MaxCapacity, PopFront(n) PROVE WrittenInv'
  BY <1>8 DEF PopFront
<1>9. CASE PopOne
  BY <1>9 DEF PopOne, is_empty
<1>10. CASE PopDone
  BY <1>10 DEF PopDone
<1>11. CASE Crash
  BY <1>11 DEF Crash
<1>12. CASE UNCHANGED vars
  BY <1>12 DEF vars
<1> QED
  BY <1>1, <1>2, <1>3, <1>4, <1>5, <1>6, <1>7, <1>8, <1>9, <1>10, <1>11, <1>12 DEF Next

LEMMA WrittenServes ==
    ASSUME PositionsInv, WrittenInv
    PROVE  ServesOnlyPushed
<1> USE DEF PositionsInv, WrittenInv, Slot
<1>1. CASE fileState # "ok"
  BY <1>1 DEF ServesOnlyPushed, Pending
<1>2. CASE fileState = "ok" /\ pc = "evict"
  BY <1>2 DEF ServesOnlyPushed, Pending, Ring
<1>3. CASE fileState = "ok" /\ pc # "evict"
  BY <1>3 DEF ServesOnlyPushed, Pending, Ring, FilePending, Live
<1> QED
  BY <1>1, <1>2, <1>3

\* front() never returns the zero bytes of a slot no push has written: neither a
\* wrap, nor a crash inside a push, nor growing the file exposes one.
THEOREM OnlyPushedIsServed ==
    ASSUME GrowOnly
    PROVE  Spec => []ServesOnlyPushed
<1>1. Init => WrittenInv
  BY DEF Init, WrittenInv
<1>2. PositionsInv /\ PositionsInv' /\ WrittenInv /\ [Next]_vars => WrittenInv'
  BY WrittenStep
<1>3. PositionsInv /\ WrittenInv => ServesOnlyPushed
  BY WrittenServes
<1>4. Spec => []PositionsInv
  BY PositionsAlwaysValid, GrowOnly
<1> QED
  BY <1>1, <1>2, <1>3, <1>4, PTL DEF Spec

-----------------------------------------------------------------------------
(* The log implements BoundedFifo. *)

LEMMA RingSeq ==
    ASSUME NEW S, NEW e \in [Slot -> S], NEW c \in 0..MaxCapacity,
           NEW r \in Nat, r < c, NEW n \in 0..c
    PROVE  Ring(e, r, n, c) \in Seq(S) /\ Len(Ring(e, r, n, c)) = n
  BY DEF Ring, Slot

\* Writing the slot after the last entry extends the ring by that slot.
LEMMA RingAppend ==
    ASSUME NEW S, NEW e \in [Slot -> S], NEW c \in 0..MaxCapacity,
           NEW r \in Nat, r < c, NEW n \in Nat, n < c
    PROVE  Ring(e, r, n + 1, c) =
             Append(Ring(e, r, n, c), e[IF r + n < c THEN r + n ELSE r + n - c])
<1> DEFINE x == Ring(e, r, n, c)
           y == Ring(e, r, n + 1, c)
           v == e[IF r + n < c THEN r + n ELSE r + n - c]
<1>1. x \in Seq(S) /\ Len(x) = n
  BY DEF Ring, Slot
<1>2. y \in Seq(S) /\ Len(y) = n + 1
  BY DEF Ring, Slot
<1>3. v \in S
  BY DEF Slot
<1>4. \A i \in 1..n : y[i] = x[i]
  BY DEF Ring
<1>5. y[n + 1] = v
  BY DEF Ring
<1> HIDE DEF x, y, v
<1>6. y = Append(x, v)
  BY <1>1, <1>2, <1>3, <1>4, <1>5
<1> QED
  BY <1>6 DEF x, y, v

\* Advancing the start of the ring drops its first entry.
LEMMA RingTail ==
    ASSUME NEW S, NEW e \in [Slot -> S], NEW c \in 0..MaxCapacity,
           NEW r \in Nat, r < c, NEW n \in 1..c
    PROVE  Ring(e, Advance(r, c), n - 1, c) = Tail(Ring(e, r, n, c))
<1> DEFINE x == Ring(e, r, n, c)
           y == Ring(e, Advance(r, c), n - 1, c)
<1>1. x \in Seq(S) /\ Len(x) = n
  BY DEF Ring, Slot
<1>2. y \in Seq(S) /\ Len(y) = n - 1
  BY DEF Ring, Slot, Advance
<1>3. \A i \in 1..(n - 1) : y[i] = x[i + 1]
  BY DEF Ring, Advance
<1> HIDE DEF x, y
<1>4. y = Tail(x)
  BY <1>1, <1>2, <1>3
<1> QED
  BY <1>4 DEF x, y

Contents == Transaction \union {NoTransaction}

\* push_back's header write: it appends the entry, or, on a full log, leaves the
\* queue as it was until the oldest entry is popped.
LEMMA PushHeaderRefines ==
    ASSUME PositionsInv, WrittenInv, PushHeader
    PROVE  [Fifo!Next]_(Fifo!vars)
<1> DEFINE n == FilePending
           t == slots[fileWrite]
<1>1. /\ slots \in [Slot -> Contents] /\ fileLen \in 0..MaxCapacity
      /\ fileRead \in Nat /\ fileRead < fileLen /\ n \in Nat /\ n < fileLen
      /\ fileState = "ok" /\ fileState' = "ok" /\ readPos = fileRead
  BY DEF PositionsInv, PushHeader, FilePending, Slot, Contents
<1>2. t \in Transaction
  BY DEF PushHeader, WrittenInv
<1>3. Pending = Ring(slots, fileRead, n, fileLen)
  BY <1>1 DEF Pending, PushHeader
<1>4. Len(Pending) = n
  BY <1>1, <1>3, RingSeq
<1>5. Bound' = Bound /\ Bound = fileLen - 1 /\ Running' = TRUE /\ Running = TRUE
  BY <1>1 DEF PushHeader, Bound, Running
<1>6. CASE writePos = readPos
  <2>1. n = fileLen - 1
    BY <1>6 DEF PositionsInv, PushHeader, FilePending, Slot, Advance
  <2>2. Pending' = Ring(slots, fileRead, fileLen - 1, fileLen)
    BY <1>1, <1>6 DEF PushHeader, Pending, memory
  <2>3. Pending' = Pending
    BY <2>1, <2>2, <1>3
  <2> QED
    BY <1>5, <2>3 DEF Fifo!vars
<1>7. CASE writePos # readPos
  <2>1. FilePending' = n + 1 /\ n < Bound
    BY <1>5, <1>7 DEF PositionsInv, PushHeader, FilePending, Slot, Advance
  <2>2. Pending' = Ring(slots, fileRead, n + 1, fileLen)
    BY <1>1, <1>7, <2>1 DEF PushHeader, Pending, memory
  <2>3. fileWrite = IF fileRead + n < fileLen THEN fileRead + n ELSE fileRead + n - fileLen
    BY DEF PositionsInv, FilePending, Slot, PushHeader
  <2> HIDE DEF n
  <2>4. Ring(slots, fileRead, n + 1, fileLen) = Append(Ring(slots, fileRead, n, fileLen), t)
    <3>1. Ring(slots, fileRead, n + 1, fileLen) =
            Append(Ring(slots, fileRead, n, fileLen),
                   slots[IF fileRead + n < fileLen THEN fileRead + n ELSE fileRead + n - fileLen])
      BY ONLY <1>1, RingAppend, Zenon
    <3> QED
      BY <2>3, <3>1
  <2>5. Pending' = Append(Pending, t)
    BY <2>2, <2>4, <1>3
  <2> QED
    BY <1>2, <1>4, <1>5, <2>1, <2>5 DEF Fifo!Next, Fifo!Push
<1> QED
  BY <1>6, <1>7

\* push_back's eviction: together with the header write, the push on a full log.
LEMMA PushEvictRefines ==
    ASSUME PositionsInv, WrittenInv, PushEvict
    PROVE  [Fifo!Next]_(Fifo!vars)
<1> DEFINE n == fileLen - 1
           l == IF readPos + n < fileLen THEN readPos + n ELSE readPos + n - fileLen
           t == slots[l]
           q == Ring(slots, readPos, n, fileLen)
<1>1. /\ slots \in [Slot -> Contents] /\ fileLen \in 0..MaxCapacity
      /\ readPos \in Nat /\ readPos < fileLen /\ n \in Nat /\ n < fileLen
      /\ fileState = "ok" /\ fileState' = "ok" /\ capacity = fileLen
  BY DEF PositionsInv, PushEvict, Slot, Contents
<1>2. t \in Transaction
  BY <1>1 DEF PositionsInv, WrittenInv, PushEvict, Slot
<1>3. Pending = q /\ Len(Pending) = n
  <2>1. Pending = q
    BY <1>1 DEF Pending, PushEvict
  <2>2. n \in 0..fileLen
    BY <1>1
  <2> HIDE DEF n
  <2>3. Len(q) = n
    BY <1>1, <2>2, RingSeq
  <2> QED
    BY <2>1, <2>3
<1>4. FilePending' = n /\ fileRead' = Advance(readPos, fileLen)
  BY <1>1 DEF PositionsInv, PushEvict, FilePending, Slot, Advance
<1>5. Pending' = Ring(slots, Advance(readPos, fileLen), n, fileLen)
  BY <1>1, <1>4 DEF PushEvict, Pending
<1>6. Bound' = Bound /\ Bound = n /\ Running' = TRUE /\ Running = TRUE
  BY <1>1 DEF PushEvict, Bound, Running
<1> HIDE DEF n
<1>7. Ring(slots, readPos, n + 1, fileLen) = Append(q, t)
  <2>1. Ring(slots, readPos, n + 1, fileLen) =
          Append(Ring(slots, readPos, n, fileLen),
                 slots[IF readPos + n < fileLen THEN readPos + n ELSE readPos + n - fileLen])
    BY <1>1, RingAppend
  <2> QED
    BY <2>1
<1>8. Ring(slots, Advance(readPos, fileLen), n, fileLen) = Tail(Ring(slots, readPos, n + 1, fileLen))
  <2> DEFINE m == n + 1
  <2>1. m \in 1..fileLen /\ m - 1 = n
    BY <1>1
  <2> HIDE DEF m
  <2>2. Ring(slots, Advance(readPos, fileLen), m - 1, fileLen) = Tail(Ring(slots, readPos, m, fileLen))
    BY <1>1, <2>1, RingTail
  <2> QED
    BY <2>1, <2>2 DEF m
<1>9. Pending' = Tail(Append(Pending, t))
  BY <1>3, <1>5, <1>7, <1>8
<1> QED
  BY <1>2, <1>3, <1>6, <1>9, <1>1 DEF Fifo!Next, Fifo!Push

\* One turn of pop_front's loop pops the queue.
LEMMA PopOneRefines ==
    ASSUME PositionsInv, PopOne
    PROVE  [Fifo!Next]_(Fifo!vars)
<1> DEFINE n == FilePending
<1>1. /\ slots \in [Slot -> Contents] /\ fileLen \in 0..MaxCapacity
      /\ fileRead \in Nat /\ fileRead < fileLen /\ n \in 1..fileLen
      /\ fileState = "ok" /\ fileState' = "ok" /\ readPos = fileRead /\ capacity = fileLen
  BY DEF PositionsInv, PopOne, FilePending, Slot, Contents, is_empty
<1>2. Pending = Ring(slots, fileRead, n, fileLen)
  BY <1>1 DEF Pending, PopOne
<1>3. FilePending' = n - 1
  BY DEF PositionsInv, PopOne, FilePending, Slot, Advance, is_empty
<1>4. Pending' = Ring(slots, Advance(fileRead, fileLen), n - 1, fileLen)
  BY <1>1, <1>3 DEF PopOne, Pending
<1> HIDE DEF n
<1>5. Pending' = Tail(Pending)
  BY <1>1, <1>2, <1>4, RingTail
<1>6. Pending # <<>>
  <2>1. Len(Ring(slots, fileRead, n, fileLen)) = n
    BY <1>1, RingSeq
  <2> QED
    BY <1>1, <1>2, <2>1
<1>7. Bound' = Bound /\ Running' = TRUE /\ Running = TRUE
  BY DEF PopOne, Bound, Running
<1> QED
  BY <1>5, <1>6, <1>7 DEF Fifo!Next, Fifo!Pop

\* Loading a log: nothing changes, or an empty one is resized.
LEMMA LoadRefines ==
    ASSUME PositionsInv, Load
    PROVE  [Fifo!Next]_(Fifo!vars)
<1>1. /\ fileState = "ok" /\ fileState' = "ok" /\ pc = "down" /\ pc' = "idle"
      /\ Running = FALSE /\ Running' = TRUE
  BY DEF Load, integrity_check, Running
<1>2. CASE configured # fileLen /\ fileRead = fileWrite
  <2>1. Pending = <<>>
    BY <1>1, <1>2 DEF PositionsInv, Pending, Ring, FilePending, Slot
  <2>2. Pending' = <<>>
    BY <1>1, <1>2 DEF PositionsInv, Pending, Ring, FilePending, Slot, Load
  <2>3. Bound' \in Nat
    BY <1>1, <1>2 DEF PositionsInv, Load, Bound
  <2> QED
    BY <1>1, <2>1, <2>2, <2>3 DEF Fifo!Next, Fifo!Resize
<1>3. CASE ~(configured # fileLen /\ fileRead = fileWrite)
  <2>1. UNCHANGED file
    BY <1>3 DEF Load, file
  <2>2. UNCHANGED <<Pending, Bound>>
    BY <1>1, <2>1 DEF Pending, FilePending, Bound, file
  <2> QED
    BY <1>1, <2>2 DEF Fifo!Next, Fifo!Restart
<1> QED
  BY <1>2, <1>3

\* A crash leaves the queue alone, unless it falls between the two header writes
\* of a push to a full log.
LEMMA CrashRefines ==
    ASSUME PositionsInv, Crash
    PROVE  [Fifo!Next]_(Fifo!vars)
<1>1. Bound' = Bound /\ Running = TRUE /\ Running' = FALSE
  BY DEF Crash, file, Bound, Running
<1>2. CASE pc = "evict"
  <2>1. /\ slots \in [Slot -> Contents] /\ fileLen \in 0..MaxCapacity
        /\ readPos \in Nat /\ readPos < fileLen /\ fileLen - 1 \in 0..fileLen
        /\ fileState = "ok" /\ fileState' = "ok"
    BY <1>2 DEF PositionsInv, Crash, file, Slot, Contents
  <2>2. Pending = Ring(slots, readPos, fileLen - 1, fileLen)
    BY <1>2, <2>1 DEF Pending
  <2>3. Len(Pending) = Bound
    <3> DEFINE n == fileLen - 1
    <3>1. n \in 0..fileLen
      BY <2>1
    <3> HIDE DEF n
    <3>2. Len(Ring(slots, readPos, n, fileLen)) = n
      BY <2>1, <3>1, RingSeq
    <3> QED
      BY <2>1, <2>2, <3>2 DEF n, Bound
  <2>4. Pending' = <<>>
    BY <1>2, <2>1 DEF PositionsInv, Crash, file, Pending, FilePending, Ring, Slot
  <2> QED
    BY <1>1, <2>3, <2>4 DEF Fifo!Next, Fifo!Crash
<1>3. CASE pc # "evict"
  <2>1. Pending' = Pending
    BY <1>3 DEF Crash, file, Pending, FilePending
  <2> QED
    BY <1>1, <2>1 DEF Fifo!Next, Fifo!Crash
<1> QED
  BY <1>2, <1>3

\* Creating a file and removing a broken one: the queue is empty throughout.
LEMMA CreateRefines ==
    ASSUME PositionsInv, CreateFile \/ WriteHeader \/ RemoveBroken
    PROVE  [Fifo!Next]_(Fifo!vars)
<1>1. Pending = <<>>
  BY DEF PositionsInv, Pending, CreateFile, WriteHeader, RemoveBroken, integrity_check
<1>2. Pending' = <<>>
  BY DEF PositionsInv, Pending, Ring, FilePending, CreateFile, WriteHeader, RemoveBroken
<1>3. CASE CreateFile \/ RemoveBroken
  <2>1. Bound' \in Nat /\ Running = FALSE /\ Running' \in BOOLEAN
    BY <1>3 DEF PositionsInv, Bound, Running, CreateFile, RemoveBroken
  <2> QED
    BY <1>1, <1>2, <2>1 DEF Fifo!Next, Fifo!Resize
<1>4. CASE WriteHeader
  <2>1. Bound' = Bound /\ Running' = Running
    BY <1>4 DEF PositionsInv, Bound, Running, WriteHeader
  <2> QED
    BY <1>1, <1>2, <2>1 DEF Fifo!vars
<1> QED
  BY <1>3, <1>4

\* The steps that change neither the header nor a live entry.
LEMMA StutterRefines ==
    ASSUME PositionsInv,
           \/ \E t \in Transaction : PushEntry(t)
           \/ \E n \in 1..MaxCapacity : PopFront(n)
           \/ PopDone
           \/ UNCHANGED vars
    PROVE  UNCHANGED <<Pending, Bound, Running>>
<1>1. ASSUME NEW t \in Transaction, PushEntry(t) PROVE UNCHANGED <<Pending, Bound, Running>>
  <2>1. /\ fileState = "ok" /\ fileState' = "ok" /\ pc # "evict" /\ pc' # "evict"
        /\ fileLen' = fileLen /\ fileRead' = fileRead /\ FilePending' = FilePending
        /\ fileLen \in 0..MaxCapacity /\ fileRead \in 0..(fileLen - 1) /\ fileWrite \in 0..(fileLen - 1)
    BY <1>1 DEF PositionsInv, PushEntry, FilePending, Slot
  <2> DEFINE at(i) == IF fileRead + i - 1 < fileLen THEN fileRead + i - 1 ELSE fileRead + i - 1 - fileLen
  <2>2. ASSUME NEW i \in 1..FilePending PROVE slots'[at(i)] = slots[at(i)]
    <3>1. at(i) \in Slot /\ at(i) # fileWrite
      BY <2>1 DEF FilePending, Slot
    <3> HIDE DEF at
    <3> QED
      BY <1>1, <3>1 DEF PositionsInv, PushEntry
  <2>3. Pending' = Pending
    BY <2>1, <2>2 DEF Pending, Ring
  <2> QED
    BY <1>1, <2>1, <2>3 DEF Bound, Running, PushEntry
<1>2. ASSUME NEW n \in 1..MaxCapacity, PopFront(n) PROVE UNCHANGED <<Pending, Bound, Running>>
  BY <1>2 DEF PopFront, file, Pending, FilePending, Bound, Running
<1>3. CASE PopDone
  BY <1>3 DEF PopDone, file, Pending, FilePending, Bound, Running
<1>4. CASE UNCHANGED vars
  BY <1>4 DEF vars, file, memory, Pending, FilePending, Bound, Running
<1> QED
  BY <1>1, <1>2, <1>3, <1>4

\* transaction_log.rs is a bounded queue across pushes, pops, wraps, crashes and
\* growing restarts: nothing is reordered, duplicated or lost, but the oldest
\* transaction on overflow, and a full log when the process dies inside a push.
THEOREM LogImplementsFifo ==
    ASSUME GrowOnly
    PROVE  Spec => ImplementsFifo
<1>1. Init => Fifo!Init
  BY DEF Init, Fifo!Init, Pending, Bound, Running
<1>2. PositionsInv /\ WrittenInv /\ [Next]_vars => [Fifo!Next]_(Fifo!vars)
  <2> SUFFICES ASSUME PositionsInv, WrittenInv, [Next]_vars PROVE [Fifo!Next]_(Fifo!vars)
    OBVIOUS
  <2>1. UNCHANGED <<Pending, Bound, Running>> => [Fifo!Next]_(Fifo!vars)
    BY DEF Fifo!vars
  <2> QED
    BY <2>1, PushHeaderRefines, PushEvictRefines, PopOneRefines, LoadRefines, CrashRefines,
       CreateRefines, StutterRefines DEF Next
<1>3. Spec => []PositionsInv
  BY PositionsAlwaysValid, GrowOnly
<1>4. Spec => []WrittenInv
  <2>1. Init => WrittenInv
    BY DEF Init, WrittenInv
  <2>2. PositionsInv /\ PositionsInv' /\ WrittenInv /\ [Next]_vars => WrittenInv'
    BY WrittenStep
  <2> QED
    BY <2>1, <2>2, <1>3, PTL DEF Spec
<1> QED
  BY <1>1, <1>2, <1>3, <1>4, PTL DEF Spec, ImplementsFifo, Fifo!Spec

=============================================================================
