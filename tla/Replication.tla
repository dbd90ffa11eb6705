---------------------------- MODULE Replication -----------------------------
(***************************************************************************)
(* One replication task (reductstore/src/replication/): the notifications  *)
(* of the source bucket, the transaction log of each entry, the worker     *)
(* loop of replication_task.rs, the pipelined sender of                    *)
(* replication_sender.rs and the states of the remote bucket.              *)
(*                                                                         *)
(* A record is known by its entry and timestamp.  Of its labels the model  *)
(* keeps one whose value is a version, 1 when the record is written and    *)
(* one more for every update that sets it, and one ("tag") that is there   *)
(* from the write on until an update removes it.  A transaction log is the *)
(* queue that TransactionLog implements (module BoundedFifo).              *)
(*                                                                         *)
(* The notifying task and the worker share the handles of the logs.  A     *)
(* handle the worker replaces is still good for whoever took it before: it *)
(* keeps its own positions, and what it pushes is overwritten or left out  *)
(* by the log that took its place.  (A process restarted before that may   *)
(* still find such a transaction; the model takes it for lost.)            *)
(***************************************************************************)
EXTENDS Integers, Sequences, FiniteSets, Functions, SequencesExt

CONSTANTS
    EntryOrder,       \* the entries of the source bucket, in the order of their names
    Timestamp,        \* the timestamps written
    MaxUpdates,       \* bound on the updates of a record
    MaxChanges,       \* bound on the writes and updates together
    LogBound,         \* the transactions a log holds before it evicts
    BatchMaxRecords,  \* io_config.batch_max_records
    MaxDisturbances,  \* bound on outages and lost answers of the remote, calls of
                      \* set_mode, failed locks and file operations, and crashes
                      \* of the process, together
    Faults            \* the faults considered: "refuse", "reject", "unreadable", "broken"

ASSUME ReplicationAssumption ==
    /\ IsInjective(EntryOrder) /\ Len(EntryOrder) > 0
    /\ {LogBound, BatchMaxRecords} \subseteq Nat \ {0}
    /\ {MaxUpdates, MaxChanges, MaxDisturbances} \subseteq Nat

Entry == ToSet(EntryOrder)
Mode == {"enabled", "paused", "disabled"}
None == [phase |-> "none"]

\* The labels of a record; ver = 0 where there is no record.
Absent == [ver |-> 0, tag |-> FALSE]
Labels == [ver : 0..(MaxUpdates + 1), tag : BOOLEAN]

VARIABLES
    local,         \* local[e][t]: the labels of the record in the source bucket
    remote,        \* remote[e][t]: the labels the remote bucket holds
    remoteUp,      \* whether the remote answers
    notifications, \* the channel between the repository and its worker
    notifier,      \* the notification being logged, and whether the handle taken
                   \* for it is stale
    log,           \* log[e]: the transaction log the map holds for the entry
    mode,          \* the task's mode
    stopFlag,      \* the task's stop_flag
    pc,            \* where the worker is: "down", "loop", "prepare", "join", "match",
                   \* "finish", "remove" or "create"
    todo,          \* the entries the pass still has to visit
    prepared,      \* the batch prepared and not yet handed over
    send,          \* the send task
    bucket,        \* state of RemoteBucketImpl: "initial", "available", "unavailable"
    waited,        \* whether the unavailable state is older than its timeout
    isActive,      \* the task's is_active flag
    lost,          \* history: records whose latest transaction was given up
    disturbances   \* the disturbances so far

source == <<local, notifications, notifier>>
worker == <<pc, todo, prepared>>
remoteBucket == <<bucket, waited>>
vars == <<source, remote, remoteUp, log, mode, stopFlag, worker, send,
          remoteBucket, isActive, lost, disturbances>>

-----------------------------------------------------------------------------
(* The source bucket and its notifications *)

Init ==
    /\ local = [e \in Entry |-> [t \in Timestamp |-> Absent]]
    /\ remote = [e \in Entry |-> [t \in Timestamp |-> Absent]]
    /\ remoteUp \in BOOLEAN
    /\ notifications = <<>> /\ notifier = None
    /\ log = [e \in Entry |-> <<>>]
    /\ mode \in Mode /\ stopFlag = FALSE
    /\ pc = "down" /\ todo = <<>> /\ prepared = None /\ send = None
    /\ bucket = "initial" /\ waited = FALSE
    /\ isActive = (mode = "enabled")
    /\ lost = {}
    /\ disturbances = 0

\* Something from outside; bounded.
Disturbance ==
    /\ disturbances < MaxDisturbances
    /\ disturbances' = disturbances + 1

\* The updates a record has seen.
Updates(r) == r.ver - 1 + (IF r.tag THEN 0 ELSE 1)

\* The changes of all records so far.
Changes ==
    FoldFunction(LAMBDA rs, n : n + FoldFunction(
                     LAMBDA r, k : k + (IF r = Absent THEN 0 ELSE 1 + Updates(r)), 0, rs),
                 0, local)

\* What a write, the setting of a label and the removal of one make of a record.
Changed(r) ==
    IF r = Absent THEN {[ver |-> 1, tag |-> TRUE]}
    ELSE IF Updates(r) = MaxUpdates THEN {}
    ELSE {[r EXCEPT !.ver = @ + 1], [r EXCEPT !.tag = FALSE]} \ {r}

\* A record is written or its labels are updated, and the change is put on the
\* channel.
LocalChange(e, t) == \E labels \in Changed(local[e][t]) :
    /\ Changes < MaxChanges
    /\ local' = [local EXCEPT ![e][t] = labels]
    /\ notifications' = Append(notifications,
           [entry |-> e, ts |-> t, kind |-> IF local[e][t] = Absent THEN "write" ELSE "update"])
    /\ UNCHANGED <<notifier, remote, remoteUp, log, mode, stopFlag, worker, send,
                   remoteBucket, isActive, lost, disturbances>>

\* The records of S whose transactions are given up while q is still queued.
GivenUp(e, S, q) == {<<e, t>> : t \in S \ {q[i].ts : i \in DOMAIN q}}

\* ReplicationTask::notify up to the clone of the log's handle.  A disabled
\* task skips the change, without a word.
NotifyTake ==
    /\ notifications # <<>> /\ notifier = None
    /\ LET n == Head(notifications)
       IN  IF mode = "disabled"
           THEN /\ lost' = lost \union {<<n.entry, n.ts>>}
                /\ UNCHANGED notifier
           ELSE /\ notifier' = [phase |-> "push", entry |-> n.entry, stale |-> FALSE,
                                transaction |-> [kind |-> n.kind, ts |-> n.ts]]
                /\ UNCHANGED lost
    /\ notifications' = Tail(notifications)
    /\ UNCHANGED <<local, remote, remoteUp, log, mode, stopFlag, worker, send,
                   remoteBucket, isActive, disturbances>>

\* The rest of notify: push_back through the handle.  A full log drops its
\* oldest transaction, with an error; the lock or the write may fail, with an
\* error; what goes through a stale handle is lost, without one.
NotifyPush ==
    /\ notifier.phase = "push"
    /\ LET e == notifier.entry
           n == notifier.transaction
           q == Append(log[e], n)
           kept == IF Len(q) <= LogBound THEN q ELSE Tail(q)
       IN  \/ /\ ~notifier.stale
              /\ log' = [log EXCEPT ![e] = kept]
              /\ lost' = (lost \ {<<e, n.ts>>})
                            \union GivenUp(e, {q[i].ts : i \in DOMAIN q}, kept)
              /\ UNCHANGED disturbances
           \/ /\ notifier.stale
              /\ lost' = lost \union {<<e, n.ts>>}
              /\ UNCHANGED <<log, disturbances>>
           \/ /\ Disturbance
              /\ lost' = lost \union {<<e, n.ts>>}
              /\ UNCHANGED log
    /\ notifier' = None
    /\ UNCHANGED <<local, notifications, remote, remoteUp, mode, stopFlag, worker, send,
                   remoteBucket, isActive>>

\* The handles of the entries in E are replaced in the map: the notifier's own
\* is stale from now on.
Replaced(E) ==
    IF notifier.phase = "push" /\ notifier.entry \in E
    THEN [notifier EXCEPT !.stale = TRUE] ELSE notifier

SetMode(m) ==
    /\ m # mode /\ mode' = m
    /\ Disturbance
    /\ UNCHANGED <<source, remote, remoteUp, log, stopFlag, worker, send,
                   remoteBucket, isActive, lost>>

-----------------------------------------------------------------------------
(* The worker loop of ReplicationTask::start *)

\* init_transaction_logs, under the lock of the map: every log is loaded from
\* its file and its handle put in the map.  A file that does not load is
\* dropped, with an error, and created anew.  (Taken to succeed: after an error
\* the logs not loaded yet wait for the next notification of their entry.)
Start ==
    /\ pc = "down" /\ ~stopFlag
    /\ \E broken \in SUBSET Entry :
          /\ broken # {} => "broken" \in Faults
          /\ log' = [e \in Entry |-> IF e \in broken THEN <<>> ELSE log[e]]
          /\ lost' = lost \union UNION {GivenUp(e, {log[e][i].ts : i \in DOMAIN log[e]}, <<>>) :
                                           e \in broken}
    /\ notifier' = Replaced(Entry)
    /\ pc' = "loop"
    /\ UNCHANGED <<local, notifications, remote, remoteUp, mode, stopFlag, todo,
                   prepared, send, remoteBucket, isActive, disturbances>>

\* The top of the loop, mode Disabled.
LoopDisabled ==
    /\ pc = "loop" /\ ~stopFlag /\ mode = "disabled"
    /\ isActive' = FALSE
    /\ UNCHANGED <<source, remote, remoteUp, log, mode, stopFlag, worker,
                   send, remoteBucket, lost, disturbances>>

\* probe of the three states: the available state does not ask again, the
\* others connect.
probe ==
    /\ bucket' = IF bucket = "available" \/ remoteUp THEN "available" ELSE "unavailable"
    /\ waited' = FALSE

\* The top of the loop, mode Paused.
LoopPaused ==
    /\ pc = "loop" /\ ~stopFlag /\ mode = "paused"
    /\ probe
    /\ isActive' = (bucket' = "available")
    /\ UNCHANGED <<source, remote, remoteUp, log, mode, stopFlag, worker,
                   send, lost, disturbances>>

\* Mutant: the entries are not sorted.
LoopEnabledUnsorted ==
    /\ pc = "loop" /\ ~stopFlag /\ mode = "enabled"
    /\ pc' = "prepare" /\ todo' = Reverse(EntryOrder)
    /\ UNCHANGED <<source, remote, remoteUp, log, mode, stopFlag, prepared,
                   send, remoteBucket, isActive, lost, disturbances>>

\* The top of the loop, mode Enabled: a pass over all logs begins.
LoopEnabled ==
    /\ pc = "loop" /\ ~stopFlag /\ mode = "enabled"
    /\ pc' = "prepare" /\ todo' = EntryOrder
    /\ UNCHANGED <<source, remote, remoteUp, log, mode, stopFlag, prepared,
                   send, remoteBucket, isActive, lost, disturbances>>

LoopStop ==
    /\ pc = "loop" /\ stopFlag
    /\ pc' = "down"
    /\ UNCHANGED <<source, remote, remoteUp, log, mode, stopFlag, todo,
                   prepared, send, remoteBucket, isActive, lost, disturbances>>

Stop ==
    /\ pc # "down" /\ ~stopFlag
    /\ stopFlag' = TRUE
    /\ UNCHANGED <<source, remote, remoteUp, log, mode, worker, send,
                   remoteBucket, isActive, lost, disturbances>>

-----------------------------------------------------------------------------
(* ReplicationSender::run, one pass *)

\* run returns; what it leaves behind is the state of the send task.
EndPass(active) ==
    /\ pc' = "loop" /\ todo' = <<>> /\ prepared' = None
    /\ isActive' = active

\* prepare_batch: a snapshot of the log's front, the records read from the
\* local bucket.  A record that cannot be read is accounted and left out of
\* the batch; the batch may end early at its size limit, never with a record
\* that failed.  A log that cannot be read is broken; a lock that cannot be had
\* is an internal error.
prepare_batch ==
    /\ pc = "prepare" /\ todo # <<>>
    /\ LET e == Head(todo)
           vec == SubSeq(log[e], 1, IF Len(log[e]) < BatchMaxRecords
                                    THEN Len(log[e]) ELSE BatchMaxRecords)
       IN  \/ /\ vec = <<>>
              /\ prepared' = None
              /\ UNCHANGED disturbances
           \/ \E n \in 1..Len(vec), failed \in SUBSET (1..Len(vec)) :
                 /\ failed \subseteq 1..n
                 /\ n < Len(vec) => n \notin failed
                 /\ failed # {} => "unreadable" \in Faults
                 /\ prepared' =
                      [phase |-> "write", entry |-> e, processed |-> n,
                       batch |-> {[kind |-> vec[i].kind, ts |-> vec[i].ts, pos |-> i,
                                   labels |-> local[e][vec[i].ts]] : i \in (1..n) \ failed},
                       failed |-> {vec[i].ts : i \in failed}]
                 /\ UNCHANGED disturbances
           \/ /\ "broken" \in Faults /\ vec # <<>>
              /\ prepared' = [phase |-> "broken", entry |-> e]
              /\ UNCHANGED disturbances
           \/ /\ Disturbance
              /\ prepared' = [phase |-> "internal"]
    /\ pc' = "join"
    /\ UNCHANGED <<source, remote, remoteUp, log, mode, stopFlag, todo, send,
                   remoteBucket, isActive, lost>>

\* The send under way, if any, is joined once the next batch is prepared.  When
\* it found the remote unavailable the pass ends and the batch just prepared is
\* dropped.
Join ==
    /\ pc = "join" /\ send.phase \in {"none", "done"}
    /\ send' = None
    /\ IF send.phase = "done" /\ ~send.active
       THEN EndPass(FALSE)
       ELSE pc' = "match" /\ UNCHANGED <<todo, prepared, isActive>>
    /\ UNCHANGED <<source, remote, remoteUp, log, mode, stopFlag, remoteBucket, lost,
                   disturbances>>

\* What was prepared is handed to a new send task; there may be nothing.
Dispatch ==
    /\ pc = "match" /\ prepared.phase \in {"none", "write"}
    /\ IF prepared = None THEN UNCHANGED send ELSE send' = prepared
    /\ prepared' = None
    /\ todo' = Tail(todo)
    /\ pc' = IF Len(todo) = 1 THEN "finish" ELSE "prepare"
    /\ UNCHANGED <<source, remote, remoteUp, log, mode, stopFlag, remoteBucket, isActive,
                   lost, disturbances>>

\* Mutant: the error is returned before the send under way is joined.
FailUnjoined ==
    /\ pc \in {"join", "match"} /\ prepared.phase = "internal"
    /\ EndPass(FALSE)
    /\ UNCHANGED <<source, remote, remoteUp, log, mode, stopFlag, send, remoteBucket, lost,
                   disturbances>>

\* run returns the error of prepare_batch.
Fail ==
    /\ pc = "match" /\ prepared.phase = "internal"
    /\ EndPass(FALSE)
    /\ UNCHANGED <<source, remote, remoteUp, log, mode, stopFlag, send, remoteBucket, lost,
                   disturbances>>

\* run returns BrokenLog; the loop clears is_active.
Broken ==
    /\ pc = "match" /\ prepared.phase = "broken"
    /\ pc' = "remove" /\ todo' = <<>> /\ isActive' = FALSE
    /\ UNCHANGED <<source, remote, remoteUp, log, mode, stopFlag, prepared, send,
                   remoteBucket, lost, disturbances>>

\* The BrokenLog arm of the loop: the file is removed, with all it held.  If
\* that fails, the arm loads the old file again.
RemoveLog ==
    /\ pc = "remove"
    /\ LET e == prepared.entry
       IN  \/ /\ log' = [log EXCEPT ![e] = <<>>]
              /\ lost' = lost \union GivenUp(e, {log[e][i].ts : i \in DOMAIN log[e]}, <<>>)
              /\ pc' = "create"
              /\ UNCHANGED <<notifier, prepared, disturbances>>
           \/ /\ Disturbance
              /\ notifier' = Replaced({e})
              /\ pc' = "loop" /\ prepared' = None
              /\ UNCHANGED <<log, lost>>
    /\ UNCHANGED <<local, notifications, remote, remoteUp, mode, stopFlag, todo, send,
                   remoteBucket, isActive>>

\* The rest of the arm: a log is created and its handle put in the map.  What
\* was pushed meanwhile, through the old handle, is either in the way, and
\* the log cannot be created, or it is not in the new log.
CreateLog ==
    /\ pc = "create"
    /\ LET e == prepared.entry
       IN  \/ /\ log' = [log EXCEPT ![e] = <<>>]
              /\ lost' = lost \union GivenUp(e, {log[e][i].ts : i \in DOMAIN log[e]}, <<>>)
              /\ notifier' = Replaced({e})
              /\ UNCHANGED disturbances
           \/ /\ log[e] # <<>>
              /\ UNCHANGED <<log, lost, notifier, disturbances>>
           \/ Disturbance /\ UNCHANGED <<log, lost, notifier>>
    /\ pc' = "loop" /\ prepared' = None
    /\ UNCHANGED <<local, notifications, remote, remoteUp, mode, stopFlag, todo, send,
                   remoteBucket, isActive>>

\* All entries visited, the last send joined.
Finish ==
    /\ pc = "finish" /\ send.phase \in {"none", "done"}
    /\ EndPass(send.phase = "done" => send.active)
    /\ send' = None
    /\ UNCHANGED <<source, remote, remoteUp, log, mode, stopFlag, remoteBucket, lost,
                   disturbances>>

-----------------------------------------------------------------------------
(* send_batch: the request to the remote, then the log *)

\* What a batch asks of the remote entry r: the updates of records it does not
\* hold are written as new records after the updates.
MissingAtRemote(b, r) == {x \in b : x.kind = "update" /\ r[x.ts] = Absent}

\* The remote merges the labels of an update into those it holds: a label that
\* was removed at the source is not in the request, and stays.
Merged(held, sent) == [ver |-> sent.ver, tag |-> held.tag \/ sent.tag]

Updated(b, r) ==
    [t \in Timestamp |->
        LET u == {x \in b : x.kind = "update" /\ x.ts = t}
        IN  IF u = {} \/ r[t] = Absent THEN r[t] ELSE Merged(r[t], (CHOOSE x \in u : TRUE).labels)]

ToWrite(b, r) == {x \in b : x.kind = "write"} \union MissingAtRemote(b, r)

\* A timestamp is twice in a write request.
HasDuplicates(w) == \E x, y \in w : x # y /\ x.ts = y.ts

\* A record the remote holds already is answered with a conflict.
Written(w, r) ==
    [t \in Timestamp |-> IF r[t] = Absent /\ \E x \in w : x.ts = t
                         THEN (CHOOSE x \in w : x.ts = t).labels ELSE r[t]]

\* The send task between write_batch and the pop: whether the bucket is active,
\* and the records given up if the log is popped.
Replied(active, gone) ==
    [phase |-> "pop", entry |-> send.entry, processed |-> send.processed,
     active |-> active, gone |-> gone \union send.failed,
     fallback |-> {x.ts : x \in MissingAtRemote(send.batch, remote[send.entry])}]

BatchTimestamps == {x.ts : x \in send.batch}

\* Mutant: the unavailable state does not look at the time.
SendSkippedAlways ==
    /\ send.phase = "write" /\ bucket = "unavailable"
    /\ send' = Replied(FALSE, {})
    /\ UNCHANGED <<source, remote, remoteUp, log, mode, stopFlag, worker,
                   remoteBucket, isActive, lost, disturbances>>

\* BucketUnavailableState::write_batch before its timeout: nothing is sent and
\* the result is an empty error map, as if all had been replicated; only
\* is_active tells send_batch to keep the transactions.
SendSkipped ==
    /\ send.phase = "write" /\ bucket = "unavailable" /\ ~waited
    /\ send' = Replied(FALSE, {})
    /\ UNCHANGED <<source, remote, remoteUp, log, mode, stopFlag, worker,
                   remoteBucket, isActive, lost, disturbances>>

\* write_batch of the initial state, and of the unavailable state after its
\* timeout, first connects.
Connects == bucket = "initial" \/ (bucket = "unavailable" /\ waited)

\* The bucket cannot be reached: get_or_create_bucket fails, or the request of
\* the available state does.
SendFails ==
    /\ send.phase = "write" /\ ~remoteUp
    /\ Connects \/ (bucket = "available" /\ send.batch # {})
    /\ send' = Replied(FALSE, {})
    /\ bucket' = "unavailable" /\ waited' = FALSE
    /\ UNCHANGED <<source, remote, remoteUp, log, mode, stopFlag, worker,
                   isActive, lost, disturbances>>

\* The connection breaks during a request: the updates, or the updates and the
\* writes, were applied and the answer is lost.
SendBreaks ==
    /\ send.phase = "write" /\ remoteUp /\ (bucket = "available" \/ Connects)
    /\ send.batch # {} /\ Disturbance
    /\ LET e == send.entry
           u == Updated(send.batch, remote[e])
           w == ToWrite(send.batch, remote[e])
       IN  \E r \in {remote[e], u, Written(w, u)} :
              remote' = [remote EXCEPT ![e] = r]
    /\ send' = Replied(FALSE, {})
    /\ bucket' = "unavailable" /\ waited' = FALSE
    /\ UNCHANGED <<source, remoteUp, log, mode, stopFlag, worker,
                   isActive, lost>>

\* The remote answers the requests of BucketAvailableState::write_batch: with
\* an error that keeps the bucket available, or with a map of failed records.
\* There is one header per timestamp, so a timestamp met twice breaks the sum
\* of the lengths and the request is refused, unless the records are empty or
\* the body is compressed and carries no length.
SendReplied ==
    /\ send.phase = "write"
    /\ \/ remoteUp /\ (bucket = "available" \/ Connects)
       \/ bucket = "available" /\ send.batch = {}
    /\ LET e == send.entry
           u == Updated(send.batch, remote[e])
           w == ToWrite(send.batch, remote[e])
       IN  \/ /\ "refuse" \in Faults /\ send.batch # {}
              /\ \E r \in {remote[e], u} : remote' = [remote EXCEPT ![e] = r]
              /\ send' = Replied(TRUE, BatchTimestamps)
           \/ /\ HasDuplicates(w)
              /\ remote' = [remote EXCEPT ![e] = u]
              /\ send' = Replied(TRUE, BatchTimestamps)
           \/ \E rejected \in SUBSET {x.ts : x \in w} :
                 /\ rejected # {} => "reject" \in Faults
                 /\ remote' = [remote EXCEPT ![e] = Written({x \in w : x.ts \notin rejected}, u)]
                 /\ send' = Replied(TRUE, rejected)
    /\ bucket' = "available" /\ waited' = FALSE
    /\ UNCHANGED <<source, remoteUp, log, mode, stopFlag, worker,
                   isActive, lost, disturbances>>

\* The processed transactions leave the log, by their number.
PopFront ==
    LET e == send.entry
        q == SubSeq(log[e], send.processed + 1, Len(log[e]))
    IN  /\ log' = [log EXCEPT ![e] = q]
        /\ lost' = lost \union GivenUp(e, send.gone, q)

\* Mutant: the log is popped although the bucket is not active.
SendPopAlways ==
    /\ send.phase = "pop"
    /\ PopFront
    /\ send' = [phase |-> "done", active |-> send.active]
    /\ UNCHANGED <<source, remote, remoteUp, mode, stopFlag, worker,
                   remoteBucket, isActive, disturbances>>

\* The end of send_batch: the processed transactions are removed from the log
\* if the bucket is active.  When that fails they stay, with an error, and are
\* sent again.
SendPop ==
    /\ send.phase = "pop"
    /\ \/ send.active /\ PopFront /\ UNCHANGED disturbances
       \/ send.active /\ Disturbance /\ UNCHANGED <<log, lost>>
       \/ ~send.active /\ UNCHANGED <<log, lost, disturbances>>
    /\ send' = [phase |-> "done", active |-> send.active]
    /\ UNCHANGED <<source, remote, remoteUp, mode, stopFlag, worker,
                   remoteBucket, isActive>>

-----------------------------------------------------------------------------
(* The surroundings *)

RemoteDown ==
    /\ remoteUp /\ remoteUp' = FALSE
    /\ Disturbance
    /\ UNCHANGED <<source, remote, log, mode, stopFlag, worker, send,
                   remoteBucket, isActive, lost>>

RemoteUp ==
    /\ ~remoteUp /\ remoteUp' = TRUE
    /\ UNCHANGED <<source, remote, log, mode, stopFlag, worker, send,
                   remoteBucket, isActive, lost, disturbances>>

\* The timeout of the unavailable state passes.
Elapse ==
    /\ bucket = "unavailable" /\ ~waited /\ waited' = TRUE
    /\ UNCHANGED <<source, remote, remoteUp, log, mode, stopFlag, worker,
                   send, bucket, isActive, lost, disturbances>>

\* The process ends and starts again: the logs are on disk, the channel and what
\* was taken from it are not.
Crash ==
    /\ Disturbance \/ (pc = "down" /\ stopFlag /\ UNCHANGED disturbances)
    /\ lost' = lost \union {<<notifications[i].entry, notifications[i].ts>> :
                               i \in DOMAIN notifications}
                    \union (IF notifier = None THEN {}
                            ELSE {<<notifier.entry, notifier.transaction.ts>>})
    /\ notifications' = <<>> /\ notifier' = None /\ stopFlag' = FALSE
    /\ pc' = "down" /\ todo' = <<>> /\ prepared' = None /\ send' = None
    /\ bucket' = "initial" /\ waited' = FALSE /\ isActive' = (mode = "enabled")
    /\ UNCHANGED <<local, remote, remoteUp, log, mode>>

WorkerStep ==
    \/ Start \/ LoopDisabled \/ LoopPaused \/ LoopEnabled \/ LoopStop
    \/ prepare_batch \/ Join \/ Dispatch \/ Fail \/ Broken \/ RemoveLog \/ CreateLog \/ Finish

Notify == NotifyTake \/ NotifyPush

SendStep == SendSkipped \/ SendFails \/ SendBreaks \/ SendReplied \/ SendPop

Next ==
    \/ \E e \in Entry, t \in Timestamp : LocalChange(e, t)
    \/ Notify
    \/ \E m \in Mode : SetMode(m)
    \/ Stop
    \/ WorkerStep
    \/ SendStep
    \/ RemoteDown \/ RemoteUp \/ Elapse \/ Crash

Spec == Init /\ [][Next]_vars

\* The tasks of the runtime are polled, time passes.
Fairness ==
    /\ WF_vars(Notify) /\ WF_vars(WorkerStep) /\ WF_vars(SendStep) /\ WF_vars(Elapse)

FairSpec == Spec /\ Fairness

-----------------------------------------------------------------------------
(* Properties *)

Batch ==
    [phase : {"write"}, entry : Entry, processed : 1..BatchMaxRecords,
     batch : SUBSET [kind : {"write", "update"}, ts : Timestamp, pos : 1..BatchMaxRecords,
                     labels : Labels],
     failed : SUBSET Timestamp]

\* The task's state is well formed: no log is longer than its bound, a pass
\* visits the entries in order, a prepared batch is one of this entry, and no
\* batch holds a record that does not exist.
TypeOK ==
    /\ local \in [Entry -> [Timestamp -> Labels]]
    /\ remote \in [Entry -> [Timestamp -> Labels]]
    /\ \A e \in Entry : Len(log[e]) <= LogBound
    /\ mode \in Mode /\ bucket \in {"initial", "available", "unavailable"}
    /\ pc \in {"down", "loop", "prepare", "join", "match", "finish", "remove", "create"}
    /\ IsSuffix(todo, EntryOrder)
    /\ prepared.phase = "write" => prepared \in Batch /\ prepared.entry = Head(todo)
    /\ send.phase = "write" => send \in Batch /\ \A x \in send.batch : x.labels # Absent

Queued(e, t) ==
    \/ \E i \in DOMAIN log[e] : log[e][i].ts = t
    \/ \E i \in DOMAIN notifications : notifications[i].entry = e /\ notifications[i].ts = t
    \/ notifier.phase = "push" /\ notifier.entry = e /\ notifier.transaction.ts = t

\* The remote has every label the source has, with its value; it may have kept
\* labels that were removed at the source.
Replicated(r, l) == r.ver = l.ver /\ (l.tag => r.tag)

\* The remote holds the current labels of every record of the source, unless a
\* transaction for it is still queued or its latest one was given up: the
\* record could not be read, the remote refused it, the log was full, broken or
\* replaced under the notifier's hands, the task was disabled, or the process
\* ended with the notification in its channel.  Some of these are errors in the
\* server's log and some go unnoticed; there are no others.  This is what the
\* log, the retries and the pop of send_batch are for.
Converged ==
    \A e \in Entry, t \in Timestamp :
        \/ Replicated(remote[e][t], local[e][t])
        \/ Queued(e, t)
        \/ <<e, t>> \in lost

\* No send outlives its pass: when the worker is at the top of its loop, drops
\* a log or has stopped, no send task runs, whatever the outcome of the pass
\* (join comes before the match on what was prepared), so that logs can be
\* removed and no batch is sent twice at once.
NoOrphanSend == pc \in {"down", "loop", "remove", "create"} => send = None

\* "Write the records that failed to update with new records": with no refusal
\* by the remote, a record whose update failed is there after the batch.
FailedUpdatesAreWritten ==
    send.phase = "pop" /\ send.active => \A t \in send.fallback : remote[send.entry][t] # Absent

\* The logs are drained: if the task stays enabled and running and the remote
\* stays up, all logs become and stay empty (retry after every outage, no pass
\* that waits for ever).
Drains ==
    <>[](mode = "enabled" /\ remoteUp /\ ~stopFlag) =>
        <>[](\A e \in Entry : log[e] = <<>>)

=============================================================================
