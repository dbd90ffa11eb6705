---------------------------- MODULE BoundedFifo ----------------------------
(***************************************************************************)
(* What a transaction log promises: a queue of at most bound transactions  *)
(* that drops its oldest one to make room for a new one and outlives the   *)
(* process.  The one weakness of the promise is that a crash may cost a    *)
(* full log all it holds: transaction_log.rs loses them when the process   *)
(* dies while a push to a full log is under way.                           *)
(***************************************************************************)
EXTENDS Naturals, Sequences

CONSTANT Transaction

VARIABLES
    queue,   \* the transactions not yet replicated, oldest first
    bound,   \* the most the log keeps
    running  \* whether the process is up

vars == <<queue, bound, running>>

Init == queue = <<>> /\ bound = 0 /\ running = FALSE

Push(t) ==
    /\ running
    /\ queue' = IF Len(queue) < bound THEN Append(queue, t) ELSE Tail(Append(queue, t))
    /\ UNCHANGED <<bound, running>>

Pop ==
    /\ running
    /\ queue # <<>>
    /\ queue' = Tail(queue)
    /\ UNCHANGED <<bound, running>>

Crash ==
    /\ running
    /\ running' = FALSE
    /\ queue' = queue \/ (Len(queue) = bound /\ queue' = <<>>)
    /\ UNCHANGED bound

Restart ==
    /\ ~running
    /\ running' = TRUE
    /\ UNCHANGED <<queue, bound>>

\* Only an empty log changes its size, and only at a restart.
Resize ==
    /\ ~running
    /\ queue = <<>>
    /\ bound' \in Nat
    /\ running' \in BOOLEAN
    /\ UNCHANGED queue

Next ==
    \/ \E t \in Transaction : Push(t)
    \/ Pop
    \/ Crash
    \/ Restart
    \/ Resize

Spec == Init /\ [][Next]_vars

=============================================================================
