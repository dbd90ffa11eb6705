---------------------------- MODULE MCLifecycle -----------------------------
(***************************************************************************)
(* Instances of Lifecycle for TLC.                                         *)
(***************************************************************************)
EXTENDS Lifecycle

\* A policy with records: with progress (Interval stands for either width of the
\* window), and without it, with a processing interval and without one.  Two policies
\* without records.
Separate ==
    [events : {TRUE}, bounded : {FALSE}, shared : {FALSE}, incidents : {2}]
      \cup [events : {FALSE}, bounded : BOOLEAN, shared : {FALSE}, incidents : {2}]
      \cup [events : {TRUE}, bounded : {FALSE}, shared : {TRUE}, incidents : {3}]

\* The default: no processing interval, events stored.
Default == {[events |-> TRUE, bounded |-> FALSE, shared |-> FALSE, incidents |-> 2]}

=============================================================================
