--------------------------- MODULE MCReplication ----------------------------
(***************************************************************************)
(* Instances of Replication for TLC.                                       *)
(***************************************************************************)
EXTENDS Replication

\* Two entries: a batch is prepared while the other entry's batch is sent.
TwoEntries == <<"a", "b">>
OneEntry == <<"a">>

=============================================================================
