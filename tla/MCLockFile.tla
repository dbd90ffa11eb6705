----------------------------- MODULE MCLockFile -----------------------------
(***************************************************************************)
(* The blue/green deployment of two instances, restarted several times: a  *)
(* primary and a secondary, or two secondaries.                            *)
(***************************************************************************)
EXTENDS LockFile, TLC

CONSTANTS a, b

\* One deployment of either kind.
Roles == {(a :> r) @@ (b :> "Secondary") : r \in {"Primary", "Secondary"}}

Deployments == {s \in Scenarios : s.role \in Roles /\ (s.torn => s.expires)}

=============================================================================
