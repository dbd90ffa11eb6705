--------------------------- MODULE MCBlockManager ---------------------------
(* Instances of BlockManager for TLC. *)
EXTENDS BlockManager

=============================================================================
