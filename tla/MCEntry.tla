------------------------------ MODULE MCEntry ------------------------------
(* Instances of Entry for TLC. *)
EXTENDS Entry, TLC

Symmetry == Permutations(Proc)

Use(o, seed, records, n, sequential, inOrder) ==
    [ops |-> o, seed |-> seed, maxRecords |-> records, maxOps |-> n,
     sequential |-> sequential, inOrder |-> inOrder, distinct |-> TRUE]

\* One operation at a time, records in the order of time, blocks of two.
OneByOne == Use({"write", "remove", "update", "evict"}, {}, 2, 5, TRUE, TRUE)

\* Clients write different records at once, before and after the one there is,
\* into blocks that do not fill up.
Writers == Use({"write"}, {3}, 6, 4, FALSE, FALSE)

\* Clients update records of a block at once, the same and different ones, while
\* others are appended to it.
Updaters == Use({"update", "write"}, {1, 2}, 6, 4, FALSE, TRUE)

\* Clients remove records and whole blocks at once.
Removers == Use({"remove", "evict"}, {1, 2, 3}, 6, 4, FALSE, TRUE)

Served == {OneByOne, Writers, Updaters, Removers}

\* One operation at a time, records in any order.
AnyOrder == {Use({"write"}, {}, 2, 4, TRUE, FALSE)}

\* An update beside a removal from the same block.
UpdateBesideRemoval == {Use({"update", "remove"}, {1, 2}, 3, 3, FALSE, TRUE)}

=============================================================================
