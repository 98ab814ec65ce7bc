---------------------------- MODULE MCDurableWork ----------------------------
(* Small instances of DurableWork for TLC. *)
EXTENDS DurableTurns, TLC

CONSTANT TheOwner

\* Every conversation has the one owner.
MCOwnerOf == [c \in Conversations |-> TheOwner]
MCOwners == {TheOwner}

\* Job ids, request keys, operation ids, check names and conversations are interchangeable.
Symmetry == Permutations(JobIds) \cup Permutations(Keys) \cup Permutations(Ops)
                \cup Permutations(Checks) \cup Permutations(Conversations)
=============================================================================
