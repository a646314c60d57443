--------------------------- MODULE MCInstancePool ---------------------------
(***************************************************************************)
(* InstancePool on a small instance: requests are interchangeable.         *)
(***************************************************************************)
EXTENDS InstancePool, TLC

CONSTANTS s1, t1, t2

\* A slot two identities use in turn, and a caller without a slot.
SharedSlotCalls == {<<s1, t1>>, <<s1, t2>>, <<None, t1>>}

\* One identity, with its slot and without.
OneIdentityCalls == {<<s1, t1>>, <<None, t1>>}

RequestSymmetry == Permutations(Requests)

=============================================================================
