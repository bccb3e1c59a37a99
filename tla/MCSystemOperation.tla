-------------------------- MODULE MCSystemOperation --------------------------
(* One operation with a key, and operations without one. *)
EXTENDS SystemOperation, TLC

CONSTANTS update, k1

MCKeyOf == [o \in Operations |-> IF o = update THEN k1 ELSE None]

MCSymmetry == Permutations(Handlers) \cup Permutations(Operations \ {update})

=============================================================================
