----------------------------- MODULE MCDispatch -----------------------------
(* Workers are interchangeable, and so are the identities of entries. *)
EXTENDS Dispatch, TLC

MCSymmetry == Permutations(Workers) \union Permutations(Slots)
=============================================================================
