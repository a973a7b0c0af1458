------------------------------- MODULE MCDMSync -------------------------------
(***************************************************************************)
(* Finite instances of DMSync.                                             *)
(***************************************************************************)
EXTENDS DMSync, TLC

CONSTANTS x

(* One fingerprint stands for an unread conversation, the others do not. *)
MCUnreadOf == [print \in Prints |-> print = x]


(* Swapping two fingerprints keeps which of them differ in the unread state. *)
Interchangeable == Permutations(Owners) \cup Permutations(Prints)
=============================================================================
