------------------------------ MODULE MCMessaging ------------------------------
(***************************************************************************)
(* Finite instances of Messaging.                                          *)
(***************************************************************************)
EXTENDS Messaging, TLC

CONSTANTS k1, a, b, t1

(* All bodies differ only in white space. *)
MCNormal == [t \in Texts |-> t1]

(* At first there are no conversations. *)
MCNoConvs == [k \in ConvIds |-> NoConvRow]

Interchangeable == Permutations(PlanIds) \cup Permutations(Procs)
=============================================================================
