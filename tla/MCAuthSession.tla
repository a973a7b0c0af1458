----------------------------- MODULE MCAuthSession -----------------------------
(***************************************************************************)
(* Finite instances of AuthSession.                                        *)
(***************************************************************************)
EXTENDS AuthSession, TLC

Interchangeable == Permutations(Commands)
=============================================================================
