----------------------------- MODULE MCSession -----------------------------
(***************************************************************************)
(* Session for TLC: sessions, tokens and contexts are interchangeable.     *)
(***************************************************************************)
EXTENDS Session, TLC

MCSymmetry == Permutations(Sessions) \cup Permutations(Tokens) \cup Permutations(Contexts)
=============================================================================
