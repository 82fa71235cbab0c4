----------------------------- MODULE MCTokenCache -----------------------------
(* Three threads that are alike share the token. *)
EXTENDS TokenCache, TLC

Alike == Permutations(Threads)
=============================================================================
