---------------------------- MODULE MCAuthCache ----------------------------
(* A small instance of the authentication cache for TLC.                   *)
EXTENDS AuthCache, TLC

CONSTANTS r1, r2

\* Requests are interchangeable.
Interchangeable == Permutations(Requests)
=============================================================================
