---------------------------- MODULE MCApiClient ----------------------------
(* ApiClient on small instances.                                           *)
EXTENDS ApiClient, TLC

\* Tokens and request slots are interchangeable.
Names == Permutations(Token) \cup Permutations(Req)
=============================================================================
