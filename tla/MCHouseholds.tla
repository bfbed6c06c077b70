--------------------------- MODULE MCHouseholds ---------------------------
(* Households on small instances.                                          *)
EXTENDS Households, TLC

\* Accounts, households and request slots are interchangeable.
Names == Permutations(User) \cup Permutations(House) \cup Permutations(Req)
=============================================================================
