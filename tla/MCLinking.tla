---------------------------- MODULE MCLinking ----------------------------
(* Linking on small instances.                                             *)
EXTENDS Linking, TLC

CONSTANTS a1, x1

MCWorth == [S \in SUBSET {x1} |-> 3 * Cardinality(S)]

MCCash  == [total |-> 5, positions |-> {}]
MCMixed == [total |-> 5, positions |-> {x1}]
MCGone  == [total |-> 0, positions |-> {}]
MCPortfolios == {MCCash, MCMixed, MCGone}

MCScene(kinds, portfolios, linked) ==
    [kinds |-> kinds, portfolios |-> portfolios, linked |-> linked]

\* A brokerage from nothing; a brokerage and a bank; a linked brokerage whose account is
\* synced and edited while positions are sold.
MCScenes ==
    {MCScene({"portal", "complete"}, {MCCash}, NoRow),
     MCScene({"portal", "plaid", "resync"}, {MCCash}, NoRow),
     MCScene({"complete", "plaid"}, {MCMixed}, a1),
     MCScene({"resync", "edit"}, {MCMixed, MCGone}, a1)}

\* Request slots and connection ids are interchangeable.
Names == Permutations(Req) \cup Permutations(Connection)
=============================================================================
