--------------------------- MODULE MCEnrichment ---------------------------
(* Enrichment on small instances.                                          *)
EXTENDS Enrichment, TLC

CONSTANTS t1, t2, t3, t4, t5, h1, coffee, cafe, food, fun

\* Two transactions of one descriptor and three of another near it.
MCHome  == [t \in Txn |-> h1]
MCDescr == (t1 :> coffee) @@ (t2 :> coffee) @@ [t \in {t3, t4, t5} |-> cafe]
MCNear  == {<<coffee, cafe>>, <<cafe, coffee>>}

\* Two of one descriptor, one of each, or all of the other.
MCFeeds == {{t1, t2}, {t1, t3}, {t2, t3}, {t3, t4, t5}}

\* One of the descriptors is in the table of global rules.
MCGlobal == (coffee :> NoRow) @@ (cafe :> food)

\* The request slots are interchangeable, and so are the transactions of one descriptor.
Names == Permutations(Req) \cup Permutations({t1, t2}) \cup Permutations({t4, t5})
=============================================================================
