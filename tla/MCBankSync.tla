---------------------------- MODULE MCBankSync ----------------------------
(* BankSync on small instances: three versions of one bank's snapshot.     *)
EXTENDS BankSync, Sequences, TLC

\* A new transaction and a new holding under an unchanged balance, then a balance
\* that moved, the oldest transaction out of the window and the holdings sold.
MCFeed ==
    << [balance |-> 10, txns |-> {"t1"},       holdings |-> {"h1"}],
       [balance |-> 10, txns |-> {"t1", "t2"}, holdings |-> {"h1", "h2"}],
       [balance |-> 20, txns |-> {"t2"},       holdings |-> {}] >>
\* The first of them only.
MCFeed1 == SubSeq(MCFeed, 1, 1)

\* One snapshot with one transaction.
MCFeedTiny == << [balance |-> 10, txns |-> {"t1"}, holdings |-> {}] >>
MCTxn1     == {"t1"}
MCNone     == {}

\* Requests over bank connections only, and over one CSV import as well.
MCKindsOf(csv, kinds) == [S \in SUBSET Conn |-> IF S = csv THEN kinds ELSE {}]
MCOverlap  == MCKindsOf({}, {"connect", "resync"})
MCConnect  == MCKindsOf({}, {"connect", "mine"})
MCOne      == {CHOOSE c \in Conn : TRUE}
MCSessions == [MCConnect EXCEPT ![MCOne] = {"connect", "import", "nightly", "mine"}]

\* The request slots are interchangeable.
Slots == Permutations(Req)

MCBalance  == {10, 20}
MCTxn      == {"t1", "t2"}
MCSecurity == {"h1", "h2"}
=============================================================================
