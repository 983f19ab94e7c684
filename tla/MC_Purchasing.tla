--------------------------- MODULE MC_Purchasing ----------------------------
(* A small instance of Purchasing for TLC. *)
EXTENDS Purchasing, TLC

CONSTANT p1

Bought == [product |-> p1, entryType |-> "purchase", quantity |-> 2, unitsPerCase |-> 2]
Returned == [product |-> p1, entryType |-> "return", quantity |-> 1, unitsPerCase |-> 1]

SomeLines == {Bought, Returned}

\* Post, take back to draft, verify, void, replace the items with or without a
\* change of the status, change nothing of these.
SomeChanges ==
  {[status |-> "OPEN", lines |-> Keep],
   [status |-> "DRAFT", lines |-> Keep],
   [status |-> "VERIFIED", lines |-> Keep],
   [status |-> "VOIDED", lines |-> {Returned}],
   [status |-> "OPEN", lines |-> {Bought, Returned}],
   [status |-> Keep, lines |-> {Bought}],
   [status |-> Keep, lines |-> Keep]}

Symmetry == Permutations(Clerks)
=============================================================================
