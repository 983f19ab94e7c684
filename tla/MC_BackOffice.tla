----------------------------- MODULE MC_BackOffice -----------------------------
(***************************************************************************)
(* Two requests are in flight everywhere: c1 and c2 are owners, clerks,    *)
(* webhooks, visitors or transactions.  x1 and x2 are two rows of whatever *)
(* a component keeps.  Only the catalogue has one request at a time, k2's: *)
(* its property says nothing of requests that overlap, and two taxes, two  *)
(* departments and what refers to them are many states already.            *)
(***************************************************************************)
EXTENDS BackOffice, TLC

CONSTANTS c1, c2, x1, x2, a, b0, b1, k1, k2, t1, t2, w1

-----------------------------------------------------------------------------
(* Packs: one that was deactivated, and proposals that meet in its barcode *)

Case(barcode, units) == [units |-> units, barcode |-> barcode]
OnePack == [p \in {a} |-> [config |-> Case(b0, 6), active |-> FALSE, version |-> 1, from |-> NoProposal]]
Proposed(action, target, config, retail) ==
  [action |-> action, target |-> target, config |-> config, retail |-> retail]
SomeDtos ==
  {Proposed("CREATE", NoPack, Case(b1, 6), 1)}
    \cup {Proposed("REACTIVATE", a, Case(b1, 12), retail) : retail \in {1, 2}}

-----------------------------------------------------------------------------
Symmetry == Permutations({c1, c2}) \cup Permutations({x1, x2}) \cup Permutations({t1, t2})
=============================================================================
