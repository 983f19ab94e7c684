------------------------------ MODULE MultiPack ------------------------------
(***************************************************************************)
(* Reviewed multi-pack pricing: clerks submit and edit proposals for the   *)
(* packs of one product, reviewers approve them one at a time or all at    *)
(* once (a batch), or reject them.                                         *)
(*                                                                         *)
(* Only a batch locks the proposals it is about to apply.  Everybody else  *)
(* reads and then updates rows by their id: what was checked may be out of *)
(* date by then.  The checks of a request are one step here; the UPDATE of *)
(* a pack and that of the proposal, which commits, are further steps, and  *)
(* the row of the pack stays locked in between.  Costs, margins and the    *)
(* price in the row of a pack are left out: no check reads them.  The      *)
(* price that is proposed tells proposals apart.                           *)
(***************************************************************************)
EXTENDS Naturals, Sequences, FiniteSets

CONSTANTS
  Reviewers,        \* staff who submit and review, one request in flight each
  Owners,           \* those of them who are owners
  Packs,            \* the packs that exist at the start
  InitialPack,      \* their rows
  ProductBarcodes,  \* the barcodes of products
  PackDtos,         \* bound: what the staff propose
  MaxProposals,     \* bound: proposals ever submitted
  NoPack,           \* no row, or no target
  NoBarcode,        \* the configuration is no case sale
  NoProposal,       \* the pack was not made from a proposal
  NoReview          \* no request in flight

\* A pack made by a proposal has its number.
PackRow == Packs \cup (1 .. MaxProposals)

Configs == {InitialPack[p].config : p \in Packs} \cup {d.config : d \in PackDtos}
PackRecord ==
  [config : Configs, active : BOOLEAN, version : Nat, from : (1 .. MaxProposals) \cup {NoProposal}]
Actions == {"CREATE", "UPDATE", "DEACTIVATE", "REACTIVATE"}
Targets == PackRow \cup {NoPack}
Prices == {d.retail : d \in PackDtos}
ClaimRecord == [action : Actions, target : Targets, config : Configs, retail : Prices, version : Nat]
ProposalRecord ==
  [action : Actions, target : Targets, config : Configs, retail : Prices, version : Nat,
   status : {"PENDING", "APPROVED", "REJECTED"}, by : Reviewers]
Numbers == 1 .. MaxProposals
Batches == UNION {[S -> ProposalRecord] : S \in SUBSET Numbers}
ReviewRecord ==
  [kind : {"submit", "edit", "reject", "approve", "batch"}, q : 0 .. MaxProposals,
   d : ClaimRecord \cup ProposalRecord \cup {NoProposal}, at : {"save", "pack", "lock", "check"},
   todo : SUBSET Numbers, batch : Batches, wanted : SUBSET Numbers, counted : Nat]

\* Two packs that are not on sale side by side: one configuration, or one barcode.
Clash(one, other) ==
  \/ one.config = other.config
  \/ one.config.barcode # NoBarcode /\ one.config.barcode = other.config.barcode

\* The packs on sale at the start differ, and no row is told from a row.
ASSUME PackAssumption ==
  /\ MaxProposals \in Nat
  /\ InitialPack \in [Packs -> PackRecord]
  /\ \A p, o \in Packs :
       p # o /\ InitialPack[p].active /\ InitialPack[o].active => ~Clash(InitialPack[p], InitialPack[o])
  /\ PackDtos \subseteq [action : Actions, target : Targets, config : Configs, retail : Nat]
  /\ NoPack \notin PackRow \cup PackRecord
  /\ NoReview \notin ReviewRecord

VARIABLES
  packs,      \* ProductMultiPack rows
  proposals,  \* MultiPackProposal rows, in the order of submittedAt
  review,     \* the request of each of the staff and what it has read
  staged,     \* the pack rows its transaction has written
  writes,     \* committed writes of each pack
  applied,    \* committed applications of each proposal
  overtaken,  \* another request succeeded since this one read its rows
  raced       \* an overtaken request succeeded

packRows == <<packs, proposals>>
packGhosts == <<writes, applied, overtaken, raced>>
packVars == <<packRows, review, staged, packGhosts>>

-----------------------------------------------------------------------------
(* Transactions *)

IsCaseSale(config) == config.barcode # NoBarcode

\* What a request sees: its own writes over the committed rows.
PacksSeenBy(k) ==
  [p \in DOMAIN packs |-> IF p \in DOMAIN staged[k] THEN staged[k][p] ELSE packs[p]]

NoRows == [p \in {} |-> NoPack]

\* The UPDATE of another transaction holds the row.
PackBusy(k, p) == \E j \in Reviewers \ {k} : p \in DOMAIN staged[j]

\* A batch holds the proposals it locked.
Locked(k) == IF review[k] = NoReview THEN {} ELSE DOMAIN review[k].batch

\* Mutant: a batch reads its proposals without FOR UPDATE.
NoRowLocks(k, q) == FALSE

ProposalBusy(k, q) == \E j \in Reviewers \ {k} : q \in Locked(j)

Goto(k, r) == review' = [review EXCEPT ![k] = r]

\* A request reads its first rows, or goes on.
Begin(k, r) == review[k] = NoReview /\ Goto(k, r) /\ UNCHANGED <<packRows, staged, packGhosts>>
Continue(k, r) == Goto(k, r) /\ UNCHANGED <<packRows, staged, packGhosts>>
At(k, kinds, label) == review[k] # NoReview /\ review[k].kind \in kinds /\ review[k].at = label

\* COMMIT: the proposals are given, the packs are the staged ones.
Succeed(k, newProposals, done) ==
  /\ proposals' = newProposals
  /\ packs' = PacksSeenBy(k)
  /\ writes' = [p \in DOMAIN writes |-> writes[p] + (IF p \in DOMAIN staged[k] THEN 1 ELSE 0)]
  /\ applied' = [q \in DOMAIN applied |-> applied[q] + (IF q \in done THEN 1 ELSE 0)]
  /\ overtaken' = [j \in Reviewers |-> j # k /\ review[j] # NoReview]
  /\ raced' = (raced \/ overtaken[k])
  /\ Goto(k, NoReview)
  /\ staged' = [staged EXCEPT ![k] = NoRows]

\* An error answer or a failing transaction; PostgreSQL resolves a deadlock so.
FailReview(k) ==
  /\ review[k] # NoReview
  /\ Goto(k, NoReview)
  /\ staged' = [staged EXCEPT ![k] = NoRows]
  /\ overtaken' = [overtaken EXCEPT ![k] = FALSE]
  /\ UNCHANGED <<packRows, writes, applied, raced>>

-----------------------------------------------------------------------------
(* The checks *)

\* A batch reviews proposals as it goes; nobody else sees that before it commits.
PendingFor(k, todo, q) ==
  /\ proposals[q].status = "PENDING"
  /\ q \in Locked(k) => q \in todo

\* "This proposal has already been reviewed", "Only pending ... can be edited";
\* nobody but an owner approves a proposal of their own.
MayReview(k, kind, q) ==
  /\ proposals[q].status = "PENDING"
  /\ kind \in {"approve", "batch"} /\ k \notin Owners => proposals[q].by # k

\* A proposal to create has no target, every other one has.
TargetFits(k, d) ==
  /\ (d.action = "CREATE") = (d.target = NoPack)
  /\ d.target # NoPack => PacksSeenBy(k)[d.target] # NoPack

ActivePacks(k, allowed) ==
  {p \in DOMAIN packs \ {allowed} : PacksSeenBy(k)[p] # NoPack /\ PacksSeenBy(k)[p].active}

\* Mutant: the barcode is compared with products and proposals only.
NotProposedElsewhere(k, d, allowed, others) ==
  /\ d.config.barcode \notin ProductBarcodes
  /\ \A q \in others : proposals[q].config.barcode # d.config.barcode

\* ensureCaseBarcodeAvailable: no product, no other active pack and no other
\* pending proposal has the barcode.  With an allowed pack the query asks for
\* targets other than that pack, which in SQL leaves out those without a target.
CaseBarcodeAvailable(k, d, allowed, others) ==
  /\ d.config.barcode \notin ProductBarcodes
  /\ \A p \in ActivePacks(k, allowed) : PacksSeenBy(k)[p].config.barcode # d.config.barcode
  /\ \A q \in others :
       (allowed # NoPack => proposals[q].target \notin {NoPack, allowed}) =>
         proposals[q].config.barcode # d.config.barcode

\* ensureNoDuplicatePending
NoDuplicatePending(d, others) ==
  \A q \in others : \E field \in {"action", "target", "config", "retail"} : proposals[q][field] # d[field]

\* ensureNoActiveDuplicateForApproval
NoActiveDuplicate(k, d, allowed) ==
  \A p \in ActivePacks(k, allowed) : PacksSeenBy(k)[p].config # d.config

\* What submitting and editing check; submitting allows the target no barcode.
MayPropose(k, d, allowed, others) ==
  /\ TargetFits(k, d)
  /\ IsCaseSale(d.config) => CaseBarcodeAvailable(k, d, allowed, others)
  /\ NoDuplicatePending(d, others)

\* Mutant: a proposal is applied to whatever the pack has become.
AnyVersion(k, d) == TRUE

\* The target is still the version the proposal was made for.
SameVersion(k, d) == d.target # NoPack => PacksSeenBy(k)[d.target].version = d.version

\* What applying checks.
MayApply(k, d, others) ==
  /\ TargetFits(k, d)
  /\ SameVersion(k, d)
  /\ IsCaseSale(d.config) => CaseBarcodeAvailable(k, d, d.target, others)
  /\ NoActiveDuplicate(k, d, d.target)

Pending(k, todo) == {q \in DOMAIN proposals : PendingFor(k, todo, q)}

VersionOf(target) == IF target = NoPack THEN 0 ELSE packs[target].version

-----------------------------------------------------------------------------
(* Requests: what they read first *)

Request(kind, q, d) ==
  [kind |-> kind, q |-> q, d |-> d, at |-> "save", todo |-> {}, batch |-> NoRows,
   wanted |-> {}, counted |-> 0]

\* What is proposed, for the version the target has; what the row says.
Versioned(d) ==
  [action |-> d.action, target |-> d.target, config |-> d.config, retail |-> d.retail,
   version |-> VersionOf(d.target)]
ProposalRow(d, status, by) ==
  [action |-> d.action, target |-> d.target, config |-> d.config, retail |-> d.retail, version |-> d.version,
   status |-> status, by |-> by]

AskSubmit(k) ==
  \E d \in PackDtos :
    /\ Len(proposals) < MaxProposals
    /\ MayPropose(k, d, NoPack, Pending(k, {}))
    /\ Begin(k, Request("submit", 0, Versioned(d)))

AskEdit(k) ==
  \E q \in DOMAIN proposals, d \in PackDtos :
    /\ MayReview(k, "edit", q)
    /\ MayPropose(k, d, d.target, Pending(k, {}) \ {q})
    /\ Begin(k, Request("edit", q, Versioned(d)))

AskReject(k) ==
  \E q \in DOMAIN proposals :
    MayReview(k, "reject", q) /\ Begin(k, Request("reject", q, proposals[q]))

AskApprove(k) ==
  \E q \in DOMAIN proposals :
    /\ MayReview(k, "approve", q)
    /\ MayApply(k, proposals[q], Pending(k, {}) \ {q})
    /\ Begin(k, [Request("approve", q, proposals[q]) EXCEPT !.at = "pack"])

-----------------------------------------------------------------------------
(* Writing proposals *)

SubmitProposal(k) ==
  /\ At(k, {"submit"}, "save")
  /\ Len(proposals) < MaxProposals
  /\ Succeed(k, Append(proposals, ProposalRow(review[k].d, "PENDING", k)), {})

\* The UPDATE leaves the status and the submitter alone, whatever they are by now.
UpdateProposal(k) ==
  /\ At(k, {"edit"}, "save")
  /\ ~ProposalBusy(k, review[k].q)
  /\ Succeed(k, [proposals EXCEPT ![review[k].q] = ProposalRow(review[k].d, @.status, @.by)], {})

RejectProposal(k) ==
  /\ At(k, {"reject"}, "save")
  /\ ~ProposalBusy(k, review[k].q)
  /\ Succeed(k, [proposals EXCEPT ![review[k].q].status = "REJECTED"], {})

-----------------------------------------------------------------------------
(* Applying a proposal *)

\* UPDATE, DEACTIVATE, REACTIVATE; the database counts the version.
ChangedPack(q, d, before) ==
  [config |-> IF d.action = "DEACTIVATE" THEN before.config ELSE d.config,
   active |-> d.action # "DEACTIVATE", version |-> before.version + 1, from |-> q]

CreatedPack(q, d) == [config |-> d.config, active |-> TRUE, version |-> 1, from |-> q]

StagedWith(k, p, row) ==
  [o \in DOMAIN staged[k] \cup {p} |-> IF o = p THEN row ELSE staged[k][o]]

\* INSERT or UPDATE of the pack, which waits for the row and, by the unique index
\* on approvedFromProposalId, for another pack made from the same proposal.
WritePack(k) ==
  /\ At(k, {"approve", "batch"}, "pack")
  /\ LET q == review[k].q
         d == review[k].d
         p == IF d.action = "CREATE" THEN q ELSE d.target
         row == IF d.action = "CREATE" THEN CreatedPack(q, d) ELSE ChangedPack(q, d, PacksSeenBy(k)[p])
     IN /\ ~PackBusy(k, p)
        /\ \A other \in DOMAIN packs \ {p} : packs[other] # NoPack => packs[other].from # q
        /\ d.action = "CREATE" => packs[p] = NoPack
        /\ staged' = [staged EXCEPT ![k] = StagedWith(k, p, row)]
  /\ Goto(k, [review[k] EXCEPT !.at = "save"])
  /\ UNCHANGED <<packRows, packGhosts>>

ApproveProposal(k) ==
  /\ At(k, {"approve"}, "save")
  /\ ~ProposalBusy(k, review[k].q)
  /\ Succeed(k, [proposals EXCEPT ![review[k].q].status = "APPROVED"], {review[k].q})

-----------------------------------------------------------------------------
(* approveAllPendingProposals *)

\* The proposals that are named, or (without names) all.
CountPending(k) ==
  \E wanted \in SUBSET DOMAIN applied :
    LET pending == Pending(k, {}) \cap wanted IN
    /\ pending # {}
    /\ Begin(k, [Request("batch", 0, NoProposal) EXCEPT
                   !.at = "lock", !.wanted = wanted, !.counted = Cardinality(pending)])

\* SELECT ... FOR UPDATE waits for the rows that others hold, and returns those
\* that are still pending.
LockPending(k) ==
  LET pending == Pending(k, {}) \cap review[k].wanted IN
  /\ At(k, {"batch"}, "lock")
  /\ \A q \in pending : ~ProposalBusy(k, q)
  /\ Cardinality(pending) = review[k].counted
  /\ Continue(k, [Request("batch", 0, NoProposal) EXCEPT
                    !.at = "check", !.batch = [q \in pending |-> proposals[q]], !.todo = pending])

\* They are applied in the order of submittedAt.
FirstSubmitted(todo) == CHOOSE q \in todo : \A o \in todo : q <= o

\* applyPendingProposal for the next proposal: its checks
CheckNext(k) ==
  /\ At(k, {"batch"}, "check")
  /\ LET todo == review[k].todo
         q == FirstSubmitted(todo)
         d == review[k].batch[q]
     IN /\ MayReview(k, "batch", q)
        /\ MayApply(k, d, Pending(k, todo) \ {q})
        /\ Continue(k, [review[k] EXCEPT !.at = "pack", !.q = q, !.d = d])

\* ... and its UPDATE; on to the next one.
NextInBatch(k) ==
  /\ At(k, {"batch"}, "save")
  /\ review[k].todo # {review[k].q}
  /\ Continue(k, [review[k] EXCEPT !.at = "check", !.todo = @ \ {review[k].q}])

SendBatch(k) ==
  /\ At(k, {"batch"}, "save")
  /\ review[k].todo = {review[k].q}
  /\ Succeed(k, [q \in DOMAIN proposals |->
                   [proposals[q] EXCEPT !.status = IF q \in Locked(k) THEN "APPROVED" ELSE @]],
             Locked(k))

-----------------------------------------------------------------------------
PackInit ==
  /\ packs = [p \in PackRow |-> IF p \in Packs THEN InitialPack[p] ELSE NoPack]
  /\ proposals = <<>>
  /\ review = [k \in Reviewers |-> NoReview]
  /\ staged = [k \in Reviewers |-> NoRows]
  /\ writes = [p \in PackRow |-> 0]
  /\ applied = [q \in 1 .. MaxProposals |-> 0]
  /\ overtaken = [k \in Reviewers |-> FALSE]
  /\ raced = FALSE

Review(k) ==
  \/ AskSubmit(k) \/ AskEdit(k) \/ AskReject(k) \/ AskApprove(k)
  \/ SubmitProposal(k) \/ UpdateProposal(k) \/ RejectProposal(k)
  \/ WritePack(k) \/ ApproveProposal(k)
  \/ CountPending(k) \/ LockPending(k) \/ CheckNext(k) \/ NextInBatch(k) \/ SendBatch(k)
  \/ FailReview(k)

PackNext == \E k \in Reviewers : Review(k)

PackSpec == PackInit /\ [][PackNext]_packVars

-----------------------------------------------------------------------------
(* Properties *)

ActiveRows == {p \in DOMAIN packs : packs[p] # NoPack /\ packs[p].active}

\* Unless requests overlapped, a scanned case barcode means one pack, and no
\* configuration is on sale twice, although proposals for the same barcode are
\* submitted, edited, deactivated and reactivated in any order, alone or in batches.
ActivePacksDiffer ==
  ~raced =>
    \A p, o \in ActiveRows :
      p # o => ~Clash(packs[p], packs[o])

\* However the requests overlap, every change of a pack counts in its version: two
\* that check the same version and are both written leave it two higher, so that
\* a proposal made for either of the rows before is refused.
VersionsCountWrites ==
  \A p \in PackRow :
    packs[p] # NoPack =>
      packs[p].version = writes[p] + (IF p \in Packs THEN InitialPack[p].version ELSE 0)

\* A pack is changed by a proposal that was made for it as it is.  Edits, rejections,
\* approvals and batches of others may have come before, and overlapped; only what
\* succeeds while the request itself is in flight is excused (approving reads the
\* version without a lock and the UPDATE does not name it).
AppliedAsProposed ==
  \A k \in Reviewers : ~overtaken[k] =>
    \A p \in DOMAIN staged[k] : packs[p] # NoPack =>
      LET d == proposals[staged[k][p].from] IN d.target = p /\ d.version = packs[p].version

\* So the version keeps a proposal that is out of date from its pack: whatever was
\* written since is counted, and what is counted is compared.
VersionsGuardPacks == VersionsCountWrites /\ AppliedAsProposed

\* A batch applies its proposals as they are when it commits, and none that somebody
\* decided meanwhile, whoever overlaps with it.  Unless requests overlapped, no
\* decided proposal is decided again, changed or applied twice.
DecisionsHold ==
  [][/\ \A k \in Reviewers : SendBatch(k) =>
          \A q \in Locked(k) : proposals[q] = review[k].batch[q]
     /\ \A q \in DOMAIN proposals : proposals[q].status # "PENDING" =>
          raced' \/ (proposals'[q] = proposals[q] /\ applied'[q] = applied[q])]_packVars
=============================================================================
