----------------------------- MODULE PriceGroups -----------------------------
(***************************************************************************)
(* Price groups and the number each keeps of its products whose price is   *)
(* not the group's.  The number is recounted after a change has been       *)
(* committed, outside its transaction and in three statements; every ten   *)
(* minutes a timer recounts the active groups.  The server may stop at any *)
(* time, and nothing it was about to do is done later.                     *)
(***************************************************************************)
EXTENDS Naturals, FiniteSets

CONSTANTS
  Pricers,       \* people who change products and groups, one request in flight each
  Timer,         \* PriceGroupMismatchRefreshService
  Goods,         \* products
  Groups,        \* price groups
  Prices,        \* prices
  FirstPrice,    \* the price of every group at the start
  FirstGoods,    \* rows a product may have at the start
  GoodsDtos,     \* bound: the changes of a product people ask for
  MaxChanges,    \* bound: committed changes
  MaxFailures,   \* bound: restarts and failing statements
  NoGoods,       \* the product does not exist
  NoGroup,       \* no price group
  NoJob          \* nothing in flight

GoodsRow ==
  [group : Groups \cup {NoGroup}, price : Prices \cup {FirstPrice}, active : BOOLEAN]

\* What is in flight when a change has been committed, or by the timer
Recounting ==
  [step : {"recount"}, todo : SUBSET Groups] \cup
  [step : {"count"}, group : Groups, price : Prices \cup {FirstPrice}, todo : SUBSET Groups] \cup
  [step : {"store"}, group : Groups, todo : SUBSET Groups, count : Nat]

ASSUME PriceGroupAssumption ==
  /\ IsFiniteSet(Goods)
  /\ GoodsDtos \subseteq [group : Groups \cup {NoGroup}] \cup [price : Prices] \cup
                         [group : Groups \cup {NoGroup}, price : Prices]
  /\ FirstGoods \subseteq GoodsRow \cup {NoGoods}
  /\ \A r \in FirstGoods : r # NoGoods /\ r.group # NoGroup => r.price = FirstPrice
  /\ NoGroup \notin Groups
  /\ NoGoods \notin GoodsRow
  /\ NoJob \notin Recounting

VARIABLES
  goods,      \* Product rows: group, price, active
  groups,     \* PriceGroup rows: active, price, mismatches
  job,        \* what each request and the timer have read and have left to do
  changes,    \* committed changes
  failures,   \* restarts and failures
  crossed     \* two of the requests and the timer were at work at once

groupVars == <<goods, groups, job, changes, failures, crossed>>

Workers == Pricers \cup {Timer}

-----------------------------------------------------------------------------
Mismatches(g) ==
  Cardinality({i \in Goods : goods[i] # NoGoods /\ goods[i].group = g /\ goods[i].price # groups[g].price})

Doing(w, step) == job[w] # NoJob /\ job[w].step = step

Take(w, j) ==
  /\ job[w] = NoJob
  /\ job' = [job EXCEPT ![w] = j]
  /\ crossed' = (crossed \/ \E o \in Workers \ {w} : job[o] # NoJob)
  /\ UNCHANGED <<goods, groups, changes, failures>>

\* The groups that are left to recount; none may be left.
ToRecount(todo) == IF todo = {} THEN NoJob ELSE [step |-> "recount", todo |-> todo]

Changed(w, todo) ==
  /\ changes < MaxChanges
  /\ changes' = changes + 1
  /\ job' = [job EXCEPT ![w] = ToRecount(todo)]
  /\ UNCHANGED <<failures, crossed>>

-----------------------------------------------------------------------------
(* Products *)

\* validateRelationsForStore: the group, if there is one, is active.
GroupFits(g) == g # NoGroup => groups[g].active

\* The fields that are sent are written.
Updated(row, dto) ==
  [field \in DOMAIN row |-> IF field \in DOMAIN dto THEN dto[field] ELSE row[field]]

AskChange(w, i, dto) ==
  /\ goods[i] # NoGoods /\ goods[i].active
  /\ GroupFits(Updated(goods[i], dto).group)
  /\ Take(w, [step |-> "change", item |-> i, dto |-> dto, old |-> goods[i].group])

\* remove asks for no active group.
AskRemoval(w, i) ==
  /\ goods[i] # NoGoods /\ goods[i].active
  /\ Take(w, [step |-> "remove", item |-> i, old |-> goods[i].group])

\* Mutant: only the group the product has now is recounted.
NewGroupOnly(old, new) == {new} \ {NoGroup}

\* safeRecountPriceGroups of the group that was read and the one there is now
GroupsToRecount(old, new) == {old, new} \ {NoGroup}

ChangeProduct(w) ==
  /\ Doing(w, "change")
  /\ LET row == Updated(goods[job[w].item], job[w].dto) IN
       /\ goods' = [goods EXCEPT ![job[w].item] = row]
       /\ Changed(w, GroupsToRecount(job[w].old, row.group))
  /\ UNCHANGED groups

\* The group that was read is recounted, whatever the product moved to meanwhile.
RemoveProduct(w) ==
  /\ Doing(w, "remove")
  /\ goods' = [goods EXCEPT ![job[w].item].active = FALSE]
  /\ Changed(w, {job[w].old} \ {NoGroup})
  /\ UNCHANGED groups

AskCreate(w, i, row) ==
  /\ goods[i] = NoGoods
  /\ GroupFits(row.group)
  /\ Take(w, [step |-> "create", item |-> i, row |-> row])

CreateProduct(w) ==
  /\ Doing(w, "create")
  /\ goods[job[w].item] = NoGoods
  /\ goods' = [goods EXCEPT ![job[w].item] = job[w].row]
  /\ Changed(w, {job[w].row.group} \ {NoGroup})
  /\ UNCHANGED groups

-----------------------------------------------------------------------------
(* Price groups *)

\* updateStorePriceGroup compares the new price with the one it has read.
AskGroupChange(w, g, price, active) ==
  Take(w, [step |-> "group", group |-> g, price |-> price, active |-> active,
           recount |-> IF price # groups[g].price THEN {g} ELSE {}])

ChangeGroup(w) ==
  /\ Doing(w, "group")
  /\ groups' = [groups EXCEPT ![job[w].group].price = job[w].price,
                              ![job[w].group].active = job[w].active]
  /\ Changed(w, job[w].recount)
  /\ UNCHANGED goods

DeletePriceGroup(w, g) ==
  /\ job[w] = NoJob
  /\ groups' = [groups EXCEPT ![g].active = FALSE]
  /\ Changed(w, {})
  /\ UNCHANGED goods

-----------------------------------------------------------------------------
(* Recounting *)

Step(w, j) == job' = [job EXCEPT ![w] = j] /\ UNCHANGED <<goods, changes, failures, crossed>>

\* recountPriceGroupMismatchCache reads the price of the group ...
ReadDefault(w) ==
  /\ Doing(w, "recount")
  /\ \E g \in job[w].todo :
       Step(w, [step |-> "count", group |-> g, price |-> groups[g].price, todo |-> job[w].todo \ {g}])
  /\ UNCHANGED groups

\* ... then the products, active or not ...
CountProducts(w) ==
  /\ Doing(w, "count")
  /\ Step(w, [step |-> "store", group |-> job[w].group, todo |-> job[w].todo,
              count |-> Cardinality({i \in Goods : /\ goods[i] # NoGoods
                                                   /\ goods[i].group = job[w].group
                                                   /\ goods[i].price # job[w].price})])
  /\ UNCHANGED groups

\* ... and stores the count.
StoreCount(w) ==
  /\ Doing(w, "store")
  /\ groups' = [groups EXCEPT ![job[w].group].mismatches = job[w].count]
  /\ Step(w, ToRecount(job[w].todo))

Interrupted == failures < MaxFailures /\ failures' = failures + 1 /\ UNCHANGED <<goods, groups, changes, crossed>>

\* A recount that fails is logged and skipped.
SkipRecount(w) ==
  /\ Doing(w, "count") \/ Doing(w, "store")
  /\ Interrupted
  /\ job' = [job EXCEPT ![w] = ToRecount(job[w].todo)]

\* A request is refused, or its transaction fails.
Refuse(w) ==
  /\ job[w] # NoJob /\ ~Doing(w, "recount") /\ ~Doing(w, "count") /\ ~Doing(w, "store")
  /\ job' = [job EXCEPT ![w] = NoJob]
  /\ UNCHANGED <<goods, groups, changes, failures, crossed>>

Restart == Interrupted /\ job' = [w \in Workers |-> NoJob]

-----------------------------------------------------------------------------
(* The timer *)

\* Mutant: only groups that had mismatches are looked at again.
GroupsWithMismatches == {g \in Groups : groups[g].active /\ groups[g].mismatches > 0}

RefreshedGroups == {g \in Groups : groups[g].active}

\* refresh, unless the one before is still running
Refresh == RefreshedGroups # {} /\ Take(Timer, ToRecount(RefreshedGroups))

-----------------------------------------------------------------------------
GroupInit ==
  /\ goods \in [Goods -> FirstGoods]
  /\ groups = [g \in Groups |-> [active |-> TRUE, price |-> FirstPrice, mismatches |-> 0]]
  /\ job = [w \in Workers |-> NoJob]
  /\ changes = 0
  /\ failures = 0
  /\ crossed = FALSE

AskGroups(w) ==
  /\ changes < MaxChanges
  /\ \/ \E i \in Goods :
          \/ \E dto \in GoodsDtos : AskChange(w, i, dto)
          \/ AskRemoval(w, i)
          \/ \E g \in Groups \cup {NoGroup}, p \in Prices :
               AskCreate(w, i, [group |-> g, price |-> p, active |-> TRUE])
     \/ \E g \in Groups, p \in Prices, active \in BOOLEAN : AskGroupChange(w, g, p, active)
     \/ \E g \in Groups : DeletePriceGroup(w, g)

Carry(w) ==
  \/ ChangeProduct(w) \/ RemoveProduct(w) \/ CreateProduct(w) \/ ChangeGroup(w)
  \/ ReadDefault(w) \/ CountProducts(w) \/ StoreCount(w) \/ Refuse(w)

GroupNext ==
  \/ \E w \in Pricers : AskGroups(w)
  \/ \E w \in Workers : Carry(w) \/ SkipRecount(w)
  \/ Refresh
  \/ Restart

\* What was begun goes on, and the timer of setInterval fires again and again.
GroupFairness == WF_groupVars(Refresh) /\ \A w \in Workers : WF_groupVars(Carry(w))

GroupSpec == GroupInit /\ [][GroupNext]_groupVars /\ GroupFairness

-----------------------------------------------------------------------------
(* Properties *)

AtRest == \A w \in Workers : job[w] = NoJob

\* When requests came one after the other and nothing failed, the number a group
\* shows is right after each of them, also for the group a product has left.
CountFollowsChanges ==
  AtRest /\ ~crossed /\ failures = 0 => \A g \in Groups : groups[g].mismatches = Mismatches(g)

\* Whatever overlapped, failed or was cut off by a restart: once changes stop, the
\* number of every active group becomes right and stays right.
CountCatchesUp ==
  \A g \in Groups : <>[](groups[g].active => groups[g].mismatches = Mismatches(g))
=============================================================================
