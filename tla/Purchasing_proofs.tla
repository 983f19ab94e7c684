-------------------------- MODULE Purchasing_proofs --------------------------
(***************************************************************************)
(* For any number of clerks, products and edits: until an edit is saved    *)
(* over one it had not read, the movements booked for a purchase add up to *)
(* its items, and a purchase that was verified or voided stays as it is.   *)
(***************************************************************************)
EXTENDS Purchasing, FiniteSetTheorems, WellFoundedInduction, TLAPS

-----------------------------------------------------------------------------
(* Amounts: the effects of finitely many items are whole numbers           *)

PickRow(s) == CHOOSE r \in s : TRUE

\* What f must be to be the sum over every subset of S.
SumAt(f, s) == IF s = {} THEN 0 ELSE Units(PickRow(s).line) + f[s \ {PickRow(s)}]
Sums(f, S) == f = [s \in SUBSET S |-> SumAt(f, s)]

Small(S, n) == {s \in SUBSET S : Cardinality(s) <= n}
SmallSums(f, S, n) == f \in [Small(S, n) -> Int] /\ \A s \in Small(S, n) : f[s] = SumAt(f, s)

\* A set of natural numbers that holds 0 and with a number the next one holds them all.
LEMMA AllNumbers ==
  ASSUME NEW N, 0 \in N, \A n \in Nat : n \in N => n + 1 \in N
  PROVE  Nat \subseteq N
<1> DEFINE missing == Nat \ N
<1>1. SUFFICES ASSUME missing # {} PROVE FALSE
  OBVIOUS
<1>2. PICK m \in missing : \A n \in missing : ~(<<n, m>> \in OpToRel(<, Nat))
  <2>1. IsWellFoundedOn(OpToRel(<, Nat), Nat)
    BY NatLessThanWellFounded
  <2>2. missing \subseteq Nat
    OBVIOUS
  <2> HIDE DEF missing
  <2> QED
    BY <1>1, <2>1, <2>2, WFMin, Zenon
<1>3. \A n \in missing : ~(n < m)
  BY <1>2 DEF OpToRel
<1>4. m \in Nat /\ m # 0
  BY <1>2
<1>5. m - 1 \in Nat /\ m - 1 < m /\ (m - 1) + 1 = m
  BY <1>4
<1>6. m - 1 \in N
  BY <1>3, <1>5
<1> QED
  BY <1>2, <1>5, <1>6

\* The sums over the small subsets of a finite set exist, and are whole numbers.
LEMMA SmallSumsExist ==
  ASSUME NEW S, IsFiniteSet(S), \A r \in S : Units(r.line) \in Int
  PROVE  \A n \in Nat : \E f : SmallSums(f, S, n)
<1> DEFINE N == {n \in Nat : \E f : SmallSums(f, S, n)}
<1>1. \A s \in SUBSET S : IsFiniteSet(s) /\ Cardinality(s) \in Nat /\ (Cardinality(s) = 0 <=> s = {})
  BY FS_Subset, FS_CardinalityType, FS_EmptySet
<1>2. 0 \in N
  <2> DEFINE f == [s \in Small(S, 0) |-> 0]
  <2>1. \A s \in Small(S, 0) : s = {}
    BY <1>1 DEF Small
  <2>2. SmallSums(f, S, 0)
    BY <2>1 DEF SmallSums, SumAt
  <2> QED
    BY <2>2
<1>3. ASSUME NEW n \in Nat, n \in N PROVE n + 1 \in N
  <2>1. PICK f : SmallSums(f, S, n)
    BY <1>3
  <2> DEFINE g == [s \in Small(S, n + 1) |-> SumAt(f, s)]
  <2>2. ASSUME NEW s \in Small(S, n + 1), s # {}
        PROVE  s \ {PickRow(s)} \in Small(S, n) /\ Units(PickRow(s).line) \in Int
    <3>1. PickRow(s) \in s /\ s \in SUBSET S /\ Cardinality(s) <= n + 1
      BY <2>2 DEF PickRow, Small
    <3>2. Cardinality(s \ {PickRow(s)}) = Cardinality(s) - 1
      BY <1>1, <3>1, FS_RemoveElement
    <3>3. Cardinality(s) - 1 <= n
      BY <1>1, <3>1
    <3> QED
      BY <3>1, <3>2, <3>3 DEF Small
  <2>3. \A s \in Small(S, n + 1) : SumAt(f, s) \in Int
    BY <2>1, <2>2 DEF SumAt, SmallSums
  <2>4. Small(S, n) \subseteq Small(S, n + 1)
    BY <1>1 DEF Small
  <2>5. \A s \in Small(S, n) : g[s] = f[s]
    BY <2>1, <2>4 DEF SmallSums
  <2> HIDE DEF g
  <2>6. ASSUME NEW s \in Small(S, n + 1) PROVE SumAt(g, s) = SumAt(f, s)
    <3>1. s # {} => g[s \ {PickRow(s)}] = f[s \ {PickRow(s)}]
      BY <2>2, <2>5
    <3> QED
      BY <3>1 DEF SumAt
  <2>7. SmallSums(g, S, n + 1)
    BY <2>3, <2>6 DEF SmallSums, g
  <2> QED
    BY <2>7
<1> HIDE DEF N
<1>4. Nat \subseteq N
  BY <1>2, <1>3, AllNumbers
<1> QED
  BY <1>4 DEF N

LEMMA SumsExist ==
  ASSUME NEW S, IsFiniteSet(S), \A r \in S : Units(r.line) \in Int
  PROVE  \E f : Sums(f, S)
<1>1. Cardinality(S) \in Nat
  BY FS_CardinalityType
<1>2. PICK f : SmallSums(f, S, Cardinality(S))
  BY <1>1, SmallSumsExist
<1>3. Small(S, Cardinality(S)) = SUBSET S
  BY FS_Subset DEF Small
<1>4. f = [s \in SUBSET S |-> SumAt(f, s)]
  BY <1>2, <1>3 DEF SmallSums
<1> QED
  BY <1>4 DEF Sums

LEMMA SumsAreNumbers ==
  ASSUME NEW S, IsFiniteSet(S), \A r \in S : Units(r.line) \in Int, NEW f, Sums(f, S)
  PROVE  f[S] \in Int
<1> DEFINE N == {n \in Nat : \A s \in SUBSET S : Cardinality(s) = n => f[s] \in Int}
<1>1. \A s \in SUBSET S : IsFiniteSet(s) /\ Cardinality(s) \in Nat /\ (Cardinality(s) = 0 <=> s = {})
  BY FS_Subset, FS_CardinalityType, FS_EmptySet
<1>2. \A s \in SUBSET S : f[s] = SumAt(f, s)
  BY DEF Sums
<1>3. 0 \in N
  BY <1>1, <1>2 DEF SumAt
<1>4. ASSUME NEW n \in Nat, n \in N PROVE n + 1 \in N
  <2>1. SUFFICES ASSUME NEW s \in SUBSET S, Cardinality(s) = n + 1 PROVE f[s] \in Int
    OBVIOUS
  <2>2. s # {}
    BY <1>1, <2>1
  <2>3. PickRow(s) \in s
    BY <2>2 DEF PickRow
  <2>4. Cardinality(s \ {PickRow(s)}) = n
    BY <1>1, <2>1, <2>3, FS_RemoveElement
  <2>5. f[s \ {PickRow(s)}] \in Int
    BY <1>4, <2>4
  <2>6. Units(PickRow(s).line) \in Int
    BY <2>3
  <2>7. f[s] = Units(PickRow(s).line) + f[s \ {PickRow(s)}]
    BY <1>2, <2>2 DEF SumAt
  <2> QED
    BY <2>5, <2>6, <2>7
<1> HIDE DEF N
<1>5. Nat \subseteq N
  BY <1>3, <1>4, AllNumbers
<1> QED
  BY <1>1, <1>5 DEF N

\* The model's sum is such a sum.
LEMMA SumOfUnits ==
  ASSUME NEW S, \E f : Sums(f, S)
  PROVE  \E f : Sums(f, S) /\ MapThenSumSet(LAMBDA r : Units(r.line), S) = f[S]
<1> DEFINE g == CHOOSE f : Sums(f, S)
<1>1. Sums(g, S)
  OBVIOUS
<1>2. MapThenSumSet(LAMBDA r : Units(r.line), S) = g[S]
  BY DEF MapThenSumSet, MapThenFoldSet, Sums, SumAt, PickRow
<1> HIDE DEF g
<1> QED
  BY <1>1, <1>2

LEMMA UnitsAreNumbers == \A l \in Lines : Units(l) \in Int
<1>1. \A l \in Lines : l.quantity \in Int /\ l.unitsPerCase \in Int
  BY PurchasingAssumption DEF Line
<1>2. \A a \in {-1, 1}, b, c \in Int : a * b * c \in Int
  OBVIOUS
<1> QED
  BY <1>1, <1>2 DEF Units

LEMMA EffectsAreNumbers ==
  ASSUME NEW rows, IsFiniteSet(rows), \A r \in rows : r.line \in Lines
  PROVE  Effects(rows) \in [Products -> Int]
<1>1. ASSUME NEW p \in Products
      PROVE  MapThenSumSet(LAMBDA r : Units(r.line), {r \in rows : r.line.product = p}) \in Int
  <2> DEFINE S == {r \in rows : r.line.product = p}
  <2>1. S \in SUBSET rows
    OBVIOUS
  <2>2. IsFiniteSet(S)
    BY <2>1, FS_Subset
  <2>3. \A r \in S : Units(r.line) \in Int
    BY UnitsAreNumbers
  <2>4. \E f : Sums(f, S)
    BY <2>2, <2>3, SumsExist
  <2>5. \E f : Sums(f, S) /\ MapThenSumSet(LAMBDA r : Units(r.line), S) = f[S]
    BY <2>4, SumOfUnits
  <2>6. MapThenSumSet(LAMBDA r : Units(r.line), S) \in Int
    BY <2>2, <2>3, <2>5, SumsAreNumbers
  <2> QED
    BY <2>6
<1> QED
  BY <1>1 DEF Effects

-----------------------------------------------------------------------------
(* The inductive invariant: what an edit read is true while no edit was     *)
(* saved since                                                              *)

FiniteRows == IsFiniteSet(items) /\ \A k \in Clerks : IsFiniteSet(seenItems[k])

EditInFlight(k) == pc[k] # "idle" => purchase # NoPurchase /\ edit[k] \in Edit

\* The version tells which row it read.
RowRead(k) ==
  pc[k] \in {"items", "checked", "deleting", "deleted"} =>
    /\ seen[k] \in Row
    /\ seen[k].version <= purchase.version
    /\ seen[k].version = purchase.version => seen[k] = purchase

\* Items are only replaced with a new version.
ItemsRead(k) ==
  pc[k] \in {"checked", "deleting", "deleted"} =>
    (seen[k].version = purchase.version => seenItems[k] = items)

Checked(k) == pc[k] \in {"deleting", "deleted"} => ~Final(seen[k].status)

ReadsAreTrue == \A k \in Clerks : EditInFlight(k) /\ RowRead(k) /\ ItemsRead(k) /\ Checked(k)

PurchaseInv == PurchaseTypeOK /\ FiniteRows /\ ReadsAreTrue

-----------------------------------------------------------------------------
(* Lemmas *)

\* The other edits are left alone.
LEMMA OthersRead ==
  ASSUME PurchaseInv, NEW k \in Clerks,
         \A j \in Clerks \ {k} :
           /\ pc'[j] = pc[j] /\ edit'[j] = edit[j]
           /\ seen'[j] = seen[j] /\ seenItems'[j] = seenItems[j],
         purchase' = purchase, items' = items,
         EditInFlight(k)', RowRead(k)', ItemsRead(k)', Checked(k)'
  PROVE  ReadsAreTrue'
<1>1. ASSUME NEW j \in Clerks, j # k
      PROVE  EditInFlight(j)' /\ RowRead(j)' /\ ItemsRead(j)' /\ Checked(j)'
  BY <1>1 DEF PurchaseInv, ReadsAreTrue, EditInFlight, RowRead, ItemsRead, Checked
<1> QED
  BY <1>1 DEF ReadsAreTrue

LEMMA RowsStayFinite ==
  ASSUME PurchaseInv, items' = items \/ IsFiniteSet(items'),
         \A j \in Clerks : seenItems'[j] \in {seenItems[j], items, {}}
  PROVE  FiniteRows'
<1>1. IsFiniteSet({})
  BY FS_EmptySet
<1> QED
  BY <1>1 DEF PurchaseInv, FiniteRows

\* Lines make finitely many items.
LEMMA EnteredItems ==
  ASSUME NEW lines \in SUBSET Lines, NEW version \in Nat
  PROVE  IsFiniteSet(Entered(lines, version)) /\ Entered(lines, version) \subseteq ItemRow
<1> DEFINE f == [l \in lines |-> [line |-> l, version |-> version]]
<1>1. IsFiniteSet(lines)
  BY PurchasingAssumption, FS_Subset
<1>2. f \in Surjection(lines, Entered(lines, version))
  BY DEF Entered, Surjection
<1>3. IsFiniteSet(Entered(lines, version))
  BY <1>1, <1>2, FS_Surjection
<1> QED
  BY <1>3 DEF Entered, ItemRow

\* A request that ends has read nothing.
LEMMA Forgotten ==
  ASSUME PurchaseInv, NEW k \in Clerks, Forget(k)
  PROVE  /\ edit' \in [Clerks -> Edit \cup {NoEdit}]
         /\ pc' \in [Clerks -> {"idle", "row", "items", "checked", "deleting", "deleted"}]
         /\ seen' \in [Clerks -> Row \cup {Unread}]
         /\ seenItems' \in [Clerks -> SUBSET ItemRow]
         /\ doomed' \in [Clerks -> SUBSET ItemRow]
         /\ pc'[k] = "idle" /\ seenItems'[k] = {}
         /\ \A j \in Clerks \ {k} :
              /\ pc'[j] = pc[j] /\ edit'[j] = edit[j]
              /\ seen'[j] = seen[j] /\ seenItems'[j] = seenItems[j]
  BY DEF Forget, Goto, PurchaseInv, PurchaseTypeOK

\* The effects of the items in the tables are numbers.
LEMMA EffectsOfRows ==
  ASSUME NEW rows \in SUBSET ItemRow, IsFiniteSet(rows)
  PROVE  Effects(rows) \in [Products -> Int] /\ Nothing \in [Products -> Int]
<1>1. \A r \in rows : r.line \in Lines
  BY DEF ItemRow
<1> QED
  BY <1>1, EffectsAreNumbers DEF Nothing

-----------------------------------------------------------------------------
(* Steps *)

LEMMA InitPurchase == PurchaseInit => PurchaseInv
<1> SUFFICES ASSUME PurchaseInit PROVE PurchaseInv
  OBVIOUS
<1>1. IsFiniteSet({})
  BY FS_EmptySet
<1>2. PurchaseTypeOK
  <2>1. movements \in [Products -> Int] /\ items \subseteq ItemRow
    BY DEF PurchaseInit, Nothing
  <2>2. purchase \in Row \cup {NoPurchase} /\ raced \in BOOLEAN
    BY DEF PurchaseInit
  <2>3. /\ edit \in [Clerks -> Edit \cup {NoEdit}]
        /\ pc \in [Clerks -> {"idle", "row", "items", "checked", "deleting", "deleted"}]
        /\ seen \in [Clerks -> Row \cup {Unread}]
    BY DEF PurchaseInit
  <2>4. seenItems \in [Clerks -> SUBSET ItemRow] /\ doomed \in [Clerks -> SUBSET ItemRow]
    BY DEF PurchaseInit
  <2> QED
    BY <2>1, <2>2, <2>3, <2>4 DEF PurchaseTypeOK
<1>3. FiniteRows
  BY <1>1 DEF PurchaseInit, FiniteRows
<1>4. ReadsAreTrue
  BY DEF PurchaseInit, ReadsAreTrue, EditInFlight, RowRead, ItemsRead, Checked
<1> QED
  BY <1>2, <1>3, <1>4 DEF PurchaseInv

\* Nobody has an edit in flight when the purchase is created.
LEMMA CreateInv ==
  ASSUME PurchaseInv, NEW status \in Status, NEW lines \in SUBSET Lines, Create(status, lines)
  PROVE  PurchaseInv'
<1>1. IsFiniteSet(items') /\ items' \in SUBSET ItemRow
  BY EnteredItems DEF Create
<1>2. movements' \in [Products -> Int]
  <2>1. movements' = Effects(items') \/ movements' = Nothing
    BY DEF Create
  <2> QED
    BY <1>1, <2>1, EffectsOfRows
<1>3. /\ purchase' = [status |-> status, posted |-> status # "DRAFT", version |-> 0]
      /\ UNCHANGED <<edit, pc, seen, seenItems, doomed, raced>>
  BY DEF Create
<1>4. PurchaseTypeOK'
  BY <1>1, <1>2, <1>3 DEF PurchaseInv, PurchaseTypeOK, Row
<1>5. FiniteRows'
  BY <1>1, <1>3, RowsStayFinite
<1>6. \A k \in Clerks : pc[k] = "idle"
  BY DEF Create, PurchaseInv, ReadsAreTrue, EditInFlight
<1>7. ReadsAreTrue'
  BY <1>3, <1>6 DEF ReadsAreTrue, EditInFlight, RowRead, ItemsRead, Checked
<1> QED
  BY <1>4, <1>5, <1>7 DEF PurchaseInv

LEMMA SubmitInv ==
  ASSUME PurchaseInv, NEW k \in Clerks, NEW change \in Changes, Submit(k, change)
  PROVE  PurchaseInv'
<1>1. /\ change.status \in Status \cup {Keep}
      /\ change.lines \in {Keep} \cup SUBSET Lines
  BY PurchasingAssumption
<1>2. purchase \in Row
  BY DEF Submit, PurchaseInv, PurchaseTypeOK
<1>3. PICK opened \in {Keep, purchase.version} :
        edit' = [edit EXCEPT ![k] = [status |-> change.status, lines |-> change.lines,
                                     updatedAt |-> opened]]
  BY DEF Submit
<1>4. [status |-> change.status, lines |-> change.lines, updatedAt |-> opened] \in Edit
  BY <1>1, <1>2 DEF Edit, Row
<1>5. /\ edit' \in [Clerks -> Edit \cup {NoEdit}] /\ edit'[k] \in Edit
      /\ \A j \in Clerks \ {k} : edit'[j] = edit[j]
  BY <1>3, <1>4 DEF PurchaseInv, PurchaseTypeOK
<1>6. /\ pc' \in [Clerks -> {"idle", "row", "items", "checked", "deleting", "deleted"}]
      /\ pc'[k] = "row"
      /\ \A j \in Clerks \ {k} : pc'[j] = pc[j]
  BY DEF Submit, Goto, PurchaseInv, PurchaseTypeOK
<1>7. UNCHANGED <<purchase, items, movements, seen, seenItems, doomed, raced>>
  BY DEF Submit
<1>8. PurchaseTypeOK'
  BY <1>5, <1>6, <1>7 DEF PurchaseInv, PurchaseTypeOK
<1>9. FiniteRows'
  BY <1>7, RowsStayFinite
<1>10. EditInFlight(k)' /\ RowRead(k)' /\ ItemsRead(k)' /\ Checked(k)'
  BY <1>5, <1>6, <1>7 DEF Submit, EditInFlight, RowRead, ItemsRead, Checked
<1>11. ReadsAreTrue'
  BY <1>5, <1>6, <1>7, <1>10, OthersRead
<1> QED
  BY <1>8, <1>9, <1>11 DEF PurchaseInv

LEMMA ReadRowInv ==
  ASSUME PurchaseInv, NEW k \in Clerks, ReadRow(k)
  PROVE  PurchaseInv'
<1>1. pc[k] = "row" /\ purchase # NoPurchase /\ purchase \in Row /\ edit[k] \in Edit
  BY DEF ReadRow, At, PurchaseInv, PurchaseTypeOK, ReadsAreTrue, EditInFlight
<1>2. /\ seen' \in [Clerks -> Row \cup {Unread}] /\ seen'[k] = purchase
      /\ \A j \in Clerks \ {k} : seen'[j] = seen[j]
  BY <1>1 DEF ReadRow, PurchaseInv, PurchaseTypeOK
<1>3. /\ pc' \in [Clerks -> {"idle", "row", "items", "checked", "deleting", "deleted"}]
      /\ pc'[k] = "items"
      /\ \A j \in Clerks \ {k} : pc'[j] = pc[j]
  BY DEF ReadRow, Goto, PurchaseInv, PurchaseTypeOK
<1>4. UNCHANGED <<purchase, items, movements, edit, seenItems, doomed, raced>>
  BY DEF ReadRow
<1>5. PurchaseTypeOK'
  BY <1>2, <1>3, <1>4 DEF PurchaseInv, PurchaseTypeOK
<1>6. FiniteRows'
  BY <1>4, RowsStayFinite
<1>7. EditInFlight(k)' /\ RowRead(k)' /\ ItemsRead(k)' /\ Checked(k)'
  BY <1>1, <1>2, <1>3, <1>4 DEF EditInFlight, RowRead, ItemsRead, Checked, Row
<1>8. ReadsAreTrue'
  BY <1>2, <1>3, <1>4, <1>7, OthersRead
<1> QED
  BY <1>5, <1>6, <1>8 DEF PurchaseInv

LEMMA ReadItemsInv ==
  ASSUME PurchaseInv, NEW k \in Clerks, ReadItems(k)
  PROVE  PurchaseInv'
<1>1. pc[k] = "items" /\ EditInFlight(k) /\ RowRead(k) /\ items \in SUBSET ItemRow
  BY DEF ReadItems, At, PurchaseInv, PurchaseTypeOK, ReadsAreTrue
<1>2. /\ seenItems' \in [Clerks -> SUBSET ItemRow] /\ seenItems'[k] = items
      /\ \A j \in Clerks \ {k} : seenItems'[j] = seenItems[j]
  BY <1>1 DEF ReadItems, PurchaseInv, PurchaseTypeOK
<1>3. /\ pc' \in [Clerks -> {"idle", "row", "items", "checked", "deleting", "deleted"}]
      /\ pc'[k] = "checked"
      /\ \A j \in Clerks \ {k} : pc'[j] = pc[j]
  BY DEF ReadItems, Goto, PurchaseInv, PurchaseTypeOK
<1>4. UNCHANGED <<purchase, items, movements, edit, seen, doomed, raced>>
  BY DEF ReadItems
<1>5. PurchaseTypeOK'
  BY <1>2, <1>3, <1>4 DEF PurchaseInv, PurchaseTypeOK
<1>6. FiniteRows'
  BY <1>2, <1>4, RowsStayFinite
<1>7. EditInFlight(k)' /\ RowRead(k)' /\ ItemsRead(k)' /\ Checked(k)'
  BY <1>1, <1>2, <1>3, <1>4 DEF EditInFlight, RowRead, ItemsRead, Checked
<1>8. ReadsAreTrue'
  BY <1>2, <1>3, <1>4, <1>7, OthersRead
<1> QED
  BY <1>5, <1>6, <1>8 DEF PurchaseInv

\* What the DELETE finds matters to nothing the edit has read.
LEMMA DeleteInv ==
  ASSUME PurchaseInv, NEW k \in Clerks, DeleteItems(k) \/ ItemsDeleted(k)
  PROVE  PurchaseInv'
<1>1. /\ EditInFlight(k) /\ RowRead(k) /\ ItemsRead(k) /\ Checked(k)
      /\ pc[k] \in {"checked", "deleting"}
      /\ pc[k] = "checked" => ~Final(seen[k].status)
  BY DEF DeleteItems, ItemsDeleted, Accepted, At, PurchaseInv, ReadsAreTrue
<1>2. doomed' \in [Clerks -> SUBSET ItemRow]
  BY DEF DeleteItems, ItemsDeleted, PurchaseInv, PurchaseTypeOK
<1>3. /\ pc' \in [Clerks -> {"idle", "row", "items", "checked", "deleting", "deleted"}]
      /\ pc'[k] \in {"deleting", "deleted"}
      /\ \A j \in Clerks \ {k} : pc'[j] = pc[j]
  BY DEF DeleteItems, ItemsDeleted, Goto, PurchaseInv, PurchaseTypeOK
<1>4. UNCHANGED <<purchase, items, movements, edit, seen, seenItems, raced>>
  BY DEF DeleteItems, ItemsDeleted
<1>5. PurchaseTypeOK'
  BY <1>2, <1>3, <1>4 DEF PurchaseInv, PurchaseTypeOK
<1>6. FiniteRows'
  BY <1>4, RowsStayFinite
<1>7. EditInFlight(k)' /\ RowRead(k)' /\ ItemsRead(k)' /\ Checked(k)'
  BY <1>1, <1>3, <1>4 DEF EditInFlight, RowRead, ItemsRead, Checked
<1>8. ReadsAreTrue'
  BY <1>3, <1>4, <1>7, OthersRead
<1> QED
  BY <1>5, <1>6, <1>8 DEF PurchaseInv

LEMMA GiveUpInv ==
  ASSUME PurchaseInv, NEW k \in Clerks, Refuse(k) \/ Rollback(k)
  PROVE  PurchaseInv'
<1>1. Forget(k) /\ UNCHANGED <<purchase, items, movements, raced>>
  BY DEF Refuse, Rollback
<1>2. PurchaseTypeOK'
  BY <1>1, Forgotten DEF PurchaseInv, PurchaseTypeOK
<1>3. FiniteRows'
  BY <1>1, Forgotten, RowsStayFinite
<1>4. EditInFlight(k)' /\ RowRead(k)' /\ ItemsRead(k)' /\ Checked(k)'
  BY <1>1, Forgotten DEF EditInFlight, RowRead, ItemsRead, Checked
<1>5. ReadsAreTrue'
  BY <1>1, <1>4, Forgotten, OthersRead
<1> QED
  BY <1>2, <1>3, <1>5 DEF PurchaseInv

\* What a save finds and leaves.
LEMMA SaveStep ==
  ASSUME PurchaseInv, NEW k \in Clerks, Save(k)
  PROVE  /\ purchase \in Row /\ edit[k] \in Edit /\ ~Final(seen[k].status)
         /\ RowRead(k) /\ ItemsRead(k) /\ pc[k] \in {"checked", "deleted"}
         /\ purchase'.version = purchase.version + 1
         /\ items' \in SUBSET ItemRow /\ IsFiniteSet(items')
         /\ seenItems[k] \in SUBSET ItemRow /\ IsFiniteSet(seenItems[k])
<1>1. /\ EditInFlight(k) /\ RowRead(k) /\ ItemsRead(k) /\ Checked(k)
      /\ pc[k] \in {"checked", "deleted"}
      /\ pc[k] = "checked" => ~Final(seen[k].status)
  BY DEF Save, Ready, Accepted, At, PurchaseInv, ReadsAreTrue
<1>2. purchase \in Row /\ edit[k] \in Edit /\ ~Final(seen[k].status)
  BY <1>1 DEF EditInFlight, Checked, PurchaseInv, PurchaseTypeOK
<1>3. purchase'.version = purchase.version + 1
  BY DEF Save
<1>4. items \in SUBSET ItemRow /\ IsFiniteSet(items)
  BY DEF PurchaseInv, PurchaseTypeOK, FiniteRows
<1>5. IsFiniteSet(items \ doomed[k])
  BY <1>4, FS_Difference
<1>6. ASSUME edit[k].lines # Keep
      PROVE  /\ IsFiniteSet(Entered(edit[k].lines, purchase.version + 1))
             /\ Entered(edit[k].lines, purchase.version + 1) \subseteq ItemRow
  <2>1. edit[k].lines \in SUBSET Lines /\ purchase.version + 1 \in Nat
    BY <1>2, <1>6 DEF Edit, Row
  <2> QED
    BY <2>1, EnteredItems
<1>7. items' = ItemsAfter(k)
  BY DEF Save
<1>8. items' \in SUBSET ItemRow /\ IsFiniteSet(items')
  <2>1. CASE edit[k].lines = Keep
    <3>1. items' = items \ doomed[k]
      BY <1>7, <2>1 DEF ItemsAfter
    <3> QED
      BY <1>4, <1>5, <3>1
  <2>2. CASE edit[k].lines # Keep
    <3>1. items' = (items \ doomed[k]) \cup Entered(edit[k].lines, purchase.version + 1)
      BY <1>7, <2>2 DEF ItemsAfter
    <3>2. IsFiniteSet(items')
      BY <1>5, <1>6, <2>2, <3>1, FS_Union
    <3> QED
      BY <1>4, <1>6, <2>2, <3>1, <3>2
  <2> QED
    BY <2>1, <2>2
<1>9. seenItems[k] \in SUBSET ItemRow /\ IsFiniteSet(seenItems[k])
  BY DEF PurchaseInv, PurchaseTypeOK, FiniteRows
<1> QED
  BY <1>1, <1>2, <1>3, <1>8, <1>9

\* What a save books are numbers.
LEMMA SaveBooks ==
  ASSUME PurchaseInv, NEW k \in Clerks, Save(k)
  PROVE  LET before == IF seen[k].posted THEN Effects(seenItems[k]) ELSE Nothing
             after == IF Posts(NextStatus(k)) THEN Effects(items') ELSE Nothing
         IN  /\ before \in [Products -> Int] /\ after \in [Products -> Int]
             /\ movements' = [p \in Products |-> movements[p] + (after[p] - before[p])]
<1> DEFINE before == IF seen[k].posted THEN Effects(seenItems[k]) ELSE Nothing
           after == IF Posts(NextStatus(k)) THEN Effects(items') ELSE Nothing
<1>1. /\ Effects(items') \in [Products -> Int]
      /\ Effects(seenItems[k]) \in [Products -> Int]
      /\ Nothing \in [Products -> Int]
  BY SaveStep, EffectsOfRows
<1>2. before \in [Products -> Int] /\ after \in [Products -> Int]
  BY <1>1
<1>3. items' = ItemsAfter(k) /\ movements' = [p \in Products |-> movements[p] + Booked(k)[p]]
  BY DEF Save
<1>4. Booked(k) = [p \in Products |-> after[p] - before[p]]
  BY <1>3 DEF Booked
<1> HIDE DEF before, after
<1>5. movements' = [p \in Products |-> movements[p] + (after[p] - before[p])]
  BY <1>3, <1>4
<1> QED
  BY <1>2, <1>5 DEF before, after

\* A save gives the purchase a version nobody has read.
LEMMA SaveInv ==
  ASSUME PurchaseInv, NEW k \in Clerks, Save(k)
  PROVE  PurchaseInv'
<1>1. /\ purchase \in Row /\ edit[k] \in Edit /\ RowRead(k)
      /\ pc[k] \in {"checked", "deleted"}
      /\ purchase'.version = purchase.version + 1
      /\ items' \in SUBSET ItemRow /\ IsFiniteSet(items')
  BY SaveStep
<1>2. Forget(k)
  BY DEF Save
<1>3. purchase' \in Row
  <2>1. StatusAfter(k) \in Status
    BY <1>1 DEF StatusAfter, Edit, Row
  <2>2. seen[k] \in Row /\ PostedAfter(k) \in BOOLEAN
    BY <1>1 DEF RowRead, PostedAfter, Row, Posts
  <2>3. purchase.version + 1 \in Nat
    BY <1>1 DEF Row
  <2> QED
    BY <2>1, <2>2, <2>3 DEF Save, Row
<1>4. movements' \in [Products -> Int]
  <2> DEFINE before == IF seen[k].posted THEN Effects(seenItems[k]) ELSE Nothing
             after == IF Posts(NextStatus(k)) THEN Effects(items') ELSE Nothing
  <2>1. /\ before \in [Products -> Int] /\ after \in [Products -> Int]
        /\ movements' = [p \in Products |-> movements[p] + (after[p] - before[p])]
    BY SaveBooks
  <2>2. movements \in [Products -> Int]
    BY DEF PurchaseInv, PurchaseTypeOK
  <2> HIDE DEF before, after
  <2> QED
    BY <2>1, <2>2
<1>5. raced' \in BOOLEAN
  BY DEF Save, PurchaseInv, PurchaseTypeOK
<1>6. PurchaseTypeOK'
  BY <1>1, <1>2, <1>3, <1>4, <1>5, Forgotten DEF PurchaseInv, PurchaseTypeOK
<1>7. FiniteRows'
  BY <1>1, <1>2, Forgotten, RowsStayFinite
<1>8. ASSUME NEW j \in Clerks
      PROVE  EditInFlight(j)' /\ RowRead(j)' /\ ItemsRead(j)' /\ Checked(j)'
  <2>1. CASE j = k
    BY <1>2, <2>1, Forgotten DEF EditInFlight, RowRead, ItemsRead, Checked
  <2>2. CASE j # k
    <3>1. /\ pc'[j] = pc[j] /\ edit'[j] = edit[j]
          /\ seen'[j] = seen[j] /\ seenItems'[j] = seenItems[j]
      BY <1>2, <2>2, Forgotten
    <3>2. EditInFlight(j) /\ RowRead(j) /\ Checked(j)
      BY DEF PurchaseInv, ReadsAreTrue
    <3>3. purchase' # NoPurchase
      BY <1>3, PurchasingAssumption
    <3>4. pc[j] \in {"items", "checked", "deleting", "deleted"} =>
            seen[j] \in Row /\ seen[j].version < purchase'.version
      BY <1>1, <3>2 DEF RowRead, Row
    <3>5. pc[j] \in {"items", "checked", "deleting", "deleted"} =>
            /\ seen[j] \in Row /\ seen[j].version <= purchase'.version
            /\ seen[j].version # purchase'.version
      BY <1>3, <3>4 DEF Row
    <3> QED
      BY <3>1, <3>2, <3>3, <3>5 DEF EditInFlight, RowRead, ItemsRead, Checked
  <2> QED
    BY <2>1, <2>2
<1>9. ReadsAreTrue'
  BY <1>8 DEF ReadsAreTrue
<1> QED
  BY <1>6, <1>7, <1>9 DEF PurchaseInv

LEMMA NextPurchase == PurchaseInv /\ [PurchaseNext]_purchaseVars => PurchaseInv'
<1> SUFFICES ASSUME PurchaseInv, [PurchaseNext]_purchaseVars PROVE PurchaseInv'
  OBVIOUS
<1>1. ASSUME NEW status \in Status, NEW lines \in SUBSET Lines, Create(status, lines)
      PROVE  PurchaseInv'
  BY <1>1, CreateInv
<1>2. ASSUME NEW k \in Clerks, NEW change \in Changes, Submit(k, change)
      PROVE  PurchaseInv'
  BY <1>2, SubmitInv
<1>3. ASSUME NEW k \in Clerks, EditStep(k)
      PROVE  PurchaseInv'
  BY <1>3, ReadRowInv, ReadItemsInv, DeleteInv, SaveInv, GiveUpInv DEF EditStep
<1>4. CASE UNCHANGED purchaseVars
  BY <1>4 DEF purchaseVars, PurchaseInv, PurchaseTypeOK, FiniteRows, ReadsAreTrue, EditInFlight,
              RowRead, ItemsRead, Checked
<1> QED
  BY <1>1, <1>2, <1>3, <1>4 DEF PurchaseNext

\* Whatever the clerks do, the rows are well formed, and an edit knows the purchase and
\* its items as they are for as long as no other edit was saved since it read them.
THEOREM PurchaseInvariant == PurchaseSpec => []PurchaseInv
<1>1. PurchaseInit => PurchaseInv
  BY InitPurchase
<1>2. PurchaseInv /\ [PurchaseNext]_purchaseVars => PurchaseInv'
  BY NextPurchase
<1> QED
  BY <1>1, <1>2, PTL DEF PurchaseSpec

-----------------------------------------------------------------------------
(* The movements *)

\* A save that is not over another one saves what it read.
LEMMA SaveInTime ==
  ASSUME PurchaseInv, NEW k \in Clerks, Save(k), ~raced'
  PROVE  /\ ~raced /\ purchase \in Row /\ ~Final(purchase.status)
         /\ seen[k] = purchase /\ seenItems[k] = items
<1>1. ~raced /\ seen[k].version = purchase.version
  BY DEF Save
<1> QED
  BY <1>1, SaveStep DEF RowRead, ItemsRead

LEMMA SaveMatches ==
  ASSUME PurchaseInv, MovementsMatchItems, NEW k \in Clerks, Save(k)
  PROVE  MovementsMatchItems'
<1> DEFINE before == IF seen[k].posted THEN Effects(seenItems[k]) ELSE Nothing
           after == IF Posts(NextStatus(k)) THEN Effects(items') ELSE Nothing
<1>1. SUFFICES ASSUME ~raced'
               PROVE  /\ purchase'.posted = (purchase'.status # "DRAFT")
                      /\ movements' = IF purchase'.posted THEN Effects(items') ELSE Nothing
  BY DEF MovementsMatchItems
<1>2. /\ ~raced /\ purchase \in Row /\ seen[k] = purchase /\ seenItems[k] = items
  BY <1>1, SaveInTime
<1>3. /\ purchase.posted = (purchase.status # "DRAFT")
      /\ movements = before
  BY <1>2, PurchasingAssumption DEF MovementsMatchItems
<1>4. /\ before \in [Products -> Int] /\ after \in [Products -> Int]
      /\ movements' = [p \in Products |-> movements[p] + (after[p] - before[p])]
  BY SaveBooks
<1>5. purchase'.status = NextStatus(k) /\ purchase'.posted = PostedAfter(k)
  BY <1>2 DEF Save, StatusAfter, NextStatus
<1>6. purchase'.posted = Posts(NextStatus(k))
  BY <1>2, <1>5 DEF PostedAfter
<1>7. purchase'.posted = (purchase'.status # "DRAFT")
  BY <1>5, <1>6 DEF Posts
<1>8. after = IF purchase'.posted THEN Effects(items') ELSE Nothing
  BY <1>6
<1> HIDE DEF before, after
<1>9. movements' = after
  <2>1. \A p \in Products : before[p] + (after[p] - before[p]) = after[p]
    BY <1>4
  <2>2. movements' = [p \in Products |-> after[p]]
    BY <1>3, <1>4, <2>1
  <2> QED
    BY <1>4, <2>2
<1> QED
  BY <1>7, <1>8, <1>9

LEMMA NextMatches ==
  ASSUME PurchaseInv, MovementsMatchItems, [PurchaseNext]_purchaseVars
  PROVE  MovementsMatchItems'
<1>1. ASSUME NEW status \in Status, NEW lines \in SUBSET Lines, Create(status, lines)
      PROVE  MovementsMatchItems'
  BY <1>1 DEF Create, MovementsMatchItems
<1>2. ASSUME NEW k \in Clerks, Save(k)
      PROVE  MovementsMatchItems'
  BY <1>2, SaveMatches
<1>3. ASSUME NEW k \in Clerks, NEW change \in Changes, Submit(k, change)
      PROVE  UNCHANGED <<purchase, items, movements, raced>>
  BY <1>3 DEF Submit
<1>4. ASSUME NEW k \in Clerks, EditStep(k), ~Save(k)
      PROVE  UNCHANGED <<purchase, items, movements, raced>>
  BY <1>4 DEF EditStep, ReadRow, ReadItems, DeleteItems, ItemsDeleted, Refuse, Rollback
<1>5. UNCHANGED <<purchase, items, movements, raced>> => MovementsMatchItems'
  BY DEF MovementsMatchItems
<1> QED
  BY <1>1, <1>2, <1>3, <1>4, <1>5 DEF PurchaseNext, purchaseVars

\* For any number of clerks, products, lines and edits: until an edit is saved over one
\* it had not read, the movements booked for a purchase add up to its items.
THEOREM MovementsFollowItems == PurchaseSpec => []MovementsMatchItems
<1>1. PurchaseInit => MovementsMatchItems
  BY DEF PurchaseInit, MovementsMatchItems
<1>2. PurchaseInv /\ MovementsMatchItems /\ [PurchaseNext]_purchaseVars => MovementsMatchItems'
  BY NextMatches
<1> QED
  BY <1>1, <1>2, PurchaseInvariant, PTL DEF PurchaseSpec

-----------------------------------------------------------------------------
(* Final purchases *)

LEMMA FinalStep ==
  ASSUME PurchaseInv, [PurchaseNext]_purchaseVars,
         purchase # NoPurchase, purchase.status \in {"VERIFIED", "VOIDED"}
  PROVE  \/ UNCHANGED <<purchase, items, movements>>
         \/ \E k \in Clerks : Save(k) /\ seen[k].status \in {"DRAFT", "OPEN"}
<1>1. ASSUME NEW k \in Clerks, Save(k) PROVE seen[k].status \in {"DRAFT", "OPEN"}
  <2>1. ~Final(seen[k].status) /\ seen[k] \in Row
    BY <1>1, SaveStep DEF RowRead
  <2> QED
    BY <2>1 DEF Row, Status, Final
<1>2. ASSUME NEW k \in Clerks, NEW change \in Changes, Submit(k, change)
      PROVE  UNCHANGED <<purchase, items, movements>>
  BY <1>2 DEF Submit
<1>3. ASSUME NEW k \in Clerks, EditStep(k), ~Save(k)
      PROVE  UNCHANGED <<purchase, items, movements>>
  BY <1>3 DEF EditStep, ReadRow, ReadItems, DeleteItems, ItemsDeleted, Refuse, Rollback
<1> QED
  BY <1>1, <1>2, <1>3 DEF PurchaseNext, purchaseVars, Create

\* For any number of clerks, and however their edits were saved over each other: a purchase
\* that was verified or voided keeps its items and its movements, unless an edit is saved
\* that read it while it was not.
THEOREM FinalPurchasesStay == PurchaseSpec => FinalPurchaseKept
<1>1. PurchaseInv /\ [PurchaseNext]_purchaseVars =>
        [purchase # NoPurchase /\ purchase.status \in {"VERIFIED", "VOIDED"} =>
           \/ UNCHANGED <<purchase, items, movements>>
           \/ \E k \in Clerks : Save(k) /\ seen[k].status \in {"DRAFT", "OPEN"}]_purchaseVars
  BY FinalStep
<1> QED
  BY <1>1, PurchaseInvariant, PTL DEF PurchaseSpec, FinalPurchaseKept

=============================================================================
