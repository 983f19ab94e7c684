------------------------------ MODULE Catalogue ------------------------------
(***************************************************************************)
(* The catalogue of a store: products, and the departments, categories and *)
(* taxes they refer to.  Every request checks what it refers to, or that   *)
(* nothing refers to what it deletes, and then writes one row in a         *)
(* transaction that checks nothing again.  Nothing is ever deleted but in  *)
(* name: a row becomes inactive.                                           *)
(***************************************************************************)
EXTENDS Naturals, FiniteSets

CONSTANTS
  Keepers,        \* people who keep the catalogue, one request in flight each
  CatalogueItems, \* products
  Departments,    \* departments
  Categories,     \* categories
  Taxes,          \* taxes
  NoRow,          \* there is no such row
  NoCategory,     \* the product is in no category
  NoCheck         \* no request in flight

RowIds == CatalogueItems \cup Departments \cup Categories \cup Taxes

ItemRow ==
  [active : BOOLEAN, department : Departments, category : Categories \cup {NoCategory}, tax : Taxes]
DepartmentRow == [active : BOOLEAN, tax : Taxes]
CategoryRow == [active : BOOLEAN, department : Departments]
TaxRow == [active : BOOLEAN]

\* Some fields of a row.
Changes ==
  UNION {[sent -> BOOLEAN \cup RowIds \cup {NoCategory}] :
           sent \in SUBSET {"active", "department", "category", "tax"}}

CheckRecord == [row : RowIds, fields : Changes, new : BOOLEAN, deletes : BOOLEAN]

\* A row is of one table, and none is told from a row.
ASSUME CatalogueAssumption ==
  /\ CatalogueItems \cap (Departments \cup Categories \cup Taxes) = {}
  /\ Departments \cap (Categories \cup Taxes) = {} /\ Categories \cap Taxes = {}
  /\ NoCategory \notin RowIds
  /\ NoRow \notin ItemRow \cup DepartmentRow \cup CategoryRow \cup TaxRow
  /\ NoCheck \notin CheckRecord

VARIABLES
  rows,       \* every row: active; a department's tax, a category's department, and a
              \* product's department, category and tax
  check,      \* each request: the row it is about to write, and how
  deleted,    \* rows that were deleted while nothing used them
  passed,     \* another request succeeded since this one checked
  entangled   \* such a request succeeded

catalogueVars == <<rows, check, deleted, passed, entangled>>

-----------------------------------------------------------------------------
There(x) == rows[x] # NoRow
Active(x) == There(x) /\ rows[x].active

\* UPDATE of some fields.
Updated(row, fields) ==
  [field \in DOMAIN row |-> IF field \in DOMAIN fields THEN fields[field] ELSE row[field]]

\* The products in use that refer to a department, a category or a tax.
UsedBy(x) ==
  {i \in CatalogueItems :
     Active(i) /\ \E field \in {"department", "category", "tax"} : rows[i][field] = x}

\* The request has checked what it needs; the row will be updated with some fields,
\* or created with them.
Checked(k, x, fields, deletes) ==
  /\ check[k] = NoCheck
  /\ check' = [check EXCEPT ![k] = [row |-> x, fields |-> fields, new |-> ~There(x), deletes |-> deletes]]
  /\ UNCHANGED <<rows, deleted, passed, entangled>>

\* The transaction: the row must be there, or must not be there yet.
Save(k) ==
  LET c == check[k] IN
  /\ c # NoCheck
  /\ c.new = ~There(c.row)
  /\ rows' = [rows EXCEPT ![c.row] = IF c.new THEN c.fields ELSE Updated(@, c.fields)]
  /\ deleted' = IF c.deletes THEN deleted \cup {c.row}
                ELSE IF rows'[c.row].active THEN deleted \ {c.row} ELSE deleted
  /\ passed' = [o \in Keepers |-> IF o = k THEN FALSE ELSE passed[o] \/ check[o] # NoCheck]
  /\ entangled' = (entangled \/ passed[k])
  /\ check' = [check EXCEPT ![k] = NoCheck]

DropCheck(k) ==
  /\ check[k] # NoCheck
  /\ check' = [check EXCEPT ![k] = NoCheck]
  /\ passed' = [passed EXCEPT ![k] = FALSE]
  /\ UNCHANGED <<rows, deleted, entangled>>

-----------------------------------------------------------------------------
(* Products *)

\* Mutant: the category need not belong to the department.
AnyCategory(d, c) == Active(d) /\ Active(rows[d].tax) /\ (c # NoCategory => Active(c))

\* validateRelationsForStore
RelationsFit(d, c) ==
  /\ Active(d) /\ Active(rows[d].tax)
  /\ c # NoCategory => Active(c) /\ rows[c].department = d

\* The tax is the department's, and that of an existing product is only set with
\* its department.
Placed(fields) ==
  IF "department" \in DOMAIN fields
    THEN [field \in DOMAIN fields \cup {"tax"} |->
            IF field = "tax" THEN rows[fields.department].tax ELSE fields[field]]
    ELSE fields

CreateItem(k, i, d, c) ==
  /\ ~There(i)
  /\ RelationsFit(d, c)
  /\ Checked(k, i, Placed([active |-> TRUE, department |-> d, category |-> c]), FALSE)

\* parseUpdateBody: the fields that are sent, and no others, are written.
ItemChanges ==
  [department : Departments] \cup [category : Categories \cup {NoCategory}] \cup
  [department : Departments, category : Categories \cup {NoCategory}] \cup [active : BOOLEAN]

UpdateItem(k, i, fields) ==
  LET next == Updated(rows[i], fields) IN
  /\ Active(i)
  /\ RelationsFit(next.department, next.category)
  /\ Checked(k, i, Placed(fields), FALSE)

RemoveItem(k, i) == Active(i) /\ Checked(k, i, [active |-> FALSE], FALSE)

-----------------------------------------------------------------------------
(* Departments and taxes *)

CreateTax(k, t) == ~There(t) /\ Checked(k, t, [active |-> TRUE], FALSE)
UpdateTax(k, t, active) == There(t) /\ Checked(k, t, [active |-> active], FALSE)

CreateDepartment(k, d, t) ==
  ~There(d) /\ Active(t) /\ Checked(k, d, [active |-> TRUE, tax |-> t], FALSE)

\* parseUpdateDepartmentBody
DepartmentChanges ==
  [active : BOOLEAN] \cup [tax : Taxes] \cup [active : BOOLEAN, tax : Taxes]

\* The products keep the tax they have.
UpdateDepartment(k, d, fields) ==
  /\ There(d)
  /\ "tax" \in DOMAIN fields => Active(fields.tax)
  /\ Checked(k, d, fields, FALSE)

\* ensureSetupTableNotInUse
NotInUse(x) == There(x) /\ UsedBy(x) = {}

DeleteRow(k, x) == NotInUse(x) /\ Checked(k, x, [active |-> FALSE], TRUE)

\* Neither asks for the departments that refer to the tax, nor for the categories of
\* the department.
DeleteTax(k) == \E t \in Taxes : DeleteRow(k, t)
DeleteDepartment(k) == \E d \in Departments : DeleteRow(k, d)
DeleteProductCategory(k) == \E c \in Categories : DeleteRow(k, c)

-----------------------------------------------------------------------------
(* Categories *)

CreateCategory(k, c, d) ==
  ~There(c) /\ Active(d) /\ Checked(k, c, [active |-> TRUE, department |-> d], FALSE)

\* parseUpdateCategoryBody
CategoryChanges ==
  [active : BOOLEAN] \cup [department : Departments] \cup [active : BOOLEAN, department : Departments]

\* "Move products to the new department before changing this category department."
MayMove(c, d) ==
  /\ Active(d)
  /\ \A i \in CatalogueItems : There(i) /\ rows[i].category = c => rows[i].department = d

UpdateCategory(k, c, fields) ==
  /\ There(c)
  /\ "department" \in DOMAIN fields => MayMove(c, fields.department)
  /\ Checked(k, c, fields, FALSE)

-----------------------------------------------------------------------------
CatalogueInit ==
  /\ rows = [x \in RowIds |-> NoRow]
  /\ check = [k \in Keepers |-> NoCheck]
  /\ deleted = {}
  /\ passed = [k \in Keepers |-> FALSE]
  /\ entangled = FALSE

KeepItems(k) ==
  \E i \in CatalogueItems :
    \/ \E d \in Departments, c \in Categories \cup {NoCategory} :
         CreateItem(k, i, d, c)
    \/ \E fields \in ItemChanges : UpdateItem(k, i, fields)
    \/ RemoveItem(k, i)

KeepSetup(k) ==
  \/ \E t \in Taxes :
       \/ CreateTax(k, t)
       \/ \E active \in BOOLEAN : UpdateTax(k, t, active)
       \/ \E d \in Departments : CreateDepartment(k, d, t)
  \/ \E d \in Departments, fields \in DepartmentChanges : UpdateDepartment(k, d, fields)
  \/ \E c \in Categories :
       \/ \E d \in Departments : CreateCategory(k, c, d)
       \/ \E fields \in CategoryChanges : UpdateCategory(k, c, fields)
  \/ DeleteTax(k) \/ DeleteDepartment(k) \/ DeleteProductCategory(k)

CatalogueNext ==
  \E k \in Keepers : KeepItems(k) \/ KeepSetup(k) \/ Save(k) \/ DropCheck(k)

CatalogueSpec == CatalogueInit /\ [][CatalogueNext]_catalogueVars

-----------------------------------------------------------------------------
(* Properties *)

\* Unless requests overlapped: a product is in a category of its own department,
\* though products and categories move from department to department; and what a
\* product in use refers to was not deleted, though departments change their tax
\* and products keep theirs.
ReferencesFit ==
  ~entangled =>
    \A i \in CatalogueItems : There(i) =>
      /\ rows[i].category # NoCategory => rows[rows[i].category].department = rows[i].department
      /\ rows[i].active => deleted \cap {rows[i].department, rows[i].category, rows[i].tax} = {}
=============================================================================
