----------------------------- MODULE Replacement -----------------------------
(***************************************************************************)
(* Records whose rows are replaced as a whole: a promotion and its         *)
(* products, a loyalty program (points or punch card) and its products or  *)
(* departments, a member of staff and the permissions of one store.        *)
(*                                                                         *)
(* An update reads the record, then deletes the rows and creates the new   *)
(* ones in one transaction; only programs and promotions also update the   *)
(* record in it.  One DELETE does not see what another transaction has     *)
(* inserted and not committed, and nobody locks the record first.          *)
(***************************************************************************)
EXTENDS FiniteSets

CONSTANTS
  Editors,     \* requests in flight
  Kinds,       \* kinds of records, among "promotion", "loyalty", "permissions"
  Items,       \* products, departments or permission keys
  NoRecord,    \* there is no record
  NoEdit       \* no request in flight

ASSUME KindAssumption == Kinds \subseteq {"promotion", "loyalty", "permissions"}

VARIABLES
  kind,        \* what the record is
  record,      \* its status, and whether it is open: a promotion has a start
               \* time, a loyalty program holds for the whole store
  items,       \* its rows
  edit,        \* the request in flight: what it read and what it is about to write
  asked,       \* the rows of the last replacement that was committed
  late,        \* another request succeeded since this one read the record
  clashed      \* a late request succeeded

replacementVars == <<kind, record, items, edit, asked, late, clashed>>

\* SCHEDULED is treated as ACTIVE and INACTIVE as PAUSED.
Statuses == IF kind = "promotion" THEN {"DRAFT", "ACTIVE", "PAUSED", "ARCHIVED"} ELSE {"ACTIVE"}

\* parse: the reward products of a promotion are checked like the qualifying ones.
PromotionComplete(row, rows) == row.status = "ACTIVE" => row.open /\ rows # {}

\* parsePointsProgram, parsePunchCardProgram
ProgramComplete(row, rows) == row.open \/ rows # {}

\* What must not be empty; a member of staff may lose all permissions.
Complete(row, rows) ==
  CASE kind = "promotion" -> PromotionComplete(row, rows)
    [] kind = "loyalty" -> ProgramComplete(row, rows)
    [] OTHER -> TRUE

\* parsePermissions, ids: the rows that may be asked for
RowLists == SUBSET Items

-----------------------------------------------------------------------------
BeginEdit(e, r) ==
  /\ edit[e] = NoEdit
  /\ edit' = [edit EXCEPT ![e] = r]
  /\ UNCHANGED <<kind, record, items, asked, late, clashed>>
EditAt(e, step) == edit[e] # NoEdit /\ edit[e].step = step

\* COMMIT: rows deleted here are gone for the transactions that wait for them.
Commit(e) ==
  /\ edit' = [o \in Editors |->
                IF o = e \/ edit[o] = NoEdit THEN NoEdit
                ELSE IF edit[o].step = "save" /\ edit[e].step = "save" THEN [edit[o] EXCEPT !.old = {}]
                ELSE edit[o]]
  /\ late' = [o \in Editors |-> o # e /\ edit[o] # NoEdit]
  /\ clashed' = (clashed \/ late[e])
  /\ UNCHANGED kind

FailEdit(e) ==
  /\ edit[e] # NoEdit
  /\ edit' = [edit EXCEPT ![e] = NoEdit]
  /\ late' = [late EXCEPT ![e] = FALSE]
  /\ UNCHANGED <<kind, record, items, asked, clashed>>

Edit(step, row, rows) == [step |-> step, row |-> row, rows |-> rows, old |-> {}]

-----------------------------------------------------------------------------
Create(e, row, rows) ==
  /\ edit[e] = NoEdit
  /\ record = NoRecord
  /\ Complete(row, rows)
  /\ record' = row
  /\ items' = rows
  /\ asked' = rows
  /\ late' = [o \in Editors |-> o # e /\ edit[o] # NoEdit]
  /\ UNCHANGED <<kind, edit, clashed>>

\* "Archived promotions cannot be edited", "... reactivated".
Editable == record # NoRecord /\ record.status # "ARCHIVED"

\* The input of a promotion is laid over what was read.
AskUpdate(e, row, rows) ==
  /\ Editable
  /\ Complete(row, rows)
  /\ BeginEdit(e, Edit("delete", row, rows))

\* Mutant: the rows stay.
KeepRows == {}

\* The rows that are committed when deleteMany starts.
OldRows == items

DeleteRows(e) ==
  /\ EditAt(e, "delete")
  /\ edit' = [edit EXCEPT ![e] = [@ EXCEPT !.step = "save", !.old = OldRows]]
  /\ UNCHANGED <<kind, record, items, asked, late, clashed>>

\* Rows that another transaction has inserted since this one deleted what it saw
Kept(e) == items \ edit[e].old

InsertRows(e) ==
  /\ EditAt(e, "save")
  /\ record # NoRecord
  /\ items' = Kept(e) \cup edit[e].rows
  /\ asked' = edit[e].rows
  /\ Commit(e)

\* The new rows must not collide with those that were kept.
Replace(e) ==
  /\ kind # "permissions"
  /\ InsertRows(e)
  /\ edit[e].rows \cap Kept(e) = {}
  /\ record' = edit[e].row

\* createMany skips duplicates.
ReplacePermissions(e) ==
  /\ kind = "permissions"
  /\ UNCHANGED record
  /\ InsertRows(e)

-----------------------------------------------------------------------------
(* Promotions only *)

MayRun(row) == Complete(row, items)

AskTransition(e, status) ==
  LET row == [record EXCEPT !.status = status] IN
  /\ kind = "promotion"
  /\ Editable
  /\ status = "ACTIVE" => MayRun(row)
  /\ BeginEdit(e, Edit("transition", row, {}))

\* Only the status is written.
Transition(e) ==
  /\ EditAt(e, "transition")
  /\ record # NoRecord
  /\ record' = [record EXCEPT !.status = edit[e].row.status]
  /\ UNCHANGED <<items, asked>>
  /\ Commit(e)

\* remove archives what is no draft.
AskRemove(e) ==
  /\ kind = "promotion"
  /\ Editable
  /\ record.status = "DRAFT"
  /\ BeginEdit(e, Edit("remove", record, {}))

Remove(e) ==
  /\ EditAt(e, "remove")
  /\ record # NoRecord
  /\ record' = NoRecord
  /\ items' = {}
  /\ asked' = {}
  /\ Commit(e)

-----------------------------------------------------------------------------
ReplacementInit ==
  /\ kind \in Kinds
  /\ record = NoRecord
  /\ items = {}
  /\ edit = [e \in Editors |-> NoEdit]
  /\ asked = {}
  /\ late = [e \in Editors |-> FALSE]
  /\ clashed = FALSE

Maintain(e) ==
  \/ \E status \in Statuses, open \in BOOLEAN, rows \in RowLists :
       LET row == [status |-> status, open |-> open] IN
       Create(e, row, rows) \/ AskUpdate(e, row, rows)
  \/ DeleteRows(e) \/ Replace(e) \/ ReplacePermissions(e)
  \/ \E status \in {"ACTIVE", "PAUSED", "ARCHIVED"} : AskTransition(e, status)
  \/ Transition(e) \/ AskRemove(e) \/ Remove(e)
  \/ FailEdit(e)

ReplacementNext == \E e \in Editors : Maintain(e)

ReplacementSpec == ReplacementInit /\ [][ReplacementNext]_replacementVars

-----------------------------------------------------------------------------
(* Properties *)

\* A promotion that runs has a start time and products, unless requests overlapped;
\* a loyalty program that needs products or departments has some, even if they
\* did: whoever wrote the record last wrote rows with it.
Whole ==
  record # NoRecord /\ (kind = "promotion" => ~clashed) => Complete(record, items)

\* The rows of the last replacement are there, whoever else replaced them at the
\* same time, and no others unless requests overlapped.
AsAsked == asked \subseteq items /\ (~clashed => items = asked)

\* A record and the rows that are replaced under it belong together.
RecordIsComplete == Whole /\ AsAsked
=============================================================================
