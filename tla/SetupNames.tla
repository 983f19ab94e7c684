----------------------------- MODULE SetupNames -----------------------------
(***************************************************************************)
(* Names in the tables a store is set up with: departments, price groups,  *)
(* taxes, categories (per department) and the reasons for adjustments and  *)
(* refunds.  A request reads the names there are and compares them without *)
(* regard to case; the database compares them exactly, but for reasons,    *)
(* whose normalised name is a column of its own.                           *)
(***************************************************************************)
EXTENDS Naturals, FiniteSets

CONSTANTS
  Namers,      \* requests in flight
  Tables,      \* a subset of {"department", "category", "plain", "reason"}; price
               \* groups and taxes are "plain"
  Entries,     \* rows of the table
  Words,       \* names up to case and space
  Scopes,      \* departments, for categories
  NoEntry,     \* there is no such row
  NoNaming     \* no request in flight

VARIABLES
  table,       \* which table this is
  entries,     \* rows: name, scope
  naming,      \* each request: the row, and what it is about to write
  outrun,      \* another request succeeded since this one compared
  rushed,      \* such a request succeeded
  loose        \* rows whose name or department was set without comparing

namesVars == <<table, entries, naming, outrun, rushed, loose>>

\* What is typed in: capitals, and spaces at the ends or twice in between.
RawNames == [word : Words, upper : BOOLEAN, spaced : BOOLEAN]

\* normalizeDepartmentName and the others drop the spaces ...
Tidy(name) == [name EXCEPT !.spaced = FALSE]

\* ... and normalizeNameForUniqueConstraint the capitals too.
Folded(name) == name.word

TableScopes == IF table = "category" THEN Scopes ELSE {CHOOSE s \in Scopes : TRUE}

Others(scope, e) == {o \in Entries \ {e} : entries[o] # NoEntry /\ entries[o].scope = scope}

-----------------------------------------------------------------------------
\* Mutant: names are compared as they are.
NoneIsEqual(e, name, scope) == \A o \in Others(scope, e) : entries[o].name # name

\* Only for departments the names in the table are compared with their spaces.
DepartmentNameAvailable(e, name, scope) ==
  \A o \in Others(scope, e) : entries[o].name.spaced \/ Folded(entries[o].name) # Folded(name)

\* ensureTaxNameAvailable and the others
NameAvailable(e, name, scope) ==
  \A o \in Others(scope, e) : Folded(entries[o].name) # Folded(name)

\* The unique indexes
Unique(e, row) ==
  \A o \in Others(row.scope, e) :
    /\ entries[o].name # row.name
    /\ table = "reason" => Folded(entries[o].name) # Folded(row.name)

AskName(n, e, name, scope, unchecked) ==
  /\ naming[n] = NoNaming
  /\ naming' = [naming EXCEPT ![n] = [entry |-> e, row |-> [name |-> name, scope |-> scope],
                                      new |-> entries[e] = NoEntry, loose |-> unchecked]]
  /\ UNCHANGED <<table, entries, outrun, rushed, loose>>

\* The create and update operations
GiveName(n, e, raw, scope) ==
  /\ table # "reason"
  /\ IF table = "department" THEN DepartmentNameAvailable(e, Tidy(raw), scope)
                             ELSE NameAvailable(e, Tidy(raw), scope)
  /\ AskName(n, e, Tidy(raw), scope, FALSE)

\* Reasons are only created.
CreateReason(n, e, raw, scope) ==
  /\ table = "reason"
  /\ entries[e] = NoEntry
  /\ NameAvailable(e, Tidy(raw), scope)
  /\ AskName(n, e, Tidy(raw), scope, FALSE)

\* updateDepartment of the older route
RenameDepartment(n, e, raw) ==
  /\ table = "department"
  /\ entries[e] # NoEntry
  /\ AskName(n, e, raw, entries[e].scope, TRUE)

\* updateStoreCategory with a department and no name
MoveCategoryOnly(n, e, scope) ==
  /\ table = "category"
  /\ entries[e] # NoEntry
  /\ AskName(n, e, entries[e].name, scope, TRUE)

WriteName(n) ==
  LET w == naming[n] IN
  /\ w # NoNaming
  /\ w.new = (entries[w.entry] = NoEntry)
  /\ Unique(w.entry, w.row)
  /\ entries' = [entries EXCEPT ![w.entry] = w.row]
  /\ loose' = IF w.loose THEN loose \cup {w.entry} ELSE loose \ {w.entry}
  /\ outrun' = [o \in Namers |-> IF o = n THEN FALSE ELSE outrun[o] \/ naming[o] # NoNaming]
  /\ rushed' = (rushed \/ outrun[n])
  /\ naming' = [naming EXCEPT ![n] = NoNaming]
  /\ UNCHANGED table

\* "... already exists", and every other error
RefuseName(n) ==
  /\ naming[n] # NoNaming
  /\ naming' = [naming EXCEPT ![n] = NoNaming]
  /\ outrun' = [outrun EXCEPT ![n] = FALSE]
  /\ UNCHANGED <<table, entries, rushed, loose>>

-----------------------------------------------------------------------------
NamesInit ==
  /\ table \in Tables
  /\ entries = [e \in Entries |-> NoEntry]
  /\ naming = [n \in Namers |-> NoNaming]
  /\ outrun = [n \in Namers |-> FALSE]
  /\ rushed = FALSE
  /\ loose = {}

NamesNext ==
  \E n \in Namers :
    \/ \E e \in Entries, raw \in RawNames, scope \in TableScopes :
         \/ GiveName(n, e, raw, scope) \/ CreateReason(n, e, raw, scope)
         \/ RenameDepartment(n, e, raw) \/ MoveCategoryOnly(n, e, scope)
    \/ WriteName(n) \/ RefuseName(n)

NamesSpec == NamesInit /\ [][NamesNext]_namesVars

-----------------------------------------------------------------------------
(* Properties *)

\* Two rows of a table (of a department, for categories) have names that differ in
\* more than case and spaces: two reasons whatever overlapped, others unless
\* requests overlapped or a name went the older way or moved with its category.
NamesDiffer ==
  table = "reason" \/ ~rushed =>
    \A e, o \in Entries \ loose :
      /\ e # o /\ entries[e] # NoEntry /\ entries[o] # NoEntry
      /\ entries[e].scope = entries[o].scope
      => Folded(entries[e].name) # Folded(entries[o].name)
=============================================================================
