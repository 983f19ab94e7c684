------------------------------- MODULE Accounts -------------------------------
(***************************************************************************)
(* An account and the links mailed to its owner: to verify the address,    *)
(* and to reset the password.                                              *)
(*                                                                         *)
(* Links are rows that are deleted and created in one transaction; the     *)
(* mail goes out after it.  Using a link reads the row first and claims it *)
(* in a transaction of its own.                                            *)
(***************************************************************************)
EXTENDS Naturals, Sequences, FiniteSets

CONSTANTS
  Visitors,     \* requests in flight
  Addresses,    \* e-mail addresses
  MaxLinks,     \* bound: links ever made
  NoAddress,    \* there is no account yet
  NoVisit       \* no request in flight

ASSUME LinkAssumption == MaxLinks \in Nat

\* No request in flight is told from every request.
ASSUME VisitAssumption ==
  NoVisit \notin [step : {"delete", "create", "mail", "claim"}, kind : {"verify", "reset"},
                  to : Addresses \cup {NoAddress}, link : Nat, deleted : SUBSET Nat]

VARIABLES
  address,      \* the address of the account and of its staff row
  verified,     \* emailVerifiedAt is set
  links,        \* EmailVerificationToken and PasswordResetToken rows
  visit,        \* each request in flight and what it has read
  used,         \* how often each link was claimed
  proven,       \* the address whose link set emailVerifiedAt
  disturbed     \* requests overlapped, or one failed half-way

accountRows == <<address, verified, links>>
accountGhosts == <<used, proven, disturbed>>
accountVars == <<accountRows, visit, accountGhosts>>

-----------------------------------------------------------------------------
LiveLink(l) == links[l].state = "live"
OnlyVisit(v) == \A o \in Visitors \ {v} : visit[o] = NoVisit

VisitAt(v, step) == visit[v] # NoVisit /\ visit[v].step = step
BeginVisit(v, t) ==
  /\ visit[v] = NoVisit
  /\ visit' = [visit EXCEPT ![v] = t]
  /\ disturbed' = (disturbed \/ ~OnlyVisit(v))
ContinueVisit(v, t) == visit' = [visit EXCEPT ![v] = t] /\ UNCHANGED disturbed
Finish(v) == visit' = [visit EXCEPT ![v] = NoVisit] /\ UNCHANGED disturbed

\* Rows that the uncommitted statement of another request has deleted.
LinkBusy(v, l) == \E o \in Visitors \ {v} : visit[o] # NoVisit /\ l \in visit[o].deleted

Visit(step, kind) == [step |-> step, kind |-> kind, to |-> NoAddress, link |-> 0, deleted |-> {}]

\* The server stops, or a statement or the mail to verify an address fails.
Abandon(v) ==
  /\ visit[v] # NoVisit
  /\ visit' = [visit EXCEPT ![v] = NoVisit]
  /\ disturbed' = TRUE
  /\ UNCHANGED <<accountRows, used, proven>>

-----------------------------------------------------------------------------
(* Accounts *)

Register(v, to) ==
  /\ address = NoAddress
  /\ BeginVisit(v, [Visit("delete", "verify") EXCEPT !.to = to])
  /\ address' = to
  /\ UNCHANGED <<verified, links, used, proven>>

\* update, updateAccount: the address changes before a link for it is made.
UpdateEmail(v, to) ==
  /\ address # NoAddress
  /\ BeginVisit(v, [Visit("delete", "verify") EXCEPT !.to = to])
  /\ address' = to
  /\ UNCHANGED <<verified, links, used, proven>>

ForgotPassword(v) ==
  /\ address # NoAddress
  /\ BeginVisit(v, [Visit("delete", "reset") EXCEPT !.to = address])
  /\ UNCHANGED <<accountRows, used, proven>>

\* Mutant: the links made before stay.
KeepLinks(kind) == {}

\* The rows of this kind that deleteMany finds.
OldLinks(kind) == {l \in DOMAIN links : links[l].kind = kind /\ links[l].state # "gone"}

DeleteLinks(v) ==
  /\ VisitAt(v, "delete")
  /\ \A l \in OldLinks(visit[v].kind) : ~LinkBusy(v, l)
  /\ ContinueVisit(v, [visit[v] EXCEPT !.step = "create", !.deleted = OldLinks(visit[v].kind)])
  /\ UNCHANGED <<accountRows, used, proven>>

\* A link to verify an address makes the account unverified in the same transaction.
CreateLink(v) ==
  /\ VisitAt(v, "create")
  /\ Len(links) < MaxLinks
  /\ links' = Append([l \in DOMAIN links |->
                        IF l \in visit[v].deleted THEN [links[l] EXCEPT !.state = "gone"]
                                                  ELSE links[l]],
                     [kind |-> visit[v].kind, to |-> visit[v].to, state |-> "live", mailed |-> FALSE])
  /\ verified' = (verified /\ visit[v].kind = "reset")
  /\ ContinueVisit(v, [visit[v] EXCEPT !.step = "mail", !.link = Len(links) + 1, !.deleted = {}])
  /\ UNCHANGED <<address, used, proven>>

SendMail(v) ==
  /\ VisitAt(v, "mail")
  /\ links' = [links EXCEPT ![visit[v].link].mailed = TRUE]
  /\ Finish(v)
  /\ UNCHANGED <<address, verified, used, proven>>

\* A reset link that could not be mailed is deleted again.
ResetMailFails(v) ==
  /\ VisitAt(v, "mail")
  /\ visit[v].kind = "reset"
  /\ ~LinkBusy(v, visit[v].link)
  /\ links' = [links EXCEPT ![visit[v].link].state = "gone"]
  /\ Finish(v)
  /\ UNCHANGED <<address, verified, used, proven>>

\* One to verify an address stays, unknown to everybody.
VerificationMailFails(v) ==
  /\ VisitAt(v, "mail")
  /\ visit[v].kind = "verify"
  /\ Finish(v)
  /\ UNCHANGED <<accountRows, used, proven>>

ExpireLink(l) ==
  /\ LiveLink(l)
  /\ links' = [links EXCEPT ![l].state = "expired"]
  /\ UNCHANGED <<address, verified, visit, accountGhosts>>

-----------------------------------------------------------------------------
(* Using a link *)

OpenLink(v, l) ==
  /\ links[l].mailed
  /\ LiveLink(l)
  /\ BeginVisit(v, [Visit("claim", links[l].kind) EXCEPT !.link = l])
  /\ UNCHANGED <<accountRows, used, proven>>

\* Mutant: the transaction trusts what was read before it.
ClaimRead(v, l) == ~LinkBusy(v, l)

\* updateMany ... where usedAt is null must hit the row.
Claim(v, l) == LiveLink(l) /\ ~LinkBusy(v, l)

ClaimLink(v) ==
  LET l == visit[v].link IN
  /\ VisitAt(v, "claim")
  /\ Claim(v, l)
  /\ links' = [links EXCEPT ![l].state = "gone"]
  /\ used' = [used EXCEPT ![l] = @ + 1]
  /\ Finish(v)
  /\ UNCHANGED address

VerifyEmail(v) ==
  /\ ClaimLink(v)
  /\ visit[v].kind = "verify"
  /\ verified' = TRUE
  /\ proven' = links[visit[v].link].to

ResetPassword(v) ==
  /\ ClaimLink(v)
  /\ visit[v].kind = "reset"
  /\ UNCHANGED <<verified, proven>>

\* login: "Please verify your email before logging in".
MayLogIn == address # NoAddress /\ verified

-----------------------------------------------------------------------------
AccountInit ==
  /\ address = NoAddress
  /\ verified = FALSE
  /\ links = <<>>
  /\ visit = [v \in Visitors |-> NoVisit]
  /\ used = [l \in 1 .. MaxLinks |-> 0]
  /\ proven = NoAddress
  /\ disturbed = FALSE

Serve(v) ==
  \/ \E to \in Addresses : Register(v, to) \/ UpdateEmail(v, to)
  \/ ForgotPassword(v)
  \/ DeleteLinks(v) \/ CreateLink(v) \/ SendMail(v) \/ ResetMailFails(v) \/ VerificationMailFails(v)
  \/ \E l \in DOMAIN links : OpenLink(v, l)
  \/ VerifyEmail(v) \/ ResetPassword(v)
  \/ Abandon(v)

AccountNext ==
  \/ \E v \in Visitors : Serve(v)
  \/ \E l \in DOMAIN links : ExpireLink(l)

AccountSpec == AccountInit /\ [][AccountNext]_accountVars

-----------------------------------------------------------------------------
(* Properties *)

Quiet == ~disturbed /\ \A v \in Visitors : visit[v] = NoVisit

\* However often a link is opened, and at the same time, it resets the password or
\* verifies an address once.
LinksWorkOnce == \A l \in DOMAIN links : used[l] <= 1

\* Between requests that did not overlap or fail half-way, an account that may log
\* in has an address that was verified by a link mailed to that address, however
\* often the address changed.
VerifiedIsProven == Quiet /\ MayLogIn => proven = address
=============================================================================
