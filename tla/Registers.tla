------------------------------ MODULE Registers ------------------------------
(***************************************************************************)
(* The POS registers of a store: managers create, edit and revoke          *)
(* registers and their devices and ask for activation codes; a device that *)
(* is given a live code becomes a device of the code's register.           *)
(*                                                                         *)
(* Requests read before their transaction; the transactions that take more *)
(* than one statement over rows of others (retiring codes, revoking        *)
(* devices) are steps of their own.                                        *)
(***************************************************************************)
EXTENDS Naturals, Sequences, FiniteSets

CONSTANTS
  Managers,        \* people and devices, one request in flight each
  RegisterIds,     \* the registers
  Digits,          \* what a code looks like; two codes may look the same
  CandidateLimit,  \* live codes an activation looks at, newest first
  MaxCodes,        \* bound: codes ever created
  NoTask           \* no request in flight

ASSUME RegisterAssumption == CandidateLimit \in Nat /\ MaxCodes \in Nat

VARIABLES
  registers,  \* the status of each register
  codes,      \* RegisterActivationCode rows, oldest first
  devices,    \* RegisterDevice rows, with the code each was activated by
  task,       \* the request in flight and what it has read
  barred      \* the devices there were when the revocation of their register was asked for

registerRows == <<registers, codes, devices>>
registerVars == <<registerRows, task, barred>>

RegisterStatus == {"inactive", "active", "revoked"}

-----------------------------------------------------------------------------
LiveCode(c) == codes[c].state = "live"

\* Rows that the uncommitted statement of another request has updated.
CodeBusy(m, c) == \E o \in Managers \ {m} : task[o] # NoTask /\ c \in task[o].codes
DeviceBusy(m, d) == \E o \in Managers \ {m} : task[o] # NoTask /\ d \in task[o].devices

Start(m, t) == task[m] = NoTask /\ task' = [task EXCEPT ![m] = t]
Proceed(m, t) == task' = [task EXCEPT ![m] = t]
Done(m) == task' = [task EXCEPT ![m] = NoTask]
TaskAt(m, step) == task[m] # NoTask /\ task[m].step = step

Task(step, r) == [step |-> step, register |-> r, code |-> 0, codes |-> {}, devices |-> {},
                  existing |-> {}]

\* An error answer or a transaction that fails.
GiveUp(m) == task[m] # NoTask /\ Done(m) /\ UNCHANGED <<registerRows, barred>>

-----------------------------------------------------------------------------
(* Registers *)

CreateRegister(m, r) ==
  /\ task[m] = NoTask
  /\ registers[r] = "none"
  /\ registers' = [registers EXCEPT ![r] = "inactive"]
  /\ UNCHANGED <<codes, devices, task, barred>>

\* update sets any status and leaves the devices and the codes alone.
UpdateRegister(m, r, status) ==
  /\ task[m] = NoTask
  /\ registers[r] # "none"
  /\ registers' = [registers EXCEPT ![r] = status]
  /\ UNCHANGED <<codes, devices, task, barred>>

AskRevoke(m, r) ==
  /\ registers[r] # "none"
  /\ Start(m, [Task("devices", r) EXCEPT !.existing =
                 {d \in DOMAIN devices : devices[d].register = r}])
  /\ UNCHANGED <<registerRows, barred>>

\* Mutant: only the status is set.
StatusOnly(m) == {}

\* The devices the first statement of revokeRegister updates.
RevokedDevices(m) ==
  {d \in DOMAIN devices : devices[d].register = task[m].register /\ devices[d].active}

RevokeDevices(m) ==
  /\ TaskAt(m, "devices")
  /\ \A d \in RevokedDevices(m) : ~DeviceBusy(m, d)
  /\ Proceed(m, [task[m] EXCEPT !.step = "revoke", !.devices = RevokedDevices(m)])
  /\ UNCHANGED <<registerRows, barred>>

RevokeRegister(m) ==
  /\ TaskAt(m, "revoke")
  /\ registers' = [registers EXCEPT ![task[m].register] = "revoked"]
  /\ devices' = [d \in DOMAIN devices |->
                   [devices[d] EXCEPT !.active = @ /\ d \notin task[m].devices]]
  /\ barred' = barred \cup task[m].existing
  /\ Done(m)
  /\ UNCHANGED codes

RevokeDevice(m, d) ==
  /\ task[m] = NoTask
  /\ devices[d].active
  /\ ~DeviceBusy(m, d)
  /\ devices' = [devices EXCEPT ![d].active = FALSE]
  /\ UNCHANGED <<registers, codes, task, barred>>

-----------------------------------------------------------------------------
(* Activation codes *)

AskCode(m, r) ==
  /\ registers[r] \notin {"none", "revoked"}
  /\ Start(m, Task("retire", r))
  /\ UNCHANGED <<registerRows, barred>>

\* The live codes of the register are used up ...
RetireCodes(m) ==
  LET old == {c \in DOMAIN codes : codes[c].register = task[m].register /\ LiveCode(c)} IN
  /\ TaskAt(m, "retire")
  /\ \A c \in old : ~CodeBusy(m, c)
  /\ Proceed(m, [task[m] EXCEPT !.step = "create", !.codes = old])
  /\ UNCHANGED <<registerRows, barred>>

\* ... and a new one, whose digits are random, is created.
CreateCode(m, digits) ==
  /\ TaskAt(m, "create")
  /\ Len(codes) < MaxCodes
  /\ codes' = Append([c \in DOMAIN codes |->
                        IF c \in task[m].codes THEN [codes[c] EXCEPT !.state = "used"]
                                               ELSE codes[c]],
                     [register |-> task[m].register, digits |-> digits, state |-> "live"])
  /\ Done(m)
  /\ UNCHANGED <<registers, devices, barred>>

\* Fifteen minutes have passed.
ExpireCode(c) ==
  /\ LiveCode(c)
  /\ codes' = [codes EXCEPT ![c].state = "expired"]
  /\ UNCHANGED <<registers, devices, task, barred>>

-----------------------------------------------------------------------------
(* Activation *)

Newer(c) == {o \in DOMAIN codes : LiveCode(o) /\ o > c}

\* The code an activation compares equal first.
MatchingCodes(digits) ==
  {c \in DOMAIN codes : /\ LiveCode(c)
                        /\ codes[c].digits = digits
                        /\ Cardinality(Newer(c)) < CandidateLimit
                        /\ \A o \in Newer(c) : codes[o].digits # digits}

FindCode(m, digits) ==
  \E c \in MatchingCodes(digits) :
    /\ registers[codes[c].register] # "revoked"
    /\ Start(m, [Task("activate", codes[c].register) EXCEPT !.code = c])
    /\ UNCHANGED <<registerRows, barred>>

\* Mutant: the transaction does not ask again whether the code is unused.
ClaimAnyway(m, c) == ~CodeBusy(m, c)

\* updateMany ... where usedAt is null must hit the row; it waits for its lock.
ClaimCode(m, c) == LiveCode(c) /\ ~CodeBusy(m, c)

\* The register becomes active, whatever its status is by now.
Activate(m) ==
  LET c == task[m].code IN
  /\ TaskAt(m, "activate")
  /\ ClaimCode(m, c)
  /\ codes' = [codes EXCEPT ![c].state = "used"]
  /\ registers' = [registers EXCEPT ![task[m].register] = "active"]
  /\ devices' = Append(devices, [register |-> task[m].register, code |-> c, active |-> TRUE])
  /\ Done(m)
  /\ UNCHANGED barred

\* authenticateRegisterToken
Accepted(d) == devices[d].active /\ registers[devices[d].register] = "active"

-----------------------------------------------------------------------------
RegisterInit ==
  /\ registers = [r \in RegisterIds |-> "none"]
  /\ codes = <<>>
  /\ devices = <<>>
  /\ task = [m \in Managers |-> NoTask]
  /\ barred = {}

Manage(m) ==
  \/ \E r \in RegisterIds :
       \/ CreateRegister(m, r) \/ AskRevoke(m, r) \/ AskCode(m, r)
       \/ \E status \in RegisterStatus : UpdateRegister(m, r, status)
  \/ RevokeDevices(m) \/ RevokeRegister(m)
  \/ \E d \in DOMAIN devices : RevokeDevice(m, d)
  \/ RetireCodes(m) \/ Activate(m)
  \/ \E digits \in Digits : CreateCode(m, digits) \/ FindCode(m, digits)
  \/ GiveUp(m)

RegisterNext ==
  \/ \E m \in Managers : Manage(m)
  \/ \E c \in DOMAIN codes : ExpireCode(c)

RegisterSpec == RegisterInit /\ [][RegisterNext]_registerVars

-----------------------------------------------------------------------------
(* Properties *)

\* A code activates one device, although two devices may be given the same code
\* at the same time, codes are replaced while they are typed in, and codes of
\* several registers may look the same.
CodeMakesOneDevice ==
  \A d, e \in DOMAIN devices : devices[d].code = devices[e].code => d = e

\* The devices that a register had when its revocation was asked for are never
\* accepted again, not even when the register is made active again by hand, or by
\* an activation that read its status before.
RevokedStayOut == \A d \in barred : ~Accepted(d)
=============================================================================
