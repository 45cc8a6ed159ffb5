--------------------------- MODULE AccountsProofs ---------------------------
(* Proofs about accounts and tokens, for every set of names, passwords and  *)
(* roles, every number of attempts, every set of faults and bound on them.  *)
EXTENDS Accounts, TLAPS

USE AccountsAssumption

-----------------------------------------------------------------------------
(* Types.                                                                  *)

\* A fault is counted only while the bound allows one.
LEMMA CountTyped ==
    ASSUME faults \in 0 .. MaxFaults, NEW kinds,
           NEW outcome \in Outcomes(kinds), Count(outcome)
    PROVE  /\ faults' \in 0 .. MaxFaults
           /\ outcome = "ok" \/ outcome \in kinds \intersect Faults
BY DEF Outcomes, Count

\* What the start-up registers is a registration.
LEMMA FounderTyped == Founder \in Registrations
BY DEF Founder, Registrations, Roles

\* What the variables of the process may become.
ProcessTyped ==
    /\ pc \in PCs
    /\ current \subseteq Registrations \union Verdicts
    /\ attempt \in 0 .. Attempts - 1

\* The handler ends well formed.
LEMMA FinishTyped == Finish => ProcessTyped'
BY DEF Finish, ProcessTyped, PCs

\* The handler goes on well formed.
LEMMA GotoTyped ==
    ASSUME ProcessTyped, NEW label \in PCs, Goto(label)
    PROVE  ProcessTyped'
BY DEF Goto, ProcessTyped

\* An attempt of the start-up ends well formed.
LEMMA FailedAttemptTyped == ProcessTyped /\ FailedAttempt => ProcessTyped'
<1> SUFFICES ASSUME ProcessTyped, FailedAttempt PROVE ProcessTyped'
  OBVIOUS
<1>1. CASE attempt + 1 < Attempts /\ pc' = "boot" /\ attempt' = attempt + 1 /\ UNCHANGED current
  <2>1. attempt' \in 0 .. Attempts - 1
    BY <1>1 DEF ProcessTyped
  <2> QED
    BY <1>1, <2>1 DEF ProcessTyped, PCs
<1>2. CASE Finish
  BY <1>2, FinishTyped
<1> QED
  BY <1>1, <1>2 DEF FailedAttempt

\* A record that is created is well formed.
LEMMA CreatedTyped ==
    ASSUME NEW r \in Registrations
    PROVE  [status |-> InitialStatus(r), role |-> r.role, password |-> r.password] \in Records
BY DEF Registrations, InitialStatus, Records

\* Nothing has happened yet.
LEMMA TypeInit == Init => TypeOK
BY FounderTyped DEF Init, TypeOK, PCs

\* The start-up's look-up preserves the types.
LEMMA BootTyped == TypeOK /\ Boot => TypeOK'
<1> SUFFICES ASSUME TypeOK, Boot PROVE TypeOK'
  OBVIOUS
<1>1. faults' \in 0 .. MaxFaults
  BY CountTyped DEF Boot, TypeOK
<1>2. ProcessTyped
  BY DEF ProcessTyped, TypeOK
<1>3. Finish \/ Goto("store") \/ FailedAttempt
  BY DEF Boot
<1>4. ProcessTyped'
  BY <1>2, <1>3, FinishTyped, GotoTyped, FailedAttemptTyped DEF PCs
<1> QED
  BY <1>1, <1>4 DEF Boot, store, history, TypeOK, ProcessTyped

\* Storing an account preserves the types.
LEMMA CreateUserTyped ==
    ASSUME TypeOK, NEW r \in Registrations, CreateUser(r)
    PROVE  TypeOK'
<1>1. faults' \in 0 .. MaxFaults
  BY CountTyped DEF CreateUser, TypeOK
<1>2. ProcessTyped
  BY DEF ProcessTyped, TypeOK
<1>3. Finish \/ Goto("enlist") \/ FailedAttempt
  BY DEF CreateUser
<1>4. ProcessTyped'
  BY <1>2, <1>3, FinishTyped, GotoTyped, FailedAttemptTyped DEF PCs
<1>5. account' \in [Names -> Records \union {NoAccount}] /\ confirmed' \subseteq Names
  BY CreatedTyped DEF CreateUser, TypeOK
<1> QED
  BY <1>1, <1>4, <1>5 DEF CreateUser, TypeOK, ProcessTyped

\* Listing an account preserves the types.
LEMMA EnlistTyped ==
    ASSUME TypeOK, NEW r \in Registrations, Enlist(r)
    PROVE  TypeOK'
<1>1. faults' \in 0 .. MaxFaults
  BY CountTyped DEF Enlist, TypeOK
<1>2. ProcessTyped'
  BY FinishTyped DEF Enlist
<1>3. r.name \in Names
  BY DEF Registrations
<1>4. listed' \subseteq Names /\ confirmed' \subseteq Names
  BY <1>3 DEF Enlist, QueueRead, TypeOK
<1> QED
  BY <1>1, <1>2, <1>4 DEF Enlist, TypeOK, ProcessTyped

\* Storing a verdict preserves the types: only a record gets a status.
LEMMA UpdateStatusTyped ==
    ASSUME TypeOK, NEW v \in Verdicts, UpdateStatus(v), account[v.name].status = "pending"
    PROVE  TypeOK'
<1>1. faults' \in 0 .. MaxFaults
  BY CountTyped DEF UpdateStatus, TypeOK
<1>2. ProcessTyped'
  <2>1. ProcessTyped
    BY DEF ProcessTyped, TypeOK
  <2>2. Goto("unlist") \/ Finish
    BY DEF UpdateStatus
  <2> QED
    BY <2>1, <2>2, GotoTyped, FinishTyped DEF PCs
<1>3. v.name \in Names /\ v.status \in {"approved", "rejected"}
  BY DEF Verdicts
<1>4. account[v.name] \in Records
  BY <1>3 DEF TypeOK, NoAccount
<1>5. [account[v.name] EXCEPT !.status = v.status] \in Records
  BY <1>3, <1>4 DEF Records
<1>6. account' \in [Names -> Records \union {NoAccount}]
  BY <1>3, <1>5 DEF UpdateStatus, TypeOK
<1> QED
  BY <1>1, <1>2, <1>6 DEF UpdateStatus, history, TypeOK, ProcessTyped

\* Unlisting an account preserves the types.
LEMMA UnlistTyped ==
    ASSUME TypeOK, NEW v \in Verdicts, Unlist(v)
    PROVE  TypeOK'
<1>1. faults' \in 0 .. MaxFaults
  BY CountTyped DEF Unlist, TypeOK
<1>2. ProcessTyped'
  BY FinishTyped DEF Unlist
<1>3. listed' \subseteq Names
  BY DEF Unlist, QueueRead, TypeOK
<1> QED
  BY <1>1, <1>2, <1>3 DEF Unlist, history, TypeOK, ProcessTyped

\* An account that is not absent is a registration with a status.
LEMMA RegistrationTyped ==
    ASSUME TypeOK, NEW n \in Names, account[n] # NoAccount
    PROVE  Registration(n) \in Registrations
BY DEF TypeOK, Records, Registration, Registrations

-----------------------------------------------------------------------------
(* What a handler knows at its next call.                                  *)

\* One job is in hand; only the start-up registers an administrator; a verdict is about a pending
\* account, and if it approves, what it approves was granted.
WorkOK ==
    /\ \A j, k \in current : j = k
    /\ pc = "boot" => current = {Founder}
    /\ \A r \in Registrations :
          At("store", r) /\ r.role = "admin" => r = Founder
    /\ \A v \in Verdicts :
          /\ At("settle", v) =>
                /\ account[v.name].status = "pending"
                /\ v.status = "approved" => Registration(v.name) \in granted
          /\ At("unlist", v) => account[v.name].status # "pending"

\* What is approved was granted, or is the start-up's doing.
ApprovedOK ==
    \A n \in Names :
        account[n].status = "approved" =>
            Registration(n) = Founder \/ Registration(n) \in granted

\* The inductive invariant that holds with every fault.
GrantInv == TypeOK /\ WorkOK /\ ApprovedOK /\ NoTokenWithoutApproval

\* Nothing has happened yet.
LEMMA GrantInvInit == Init => GrantInv
<1> SUFFICES ASSUME Init PROVE WorkOK /\ ApprovedOK /\ NoTokenWithoutApproval
  BY TypeInit DEF GrantInv
<1>1. WorkOK
  BY DEF Init, WorkOK, At
<1>2. ApprovedOK
  BY DEF Init, ApprovedOK, NoAccount
<1> QED
  BY <1>1, <1>2 DEF Init, NoTokenWithoutApproval

\* At the end of a handler, or of a start-up, nothing is in hand.
LEMMA FinishWork == Finish => WorkOK'
BY DEF Finish, WorkOK, At

\* A failed attempt leaves the start-up at its beginning or ends it.
LEMMA FailedAttemptWork ==
    ASSUME current = {Founder}, FailedAttempt
    PROVE  WorkOK'
<1>1. CASE pc' = "boot" /\ UNCHANGED current
  BY <1>1 DEF WorkOK, At
<1> QED
  BY <1>1, FinishWork DEF FailedAttempt

\* The start-up's look-up.
LEMMA BootGrant == GrantInv /\ Boot => GrantInv'
<1> SUFFICES ASSUME GrantInv, Boot PROVE WorkOK' /\ ApprovedOK' /\ NoTokenWithoutApproval'
  BY BootTyped DEF GrantInv
<1>1. current = {Founder}
  BY DEF GrantInv, WorkOK, Boot
<1>2. ASSUME Goto("store") PROVE WorkOK'
  BY <1>1, <1>2 DEF Goto, WorkOK, At
<1>3. WorkOK'
  BY <1>1, <1>2, FinishWork, FailedAttemptWork DEF Boot
<1>4. ApprovedOK' /\ NoTokenWithoutApproval'
  BY DEF Boot, store, history, GrantInv, ApprovedOK, NoTokenWithoutApproval, Registration
<1> QED
  BY <1>3, <1>4

\* A request to register.
LEMMA RegisterGrant ==
    ASSUME GrantInv, NEW r \in Registrations, Register(r)
    PROVE  GrantInv'
<1>1. faults' \in 0 .. MaxFaults
  BY CountTyped DEF Register, GrantInv, TypeOK
<1>2. TypeOK'
  BY <1>1 DEF Register, store, history, GrantInv, TypeOK, PCs
<1>3. WorkOK'
  BY DEF Register, WorkOK, At
<1>4. ApprovedOK' /\ NoTokenWithoutApproval'
  BY DEF Register, store, history, GrantInv, ApprovedOK, NoTokenWithoutApproval, Registration
<1> QED
  BY <1>2, <1>3, <1>4 DEF GrantInv

\* Storing an account: it is pending, or the start-up's.
LEMMA CreateUserGrant ==
    ASSUME GrantInv, NEW r \in Registrations, CreateUser(r)
    PROVE  GrantInv'
<1>1. TypeOK'
  BY CreateUserTyped DEF GrantInv
<1>2. r.role = "admin" => r = Founder
  BY DEF CreateUser, GrantInv, WorkOK
<1>3. r.name \in Names
  BY DEF Registrations
<1>4. WorkOK'
  <2>1. ASSUME Goto("enlist") PROVE WorkOK'
    BY <2>1 DEF Goto, GrantInv, WorkOK, At
  <2>2. ASSUME r.role = "admin", FailedAttempt PROVE WorkOK'
    <3>1. CASE pc' = "boot" /\ attempt' = attempt + 1 /\ UNCHANGED current
      <4>1. current = {Founder}
        BY <1>2, <2>2, <3>1 DEF CreateUser, GrantInv, WorkOK, At
      <4> QED
        BY <3>1, <4>1 DEF WorkOK, At
    <3> QED
      BY <2>2, <3>1, FinishWork DEF FailedAttempt
  <2> QED
    BY <2>1, <2>2, FinishWork DEF CreateUser
<1>5. ApprovedOK'
  <2> SUFFICES ASSUME NEW n \in Names, account'[n].status = "approved"
               PROVE  Registration(n)' = Founder \/ Registration(n)' \in granted'
    BY DEF ApprovedOK
  <2>1. granted' = granted
    BY DEF CreateUser
  <2>2. CASE account'[n] = account[n]
    BY <2>1, <2>2 DEF GrantInv, ApprovedOK, Registration
  <2>3. CASE account'[n] # account[n]
    <3>1. /\ n = r.name
          /\ account'[n] = [status |-> InitialStatus(r), role |-> r.role,
                            password |-> r.password]
      BY <1>3, <2>3 DEF CreateUser, GrantInv, TypeOK
    <3>2. r = Founder
      BY <1>2, <3>1 DEF InitialStatus
    <3> QED
      BY <3>1, <3>2 DEF Registration, Founder
  <2> QED
    BY <2>2, <2>3
<1>6. NoTokenWithoutApproval'
  BY DEF CreateUser, GrantInv, NoTokenWithoutApproval
<1> QED
  BY <1>1, <1>4, <1>5, <1>6 DEF GrantInv

\* Listing an account.
LEMMA EnlistGrant ==
    ASSUME GrantInv, NEW r \in Registrations, Enlist(r)
    PROVE  GrantInv'
<1>1. TypeOK' /\ WorkOK'
  BY EnlistTyped, FinishWork DEF Enlist, GrantInv
<1>2. ApprovedOK' /\ NoTokenWithoutApproval'
  BY DEF Enlist, GrantInv, ApprovedOK, NoTokenWithoutApproval, Registration
<1> QED
  BY <1>1, <1>2 DEF GrantInv

\* A verdict on a pending account.
LEMMA DecideGrant ==
    ASSUME GrantInv, NEW v \in Verdicts, Decide(v)
    PROVE  GrantInv'
<1>1. v.name \in Names /\ account[v.name] # NoAccount
  BY DEF Decide, Verdicts, NoAccount
<1>2. Registration(v.name) \in Registrations
  BY <1>1, RegistrationTyped DEF GrantInv
<1>3. granted \subseteq granted' /\ granted' \subseteq Registrations
  BY <1>2 DEF Decide, GrantInv, TypeOK
<1>4. TypeOK'
  BY <1>3 DEF Decide, store, GrantInv, TypeOK, PCs
<1>5. account' = account /\ tokens' = tokens /\ pc' = "settle" /\ current' = {v}
  BY DEF Decide, store
<1>6. v.status = "approved" => Registration(v.name) \in granted'
  BY DEF Decide
<1>7. WorkOK'
  BY <1>5, <1>6 DEF WorkOK, At, Decide, Registration
<1>8. ApprovedOK' /\ NoTokenWithoutApproval'
  BY <1>3, <1>5 DEF GrantInv, ApprovedOK, NoTokenWithoutApproval, Registration
<1> QED
  BY <1>4, <1>7, <1>8 DEF GrantInv

\* Storing a verdict: what becomes approved was granted.
LEMMA UpdateStatusGrant ==
    ASSUME GrantInv, NEW v \in Verdicts, UpdateStatus(v)
    PROVE  GrantInv'
<1>1. /\ account[v.name].status = "pending"
      /\ v.status = "approved" => Registration(v.name) \in granted
  BY DEF UpdateStatus, GrantInv, WorkOK
<1>2. TypeOK'
  BY <1>1, UpdateStatusTyped DEF GrantInv
<1>3. v.name \in Names /\ v.status \in {"approved", "rejected"}
  BY DEF Verdicts
<1>4. account[v.name] \in Records
  BY <1>1, <1>3 DEF GrantInv, TypeOK, NoAccount
<1>5. \A n \in Names :
         \/ account'[n] = account[n]
         \/ n = v.name /\ account'[n] = [account[n] EXCEPT !.status = v.status]
  BY <1>3 DEF UpdateStatus, GrantInv, TypeOK
<1>6. \A n \in Names : Registration(n)' = Registration(n)
  <2> SUFFICES ASSUME NEW n \in Names PROVE Registration(n)' = Registration(n)
    OBVIOUS
  <2>1. account'[n].role = account[n].role /\ account'[n].password = account[n].password
    BY <1>4, <1>5 DEF Records
  <2> QED
    BY <2>1 DEF Registration
<1>7. granted' = granted /\ tokens' = tokens
  BY DEF UpdateStatus, history
<1>8. ApprovedOK'
  <2> SUFFICES ASSUME NEW n \in Names, account'[n].status = "approved"
               PROVE  Registration(n) = Founder \/ Registration(n) \in granted
    BY <1>6, <1>7 DEF ApprovedOK
  <2>1. CASE account'[n] = account[n]
    BY <2>1 DEF GrantInv, ApprovedOK
  <2>2. CASE n = v.name /\ account'[n] = [account[n] EXCEPT !.status = v.status]
    BY <1>1, <1>4, <2>2 DEF Records
  <2> QED
    BY <1>5, <2>1, <2>2
<1>9. WorkOK'
  <2>1. ASSUME Goto("unlist"), account' = [account EXCEPT ![v.name].status = v.status]
        PROVE  WorkOK'
    <3>1. SUFFICES ASSUME NEW w \in Verdicts, w \in current
                   PROVE  account'[w.name].status # "pending"
      BY <2>1 DEF Goto, GrantInv, WorkOK, At
    <3>2. w.name = v.name \/ account'[w.name] = account[w.name]
      BY <2>1, <1>3 DEF GrantInv, TypeOK
    <3>3. v \in current /\ w = v
      BY <3>1 DEF UpdateStatus, At, GrantInv, WorkOK
    <3> QED
      BY <1>3, <1>4, <2>1, <3>3 DEF Records, GrantInv, TypeOK
  <2> QED
    BY <2>1, FinishWork DEF UpdateStatus, Applied
<1> QED
  BY <1>2, <1>7, <1>8, <1>9 DEF GrantInv, NoTokenWithoutApproval

\* Unlisting an account.
LEMMA UnlistGrant ==
    ASSUME GrantInv, NEW v \in Verdicts, Unlist(v)
    PROVE  GrantInv'
<1>1. TypeOK' /\ WorkOK'
  BY UnlistTyped, FinishWork DEF Unlist, GrantInv
<1>2. ApprovedOK' /\ NoTokenWithoutApproval'
  BY DEF Unlist, history, GrantInv, ApprovedOK, NoTokenWithoutApproval, Registration
<1> QED
  BY <1>1, <1>2 DEF GrantInv

\* A log-in gives a token for what was approved.
LEMMA LogInGrant ==
    ASSUME GrantInv, NEW n \in Names, LogIn(n)
    PROVE  GrantInv'
<1>1. Registration(n) \in Registrations
  BY RegistrationTyped DEF LogIn, GrantInv
<1>2. Registration(n) = Founder \/ Registration(n) \in granted
  BY DEF LogIn, Entitled, GrantInv, ApprovedOK
<1>3. TypeOK'
  BY <1>1 DEF LogIn, store, history, process, GrantInv, TypeOK
<1>4. WorkOK' /\ ApprovedOK'
  BY DEF LogIn, store, history, process, GrantInv, WorkOK, ApprovedOK, At, Registration
<1>5. NoTokenWithoutApproval'
  BY <1>2 DEF LogIn, history, GrantInv, NoTokenWithoutApproval
<1> QED
  BY <1>3, <1>4, <1>5 DEF GrantInv

\* The end of a token.
LEMMA ExpireGrant ==
    ASSUME GrantInv, NEW t, Expire(t)
    PROVE  GrantInv'
<1>1. TypeOK'
  BY DEF Expire, store, history, process, GrantInv, TypeOK
<1>2. WorkOK' /\ ApprovedOK' /\ NoTokenWithoutApproval'
  BY DEF Expire, store, history, process, GrantInv, WorkOK, ApprovedOK, At, Registration,
         NoTokenWithoutApproval
<1> QED
  BY <1>1, <1>2 DEF GrantInv

\* A crash and the start-up that follows it.
LEMMA CrashGrant == GrantInv /\ Crash => GrantInv'
<1> SUFFICES ASSUME GrantInv, Crash PROVE GrantInv'
  OBVIOUS
<1>1. faults' \in 0 .. MaxFaults
  BY CountTyped DEF Crash, GrantInv, TypeOK
<1>2. TypeOK'
  BY <1>1, FounderTyped DEF Crash, store, history, GrantInv, TypeOK, PCs
<1>3. WorkOK'
  BY DEF Crash, WorkOK, At
<1>4. ApprovedOK' /\ NoTokenWithoutApproval'
  BY DEF Crash, store, history, GrantInv, ApprovedOK, NoTokenWithoutApproval, Registration
<1> QED
  BY <1>2, <1>3, <1>4 DEF GrantInv

\* Every step preserves GrantInv, whatever faults occur.
LEMMA GrantInvNext == GrantInv /\ [Next]_vars => GrantInv'
<1> SUFFICES ASSUME GrantInv, [Next]_vars PROVE GrantInv'
  OBVIOUS
<1>1. CASE UNCHANGED vars
  BY <1>1 DEF vars, store, history, process, GrantInv, TypeOK, WorkOK, ApprovedOK, At,
              Registration, NoTokenWithoutApproval
<1> QED
  BY <1>1, BootGrant, RegisterGrant, CreateUserGrant, EnlistGrant, DecideGrant,
     UpdateStatusGrant, UnlistGrant, LogInGrant, ExpireGrant, CrashGrant DEF Next, Work

\* GrantInv holds in every reachable state.
LEMMA GrantInvAlways == Spec => []GrantInv
BY GrantInvInit, GrantInvNext, PTL DEF Spec

\* The state of the accounts, the list and the process is well formed.
THEOREM AccountsTypeCorrect == Spec => []TypeOK
BY GrantInvAlways, PTL DEF GrantInv

\* Nobody holds a token for anything but the start-up's account or what an
\* administrator asked to approve, whatever faults occur.
THEOREM TokensAreGranted == Spec => []NoTokenWithoutApproval
BY GrantInvAlways, PTL DEF GrantInv
-----------------------------------------------------------------------------
(* The administrator's list.                                               *)

\* A fault that cannot happen is not the outcome of a call.
LEMMA NotAnOutcome ==
    ASSUME NEW kind, kind # "ok", kind \notin Faults, NEW kinds
    PROVE  kind \notin Outcomes(kinds)
BY DEF Outcomes

\* Confirmed names are left alone but by storing a new account for one.
ListInv == GrantInv /\ PendingIsShown

\* A step that changes neither the accounts nor what is confirmed, and takes
\* nothing off the list but a name with a verdict, keeps the list complete.
LEMMA ListKept ==
    ASSUME PendingIsShown, account' = account, confirmed' = confirmed,
           \A n \in listed : n \in listed' \/ account[n].status # "pending"
    PROVE  PendingIsShown'
BY DEF PendingIsShown, Shown

\* Every step preserves ListInv, if the list is never read with an error status.
LEMMA ListInvNext ==
    ASSUME "queue_misread" \notin Faults
    PROVE  ListInv /\ [Next]_vars => ListInv'
<1> SUFFICES ASSUME ListInv, [Next]_vars PROVE PendingIsShown'
  BY GrantInvNext DEF ListInv
<1>1. PendingIsShown /\ GrantInv
  BY DEF ListInv
<1>2. CASE Boot \/ (\E r \in Registrations : Register(r)) \/ (\E v \in Verdicts : Decide(v))
           \/ (\E n \in Names : LogIn(n)) \/ (\E t \in tokens : Expire(t)) \/ Crash
           \/ UNCHANGED vars
  <2>1. account' = account /\ confirmed' = confirmed /\ listed' = listed
    BY <1>2 DEF Boot, Register, Decide, LogIn, Expire, Crash, vars, store, history
  <2> QED
    BY <1>1, <2>1, ListKept
<1>3. ASSUME NEW r \in Registrations, CreateUser(r) PROVE PendingIsShown'
  <2> SUFFICES ASSUME NEW n \in confirmed', account'[n].status = "pending"
               PROVE  n \in listed'
    BY DEF PendingIsShown, Shown
  <2>1. listed' = listed
    BY <1>3 DEF CreateUser
  <2>2. n \in confirmed /\ account'[n] = account[n]
    BY <1>1, <1>3 DEF CreateUser, GrantInv, TypeOK
  <2> QED
    BY <1>1, <2>1, <2>2 DEF PendingIsShown, Shown
<1>4. ASSUME NEW r \in Registrations, Enlist(r) PROVE PendingIsShown'
  <2>1. PICK outcome \in Outcomes(QueueFaults) :
           /\ listed' = IF Applied(outcome) THEN QueueRead(outcome) \union {r.name} ELSE listed
           /\ confirmed' = IF Confirms(outcome) THEN confirmed \union {r.name} ELSE confirmed
    BY <1>4 DEF Enlist
  <2>2. outcome # "queue_misread"
    BY NotAnOutcome
  <2>3. listed \subseteq listed' /\ (Confirms(outcome) => r.name \in listed')
    BY <2>1, <2>2 DEF QueueRead, Confirms, Succeeds, Applied
  <2>4. account' = account
    BY <1>4 DEF Enlist
  <2> QED
    BY <1>1, <2>1, <2>3, <2>4 DEF PendingIsShown, Shown
<1>5. ASSUME NEW v \in Verdicts, UpdateStatus(v) PROVE PendingIsShown'
  <2>1. listed' = listed /\ confirmed' = confirmed
    BY <1>5 DEF UpdateStatus, history
  <2>2. v.name \in Names /\ v.status # "pending"
    BY DEF Verdicts
  <2>3. account[v.name] \in Records
    BY <1>1, <1>5, <2>2 DEF UpdateStatus, GrantInv, WorkOK, TypeOK, NoAccount
  <2>4. \A n \in Names : account'[n].status = "pending" => account[n].status = "pending"
    BY <1>1, <1>5, <2>2, <2>3 DEF UpdateStatus, GrantInv, TypeOK, Records
  <2> QED
    BY <1>1, <2>1, <2>4 DEF PendingIsShown, Shown, GrantInv, TypeOK
<1>6. ASSUME NEW v \in Verdicts, Unlist(v) PROVE PendingIsShown'
  <2>1. PICK outcome \in Outcomes(QueueFaults) :
           listed' = IF Applied(outcome) THEN QueueRead(outcome) \ {v.name} ELSE listed
    BY <1>6 DEF Unlist
  <2>2. outcome # "queue_misread"
    BY NotAnOutcome
  <2>3. account' = account /\ confirmed' = confirmed
    BY <1>6 DEF Unlist, history
  <2>4. account[v.name].status # "pending"
    BY <1>1, <1>6 DEF Unlist, GrantInv, WorkOK
  <2>5. \A n \in listed : n \in listed' \/ n = v.name
    BY <2>1, <2>2 DEF QueueRead
  <2> QED
    BY <1>1, <2>3, <2>4, <2>5, ListKept
<1> QED
  BY <1>2, <1>3, <1>4, <1>5, <1>6 DEF Next, Work

\* Whoever was told that the account is pending is shown to the administrator
\* until there is a verdict, if the list is never read with an error status.
THEOREM ConfirmedAreShown ==
    ASSUME "queue_misread" \notin Faults
    PROVE  Spec => []PendingIsShown
<1>1. Init => ListInv
  BY GrantInvInit DEF Init, ListInv, PendingIsShown
<1>2. ListInv => PendingIsShown
  BY DEF ListInv
<1> QED
  BY <1>1, <1>2, ListInvNext, PTL DEF Spec
-----------------------------------------------------------------------------
(* The promises about accounts.                                            *)

\* Between the look-up and the save nobody takes the name.
FreshOK == \A r \in Registrations : At("store", r) => Free(r.name)

EnrolInv == GrantInv /\ FreshOK

\* What the abstract actions expand to.
LEMMA StepForms ==
    ASSUME GrantInv, FreshOK, [Next]_vars, "user_misread" \notin Faults
    PROVE  FreshOK' /\ [Enrolled!Next]_<<account, tokens>>
<1>1. CASE Boot
  <2>1. PICK outcome \in Outcomes(ReadFaults) :
           \/ Finish
           \/ outcome = "ok" /\ Free(AdminName) /\ Goto("store")
           \/ outcome = "user_misread" /\ Goto("store")
           \/ FailedAttempt
    BY <1>1 DEF Boot
  <2>2. outcome # "user_misread"
    BY NotAnOutcome
  <2>3. current = {Founder} /\ Founder.name = AdminName
    BY <1>1 DEF Boot, GrantInv, WorkOK, Founder
  <2>4. account' = account /\ tokens' = tokens
    BY <1>1 DEF Boot, store
  <2>5. FreshOK'
    BY <2>1, <2>2, <2>3, <2>4 DEF Finish, FailedAttempt, Goto, FreshOK, At, Free
  <2> QED
    BY <2>4, <2>5
<1>2. ASSUME NEW r \in Registrations, Register(r)
      PROVE  FreshOK' /\ [Enrolled!Next]_<<account, tokens>>
  <2>1. Free(r.name)
    BY <1>2, NotAnOutcome DEF Register
  <2>2. account' = account /\ tokens' = tokens /\ current' = {r}
    BY <1>2 DEF Register, store
  <2> QED
    BY <2>1, <2>2 DEF FreshOK, At, Free
<1>3. ASSUME NEW r \in Registrations, CreateUser(r)
      PROVE  FreshOK' /\ [Enrolled!Next]_<<account, tokens>>
  <2>1. Free(r.name)
    BY <1>3 DEF CreateUser, FreshOK
  <2>2. pc' # "store"
    BY <1>3 DEF CreateUser, Finish, Goto, FailedAttempt
  <2>3. tokens' = tokens
    BY <1>3 DEF CreateUser
  <2>4. CASE account' = account
    BY <2>2, <2>3, <2>4 DEF FreshOK, At
  <2>5. CASE account' # account
    <3>1. account' = [account EXCEPT ![r.name] =
              [status |-> InitialStatus(r), role |-> r.role, password |-> r.password]]
      BY <1>3, <2>5 DEF CreateUser
    <3>2. CASE r.role = "admin"
      <4>1. r = Founder
        BY <1>3, <3>2 DEF CreateUser, GrantInv, WorkOK
      <4>2. Enrolled!Found
        BY <2>1, <2>3, <3>1, <3>2, <4>1
           DEF Enrolled!Found, Enrolled!Free, Enrolled!Become, Free, InitialStatus
      <4> QED
        BY <2>2, <4>2 DEF FreshOK, At, Enrolled!Next
    <3>3. CASE r.role # "admin"
      <4>1. r.name \in Names /\ r.role \in SelfServiceRoles /\ r.password \in Passwords
        BY <3>3 DEF Registrations, Roles
      <4>2. Enrolled!Apply(r.name, r.role, r.password)
        BY <2>1, <2>3, <3>1, <3>3
           DEF Enrolled!Apply, Enrolled!Free, Enrolled!Become, Free, InitialStatus
      <4> QED
        BY <2>2, <4>1, <4>2 DEF FreshOK, At, Enrolled!Next
    <3> QED
      BY <3>2, <3>3
  <2> QED
    BY <2>4, <2>5
<1>4. ASSUME NEW r \in Registrations, Enlist(r)
      PROVE  FreshOK' /\ [Enrolled!Next]_<<account, tokens>>
  BY <1>4 DEF Enlist, Finish, FreshOK, At
<1>5. ASSUME NEW v \in Verdicts, Decide(v)
      PROVE  FreshOK' /\ [Enrolled!Next]_<<account, tokens>>
  BY <1>5 DEF Decide, store, FreshOK, At
<1>6. ASSUME NEW v \in Verdicts, UpdateStatus(v)
      PROVE  FreshOK' /\ [Enrolled!Next]_<<account, tokens>>
  <2>1. FreshOK'
    BY <1>6 DEF UpdateStatus, Goto, Finish, FreshOK, At
  <2>2. tokens' = tokens
    BY <1>6 DEF UpdateStatus
  <2>3. v.name \in Names /\ v.status \in {"approved", "rejected"}
    BY DEF Verdicts
  <2>4. account[v.name].status = "pending"
    BY <1>6 DEF UpdateStatus, GrantInv, WorkOK
  <2>5. account[v.name] \in Records
    BY <2>3, <2>4 DEF GrantInv, TypeOK, NoAccount
  <2>6. [account[v.name] EXCEPT !.status = v.status]
          = [status |-> v.status, role |-> account[v.name].role,
             password |-> account[v.name].password]
    BY <2>3, <2>5 DEF Records
  <2>7. CASE account' = [account EXCEPT ![v.name].status = v.status]
    <3>1. account' = [account EXCEPT ![v.name] =
              [status |-> v.status, role |-> account[v.name].role,
               password |-> account[v.name].password]]
      BY <2>6, <2>7
    <3>2. Enrolled!Decide(v.name, v.status)
      BY <2>2, <2>4, <3>1 DEF Enrolled!Decide, Enrolled!Become
    <3> QED
      BY <2>1, <2>3, <3>2 DEF Enrolled!Next
  <2>8. CASE account' = account
    BY <2>1, <2>2, <2>8
  <2> QED
    BY <1>6, <2>7, <2>8 DEF UpdateStatus
<1>7. ASSUME NEW v \in Verdicts, Unlist(v)
      PROVE  FreshOK' /\ [Enrolled!Next]_<<account, tokens>>
  BY <1>7 DEF Unlist, Finish, FreshOK, At
<1>8. ASSUME NEW n \in Names, LogIn(n)
      PROVE  FreshOK' /\ [Enrolled!Next]_<<account, tokens>>
  <2>1. account' = account /\ pc' = pc /\ current' = current
    BY <1>8 DEF LogIn, store, process
  <2>2. Enrolled!LogIn(n)
    BY <1>8, <2>1 DEF LogIn, Entitled, Registration, Enrolled!LogIn
  <2> QED
    BY <2>1, <2>2 DEF FreshOK, At, Free, Enrolled!Next
<1>9. ASSUME NEW t \in tokens, Expire(t)
      PROVE  FreshOK' /\ [Enrolled!Next]_<<account, tokens>>
  <2>1. account' = account /\ pc' = pc /\ current' = current
    BY <1>9 DEF Expire, store, process
  <2>2. Enrolled!Expire(t)
    BY <1>9, <2>1 DEF Expire, Enrolled!Expire
  <2> QED
    BY <2>1, <2>2 DEF FreshOK, At, Free, Enrolled!Next
<1>10. CASE Crash
  BY <1>10 DEF Crash, store, FreshOK, At
<1>11. CASE UNCHANGED vars
  BY <1>11 DEF vars, store, process, FreshOK, At, Free
<1> QED
  BY <1>1, <1>2, <1>3, <1>4, <1>5, <1>6, <1>7, <1>8, <1>9, <1>10, <1>11 DEF Next, Work

\* The gateway implements Enrolment, if no record is read with an error status:
\* an account only moves as the promises say, and every token is of an account
\* that was approved when it was given out.
THEOREM AccountsImplementEnrolment ==
    ASSUME "user_misread" \notin Faults
    PROVE  Spec => ImplementsEnrolment
<1>1. Init => Enrolled!Init /\ EnrolInv
  <2>1. Init => Enrolled!Init
    BY DEF Init, NoAccount, Enrolled!Init, Enrolled!NoAccount
  <2> QED
    BY <2>1, GrantInvInit DEF Init, EnrolInv, FreshOK, At
<1>2. EnrolInv /\ [Next]_vars => EnrolInv' /\ [Enrolled!Next]_<<account, tokens>>
  BY GrantInvNext, StepForms DEF EnrolInv
<1> QED
  BY <1>1, <1>2, PTL DEF Spec, ImplementsEnrolment, Enrolled!Spec, Enrolled!evars
-----------------------------------------------------------------------------
(* How a start-up ends.                                                    *)

\* An administrator's account is never pending: it was made approved, and
\* verdicts are about pending accounts.
AdminOK == \A n \in Names : account[n].role = "admin" => account[n].status = "approved"

AdminInv == GrantInv /\ AdminOK

\* Every step preserves AdminInv.
LEMMA AdminInvNext == AdminInv /\ [Next]_vars => AdminInv'
<1> SUFFICES ASSUME AdminInv, [Next]_vars PROVE AdminOK'
  BY GrantInvNext DEF AdminInv
<1>1. GrantInv /\ AdminOK
  BY DEF AdminInv
<1>2. CASE account' = account
  BY <1>1, <1>2 DEF AdminOK
<1>3. ASSUME NEW r \in Registrations, CreateUser(r), account' # account PROVE AdminOK'
  <2>1. account' = [account EXCEPT ![r.name] =
            [status |-> InitialStatus(r), role |-> r.role, password |-> r.password]]
    BY <1>3 DEF CreateUser
  <2> QED
    BY <1>1, <2>1 DEF AdminOK, GrantInv, TypeOK, InitialStatus
<1>4. ASSUME NEW v \in Verdicts, UpdateStatus(v), account' # account PROVE AdminOK'
  <2>1. v.name \in Names /\ account[v.name].status = "pending"
    BY <1>1, <1>4 DEF UpdateStatus, GrantInv, WorkOK, Verdicts
  <2>2. account[v.name] \in Records /\ account[v.name].role # "admin"
    BY <1>1, <2>1 DEF GrantInv, TypeOK, NoAccount, AdminOK
  <2>3. account' = [account EXCEPT ![v.name].status = v.status]
    BY <1>4 DEF UpdateStatus
  <2>4. account'[v.name].role = account[v.name].role
    BY <1>1, <2>1, <2>2, <2>3 DEF GrantInv, TypeOK, Records
  <2>5. \A n \in Names : n = v.name \/ account'[n] = account[n]
    BY <1>1, <2>3 DEF GrantInv, TypeOK
  <2> QED
    BY <1>1, <2>2, <2>4, <2>5 DEF AdminOK
<1>5. account' # account => (\E r \in Registrations : CreateUser(r))
                            \/ (\E v \in Verdicts : UpdateStatus(v))
  BY DEF Next, Work, vars, store, Boot, Enlist, Unlist, Register, Decide, LogIn, Expire, Crash
<1> QED
  BY <1>2, <1>3, <1>4, <1>5

\* The start-up is at work, and is done with this step.
StartUpEnds == pc \in {"boot", "store"} /\ current = {Founder} /\ pc' = "idle"

\* There is an administrator, or the name is another account's, or this was
\* the start-up's last attempt and it failed.
EndIsExplained ==
    StartUpEnds =>
        \/ AdminCanLogIn'
        \/ NameIsTaken
        \/ attempt + 1 >= Attempts /\ faults' = faults + 1

\* A step that ends a start-up is its look-up or its save.
LEMMA EndsExplained == AdminInv /\ [Next]_vars => [EndIsExplained]_vars
<1> SUFFICES ASSUME AdminInv, [Next]_vars, StartUpEnds
             PROVE  \/ AdminCanLogIn'
                    \/ NameIsTaken
                    \/ attempt + 1 >= Attempts /\ faults' = faults + 1
  BY DEF EndIsExplained
<1>1. GrantInv /\ AdminOK /\ AdminName \in Names
  BY DEF AdminInv
<1>2. FailedAttempt => attempt + 1 >= Attempts
  BY DEF FailedAttempt, StartUpEnds
<1>3. CASE Boot
  <2>1. PICK outcome \in Outcomes(ReadFaults) :
          /\ Count(outcome)
          /\ \/ outcome = "ok" /\ ~Free(AdminName)
             \/ pc' = "store"
             \/ outcome = "user_raised" /\ FailedAttempt
    BY <1>3 DEF Boot, Goto
  <2>2. account' = account
    BY <1>3 DEF Boot, store
  <2>3. CASE ~Free(AdminName)
    <3>1. account[AdminName].status \in {"pending", "approved"}
      BY <1>1, <2>3 DEF Free, GrantInv, TypeOK, Records, NoAccount
    <3> QED
      BY <1>1, <2>2, <3>1 DEF AdminOK, AdminCanLogIn, NameIsTaken
  <2> QED
    BY <1>2, <2>1, <2>3 DEF Count, StartUpEnds
<1>4. ASSUME NEW r \in Registrations, CreateUser(r)
      PROVE  \/ AdminCanLogIn'
             \/ attempt + 1 >= Attempts /\ faults' = faults + 1
  <2>1. r = Founder /\ r.role = "admin" /\ r.name = AdminName
    BY <1>4 DEF CreateUser, At, StartUpEnds, Founder
  <2>2. PICK outcome \in Outcomes(SaveFaults) :
          /\ Count(outcome)
          /\ Applied(outcome) => account' = [account EXCEPT ![r.name] =
                [status |-> InitialStatus(r), role |-> r.role, password |-> r.password]]
          /\ outcome = "ok" \/ FailedAttempt
    BY <1>4, <2>1 DEF CreateUser
  <2>3. CASE outcome = "ok"
    <3>1. account'[AdminName] =
            [status |-> InitialStatus(r), role |-> r.role, password |-> r.password]
      BY <1>1, <2>1, <2>2, <2>3 DEF Applied, GrantInv, TypeOK
    <3>2. InitialStatus(r) = "approved"
      BY <2>1 DEF InitialStatus
    <3>3. /\ account'[AdminName].status = "approved"
          /\ account'[AdminName].role = "admin"
      BY <2>1, <3>1, <3>2
    <3> QED
      BY <3>3 DEF AdminCanLogIn
  <2>4. CASE outcome # "ok"
    BY <1>2, <2>2, <2>4 DEF Count
  <2> QED
    BY <2>3, <2>4
<1>5. Boot \/ \E r \in Registrations : CreateUser(r)
  BY DEF StartUpEnds, Next, Work, Enlist, UpdateStatus, Unlist, At, Register, Decide, LogIn,
         Expire, process, Crash, vars
<1> QED
  BY <1>3, <1>4, <1>5

\* A start-up ends without an administrator who can log in only when every
\* one of its attempts failed or when the name is somebody else's account,
\* whatever faults occur (main.py:116-126): a start-up cut off by a crash, or
\* one whose save was applied but not answered, is made good by the next.
THEOREM StartUpsAreExplained == Spec => [][EndIsExplained]_vars
<1>1. Init => AdminInv
  BY GrantInvInit DEF Init, AdminInv, AdminOK, NoAccount
<1> QED
  BY <1>1, AdminInvNext, EndsExplained, PTL DEF Spec
=============================================================================
