------------------------------ MODULE Accounts ------------------------------
(***************************************************************************)
(* gateway-service: accounts, the administrator's verdicts on them, and    *)
(* tokens (auth.py, users_store.py, the /auth routes and the start-up of   *)
(* main.py).                                                               *)
(*                                                                         *)
(* Every handler of an /auth route calls the state store with requests and *)
(* makes no await, so one at a time is at work and between two calls only  *)
(* the process can die.  A request that is refused, or fails, before its   *)
(* first write changes nothing and is no step.  A run of _mutate_queue is  *)
(* one call here: nothing else writes the list of pending users.           *)
(***************************************************************************)
EXTENDS Naturals, FiniteSets

CONSTANTS Names,             \* usernames
          Passwords,
          SelfServiceRoles,  \* the roles anybody may ask for
          AdminName,         \* DEFAULT_ADMIN_USERNAME
          AdminPassword,     \* DEFAULT_ADMIN_PASSWORD
          Attempts,          \* how often the start-up tries to make the administrator
          Faults,            \* the kinds of fault that may happen
          MaxFaults          \* bound on how many faults happen

ReadFaults  == {"user_misread",      \* answered with an error status
                "user_raised"}       \* no answer: UsersStoreError
SaveFaults  == {"save_refused",      \* not applied
                "save_unanswered"}   \* applied, but the caller is not told
QueueFaults == {"queue_misread",     \* the list is read with an error status
                "queue_refused",     \* not applied
                "queue_unanswered"}  \* applied, but the caller is not told

ASSUME AccountsAssumption ==
    /\ AdminName \in Names
    /\ AdminPassword \in Passwords
    /\ "admin" \notin SelfServiceRoles
    /\ Attempts \in Nat \ {0}
    /\ Faults \subseteq ReadFaults \union SaveFaults \union QueueFaults \union {"crash"}
    /\ MaxFaults \in Nat

Roles         == SelfServiceRoles \union {"admin"}
Registrations == [name : Names, role : Roles, password : Passwords]
Verdicts      == [name : Names, status : {"approved", "rejected"}]

VARIABLES
    account,    \* account[n]: the record under the key user:<n>
    listed,     \* the names in pending_users_queue
    confirmed,  \* names whose registration was answered with 201
    granted,    \* registrations an administrator asked to approve
    tokens,     \* tokens that have not expired, as the account stood at log-in
    pc,         \* the call the handler at work, or the start-up, makes next
    current,    \* what it works on, in a set of at most one
    attempt,    \* attempts of this start-up that have failed
    faults      \* faults so far

store == <<account, listed>>
history == <<confirmed, granted>>
process == <<pc, current, attempt>>
vars == <<store, history, tokens, process, faults>>

NoAccount == [status |-> "none", role |-> "none", password |-> "none"]
Records   == [status : {"pending", "approved", "rejected"}, role : Roles, password : Passwords]
PCs       == {"boot", "store", "enlist", "settle", "unlist", "idle"}

\* What the start-up registers, with allow_admin.
Founder == [name |-> AdminName, role |-> "admin", password |-> AdminPassword]

Init ==
    /\ account = [n \in Names |-> NoAccount]
    /\ listed = {}
    /\ confirmed = {}
    /\ granted = {}
    /\ tokens = {}
    /\ pc = "boot"
    /\ current = {Founder}
    /\ attempt = 0
    /\ faults = 0

Outcomes(kinds) ==
    {"ok"} \union (IF faults < MaxFaults THEN kinds \intersect Faults ELSE {})

Count(outcome) == faults' = IF outcome = "ok" THEN faults ELSE faults + 1

Applied(outcome) ==
    outcome \in {"ok", "save_unanswered", "queue_misread", "queue_unanswered"}

\* The call returns without raising.
Succeeds(outcome) == outcome \in {"ok", "queue_misread"}

\* The handler at work, or the start-up, is at label with job j.
At(label, j) == pc = label /\ j \in current

Goto(label) == pc' = label /\ UNCHANGED <<current, attempt>>

Finish == pc' = "idle" /\ current' = {} /\ attempt' = 0

\* The account of name n as it was registered.
Registration(n) ==
    [name |-> n, role |-> account[n].role, password |-> account[n].password]

-----------------------------------------------------------------------------
(* register.                                                               *)

\* Mutant of Free: a name is taken only when its account is approved.
FreeUntilApproved(n) == account[n].status # "approved"

Free(n) == account[n].status \in {"none", "rejected"}

\* Mutant of InitialStatus: accounts start out active.
InitialStatusActive(r) == IF r.role = "admin" THEN "approved" ELSE "active"

InitialStatus(r) == IF r.role = "admin" THEN "approved" ELSE "pending"

\* Mutant of FailedAttempt: the start-up tries only once.
FailedOnce == Finish

\* An attempt of the start-up has failed: another one after a second, or the
\* gateway starts to serve without an administrator of its own making.
FailedAttempt ==
    \/ /\ attempt + 1 < Attempts
       /\ pc' = "boot"
       /\ attempt' = attempt + 1
       /\ UNCHANGED current
    \/ attempt + 1 >= Attempts /\ Finish

\* The start-up looks whether the name is taken: then there is nothing to do,
\* whoever has it.
Boot ==
    /\ pc = "boot"
    /\ \E outcome \in Outcomes(ReadFaults) :
        /\ Count(outcome)
        /\ \/ outcome = "ok" /\ ~Free(AdminName) /\ Finish
           \/ outcome = "ok" /\ Free(AdminName) /\ Goto("store")
           \/ outcome = "user_misread" /\ Goto("store")
           \/ outcome = "user_raised" /\ FailedAttempt
    /\ UNCHANGED <<store, history, tokens>>

\* POST /auth/register: only self-service roles, only a free name.
Register(r) ==
    /\ pc = "idle"
    /\ r.role \in SelfServiceRoles
    /\ \E outcome \in Outcomes({"user_misread"}) :
        /\ Free(r.name) \/ outcome = "user_misread"
        /\ Count(outcome)
    /\ pc' = "store"
    /\ current' = {r}
    /\ UNCHANGED <<store, history, tokens, attempt>>

\* create_user replaces the whole record.
CreateUser(r) ==
    /\ At("store", r)
    /\ \E outcome \in Outcomes(SaveFaults) :
        /\ Count(outcome)
        /\ IF Applied(outcome)
           THEN /\ account' = [account EXCEPT ![r.name] =
                        [status |-> InitialStatus(r), role |-> r.role, password |-> r.password]]
                /\ confirmed' = confirmed \ {r.name}
           ELSE UNCHANGED <<account, confirmed>>
        /\ \/ outcome = "ok" /\ r.role = "admin" /\ Finish
           \/ outcome = "ok" /\ r.role # "admin" /\ Goto("enlist")
           \/ outcome # "ok" /\ r.role = "admin" /\ FailedAttempt
           \/ outcome # "ok" /\ r.role # "admin" /\ Finish
    /\ UNCHANGED <<listed, granted, tokens>>

\* The list _mutate_queue starts from; an error status reads as an empty one.
QueueRead(outcome) == IF outcome = "queue_misread" THEN {} ELSE listed

\* Mutant of Confirms: the result of the list's update is not looked at.
ConfirmsAlways(outcome) == TRUE

Confirms(outcome) == Succeeds(outcome)

\* add_to_pending_queue, then 201; if it fails, the account stays as it is.
Enlist(r) ==
    /\ At("enlist", r)
    /\ \E outcome \in Outcomes(QueueFaults) :
        /\ Count(outcome)
        /\ listed' = IF Applied(outcome) THEN QueueRead(outcome) \union {r.name} ELSE listed
        /\ confirmed' = IF Confirms(outcome) THEN confirmed \union {r.name} ELSE confirmed
    /\ Finish
    /\ UNCHANGED <<account, granted, tokens>>

-----------------------------------------------------------------------------
(* decide_pending_user, list_pending_users.                                *)

\* What the administrator is shown.
Shown == {n \in listed : account[n].status = "pending"}

\* POST /auth/users/{username}/decide, by whoever holds an administrator's
\* token; the name need not be on the list.
Decide(v) ==
    /\ pc = "idle"
    /\ \E t \in tokens : t.role = "admin"
    /\ account[v.name].status = "pending"
    /\ granted' = IF v.status = "approved"
                  THEN granted \union {Registration(v.name)} ELSE granted
    /\ pc' = "settle"
    /\ current' = {v}
    /\ UNCHANGED <<store, confirmed, tokens, attempt, faults>>

\* update_user_status reads the record again and saves it with its new status.
\* Nothing can have changed it; a read that fails is like a save refused.
UpdateStatus(v) ==
    /\ At("settle", v)
    /\ \E outcome \in Outcomes(SaveFaults) :
        /\ Count(outcome)
        /\ account' = IF Applied(outcome)
                      THEN [account EXCEPT ![v.name].status = v.status] ELSE account
        /\ IF outcome = "ok" THEN Goto("unlist") ELSE Finish
    /\ UNCHANGED <<listed, history, tokens>>

\* remove_from_pending_queue; when it fails the verdict stands all the same.
Unlist(v) ==
    /\ At("unlist", v)
    /\ \E outcome \in Outcomes(QueueFaults) :
        /\ Count(outcome)
        /\ listed' = IF Applied(outcome) THEN QueueRead(outcome) \ {v.name} ELSE listed
    /\ Finish
    /\ UNCHANGED <<account, history, tokens>>

-----------------------------------------------------------------------------
(* authenticate, create_access_token.                                      *)

\* Mutant of Entitled: only rejected accounts are turned away.
EntitledUnlessRejected(status) == status # "rejected"

Entitled(status) == status = "approved"

\* POST /auth/token, with the right password.
LogIn(n) ==
    /\ pc = "idle"
    /\ account[n] # NoAccount
    /\ Entitled(account[n].status)
    /\ tokens' = tokens \union {Registration(n)}
    /\ UNCHANGED <<store, history, process, faults>>

\* decode_token refuses a token after TOKEN_TTL_SECONDS.
Expire(t) ==
    /\ tokens' = tokens \ {t}
    /\ UNCHANGED <<store, history, process, faults>>

\* The process dies and starts up again; tokens are signed, not stored.
Crash ==
    /\ "crash" \in Outcomes({"crash"})
    /\ Count("crash")
    /\ pc' = "boot"
    /\ current' = {Founder}
    /\ attempt' = 0
    /\ UNCHANGED <<store, history, tokens>>

Work ==
    \/ Boot
    \/ \E r \in Registrations : CreateUser(r) \/ Enlist(r)
    \/ \E v \in Verdicts : UpdateStatus(v) \/ Unlist(v)

Next ==
    \/ Work
    \/ \E r \in Registrations : Register(r)
    \/ \E v \in Verdicts : Decide(v)
    \/ \E n \in Names : LogIn(n)
    \/ \E t \in tokens : Expire(t)
    \/ Crash

\* A call under way is answered or times out; nobody has to register or to
\* decide, and nothing has to fail.
Fairness == WF_vars(Work)

Spec == Init /\ [][Next]_vars /\ Fairness

-----------------------------------------------------------------------------
(* Properties.                                                             *)

TypeOK ==
    /\ account \in [Names -> Records \union {NoAccount}]
    /\ listed \subseteq Names
    /\ confirmed \subseteq Names
    /\ granted \subseteq Registrations
    /\ tokens \subseteq Registrations
    /\ pc \in PCs
    /\ current \subseteq Registrations \union Verdicts
    /\ attempt \in 0 .. Attempts - 1
    /\ faults \in 0 .. MaxFaults

\* Whoever holds a token is the administrator the start-up made, or holds it
\* for exactly the name, role and password an administrator asked to approve
\* (README.md:79-86), whatever failed between the verdict and the log-in and
\* however often the name was registered before.
NoTokenWithoutApproval == \A t \in tokens : t = Founder \/ t \in granted

\* Somebody told that the account is pending is on the administrator's list
\* until there is a verdict, after rejections, repeated registrations and
\* verdicts that failed half-way (auth.py:54-55, :88).  True as long as the
\* list is not read with an error status.
PendingIsShown ==
    \A n \in confirmed : account[n].status = "pending" => n \in Shown

AdminCanLogIn == account[AdminName].status = "approved" /\ account[AdminName].role = "admin"

\* Another account than an administrator's has the name.
NameIsTaken ==
    account[AdminName].status \in {"pending", "approved"} /\ account[AdminName].role # "admin"

StartUpBegins(n) == pc = "boot" /\ attempt = 0 /\ faults = n

\* A start-up that finds the name free, or its own from an earlier one, ends
\* with an administrator who can log in, unless as many calls fail from then
\* on as it makes attempts (main.py:116-126): also when an attempt was applied
\* but not answered, the process dies in between, or every attempt of earlier
\* start-ups failed.
StartsWithAdmin ==
    \A n \in 0 .. MaxFaults :
        StartUpBegins(n) /\ ~NameIsTaken
            ~> (pc = "idle" /\ AdminCanLogIn) \/ faults >= n + Attempts

\* main.py:111-112: "Ensures there's always at least one way into the system:
\* registers a default admin account on first startup (a no-op on every later
\* restart, since it already exists)".  So a start-up in which nothing fails
\* ends with an administrator who can log in.
AlwaysAWayIn ==
    \A n \in 0 .. MaxFaults :
        StartUpBegins(n) ~> (pc = "idle" /\ AdminCanLogIn) \/ faults > n

Enrolled == INSTANCE Enrolment

\* The gateway keeps the promises about accounts.
ImplementsEnrolment == Enrolled!Spec
=============================================================================
