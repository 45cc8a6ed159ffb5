------------------------------ MODULE Enrolment ------------------------------
(***************************************************************************)
(* What the gateway promises about accounts, without calls, lists or       *)
(* faults.  A name is free until somebody applies for it and again when    *)
(* the application is rejected.  A verdict is about what was applied for,  *)
(* and leaves it as it is; an approved account never changes.  Only an     *)
(* approved account gets a token.                                          *)
(***************************************************************************)
CONSTANTS Names, Passwords, SelfServiceRoles,
          Founder     \* the administrator's name, role and password

VARIABLES account,    \* account[n]: status, role and password of name n
          tokens      \* who can act, in which role

evars == <<account, tokens>>

NoAccount == [status |-> "none", role |-> "none", password |-> "none"]

Free(n) == account[n].status \in {"none", "rejected"}

Init ==
    /\ account = [n \in Names |-> NoAccount]
    /\ tokens = {}

Become(n, a) == account' = [account EXCEPT ![n] = a] /\ UNCHANGED tokens

Found ==
    /\ Free(Founder.name)
    /\ Become(Founder.name, [status |-> "approved", role |-> Founder.role,
                             password |-> Founder.password])

Apply(n, role, password) ==
    /\ Free(n)
    /\ Become(n, [status |-> "pending", role |-> role, password |-> password])

Decide(n, verdict) ==
    /\ account[n].status = "pending"
    /\ Become(n, [status |-> verdict, role |-> account[n].role,
                  password |-> account[n].password])

LogIn(n) ==
    /\ account[n].status = "approved"
    /\ tokens' = tokens \union
            {[name |-> n, role |-> account[n].role, password |-> account[n].password]}
    /\ UNCHANGED account

Expire(t) == tokens' = tokens \ {t} /\ UNCHANGED account

Next ==
    \/ Found
    \/ \E n \in Names :
        \/ \E role \in SelfServiceRoles, password \in Passwords : Apply(n, role, password)
        \/ \E verdict \in {"approved", "rejected"} : Decide(n, verdict)
        \/ LogIn(n)
    \/ \E t \in tokens : Expire(t)

Spec == Init /\ [][Next]_evars
=============================================================================
