------------------------------- MODULE Gateway -------------------------------
(***************************************************************************)
(* gateway-service: the way of a call through a route, its bulkhead and    *)
(* invoke (main.py, bulkhead.py, require_role in auth.py).                 *)
(*                                                                         *)
(* try_enter and exit are one step each: nothing is awaited under the      *)
(* lock, so nobody ever waits for it.  A call is suspended while its body  *)
(* is read, for as long as the client likes, and while the service works   *)
(* on it, for ten seconds.                                                 *)
(***************************************************************************)
EXTENDS Naturals, FiniteSets

CONSTANTS Calls,    \* requests in progress, at most this many
          Limit     \* BULKHEAD_MAX_CONCURRENT_PER_SERVICE

ASSUME GatewayAssumption == IsFiniteSet(Calls) /\ Limit \in Nat \ {0}

Apps   == {"ingestion", "approval-agent"}
Roles  == {"submitter", "approver", "admin"}
Routes == {"submit", "escalations", "decide", "info", "status"}

AppOf(route) == IF route = "submit" THEN "ingestion" ELSE "approval-agent"

Allowed(route) ==
    CASE route \in {"submit", "info"} -> {"submitter", "admin"}
      [] route \in {"escalations", "decide"} -> {"approver", "admin"}
      [] route = "status" -> Roles

VARIABLES phase,     \* phase[c]: where call c is
          route,     \* route[c]: its route
          current    \* current[a]: the counter of the bulkhead for a

gateway == <<phase, route, current>>

\* A call that is answered or has failed is on its way back to the client.
Phases  == {"free", "asked", "body", "sent", "served", "answered", "failed"}
Holding == {"body", "sent", "served"}

GatewayInit ==
    /\ phase = [c \in Calls |-> "free"]
    /\ route = [c \in Calls |-> "status"]
    /\ current = [a \in Apps |-> 0]

\* Mutant of HasRoom: one call too many.
HasRoomForOneMore(a) == current[a] <= Limit

HasRoom(a) == current[a] < Limit

Goto(c, p) == phase' = [phase EXCEPT ![c] = p]

\* A client makes a request, perhaps upon the answer to its last one.
Ask(c, r) ==
    /\ phase[c] \in {"free", "answered"}
    /\ Goto(c, "asked")
    /\ route' = [route EXCEPT ![c] = r]
    /\ UNCHANGED current

\* It reaches the gateway with a token for role ("none": an expired token, or
\* one too many a minute): refused, also by a full bulkhead, or let in.
Arrive(c, role) ==
    /\ phase[c] = "asked"
    /\ LET app == AppOf(route[c])
       IN  IF role \in Allowed(route[c]) /\ HasRoom(app)
           THEN Goto(c, "body") /\ current' = [current EXCEPT ![app] = @ + 1]
           ELSE Goto(c, "failed") /\ UNCHANGED current
    /\ UNCHANGED route

\* The body has arrived, the request goes out.
Forward(c) ==
    /\ phase[c] = "body"
    /\ Goto(c, "sent")
    /\ UNCHANGED <<route, current>>

\* Mutant of Exit: the slot is not given back.
ExitNever(a) == UNCHANGED current

\* max(0, current - 1)
Exit(a) == current' = [current EXCEPT ![a] = IF @ = 0 THEN 0 ELSE @ - 1]

\* The call ends, one way or the other, and gives its slot back.
Leave(c, p) ==
    /\ Goto(c, p)
    /\ Exit(AppOf(route[c]))
    /\ UNCHANGED route

\* The client goes away before its body has come.
Disconnect(c) == phase[c] = "body" /\ Leave(c, "failed")

\* The service has answered.
Return(c) == phase[c] = "served" /\ Leave(c, "answered")

\* The service cannot be reached, or has not answered in time: 502.
GiveUp(c) == phase[c] \in {"sent", "served"} /\ Leave(c, "failed")

\* The client has its answer, or knows it gets none.
Done(c) ==
    /\ phase[c] \in {"answered", "failed"}
    /\ Goto(c, "free")
    /\ route' = [route EXCEPT ![c] = "status"]
    /\ UNCHANGED current

\* The gateway stops and is started again: its calls fail, its counters are new.
Restart ==
    /\ phase' = [c \in Calls |-> IF phase[c] \in Holding THEN "failed" ELSE phase[c]]
    /\ current' = [a \in Apps |-> 0]
    /\ UNCHANGED route
=============================================================================
