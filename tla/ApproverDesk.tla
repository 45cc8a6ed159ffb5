----------------------------- MODULE ApproverDesk -----------------------------
(***************************************************************************)
(* One approver's page (ApproverView.jsx, api.js) that lists and decides   *)
(* escalations through the Gateway, beside other users of the gateway and  *)
(* other approvers.                                                        *)
(*                                                                         *)
(* The service is as much of Escalation as a caller sees: it lists what is *)
(* open, and the first decision on an open item counts.  A call may take   *)
(* effect without its caller being told, also after the gateway gave it    *)
(* up.  The page is not reloaded, and a submission is delivered once.      *)
(***************************************************************************)
EXTENDS Gateway

CONSTANTS Items,    \* escalations
          NoItem,
          Others    \* the routes other users of the gateway take

ASSUME DeskAssumption == NoItem \notin Items /\ Others \subseteq Routes

Actions  == {"approve", "reject", "request_info"}
Statuses == {"none", "pending", "info_requested", "approved", "rejected"}

VARIABLES
    status,     \* status[i]: the status of the escalation i at the service
    job,        \* job[c]: what call c is for
    reply,      \* reply[c]: what the service answered
    items,      \* the items the page shows
    loading,    \* whether the page is loading
    error,      \* whether the page shows an error
    busyId,     \* the item whose buttons are disabled
    confirmed,  \* confirmed[i]: the decision the page was told took effect, a history
    mixed       \* whether the last load began while another was under way, a history

page    == <<items, loading, error, busyId, confirmed, mixed>>
vars    == <<gateway, status, job, reply, page>>

Job(kind, act) == [kind |-> kind, item |-> NoItem, action |-> "none", act |-> act]

NoJob   == Job("none", FALSE)
NoReply == [ok |-> FALSE, items |-> {}]
Jobs ==
    [kind : {"none", "other", "list", "decide"}, item : Items \union {NoItem},
     action : Actions \union {"none"}, act : BOOLEAN]

IsOpen(i) == status[i] \in {"pending", "info_requested"}

After(action) ==
    CASE action = "approve" -> "approved"
      [] action = "reject" -> "rejected"
      [] action = "request_info" -> "info_requested"

Loads == {c \in Calls : job[c].kind = "list"}

Init ==
    /\ GatewayInit
    /\ status = [i \in Items |-> "none"]
    /\ job = [c \in Calls |-> NoJob]
    /\ reply = [c \in Calls |-> NoReply]
    /\ items = {}
    /\ loading = FALSE
    /\ error = FALSE
    /\ busyId = NoItem
    /\ confirmed = [i \in Items |-> "none"]
    /\ mixed = FALSE

-----------------------------------------------------------------------------
(* The service, and others who use it.                                     *)

Escalated(i) ==
    /\ status[i] = "none"
    /\ status' = [status EXCEPT ![i] = "pending"]
    /\ UNCHANGED <<gateway, job, reply, page>>

\* Another approver decides, the service takes up a decision of this page that
\* the gateway gave up, or the submitter answers a question.
Colleague(i) ==
    /\ \/ IsOpen(i) /\ \E a \in Actions : status' = [status EXCEPT ![i] = After(a)]
       \/ status[i] = "info_requested" /\ status' = [status EXCEPT ![i] = "pending"]
    /\ UNCHANGED <<gateway, job, reply, page>>

\* A decision takes effect if the item is still open.
Take(i, action) ==
    status' = IF IsOpen(i) THEN [status EXCEPT ![i] = After(action)] ELSE status

Answer(c, ok, listed) == reply' = [reply EXCEPT ![c] = [ok |-> ok, items |-> listed]]

\* The service works on a call: it may fail before or after it took effect.
Serve(c) ==
    /\ phase[c] = "sent"
    /\ Goto(c, "served")
    /\ \/ Answer(c, FALSE, {}) /\ UNCHANGED status
       \/ /\ job[c].kind = "list"
          /\ Answer(c, TRUE, {i \in Items : IsOpen(i)})
          /\ UNCHANGED status
       \/ /\ job[c].kind = "decide"
          /\ Take(job[c].item, job[c].action)
          /\ \/ Answer(c, IsOpen(job[c].item), {})
             \/ Answer(c, FALSE, {})
       \/ job[c].kind = "other" /\ Answer(c, TRUE, {}) /\ UNCHANGED status
    /\ UNCHANGED <<route, current, job, page>>

-----------------------------------------------------------------------------
(* The gateway's steps.                                                    *)

\* A request of another user.
Other(c) ==
    /\ job[c] = NoJob
    /\ \E r \in Others : Ask(c, r)
    /\ job' = [job EXCEPT ![c] = Job("other", FALSE)]
    /\ UNCHANGED <<status, reply, page>>

\* The page has an approver's token.
Enter(c) ==
    /\ \E role \in {"none"} \union (IF job[c].kind = "other" THEN Roles ELSE {"approver"}) :
           Arrive(c, role)
    /\ UNCHANGED <<status, job, reply, page>>

Relay(c) ==
    /\ \/ (Forward(c) \/ Disconnect(c) \/ Return(c)) /\ UNCHANGED reply
       \/ GiveUp(c) /\ reply' = [reply EXCEPT ![c] = NoReply]
    /\ UNCHANGED <<status, job, page>>

GatewayRestart ==
    /\ Restart
    /\ reply' = [c \in Calls |-> IF phase[c] \in Holding THEN NoReply ELSE reply[c]]
    /\ UNCHANGED <<status, job, page>>

-----------------------------------------------------------------------------
(* The page.                                                               *)

\* load, up to its await; act tells whether act called it.
Load(c, act) ==
    /\ Ask(c, "escalations")
    /\ job' = [job EXCEPT ![c] = Job("list", act)]
    /\ reply' = [reply EXCEPT ![c] = NoReply]
    /\ loading' = TRUE
    /\ error' = FALSE
    /\ mixed' = (Loads # {})
    /\ UNCHANGED <<status, items>>

\* When the page opens, and with the button Refresh.
Refresh(c) == job[c] = NoJob /\ ~loading /\ Load(c, FALSE) /\ UNCHANGED <<busyId, confirmed>>

\* act, up to its first await.
Act(c, i, action) ==
    /\ job[c] = NoJob
    /\ i \in items /\ busyId # i
    /\ Ask(c, "decide")
    /\ job' = [job EXCEPT ![c] = [kind |-> "decide", item |-> i, action |-> action, act |-> TRUE]]
    /\ busyId' = i
    /\ error' = FALSE
    /\ UNCHANGED <<status, reply, items, loading, confirmed, mixed>>

\* Mutant of Succeeded: an error status is taken for an answer.
Answered(c) == phase[c] = "answered"

\* fetch returned, and response.ok holds.
Succeeded(c) == phase[c] = "answered" /\ reply[c].ok

\* A call has come back.
Received(c) ==
    /\ Done(c)
    /\ job' = [job EXCEPT ![c] = NoJob]
    /\ reply' = [reply EXCEPT ![c] = NoReply]
    /\ UNCHANGED status

\* Mutant of Decided: the list is not loaded again.
DecidedOnly(c) ==
    Received(c) /\ busyId' = NoItem /\ UNCHANGED <<items, loading, error, mixed>>

\* The decision was taken: act goes on with load, the item stays busy.
Decided(c) == Load(c, TRUE) /\ UNCHANGED busyId

\* act, after its first await.
ReceiveDecision(c) ==
    /\ job[c].kind = "decide"
    /\ \/ /\ Succeeded(c)
          /\ Decided(c)
          /\ confirmed' = [confirmed EXCEPT ![job[c].item] =
                             IF job[c].action = "request_info" THEN @ ELSE job[c].action]
       \/ /\ ~Succeeded(c)
          /\ Received(c)
          /\ error' = TRUE
          /\ busyId' = NoItem
          /\ UNCHANGED <<items, loading, confirmed, mixed>>

\* load, after its await.
ReceiveList(c) ==
    /\ job[c].kind = "list"
    /\ Received(c)
    /\ loading' = FALSE
    /\ IF Succeeded(c) THEN items' = reply[c].items /\ UNCHANGED error
                       ELSE error' = TRUE /\ UNCHANGED items
    /\ busyId' = IF job[c].act THEN NoItem ELSE busyId
    /\ UNCHANGED <<confirmed, mixed>>

ReceiveOther(c) == job[c].kind = "other" /\ Received(c) /\ UNCHANGED page

-----------------------------------------------------------------------------

Handle(c) ==
    \/ Other(c) \/ Enter(c) \/ Relay(c) \/ Serve(c) \/ Refresh(c)
    \/ \E i \in Items, action \in Actions : Act(c, i, action)
    \/ ReceiveDecision(c) \/ ReceiveList(c) \/ ReceiveOther(c)

Next ==
    \/ \E c \in Calls : Handle(c)
    \/ \E i \in Items : Escalated(i) \/ Colleague(i)
    \/ GatewayRestart

Spec == Init /\ [][Next]_vars

-----------------------------------------------------------------------------
(* Properties.                                                             *)

\* Type invariant; a bulkhead never counts more than its limit.
TypeOK ==
    /\ phase \in [Calls -> Phases]
    /\ route \in [Calls -> Routes]
    /\ current \in [Apps -> 0 .. Limit]
    /\ status \in [Items -> Statuses]
    /\ job \in [Calls -> Jobs]
    /\ reply \in [Calls -> [ok : BOOLEAN, items : SUBSET Items]]
    /\ items \subseteq Items
    /\ loading \in BOOLEAN /\ error \in BOOLEAN /\ mixed \in BOOLEAN
    /\ busyId \in Items \union {NoItem}
    /\ confirmed \in [Items -> {"none", "approve", "reject"}]

HoldersOf(a) == {c \in Calls : phase[c] \in Holding /\ AppOf(route[c]) = a}

\* The counter of a bulkhead is the number of calls that hold one of its slots:
\* none is lost when a call fails, is given up or disconnects, none is given
\* back twice, and no call holds a slot of the other service.
SlotsAreCalls == \A a \in Apps : current[a] = Cardinality(HoldersOf(a))

\* A decision the page was told took effect is the one that counts, whatever
\* colleagues did meanwhile and whatever became of decisions given up earlier.
ConfirmedIsDecided ==
    \A i \in Items : confirmed[i] # "none" => status[i] = After(confirmed[i])

AtRest == \A c \in Calls : job[c].kind \in {"none", "other"}

\* When nothing is under way and no error is shown, the page offers no item it
\* knows to be decided, unless the last load overlapped another: lists are
\* taken in the order they arrive.
DecidedIsNotOffered ==
    AtRest /\ ~error /\ ~mixed => \A i \in items : confirmed[i] = "none"
=============================================================================
