------------------------- MODULE ApproverDeskProofs -------------------------
(* Proofs about the gateway and the approver's page, for every set of calls *)
(* and of escalations, every limit, and all routes other users may take.    *)
EXTENDS ApproverDesk, FiniteSetTheorems, TLAPS

USE GatewayAssumption, DeskAssumption

-----------------------------------------------------------------------------
(* Bulkheads: one step moves one call, and the counters go with it.        *)

\* The types of the gateway's variables.
GatewayTyped ==
    /\ phase \in [Calls -> Phases]
    /\ route \in [Calls -> Routes]
    /\ current \in [Apps -> 0 .. Limit]

\* Call c moves to phase p, and gets or gives back a slot as it must.
Moves(c, p) ==
    /\ Goto(c, p)
    /\ \/ /\ phase[c] \notin Holding /\ p \notin Holding
          /\ \E r \in Routes : route' = [route EXCEPT ![c] = r]
          /\ UNCHANGED current
       \/ phase[c] \in Holding /\ p \in Holding /\ UNCHANGED <<route, current>>
       \/ /\ phase[c] \notin Holding /\ p \in Holding /\ UNCHANGED route
          /\ HasRoom(AppOf(route[c]))
          /\ current' = [current EXCEPT ![AppOf(route[c])] = @ + 1]
       \/ phase[c] \in Holding /\ p \notin Holding /\ UNCHANGED route /\ Exit(AppOf(route[c]))

\* The steps of the gateway.
GatewayStep ==
    \/ \E c \in Calls, p \in Phases : Moves(c, p)
    \/ Restart
    \/ UNCHANGED gateway

\* A route leads to a service that has a bulkhead.
LEMMA AppTyped == \A r : AppOf(r) \in Apps
BY DEF AppOf, Apps

\* Only finitely many calls hold slots.
LEMMA HoldersFinite == \A a : IsFiniteSet(HoldersOf(a))
BY FS_Subset DEF HoldersOf

\* Asking is a step of the gateway.
LEMMA AskMoves ==
    ASSUME GatewayTyped, NEW c \in Calls, NEW r \in Routes, Ask(c, r)
    PROVE  GatewayStep
<1>1. Moves(c, "asked")
  BY DEF Ask, Moves, Holding
<1> QED
  BY <1>1 DEF GatewayStep, Phases

\* Being refused or let in is a step of the gateway.
LEMMA ArriveMoves ==
    ASSUME GatewayTyped, NEW c \in Calls, NEW role, Arrive(c, role)
    PROVE  GatewayStep
<1>1. CASE role \in Allowed(route[c]) /\ HasRoom(AppOf(route[c]))
  <2>1. Moves(c, "body")
    BY <1>1, Zenon DEF Arrive, Moves, Holding
  <2> QED
    BY <2>1 DEF GatewayStep, Phases
<1>2. CASE ~(role \in Allowed(route[c]) /\ HasRoom(AppOf(route[c])))
  <2>1. Goto(c, "failed") /\ UNCHANGED <<route, current>> /\ phase[c] = "asked"
    BY <1>2 DEF Arrive
  <2>2. route' = [route EXCEPT ![c] = route[c]] /\ route[c] \in Routes
    BY <2>1 DEF GatewayTyped
  <2>3. Moves(c, "failed")
    BY <2>1, <2>2, Zenon DEF Moves, Holding
  <2> QED
    BY <2>3 DEF GatewayStep, Phases
<1> QED
  BY <1>1, <1>2

\* The request going out, and the service's answer, are steps of the gateway.
LEMMA PassMoves ==
    ASSUME GatewayTyped, NEW c \in Calls,
           \/ Forward(c)
           \/ phase[c] = "sent" /\ Goto(c, "served") /\ UNCHANGED <<route, current>>
    PROVE  GatewayStep
<1>1. Moves(c, "sent") \/ Moves(c, "served")
  BY DEF Forward, Moves, Holding
<1> QED
  BY <1>1 DEF GatewayStep, Phases

\* Leaving, in each way, is a step of the gateway.
LEMMA LeaveMoves ==
    ASSUME GatewayTyped, NEW c \in Calls, Disconnect(c) \/ Return(c) \/ GiveUp(c)
    PROVE  GatewayStep
<1>1. Moves(c, "failed") \/ Moves(c, "answered")
  BY DEF Disconnect, Return, GiveUp, Leave, Moves, Holding
<1> QED
  BY <1>1 DEF GatewayStep, Phases

\* The client's taking note is a step of the gateway.
LEMMA DoneMoves ==
    ASSUME GatewayTyped, NEW c \in Calls, Done(c)
    PROVE  GatewayStep
<1>1. Moves(c, "free")
  BY DEF Done, Moves, Holding, Routes
<1> QED
  BY <1>1 DEF GatewayStep, Phases

\* The types and the counters are right at first.
LEMMA SlotsInit == GatewayInit => GatewayTyped /\ SlotsAreCalls
<1> SUFFICES ASSUME GatewayInit PROVE GatewayTyped /\ SlotsAreCalls
  OBVIOUS
<1>1. GatewayTyped
  BY DEF GatewayInit, GatewayTyped, Phases, Routes
<1>2. \A a \in Apps : HoldersOf(a) = {}
  BY DEF GatewayInit, HoldersOf, Holding
<1>3. SlotsAreCalls
  BY <1>2, FS_EmptySet DEF SlotsAreCalls, GatewayInit
<1> QED
  BY <1>1, <1>3

\* A call that moves takes its slot, or its place among the others, along.
LEMMA MovesSlots ==
    ASSUME GatewayTyped, SlotsAreCalls, NEW c \in Calls, NEW p \in Phases, Moves(c, p)
    PROVE  GatewayTyped' /\ SlotsAreCalls'
<1>1. PICK app \in Apps : app = AppOf(route[c])
  BY AppTyped
<1>2. phase' \in [Calls -> Phases] /\ route' \in [Calls -> Routes]
  BY DEF Moves, Goto, GatewayTyped
<1>3. \A a \in Apps : IsFiniteSet(HoldersOf(a)) /\ current[a] = Cardinality(HoldersOf(a))
  BY HoldersFinite DEF SlotsAreCalls
<1>4. CASE UNCHANGED current /\ (phase[c] \in Holding <=> p \in Holding)
           /\ (phase[c] \in Holding => UNCHANGED route)
           /\ \E r \in Routes : route' = [route EXCEPT ![c] = r]
  <2>1. \A a \in Apps : HoldersOf(a)' = HoldersOf(a)
    BY <1>4 DEF Moves, Goto, HoldersOf, GatewayTyped
  <2> QED
    BY <1>2, <1>4, <2>1 DEF SlotsAreCalls, GatewayTyped
<1>5. CASE /\ phase[c] \notin Holding /\ p \in Holding /\ UNCHANGED route
           /\ HasRoom(app) /\ current' = [current EXCEPT ![app] = @ + 1]
  <2>1. HoldersOf(app)' = HoldersOf(app) \union {c} /\ c \notin HoldersOf(app)
    BY <1>1, <1>5 DEF Moves, Goto, HoldersOf, GatewayTyped
  <2>2. \A a \in Apps \ {app} : HoldersOf(a)' = HoldersOf(a)
    BY <1>1, <1>5 DEF Moves, Goto, HoldersOf, GatewayTyped
  <2>3. Cardinality(HoldersOf(app)') = Cardinality(HoldersOf(app)) + 1
    BY <1>1, <1>3, <2>1, FS_AddElement
  <2>4. current[app] + 1 \in 0 .. Limit
    BY <1>1, <1>5 DEF HasRoom, GatewayTyped
  <2>5. current' \in [Apps -> 0 .. Limit]
    BY <1>1, <1>5, <2>4 DEF GatewayTyped
  <2>6. \A a \in Apps : current'[a] = Cardinality(HoldersOf(a)')
    BY <1>1, <1>3, <1>5, <2>2, <2>3 DEF GatewayTyped
  <2> QED
    BY <1>2, <2>5, <2>6 DEF SlotsAreCalls, GatewayTyped
<1>6. CASE phase[c] \in Holding /\ p \notin Holding /\ UNCHANGED route /\ Exit(app)
  <2>1. HoldersOf(app)' = HoldersOf(app) \ {c} /\ c \in HoldersOf(app)
    BY <1>1, <1>6 DEF Moves, Goto, HoldersOf, GatewayTyped
  <2>2. \A a \in Apps \ {app} : HoldersOf(a)' = HoldersOf(a)
    BY <1>1, <1>6 DEF Moves, Goto, HoldersOf, GatewayTyped
  <2>3. Cardinality(HoldersOf(app)') = Cardinality(HoldersOf(app)) - 1
    BY <1>1, <1>3, <2>1, FS_RemoveElement
  <2>4. current[app] # 0
    BY <1>1, <1>3, <2>1, FS_EmptySet
  <2>5. current' = [current EXCEPT ![app] = @ - 1] /\ current[app] - 1 \in 0 .. Limit
    BY <1>1, <1>6, <2>4 DEF Exit, GatewayTyped
  <2>6. current' \in [Apps -> 0 .. Limit]
    BY <1>1, <2>5 DEF GatewayTyped
  <2>7. current'[app] = Cardinality(HoldersOf(app)')
    <3>1. current'[app] = current[app] - 1
      BY <1>1, <2>5 DEF GatewayTyped
    <3> QED
      BY <1>1, <1>3, <2>3, <3>1
  <2>8. \A a \in Apps \ {app} : current'[a] = Cardinality(HoldersOf(a)')
    <3>1. \A a \in Apps \ {app} : current'[a] = current[a]
      BY <2>5 DEF GatewayTyped
    <3> QED
      BY <1>3, <2>2, <3>1
  <2>9. \A a \in Apps : current'[a] = Cardinality(HoldersOf(a)')
    BY <2>7, <2>8
  <2> QED
    BY <1>2, <2>6, <2>9 DEF SlotsAreCalls, GatewayTyped
<1>7. UNCHANGED route => route' = [route EXCEPT ![c] = route[c]] /\ route[c] \in Routes
  BY DEF GatewayTyped
<1> QED
  BY <1>1, <1>4, <1>5, <1>6, <1>7, Zenon DEF Moves

\* A restart empties the bulkheads and ends the calls that held their slots.
LEMMA RestartSlots ==
    ASSUME GatewayTyped, Restart
    PROVE  GatewayTyped' /\ SlotsAreCalls'
<1>1. GatewayTyped'
  BY DEF GatewayTyped, Restart, Phases
<1>2. \A a \in Apps : HoldersOf(a)' = {}
  BY DEF Restart, HoldersOf, Holding
<1>3. SlotsAreCalls'
  BY <1>2, FS_EmptySet DEF SlotsAreCalls, Restart
<1> QED
  BY <1>1, <1>3

\* The gateway's steps preserve its types and the counters.
LEMMA SlotsStep ==
    ASSUME GatewayTyped, SlotsAreCalls, GatewayStep
    PROVE  GatewayTyped' /\ SlotsAreCalls'
<1>1. CASE UNCHANGED gateway
  BY <1>1 DEF gateway, GatewayTyped, SlotsAreCalls, HoldersOf
<1> QED
  BY <1>1, MovesSlots, RestartSlots DEF GatewayStep

\* What happens at the desk is a step of the gateway.
LEMMA DeskMoves ==
    ASSUME GatewayTyped, Next
    PROVE  GatewayStep
<1>1. ASSUME NEW i \in Items, Escalated(i) \/ Colleague(i) PROVE GatewayStep
  BY <1>1 DEF Escalated, Colleague, GatewayStep
<1>2. CASE GatewayRestart
  BY <1>2 DEF GatewayRestart, GatewayStep
<1>3. ASSUME NEW c \in Calls, Handle(c) PROVE GatewayStep
  <2>1. CASE Other(c)
    BY <2>1, AskMoves DEF Other
  <2>2. CASE Enter(c)
    BY <2>2, ArriveMoves DEF Enter
  <2>3. CASE Relay(c)
    BY <2>3, PassMoves, LeaveMoves DEF Relay
  <2>4. CASE Serve(c)
    BY <2>4, PassMoves DEF Serve
  <2>5. CASE Refresh(c)
    BY <2>5, AskMoves DEF Refresh, Load, Routes
  <2>6. CASE \E i \in Items, action \in Actions : Act(c, i, action)
    BY <2>6, AskMoves DEF Act, Routes
  <2>7. CASE ReceiveDecision(c)
    BY <2>7, AskMoves, DoneMoves DEF ReceiveDecision, Decided, Load, Received, Routes
  <2>8. CASE ReceiveList(c) \/ ReceiveOther(c)
    BY <2>8, DoneMoves DEF ReceiveList, ReceiveOther, Received
  <2> QED
    BY <1>3, <2>1, <2>2, <2>3, <2>4, <2>5, <2>6, <2>7, <2>8 DEF Handle
<1> QED
  BY <1>1, <1>2, <1>3 DEF Next

\* Types and counters are right at all times.
LEMMA SlotsAlways == Spec => [](GatewayTyped /\ SlotsAreCalls)
<1>1. Init => GatewayTyped /\ SlotsAreCalls
  BY SlotsInit DEF Init
<1>2. GatewayTyped /\ SlotsAreCalls /\ [Next]_vars => (GatewayTyped /\ SlotsAreCalls)'
  <2>1. ASSUME GatewayTyped, SlotsAreCalls, UNCHANGED vars
        PROVE  (GatewayTyped /\ SlotsAreCalls)'
    BY <2>1, SlotsStep DEF vars, GatewayStep
  <2> QED
    BY <2>1, DeskMoves, SlotsStep
<1> QED
  BY <1>1, <1>2, PTL DEF Spec

\* The counter of a bulkhead is the number of calls that hold its slots
\* (try_enter and exit in bulkhead.py, called around invoke in main.py).
THEOREM SlotsAreCounted == Spec => []SlotsAreCalls
BY SlotsAlways, PTL
-----------------------------------------------------------------------------
(* What the page is told and what it shows.                                *)

\* The types of the page and of its calls.
DeskTyped ==
    /\ status \in [Items -> Statuses]
    /\ job \in [Calls -> Jobs]
    /\ reply \in [Calls -> [ok : BOOLEAN, items : SUBSET Items]]
    /\ items \subseteq Items
    /\ loading \in BOOLEAN /\ error \in BOOLEAN /\ mixed \in BOOLEAN
    /\ busyId \in Items \union {NoItem}
    /\ confirmed \in [Items -> {"none", "approve", "reject"}]

\* A call nobody makes carries no answer.
Silent(c) == job[c].kind = "none" => ~reply[c].ok

\* A decision is one of the three, on an item.
Decides(c) == job[c].kind = "decide" => job[c].item \in Items /\ job[c].action \in Actions

\* A decision that is answered as taken, other than a question, has settled the item.
Told(c) ==
    job[c].kind = "decide" /\ reply[c].ok /\ job[c].action # "request_info" =>
        status[job[c].item] = After(job[c].action)

\* While the last load is the only one, the list it was given has no item the
\* page knows to be decided.
Fresh(c) ==
    ~mixed /\ job[c].kind = "list" /\ reply[c].ok =>
        \A i \in reply[c].items : confirmed[i] = "none"

CallOK(c) == Silent(c) /\ Decides(c) /\ Told(c) /\ Fresh(c)

DeskInv ==
    /\ DeskTyped
    /\ \A c \in Calls : CallOK(c)
    /\ ConfirmedIsDecided
    /\ DecidedIsNotOffered

\* Parts of a call's job and reply are typed.
LEMMA CallTyped ==
    ASSUME DeskTyped, NEW c \in Calls
    PROVE  /\ job[c] \in Jobs /\ reply[c] \in [ok : BOOLEAN, items : SUBSET Items]
           /\ job[c].action \in Actions \union {"none"} /\ job[c].item \in Items \union {NoItem}
           /\ reply[c].ok \in BOOLEAN /\ reply[c].items \subseteq Items
BY DEF DeskTyped, Jobs

\* Nothing is known or shown at first.
LEMMA DeskInit == Init => DeskInv
<1> SUFFICES ASSUME Init PROVE DeskInv
  OBVIOUS
<1>1. NoJob \in Jobs /\ NoReply \in [ok : BOOLEAN, items : SUBSET Items]
  BY DEF NoJob, Job, NoReply, Jobs
<1>2. DeskTyped
  BY <1>1 DEF Init, DeskTyped, Statuses
<1>3. ASSUME NEW c \in Calls PROVE CallOK(c)
  BY DEF Init, CallOK, Silent, Decides, Told, Fresh, NoJob, Job, NoReply
<1>4. ConfirmedIsDecided /\ DecidedIsNotOffered
  BY DEF Init, ConfirmedIsDecided, DecidedIsNotOffered
<1> QED
  BY <1>2, <1>3, <1>4 DEF DeskInv

\* A status that is final stays, whatever others do.
Settled == \A i \in Items : status[i] \in {"approved", "rejected"} => status'[i] = status[i]

\* When the page and the calls are left alone, and what is final stays, so do
\* the facts.
LEMMA DeskKept ==
    ASSUME DeskInv, status' \in [Items -> Statuses], Settled, UNCHANGED <<job, reply, page>>
    PROVE  DeskInv'
<1>1. DeskTyped'
  BY DEF DeskInv, DeskTyped, page
<1>2. ASSUME NEW c \in Calls PROVE CallOK(c)'
  BY CallTyped DEF DeskInv, CallOK, Silent, Decides, Told, Fresh, page, Settled, After, Actions
<1>3. ConfirmedIsDecided'
  BY DEF DeskInv, DeskTyped, ConfirmedIsDecided, page, Settled, After
<1>4. DecidedIsNotOffered'
  BY DEF DeskInv, DecidedIsNotOffered, page, AtRest
<1> QED
  BY <1>1, <1>2, <1>3, <1>4 DEF DeskInv

\* New escalations, and what others decide, preserve the facts.
LEMMA OthersKept ==
    ASSUME DeskInv, NEW i \in Items, Escalated(i) \/ Colleague(i)
    PROVE  DeskInv'
<1>1. status' \in [Items -> Statuses] /\ Settled
  BY DEF Escalated, Colleague, IsOpen, After, Actions, Statuses, Settled, DeskInv, DeskTyped
<1> QED
  BY <1>1, DeskKept DEF Escalated, Colleague

\* A call loses its answer: the facts stay.
LEMMA UnansweredKept ==
    ASSUME DeskInv, UNCHANGED <<status, job, page>>,
           reply' \in [Calls -> [ok : BOOLEAN, items : SUBSET Items]],
           \A c \in Calls : reply'[c] = reply[c] \/ reply'[c] = NoReply
    PROVE  DeskInv'
<1>1. DeskTyped'
  BY DEF DeskInv, DeskTyped, page
<1>2. ASSUME NEW c \in Calls PROVE CallOK(c)'
  BY DEF DeskInv, CallOK, Silent, Decides, Told, Fresh, page, NoReply
<1>3. ConfirmedIsDecided' /\ DecidedIsNotOffered'
  BY DEF DeskInv, ConfirmedIsDecided, DecidedIsNotOffered, page, AtRest
<1> QED
  BY <1>1, <1>2, <1>3 DEF DeskInv

\* The gateway's steps preserve the facts.
LEMMA RelayKept ==
    ASSUME DeskInv, (\E c \in Calls : Enter(c) \/ Relay(c)) \/ GatewayRestart
    PROVE  DeskInv'
<1>1. UNCHANGED <<status, job, page>>
  BY DEF Enter, Relay, GatewayRestart, page
<1>2. /\ reply' \in [Calls -> [ok : BOOLEAN, items : SUBSET Items]]
      /\ \A c \in Calls : reply'[c] = reply[c] \/ reply'[c] = NoReply
  <2>1. NoReply \in [ok : BOOLEAN, items : SUBSET Items]
    BY DEF NoReply
  <2>2. reply \in [Calls -> [ok : BOOLEAN, items : SUBSET Items]]
    BY DEF DeskInv, DeskTyped
  <2>3. CASE UNCHANGED reply
    BY <2>2, <2>3
  <2>4. CASE \E c \in Calls : reply' = [reply EXCEPT ![c] = NoReply]
    BY <2>1, <2>2, <2>4
  <2>5. CASE reply' = [c \in Calls |-> IF phase[c] \in Holding THEN NoReply ELSE reply[c]]
    BY <2>1, <2>2, <2>5
  <2> QED
    BY <2>3, <2>4, <2>5 DEF Enter, Relay, GatewayRestart
<1> QED
  BY <1>1, <1>2, UnansweredKept

\* What a call that ends, or starts, does to the other calls: nothing.
Alone(c) ==
    /\ \A d \in Calls \ {c} : job'[d] = job[d] /\ reply'[d] = reply[d]
    /\ job'[c] \in Jobs /\ ~reply'[c].ok
    /\ Decides(c)'

\* A call starts or ends without its answer being kept: calls stay in order.
LEMMA AloneKept ==
    ASSUME DeskInv, NEW c \in Calls, Alone(c), UNCHANGED status,
           mixed' = FALSE => UNCHANGED <<mixed, confirmed>> \/ Loads \subseteq {c}
    PROVE  \A d \in Calls : CallOK(d)'
<1> SUFFICES ASSUME NEW d \in Calls PROVE CallOK(d)'
  OBVIOUS
<1>1. CASE d = c
  BY <1>1 DEF Alone, CallOK, Silent, Told, Fresh
<1>2. CASE d # c
  <2>1. Silent(d)' /\ Decides(d)' /\ Told(d)'
    BY <1>2 DEF Alone, DeskInv, CallOK, Silent, Decides, Told
  <2>2. Fresh(d)'
    BY <1>2 DEF Alone, DeskInv, DeskTyped, CallOK, Fresh, Loads
  <2> QED
    BY <2>1, <2>2 DEF CallOK
<1> QED
  BY <1>1, <1>2
\* An EXCEPT that sets a call's job and answer leaves the other calls alone.
LEMMA SetAlone ==
    ASSUME DeskTyped, NEW c \in Calls, NEW j \in Jobs,
           j.kind = "decide" => j.item \in Items /\ j.action \in Actions,
           job' = [job EXCEPT ![c] = j],
           reply' = [reply EXCEPT ![c] = NoReply] \/ (UNCHANGED reply /\ ~reply[c].ok)
    PROVE  /\ Alone(c) /\ job'[c] = j
           /\ job' \in [Calls -> Jobs]
           /\ reply' \in [Calls -> [ok : BOOLEAN, items : SUBSET Items]]
<1>1. NoReply \in [ok : BOOLEAN, items : SUBSET Items] /\ ~NoReply.ok
  BY DEF NoReply
<1>2. /\ job' \in [Calls -> Jobs] /\ job'[c] = j
      /\ \A d \in Calls \ {c} : job'[d] = job[d]
  BY DEF DeskTyped
<1>3. /\ reply' \in [Calls -> [ok : BOOLEAN, items : SUBSET Items]] /\ ~reply'[c].ok
      /\ \A d \in Calls \ {c} : reply'[d] = reply[d]
  BY <1>1 DEF DeskTyped
<1> QED
  BY <1>2, <1>3 DEF Alone, Decides

\* A job that is none, another user's or a load is a job, and decides nothing.
LEMMA JobsTyped ==
    /\ NoJob \in Jobs /\ NoJob.kind = "none"
    /\ \A kind \in {"other", "list"}, act \in BOOLEAN :
          Job(kind, act) \in Jobs /\ Job(kind, act).kind = kind
BY DEF NoJob, Job, Jobs

\* Others' requests preserve the facts.
LEMMA OtherKept ==
    ASSUME DeskInv, NEW c \in Calls, Other(c)
    PROVE  DeskInv'
<1> DEFINE j == Job("other", FALSE)
<1>1. j \in Jobs /\ j.kind = "other"
  BY JobsTyped
<1>2. job' = [job EXCEPT ![c] = j] /\ UNCHANGED <<status, reply, page>> /\ job[c].kind = "none"
  BY JobsTyped DEF Other
<1>3. ~reply[c].ok
  BY <1>2 DEF DeskInv, CallOK, Silent
<1> HIDE DEF j
<1>4. /\ Alone(c) /\ job'[c] = j /\ job' \in [Calls -> Jobs]
  BY <1>1, <1>2, <1>3, SetAlone DEF DeskInv
<1>5. \A d \in Calls : CallOK(d)'
  BY <1>2, <1>4, AloneKept DEF page
<1>6. DeskTyped'
  BY <1>2, <1>4 DEF DeskInv, DeskTyped, page
<1>7. AtRest' => AtRest
  BY <1>2, <1>4 DEF AtRest, Alone
<1>8. ConfirmedIsDecided' /\ DecidedIsNotOffered'
  BY <1>2, <1>7 DEF DeskInv, ConfirmedIsDecided, DecidedIsNotOffered, page
<1> QED
  BY <1>5, <1>6, <1>8 DEF DeskInv

\* A load that begins preserves the facts, whatever act learned before it.
LEMMA LoadKept ==
    ASSUME DeskInv, NEW c \in Calls, NEW act \in BOOLEAN, Load(c, act),
           busyId' \in Items \union {NoItem}, job[c].kind # "list",
           confirmed' \in [Items -> {"none", "approve", "reject"}],
           ConfirmedIsDecided'
    PROVE  DeskInv'
<1> DEFINE j == Job("list", act)
<1>1. j \in Jobs /\ j.kind = "list"
  BY JobsTyped
<1>2. /\ job' = [job EXCEPT ![c] = j] /\ reply' = [reply EXCEPT ![c] = NoReply]
      /\ UNCHANGED <<status, items>> /\ loading' = TRUE /\ error' = FALSE /\ mixed' = (Loads # {})
  BY DEF Load
<1> HIDE DEF j
<1>3. /\ Alone(c) /\ job'[c] = j /\ job' \in [Calls -> Jobs]
      /\ reply' \in [Calls -> [ok : BOOLEAN, items : SUBSET Items]]
  BY <1>1, <1>2, SetAlone DEF DeskInv
<1>4. \A d \in Calls : CallOK(d)'
  BY <1>2, <1>3, AloneKept
<1>5. DeskTyped'
  BY <1>2, <1>3 DEF DeskInv, DeskTyped
<1>6. DecidedIsNotOffered'
  BY <1>1, <1>3 DEF DecidedIsNotOffered, AtRest
<1> QED
  BY <1>4, <1>5, <1>6 DEF DeskInv

\* Opening or refreshing the page preserves the facts.
LEMMA RefreshKept ==
    ASSUME DeskInv, NEW c \in Calls, Refresh(c)
    PROVE  DeskInv'
<1>1. Load(c, FALSE) /\ UNCHANGED <<busyId, confirmed>> /\ job[c].kind = "none"
  BY JobsTyped DEF Refresh
<1>2. ConfirmedIsDecided'
  BY <1>1 DEF Load, DeskInv, ConfirmedIsDecided
<1> QED
  BY <1>1, <1>2, LoadKept DEF DeskInv, DeskTyped

\* A click on a button preserves the facts.
LEMMA ActKept ==
    ASSUME DeskInv, NEW c \in Calls, NEW i \in Items, NEW action \in Actions, Act(c, i, action)
    PROVE  DeskInv'
<1>1. PICK j : j = [kind |-> "decide", item |-> i, action |-> action, act |-> TRUE]
  OBVIOUS
<1>2. j \in Jobs /\ j.kind = "decide" /\ j.item \in Items /\ j.action \in Actions
  BY <1>1 DEF Jobs
<1>3. /\ job' = [job EXCEPT ![c] = j] /\ job[c].kind = "none" /\ busyId' = i /\ error' = FALSE
      /\ UNCHANGED <<status, reply, items, loading, confirmed, mixed>>
  BY <1>1, JobsTyped DEF Act
<1>4. ~reply[c].ok
  BY <1>3 DEF DeskInv, CallOK, Silent
<1>5. /\ Alone(c) /\ job'[c] = j /\ job' \in [Calls -> Jobs]
  BY <1>2, <1>3, <1>4, SetAlone DEF DeskInv
<1>6. \A d \in Calls : CallOK(d)'
  BY <1>3, <1>5, AloneKept
<1>7. DeskTyped'
  BY <1>3, <1>5 DEF DeskInv, DeskTyped
<1>8. ConfirmedIsDecided' /\ DecidedIsNotOffered'
  BY <1>2, <1>3, <1>5 DEF DeskInv, ConfirmedIsDecided, DecidedIsNotOffered, AtRest
<1> QED
  BY <1>6, <1>7, <1>8 DEF DeskInv

\* What receiving a call's answer does to the calls.
LEMMA ReceivedAlone ==
    ASSUME DeskInv, NEW c \in Calls, Received(c), UNCHANGED <<mixed, confirmed>>
    PROVE  /\ \A d \in Calls : CallOK(d)'
           /\ job' \in [Calls -> Jobs] /\ UNCHANGED status
           /\ reply' \in [Calls -> [ok : BOOLEAN, items : SUBSET Items]]
           /\ job'[c].kind = "none" /\ \A d \in Calls \ {c} : job'[d] = job[d]
<1>1. /\ job' = [job EXCEPT ![c] = NoJob] /\ reply' = [reply EXCEPT ![c] = NoReply]
      /\ UNCHANGED status
  BY DEF Received
<1>2. /\ Alone(c) /\ job'[c] = NoJob /\ job' \in [Calls -> Jobs]
      /\ reply' \in [Calls -> [ok : BOOLEAN, items : SUBSET Items]]
  BY <1>1, SetAlone, JobsTyped DEF DeskInv
<1>3. \A d \in Calls : CallOK(d)'
  BY <1>1, <1>2, AloneKept
<1> QED
  BY <1>1, <1>2, <1>3, JobsTyped DEF Alone

\* What the page does when a decision comes back preserves the facts.
LEMMA ReceiveDecisionKept ==
    ASSUME DeskInv, NEW c \in Calls, ReceiveDecision(c)
    PROVE  DeskInv'
<1>1. CASE ~Succeeded(c) /\ Received(c) /\ error' = TRUE /\ busyId' = NoItem
           /\ UNCHANGED <<items, loading, confirmed, mixed>>
  <2>1. DeskTyped'
    BY <1>1, ReceivedAlone DEF DeskInv, DeskTyped
  <2>2. ConfirmedIsDecided' /\ DecidedIsNotOffered'
    BY <1>1, ReceivedAlone DEF DeskInv, ConfirmedIsDecided, DecidedIsNotOffered
  <2> QED
    BY <1>1, <2>1, <2>2, ReceivedAlone DEF DeskInv
<1>2. CASE /\ Succeeded(c) /\ Decided(c) /\ job[c].kind = "decide"
           /\ confirmed' = [confirmed EXCEPT ![job[c].item] =
                              IF job[c].action = "request_info" THEN @ ELSE job[c].action]
  <2>1. PICK i \in Items : i = job[c].item
    BY <1>2 DEF DeskInv, CallOK, Decides
  <2>2. PICK action \in Actions : action = job[c].action
    BY <1>2 DEF DeskInv, CallOK, Decides
  <2>3. action # "request_info" => status[i] = After(action)
    BY <1>2, <2>1, <2>2 DEF Succeeded, DeskInv, CallOK, Told
  <2>4. confirmed' = [confirmed EXCEPT ![i] = IF action = "request_info" THEN @ ELSE action]
    BY <1>2, <2>1, <2>2
  <2>5. confirmed' \in [Items -> {"none", "approve", "reject"}]
    BY <2>4 DEF DeskInv, DeskTyped, Actions
  <2>6. Load(c, TRUE) /\ UNCHANGED <<busyId, status>>
    BY <1>2 DEF Decided, Load
  <2>7. ConfirmedIsDecided'
    BY <2>3, <2>4, <2>6 DEF DeskInv, DeskTyped, ConfirmedIsDecided
  <2> QED
    BY <1>2, <2>5, <2>6, <2>7, LoadKept DEF DeskInv, DeskTyped
<1> QED
  BY <1>1, <1>2 DEF ReceiveDecision

\* What the page does when a list comes back preserves the facts: it is fresh,
\* or was not the only one, or an error is shown.
LEMMA ReceiveListKept ==
    ASSUME DeskInv, NEW c \in Calls, ReceiveList(c)
    PROVE  DeskInv'
<1>1. /\ Received(c) /\ job[c].kind = "list" /\ loading' = FALSE
      /\ UNCHANGED <<confirmed, mixed>> /\ busyId' \in {NoItem, busyId}
      /\ \/ reply[c].ok /\ items' = reply[c].items /\ UNCHANGED error
         \/ error' = TRUE /\ UNCHANGED items
  BY DEF ReceiveList, Succeeded
<1>2. DeskTyped'
  BY <1>1, ReceivedAlone, CallTyped DEF DeskInv, DeskTyped
<1>3. ConfirmedIsDecided'
  BY <1>1, ReceivedAlone DEF DeskInv, ConfirmedIsDecided
<1>4. DecidedIsNotOffered'
  BY <1>1 DEF DeskInv, CallOK, Fresh, DecidedIsNotOffered
<1> QED
  BY <1>1, <1>2, <1>3, <1>4, ReceivedAlone DEF DeskInv

\* Another user's answer preserves the facts.
LEMMA ReceiveOtherKept ==
    ASSUME DeskInv, NEW c \in Calls, ReceiveOther(c)
    PROVE  DeskInv'
<1>1. Received(c) /\ job[c].kind = "other" /\ UNCHANGED page
  BY DEF ReceiveOther
<1>2. UNCHANGED <<items, loading, error, busyId, confirmed, mixed>>
  BY <1>1 DEF page
<1>3. DeskTyped'
  BY <1>1, <1>2, ReceivedAlone DEF DeskInv, DeskTyped
<1>4. AtRest' => AtRest
  BY <1>1, <1>2, ReceivedAlone DEF AtRest
<1>5. ConfirmedIsDecided' /\ DecidedIsNotOffered'
  BY <1>1, <1>2, <1>4, ReceivedAlone DEF DeskInv, ConfirmedIsDecided, DecidedIsNotOffered
<1> QED
  BY <1>1, <1>2, <1>3, <1>5, ReceivedAlone DEF DeskInv

\* The service answers ok and S: a list of what is open, a decision taken.
Served(c, ok, S) ==
    /\ reply' = [reply EXCEPT ![c] = [ok |-> ok, items |-> S]]
    /\ ok => /\ job[c].kind # "none"
             /\ job[c].kind = "list" => \A i \in S : IsOpen(i)
             /\ job[c].kind = "decide" => status'[job[c].item] = After(job[c].action)

\* The service's work on a call: what a status becomes, and what it answers.
LEMMA ServeForm ==
    ASSUME DeskInv, NEW c \in Calls, Serve(c)
    PROVE  /\ UNCHANGED <<job, page>> /\ status' \in [Items -> Statuses] /\ Settled
           /\ \E ok \in BOOLEAN, S \in SUBSET Items : Served(c, ok, S)
<1>1. UNCHANGED <<job, page>> /\ status \in [Items -> Statuses]
  BY DEF Serve, DeskInv, DeskTyped
<1>2. UNCHANGED status => status' \in [Items -> Statuses] /\ Settled
  BY <1>1 DEF Settled
<1>3. {} \subseteq Items /\ {i \in Items : IsOpen(i)} \subseteq Items
  OBVIOUS
<1>4. CASE Answer(c, FALSE, {}) /\ UNCHANGED status
  <2>1. Served(c, FALSE, {})
    BY <1>4 DEF Answer, Served
  <2> QED
    BY <1>1, <1>2, <1>3, <1>4, <2>1
<1>5. CASE /\ job[c].kind = "list" /\ UNCHANGED status
           /\ Answer(c, TRUE, {i \in Items : IsOpen(i)})
  <2>1. Served(c, TRUE, {i \in Items : IsOpen(i)})
    BY <1>5 DEF Answer, Served
  <2> QED
    BY <1>1, <1>2, <1>3, <1>5, <2>1
<1>6. CASE /\ job[c].kind = "decide" /\ Take(job[c].item, job[c].action)
           /\ Answer(c, IsOpen(job[c].item), {}) \/ Answer(c, FALSE, {})
  <2>1. job[c].item \in Items /\ job[c].action \in Actions
    BY <1>6 DEF DeskInv, CallOK, Decides
  <2>2. status' \in [Items -> Statuses] /\ Settled
    BY <1>1, <1>6, <2>1 DEF Take, IsOpen, After, Actions, Statuses, Settled
  <2>3. IsOpen(job[c].item) => status'[job[c].item] = After(job[c].action)
    BY <1>1, <1>6, <2>1 DEF Take
  <2>4. IsOpen(job[c].item) \in BOOLEAN
    BY DEF IsOpen
  <2>5. Served(c, IsOpen(job[c].item), {}) \/ Served(c, FALSE, {})
    BY <1>6, <2>3 DEF Answer, Served
  <2> QED
    BY <1>1, <1>3, <2>2, <2>4, <2>5, Zenon
<1>7. CASE job[c].kind = "other" /\ Answer(c, TRUE, {}) /\ UNCHANGED status
  <2>1. Served(c, TRUE, {})
    BY <1>7 DEF Answer, Served
  <2> QED
    BY <1>1, <1>2, <1>3, <1>7, <2>1
<1> QED
  BY <1>4, <1>5, <1>6, <1>7 DEF Serve

\* The service's work preserves the facts: what it lists is open, so the page
\* was not told it is decided; what it answers as decided, it has decided.
LEMMA ServeKept ==
    ASSUME DeskInv, NEW c \in Calls, Serve(c)
    PROVE  DeskInv'
<1>1. UNCHANGED <<job, page>> /\ status' \in [Items -> Statuses] /\ Settled
  BY ServeForm
<1>2. PICK ok \in BOOLEAN, S \in SUBSET Items : Served(c, ok, S)
  BY ServeForm
<1>3. /\ reply' \in [Calls -> [ok : BOOLEAN, items : SUBSET Items]]
      /\ reply'[c].ok = ok /\ reply'[c].items = S
      /\ \A d \in Calls \ {c} : reply'[d] = reply[d]
  BY <1>2 DEF Served, DeskInv, DeskTyped
<1>4. UNCHANGED <<items, loading, error, busyId, confirmed, mixed>>
  BY <1>1 DEF page
<1>5. DeskTyped'
  BY <1>1, <1>3, <1>4 DEF DeskInv, DeskTyped
<1>6. ASSUME NEW d \in Calls PROVE CallOK(d)'
  <2>1. Silent(d)' /\ Decides(d)'
    BY <1>1, <1>2, <1>3 DEF Served, DeskInv, CallOK, Silent, Decides
  <2>2. Told(d)'
    BY <1>1, <1>2, <1>3 DEF Served, DeskInv, CallOK, Decides, Told, Settled, After, Actions
  <2>3. Fresh(d)'
    <3>1. CASE d = c
      <4>1. \A i \in Items : IsOpen(i) => confirmed[i] = "none"
        BY DEF DeskInv, DeskTyped, ConfirmedIsDecided, IsOpen, After
      <4> QED
        BY <1>1, <1>2, <1>3, <1>4, <3>1, <4>1 DEF Served, Fresh
    <3>2. CASE d # c
      BY <1>1, <1>3, <1>4, <3>2 DEF DeskInv, CallOK, Fresh
    <3> QED
      BY <3>1, <3>2
  <2> QED
    BY <2>1, <2>2, <2>3 DEF CallOK
<1>7. ConfirmedIsDecided'
  BY <1>1, <1>4 DEF DeskInv, DeskTyped, ConfirmedIsDecided, Settled, After
<1>8. DecidedIsNotOffered'
  BY <1>1, <1>4 DEF DeskInv, DecidedIsNotOffered, AtRest
<1> QED
  BY <1>5, <1>6, <1>7, <1>8 DEF DeskInv

\* Every step preserves the facts.
LEMMA DeskNext == DeskInv /\ [Next]_vars => DeskInv'
<1> SUFFICES ASSUME DeskInv, [Next]_vars PROVE DeskInv'
  OBVIOUS
<1>1. CASE UNCHANGED vars
  <2>1. Settled /\ status' \in [Items -> Statuses] /\ UNCHANGED <<job, reply, page>>
    BY <1>1 DEF vars, Settled, DeskInv, DeskTyped
  <2> QED
    BY <2>1, DeskKept
<1>2. ASSUME NEW c \in Calls, Handle(c) PROVE DeskInv'
  BY <1>2, OtherKept, RelayKept, ServeKept, RefreshKept, ActKept, ReceiveDecisionKept,
     ReceiveListKept, ReceiveOtherKept DEF Handle
<1> QED
  BY <1>1, <1>2, OthersKept, RelayKept DEF Next

\* The facts hold at all times.
LEMMA DeskAlways == Spec => []DeskInv
BY DeskInit, DeskNext, PTL DEF Spec

\* The types, and the bound on the counters of the bulkheads.
THEOREM DeskTypeCorrect == Spec => []TypeOK
<1>1. GatewayTyped /\ DeskInv => TypeOK
  BY DEF GatewayTyped, DeskInv, DeskTyped, TypeOK
<1> QED
  BY <1>1, SlotsAlways, DeskAlways, PTL

\* A decision the page was told took effect (decideEscalation in api.js) is the
\* one the service keeps.
THEOREM ConfirmedDecisionsStand == Spec => []ConfirmedIsDecided
BY DeskAlways, PTL DEF DeskInv

\* The page at rest offers nothing it knows to be decided, unless its last load
\* overlapped another (act and load in ApproverView.jsx).
THEOREM DecidedAreNotOffered == Spec => []DecidedIsNotOffered
BY DeskAlways, PTL DEF DeskInv
=============================================================================
