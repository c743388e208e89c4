---------------------------- MODULE LiveFeedProofs ----------------------------
(***************************************************************************)
(* LiveFeed for any number of sockets, channels, events, listener tasks    *)
(* and faults.                                                             *)
(***************************************************************************)
EXTENDS LiveFeed, SequenceTheorems, TLAPS

USE BoundsAreNaturals DEF BoundsAreNaturals

(***************************************************************************)
(* Tasks follow one another: those before the one that ws_manager          *)
(* remembers are done, those behind it are not created.                    *)
(***************************************************************************)
TasksInTurn ==
  \A l \in Tasks :
     /\ l < pubsub_task => pc[l] = "done"
     /\ l > pubsub_task => pc[l] = "unborn"

\* The last event that the task has taken or did not hear.
Taken(l) == Len(events) - Len(inbox[l])

\* What Redis has sent to a task is all that was published since what it took.
InboxFollows ==
  \A l \in Tasks : Subscribed(l) =>
     /\ heard[l] <= Taken(l)
     /\ \A i \in DOMAIN inbox[l] : inbox[l][i] = Taken(l) + i
     /\ pc[l] = "send" => message[l] = Taken(l)

\* Nothing that a socket got comes to it again.
NothingTwice ==
  \A s \in Sockets, l \in Tasks : \A i \in DOMAIN received[s] :
     Subscribed(l) =>
       /\ received[s][i] <= Taken(l)
       /\ s \in targets[l] => received[s][i] < message[l]

Open(s) == endpoint[s] = "receive" /\ s \notin gone

\* A broadcast of any channel copies every open socket.
OpenIsSubscribed == \A s \in Sockets, c \in Channels : Open(s) => s \in subs[c]

\* What the task has taken, an open socket has got, or the broadcast still has it before it.
TakenReaches ==
  \A s \in Sockets, l \in Tasks : \A e \in Ids :
     Open(s) /\ Subscribed(l) /\ e > since[s] /\ e > heard[l] /\ e <= Taken(l)
       => Got(s, e) \/ (message[l] = e /\ s \in targets[l])

-----------------------------------------------------------------------------
\* A connect that creates a task creates one that did not exist.
LEMMA CreateTaskIsNew ==
  ASSUME TypeOK, TasksInTurn, CreateTask
  PROVE  /\ pubsub_task + 1 \in Tasks /\ pubsub_task' = pubsub_task + 1
         /\ pc[pubsub_task + 1] = "unborn"
         /\ pc' = [pc EXCEPT ![pubsub_task + 1] = "start"]
         /\ UNCHANGED <<inbox, message, targets, heard>>
  BY DEF CreateTask, TypeOK, TasksInTurn, Tasks

\* The type invariant holds initially.
LEMMA TypeInit == Init => TypeOK /\ TasksInTurn
  BY DEF Init, TypeOK, TasksInTurn, Ids, Points, Endpoints, Tasks, Subscribed

\* Events are numbered on, so that what was an event remains one.
LEMMA PublishTypes ==
  ASSUME TypeOK, NEW c \in Channels, Publish(c)
  PROVE  TypeOK'
<1> USE DEF TypeOK, Publish, client, manager
<1>1. /\ events' \in Seq(Channels) /\ Len(events') = Len(events) + 1
      /\ Len(events) \in Nat /\ Len(events') \in Ids' /\ Ids \subseteq Ids'
  BY DEF Ids
<1>2. \A q \in Seq(Ids) : q \in Seq(Ids')
  BY <1>1, SeqMonotonic
<1>3. inbox' \in [Tasks -> Seq(Ids')]
  <2>1. ASSUME NEW l \in Tasks PROVE Append(inbox[l], Len(events')) \in Seq(Ids')
    <3>1. inbox[l] \in Seq(Ids')
      BY <1>2
    <3> QED
      BY <1>1, <3>1, AppendProperties
  <2> QED
    BY <1>2, <2>1
<1>4. received' \in [Sockets -> Seq(Ids')]
  BY <1>2
<1>5. /\ message' \in [Tasks -> 0..Len(events')]
      /\ since' \in [Sockets -> 0..Len(events')]
      /\ heard' \in [Tasks -> 0..Len(events')]
  <2>1. 0..Len(events) \subseteq 0..Len(events')
    BY <1>1
  <2> QED
    BY <2>1
<1>6. \A l \in Tasks : /\ inbox'[l] # <<>> => Subscribed(l)'
                       /\ pc'[l] = "send" => message'[l] \in Ids'
  BY <1>1 DEF Subscribed
<1> QED
  BY <1>1, <1>3, <1>4, <1>5, <1>6

\* Connect creates a task in state "start" or leaves the tasks alone.
LEMMA ConnectTypes ==
  ASSUME TypeOK, TasksInTurn, NEW s \in Sockets, Connect(s)
  PROVE  TypeOK'
<1>1. /\ events \in Seq(Channels) /\ Len(events) \in 0..Len(events)
      /\ UNCHANGED <<events, gone, received, faults>>
  BY DEF TypeOK, Connect, Subscribe
<1>2. /\ endpoint' \in [Sockets -> Endpoints] /\ subs' \in [Channels -> SUBSET Sockets]
      /\ since' \in [Sockets -> 0..Len(events)]
  BY <1>1 DEF TypeOK, Connect, Subscribe, Endpoints
<1>3. CASE CreateTask
  <2>1. pc' \in [Tasks -> Points] /\ pubsub_task' \in 0..MaxTasks
    <3>1. pc' = [pc EXCEPT ![pubsub_task + 1] = "start"]
      BY <1>3, CreateTaskIsNew
    <3>2. pubsub_task' = pubsub_task + 1 /\ pubsub_task + 1 \in Tasks
      BY <1>3, CreateTaskIsNew
    <3> QED
      BY <3>1, <3>2 DEF TypeOK, Points, Tasks
  <2>2. \A l \in Tasks : /\ pc'[l] = "send" <=> targets'[l] # {}
                         /\ pc'[l] = "send" => message'[l] \in Ids
                         /\ inbox'[l] # <<>> => Subscribed(l)'
    BY <1>3, CreateTaskIsNew DEF TypeOK, Subscribed
  <2> QED
    BY <1>1, <1>2, <1>3, <2>1, <2>2, CreateTaskIsNew DEF TypeOK, Ids
<1>4. CASE UNCHANGED <<pubsub_task, listener>>
  BY <1>1, <1>2, <1>4 DEF TypeOK, Ids, listener, Subscribed
<1> QED
  BY <1>3, <1>4 DEF Connect

\* The task takes an event from its inbox and copies that channel's subscribers.
LEMMA TakeTypes ==
  ASSUME TypeOK, NEW l \in Tasks, Take(l)
  PROVE  TypeOK'
<1> USE DEF TypeOK, client, manager
<1> DEFINE e == Head(inbox[l])
<1>1. inbox[l] \in Seq(Ids) /\ inbox[l] # <<>>
  BY DEF Take
<1>2. e \in Ids /\ Tail(inbox[l]) \in Seq(Ids)
  BY <1>1, HeadTailProperties
<1>3. e \in 0..Len(events) /\ events[e] \in Channels /\ subs[events[e]] \subseteq Sockets
  BY <1>2, ElementOfSeq DEF Ids
<1>4. /\ message' = [message EXCEPT ![l] = e]
      /\ targets' = [targets EXCEPT ![l] = subs[events[e]]]
      /\ pc' = [pc EXCEPT ![l] = IF subs[events[e]] = {} THEN "listen" ELSE "send"]
      /\ inbox' = [inbox EXCEPT ![l] = Tail(inbox[l])]
      /\ UNCHANGED <<events, client, manager, heard, received, since, faults>>
  BY DEF Take
<1> HIDE DEF e
<1>5. inbox' \in [Tasks -> Seq(Ids)] /\ message' \in [Tasks -> 0..Len(events)]
      /\ targets' \in [Tasks -> SUBSET Sockets] /\ pc' \in [Tasks -> Points]
  BY <1>2, <1>3, <1>4 DEF Points
<1>6. ASSUME NEW k \in Tasks
      PROVE  /\ pc'[k] = "send" <=> targets'[k] # {}
             /\ pc'[k] = "send" => message'[k] \in Ids
             /\ inbox'[k] # <<>> => Subscribed(k)'
  <2>1. CASE k = l
    BY <1>2, <1>4, <2>1 DEF Subscribed
  <2>2. CASE k # l
    BY <1>4, <2>2 DEF Subscribed
  <2> QED
    BY <2>1, <2>2
<1> QED
  BY <1>4, <1>5, <1>6 DEF Ids

\* What Dequeue leaves of the types, whether the send returned or raised.
LEMMA DequeueTypes ==
  ASSUME TypeOK, NEW l \in Tasks, NEW s \in Sockets, pc[l] = "send", s \in targets[l],
         Dequeue(l, s),
         received' \in [Sockets -> Seq(Ids)], subs' \in [Channels -> SUBSET Sockets]
  PROVE  TypeOK'
<1> USE DEF TypeOK, client, Dequeue
<1>1. pc' \in [Tasks -> Points] /\ targets' \in [Tasks -> SUBSET Sockets]
  BY DEF Points
<1>2. ASSUME NEW k \in Tasks
      PROVE  /\ pc'[k] = "send" <=> targets'[k] # {}
             /\ pc'[k] = "send" => message'[k] \in Ids
             /\ inbox'[k] # <<>> => Subscribed(k)'
  <2>1. CASE k = l
    BY <2>1 DEF Subscribed
  <2>2. CASE k # l
    BY <2>2 DEF Subscribed
  <2> QED
    BY <2>1, <2>2
<1> QED
  BY <1>1, <1>2 DEF Ids

\* A send, returned or raised, appends an event to what one socket got at most.
LEMMA SendTypes ==
  ASSUME TypeOK, NEW l \in Tasks, NEW s \in Sockets, Send(l, s) \/ SendRaises(l, s)
  PROVE  TypeOK'
<1>1. pc[l] = "send" /\ s \in targets[l] /\ Dequeue(l, s)
  BY DEF Send, SendRaises
<1>2. message[l] \in Ids /\ received[s] \in Seq(Ids)
  BY <1>1 DEF TypeOK
<1>3. Append(received[s], message[l]) \in Seq(Ids)
  BY <1>2, AppendProperties
<1>4. received' \in [Sockets -> Seq(Ids)]
  BY <1>3 DEF TypeOK, Send, SendRaises
<1>5. subs' \in [Channels -> SUBSET Sockets]
  BY DEF TypeOK, Send, SendRaises
<1> QED
  BY <1>1, <1>4, <1>5, DequeueTypes

\* The steps of a task that begin or end it or cost it the connection.
LEMMA ConnectionTypes ==
  ASSUME TypeOK, NEW l \in Tasks,
         Psubscribe(l) \/ Close(l) \/ LoseConnection(l) \/ PsubscribeRaises(l)
  PROVE  TypeOK'
<1> USE DEF TypeOK, Ids, Points, client, manager, Failure, Subscribed
<1>1. CASE Psubscribe(l)
  BY <1>1 DEF Psubscribe
<1>2. CASE Close(l)
  BY <1>2 DEF Close
<1>4. CASE PsubscribeRaises(l)
  <2>1. PICK p \in {"closing", "done"} : pc' = [pc EXCEPT ![l] = p]
    BY <1>4 DEF PsubscribeRaises
  <2>2. pc[l] \in {"start", "again"}
    BY <1>4 DEF PsubscribeRaises
  <2>3. QED
    BY <1>4, <2>1, <2>2 DEF PsubscribeRaises
<1>3. CASE LoseConnection(l)
  <2>1. PICK p \in {"closing", "again"} : pc' = [pc EXCEPT ![l] = p]
    BY <1>3 DEF LoseConnection
  <2>2. inbox' = [inbox EXCEPT ![l] = <<>>] /\ <<>> \in Seq(Ids)
    BY <1>3, EmptySeq DEF LoseConnection
  <2> QED
    BY <1>3, <2>1, <2>2 DEF LoseConnection
<1> QED
  BY <1>1, <1>2, <1>3, <1>4

\* A connect creates a task only when the last one is done.
LEMMA ConnectTurn ==
  ASSUME TypeOK, TasksInTurn, NEW s \in Sockets, Connect(s)
  PROVE  TasksInTurn'
<1>1. CASE pubsub_task = 0 \/ pc[pubsub_task] = "done"
  <2>1. CreateTask
    BY <1>1 DEF Connect
  <2>2. pubsub_task \in Nat /\ pubsub_task' = pubsub_task + 1
    BY <2>1, CreateTaskIsNew DEF TypeOK
  <2>3. \A l \in Tasks : l # pubsub_task + 1 => pc'[l] = pc[l]
    BY <2>1, CreateTaskIsNew DEF TypeOK
  <2>4. ASSUME NEW l \in Tasks, l < pubsub_task + 1 PROVE pc[l] = "done"
    <3>1. l < pubsub_task \/ (l = pubsub_task /\ l # 0)
      BY <2>2, <2>4 DEF Tasks
    <3> QED
      BY <1>1, <3>1 DEF TasksInTurn
  <2>5. \A l \in Tasks : l > pubsub_task + 1 => pc[l] = "unborn"
    BY <2>2 DEF TasksInTurn, Tasks
  <2> QED
    BY <2>2, <2>3, <2>4, <2>5 DEF TasksInTurn, Tasks
<1>2. CASE ~(pubsub_task = 0 \/ pc[pubsub_task] = "done")
  BY <1>2 DEF Connect, listener, TasksInTurn
<1> QED
  BY <1>1, <1>2

\* Tasks are created one behind the other, and no other step makes one live.
LEMMA TurnNext ==
  ASSUME TypeOK, TasksInTurn, [Next]_vars
  PROVE  TasksInTurn'
<1> USE DEF TypeOK, TasksInTurn, Tasks, client, manager, listener
<1>2. ASSUME NEW l \in Tasks, TaskStep(l) \/ LoseConnection(l) \/ PsubscribeRaises(l)
      PROVE  TasksInTurn'
  <2>1. /\ pc[l] \notin {"unborn", "done"} /\ UNCHANGED pubsub_task
        /\ \E p \in Points : pc' = [pc EXCEPT ![l] = p]
    BY <1>2 DEF TaskStep, Psubscribe, Take, Close, Send, SendRaises, Dequeue,
                LoseConnection, PsubscribeRaises, Points
  <2>2. l = pubsub_task
    BY <2>1
  <2> QED
    BY <2>1, <2>2
<1>3. ASSUME UNCHANGED <<pc, pubsub_task>> PROVE TasksInTurn'
  BY <1>3
<1>4. ASSUME NEW c \in Channels, Publish(c) PROVE UNCHANGED <<pc, pubsub_task>>
  BY <1>4 DEF Publish
<1>5. ASSUME NEW s \in Sockets, PeerLeaves(s) \/ Leave(s) \/ EndpointRaises(s)
      PROVE  UNCHANGED <<pc, pubsub_task>>
  BY <1>5 DEF PeerLeaves, Leave, EndpointRaises
<1>6. CASE UNCHANGED vars
  BY <1>6 DEF vars
<1> QED
  BY <1>2, <1>3, <1>4, <1>5, <1>6, ConnectTurn DEF Next

\* Every step keeps the types.
LEMMA TypeNext ==
  ASSUME TypeOK, TasksInTurn, [Next]_vars
  PROVE  TypeOK'
<1>1. CASE UNCHANGED vars
  BY <1>1 DEF vars, TypeOK, Ids, client, manager, listener, Subscribed
<1>2. ASSUME NEW s \in Sockets, PeerLeaves(s) \/ Leave(s) \/ EndpointRaises(s)
      PROVE  TypeOK'
  <2> USE DEF TypeOK, Ids, client, manager, listener, Subscribed
  <2>1. CASE PeerLeaves(s)
    BY <2>1 DEF PeerLeaves
  <2>2. CASE Leave(s)
    BY <2>2 DEF Leave, Endpoints
  <2>3. CASE EndpointRaises(s)
    BY <2>3 DEF EndpointRaises, Endpoints, Failure
  <2> QED
    BY <1>2, <2>1, <2>2, <2>3
<1> QED
  BY <1>1, <1>2, PublishTypes, ConnectTypes, TakeTypes, SendTypes, ConnectionTypes
     DEF Next, TaskStep

(* TypeOK: of the listener, only a task that broadcasts has targets and    *)
(* only one that is subscribed has an inbox; both hold published events.   *)
THEOREM TypeCorrect == Spec => []TypeOK
<1>1. Init => TypeOK /\ TasksInTurn
  BY TypeInit
<1>2. TypeOK /\ TasksInTurn /\ [Next]_vars => (TypeOK /\ TasksInTurn)'
  BY TypeNext, TurnNext
<1> QED
  BY <1>1, <1>2, PTL DEF Spec

(* TasksInTurn: listener tasks follow one another; ws_manager creates one  *)
(* only when all those before it are done.                                 *)
THEOREM TasksInTurnAlways == Spec => []TasksInTurn
<1>1. TypeOK /\ TasksInTurn /\ [Next]_vars => TasksInTurn'
  BY TurnNext
<1>2. Init => TasksInTurn
  BY TypeInit
<1> QED
  BY <1>1, <1>2, TypeCorrect, PTL DEF Spec

(* OneListener: at most one task bridges Redis to the sockets, and it is   *)
(* the one ws_manager remembers, whoever connects while it starts or ends. *)
THEOREM OneListenerAlways == Spec => []OneListener
<1>1. TypeOK /\ TasksInTurn => OneListener
  BY DEF TypeOK, TasksInTurn, OneListener, Live, Tasks
<1> QED
  BY <1>1, TypeCorrect, TasksInTurnAlways, PTL DEF Spec

-----------------------------------------------------------------------------
\* A task that is subscribed behind the step was before, with the same feed.
SameFeed(k) ==
  Subscribed(k)' =>
    /\ Subscribed(k)
    /\ inbox'[k] = inbox[k] /\ heard'[k] = heard[k]
    /\ message'[k] = message[k] /\ targets'[k] = targets[k]

\* The steps that concern the feed of one task.
FeedStep(l) == Psubscribe(l) \/ Take(l) \/ \E s \in Sockets : Send(l, s) \/ SendRaises(l, s)

\* No step but FeedStep(l) and Publish changes the feed of a task that is subscribed.
LEMMA FeedWriters ==
  ASSUME TypeOK, TasksInTurn, [Next]_vars
  PROVE  \/ \E c \in Channels : Publish(c)
         \/ \E l \in Tasks : FeedStep(l)
         \/ /\ \A k \in Tasks : SameFeed(k)
            /\ UNCHANGED <<events, received>>
<1> DEFINE Steady == (\A k \in Tasks : SameFeed(k)) /\ UNCHANGED <<events, received>>
<1>1. ASSUME NEW s \in Sockets, Connect(s) PROVE Steady
  <2>1. CASE CreateTask
    <3>1. /\ pc' = [pc EXCEPT ![pubsub_task + 1] = "start"]
          /\ UNCHANGED <<inbox, message, targets, heard>>
      BY <2>1, CreateTaskIsNew
    <3>2. UNCHANGED <<events, received>>
      BY <1>1 DEF Connect, Subscribe
    <3> QED
      BY <3>1, <3>2 DEF SameFeed, Subscribed, TypeOK
  <2>2. CASE UNCHANGED <<pubsub_task, listener>>
    BY <1>1, <2>2 DEF Connect, Subscribe, SameFeed, Subscribed, listener
  <2> QED
    BY <1>1, <2>1, <2>2 DEF Connect
<1>2. ASSUME NEW s \in Sockets, PeerLeaves(s) \/ Leave(s) \/ EndpointRaises(s)
      PROVE  Steady
  BY <1>2 DEF PeerLeaves, Leave, EndpointRaises, SameFeed, Subscribed, listener
<1>3. ASSUME NEW l \in Tasks, Close(l) \/ LoseConnection(l) \/ PsubscribeRaises(l)
      PROVE  Steady
  <2>1. \E p \in {"again", "closing", "done"} : pc' = [pc EXCEPT ![l] = p]
    BY <1>3 DEF Close, LoseConnection, PsubscribeRaises
  <2>2. /\ \A k \in Tasks : k # l => inbox'[k] = inbox[k]
        /\ UNCHANGED <<message, targets, heard, events, received>>
    BY <1>3 DEF Close, LoseConnection, PsubscribeRaises, TypeOK
  <2> QED
    BY <2>1, <2>2 DEF SameFeed, Subscribed, TypeOK
<1>4. CASE UNCHANGED vars
  BY <1>4 DEF vars, listener, SameFeed, Subscribed
<1> QED
  BY <1>1, <1>2, <1>3, <1>4 DEF Next, TaskStep, FeedStep

\* What a task has taken lies between nothing and everything.
LEMMA TakenIsBounded ==
  ASSUME TypeOK, NEW l \in Tasks
  PROVE  /\ Len(events) \in Nat /\ Len(inbox[l]) \in Nat
         /\ Taken(l) \in Int /\ Taken(l) <= Len(events)
         /\ heard[l] \in Nat /\ message[l] \in Nat
  BY DEF TypeOK, Taken

\* A publication puts the event behind what the inbox holds, and nothing is taken by it.
LEMMA PublishKeepsTaken ==
  ASSUME TypeOK, NEW c \in Channels, Publish(c), NEW l \in Tasks, Subscribed(l)
  PROVE  /\ Taken(l)' = Taken(l)
         /\ Len(inbox'[l]) = Len(inbox[l]) + 1
         /\ \A i \in 1..Len(inbox[l]) : inbox'[l][i] = inbox[l][i]
         /\ inbox'[l][Len(inbox[l]) + 1] = Taken(l) + Len(inbox[l]) + 1
<1>1. inbox[l] \in Seq(Nat) /\ Len(events) \in Nat /\ Len(events') = Len(events) + 1
  <2>1. Ids \subseteq Nat
    BY DEF Ids, TypeOK
  <2>2. inbox[l] \in Seq(Nat)
    BY <2>1, SeqMonotonic DEF TypeOK
  <2> QED
    BY <2>2 DEF TypeOK, Publish
<1>2. inbox'[l] = Append(inbox[l], Len(events) + 1)
  BY <1>1 DEF Publish
<1>3. Len(inbox[l]) \in Nat /\ Len(events) + 1 \in Nat
  BY <1>1
<1>4. /\ Len(inbox'[l]) = Len(inbox[l]) + 1
      /\ \A i \in 1..Len(inbox[l]) : inbox'[l][i] = inbox[l][i]
      /\ inbox'[l][Len(inbox[l]) + 1] = Len(events) + 1
  BY <1>1, <1>2, <1>3, AppendProperties
<1>5. Taken(l)' = Taken(l) /\ Len(events) + 1 = Taken(l) + Len(inbox[l]) + 1
  BY <1>1, <1>3, <1>4 DEF Taken
<1> QED
  BY <1>4, <1>5

\* The task takes exactly the event behind what it has taken.
LEMMA TakeIsNext ==
  ASSUME TypeOK, InboxFollows, NEW l \in Tasks, Take(l)
  PROVE  /\ Taken(l)' = Taken(l) + 1
         /\ message'[l] = Taken(l) + 1
         /\ Len(inbox'[l]) = Len(inbox[l]) - 1
         /\ \A i \in 1..Len(inbox'[l]) : inbox'[l][i] = inbox[l][i + 1]
         /\ targets[l] = {}
         /\ targets'[l] = subs[events[Taken(l) + 1]]
         /\ Taken(l) + 1 \in Ids
<1>1. inbox[l] \in Seq(Ids) /\ inbox[l] # <<>>
  BY DEF Take, TypeOK
<1>2. /\ inbox'[l] = Tail(inbox[l]) /\ message'[l] = Head(inbox[l])
      /\ targets'[l] = subs[events[Head(inbox[l])]] /\ UNCHANGED events
  BY DEF Take, TypeOK
<1>3. Len(inbox[l]) \in Nat \ {0} /\ 1 \in DOMAIN inbox[l]
  BY <1>1, LenProperties, EmptySeq
<1>4. Head(inbox[l]) = inbox[l][1]
  BY <1>1
<1>5. inbox[l][1] = Taken(l) + 1
  BY <1>3 DEF InboxFollows, Take, Subscribed
<1>6. /\ Head(inbox[l]) \in Ids /\ Len(Tail(inbox[l])) = Len(inbox[l]) - 1
      /\ \A i \in 1..Len(Tail(inbox[l])) : Tail(inbox[l])[i] = inbox[l][i + 1]
  BY <1>1, HeadTailProperties
<1>7. Taken(l)' = Taken(l) + 1
  <2>1. Len(inbox'[l]) = Len(inbox[l]) - 1
    BY <1>2, <1>6
  <2>2. Len(events) \in Nat /\ Len(inbox[l]) \in Nat
    BY <1>3 DEF TypeOK
  <2>3. Taken(l)' = Len(events) - Len(inbox'[l])
    BY <1>2 DEF Taken
  <2> QED
    BY <2>1, <2>2, <2>3 DEF Taken
<1>8. targets[l] = {}
  BY DEF Take, TypeOK
<1> QED
  BY <1>2, <1>4, <1>5, <1>6, <1>7, <1>8

\* A broadcast goes through its copy of the subscribers and touches no other task.
LEMMA DequeueFeed ==
  ASSUME TypeOK, NEW l \in Tasks, NEW s \in Sockets, Send(l, s) \/ SendRaises(l, s)
  PROVE  /\ pc[l] = "send" /\ pc'[l] \in {"listen", "send"} /\ s \in targets[l]
         /\ UNCHANGED <<events, inbox, heard, message>>
         /\ targets'[l] = targets[l] \ {s}
         /\ \A k \in Tasks \ {l} : pc'[k] = pc[k] /\ targets'[k] = targets[k]
         /\ \A k \in Tasks : Taken(k)' = Taken(k)
  BY DEF Send, SendRaises, Dequeue, TypeOK, Taken

\* PSUBSCRIBE starts a feed with an empty inbox behind all that was published.
LEMMA PsubscribeFeed ==
  ASSUME TypeOK, NEW l \in Tasks, Psubscribe(l)
  PROVE  /\ pc'[l] = "listen" /\ inbox'[l] = <<>> /\ targets'[l] = {}
         /\ heard'[l] = Len(events) /\ Taken(l)' = Len(events)
         /\ UNCHANGED <<events, received, since, endpoint, gone, subs>>
         /\ \A k \in Tasks \ {l} : SameFeed(k)
<1>1. inbox[l] = <<>> /\ targets[l] = {}
  BY DEF Psubscribe, TypeOK, Subscribed
<1>2. Len(<<>>) = 0 /\ Len(events) \in Nat
  BY DEF TypeOK
<1> QED
  BY <1>1, <1>2 DEF Psubscribe, TypeOK, Taken, SameFeed, Subscribed, client, manager

-----------------------------------------------------------------------------
\* The inbox stays all that was published behind what the task has taken.
LEMMA InboxNext ==
  ASSUME TypeOK, TasksInTurn, InboxFollows, [Next]_vars
  PROVE  InboxFollows'
<1> DEFINE Follows(k) ==
      Subscribed(k) =>
        /\ heard[k] <= Taken(k)
        /\ \A i \in 1..Len(inbox[k]) : inbox[k][i] = Taken(k) + i
        /\ pc[k] = "send" => message[k] = Taken(k)
<1>1. ASSUME NEW k \in Tasks PROVE Follows(k)
  <2>1. DOMAIN inbox[k] = 1..Len(inbox[k])
    BY DEF TypeOK
  <2> QED
    BY <2>1 DEF InboxFollows
<1>2. ASSUME NEW k \in Tasks, SameFeed(k), UNCHANGED events, TypeOK' PROVE Follows(k)'
  <2>1. CASE Subscribed(k)'
    <3>1. Subscribed(k) /\ Taken(k)' = Taken(k)
      BY <1>2, <2>1 DEF SameFeed, Taken
    <3>2. pc'[k] = "send" => pc[k] = "send"
      BY <1>2, <2>1 DEF SameFeed, TypeOK
    <3> QED
      BY <1>1, <1>2, <2>1, <3>1, <3>2 DEF SameFeed
  <2> QED
    BY <2>1
<1>3. TypeOK'
  BY TypeNext
<1>4. ASSUME NEW c \in Channels, Publish(c), NEW k \in Tasks PROVE Follows(k)'
  <2>1. UNCHANGED <<pc, heard, message>>
    BY <1>4 DEF Publish
  <2>2. CASE Subscribed(k)
    <3>1. Len(inbox[k]) \in Nat /\ Taken(k) \in Int
      BY TakenIsBounded
    <3>2. ASSUME NEW i \in 1..Len(inbox'[k]) PROVE inbox'[k][i] = Taken(k) + i
      <4>1. Len(inbox'[k]) = Len(inbox[k]) + 1
        BY <1>4, <2>2, PublishKeepsTaken
      <4>2. i \in 1..Len(inbox[k]) \/ i = Len(inbox[k]) + 1
        BY <3>1, <4>1
      <4>3. CASE i \in 1..Len(inbox[k])
        BY <1>1, <1>4, <2>2, <4>3, PublishKeepsTaken
      <4>4. CASE i = Len(inbox[k]) + 1
        <5>1. inbox'[k][i] = Taken(k) + Len(inbox[k]) + 1
          BY <1>4, <2>2, <4>4, PublishKeepsTaken
        <5> QED
          BY <3>1, <4>4, <5>1
      <4> QED
        BY <4>2, <4>3, <4>4
    <3>3. Taken(k)' = Taken(k)
      BY <1>4, <2>2, PublishKeepsTaken
    <3> QED
      BY <1>1, <2>1, <2>2, <3>2, <3>3 DEF Subscribed
  <2>3. CASE ~Subscribed(k)
    BY <2>1, <2>3 DEF Subscribed
  <2> QED
    BY <2>2, <2>3
<1>5. ASSUME NEW l \in Tasks, Take(l), NEW k \in Tasks PROVE Follows(k)'
  <2>1. CASE k = l
    <3>1. Len(inbox[l]) \in Nat /\ Taken(l) \in Int /\ heard[l] \in Nat
      BY TakenIsBounded
    <3>2. heard'[l] = heard[l] /\ heard[l] <= Taken(l)
      BY <1>1, <1>5 DEF Take, Subscribed
    <3>3. /\ Taken(l)' = Taken(l) + 1 /\ message'[l] = Taken(l) + 1
          /\ Len(inbox'[l]) = Len(inbox[l]) - 1
          /\ \A i \in 1..Len(inbox'[l]) : inbox'[l][i] = inbox[l][i + 1]
      BY <1>5, TakeIsNext
    <3>4. ASSUME NEW i \in 1..Len(inbox'[l]) PROVE inbox'[l][i] = Taken(l)' + i
      <4>1. i + 1 \in 1..Len(inbox[l])
        BY <3>1, <3>3
      <4>2. inbox[l][i + 1] = Taken(l) + (i + 1)
        BY <1>1, <1>5, <4>1 DEF Take, Subscribed
      <4>3. inbox'[l][i] = inbox[l][i + 1] /\ i \in Int
        BY <3>3
      <4>4. Taken(l) + (i + 1) = (Taken(l) + 1) + i
        BY <3>1, <4>3
      <4> QED
        BY <3>3, <4>2, <4>3, <4>4
    <3> QED
      BY <2>1, <3>1, <3>2, <3>3, <3>4
  <2>2. CASE k # l
    <3>1. SameFeed(k) /\ UNCHANGED events
      BY <1>5, <2>2 DEF Take, SameFeed, Subscribed, TypeOK
    <3> QED
      BY <1>2, <1>3, <3>1
  <2> QED
    BY <2>1, <2>2
<1>6. ASSUME NEW l \in Tasks, Psubscribe(l), NEW k \in Tasks PROVE Follows(k)'
  <2>1. CASE k = l
    <3>1. /\ pc'[l] = "listen" /\ heard'[l] = Len(events) /\ Taken(l)' = Len(events)
          /\ Len(events) \in Nat /\ Len(inbox'[l]) = 0
      BY <1>6, PsubscribeFeed, TakenIsBounded
    <3> QED
      BY <2>1, <3>1
  <2>2. CASE k # l
    BY <1>2, <1>3, <1>6, <2>2, PsubscribeFeed
  <2> QED
    BY <2>1, <2>2
<1>7. ASSUME NEW l \in Tasks, NEW s \in Sockets, Send(l, s) \/ SendRaises(l, s),
             NEW k \in Tasks
      PROVE  Follows(k)'
  <2>1. /\ Taken(k)' = Taken(k) /\ inbox'[k] = inbox[k] /\ heard'[k] = heard[k]
        /\ message'[k] = message[k]
        /\ Subscribed(k)' => Subscribed(k)
        /\ pc'[k] = "send" => pc[k] = "send"
    BY <1>7, DequeueFeed DEF Subscribed
  <2> QED
    BY <1>1, <2>1
<1>8. \A k \in Tasks : Follows(k)'
  <2>1. CASE (\A k \in Tasks : SameFeed(k)) /\ UNCHANGED <<events, received>>
    BY <1>2, <1>3, <2>1
  <2> QED
    BY <1>4, <1>5, <1>6, <1>7, <2>1, FeedWriters DEF FeedStep
<1>9. ASSUME NEW k \in Tasks PROVE (DOMAIN inbox[k] = 1..Len(inbox[k]))'
  BY <1>3 DEF TypeOK
<1> QED
  BY <1>8, <1>9 DEF InboxFollows

\* Whoever connects is subscribed to every channel, and only who left or is gone is removed.
LEMMA OpenNext ==
  ASSUME TypeOK, OpenIsSubscribed, [Next]_vars
  PROVE  OpenIsSubscribed'
<1> SUFFICES ASSUME NEW s \in Sockets, NEW c \in Channels, Open(s)' PROVE s \in subs'[c]
  BY DEF OpenIsSubscribed
<1>1. ASSUME NEW t \in Sockets, Connect(t) PROVE s \in subs'[c]
  <2>1. subs'[c] = subs[c] \cup {t} /\ (t # s => Open(s))
    BY <1>1 DEF Connect, Subscribe, Open, TypeOK
  <2> QED
    BY <2>1 DEF OpenIsSubscribed
<1>2. ASSUME NEW t \in Sockets, Leave(t) PROVE s \in subs'[c]
  <2>1. subs'[c] = subs[c] \ {t} /\ t # s /\ Open(s)
    BY <1>2 DEF Leave, Open, TypeOK
  <2> QED
    BY <2>1 DEF OpenIsSubscribed
<1>3. ASSUME NEW t \in Sockets, PeerLeaves(t) \/ EndpointRaises(t) PROVE s \in subs'[c]
  <2>1. subs' = subs /\ Open(s)
    BY <1>3 DEF PeerLeaves, EndpointRaises, Open, manager, TypeOK
  <2> QED
    BY <2>1 DEF OpenIsSubscribed
<1>4. ASSUME NEW l \in Tasks, NEW t \in Sockets, SendRaises(l, t) PROVE s \in subs'[c]
  <2>1. /\ subs' = [subs EXCEPT ![events[message[l]]] = @ \ {t}]
        /\ t \in gone /\ UNCHANGED <<endpoint, gone>>
    BY <1>4 DEF SendRaises, Dequeue, client
  <2>2. t # s /\ Open(s)
    BY <2>1 DEF Open
  <2> QED
    BY <2>1, <2>2 DEF OpenIsSubscribed, TypeOK
<1>5. ASSUME UNCHANGED <<subs, endpoint, gone>> PROVE s \in subs'[c]
  BY <1>5 DEF Open, OpenIsSubscribed
<1>6. ASSUME NEW l \in Tasks,
             \/ Psubscribe(l) \/ Take(l) \/ Close(l) \/ LoseConnection(l)
             \/ PsubscribeRaises(l) \/ \E t \in Sockets : Send(l, t)
      PROVE  UNCHANGED <<subs, endpoint, gone>>
  BY <1>6 DEF Psubscribe, Take, Close, LoseConnection, PsubscribeRaises, Send, Dequeue,
              client, manager
<1>7. ASSUME NEW d \in Channels, Publish(d) PROVE UNCHANGED <<subs, endpoint, gone>>
  BY <1>7 DEF Publish, client, manager
<1>8. CASE UNCHANGED vars
  BY <1>5, <1>8 DEF vars, client, manager
<1> QED
  BY <1>1, <1>2, <1>3, <1>4, <1>5, <1>6, <1>7, <1>8 DEF Next, TaskStep

-----------------------------------------------------------------------------
\* What a socket got, in order, and what the tasks may still bring it.
Ordered == TypeOK /\ TasksInTurn /\ InboxFollows /\ NothingTwice /\ InOrder

\* A socket gets nothing it had got, and each event behind those before it.
LEMMA OrderNext ==
  ASSUME Ordered, [Next]_vars
  PROVE  NothingTwice' /\ InOrder'
<1> DEFINE Fresh(s, k) ==
      \A i \in DOMAIN received[s] :
         Subscribed(k) =>
           /\ received[s][i] <= Taken(k)
           /\ s \in targets[k] => received[s][i] < message[k]
<1>0. /\ TypeOK /\ TasksInTurn /\ InboxFollows /\ InOrder
      /\ \A s \in Sockets, k \in Tasks : Fresh(s, k)
  BY DEF Ordered, NothingTwice
<1>1. ASSUME NEW s \in Sockets, NEW i \in DOMAIN received[s]
      PROVE  received[s][i] \in Nat /\ received[s][i] <= Len(events)
  <2>1. received[s][i] \in Ids
    BY <1>0 DEF TypeOK
  <2> QED
    BY <1>0, <2>1 DEF Ids, TypeOK
<1>2. ASSUME UNCHANGED received, \A s \in Sockets, k \in Tasks : Fresh(s, k)'
      PROVE  NothingTwice' /\ InOrder'
  BY <1>0, <1>2 DEF NothingTwice, InOrder
<1>3. ASSUME NEW s \in Sockets, NEW k \in Tasks,
             SameFeed(k), UNCHANGED <<events, received>>
      PROVE  Fresh(s, k)'
  <2>1. Subscribed(k)' => Taken(k)' = Taken(k)
    BY <1>3 DEF SameFeed, Taken
  <2> QED
    BY <1>0, <1>3, <2>1 DEF SameFeed
<1>4. ASSUME NEW c \in Channels, Publish(c) PROVE NothingTwice' /\ InOrder'
  <2>1. UNCHANGED <<received, pc, targets, message>>
    BY <1>4 DEF Publish
  <2>2. ASSUME NEW s \in Sockets, NEW k \in Tasks PROVE Fresh(s, k)'
    <3>1. Subscribed(k) => Taken(k)' = Taken(k)
      BY <1>0, <1>4, PublishKeepsTaken
    <3> QED
      BY <1>0, <2>1, <3>1 DEF Subscribed
  <2> QED
    BY <1>2, <2>1, <2>2
<1>5. ASSUME NEW l \in Tasks, Take(l) PROVE NothingTwice' /\ InOrder'
  <2>1. UNCHANGED <<events, received>>
    BY <1>5 DEF Take
  <2>2. ASSUME NEW s \in Sockets, NEW k \in Tasks PROVE Fresh(s, k)'
    <3>1. CASE k = l
      <4>1. Taken(l)' = Taken(l) + 1 /\ message'[l] = Taken(l) + 1 /\ Taken(l) \in Int
        BY <1>0, <1>5, TakeIsNext, TakenIsBounded
      <4>2. \A i \in DOMAIN received[s] : received[s][i] \in Nat /\ received[s][i] <= Taken(l)
        BY <1>0, <1>1, <1>5 DEF Take, Subscribed
      <4> QED
        BY <2>1, <3>1, <4>1, <4>2
    <3>2. CASE k # l
      <4>1. SameFeed(k)
        BY <1>0, <1>5, <3>2 DEF Take, SameFeed, Subscribed, TypeOK
      <4> QED
        BY <1>3, <2>1, <4>1
    <3> QED
      BY <3>1, <3>2
  <2> QED
    BY <1>2, <2>1, <2>2
<1>6. ASSUME NEW l \in Tasks, Psubscribe(l) PROVE NothingTwice' /\ InOrder'
  <2>1. /\ UNCHANGED <<events, received>> /\ targets'[l] = {} /\ Taken(l)' = Len(events)
        /\ \A k \in Tasks \ {l} : SameFeed(k)
    BY <1>0, <1>6, PsubscribeFeed
  <2>2. ASSUME NEW s \in Sockets, NEW k \in Tasks PROVE Fresh(s, k)'
    <3>1. CASE k = l
      BY <1>1, <2>1, <3>1
    <3>2. CASE k # l
      BY <1>3, <2>1, <3>2
    <3> QED
      BY <3>1, <3>2
  <2> QED
    BY <1>2, <2>1, <2>2
<1>7. ASSUME NEW l \in Tasks, NEW s \in Sockets, Send(l, s) \/ SendRaises(l, s)
      PROVE  NothingTwice' /\ InOrder'
  <2>1. /\ pc[l] = "send" /\ s \in targets[l] /\ UNCHANGED message
        /\ targets'[l] = targets[l] \ {s}
        /\ \A k \in Tasks \ {l} : pc'[k] = pc[k] /\ targets'[k] = targets[k]
        /\ \A k \in Tasks : Taken(k)' = Taken(k)
    BY <1>0, <1>7, DequeueFeed
  <2>2. \A k \in Tasks : Subscribed(k) => k = l
    <3>1. \A k \in Tasks : pc[k] \notin {"unborn", "done"} => k = pubsub_task
      BY <1>0 DEF TasksInTurn, TypeOK, Tasks
    <3> QED
      BY <2>1, <3>1 DEF Subscribed
  <2>3. \A k \in Tasks : Subscribed(k)' => k = l
    BY <2>1, <2>2 DEF Subscribed
  <2>4. message[l] = Taken(l) /\ Subscribed(l)
    BY <1>0, <2>1 DEF InboxFollows, Subscribed
  <2>5. CASE UNCHANGED received
    <3>1. ASSUME NEW t \in Sockets, NEW k \in Tasks PROVE Fresh(t, k)'
      BY <1>0, <2>1, <2>3, <2>4, <2>5
    <3> QED
      BY <1>2, <2>5, <3>1
  <2>6. CASE received' = [received EXCEPT ![s] = Append(received[s], message[l])]
    <3>1. received[s] \in Seq(Nat) /\ message[l] \in Nat
      <4>1. Ids \subseteq Nat
        BY DEF Ids
      <4> QED
        BY <1>0, <4>1, SeqMonotonic, TakenIsBounded DEF TypeOK
    <3> DEFINE n == Len(received[s])
    <3>2. /\ received'[s] = Append(received[s], message[l])
          /\ \A t \in Sockets \ {s} : received'[t] = received[t]
      BY <1>0, <2>6 DEF TypeOK
    <3>3. /\ n \in Nat /\ DOMAIN received[s] = 1..n /\ DOMAIN received'[s] = 1..(n + 1)
          /\ \A i \in 1..n : received'[s][i] = received[s][i]
          /\ received'[s][n + 1] = message[l]
      BY <3>1, <3>2, AppendProperties, LenProperties
    <3>4. \A i \in 1..n : received[s][i] < message[l] /\ received[s][i] \in Nat
      BY <1>0, <1>1, <2>1, <2>4, <3>3
    <3> HIDE DEF n
    <3>5. \A i \in 1..(n + 1) : i \in 1..n \/ i = n + 1
      BY <3>3
    <3>6. ASSUME NEW t \in Sockets, NEW k \in Tasks PROVE Fresh(t, k)'
      <4>1. CASE t = s
        <5>1. \A i \in 1..(n + 1) : received'[s][i] <= Taken(l)
          BY <2>4, <3>1, <3>3, <3>4, <3>5
        <5>2. s \notin targets'[l]
          BY <2>1
        <5> QED
          BY <2>1, <2>3, <3>3, <4>1, <5>1, <5>2
      <4>2. CASE t # s
        BY <1>0, <2>1, <2>3, <2>4, <3>2, <4>2
      <4> QED
        BY <4>1, <4>2
    <3>7. \A i, j \in 1..(n + 1) : i < j => received'[s][i] < received'[s][j]
      <4>1. \A i, j \in 1..n : i < j => received[s][i] < received[s][j]
        BY <1>0, <3>3 DEF InOrder
      <4> TAKE i, j \in 1..(n + 1)
      <4> HAVE i < j
      <4>2. i \in 1..n /\ (j \in 1..n \/ j = n + 1)
        BY <3>3
      <4> QED
        BY <3>3, <3>4, <4>1, <4>2
    <3>8. InOrder'
      BY <1>0, <3>2, <3>3, <3>7 DEF InOrder
    <3> QED
      BY <3>6, <3>8 DEF NothingTwice
  <2> QED
    BY <1>7, <2>5, <2>6 DEF Send, SendRaises
<1>8. CASE (\A k \in Tasks : SameFeed(k)) /\ UNCHANGED <<events, received>>
  BY <1>2, <1>3, <1>8
<1> QED
  BY <1>0, <1>4, <1>5, <1>6, <1>7, <1>8, FeedWriters DEF FeedStep

\* What is open behind a step was open before, with the same past, or has just subscribed.
LEMMA OpenBefore ==
  ASSUME TypeOK, [Next]_vars, NEW s \in Sockets, Open(s)'
  PROVE  \/ since'[s] = Len(events)
         \/ Open(s) /\ since'[s] = since[s]
<1>1. ASSUME NEW t \in Sockets, Connect(t)
      PROVE  since'[s] = Len(events) \/ (Open(s) /\ since'[s] = since[s])
  BY <1>1 DEF Connect, Subscribe, Open, TypeOK
<1>2. ASSUME NEW t \in Sockets, PeerLeaves(t) \/ Leave(t) \/ EndpointRaises(t)
      PROVE  Open(s) /\ since'[s] = since[s]
  BY <1>2 DEF PeerLeaves, Leave, EndpointRaises, Open, TypeOK
<1>3. ASSUME NEW l \in Tasks, TaskStep(l) \/ LoseConnection(l) \/ PsubscribeRaises(l)
      PROVE  UNCHANGED <<endpoint, gone, since>>
  BY <1>3 DEF TaskStep, Psubscribe, Take, Close, Send, SendRaises, Dequeue,
              LoseConnection, PsubscribeRaises, client
<1>4. ASSUME NEW c \in Channels, Publish(c) PROVE UNCHANGED <<endpoint, gone, since>>
  BY <1>4 DEF Publish, client
<1>5. CASE UNCHANGED vars
  BY <1>5 DEF vars, client, Open
<1> QED
  BY <1>1, <1>2, <1>3, <1>4, <1>5 DEF Next, Open

\* A broadcast reaches every open socket before the next event is taken.
LEMMA ReachNext ==
  ASSUME TypeOK, TasksInTurn, InboxFollows, OpenIsSubscribed, TakenReaches, [Next]_vars
  PROVE  TakenReaches'
<1> DEFINE Reached(s, l, e) == Got(s, e) \/ (message[l] = e /\ s \in targets[l])
<1> SUFFICES ASSUME NEW s \in Sockets, NEW k \in Tasks, NEW e \in Ids',
                    Open(s)', Subscribed(k)', e > since'[s], e > heard'[k], e <= Taken(k)'
             PROVE  Reached(s, k, e)'
  BY DEF TakenReaches
<1>1. e \in Nat /\ e >= 1 /\ Len(events) \in Nat
  BY DEF Ids, TypeOK
<1>2. ASSUME e \in Ids, Subscribed(k), e > heard[k], e <= Taken(k)
      PROVE  Open(s) /\ Reached(s, k, e)
  <2>1. e <= Len(events)
    BY <1>2 DEF Ids
  <2>2. Open(s) /\ since'[s] = since[s]
    BY <1>1, <2>1, OpenBefore
  <2> QED
    BY <1>2, <2>2 DEF TakenReaches
<1>3. ASSUME NEW c \in Channels, Publish(c) PROVE Reached(s, k, e)'
  <2>1. UNCHANGED <<pc, heard, message, targets, received>>
    BY <1>3 DEF Publish
  <2>2. Subscribed(k) /\ Taken(k)' = Taken(k)
    <3>1. Subscribed(k)
      BY <2>1 DEF Subscribed
    <3> QED
      BY <1>3, <3>1, PublishKeepsTaken
  <2>3. e \in Ids
    <3>1. Taken(k) \in Int /\ Taken(k) <= Len(events)
      BY TakenIsBounded
    <3> QED
      BY <1>1, <2>2, <3>1 DEF Ids
  <2> QED
    BY <1>2, <2>1, <2>2, <2>3 DEF Got
<1>4. ASSUME UNCHANGED events PROVE e \in Ids
  BY <1>4 DEF Ids
<1>5. CASE (\A l \in Tasks : SameFeed(l)) /\ UNCHANGED <<events, received>>
  <2>1. /\ Subscribed(k) /\ Taken(k)' = Taken(k) /\ heard'[k] = heard[k]
        /\ message'[k] = message[k] /\ targets'[k] = targets[k]
    BY <1>5 DEF SameFeed, Taken
  <2> QED
    BY <1>2, <1>4, <1>5, <2>1 DEF Got
<1>6. ASSUME NEW l \in Tasks, Psubscribe(l) PROVE Reached(s, k, e)'
  <2>1. CASE k = l
    <3>1. heard'[k] = Len(events) /\ Taken(k)' = Len(events)
      BY <1>6, <2>1, PsubscribeFeed
    <3> QED
      BY <1>1, <3>1
  <2>2. CASE k # l
    <3>1. SameFeed(k) /\ UNCHANGED <<events, received>>
      BY <1>6, <2>2, PsubscribeFeed
    <3>2. /\ Subscribed(k) /\ Taken(k)' = Taken(k) /\ heard'[k] = heard[k]
          /\ message'[k] = message[k] /\ targets'[k] = targets[k]
      BY <3>1 DEF SameFeed, Taken
    <3> QED
      BY <1>2, <1>4, <3>1, <3>2 DEF Got
  <2> QED
    BY <2>1, <2>2
<1>7. ASSUME NEW l \in Tasks, Take(l) PROVE Reached(s, k, e)'
  <2>0. UNCHANGED <<events, received, heard, subs, endpoint, gone>>
    BY <1>7 DEF Take, client, manager
  <2>1. CASE k = l
    <3>1. /\ Taken(k)' = Taken(k) + 1 /\ message'[k] = Taken(k) + 1 /\ targets[k] = {}
          /\ targets'[k] = subs[events[Taken(k) + 1]] /\ Taken(k) + 1 \in Ids
          /\ Taken(k) \in Int
      BY <1>7, <2>1, TakeIsNext, TakenIsBounded
    <3>2. CASE e <= Taken(k)
      <4>1. Subscribed(k)
        BY <1>7, <2>1 DEF Take, Subscribed
      <4> QED
        BY <1>2, <1>4, <2>0, <3>1, <3>2, <4>1 DEF Got
    <3>3. CASE e = Taken(k) + 1
      <4>1. events[e] \in Channels
        BY <3>1, <3>3, ElementOfSeq DEF Ids, TypeOK
      <4>2. s \in subs[events[e]]
        BY <2>0, <4>1 DEF OpenIsSubscribed, Open
      <4> QED
        BY <3>1, <3>3, <4>2
    <3> QED
      BY <1>1, <3>1, <3>2, <3>3
  <2>2. CASE k # l
    <3>1. /\ Subscribed(k) /\ Taken(k)' = Taken(k)
          /\ message'[k] = message[k] /\ targets'[k] = targets[k]
      BY <1>7, <2>2 DEF Take, Subscribed, Taken, TypeOK
    <3> QED
      BY <1>2, <1>4, <2>0, <3>1 DEF Got
  <2> QED
    BY <2>1, <2>2
<1>8. ASSUME NEW l \in Tasks, NEW t \in Sockets, Send(l, t) \/ SendRaises(l, t)
      PROVE  Reached(s, k, e)'
  <2>1. /\ pc[l] = "send" /\ t \in targets[l] /\ UNCHANGED <<events, heard, message>>
        /\ targets'[l] = targets[l] \ {t}
        /\ \A j \in Tasks \ {l} : pc'[j] = pc[j] /\ targets'[j] = targets[j]
        /\ Taken(k)' = Taken(k)
    BY <1>8, DequeueFeed
  <2>2. Subscribed(k)
    BY <2>1 DEF Subscribed
  <2>3. Open(s) /\ Reached(s, k, e)
    BY <1>2, <1>4, <2>1, <2>2
  <2>4. \/ UNCHANGED received /\ (t \in gone)
        \/ received' = [received EXCEPT ![t] = Append(received[t], message[l])]
    BY <1>8 DEF Send, SendRaises
  <2>5. received[t] \in Seq(Nat) /\ message[l] \in Nat
    <3>1. Ids \subseteq Nat
      BY DEF Ids
    <3> QED
      BY <3>1, SeqMonotonic, TakenIsBounded DEF TypeOK
  <2>6. CASE Got(s, e)
    <3>1. PICK i \in DOMAIN received[s] : received[s][i] = e
      BY <2>6 DEF Got
    <3>2. i \in DOMAIN received'[s] /\ received'[s][i] = e
      <4>1. CASE received'[s] = received[s]
        BY <3>1, <4>1
      <4>2. CASE s = t /\ received'[s] = Append(received[s], message[l])
        BY <2>5, <3>1, <4>2, AppendProperties, LenProperties
      <4> QED
        BY <2>4, <4>1, <4>2 DEF TypeOK
    <3> QED
      BY <3>2 DEF Got
  <2>7. CASE message[k] = e /\ s \in targets[k]
    <3>1. CASE k = l /\ s = t
      <4>1. received'[t] = Append(received[t], message[l])
        BY <2>3, <2>4, <3>1 DEF Open, TypeOK
      <4>2. /\ Len(received[t]) + 1 \in DOMAIN received'[t]
            /\ received'[t][Len(received[t]) + 1] = message[l]
        BY <2>5, <4>1, AppendProperties, LenProperties
      <4> QED
        BY <2>7, <3>1, <4>2 DEF Got
    <3>2. CASE ~(k = l /\ s = t)
      BY <2>1, <2>7, <3>2
    <3> QED
      BY <3>1, <3>2
  <2> QED
    BY <2>3, <2>6, <2>7
<1> QED
  BY <1>3, <1>5, <1>6, <1>7, <1>8, FeedWriters DEF FeedStep

-----------------------------------------------------------------------------
\* All of it holds before anything happens.
LEMMA FeedInit == Init => Ordered /\ OpenIsSubscribed /\ TakenReaches
<1> SUFFICES ASSUME Init PROVE Ordered /\ OpenIsSubscribed /\ TakenReaches
  OBVIOUS
<1>1. \A s \in Sockets : DOMAIN received[s] = {}
  BY DEF Init
<1>2. \A l \in Tasks : ~Subscribed(l)
  BY DEF Init, Subscribed
<1>3. NothingTwice /\ InOrder
  BY <1>1 DEF NothingTwice, InOrder
<1>4. InboxFollows /\ TakenReaches
  BY <1>2 DEF InboxFollows, TakenReaches
<1>5. OpenIsSubscribed
  BY DEF Init, OpenIsSubscribed, Open
<1> QED
  BY <1>3, <1>4, <1>5, TypeInit DEF Ordered

\* The inductive invariant of the gateway.
Feed == Ordered /\ OpenIsSubscribed /\ TakenReaches

(* Feed: the inbox of the task that listens is all that was published     *)
(* since what it took; what it took, every open socket has got in order or *)
(* gets from the broadcast under way, whatever connects, leaves or fails.  *)
THEOREM FeedAlways == Spec => []Feed
<1>1. Init => Feed
  BY FeedInit DEF Feed
<1>2. Feed /\ [Next]_vars => Feed'
  <2> SUFFICES ASSUME Feed, [Next]_vars PROVE Feed'
    OBVIOUS
  <2>1. Ordered /\ TypeOK /\ TasksInTurn /\ InboxFollows /\ OpenIsSubscribed /\ TakenReaches
    BY DEF Feed, Ordered
  <2>2. TypeOK' /\ TasksInTurn'
    BY <2>1, TypeNext, TurnNext
  <2>3. InboxFollows'
    BY <2>1, InboxNext
  <2>4. NothingTwice' /\ InOrder'
    BY <2>1, OrderNext
  <2>5. OpenIsSubscribed' /\ TakenReaches'
    BY <2>1, OpenNext, ReachNext
  <2> QED
    BY <2>2, <2>3, <2>4, <2>5 DEF Feed, Ordered
<1> QED
  BY <1>1, <1>2, PTL DEF Spec

(* InOrder: a socket gets the events in the order of their publication    *)
(* and once each, across lost connections and tasks that follow another.   *)
THEOREM InOrderAlways == Spec => []InOrder
<1>1. Feed => InOrder
  BY DEF Feed, Ordered
<1> QED
  BY <1>1, FeedAlways, PTL

(* NoGaps: an open socket has got, or is about to get, every event since   *)
(* it subscribed and since the PSUBSCRIBE of the task that listens.        *)
THEOREM NoGapsAlways == Spec => []NoGaps
<1>1. Feed => NoGaps
  <2> SUFFICES ASSUME Feed, NEW s \in Sockets, NEW l \in Tasks, NEW e \in Ids,
                      Open(s), Subscribed(l), e > since[s], e > heard[l]
               PROVE  Got(s, e) \/ Coming(s, e)
    BY DEF NoGaps, Open
  <2>1. TypeOK /\ InboxFollows /\ TakenReaches
    BY DEF Feed, Ordered
  <2>2. /\ Taken(l) \in Int /\ Len(inbox[l]) \in Nat /\ Len(events) \in Nat
        /\ Len(events) = Taken(l) + Len(inbox[l]) /\ e \in Nat /\ e <= Len(events)
    BY <2>1, TakenIsBounded DEF Taken, Ids
  <2>3. CASE e <= Taken(l)
    BY <2>1, <2>3 DEF TakenReaches, Coming
  <2>4. CASE e > Taken(l)
    <3>1. e - Taken(l) \in 1..Len(inbox[l])
      BY <2>2, <2>4
    <3>2. DOMAIN inbox[l] = 1..Len(inbox[l])
      BY <2>1 DEF TypeOK
    <3>3. inbox[l][e - Taken(l)] = Taken(l) + (e - Taken(l))
      BY <2>1, <3>1, <3>2 DEF InboxFollows
    <3>4. inbox[l][e - Taken(l)] = e
      BY <2>2, <3>3
    <3> QED
      BY <3>1, <3>2, <3>4 DEF Coming
  <2> QED
    BY <2>2, <2>3, <2>4
<1> QED
  BY <1>1, FeedAlways, PTL
=============================================================================
