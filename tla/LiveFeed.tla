------------------------------- MODULE LiveFeed -------------------------------
(***************************************************************************)
(* The WebSocket gateway of one API process (app/websocket/): the sockets  *)
(* of one site, the subscriptions of ws_manager, and the listener task     *)
(* that bridges Redis pub/sub to them.                                     *)
(*                                                                         *)
(* A step is what runs between two awaits.  The lock of ws_manager guards  *)
(* sections without an await, so it is never found taken and each section  *)
(* is part of a step.  Redis keeps no message for who is not subscribed.   *)
(***************************************************************************)
EXTENDS Integers, FiniteSets, Sequences

CONSTANTS
  Sockets,      \* browsers of one site; a reconnect is another socket
  Channels,     \* ch:site:<id>:telemetry and ch:site:<id>:alerts
  MaxEvents,    \* bound on the events published
  MaxTasks,     \* bound on the listener tasks ever created
  MaxFaults     \* bound on lost Redis connections and endpoint exceptions

ASSUME BoundsAreNaturals == MaxEvents \in Nat /\ MaxTasks \in Nat /\ MaxFaults \in Nat

Tasks == 1..MaxTasks

(***************************************************************************)
(* A task is "unborn"; "start" until Redis has its PSUBSCRIBE; "listen";   *)
(* "again" while redis-py subscribes anew on another connection; "send"    *)
(* while it broadcasts; "closing" in its finally block; "done".            *)
(***************************************************************************)
Points == {"unborn", "start", "listen", "again", "send", "closing", "done"}
Endpoints == {"idle", "receive", "done"}

VARIABLES
  events,       \* the channel of every event published, in order
  endpoint,     \* where site_telemetry_stream is for each socket
  gone,         \* sockets whose peer has left, noticed or not
  subs,         \* active_subscriptions: sockets by channel
  pubsub_task,  \* the task ws_manager remembers, 0 for None
  pc,           \* where each listener task awaits
  inbox,        \* events that Redis has sent to a task and it has not taken
  message,      \* the event a task broadcasts
  targets,      \* its copy of the subscribers, those still to be sent to
  received,     \* the events each socket got, in order
  since,        \* how many events were published when the socket subscribed
  heard,        \* how many were when Redis had the task's PSUBSCRIBE
  faults

client   == <<endpoint, gone>>
manager  == <<subs, pubsub_task>>
listener == <<pc, inbox, message, targets, heard>>
vars     == <<events, client, manager, listener, received, since, faults>>

Ids == 1..Len(events)
Subscribed(l) == pc[l] \in {"listen", "send"}
Live(l) == pc[l] \notin {"unborn", "done"}
Failure == faults < MaxFaults /\ faults' = faults + 1

TypeOK ==
  /\ events \in Seq(Channels) /\ Len(events) <= MaxEvents
  /\ endpoint \in [Sockets -> Endpoints] /\ gone \subseteq Sockets
  /\ subs \in [Channels -> SUBSET Sockets]
  /\ pubsub_task \in 0..MaxTasks
  /\ pc \in [Tasks -> Points]
  /\ inbox \in [Tasks -> Seq(Ids)]
  /\ message \in [Tasks -> 0..Len(events)]
  /\ targets \in [Tasks -> SUBSET Sockets]
  /\ received \in [Sockets -> Seq(Ids)]
  /\ since \in [Sockets -> 0..Len(events)]
  /\ heard \in [Tasks -> 0..Len(events)]
  /\ faults \in 0..MaxFaults
  /\ \A l \in Tasks :
        /\ pc[l] = "send" <=> targets[l] # {}
        /\ pc[l] = "send" => message[l] \in Ids
        /\ inbox[l] # <<>> => Subscribed(l)

Init ==
  /\ events = <<>>
  /\ endpoint = [s \in Sockets |-> "idle"] /\ gone = {}
  /\ subs = [c \in Channels |-> {}]
  /\ pubsub_task = 0
  /\ pc = [l \in Tasks |-> "unborn"]
  /\ inbox = [l \in Tasks |-> <<>>]
  /\ message = [l \in Tasks |-> 0]
  /\ targets = [l \in Tasks |-> {}]
  /\ received = [s \in Sockets |-> <<>>]
  /\ since = [s \in Sockets |-> 0]
  /\ heard = [l \in Tasks |-> 0]
  /\ faults = 0

-----------------------------------------------------------------------------
\* PUBLISH by an evaluator or a scheduled task.
Publish(c) ==
  /\ Len(events) < MaxEvents
  /\ events' = Append(events, c)
  /\ inbox' = [l \in Tasks |->
                 IF Subscribed(l) THEN Append(inbox[l], Len(events')) ELSE inbox[l]]
  /\ UNCHANGED <<client, manager, pc, message, targets, heard, received, since, faults>>

\* The part of connect behind websocket.accept().
Subscribe(s) ==
  /\ endpoint[s] = "idle"
  /\ endpoint' = [endpoint EXCEPT ![s] = "receive"]
  /\ subs' = [c \in Channels |-> subs[c] \cup {s}]
  /\ since' = [since EXCEPT ![s] = Len(events)]
  /\ UNCHANGED <<events, gone, received, faults>>

CreateTask ==
  /\ pubsub_task < MaxTasks
  /\ pubsub_task' = pubsub_task + 1
  /\ pc' = [pc EXCEPT ![pubsub_task'] = "start"]
  /\ UNCHANGED <<inbox, message, targets, heard>>

\* Mutant: a task counts only from its PSUBSCRIBE on.
Connect_NotStarting(s) ==
  /\ Subscribe(s)
  /\ IF pubsub_task = 0 \/ pc[pubsub_task] \in {"done", "start"}
       THEN CreateTask ELSE UNCHANGED <<pubsub_task, listener>>

\* Mutant: whoever finds a task, over or not, creates no other.
Connect_OnlyFirst(s) ==
  /\ Subscribe(s)
  /\ IF pubsub_task = 0 THEN CreateTask ELSE UNCHANGED <<pubsub_task, listener>>

\* A task that is still in its finally block is not done, and nobody replaces it.
Connect(s) ==
  /\ Subscribe(s)
  /\ IF pubsub_task = 0 \/ pc[pubsub_task] = "done"
       THEN CreateTask ELSE UNCHANGED <<pubsub_task, listener>>

\* The browser goes away.
PeerLeaves(s) ==
  /\ endpoint[s] = "receive" /\ s \notin gone
  /\ gone' = gone \cup {s}
  /\ UNCHANGED <<events, endpoint, manager, listener, received, since, faults>>

\* Mutant: disconnect drops the channel with all its subscribers.
Leave_DropsChannel(s) ==
  /\ endpoint[s] = "receive" /\ s \in gone
  /\ endpoint' = [endpoint EXCEPT ![s] = "done"]
  /\ subs' = [c \in Channels |-> {}]
  /\ UNCHANGED <<events, gone, pubsub_task, listener, received, since, faults>>

\* receive_text raises WebSocketDisconnect, and the endpoint unsubscribes.
Leave(s) ==
  /\ endpoint[s] = "receive" /\ s \in gone
  /\ endpoint' = [endpoint EXCEPT ![s] = "done"]
  /\ subs' = [c \in Channels |-> subs[c] \ {s}]
  /\ UNCHANGED <<events, gone, pubsub_task, listener, received, since, faults>>

\* Another exception, of a binary frame for instance: nobody unsubscribes.
EndpointRaises(s) ==
  /\ Failure
  /\ endpoint[s] = "receive"
  /\ endpoint' = [endpoint EXCEPT ![s] = "done"]
  /\ gone' = gone \cup {s}
  /\ UNCHANGED <<events, manager, listener, received, since>>

-----------------------------------------------------------------------------
Psubscribe(l) ==
  /\ pc[l] \in {"start", "again"}
  /\ pc' = [pc EXCEPT ![l] = "listen"]
  /\ heard' = [heard EXCEPT ![l] = Len(events)]
  /\ UNCHANGED <<events, client, manager, inbox, message, targets, received, since, faults>>

\* _broadcast_to_subscribers up to its first send.
Take(l) ==
  /\ pc[l] = "listen" /\ inbox[l] # <<>>
  /\ LET e == Head(inbox[l]) IN
       /\ message' = [message EXCEPT ![l] = e]
       /\ targets' = [targets EXCEPT ![l] = subs[events[e]]]
       /\ pc' = [pc EXCEPT ![l] = IF subs[events[e]] = {} THEN "listen" ELSE "send"]
  /\ inbox' = [inbox EXCEPT ![l] = Tail(@)]
  /\ UNCHANGED <<events, client, manager, heard, received, since, faults>>

\* The task has done with one of the subscribers it copied.
Dequeue(l, s) ==
  /\ targets' = [targets EXCEPT ![l] = @ \ {s}]
  /\ pc' = [pc EXCEPT ![l] = IF targets[l] = {s} THEN "listen" ELSE "send"]
  /\ UNCHANGED <<events, client, pubsub_task, inbox, message, heard, since, faults>>

\* send_text returns.  Before anybody notices that the peer left, it may do so as well.
Send(l, s) ==
  /\ pc[l] = "send" /\ s \in targets[l]
  /\ endpoint[s] = "receive"
  /\ received' = IF s \in gone THEN received
                 ELSE [received EXCEPT ![s] = Append(@, message[l])]
  /\ Dequeue(l, s)
  /\ UNCHANGED subs

\* Mutant: nobody removes a socket whose send has raised.
SendRaises_Ignored(l, s) ==
  /\ pc[l] = "send" /\ s \in targets[l]
  /\ s \in gone
  /\ Dequeue(l, s)
  /\ UNCHANGED <<subs, received>>

\* Mutant: the first send that raises ends the broadcast.
SendRaises_Aborts(l, s) ==
  /\ pc[l] = "send" /\ s \in targets[l]
  /\ s \in gone
  /\ subs' = [subs EXCEPT ![events[message[l]]] = @ \ {s}]
  /\ targets' = [targets EXCEPT ![l] = {}]
  /\ pc' = [pc EXCEPT ![l] = "listen"]
  /\ UNCHANGED <<events, client, pubsub_task, inbox, message, heard, since, faults, received>>

\* send_text raises, and disconnect removes the socket from this channel only.
SendRaises(l, s) ==
  /\ pc[l] = "send" /\ s \in targets[l]
  /\ s \in gone
  /\ subs' = [subs EXCEPT ![events[message[l]]] = @ \ {s}]
  /\ Dequeue(l, s)
  /\ UNCHANGED received

\* Mutant: what the broken connection had sent is kept for the next one.
LoseConnection_KeepsInbox(l) ==
  /\ Failure
  /\ pc[l] = "listen"
  /\ pc' \in {[pc EXCEPT ![l] = p] : p \in {"closing", "again"}}
  /\ UNCHANGED <<events, client, manager, inbox, message, targets, heard, received, since>>

\* The Redis connection breaks: listen raises, or redis-py connects and subscribes again.
LoseConnection(l) ==
  /\ Failure
  /\ pc[l] = "listen"
  /\ pc' \in {[pc EXCEPT ![l] = p] : p \in {"closing", "again"}}
  /\ inbox' = [inbox EXCEPT ![l] = <<>>]
  /\ UNCHANGED <<events, client, manager, message, targets, heard, received, since>>

\* The first PSUBSCRIBE is outside of the try block, a repeated one is inside of listen().
PsubscribeRaises(l) ==
  /\ Failure
  /\ \/ pc[l] = "start" /\ pc' = [pc EXCEPT ![l] = "done"]
     \/ pc[l] = "again" /\ pc' = [pc EXCEPT ![l] = "closing"]
  /\ UNCHANGED <<events, client, manager, inbox, message, targets, heard, received, since>>

\* The finally block, which awaits twice, is over.
Close(l) ==
  /\ pc[l] = "closing"
  /\ pc' = [pc EXCEPT ![l] = "done"]
  /\ UNCHANGED <<events, client, manager, inbox, message, targets, heard, received, since, faults>>

-----------------------------------------------------------------------------
TaskStep(l) ==
  \/ Psubscribe(l) \/ Take(l) \/ Close(l)
  \/ \E s \in Sockets : Send(l, s) \/ SendRaises(l, s)

Next ==
  \/ \E c \in Channels : Publish(c)
  \/ \E s \in Sockets : Connect(s) \/ PeerLeaves(s) \/ Leave(s) \/ EndpointRaises(s)
  \/ \E l \in Tasks : TaskStep(l) \/ LoseConnection(l) \/ PsubscribeRaises(l)

Spec == Init /\ [][Next]_vars

\* Awaits of the event loop end: a send to a dead peer raises when its keepalive does.
FairSpec ==
  /\ Spec
  /\ \A l \in Tasks : WF_vars(TaskStep(l))
  /\ \A s \in Sockets : WF_vars(Leave(s))

-----------------------------------------------------------------------------
Got(s, e) == \E i \in DOMAIN received[s] : received[s][i] = e
\* The event is on its way to the socket, in a buffer of the task that listens.
Coming(s, e) ==
  \E l \in Tasks :
     /\ Subscribed(l)
     /\ \/ \E i \in DOMAIN inbox[l] : inbox[l][i] = e
        \/ message[l] = e /\ s \in targets[l]

Bridged == \E l \in Tasks : Subscribed(l)

(* Whoever connects when, and whatever fails, at most one task bridges    *)
(* Redis to the sockets, and it is the one ws_manager remembers.           *)
OneListener == \A l \in Tasks : Live(l) => l = pubsub_task

(* Events reach a socket in the order of their publication and once each, *)
(* across lost connections and tasks that follow one another.              *)
InOrder ==
  \A s \in Sockets : \A i, j \in DOMAIN received[s] :
     i < j => received[s][i] < received[s][j]

(* No gaps: a socket that is open has got, or is about to get, every event *)
(* published since it subscribed and since Redis had the PSUBSCRIBE of the *)
(* task that listens.  The failures of other sockets cost it nothing.      *)
NoGaps ==
  \A s \in Sockets, l \in Tasks : \A e \in Ids :
     endpoint[s] = "receive" /\ s \notin gone /\ Subscribed(l) /\ e > since[s] /\ e > heard[l]
       => Got(s, e) \/ Coming(s, e)

(* A socket whose endpoint died without unsubscribing is dropped from a    *)
(* channel by its next event, if a listener lives to see it.               *)
GhostsLeave ==
  \A s \in Sockets, c \in Channels :
     (endpoint[s] = "done" /\ s \in subs[c] /\ \E e \in Ids : events[e] = c /\ Coming(s, e))
       ~> (s \notin subs[c] \/ ~Bridged)

(* What Redis has sent to the listener reaches every open subscriber,      *)
(* unless the connection to Redis breaks before.                           *)
EventsArrive ==
  \A s \in Sockets, e \in 1..MaxEvents :
     (endpoint[s] = "receive" /\ s \notin gone /\ e > since[s] /\ Coming(s, e))
       ~> (Got(s, e) \/ s \in gone \/ ~Bridged)

(* The end of a listener silences all sockets, and nothing but a connect   *)
(* looks at it.  The silence lasts no longer than until the next socket    *)
(* connects: that one brings a task that subscribes, unless it fails too.  *)
SilenceEnds ==
  \A l \in Tasks, s \in Sockets :
     [](pubsub_task = l /\ pc[l] = "done" /\ endpoint[s] = "idle" /\ <>(endpoint[s] # "idle")
          => <>(Bridged \/ \E k \in Tasks : k > l /\ pc[k] = "done"))
=============================================================================
