----------------------------- MODULE TodoEvents -----------------------------
(***************************************************************************)
(* The todo events of app-todo: a handler that has changed a todo publishes*)
(* an event, directly to the streams of its own process or, with NATS, to  *)
(* every replica; TodoEventBroker hands it to the channel of each stream   *)
(* of the workspace, and handleTodoStream writes it to its client, which   *)
(* answers every event by fetching the list again.                         *)
(*                                                                         *)
(* The list of a workspace is abstracted to the number of changes that have*)
(* been committed to it: the n-th change is announced by the event with    *)
(* change = n, and a fetch sees every change committed before it.          *)
(***************************************************************************)
EXTENDS Naturals, Sequences, SequencesExt

CONSTANTS
    Workspaces,
    Replicas,    \* processes of app-todo
    Writers,     \* slots of the requests that change todos
    Streams,     \* the streams ever opened; none is opened twice
    Capacity,    \* of a stream's channel, 16 in the code
    MaxChanges,  \* bound on the changes to each workspace
    NatsModes,   \* whether NATS_URL is set: TRUE, FALSE or either
    Alone,       \* the one replica there is without NATS
    Faults,      \* "crash" of a replica, "loss" of a message
    NoReplica, NoWorkspace

ASSUME CapacityAssumption == Capacity \in Nat \ {0}
ASSUME MaxChangesAssumption == MaxChanges \in Nat
ASSUME ModesAssumption == NatsModes \subseteq BOOLEAN /\ Alone \in Replicas
ASSUME FaultsAssumption == Faults \subseteq {"crash", "loss"}
ASSUME DistinctAssumption == Writers \cap Replicas = {}
ASSUME NullsAssumption == NoReplica \notin Replicas /\ NoWorkspace \notin Workspaces

VARIABLES
    nats,     \* whether natsConn is set; never changes
    changes,  \* changes committed to each workspace
    writer,   \* requests that change todos
    bus,      \* messages of NATS on their way to each replica
    cast,     \* broadcasts under way, by the goroutine that runs them
    stream    \* handleTodoStream, its channel and its client

vars == <<nats, changes, writer, bus, cast, stream>>

Events == [workspace : Workspaces, change : 1..MaxChanges]

\* broadcast runs in the request, or in the one goroutine of the NATS
\* subscription of a replica.
Broadcasters == Writers \cup Replicas

NoEvent == [workspace |-> NoWorkspace, change |-> 0]

Writer == [pc : {"idle", "publish", "broadcast"},
           replica : Replicas \cup {NoReplica}, event : Events \cup {NoEvent}]
Cast   == [event : Events \cup {NoEvent}, targets : SUBSET Streams]
Stream ==
    [pc : {"unopened", "connected", "streaming", "closing", "closed"},
     replica : Replicas \cup {NoReplica},
     workspace : Workspaces \cup {NoWorkspace},
     queue : Seq(Events),         \* the channel
     delivered : SUBSET Events,   \* written to the client
     dropped : SUBSET Events,     \* not sent, the channel being full
     fetched : 0..MaxChanges,     \* changes the client's last fetch saw, at least
     connectedAt : 0..MaxChanges, \* changes when ": connected" was written
     since : 0..MaxChanges]       \* changes when Subscribe returned

Idle     == [pc |-> "idle", replica |-> NoReplica, event |-> NoEvent]
Unopened == [pc |-> "unopened", replica |-> NoReplica, workspace |-> NoWorkspace,
             queue |-> <<>>, delivered |-> {}, dropped |-> {},
             fetched |-> 0, connectedAt |-> 0, since |-> 0]

TypeOK ==
    /\ nats \in BOOLEAN
    /\ changes \in [Workspaces -> 0..MaxChanges]
    /\ writer \in [Writers -> Writer]
    /\ bus \in [Replicas -> SUBSET Events]
    /\ cast \in [Broadcasters -> Cast]
    /\ stream \in [Streams -> Stream]
    /\ \A s \in Streams : Len(stream[s].queue) <= Capacity

-----------------------------------------------------------------------------
(* The requests that change todos *)

\* Without NATS nothing connects one process with another.
Serving == IF nats THEN Replicas ELSE {Alone}

\* The statement of CreateTodo, UpdateTodo or DeleteTodo that changes the row.
Commit(h) ==
    \E r \in Serving, w \in Workspaces :
        /\ writer[h].pc = "idle" /\ changes[w] < MaxChanges
        /\ changes' = [changes EXCEPT ![w] = @ + 1]
        /\ writer' = [writer EXCEPT
                          ![h] = [pc |-> "publish", replica |-> r,
                                  event |-> [workspace |-> w, change |-> changes[w] + 1]]]
        /\ UNCHANGED <<nats, bus, cast, stream>>

\* Streams in the subscriber map of replica r: unsubscribe runs when the
\* handler returns, some time after its client has gone.
Subscribers(r, w) ==
    {s \in Streams : /\ stream[s].pc \in {"streaming", "closing"}
                     /\ stream[s].replica = r
                     /\ stream[s].workspace = w}

Casting(e, targets) == [event |-> IF targets = {} THEN NoEvent ELSE e,
                        targets |-> targets]

\* broadcast copies the subscribers under the lock and sends without it.
StartBroadcast(b, r, e) ==
    cast' = [cast EXCEPT ![b] = Casting(e, Subscribers(r, e.workspace))]

\* Mutant: Publish hands the event to its own streams and to NATS.
PublishTwice(h) ==
    LET q == writer[h] IN
    /\ q.pc = "publish"
    /\ StartBroadcast(h, q.replica, q.event)
    /\ writer' = [writer EXCEPT ![h].pc = "broadcast"]
    /\ bus' = IF nats THEN [r \in Replicas |-> bus[r] \cup {q.event}] ELSE bus
    /\ UNCHANGED <<nats, changes, stream>>

\* Mutant: Publish broadcasts in its own process even with NATS.
PublishLocal(h) ==
    /\ writer[h].pc = "publish"
    /\ StartBroadcast(h, writer[h].replica, writer[h].event)
    /\ writer' = [writer EXCEPT ![h].pc = "broadcast"]
    /\ UNCHANGED <<nats, changes, bus, stream>>

\* publishTodoEvent: NATS keeps nothing for a replica that is away, and an
\* error is logged only.
Publish(h) ==
    LET q == writer[h] IN
    /\ q.pc = "publish"
    /\ \/ /\ ~nats
          /\ StartBroadcast(h, q.replica, q.event)
          /\ writer' = [writer EXCEPT ![h].pc = "broadcast"]
          /\ UNCHANGED bus
       \/ /\ nats
          /\ bus' = [r \in Replicas |-> bus[r] \cup {q.event}]
          /\ writer' = [writer EXCEPT ![h] = Idle]
          /\ UNCHANGED cast
    /\ UNCHANGED <<nats, changes, stream>>

\* broadcast has returned and the request is answered.
Return(h) ==
    /\ writer[h].pc = "broadcast" /\ cast[h].targets = {}
    /\ writer' = [writer EXCEPT ![h] = Idle]
    /\ UNCHANGED <<nats, changes, bus, cast, stream>>

-----------------------------------------------------------------------------
(* The broker *)

\* The callback of the NATS subscription, one message at a time.  Messages of
\* different publishers arrive in any order.
Receive(r) ==
    /\ cast[r].targets = {}
    /\ \E e \in bus[r] :
        /\ StartBroadcast(r, r, e)
        /\ bus' = [bus EXCEPT ![r] = @ \ {e}]
    /\ UNCHANGED <<nats, changes, writer, stream>>

\* Mutant: the channel is one slot short.
OfferShort(q, e) ==
    IF Len(q.queue) < Capacity - 1
    THEN [q EXCEPT !.queue = Append(@, e)]
    ELSE [q EXCEPT !.dropped = @ \cup {e}]

\* Mutant: a full channel takes another event.
OfferUnbounded(q, e) == [q EXCEPT !.queue = Append(@, e)]

\* select { case subscriber <- event: default: }
Offer(q, e) ==
    IF Len(q.queue) < Capacity
    THEN [q EXCEPT !.queue = Append(@, e)]
    ELSE [q EXCEPT !.dropped = @ \cup {e}]

Send(b) ==
    /\ \E s \in cast[b].targets :
        /\ stream' = [stream EXCEPT ![s] = Offer(@, cast[b].event)]
        /\ cast' = [cast EXCEPT ![b] = Casting(@.event, @.targets \ {s})]
    /\ UNCHANGED <<nats, changes, writer, bus>>

-----------------------------------------------------------------------------
(* The streams *)

\* Access is checked, and ": connected" is written and flushed.
Connect(s) ==
    /\ stream[s].pc = "unopened"
    /\ \E r \in Serving, w \in Workspaces :
          stream' = [stream EXCEPT ![s].pc = "connected", ![s].replica = r,
                                   ![s].workspace = w,
                                   ![s].connectedAt = changes[w]]
    /\ UNCHANGED <<nats, changes, writer, bus, cast>>

Subscribe(s) ==
    /\ stream[s].pc = "connected"
    /\ stream' = [stream EXCEPT ![s].pc = "streaming",
                                ![s].since = changes[stream[s].workspace]]
    /\ UNCHANGED <<nats, changes, writer, bus, cast>>

\* Mutant: the client keeps the list it has instead of fetching it again.
DeliverUnread(s) ==
    LET q == stream[s] IN
    /\ q.pc = "streaming" /\ q.queue # <<>>
    /\ stream' = [stream EXCEPT ![s].queue = Tail(@),
                                ![s].delivered = @ \cup {Head(q.queue)},
                                ![s].fetched = Head(q.queue).change]
    /\ UNCHANGED <<nats, changes, writer, bus, cast>>

\* An event is written to the client, whose fetch sees at least what is
\* committed now.
Deliver(s) ==
    LET q == stream[s] IN
    /\ q.pc = "streaming" /\ q.queue # <<>>
    /\ stream' = [stream EXCEPT ![s].queue = Tail(@),
                                ![s].delivered = @ \cup {Head(q.queue)},
                                ![s].fetched = changes[q.workspace]]
    /\ UNCHANGED <<nats, changes, writer, bus, cast>>

\* The client goes away; the loop returns.
Hangup(s) ==
    /\ stream[s].pc = "streaming"
    /\ stream' = [stream EXCEPT ![s].pc = "closing"]
    /\ UNCHANGED <<nats, changes, writer, bus, cast>>

\* The deferred unsubscribe.  A broadcast that copied the subscribers before
\* still sends to the channel, which nobody reads and nobody closes.
Unsubscribe(s) ==
    /\ stream[s].pc = "closing"
    /\ stream' = [stream EXCEPT ![s].pc = "closed"]
    /\ UNCHANGED <<nats, changes, writer, bus, cast>>

-----------------------------------------------------------------------------
(* Faults *)

\* The process ends and another one takes its place.
Crash(r) ==
    /\ "crash" \in Faults
    /\ writer' = [h \in Writers |-> IF writer[h].replica = r THEN Idle ELSE writer[h]]
    /\ cast' = [b \in Broadcasters |->
                    IF b = r \/ (b \in Writers /\ writer[b].replica = r)
                    THEN Casting(NoEvent, {}) ELSE cast[b]]
    /\ bus' = [bus EXCEPT ![r] = {}]
    /\ stream' = [s \in Streams |->
                      IF stream[s].replica = r
                      THEN [stream[s] EXCEPT !.pc = "closed"] ELSE stream[s]]
    /\ UNCHANGED <<nats, changes>>

\* NATS drops a message for a replica that is disconnected or too slow.
Lose(r) ==
    /\ "loss" \in Faults
    /\ \E e \in bus[r] : bus' = [bus EXCEPT ![r] = @ \ {e}]
    /\ UNCHANGED <<nats, changes, writer, cast, stream>>

-----------------------------------------------------------------------------
Init ==
    /\ nats \in NatsModes
    /\ changes = [w \in Workspaces |-> 0]
    /\ writer = [h \in Writers |-> Idle]
    /\ bus = [r \in Replicas |-> {}]
    /\ cast = [b \in Broadcasters |-> Casting(NoEvent, {})]
    /\ stream = [s \in Streams |-> Unopened]

Next ==
    \/ \E h \in Writers : Commit(h) \/ Publish(h) \/ Return(h)
    \/ \E r \in Replicas : Receive(r) \/ Crash(r) \/ Lose(r)
    \/ \E b \in Broadcasters : Send(b)
    \/ \E s \in Streams : \/ Connect(s) \/ Subscribe(s) \/ Deliver(s)
                          \/ Hangup(s) \/ Unsubscribe(s)

\* Goroutines run, NATS delivers what it has not lost, and the select of the
\* stream's loop, which picks among ready cases at random, does not starve the
\* channel.  Nobody has to change todos, open streams or leave them.
Fairness ==
    /\ \A h \in Writers : WF_vars(Publish(h)) /\ WF_vars(Return(h))
    /\ \A r \in Replicas : WF_vars(Receive(r))
    /\ \A b \in Broadcasters : WF_vars(Send(b))
    /\ \A s \in Streams : /\ WF_vars(Subscribe(s)) /\ WF_vars(Deliver(s))
                          /\ WF_vars(Unsubscribe(s))

Spec == Init /\ [][Next]_vars /\ Fairness

-----------------------------------------------------------------------------
(* Properties *)

Queued(s) == ToSet(stream[s].queue)

\* todo_events.go says of an event dropped at a full channel that clients
\* refetch the list on receipt.  It is enough: whatever a stream was sent, kept
\* or dropped, its client has fetched since, or still has an event to come.
RefetchSuffices ==
    \A s \in Streams : stream[s].pc = "streaming" =>
        \A e \in stream[s].delivered \cup stream[s].dropped :
            stream[s].fetched >= e.change \/ stream[s].queue # <<>>

\* No client hears of one change twice, whichever replicas the writer, the
\* stream and NATS connect it through, and none hears of another workspace.
AtMostOnce ==
    \A s \in Streams :
        LET q == stream[s] IN
        /\ IsInjective(q.queue)
        /\ Queued(s) \cap (q.delivered \cup q.dropped) = {}
        /\ q.delivered \cap q.dropped = {}
        /\ \A e \in Queued(s) \cup q.delivered : e.workspace = q.workspace

Behind(s, from, n) ==
    from < n /\ stream[s].workspace # NoWorkspace /\ changes[stream[s].workspace] >= n

\* Without faults, the client of a subscribed stream sees every change made
\* since, in this replica or another, unless it leaves.
Hears ==
    \A s \in Streams, n \in 1..MaxChanges :
        stream[s].pc = "streaming" /\ Behind(s, stream[s].since, n)
            ~> stream[s].pc # "streaming" \/ stream[s].fetched >= n

\* What TestTodoStreamReceivesMutationEvents takes for granted: a change made
\* after ": connected" has been read reaches the stream.
ConnectedHears ==
    \A s \in Streams, n \in 1..MaxChanges :
        stream[s].pc = "streaming" /\ Behind(s, stream[s].connectedAt, n)
            ~> stream[s].pc # "streaming" \/ stream[s].fetched >= n

=============================================================================
