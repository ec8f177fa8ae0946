-------------------------- MODULE TodoEventsProofs --------------------------
(***************************************************************************)
(* Proofs about TodoEvents, for any replicas, writers, streams and         *)
(* capacity, with NATS or without, whatever crashes and whatever is lost.  *)
(*                                                                         *)
(* The argument: on its way to a stream the event of a change is in one    *)
(* place only, with its writer, in NATS, in a broadcast or in the hands of *)
(* the stream, and each step moves it on.  It is nowhere before its change *)
(* is committed, so a client that fetches the list sees everything it has  *)
(* been told of.                                                           *)
(***************************************************************************)
EXTENDS TodoEvents, TLAPS

USE CapacityAssumption, MaxChangesAssumption, ModesAssumption, DistinctAssumption,
    NullsAssumption

\* All that a stream has been sent.
HandedTo(q) == ToSet(q.queue) \cup q.delivered \cup q.dropped

Committed(e) == e \in Events /\ e.change <= changes[e.workspace]

Active(b) == cast[b].targets # {}

\* The replica whose streams a broadcast serves.
Home(b) == IF b \in Replicas THEN b ELSE writer[b].replica

\* NATS is either between all writers and streams or between none.
Routed ==
    /\ \A h \in Writers : Active(h) => writer[h].pc = "broadcast"
    /\ nats => \A h \in Writers : writer[h].pc # "broadcast"
    /\ ~nats => \A r \in Replicas : bus[r] = {} /\ ~Active(r)

\* Whatever is announced has been committed.
Truthful ==
    /\ \A h \in Writers : writer[h].pc = "publish" => Committed(writer[h].event)
    /\ \A r \in Replicas : \A e \in bus[r] : Committed(e)
    /\ \A b \in Broadcasters : Active(b) => Committed(cast[b].event)
    /\ \A s \in Streams : \A e \in HandedTo(stream[s]) :
          Committed(e) /\ e.workspace = stream[s].workspace

\* A broadcast serves subscribers of its event's workspace in its own replica.
Targeted ==
    \A b \in Broadcasters : \A s \in cast[b].targets :
        /\ stream[s].pc \notin {"unopened", "connected"}
        /\ stream[s].replica = Home(b)
        /\ stream[s].workspace = cast[b].event.workspace

\* An event still with its writer is nowhere else,
WithWriter ==
    \A h \in Writers : writer[h].pc = "publish" =>
        /\ \A g \in Writers \ {h} : writer[g].pc = "publish" => writer[g].event # writer[h].event
        /\ \A r \in Replicas : writer[h].event \notin bus[r]
        /\ \A b \in Broadcasters : Active(b) => cast[b].event # writer[h].event
        /\ \A s \in Streams : writer[h].event \notin HandedTo(stream[s])

\* one in NATS has not reached the replica it is on its way to,
WithNats ==
    \A r \in Replicas : \A e \in bus[r] :
        /\ Active(r) => cast[r].event # e
        /\ \A s \in Streams : stream[s].replica = r => e \notin HandedTo(stream[s])

\* and one being broadcast has not reached the streams it is still to be sent to,
\* nor does another broadcast bring it to them.
WithBroadcast ==
    \A b \in Broadcasters : \A s \in cast[b].targets :
        /\ cast[b].event \notin HandedTo(stream[s])
        /\ \A c \in Broadcasters \ {b} :
              s \in cast[c].targets => cast[c].event # cast[b].event

\* What holds of each stream by itself.
Sound(q) ==
    /\ Len(q.queue) <= Capacity
    /\ IsInjective(q.queue)
    /\ ToSet(q.queue) \cap (q.delivered \cup q.dropped) = {}
    /\ q.delivered \cap q.dropped = {}
    /\ q.pc = "unopened" => q.replica = NoReplica
    /\ q.pc # "unopened" => q.workspace \in Workspaces
    /\ q.pc \in {"unopened", "connected"} => HandedTo(q) = {}
    /\ q.pc = "streaming" =>
          \A e \in q.delivered \cup q.dropped :
              q.fetched >= e.change \/ q.queue # <<>>

\* The inductive invariant.
Inv ==
    /\ TypeOK
    /\ Routed
    /\ Truthful
    /\ Targeted
    /\ WithWriter
    /\ WithNats
    /\ WithBroadcast
    /\ \A s \in Streams : Sound(stream[s])

-----------------------------------------------------------------------------
(* Queues *)

LEMMA AppendToQueue ==
    ASSUME NEW S, NEW q \in Seq(S), NEW e \in S
    PROVE  /\ Append(q, e) \in Seq(S) /\ Append(q, e) # <<>>
           /\ Len(Append(q, e)) = Len(q) + 1
           /\ ToSet(Append(q, e)) = ToSet(q) \cup {e}
           /\ IsInjective(q) /\ e \notin ToSet(q) => IsInjective(Append(q, e))
<1> DEFINE n == Len(q)
           a == Append(q, e)
<1>1. /\ a \in Seq(S) /\ Len(a) = n + 1 /\ n \in Nat
      /\ DOMAIN q = 1..n /\ DOMAIN a = 1..(n + 1)
      /\ a[n + 1] = e /\ \A i \in 1..n : a[i] = q[i]
  OBVIOUS
<1> HIDE DEF n, a
<1>2. ToSet(a) = ToSet(q) \cup {e}
  <2>1. 1..(n + 1) = (1..n) \cup {n + 1}
    BY <1>1
  <2>2. QED BY <1>1, <2>1 DEF ToSet
<1>3. ASSUME IsInjective(q), e \notin ToSet(q)
      PROVE  IsInjective(a)
  BY <1>1, <1>3 DEF IsInjective, ToSet
<1>4. QED BY <1>1, <1>2, <1>3 DEF a, n

LEMMA TailOfQueue ==
    ASSUME NEW S, NEW q \in Seq(S), q # <<>>
    PROVE  /\ Tail(q) \in Seq(S) /\ Len(Tail(q)) < Len(q)
           /\ Head(q) \in ToSet(q)
           /\ ToSet(q) = ToSet(Tail(q)) \cup {Head(q)}
           /\ IsInjective(q) => IsInjective(Tail(q)) /\ Head(q) \notin ToSet(Tail(q))
<1> DEFINE n == Len(q)
           t == Tail(q)
<1>1. /\ t \in Seq(S) /\ Len(t) = n - 1 /\ n \in Nat /\ n > 0
      /\ DOMAIN q = 1..n /\ DOMAIN t = 1..(n - 1)
      /\ Head(q) = q[1] /\ \A i \in 1..(n - 1) : t[i] = q[i + 1]
  OBVIOUS
<1> HIDE DEF n, t
<1>2. Head(q) \in ToSet(q)
  BY <1>1 DEF ToSet
<1>3. ToSet(q) = ToSet(t) \cup {Head(q)}
  <2>1. ASSUME NEW i \in 1..n PROVE q[i] \in ToSet(t) \cup {Head(q)}
    <3>1. CASE i = 1 BY <1>1, <3>1
    <3>2. CASE i # 1
      <4>1. i - 1 \in 1..(n - 1) /\ t[i - 1] = q[i]
        BY <1>1, <3>2
      <4>2. QED BY <1>1, <4>1 DEF ToSet
    <3>3. QED BY <3>1, <3>2
  <2>2. ASSUME NEW i \in 1..(n - 1) PROVE t[i] \in ToSet(q)
    <3>1. i + 1 \in 1..n /\ t[i] = q[i + 1]
      BY <1>1
    <3>2. QED BY <1>1, <3>1 DEF ToSet
  <2>3. QED BY <1>1, <1>2, <2>1, <2>2 DEF ToSet
<1>4. ASSUME IsInjective(q)
      PROVE  IsInjective(t) /\ Head(q) \notin ToSet(t)
  <2>1. \A i, j \in 1..n : q[i] = q[j] => i = j
    BY <1>1, <1>4 DEF IsInjective
  <2>2. ASSUME NEW i \in 1..(n - 1), NEW j \in 1..(n - 1), t[i] = t[j]
        PROVE  i = j
    <3>1. i + 1 \in 1..n /\ j + 1 \in 1..n /\ q[i + 1] = q[j + 1]
      BY <1>1, <2>2
    <3>2. i + 1 = j + 1
      BY <2>1, <3>1
    <3>3. QED BY <3>2
  <2>3. ASSUME NEW i \in 1..(n - 1), t[i] = Head(q)
        PROVE  FALSE
    <3>1. i + 1 \in 1..n /\ 1 \in 1..n /\ q[i + 1] = q[1] /\ i + 1 # 1
      BY <1>1, <2>3
    <3>2. QED BY <2>1, <3>1
  <2>4. QED BY <1>1, <2>2, <2>3 DEF IsInjective, ToSet
<1>5. QED BY <1>1, <1>2, <1>3, <1>4 DEF t, n

-----------------------------------------------------------------------------
(* Steps of one stream *)

\* Nothing is handed over, and a stream that has been subscribed stays where it is.
LEMMA StreamStep ==
    ASSUME Inv, UNCHANGED <<nats, changes, writer, bus, cast>>,
           NEW s \in Streams, NEW q \in Stream, stream' = [stream EXCEPT ![s] = q],
           Sound(q), HandedTo(q) = HandedTo(stream[s]),
           \/ stream[s].pc = "unopened"
           \/ /\ q.replica = stream[s].replica /\ q.workspace = stream[s].workspace
              /\ stream[s].pc \notin {"unopened", "connected"}
                    => q.pc \notin {"unopened", "connected"}
    PROVE  Inv'
<1>1. /\ stream'[s] = q /\ stream' \in [Streams -> Stream]
      /\ \A t \in Streams \ {s} : stream'[t] = stream[t]
  BY DEF Inv, TypeOK
<1>2. \A t \in Streams : HandedTo(stream[t])' = HandedTo(stream[t])
  BY <1>1 DEF HandedTo
<1>3. stream[s].pc = "unopened" => /\ HandedTo(stream[s]) = {}
                                   /\ \A b \in Broadcasters : s \notin cast[b].targets
  BY DEF Inv, Sound, Targeted
<1>4. TypeOK'
  <2>1. \A t \in Streams : Len(stream'[t].queue) <= Capacity
    BY <1>1 DEF Inv, TypeOK, Sound
  <2>2. QED BY <1>1, <2>1 DEF Inv, TypeOK
<1>5. Routed'
  BY DEF Inv, Routed, Active
<1>6. Truthful'
  <2>1. \A t \in Streams : \A e \in HandedTo(stream'[t]) :
           Committed(e) /\ e.workspace = stream'[t].workspace
    BY <1>1, <1>2, <1>3 DEF Inv, Truthful
  <2>2. QED BY <1>2, <2>1 DEF Inv, Truthful, Active, Committed
<1>7. Targeted'
  BY <1>1, <1>3 DEF Inv, Targeted, Home
<1>8. WithWriter'
  BY <1>2 DEF Inv, WithWriter, Active
<1>9. WithNats'
  BY <1>1, <1>2, <1>3 DEF Inv, WithNats, Active
<1>10. WithBroadcast'
  BY <1>2 DEF Inv, WithBroadcast
<1>11. \A t \in Streams : Sound(stream[t])'
  BY <1>1 DEF Inv, Sound, HandedTo
<1>12. QED BY <1>4, <1>5, <1>6, <1>7, <1>8, <1>9, <1>10, <1>11 DEF Inv

LEMMA ConnectKeeps ==
    ASSUME Inv, NEW s \in Streams, Connect(s)
    PROVE  Inv'
<1>1. PICK r \in Serving, w \in Workspaces :
         stream' = [stream EXCEPT ![s].pc = "connected", ![s].replica = r,
                                  ![s].workspace = w, ![s].connectedAt = changes[w]]
  BY DEF Connect
<1> DEFINE q == [stream[s] EXCEPT !.pc = "connected", !.replica = r,
                                  !.workspace = w, !.connectedAt = changes[w]]
<1>2. stream[s] \in Stream /\ stream[s].pc = "unopened" /\ Sound(stream[s])
  BY DEF Connect, Inv, TypeOK
<1>3. r \in Replicas /\ changes[w] \in 0..MaxChanges
  BY DEF Serving, Inv, TypeOK
<1>4. stream' = [stream EXCEPT ![s] = q]
  BY <1>1 DEF Inv, TypeOK
<1>5. /\ q \in Stream /\ q.pc = "connected" /\ q.queue = stream[s].queue
      /\ q.workspace \in Workspaces
      /\ q.delivered = stream[s].delivered /\ q.dropped = stream[s].dropped
  BY <1>2, <1>3 DEF Stream
<1> HIDE DEF q
<1>6. HandedTo(q) = HandedTo(stream[s]) /\ Sound(q)
  BY <1>2, <1>5 DEF Sound, HandedTo
<1>7. QED BY <1>2, <1>4, <1>5, <1>6, StreamStep DEF Connect

LEMMA SubscribeKeeps ==
    ASSUME Inv, NEW s \in Streams, Subscribe(s)
    PROVE  Inv'
<1> DEFINE n == changes[stream[s].workspace]
           q == [stream[s] EXCEPT !.pc = "streaming", !.since = n]
<1>1. stream[s] \in Stream /\ stream[s].pc = "connected" /\ Sound(stream[s])
  BY DEF Subscribe, Inv, TypeOK
<1>2. stream' = [stream EXCEPT ![s] = q]
  BY DEF Subscribe, Inv, TypeOK
<1>3. n \in 0..MaxChanges
  BY <1>1 DEF Sound, Inv, TypeOK
<1> HIDE DEF n
<1>4. /\ q \in Stream /\ q.pc = "streaming" /\ q.queue = stream[s].queue
      /\ q.delivered = stream[s].delivered /\ q.dropped = stream[s].dropped
      /\ q.replica = stream[s].replica /\ q.workspace = stream[s].workspace
  BY <1>1, <1>3 DEF Stream
<1> HIDE DEF q
<1>5. HandedTo(q) = HandedTo(stream[s]) /\ HandedTo(q) = {}
  BY <1>1, <1>4 DEF Sound, HandedTo
<1>6. Sound(q)
  BY <1>1, <1>4, <1>5 DEF Sound, HandedTo
<1>7. QED BY <1>1, <1>2, <1>4, <1>5, <1>6, StreamStep DEF Subscribe

LEMMA DeliverKeeps ==
    ASSUME Inv, NEW s \in Streams, Deliver(s)
    PROVE  Inv'
<1> DEFINE n == changes[stream[s].workspace]
           h == Head(stream[s].queue)
           q == [stream[s] EXCEPT !.queue = Tail(@), !.delivered = @ \cup {h},
                                  !.fetched = n]
<1>1. /\ stream[s] \in Stream /\ stream[s].pc = "streaming" /\ Sound(stream[s])
      /\ stream[s].queue # <<>> /\ stream[s].queue \in Seq(Events)
  BY DEF Deliver, Inv, TypeOK, Stream
<1>2. stream' = [stream EXCEPT ![s] = q]
  BY DEF Deliver, Inv, TypeOK
<1>3. /\ Tail(stream[s].queue) \in Seq(Events)
      /\ Len(Tail(stream[s].queue)) < Len(stream[s].queue)
      /\ ToSet(stream[s].queue) = ToSet(Tail(stream[s].queue)) \cup {h}
      /\ IsInjective(Tail(stream[s].queue)) /\ h \notin ToSet(Tail(stream[s].queue))
      /\ h \in ToSet(stream[s].queue) /\ h \in Events
  <2>1. IsInjective(stream[s].queue)
    BY <1>1 DEF Sound
  <2>2. h \in Events
    BY <1>1
  <2>3. QED BY <1>1, <2>1, <2>2, TailOfQueue
<1>4. n \in 0..MaxChanges /\ \A e \in HandedTo(stream[s]) : e \in Events /\ e.change <= n
  BY <1>1 DEF Sound, Inv, TypeOK, Truthful, Committed
<1> HIDE DEF n, h
<1>5. /\ q \in Stream /\ q.pc = "streaming" /\ q.queue = Tail(stream[s].queue)
      /\ q.delivered = stream[s].delivered \cup {h} /\ q.dropped = stream[s].dropped
      /\ q.replica = stream[s].replica /\ q.workspace = stream[s].workspace
      /\ q.fetched = n
  BY <1>1, <1>3, <1>4 DEF Stream
<1> HIDE DEF q
<1>6. HandedTo(q) = HandedTo(stream[s])
  BY <1>3, <1>5 DEF HandedTo
<1>7. Sound(q)
  <2>1. \A e \in q.delivered \cup q.dropped : q.fetched >= e.change
    <3>1. \A e \in HandedTo(q) : e.change \in Nat /\ e.change <= n
      BY <1>4, <1>6 DEF Events
    <3>2. QED BY <1>4, <1>5, <3>1 DEF HandedTo
  <2>2. /\ Len(q.queue) <= Capacity /\ IsInjective(q.queue)
        /\ q.workspace \in Workspaces
    <3>1. Len(stream[s].queue) <= Capacity /\ Len(stream[s].queue) \in Nat
      BY <1>1 DEF Sound
    <3>2. Len(Tail(stream[s].queue)) \in Nat
      BY <1>3
    <3>3. QED BY <1>1, <1>3, <1>5, <3>1, <3>2 DEF Sound
  <2>3. /\ ToSet(q.queue) \cap (q.delivered \cup q.dropped) = {}
        /\ q.delivered \cap q.dropped = {}
    BY <1>1, <1>3, <1>5 DEF Sound
  <2>4. QED BY <1>5, <2>1, <2>2, <2>3 DEF Sound
<1>8. QED BY <1>1, <1>2, <1>5, <1>6, <1>7, StreamStep DEF Deliver

LEMMA LeaveKeeps ==
    ASSUME Inv, NEW s \in Streams, Hangup(s) \/ Unsubscribe(s)
    PROVE  Inv'
<1>1. PICK pc \in {"closing", "closed"} :
         stream' = [stream EXCEPT ![s].pc = pc]
  BY DEF Hangup, Unsubscribe
<1> DEFINE q == [stream[s] EXCEPT !.pc = pc]
<1>2. /\ stream[s] \in Stream /\ Sound(stream[s])
      /\ stream[s].pc \in {"streaming", "closing"}
  BY DEF Inv, TypeOK, Hangup, Unsubscribe
<1>3. stream' = [stream EXCEPT ![s] = q]
  BY <1>1 DEF Inv, TypeOK
<1>4. /\ q \in Stream /\ q.pc = pc /\ q.queue = stream[s].queue
      /\ q.delivered = stream[s].delivered /\ q.dropped = stream[s].dropped
      /\ q.replica = stream[s].replica /\ q.workspace = stream[s].workspace
  BY <1>2 DEF Stream
<1> HIDE DEF q
<1>5. HandedTo(q) = HandedTo(stream[s]) /\ Sound(q)
  BY <1>2, <1>4 DEF Sound, HandedTo
<1>6. QED BY <1>3, <1>4, <1>5, StreamStep DEF Hangup, Unsubscribe

-----------------------------------------------------------------------------
(* Steps of the requests and of NATS *)

LEMMA CastingFacts ==
    ASSUME NEW e, NEW T
    PROVE  /\ Casting(e, T).targets = T
           /\ T # {} => Casting(e, T).event = e
           /\ T \subseteq Streams /\ (e \in Events \/ T = {}) => Casting(e, T) \in Cast
BY DEF Casting, Cast

\* Requests that end, broadcasts and messages that vanish and streams that
\* close disturb nothing: a return, a crash and a lost message.
LEMMA ShrinkKeeps ==
    ASSUME Inv, TypeOK', UNCHANGED <<nats, changes>>,
           \A h \in Writers : \/ writer'[h] = writer[h]
                              \/ writer'[h] = Idle /\ ~Active(h)',
           \A b \in Broadcasters : cast'[b] = cast[b] \/ ~Active(b)',
           \A r \in Replicas : bus'[r] \subseteq bus[r],
           \A s \in Streams : \/ stream'[s] = stream[s]
                              \/ /\ stream[s].pc # "unopened"
                                 /\ stream'[s] = [stream[s] EXCEPT !.pc = "closed"]
    PROVE  Inv'
<1>1. ASSUME NEW s \in Streams
      PROVE  /\ HandedTo(stream'[s]) = HandedTo(stream[s])
             /\ stream'[s].replica = stream[s].replica
             /\ stream'[s].workspace = stream[s].workspace
             /\ stream'[s].pc \in {stream[s].pc, "closed"}
             /\ Sound(stream'[s])
  <2>1. stream[s] \in Stream /\ Sound(stream[s])
    BY DEF Inv, TypeOK
  <2>2. CASE stream'[s] = stream[s]
    BY <2>1, <2>2
  <2>3. CASE stream[s].pc # "unopened" /\ stream'[s] = [stream[s] EXCEPT !.pc = "closed"]
    <3>1. /\ stream'[s].pc = "closed" /\ stream'[s].queue = stream[s].queue
          /\ stream'[s].delivered = stream[s].delivered
          /\ stream'[s].dropped = stream[s].dropped
          /\ stream'[s].replica = stream[s].replica
          /\ stream'[s].workspace = stream[s].workspace
      BY <2>1, <2>3 DEF Stream
    <3>2. QED BY <2>1, <2>3, <3>1 DEF Sound, HandedTo
  <2>4. QED BY <2>2, <2>3
<1>2. ASSUME NEW h \in Writers, writer'[h].pc # "idle" \/ Active(h)'
      PROVE  writer'[h] = writer[h]
  BY <1>2 DEF Idle
<1>3. ASSUME NEW b \in Broadcasters, Active(b)'
      PROVE  cast'[b] = cast[b] /\ Active(b) /\ Home(b)' = Home(b)
  BY <1>2, <1>3 DEF Active, Home, Broadcasters
<1>4. Routed'
  BY <1>2, <1>3 DEF Inv, Routed, Broadcasters
<1>5. Truthful'
  <2>1. \A s \in Streams : \A e \in HandedTo(stream'[s]) :
           Committed(e) /\ e.workspace = stream'[s].workspace
    BY <1>1 DEF Inv, Truthful
  <2>2. \A e : Committed(e)' <=> Committed(e)
    BY DEF Committed
  <2>3. \A s \in Streams : HandedTo(stream[s])' = HandedTo(stream'[s])
    BY DEF HandedTo
  <2>4. QED BY <1>2, <1>3, <2>1, <2>2, <2>3 DEF Inv, Truthful
<1>6. Targeted'
  <2> SUFFICES ASSUME NEW b \in Broadcasters, NEW s \in cast'[b].targets
               PROVE  /\ stream'[s].pc \notin {"unopened", "connected"}
                      /\ stream'[s].replica = Home(b)'
                      /\ stream'[s].workspace = cast'[b].event.workspace
    BY DEF Targeted
  <2>1. Active(b)' /\ s \in Streams
    BY DEF Active, TypeOK, Cast
  <2>2. QED BY <1>1, <1>3, <2>1 DEF Inv, Targeted
<1>7. \A s \in Streams : HandedTo(stream[s])' = HandedTo(stream[s])
  BY <1>1 DEF HandedTo
<1>8. WithWriter'
  BY <1>2, <1>3, <1>7 DEF Inv, WithWriter
<1>9. WithNats'
  BY <1>1, <1>3, <1>7 DEF Inv, WithNats, Broadcasters
<1>10. WithBroadcast'
  <2>1. \A b \in Broadcasters : cast'[b].targets # {} => cast'[b] = cast[b]
    BY <1>3 DEF Active
  <2>2. \A b \in Broadcasters : cast'[b].targets \subseteq Streams
    BY DEF TypeOK, Cast
  <2>3. QED BY <1>7, <2>1, <2>2 DEF Inv, WithBroadcast
<1>11. QED BY <1>1, <1>4, <1>5, <1>6, <1>8, <1>9, <1>10 DEF Inv, Sound, HandedTo

LEMMA ReturnKeeps ==
    ASSUME Inv, NEW h \in Writers, Return(h)
    PROVE  Inv'
<1>1. TypeOK'
  BY DEF Inv, TypeOK, Return, Idle, Writer
<1>2. ~Active(h)'
  BY DEF Return, Active
<1>3. QED BY <1>1, <1>2, ShrinkKeeps DEF Return, Inv, TypeOK

LEMMA LoseKeeps ==
    ASSUME Inv, NEW r \in Replicas, Lose(r)
    PROVE  Inv'
<1>1. TypeOK'
  BY DEF Inv, TypeOK, Lose
<1>2. QED BY <1>1, ShrinkKeeps DEF Lose, Inv, TypeOK

LEMMA CrashKeeps ==
    ASSUME Inv, NEW r \in Replicas, Crash(r)
    PROVE  Inv'
<1>1. ASSUME NEW s \in Streams
      PROVE  /\ stream'[s] \in Stream /\ Len(stream'[s].queue) <= Capacity
             /\ \/ stream'[s] = stream[s]
                \/ /\ stream[s].pc # "unopened"
                   /\ stream'[s] = [stream[s] EXCEPT !.pc = "closed"]
  <2>1. /\ stream[s] \in Stream /\ Len(stream[s].queue) <= Capacity
        /\ stream[s].replica = r => stream[s].pc # "unopened"
    BY DEF Inv, TypeOK, Sound
  <2>2. [stream[s] EXCEPT !.pc = "closed"] \in Stream
    BY <2>1 DEF Stream
  <2>3. [stream[s] EXCEPT !.pc = "closed"].queue = stream[s].queue
    BY <2>1 DEF Stream
  <2>4. QED BY <2>1, <2>2, <2>3 DEF Crash
<1>2. ASSUME NEW b \in Broadcasters
      PROVE  /\ cast'[b] \in Cast
             /\ cast'[b] = cast[b] \/ ~Active(b)'
             /\ b \in Writers /\ writer[b].replica = r => ~Active(b)'
  BY CastingFacts DEF Crash, Inv, TypeOK, Active
<1>3. \A h \in Writers : \/ writer'[h] = writer[h]
                         \/ writer'[h] = Idle /\ ~Active(h)'
  BY <1>2 DEF Crash, Broadcasters
<1>4. TypeOK'
  <2>1. writer' \in [Writers -> Writer]
    BY DEF Crash, Inv, TypeOK, Idle, Writer
  <2>2. cast' \in [Broadcasters -> Cast] /\ stream' \in [Streams -> Stream]
    BY <1>1, <1>2 DEF Crash
  <2>3. QED BY <1>1, <2>1, <2>2 DEF Crash, Inv, TypeOK
<1>5. QED BY <1>1, <1>2, <1>3, <1>4, ShrinkKeeps DEF Crash, Inv, TypeOK

LEMMA CommitKeeps ==
    ASSUME Inv, NEW h \in Writers, Commit(h)
    PROVE  Inv'
<1>1. PICK r \in Serving, w \in Workspaces :
         /\ writer[h].pc = "idle" /\ changes[w] < MaxChanges
         /\ changes' = [changes EXCEPT ![w] = @ + 1]
         /\ writer' = [writer EXCEPT
                           ![h] = [pc |-> "publish", replica |-> r,
                                   event |-> [workspace |-> w, change |-> changes[w] + 1]]]
         /\ UNCHANGED <<nats, bus, cast, stream>>
  BY DEF Commit
<1>2. changes[w] \in 0..MaxChanges /\ r \in Replicas
  BY DEF Inv, TypeOK, Serving
<1>3. PICK e \in Events : e = [workspace |-> w, change |-> changes[w] + 1]
  <2>1. changes[w] + 1 \in 1..MaxChanges
    BY <1>1, <1>2
  <2>2. [workspace |-> w, change |-> changes[w] + 1] \in Events
    BY <2>1 DEF Events
  <2>3. QED BY <2>2
<1>4. Committed(e)' /\ \A d : Committed(d) => Committed(d)' /\ d # e
  <2>1. \A v \in Workspaces : changes[v] \in Nat /\ changes'[v] \in Nat
                              /\ changes[v] <= changes'[v]
    BY <1>1 DEF Inv, TypeOK
  <2>2. e.workspace = w /\ e.change = changes[w] + 1 /\ changes'[w] = changes[w] + 1
    BY <1>1, <1>3 DEF Inv, TypeOK
  <2>3. \A d \in Events : d.workspace \in Workspaces /\ d.change \in Nat
    BY DEF Events
  <2>4. QED BY <2>1, <2>2, <2>3 DEF Committed
<1>5. /\ writer' = [writer EXCEPT ![h] = [pc |-> "publish", replica |-> r, event |-> e]]
      /\ writer[h].pc = "idle" /\ UNCHANGED <<nats, bus, cast, stream>>
  BY <1>1, <1>3
<1>6. /\ writer'[h].pc = "publish" /\ writer'[h].event = e
      /\ \A g \in Writers \ {h} : writer'[g] = writer[g]
      /\ writer' \in [Writers -> Writer]
  BY <1>2, <1>3, <1>5 DEF Inv, TypeOK, Writer
<1>7. \A b \in Broadcasters : Active(b) => Home(b)' = Home(b)
  BY <1>5, <1>6 DEF Inv, Routed, Home, Broadcasters
<1>8. TypeOK'
  BY <1>1, <1>6 DEF Inv, TypeOK
<1>9. Routed'
  BY <1>5, <1>6 DEF Inv, Routed, Active
<1>10. Truthful'
  <2>1. \A g \in Writers : writer'[g].pc = "publish" => Committed(writer[g].event)'
    BY <1>4, <1>6 DEF Inv, Truthful
  <2>2. \A p \in Replicas : \A d \in bus'[p] : Committed(d)'
    BY <1>4, <1>5 DEF Inv, Truthful
  <2>3. \A b \in Broadcasters : Active(b)' => Committed(cast[b].event)'
    BY <1>4, <1>5 DEF Inv, Truthful, Active
  <2>4. \A s \in Streams : \A d \in HandedTo(stream[s])' :
           Committed(d)' /\ d.workspace = stream'[s].workspace
    BY <1>4, <1>5 DEF Inv, Truthful, HandedTo
  <2>5. QED BY <2>1, <2>2, <2>3, <2>4 DEF Truthful
<1>11. Targeted'
  BY <1>5, <1>7 DEF Inv, Targeted, Active
<1>12. WithWriter'
  <2>1. \A g \in Writers \ {h} : writer[g].pc = "publish" => writer[g].event # e
    BY <1>4 DEF Inv, Truthful
  <2>2. /\ \A p \in Replicas : e \notin bus[p]
        /\ \A b \in Broadcasters : Active(b) => cast[b].event # e
        /\ \A s \in Streams : e \notin HandedTo(stream[s])
    BY <1>4 DEF Inv, Truthful
  <2>3. QED BY <1>5, <1>6, <2>1, <2>2 DEF Inv, WithWriter, Active, HandedTo
<1>13. WithNats'
  BY <1>5 DEF Inv, WithNats, Active, HandedTo
<1>14. WithBroadcast'
  BY <1>5 DEF Inv, WithBroadcast, HandedTo
<1>15. QED BY <1>5, <1>8, <1>9, <1>10, <1>11, <1>12, <1>13, <1>14 DEF Inv, Sound, HandedTo

LEMMA PublishKeeps ==
    ASSUME Inv, NEW h \in Writers, Publish(h)
    PROVE  Inv'
<1>1. PICK e \in Events : e = writer[h].event /\ Committed(e)
  BY DEF Publish, Inv, Truthful, Committed
<1>2. /\ writer[h].pc = "publish" /\ writer[h] \in Writer /\ ~Active(h)
      /\ UNCHANGED <<nats, changes, stream>>
  BY DEF Publish, Inv, Routed, TypeOK
<1>3. /\ \A g \in Writers \ {h} : writer[g].pc = "publish" => writer[g].event # e
      /\ \A r \in Replicas : e \notin bus[r]
      /\ \A b \in Broadcasters : Active(b) => cast[b].event # e
      /\ \A s \in Streams : e \notin HandedTo(stream[s])
  BY <1>1, <1>2 DEF Inv, WithWriter
<1>4. \A d : Committed(d)' <=> Committed(d)
  BY <1>2 DEF Committed
<1>5. \A s \in Streams : HandedTo(stream[s])' = HandedTo(stream[s])
  BY <1>2 DEF HandedTo
<1>6. CASE /\ ~nats /\ StartBroadcast(h, writer[h].replica, e)
           /\ writer' = [writer EXCEPT ![h].pc = "broadcast"]
           /\ UNCHANGED bus
  <2> DEFINE T == Subscribers(writer[h].replica, e.workspace)
  <2>1. /\ writer'[h].pc = "broadcast" /\ writer'[h].replica = writer[h].replica
        /\ writer' \in [Writers -> Writer]
        /\ \A g \in Writers \ {h} : writer'[g] = writer[g]
    BY <1>2, <1>6 DEF Writer, Inv, TypeOK
  <2>2. T \subseteq Streams
    BY DEF Subscribers
  <2>3. /\ cast'[h].targets = T
        /\ T # {} => cast'[h].event = e
        /\ cast'[h] \in Cast /\ cast' \in [Broadcasters -> Cast]
        /\ \A b \in Broadcasters \ {h} : cast'[b] = cast[b]
    <3>1. cast' = [cast EXCEPT ![h] = Casting(e, T)] /\ h \in Broadcasters
      BY <1>6 DEF StartBroadcast, Broadcasters
    <3>2. /\ Casting(e, T).targets = T /\ Casting(e, T) \in Cast
          /\ T # {} => Casting(e, T).event = e
      BY <2>2, CastingFacts
    <3>3. QED BY <3>1, <3>2 DEF Inv, TypeOK
  <2>4. TypeOK'
    BY <1>2, <1>6, <2>1, <2>3 DEF Inv, TypeOK
  <2>5. Routed'
    BY <1>2, <1>6, <2>1, <2>3 DEF Inv, Routed, Active, Broadcasters
  <2>6. Truthful'
    BY <1>1, <1>2, <1>4, <1>5, <1>6, <2>1, <2>3 DEF Inv, Truthful, Active
  <2>7. Targeted'
    BY <1>2, <2>1, <2>3 DEF Inv, Targeted, Home, Broadcasters, Subscribers, Active
  <2>8. WithWriter'
    BY <1>3, <1>5, <1>6, <2>1, <2>3 DEF Inv, WithWriter, Active
  <2>9. WithNats'
    BY <1>6 DEF Inv, Routed, WithNats
  <2>10. WithBroadcast'
    <3>1. \A b \in Broadcasters : \A s \in cast[b].targets :
             s \in Streams /\ Active(b) /\ cast[b].event # e
      BY <1>3 DEF Inv, TypeOK, Cast, Active
    <3>2. \A s \in cast'[h].targets : s \in Streams /\ cast'[h].event = e
      BY <2>2, <2>3
    <3>3. QED BY <1>3, <1>5, <2>3, <3>1, <3>2 DEF Inv, WithBroadcast
  <2>11. QED BY <1>2, <2>4, <2>5, <2>6, <2>7, <2>8, <2>9, <2>10 DEF Inv, Sound, HandedTo
<1>7. CASE /\ nats /\ bus' = [r \in Replicas |-> bus[r] \cup {e}]
           /\ writer' = [writer EXCEPT ![h] = Idle]
           /\ UNCHANGED cast
  <2>1. /\ writer'[h].pc = "idle" /\ writer' \in [Writers -> Writer]
        /\ \A g \in Writers \ {h} : writer'[g] = writer[g]
    BY <1>2, <1>7 DEF Writer, Idle, Inv, TypeOK
  <2>2. \A b \in Broadcasters : Active(b) => Home(b)' = Home(b)
    BY <1>2, <2>1 DEF Home, Broadcasters
  <2>3. TypeOK'
    BY <1>2, <1>7, <2>1 DEF Inv, TypeOK
  <2>4. Routed'
    BY <1>2, <1>7, <2>1 DEF Inv, Routed, Active
  <2>5. Truthful'
    BY <1>1, <1>2, <1>4, <1>5, <1>7, <2>1 DEF Inv, Truthful, Active
  <2>6. Targeted'
    BY <1>2, <1>7, <2>2 DEF Inv, Targeted, Active
  <2>7. WithWriter'
    BY <1>3, <1>5, <1>7, <2>1 DEF Inv, WithWriter, Active
  <2>8. WithNats'
    BY <1>2, <1>3, <1>5, <1>7 DEF Inv, WithNats, Active, Broadcasters
  <2>9. WithBroadcast'
    BY <1>2, <1>7 DEF Inv, WithBroadcast, HandedTo
  <2>10. QED BY <1>2, <2>3, <2>4, <2>5, <2>6, <2>7, <2>8, <2>9 DEF Inv, Sound, HandedTo
<1>8. QED BY <1>1, <1>6, <1>7 DEF Publish

LEMMA ReceiveKeeps ==
    ASSUME Inv, NEW r \in Replicas, Receive(r)
    PROVE  Inv'
<1>1. PICK e \in bus[r] : /\ StartBroadcast(r, r, e)
                          /\ bus' = [bus EXCEPT ![r] = @ \ {e}]
  BY DEF Receive
<1> DEFINE T == Subscribers(r, e.workspace)
<1>2. /\ e \in Events /\ Committed(e) /\ nats /\ r \in Broadcasters /\ r \notin Writers
      /\ UNCHANGED <<nats, changes, writer, stream>>
  BY DEF Receive, Inv, TypeOK, Truthful, Routed, Broadcasters
<1>3. T \subseteq Streams
  BY DEF Subscribers
<1>4. /\ cast'[r].targets = T
      /\ T # {} => cast'[r].event = e
      /\ cast'[r] \in Cast /\ cast' \in [Broadcasters -> Cast]
      /\ \A b \in Broadcasters \ {r} : cast'[b] = cast[b]
  <2>1. cast' = [cast EXCEPT ![r] = Casting(e, T)]
    BY <1>1 DEF StartBroadcast
  <2>2. /\ Casting(e, T).targets = T /\ Casting(e, T) \in Cast
        /\ T # {} => Casting(e, T).event = e
    BY <1>2, <1>3, CastingFacts
  <2>3. QED BY <1>2, <2>1, <2>2 DEF Inv, TypeOK
<1>5. /\ bus'[r] = bus[r] \ {e} /\ \A p \in Replicas : bus'[p] \subseteq bus[p]
      /\ bus' \in [Replicas -> SUBSET Events]
  BY <1>1 DEF Inv, TypeOK
<1>6. \A s \in Streams : HandedTo(stream[s])' = HandedTo(stream[s])
  BY <1>2 DEF HandedTo
<1>7. \A d : Committed(d)' <=> Committed(d)
  BY <1>2 DEF Committed
<1>8. TypeOK'
  BY <1>2, <1>4, <1>5 DEF Inv, TypeOK
<1>9. Routed'
  BY <1>2, <1>4 DEF Inv, Routed, Active, Broadcasters
<1>10. Truthful'
  BY <1>2, <1>4, <1>5, <1>6, <1>7 DEF Inv, Truthful, Active
<1>11. Targeted'
  BY <1>2, <1>4 DEF Inv, Targeted, Home, Broadcasters, Subscribers, Active
<1>12. WithWriter'
  <2>1. \A g \in Writers : writer[g].pc = "publish" => writer[g].event # e
    BY DEF Inv, WithWriter
  <2>2. QED BY <1>2, <1>4, <1>5, <1>6, <2>1 DEF Inv, WithWriter, Active
<1>13. WithNats'
  BY <1>2, <1>4, <1>5, <1>6 DEF Inv, WithNats, Active, Broadcasters
<1>14. WithBroadcast'
  <2>1. \A s \in T : stream[s].replica = r /\ e \notin HandedTo(stream[s])
    BY DEF Subscribers, Inv, WithNats
  <2>2. ASSUME NEW b \in Broadcasters \ {r}, NEW s \in T
        PROVE  s \notin cast[b].targets
    <3>1. CASE b \in Replicas
      BY <2>1, <3>1 DEF Inv, Targeted, Home
    <3>2. CASE b \in Writers
      BY <1>2, <3>2 DEF Inv, Routed, Active
    <3>3. QED BY <3>1, <3>2 DEF Broadcasters
  <2>3. \A s \in T : s \in Streams /\ cast'[r].event = e
    BY <1>3, <1>4
  <2>4. \A b \in Broadcasters : cast[b].targets \subseteq Streams
    BY DEF Inv, TypeOK, Cast
  <2> HIDE DEF T
  <2>5. QED BY <1>4, <1>6, <2>1, <2>2, <2>3, <2>4 DEF Inv, WithBroadcast
<1>15. QED BY <1>2, <1>8, <1>9, <1>10, <1>11, <1>12, <1>13, <1>14 DEF Inv, Sound, HandedTo

\* A stream that still waits for an event takes it, or drops it because others
\* are waiting in its channel.
LEMMA Offered ==
    ASSUME NEW q \in Stream, NEW e \in Events, Sound(q), e \notin HandedTo(q),
           q.pc \notin {"unopened", "connected"}
    PROVE  /\ Offer(q, e) \in Stream /\ Sound(Offer(q, e))
           /\ HandedTo(Offer(q, e)) = HandedTo(q) \cup {e}
           /\ Offer(q, e).pc = q.pc /\ Offer(q, e).replica = q.replica
           /\ Offer(q, e).workspace = q.workspace
<1> DEFINE p == Offer(q, e)
<1>1. /\ q.queue \in Seq(Events) /\ Len(q.queue) \in Nat /\ Len(q.queue) <= Capacity
      /\ e \notin ToSet(q.queue) /\ e \notin q.delivered /\ e \notin q.dropped
      /\ Capacity >= 1
  BY DEF Stream, Sound, HandedTo
<1>2. /\ Append(q.queue, e) \in Seq(Events) /\ Append(q.queue, e) # <<>>
      /\ Len(Append(q.queue, e)) = Len(q.queue) + 1
      /\ ToSet(Append(q.queue, e)) = ToSet(q.queue) \cup {e}
      /\ IsInjective(Append(q.queue, e))
  <2>1. IsInjective(q.queue)
    BY DEF Sound
  <2>2. QED BY <1>1, <2>1, AppendToQueue
<1>3. CASE Len(q.queue) < Capacity
  <2>1. /\ p = [q EXCEPT !.queue = Append(@, e)]
        /\ p \in Stream /\ p.queue = Append(q.queue, e) /\ p.delivered = q.delivered
        /\ p.dropped = q.dropped /\ p.fetched = q.fetched /\ p.pc = q.pc
        /\ p.replica = q.replica /\ p.workspace = q.workspace
    BY <1>2, <1>3 DEF Offer, Stream
  <2> HIDE DEF p
  <2>2. HandedTo(p) = HandedTo(q) \cup {e}
    BY <1>2, <2>1 DEF HandedTo
  <2>3. Sound(p)
    BY <1>1, <1>2, <1>3, <2>1 DEF Sound
  <2>4. QED BY <2>1, <2>2, <2>3 DEF p
<1>4. CASE Len(q.queue) = Capacity
  <2>1. /\ p = [q EXCEPT !.dropped = @ \cup {e}]
        /\ p \in Stream /\ p.queue = q.queue /\ p.delivered = q.delivered
        /\ p.dropped = q.dropped \cup {e} /\ p.fetched = q.fetched /\ p.pc = q.pc
        /\ p.replica = q.replica /\ p.workspace = q.workspace
    <3>1. p = [q EXCEPT !.dropped = @ \cup {e}]
      BY <1>1, <1>4 DEF Offer
    <3>2. q.dropped \cup {e} \in SUBSET Events
      BY DEF Stream
    <3>3. p \in Stream /\ p.dropped = q.dropped \cup {e}
      BY <3>1, <3>2 DEF Stream
    <3>4. /\ p.queue = q.queue /\ p.delivered = q.delivered /\ p.fetched = q.fetched
          /\ p.pc = q.pc /\ p.replica = q.replica /\ p.workspace = q.workspace
      BY <3>1 DEF Stream
    <3>5. QED BY <3>1, <3>3, <3>4
  <2> HIDE DEF p
  <2>2. HandedTo(p) = HandedTo(q) \cup {e}
    BY <2>1 DEF HandedTo
  <2>3. q.queue # <<>>
    BY <1>1, <1>4
  <2>4. Sound(p)
    BY <1>1, <2>1, <2>3 DEF Sound
  <2>5. QED BY <2>1, <2>2, <2>4 DEF p
<1>5. QED BY <1>1, <1>3, <1>4

LEMMA SendKeeps ==
    ASSUME Inv, NEW b \in Broadcasters, Send(b)
    PROVE  Inv'
<1>1. PICK s \in cast[b].targets :
         /\ stream' = [stream EXCEPT ![s] = Offer(@, cast[b].event)]
         /\ cast' = [cast EXCEPT ![b] = Casting(@.event, @.targets \ {s})]
         /\ UNCHANGED <<nats, changes, writer, bus>>
  BY DEF Send
<1>2. PICK e \in Events : e = cast[b].event /\ Committed(e)
  BY DEF Inv, Truthful, Active, Committed
<1>3. /\ s \in Streams /\ cast[b] \in Cast /\ Active(b)
      /\ stream[s] \in Stream /\ Sound(stream[s])
  BY DEF Inv, TypeOK, Cast, Active
<1>4. /\ e \notin HandedTo(stream[s]) /\ stream[s].pc \notin {"unopened", "connected"}
      /\ stream[s].replica = Home(b) /\ stream[s].workspace = e.workspace
  BY <1>2 DEF Inv, WithBroadcast, Targeted
<1>5. /\ stream'[s] \in Stream /\ Sound(stream'[s])
      /\ HandedTo(stream'[s]) = HandedTo(stream[s]) \cup {e}
      /\ \A t \in Streams \ {s} : stream'[t] = stream[t]
      /\ \A t \in Streams : /\ stream'[t].pc = stream[t].pc
                            /\ stream'[t].replica = stream[t].replica
                            /\ stream'[t].workspace = stream[t].workspace
      /\ stream' \in [Streams -> Stream]
  <2>1. stream'[s] = Offer(stream[s], e) /\ \A t \in Streams \ {s} : stream'[t] = stream[t]
    BY <1>1, <1>2, <1>3 DEF Inv, TypeOK
  <2>2. /\ Offer(stream[s], e) \in Stream /\ Sound(Offer(stream[s], e))
        /\ HandedTo(Offer(stream[s], e)) = HandedTo(stream[s]) \cup {e}
        /\ Offer(stream[s], e).pc = stream[s].pc
        /\ Offer(stream[s], e).replica = stream[s].replica
        /\ Offer(stream[s], e).workspace = stream[s].workspace
    BY <1>3, <1>4, Offered
  <2>3. QED BY <1>1, <2>1, <2>2 DEF Inv, TypeOK
<1>6. \A t \in Streams : /\ HandedTo(stream[t])' \subseteq HandedTo(stream[t]) \cup {e}
                         /\ t # s => HandedTo(stream[t])' = HandedTo(stream[t])
  BY <1>5 DEF HandedTo
<1>7. /\ cast'[b].targets = cast[b].targets \ {s}
      /\ cast'[b].targets # {} => cast'[b].event = e
      /\ \A c \in Broadcasters \ {b} : cast'[c] = cast[c]
      /\ cast' \in [Broadcasters -> Cast]
  <2> DEFINE T == cast[b].targets \ {s}
  <2>1. cast' = [cast EXCEPT ![b] = Casting(e, T)]
    BY <1>1, <1>2
  <2>2. /\ Casting(e, T).targets = T /\ Casting(e, T) \in Cast
        /\ T # {} => Casting(e, T).event = e
    <3>1. T \subseteq Streams
      BY <1>3 DEF Cast
    <3>2. QED BY <3>1, CastingFacts
  <2>3. QED BY <2>1, <2>2 DEF Inv, TypeOK
<1>8. \A c \in Broadcasters : /\ cast'[c].targets \subseteq cast[c].targets
                              /\ cast'[c].targets # {} => cast'[c].event = cast[c].event
                              /\ Active(c)' => Active(c)
                              /\ Home(c)' = Home(c)
  BY <1>1, <1>2, <1>7 DEF Active, Home
<1>9. \A d : Committed(d)' <=> Committed(d)
  BY <1>1 DEF Committed
<1>10. TypeOK'
  <2>1. \A t \in Streams : Len(stream'[t].queue) <= Capacity
    BY <1>5 DEF Inv, TypeOK, Sound
  <2>2. QED BY <1>1, <1>5, <1>7, <2>1 DEF Inv, TypeOK
<1>11. Routed'
  BY <1>1, <1>8 DEF Inv, Routed, Broadcasters
<1>12. Truthful'
  <2>1. \A t \in Streams : \A d \in HandedTo(stream[t])' :
           Committed(d) /\ d.workspace = stream'[t].workspace
    BY <1>2, <1>4, <1>5, <1>6 DEF Inv, Truthful
  <2>2. \A c \in Broadcasters : Active(c)' => Committed(cast'[c].event)
    BY <1>8 DEF Inv, Truthful, Active
  <2>3. QED BY <1>1, <1>9, <2>1, <2>2 DEF Inv, Truthful
<1>13. Targeted'
  <2>1. \A c \in Broadcasters : cast[c].targets \subseteq Streams
    BY DEF Inv, TypeOK, Cast
  <2>2. QED BY <1>5, <1>8, <2>1 DEF Inv, Targeted
<1>14. WithWriter'
  <2>1. \A h \in Writers : writer[h].pc = "publish" => writer[h].event # e
    BY <1>2, <1>3 DEF Inv, WithWriter
  <2>2. \A c \in Broadcasters : Active(c)' => cast'[c].event = cast[c].event /\ Active(c)
    BY <1>8 DEF Active
  <2>3. ASSUME NEW h \in Writers, writer[h].pc = "publish"
        PROVE  /\ \A c \in Broadcasters : Active(c)' => cast'[c].event # writer[h].event
               /\ \A t \in Streams : writer[h].event \notin HandedTo(stream[t])'
    <3>1. \A c \in Broadcasters : Active(c) => cast[c].event # writer[h].event
      BY <2>3 DEF Inv, WithWriter
    <3>2. \A t \in Streams : writer[h].event \notin HandedTo(stream[t])
      BY <2>3 DEF Inv, WithWriter
    <3>3. QED BY <1>6, <2>1, <2>2, <2>3, <3>1, <3>2
  <2>4. QED BY <1>1, <2>3 DEF Inv, WithWriter
<1>15. WithNats'
  <2>1. ASSUME NEW r \in Replicas, stream[s].replica = r
        PROVE  e \notin bus[r]
    <3>1. CASE b \in Replicas
      BY <1>2, <1>3, <1>4, <2>1, <3>1 DEF Inv, WithNats, Home
    <3>2. CASE b \in Writers
      BY <1>3, <3>2 DEF Inv, Routed, TypeOK
    <3>3. QED BY <3>1, <3>2 DEF Broadcasters
  <2>2. \A c \in Replicas : Active(c)' => cast'[c].event = cast[c].event /\ Active(c)
    BY <1>8 DEF Active, Broadcasters
  <2>3. ASSUME NEW r \in Replicas, NEW d \in bus[r], NEW t \in Streams,
               stream[t].replica = r
        PROVE  d \notin HandedTo(stream[t])'
    BY <1>6, <2>1, <2>3 DEF Inv, WithNats
  <2>4. ASSUME NEW r \in Replicas, NEW d \in bus[r]
        PROVE  /\ Active(r)' => cast'[r].event # d
               /\ \A t \in Streams : stream'[t].replica = r => d \notin HandedTo(stream[t])'
    <3>1. Active(r)' => cast'[r].event # d
      BY <2>2 DEF Inv, WithNats
    <3>2. QED BY <1>5, <2>3, <3>1
  <2>5. bus' = bus
    BY <1>1
  <2>6. QED BY <2>4, <2>5 DEF WithNats
<1>16. WithBroadcast'
  <2>1. ASSUME NEW c \in Broadcasters, NEW t \in cast'[c].targets
        PROVE  /\ t \in Streams /\ t \in cast[c].targets
               /\ cast'[c].event = cast[c].event
               /\ t = s => c # b /\ cast[c].event # e
    <3>1. t \in Streams /\ t \in cast[c].targets /\ cast'[c].event = cast[c].event
      BY <1>8 DEF Inv, TypeOK, Cast
    <3>2. t = s => c # b
      BY <1>7
    <3>3. QED BY <1>2, <3>1, <3>2 DEF Inv, WithBroadcast
  <2>2. QED BY <1>5, <1>6, <2>1 DEF Inv, WithBroadcast
<1>17. \A t \in Streams : Sound(stream[t])'
  <2>1. \A t \in Streams : Sound(stream'[t])
    BY <1>5 DEF Inv
  <2>2. QED BY <2>1 DEF Sound, HandedTo
<1>18. QED BY <1>10, <1>11, <1>12, <1>13, <1>14, <1>15, <1>16, <1>17 DEF Inv

-----------------------------------------------------------------------------
(* Invariance *)

LEMMA InitInv == Init => Inv
<1> SUFFICES ASSUME Init PROVE Inv
  OBVIOUS
<1>1. /\ \A b \in Broadcasters : cast[b].targets = {} /\ cast[b] \in Cast
      /\ cast \in [Broadcasters -> Cast]
  BY CastingFacts DEF Init
<1>2. /\ Unopened \in Stream /\ HandedTo(Unopened) = {} /\ Sound(Unopened)
      /\ Len(Unopened.queue) <= Capacity
  <2>1. /\ Unopened \in Stream /\ Unopened.queue = <<>> /\ Unopened.delivered = {}
        /\ Unopened.dropped = {} /\ Unopened.pc = "unopened"
        /\ Unopened.replica = NoReplica
    BY DEF Unopened, Stream
  <2>2. ToSet(<<>>) = {} /\ IsInjective(<<>>) /\ Len(<<>>) = 0
    BY DEF ToSet, IsInjective
  <2>3. QED BY <2>1, <2>2 DEF Sound, HandedTo
<1>3. Idle \in Writer /\ Idle.pc = "idle"
  BY DEF Idle, Writer
<1>4. TypeOK
  BY <1>1, <1>2, <1>3 DEF Init, TypeOK
<1>5. QED
  BY <1>1, <1>2, <1>3, <1>4
     DEF Init, Inv, Routed, Truthful, Targeted, WithWriter, WithNats, WithBroadcast,
         Active, Broadcasters

LEMMA NextInv == Inv /\ [Next]_vars => Inv'
<1> SUFFICES ASSUME Inv, [Next]_vars PROVE Inv'
  OBVIOUS
<1>1. ASSUME NEW h \in Writers, Commit(h) \/ Publish(h) \/ Return(h)
      PROVE  Inv'
  BY <1>1, CommitKeeps, PublishKeeps, ReturnKeeps
<1>2. ASSUME NEW r \in Replicas, Receive(r) \/ Crash(r) \/ Lose(r)
      PROVE  Inv'
  BY <1>2, ReceiveKeeps, CrashKeeps, LoseKeeps
<1>3. ASSUME NEW b \in Broadcasters, Send(b)
      PROVE  Inv'
  BY <1>3, SendKeeps
<1>4. ASSUME NEW s \in Streams,
             Connect(s) \/ Subscribe(s) \/ Deliver(s) \/ Hangup(s) \/ Unsubscribe(s)
      PROVE  Inv'
  BY <1>4, ConnectKeeps, SubscribeKeeps, DeliverKeeps, LeaveKeeps
<1>5. CASE UNCHANGED vars
  <2>1. TypeOK' /\ Routed' /\ Targeted'
    BY <1>5 DEF vars, Inv, TypeOK, Routed, Targeted, Active, Home
  <2>2. Truthful' /\ WithWriter'
    BY <1>5 DEF vars, Inv, Truthful, WithWriter, Active, Committed, HandedTo
  <2>3. WithNats' /\ WithBroadcast'
    BY <1>5 DEF vars, Inv, WithNats, WithBroadcast, Active, HandedTo
  <2>4. \A s \in Streams : Sound(stream[s])'
    BY <1>5 DEF vars, Inv, Sound, HandedTo
  <2>5. QED BY <2>1, <2>2, <2>3, <2>4 DEF Inv
<1>6. QED BY <1>1, <1>2, <1>3, <1>4, <1>5 DEF Next

\* The invariant of publishTodoEvent, broadcast and handleTodoStream.
THEOREM Invariance == Spec => []Inv
BY InitInv, NextInv, PTL DEF Spec

\* Every reachable state is well typed, and no channel holds more than its
\* capacity.
THEOREM TypeCorrect == Spec => []TypeOK
<1>1. Inv => TypeOK
  BY DEF Inv
<1>2. QED BY <1>1, Invariance, PTL

\* No client hears of one change twice, or of a workspace it does not watch,
\* however writers, NATS, replicas and streams interleave and fail.
THEOREM HeardAtMostOnce == Spec => []AtMostOnce
<1>1. Inv => AtMostOnce
  BY DEF Inv, AtMostOnce, Truthful, Sound, Queued, HandedTo
<1>2. QED BY <1>1, Invariance, PTL

\* Dropping an event at a full channel is harmless: the client has fetched the
\* list since its change, or an event is waiting that will make it do so.
THEOREM DropsAreHarmless == Spec => []RefetchSuffices
<1>1. Inv => RefetchSuffices
  BY DEF Inv, RefetchSuffices, Sound
<1>2. QED BY <1>1, Invariance, PTL

=============================================================================
