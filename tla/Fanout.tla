------------------------------- MODULE Fanout -------------------------------
(***************************************************************************)
(* A message from the request that publishes it to the outbound pipelines  *)
(* of the subscribers on this instance: the publish path of the router,    *)
(* the broker's listener of a channel, and the fan-out through one bounded *)
(* buffer per subscription.                                                *)
(*                                                                         *)
(* The broker client calls a channel's listener for one message after the  *)
(* other, and the listeners of two channels at once: a subscription on     *)
(* both has two goroutines at its buffer, which has no lock.  A message is *)
(* the number the broker took it under.                                    *)
(***************************************************************************)
EXTENDS Naturals, Sequences, FiniteSets, SequencesExt

CONSTANTS
  Channels,
  Subs,         \* subscriptions, one client each
  Listeners,    \* goroutines of the broker client that call listeners
  None,
  Capacity,     \* of a subscription's buffer
  MsgBound,     \* bound on the messages published
  FaultBound    \* bound on the refusals of gate and broker, and on lost messages

ASSUME FanoutAssumption ==
  /\ None \notin Channels \cup Subs
  /\ Capacity \in Nat \ {0} /\ MsgBound \in Nat /\ FaultBound \in Nat

VARIABLES
  listeners,  \* broker subscriptions of each channel
  wire,       \* messages of each channel on their way to this instance
  chanOf,     \* the channel of each message, in the order of their numbers
  members,    \* the subscriptions of each channel
  closed, gone,  \* subscriptions: closed, and of no session
  g,          \* what each goroutine of the broker client is doing
  buf,        \* items of each BoundedQueue
  faults,
  last,       \* history: the last of each channel a client's pipeline was handed
  due,        \* history: messages to be delivered to each subscription or dropped
  crossed,    \* history: subscriptions two goroutines were delivering to
  torn        \* history: subscriptions with overlapping accesses to their items

subscribers == <<members, closed, gone>>
history == <<last, due>>
races == <<crossed, torn>>
vars == <<listeners, wire, chanOf, subscribers, g, buf, faults, history, races>>

Idle == [pc |-> "idle", ch |-> None, m |-> 0, subs |-> {}, s |-> None, items |-> <<>>]
At(l, pc) == g[l].pc = pc
Goes(l, pc) == g' = [g EXCEPT ![l].pc = pc]
\* On to the next subscriber.
Leaves(l) == g' = [g EXCEPT ![l].pc = "each", ![l].s = None, ![l].items = <<>>]
Fault == faults < FaultBound /\ faults' = faults + 1

-----------------------------------------------------------------------------
Init ==
  /\ listeners = [ch \in Channels |-> 0]
  /\ wire = [ch \in Channels |-> <<>>]
  /\ chanOf = <<>>
  /\ members = [ch \in Channels |-> {}]
  /\ closed = {} /\ gone = {}
  /\ g = [l \in Listeners |-> Idle]
  /\ buf = [s \in Subs |-> <<>>]
  /\ faults = 0
  /\ last = [s \in Subs |-> [ch \in Channels |-> 0]]
  /\ due = [s \in Subs |-> {}]
  /\ crossed = {} /\ torn = {}

-----------------------------------------------------------------------------
(* Publishing *)

\* Mutant: the repository subscribes again.
Listen_Again(ch) == listeners' = [listeners EXCEPT ![ch] = (@ % 2) + 1]

\* One broker subscription for each channel; later ones replace the handler.
Listen(ch) ==
  listeners' = [listeners EXCEPT ![ch] = 1]

\* The channel is created and listened to before anything is published.
EnsureChannelListening(ch, ok) == IF ok THEN Listen(ch) ELSE UNCHANGED listeners

\* What the broker takes it sends to every subscription of the channel.
PublishToChannel(ch, ok) ==
  LET m == Len(chanOf) + 1
  IN IF ok THEN /\ chanOf' = Append(chanOf, ch)
                /\ wire' = [wire EXCEPT ![ch] = @ \o [i \in 1..listeners'[ch] |-> m]]
           ELSE UNCHANGED <<chanOf, wire>>

\* A websocket message names one channel, a REST request may name several,
\* which are published one after the other.  Nothing takes a listener away,
\* and so the publishing of one channel is one step, with at most one error:
\* over the inbound rate, no listener, or no broker.
PublishInbound ==
  /\ Len(chanOf) < MsgBound
  /\ \E ch \in Channels, reached \in {"gate", "listen", "publish", "ack"} :
       /\ IF reached = "ack" THEN UNCHANGED faults ELSE Fault
       /\ EnsureChannelListening(ch, reached \in {"publish", "ack"})
       /\ PublishToChannel(ch, reached = "ack")
  /\ UNCHANGED <<subscribers, g, buf, history, races>>

\* At most once: a broken connection loses messages.
Lose(ch) ==
  /\ wire[ch] # <<>> /\ Fault
  /\ wire' = [wire EXCEPT ![ch] = Tail(@)]
  /\ UNCHANGED <<listeners, chanOf, subscribers, g, buf, history, races>>

-----------------------------------------------------------------------------
(* Subscribers come and go: module Subscriptions has the steps *)

Join(s, ch) ==
  /\ s \notin members[ch] /\ s \notin closed
  /\ members' = [members EXCEPT ![ch] = @ \cup {s}]
  /\ Listen(ch)
  /\ UNCHANGED <<wire, chanOf, closed, gone, g, buf, faults, history, races>>

Leave(s, ch) ==
  /\ s \in members[ch]
  /\ members' = [members EXCEPT ![ch] = @ \ {s}]
  /\ UNCHANGED <<listeners, wire, chanOf, closed, gone, g, buf, faults, history, races>>

\* Closed first, unlinked from its session last.
Close(s) ==
  /\ \/ s \notin closed /\ closed' = closed \cup {s} /\ UNCHANGED gone
     \/ s \in closed \ gone /\ gone' = gone \cup {s} /\ UNCHANGED closed
  /\ UNCHANGED <<listeners, wire, chanOf, members, g, buf, faults, history, races>>

-----------------------------------------------------------------------------
(* Fan-out *)

\* Mutant: a goroutine for every message.
OnBrokerMessage_Spawned(l, ch) ==
  /\ At(l, "idle") /\ wire[ch] # <<>>
  /\ wire' = [wire EXCEPT ![ch] = Tail(@)]
  /\ g' = [g EXCEPT ![l] = [Idle EXCEPT !.pc = "each", !.ch = ch, !.m = Head(wire[ch]),
                                        !.subs = members[ch]]]
  /\ UNCHANGED <<listeners, chanOf, subscribers, buf, faults, history, races>>

\* The listener is called for the channel's next message, when it is through
\* with the one before, and takes the list of subscribers.
OnBrokerMessage(l, ch) ==
  /\ At(l, "idle") /\ wire[ch] # <<>>
  /\ \A k \in Listeners : g[k].ch # ch
  /\ wire' = [wire EXCEPT ![ch] = Tail(@)]
  /\ g' = [g EXCEPT ![l] = [Idle EXCEPT !.pc = "each", !.ch = ch, !.m = Head(wire[ch]),
                                        !.subs = members[ch]]]
  /\ UNCHANGED <<listeners, chanOf, subscribers, buf, faults, history, races>>

\* Everybody on the list in any order; the closed ones are passed over.
NextSubscriber(l) ==
  /\ At(l, "each")
  /\ IF g[l].subs = {} THEN g' = [g EXCEPT ![l] = Idle] /\ UNCHANGED due
     ELSE \E s \in g[l].subs :
            IF s \in closed
            THEN g' = [g EXCEPT ![l].subs = @ \ {s}] /\ UNCHANGED due
            ELSE /\ g' = [g EXCEPT ![l].subs = @ \ {s}, ![l].s = s, ![l].pc = "gate"]
                 /\ due' = [due EXCEPT ![s] = @ \cup {g[l].m}]
  /\ UNCHANGED <<listeners, wire, chanOf, subscribers, buf, faults, last, races>>

\* Given up, with a record or a warning.
Drop(s, m) == due' = [due EXCEPT ![s] = @ \ {m}]
Hand(s, m) == /\ due' = [due EXCEPT ![s] = @ \ {m}]
              /\ last' = [last EXCEPT ![s][chanOf[m]] = m]

\* The outbound rate.
AllowOutbound(l) ==
  /\ At(l, "gate")
  /\ \/ Goes(l, "push") /\ UNCHANGED <<faults, due>>
     \/ Fault /\ Drop(g[l].s, g[l].m) /\ Leaves(l)
  /\ UNCHANGED <<listeners, wire, chanOf, subscribers, buf, last, races>>

Others(l) == {k \in Listeners \ {l} : g[k].s = g[l].s}
\* An access to the items that overlaps another one's change of them.
Touch(l) == torn' = IF \E k \in Others(l) : g[k].pc \in {"append", "cut"}
                    THEN torn \cup {g[l].s} ELSE torn

\* TryEnqueue: a full queue drops the newest.  Its two reads of the slice, the
\* length and the append's, are one: a change between them is torn as well.
PushReads(l) ==
  LET s == g[l].s
  IN /\ At(l, "push")
     /\ Touch(l)
     /\ crossed' = IF \E k \in Others(l) : g[k].pc \in {"append", "pop", "cut", "deliver"}
                   THEN crossed \cup {s} ELSE crossed
     /\ IF Len(buf[s]) >= Capacity
        THEN Leaves(l) /\ Drop(s, g[l].m)
        ELSE /\ g' = [g EXCEPT ![l].pc = "append", ![l].items = buf[s]]
             /\ UNCHANGED due
     /\ UNCHANGED <<listeners, wire, chanOf, subscribers, buf, faults, last>>

\* The array behind the items is shared: overlapping appends may leave either
\* message in the slot.
PushWrites(l) ==
  LET s == g[l].s
  IN /\ At(l, "append")
     /\ \E m \in {g[l].m} \cup {g[k].m : k \in {k \in Others(l) : At(k, "append")}} :
          buf' = [buf EXCEPT ![s] = Append(g[l].items, m)]
     /\ g' = [g EXCEPT ![l].pc = "pop", ![l].items = <<>>]
     /\ UNCHANGED <<listeners, wire, chanOf, subscribers, faults, history, races>>

\* flushSubscriptionBuffer: until the buffer is empty,
PopReads(l) ==
  LET s == g[l].s
  IN /\ At(l, "pop")
     /\ Touch(l)
     /\ IF buf[s] = <<>>
        THEN Leaves(l)
        ELSE g' = [g EXCEPT ![l].pc = "cut", ![l].items = buf[s]]
     /\ UNCHANGED <<listeners, wire, chanOf, subscribers, buf, faults, history, crossed>>

PopWrites(l) ==
  /\ At(l, "cut")
  /\ buf' = [buf EXCEPT ![g[l].s] = Tail(g[l].items)]
  /\ Goes(l, "deliver")
  /\ UNCHANGED <<listeners, wire, chanOf, subscribers, faults, history, races>>

\* Mutant: an item that fails is kept and tried again.
Deliver_Again(l) ==
  LET s == g[l].s
      m == Head(g[l].items)
  IN /\ At(l, "deliver")
     /\ Goes(l, "pop")
     /\ IF s \in gone THEN buf' = [buf EXCEPT ![s] = <<m>> \o @] /\ UNCHANGED history
                      ELSE Hand(s, m) /\ UNCHANGED buf
     /\ UNCHANGED <<listeners, wire, chanOf, subscribers, faults, races>>

\* the items go to the pipeline of the client, which drops one when it stays
\* full for the timeout; the first error ends the flush.
Deliver(l) ==
  LET s == g[l].s
      m == Head(g[l].items)
  IN /\ At(l, "deliver")
     /\ \/ s \in gone /\ Drop(s, m) /\ Leaves(l) /\ UNCHANGED <<faults, last>>
        \/ s \notin gone /\ Fault /\ Drop(s, m) /\ Goes(l, "pop") /\ UNCHANGED last
        \/ s \notin gone /\ Hand(s, m) /\ Goes(l, "pop") /\ UNCHANGED faults
     /\ UNCHANGED <<listeners, wire, chanOf, subscribers, buf, races>>

-----------------------------------------------------------------------------
\* deliverToSubscriber and its flush.
DeliverToSubscriber(l) ==
  AllowOutbound(l) \/ PushReads(l) \/ PushWrites(l) \/ PopReads(l) \/ PopWrites(l) \/ Deliver(l)

Next ==
  \/ PublishInbound
  \/ \E ch \in Channels : Lose(ch) \/ \E l \in Listeners : OnBrokerMessage(l, ch)
  \/ \E l \in Listeners : NextSubscriber(l) \/ DeliverToSubscriber(l)
  \/ \E s \in Subs : Close(s) \/ \E ch \in Channels : Join(s, ch) \/ Leave(s, ch)

\* The goroutines of the broker client are scheduled.
Fairness ==
  /\ \A ch \in Channels : WF_vars(\E l \in Listeners : OnBrokerMessage(l, ch))
  /\ \A l \in Listeners : WF_vars(NextSubscriber(l) \/ DeliverToSubscriber(l))
Spec == Init /\ [][Next]_vars /\ Fairness

-----------------------------------------------------------------------------
(* Properties *)

Held(s) == {l \in Listeners : g[l].s = s}
\* Where message m for s is: on its way to the buffer, in it, or just out of it.
Copies(s, m) ==
  Cardinality({l \in Held(s) : g[l].m = m /\ g[l].pc \in {"gate", "push", "append"}})
  + Cardinality({i \in DOMAIN buf[s] : buf[s][i] = m /\ ~\E l \in Held(s) : At(l, "cut") /\ i = 1})
  + Cardinality({l \in Held(s) : g[l].pc \in {"cut", "deliver"} /\ Head(g[l].items) = m})

\* A message that finds a subscription on its channel is in one place until it
\* is handed to the pipeline, once, or dropped with a record or a warning.
\* None waits in a buffer that nobody flushes; the goroutines of several
\* channels may take each other's messages out of the buffer, as long as their
\* accesses to its items do not overlap.
OnceEach ==
  \A s \in Subs \ torn :
    /\ \A m \in 1..Len(chanOf) :
         /\ Copies(s, m) = IF m \in due[s] THEN 1 ELSE 0
         /\ m \in due[s] /\ s \notin crossed => m > last[s][chanOf[m]]
    /\ Held(s) = {} => buf[s] = <<>>

\* The messages of a channel reach a client in the order the broker took them,
\* unless the goroutines of two channels were ever delivering to it together.
InOrder ==
  [][\A s \in Subs \ crossed, ch \in Channels : last'[s][ch] >= last[s][ch]]_vars

\* The listeners get through what arrives, again and again: no subscriber,
\* however slow, closed or gone, keeps a channel's goroutine for good.
FanoutEnds == []<>(\A ch \in Channels : wire[ch] = <<>> /\ \A l \in Listeners : g[l].ch # ch)
=============================================================================
