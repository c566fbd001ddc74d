--------------------------- MODULE Subscriptions ---------------------------
(***************************************************************************)
(* The subscriptions of websocket clients on one instance: the session's   *)
(* cache, the two indexes of the repository, the broker's listeners, and   *)
(* the goroutines that work on them.  Every message of a client has a      *)
(* goroutine of its own, so that the messages of one client overtake each  *)
(* other, and run on when its connection is gone.                          *)
(*                                                                         *)
(* A subscription is its client and the number of the session's making.    *)
(* Channels are never deleted and listeners never stopped: nothing outside *)
(* the tests publishes the event their cleanup waits for.                  *)
(***************************************************************************)
EXTENDS Naturals, FiniteSets

CONSTANTS
  Clients,       \* one connection each
  Channels,
  Handlers,      \* goroutines that handle a client's message
  SubBound,      \* bound on the subscriptions made for one client
  RequestBound,  \* bound on the messages received
  FaultBound     \* bound on the times the broker is unavailable

ASSUME SubscriptionsAssumption ==
  /\ IsFiniteSet(Handlers)
  /\ SubBound \in Nat /\ RequestBound \in Nat /\ FaultBound \in Nat

VARIABLES
  reader,     \* what the goroutine that reads a connection is doing
  named,      \* the subscription id kept in the client, 0: none
  cache,      \* the session's subscription of the client, 0: none
  made,       \* the subscriptions ever made for a client
  closed,     \* the closed subscriptions
  members,    \* index: channel -> subscriptions
  chansOf,    \* index: subscription -> channels
  channels,   \* the channels of the channel repository
  listening,  \* the channels the broker listens to
  h,          \* the message each handler is in the middle of
  received, faults,
  told,       \* history: the last state a client was sent about a channel
  raced,      \* history: a client's messages about a channel overlapped
  overtaken,  \* history: clients that left with messages in flight
  deaf        \* history: channels whose listener could not be set up

index == <<members, chansOf>>
session == <<named, cache, made>>
broker == <<channels, listening, deaf>>
history == <<raced, overtaken>>
vars == <<reader, session, closed, index, broker, h, received, faults, told, history>>

Subs == Clients \X (1..SubBound)
Idle == [pc |-> "idle"]

Sub(r) == <<h[r].c, h[r].n>>
At(r, pc) == h[r].pc = pc
Goes(r, pc) == h' = [h EXCEPT ![r].pc = pc]
Busy(c) == {r \in Handlers : h[r] # Idle /\ h[r].c = c}
\* FindByID looks through the members of every channel.
Indexed(s) == \E ch \in Channels : s \in members[ch]

\* The last of a handler: sendSubscriptionState, which sends nothing for a
\* closed subscription, or an error response.
Reply(r, state) ==
  /\ h' = [h EXCEPT ![r] = Idle]
  /\ told' = [told EXCEPT ![h[r].c][h[r].ch] = IF Sub(r) \in closed THEN @ ELSE state]

-----------------------------------------------------------------------------
Init ==
  /\ reader = [c \in Clients |-> "off"]
  /\ named = [c \in Clients |-> 0]
  /\ cache = [c \in Clients |-> 0]
  /\ made = [c \in Clients |-> 0]
  /\ closed = {}
  /\ members = [ch \in Channels |-> {}]
  /\ chansOf = [s \in Subs |-> {}]
  /\ channels = {}
  /\ listening = {}
  /\ h = [r \in Handlers |-> Idle]
  /\ received = 0
  /\ faults = 0
  /\ told = [c \in Clients |-> [ch \in Channels |-> "nothing"]]
  /\ raced = {}
  /\ overtaken = {}
  /\ deaf = {}

-----------------------------------------------------------------------------
(* A message arrives *)

\* HandleConnection: the client is stored and its connection is read.
HandleConnection(c) ==
  /\ reader[c] = "off"
  /\ reader' = [reader EXCEPT ![c] = "reading"]
  /\ UNCHANGED <<session, closed, index, broker, h, received, faults, told, history>>

\* readWebSocketMessages starts a goroutine for a subscribe or an unsubscribe
\* that the client's permission allows.
ReadMessage(r, c, ch) ==
  /\ reader[c] = "reading" /\ h[r] = Idle /\ received < RequestBound
  /\ \E pc \in {"session", "find"} : h' = [h EXCEPT ![r] = [pc |-> pc, c |-> c, ch |-> ch, n |-> 0]]
  /\ received' = received + 1
  /\ raced' = IF \E q \in Busy(c) : h[q].ch = ch THEN raced \cup {<<c, ch>>} ELSE raced
  /\ UNCHANGED <<reader, session, closed, index, broker, faults, told, overtaken>>

-----------------------------------------------------------------------------
(* Subscribe *)

\* The session's subscription can be used again.
Reusable(c) == cache[c] # 0 /\ <<c, cache[c]>> \notin closed

\* Mutant: every message makes a subscription.
GetOrCreateSubscription_Anew(r) ==
  LET c == h[r].c
      n == made[c] + 1
  IN /\ At(r, "session") /\ n <= SubBound
     /\ made' = [made EXCEPT ![c] = n]
     /\ cache' = [cache EXCEPT ![c] = n]
     /\ named' = [named EXCEPT ![c] = IF @ = 0 THEN n ELSE @]
     /\ h' = [h EXCEPT ![r].pc = "resolve", ![r].n = n]
     /\ UNCHANGED <<reader, closed, index, broker, received, faults, told, history>>

\* Mutant: the client does not learn the id.
GetOrCreateSubscription_Unnamed(r) ==
  LET c == h[r].c
      n == IF Reusable(c) THEN cache[c] ELSE made[c] + 1
  IN /\ At(r, "session") /\ n <= SubBound
     /\ made' = [made EXCEPT ![c] = IF Reusable(c) THEN @ ELSE n]
     /\ cache' = [cache EXCEPT ![c] = n]
     /\ h' = [h EXCEPT ![r].pc = "resolve", ![r].n = n]
     /\ UNCHANGED <<reader, named, closed, index, broker, received, faults, told, history>>

\* The subscription of the session, made if there is none to use again; the
\* client takes its id if it has none.
GetOrCreateSubscription(r) ==
  LET c == h[r].c
      n == IF Reusable(c) THEN cache[c] ELSE made[c] + 1
  IN /\ At(r, "session") /\ n <= SubBound
     /\ made' = [made EXCEPT ![c] = IF Reusable(c) THEN @ ELSE n]
     /\ cache' = [cache EXCEPT ![c] = n]
     /\ named' = [named EXCEPT ![c] = IF @ = 0 THEN n ELSE @]
     /\ h' = [h EXCEPT ![r].pc = "resolve", ![r].n = n]
     /\ UNCHANGED <<reader, closed, index, broker, received, faults, told, history>>

\* Subscribe looks for the channel, unless the subscription is closed.
FindChannel(r) ==
  /\ At(r, "resolve")
  /\ IF Sub(r) \in closed
     THEN Reply(r, "refused")
     ELSE /\ Goes(r, IF h[r].ch \in channels THEN "check" ELSE "create")
          /\ UNCHANGED told
  /\ UNCHANGED <<reader, session, closed, index, broker, received, faults, history>>

\* Create makes the channel; when another goroutine made it first, its second
\* look finds it, or the repository refuses the channel and Subscribe fails.
CreateChannel(r) ==
  /\ At(r, "create")
  /\ \/ Goes(r, "check") /\ UNCHANGED told
     \/ h[r].ch \in channels /\ Reply(r, "refused")
  /\ channels' = channels \cup {h[r].ch}
  /\ UNCHANGED <<reader, session, closed, index, listening, deaf, received, faults, history>>

\* A channel the subscription is on already is only confirmed.
AlreadySubscribed(r) ==
  /\ At(r, "check")
  /\ IF h[r].ch \in chansOf[Sub(r)]
     THEN Reply(r, "subscribed")
     ELSE Goes(r, "add") /\ UNCHANGED told
  /\ UNCHANGED <<reader, session, closed, index, broker, received, faults, history>>

\* AddToChannel looks whether the subscription is closed before it locks.
AddChecksClosed(r) ==
  /\ At(r, "add")
  /\ IF Sub(r) \in closed
     THEN Reply(r, "refused")
     ELSE Goes(r, "insert") /\ UNCHANGED told
  /\ UNCHANGED <<reader, session, closed, index, broker, received, faults, history>>

\* Under the lock, both indexes.
AddToChannel(s, ch) ==
  /\ members' = [members EXCEPT ![ch] = @ \cup {s}]
  /\ chansOf' = [chansOf EXCEPT ![s] = @ \cup {ch}]

AddInserts(r) ==
  /\ At(r, "insert")
  /\ AddToChannel(Sub(r), h[r].ch)
  /\ Goes(r, "listen")
  /\ UNCHANGED <<reader, session, closed, broker, received, faults, told, history>>

\* Mutant: the error of the broker is dropped.
EnsureChannelListening_Quiet(r) ==
  /\ At(r, "listen")
  /\ \/ listening' = listening \cup {h[r].ch} /\ UNCHANGED faults
     \/ faults < FaultBound /\ faults' = faults + 1 /\ UNCHANGED listening
  /\ Reply(r, "subscribed")
  /\ UNCHANGED <<reader, session, closed, index, channels, deaf, received, history>>

\* The listener of the channel; an error of the broker is answered, and the
\* subscription stays in the indexes.
EnsureChannelListening(r) ==
  /\ At(r, "listen")
  /\ \/ /\ listening' = listening \cup {h[r].ch}
        /\ Reply(r, "subscribed")
        /\ UNCHANGED <<faults, deaf>>
     \/ /\ faults < FaultBound
        /\ faults' = faults + 1
        /\ deaf' = deaf \cup {h[r].ch}
        /\ Reply(r, "refused")
        /\ UNCHANGED listening
  /\ UNCHANGED <<reader, session, closed, index, channels, received, history>>

-----------------------------------------------------------------------------
(* Unsubscribe *)

\* The handler needs the client's subscription id, and a subscription with
\* that id in the index.
FindSubscription(r) ==
  LET n == named[h[r].c]
  IN /\ At(r, "find")
     /\ IF n # 0 /\ Indexed(<<h[r].c, n>>)
        THEN h' = [h EXCEPT ![r].pc = "remove", ![r].n = n] /\ UNCHANGED told
        ELSE Reply(r, "refused")
     /\ UNCHANGED <<reader, session, closed, index, broker, received, faults, history>>

\* Both indexes, whether the subscription was on the channel or not.
RemoveFromChannel(s, ch) ==
  /\ members' = [members EXCEPT ![ch] = @ \ {s}]
  /\ chansOf' = [chansOf EXCEPT ![s] = @ \ {ch}]

\* A channel that is not there, or has no members, is no error.
Unsubscribe(r) ==
  /\ At(r, "remove")
  /\ RemoveFromChannel(Sub(r), h[r].ch)
  /\ Reply(r, "unsubscribed")
  /\ UNCHANGED <<reader, session, closed, broker, received, faults, history>>

-----------------------------------------------------------------------------
(* Disconnection: the reading goroutine *)

Named(c) == <<c, named[c]>>
Turns(c, pc) == reader' = [reader EXCEPT ![c] = pc]

\* The read fails: HandleDisconnection gets the client's subscription id.
HandleDisconnection(c) ==
  /\ reader[c] = "reading"
  /\ Turns(c, IF named[c] = 0 THEN "leave" ELSE "lookup")
  /\ overtaken' = IF Busy(c) = {} THEN overtaken ELSE overtaken \cup {c}
  /\ UNCHANGED <<session, closed, index, broker, h, received, faults, told, raced>>

\* A subscription that is on no channel is not found, and not closed.
LookupSubscription(c) ==
  /\ reader[c] = "lookup"
  /\ Turns(c, IF Indexed(Named(c)) THEN "close" ELSE "leave")
  /\ UNCHANGED <<session, closed, index, broker, h, received, faults, told, history>>

\* CloseSubscription marks it closed first,
MarkClosed(c) ==
  /\ reader[c] = "close"
  /\ closed' = closed \cup {Named(c)}
  /\ Turns(c, "empty")
  /\ UNCHANGED <<session, index, broker, h, received, faults, told, history>>

\* and takes it out of every channel of the reverse index.
RemoveSubscriptionFromAll(c) ==
  /\ reader[c] = "empty"
  /\ members' = [ch \in Channels |->
                   IF ch \in chansOf[Named(c)] THEN members[ch] \ {Named(c)} ELSE members[ch]]
  /\ chansOf' = [chansOf EXCEPT ![Named(c)] = {}]
  /\ Turns(c, "leave")
  /\ UNCHANGED <<session, closed, broker, h, received, faults, told, history>>

CloseSubscription(c) == MarkClosed(c) \/ RemoveSubscriptionFromAll(c)

\* UnregisterConnection forgets the session's subscription; the client stays
\* stored, disconnected, and messages in flight still find it.
UnregisterConnection(c) ==
  /\ reader[c] = "leave"
  /\ cache' = [cache EXCEPT ![c] = 0]
  /\ Turns(c, "done")
  /\ UNCHANGED <<named, made, closed, index, broker, h, received, faults, told, history>>

-----------------------------------------------------------------------------
\* The steps of Subscribe.
Subscribe(r) ==
  \/ FindChannel(r) \/ CreateChannel(r) \/ AlreadySubscribed(r)
  \/ AddChecksClosed(r) \/ AddInserts(r) \/ EnsureChannelListening(r)

\* handleSubscribeMessage: the session's subscription, then Subscribe.
SubscribeMessage(r) == GetOrCreateSubscription(r) \/ Subscribe(r)

\* handleUnsubscribeMessage: the subscription with the client's id, then
\* Unsubscribe.
UnsubscribeMessage(r) == FindSubscription(r) \/ Unsubscribe(r)

\* The deferred calls of readWebSocketMessages.
Disconnection(c) ==
  HandleDisconnection(c) \/ LookupSubscription(c) \/ CloseSubscription(c) \/ UnregisterConnection(c)

Next == \/ \E r \in Handlers : SubscribeMessage(r) \/ UnsubscribeMessage(r)
        \/ \E c \in Clients : HandleConnection(c) \/ Disconnection(c)
        \/ \E r \in Handlers, c \in Clients, ch \in Channels : ReadMessage(r, c, ch)

Spec == Init /\ [][Next]_vars

-----------------------------------------------------------------------------
(* Properties *)

\* A client that has left is on no channel, unless HandleDisconnection ran
\* while a message of that client was still being handled: only a late
\* Subscribe puts a subscription back, or hides it from FindByID.
GhostsAreLate ==
  \A c \in Clients : reader[c] = "done" /\ c \notin overtaken =>
    \A s \in Subs : s[1] = c => ~Indexed(s)

\* A client that is still read has one subscription in the index, however its
\* messages overlap: more would deliver every message more than once.
OneSubscription ==
  \A s, t \in Subs : s[1] = t[1] /\ reader[s[1]] = "reading" /\ Indexed(s) /\ Indexed(t) => s = t

\* What a client was last told about a channel holds, when its messages about
\* it did not overlap: subscribed means in the index and heard by the broker,
\* unsubscribed and refused mean out of it.  Where the broker failed to listen
\* neither is sure: Subscribe leaves the subscription it refused, and confirms
\* it when asked again without listening.
ToldIsTrue ==
  \A c \in Clients, ch \in Channels :
    /\ reader[c] = "reading" /\ <<c, ch>> \notin raced /\ ch \notin deaf
    /\ \A r \in Busy(c) : h[r].ch # ch
    => CASE told[c][ch] = "subscribed" -> Named(c) \in members[ch] /\ ch \in listening
         [] told[c][ch] \in {"unsubscribed", "refused", "nothing"} -> ~\E s \in members[ch] : s[1] = c
=============================================================================
