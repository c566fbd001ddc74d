----------------------------- MODULE Publishing -----------------------------
(***************************************************************************)
(* Publications of one project on one instance: the REST handler, which    *)
(* takes the channels of a request one after the other, and the handler of *)
(* a publish message on a websocket.  Both go through the publication      *)
(* service and the router's PublishInbound; each request and each message  *)
(* has a goroutine, and only the channel repository has a lock.            *)
(***************************************************************************)
EXTENDS Naturals, Sequences, FiniteSets

CONSTANTS
  Publishers,   \* requests and websocket messages, each handled once
  Channels,
  Refused,      \* names publication.Create refuses
  NameLists,    \* lists of channels a request may name, twice the same too
  Permissions,  \* what its key or token allows: resource -> actions
  Unreadable,   \* a permission that cannot be parsed
  OutageBound,  \* bound on losses of the NATS connection
  LimitBound    \* bound on refusals of the rate limiter (RateGate)

ASSUME PublishAssumption ==
  /\ Refused \subseteq Channels
  /\ NameLists \subseteq Seq(Channels) \ {<<>>}
  /\ OutageBound \in Nat /\ LimitBound \in Nat

VARIABLES
  channels,   \* the channel repository of this instance
  listening,  \* channels with a NATS subscription
  linked,     \* NATS is connected
  pub,        \* what each publisher is doing
  taken,      \* history: <<p, i>>, the broker took p's message for its i-th channel
  outages, limited

publishVars == <<channels, listening, linked, pub, taken, outages, limited>>

\* known: channels there when it began; blind: NATS was down since.
Quiet ==
  [pc |-> "idle", via |-> "rest", names |-> <<>>, at |-> 0, failed |-> {},
   status |-> 0, known |-> {}, blind |-> FALSE]

PublishInit ==
  /\ channels = {} /\ listening = {} /\ linked = TRUE
  /\ pub = [p \in Publishers |-> Quiet]
  /\ taken = {} /\ outages = 0 /\ limited = 0

Current(p) == pub[p].names[pub[p].at]
Turns(p, r) == pub' = [pub EXCEPT ![p] = r]

-----------------------------------------------------------------------------
(* Permission *)

\* Permission.Can: the wildcard resource or the resource itself lists the
\* action or the wildcard action.
Can(permission, resource, action) ==
  \E r \in {"*", resource} \cap DOMAIN permission :
    {"*", action} \cap permission[r] # {}
CanPublish(permission, channel) == Can(permission, channel, "publish")

-----------------------------------------------------------------------------
(* Answers *)

\* The answer to a request, or the error or PUBLISHED message to a client.
Answered(r, status) == [r EXCEPT !.pc = "answered", !.status = status]

\* The end of the REST handler's loop.
\* Mutant: one channel that failed is reported as all.
Conclude_AnyFailed(r) ==
  Answered(r, IF r.failed = {} THEN 201 ELSE 500)
Conclude(r) ==
  Answered(r, IF r.failed = {} THEN 201
              ELSE IF r.failed = DOMAIN r.names THEN 500 ELSE 206)

NextChannel(r) ==
  IF r.at < Len(r.names) THEN [r EXCEPT !.pc = "prepare", !.at = @ + 1] ELSE Conclude(r)

\* sendPublishState: the client is told PUBLISHED; the REST handler goes on.
Succeeds(r) == IF r.via = "ws" THEN Answered(r, 201) ELSE NextChannel(r)

\* sendPublishFailure, and the client is told why; the REST handler notes the
\* channel and goes on.
GivesUp(r) ==
  IF r.via = "ws" THEN Answered(r, 500)
  ELSE NextChannel([r EXCEPT !.failed = @ \cup {r.at}])

-----------------------------------------------------------------------------
(* Handlers *)

\* A request or message is read; its permission is that for every channel it
\* names, or nothing is published.
Receive(p, via, names, permission) ==
  LET r == [Quiet EXCEPT !.via = via, !.names = names, !.at = 1,
                         !.known = channels, !.blind = ~linked]
      allowed == \A i \in DOMAIN names : CanPublish(permission, names[i])
  IN
  /\ pub[p].pc = "idle"
  /\ Turns(p, CASE permission = Unreadable -> Answered(r, 400)
                [] permission # Unreadable /\ ~allowed -> Answered(r, 403)
                [] permission # Unreadable /\ allowed -> [r EXCEPT !.pc = "prepare"])
  /\ UNCHANGED <<channels, listening, linked, taken, outages, limited>>

\* A client that has gone meanwhile is not found.
ClientGone(p) ==
  /\ pub[p].pc = "prepare" /\ pub[p].via = "ws"
  /\ Turns(p, Answered(pub[p], 404))
  /\ UNCHANGED <<channels, listening, linked, taken, outages, limited>>

\* publication.Create validates the name.
Create(p) ==
  /\ pub[p].pc = "prepare"
  /\ Turns(p, IF Current(p) \in Refused THEN GivesUp(pub[p]) ELSE [pub[p] EXCEPT !.pc = "gate"])
  /\ UNCHANGED <<channels, listening, linked, taken, outages, limited>>

-----------------------------------------------------------------------------
(* PublishInbound *)

\* A refusal of the rate limiter ends a REST request in the middle.
AllowInbound(p) ==
  /\ pub[p].pc = "gate"
  /\ \/ Turns(p, [pub[p] EXCEPT !.pc = "find"]) /\ UNCHANGED limited
     \/ /\ limited < LimitBound /\ limited' = limited + 1
        /\ Turns(p, Answered(pub[p], 429))
  /\ UNCHANGED <<channels, listening, linked, taken, outages>>

\* GetOrCreate looks the channel up; Create looks again and inserts.
\* Mutant: the channel is inserted without a look.
Lookup_Never(p) ==
  /\ pub[p].pc = "find"
  /\ Turns(p, [pub[p] EXCEPT !.pc = "insert"])
  /\ UNCHANGED <<channels, listening, linked, taken, outages, limited>>
Lookup(p) ==
  /\ pub[p].pc \in {"find", "find again"}
  /\ LET next == CASE Current(p) \in channels -> "listen"
                   [] Current(p) \notin channels /\ pub[p].pc = "find" -> "find again"
                   [] Current(p) \notin channels /\ pub[p].pc = "find again" -> "insert"
     IN Turns(p, [pub[p] EXCEPT !.pc = next])
  /\ UNCHANGED <<channels, listening, linked, taken, outages, limited>>

\* The repository refuses a channel that another request inserted meanwhile.
Inserts(p) ==
  /\ pub[p].pc = "insert"
  /\ Turns(p, IF Current(p) \in channels THEN GivesUp(pub[p]) ELSE [pub[p] EXCEPT !.pc = "listen"])
  /\ channels' = channels \cup {Current(p)}
  /\ UNCHANGED <<listening, linked, taken, outages, limited>>

Listens(p) ==
  /\ pub[p].pc = "listen"
  /\ Turns(p, IF linked THEN [pub[p] EXCEPT !.pc = "broker"] ELSE GivesUp(pub[p]))
  /\ listening' = IF linked THEN listening \cup {Current(p)} ELSE listening
  /\ UNCHANGED <<channels, linked, taken, outages, limited>>

BrokerTakes(p) ==
  /\ pub[p].pc = "broker"
  /\ Turns(p, IF linked THEN Succeeds(pub[p]) ELSE GivesUp(pub[p]))
  /\ taken' = IF linked THEN taken \cup {<<p, pub[p].at>>} ELSE taken
  /\ UNCHANGED <<channels, listening, linked, outages, limited>>

Publish(p) ==
  AllowInbound(p) \/ Lookup(p) \/ Inserts(p) \/ Listens(p) \/ BrokerTakes(p)

PublishREST(p) ==
  \/ \E names \in NameLists, permission \in Permissions : Receive(p, "rest", names, permission)
  \/ pub[p].via = "rest" /\ (Create(p) \/ Publish(p))

HandlePublishMessage(p) ==
  \/ \E c \in Channels, permission \in Permissions : Receive(p, "ws", <<c>>, permission)
  \/ ClientGone(p)
  \/ pub[p].via = "ws" /\ (Create(p) \/ Publish(p))

-----------------------------------------------------------------------------
\* A client subscribes, and its GetOrCreate inserts the channel (Subscriptions).
InsertedBySubscriber ==
  /\ \E c \in Channels \ channels : channels' = channels \cup {c}
  /\ UNCHANGED <<listening, linked, pub, taken, outages, limited>>

LinkDrops ==
  /\ linked /\ outages < OutageBound
  /\ linked' = FALSE /\ outages' = outages + 1
  /\ pub' = [p \in Publishers |-> [pub[p] EXCEPT !.blind = TRUE]]
  /\ UNCHANGED <<channels, listening, taken, limited>>

LinkReturns ==
  /\ ~linked /\ linked' = TRUE
  /\ UNCHANGED <<channels, listening, pub, taken, outages, limited>>

PublishNext ==
  \/ \E p \in Publishers : PublishREST(p) \/ HandlePublishMessage(p)
  \/ InsertedBySubscriber \/ LinkDrops \/ LinkReturns

PublishSpec == PublishInit /\ [][PublishNext]_publishVars

-----------------------------------------------------------------------------
\* An answer says what became of the message on every channel: the broker took
\* it for all (201), for all but the ones listed (206) or for none (400, 403,
\* 404, 500), and where it was taken this instance listens, so its own
\* subscribers get it.  429 in the middle of a request says nothing of the
\* channels before (publication Handler.Publish, sendPublishState).
AnswerIsTrue ==
  \A p \in Publishers :
    LET r == pub[p]
        took == {i \in DOMAIN r.names : <<p, i>> \in taken}
    IN r.pc = "answered" =>
         /\ r.status = 201 => took = DOMAIN r.names
         /\ r.status = 206 => took = DOMAIN r.names \ r.failed /\ took # {} /\ r.failed # {}
         /\ r.status \in {400, 403, 404, 500} => took = {}
         /\ \A i \in took : r.names[i] \in listening

\* A channel fails for its name, for the broker, or because it came into being
\* while the request was handled, and then a second try finds it: one that was
\* there from the start does not fail (Channel GetOrCreate, Create).
FailsForCause ==
  \A p \in Publishers : \A i \in pub[p].failed :
    \/ pub[p].names[i] \in Refused
    \/ pub[p].blind
    \/ pub[p].names[i] \in channels \ pub[p].known
=============================================================================
