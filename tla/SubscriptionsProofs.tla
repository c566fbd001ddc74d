------------------------ MODULE SubscriptionsProofs ------------------------
(***************************************************************************)
(* What holds of the index of subscriptions, and of what clients are told  *)
(* of it, for any number of clients, channels and messages in flight.      *)
(***************************************************************************)
EXTENDS Subscriptions, TLAPS

Places ==
  {"session", "resolve", "create", "check", "add", "insert", "listen", "find", "remove"}
Job == [pc : Places, c : Clients, ch : Channels, n : Nat]

\* A handler works for a subscription that was made, once it has one in hand.
WorksFor(o) ==
  \/ o = Idle
  \/ o \in Job /\ o.n <= made[o.c] /\ (o.pc \notin {"session", "find"} => o.n > 0)

\* While it is read, a client has the subscription that was made first, if any.
Stays(c) == reader[c] \in {"off", "reading"}

SubInv ==
  /\ made \in [Clients -> Nat] /\ named \in [Clients -> Nat] /\ cache \in [Clients -> Nat]
  /\ reader \in [Clients -> {"off", "reading", "lookup", "close", "empty", "leave", "done"}]
  /\ h \in [Handlers -> Job \cup {Idle}]
  /\ \A r \in Handlers : WorksFor(h[r])
  /\ \A c \in Clients : named[c] <= made[c] /\ cache[c] <= made[c]
  /\ \A c \in Clients : Stays(c) =>
       made[c] <= 1 /\ cache[c] = made[c] /\ \A n \in Nat : <<c, n>> \notin closed
  /\ members \in [Channels -> SUBSET (Clients \X Nat)]
  /\ \A ch \in Channels : \A s \in members[ch] : s[2] > 0 /\ s[2] <= made[s[1]]

LEMMA SubInvGivesOne == SubInv => OneSubscription
<1> SUFFICES ASSUME SubInv, NEW s \in Subs, NEW t \in Subs, s[1] = t[1],
                    reader[s[1]] = "reading", Indexed(s), Indexed(t)
             PROVE  s = t
  BY DEF OneSubscription
<1>1. s[1] \in Clients /\ t[1] \in Clients /\ s[2] \in Nat /\ t[2] \in Nat
      /\ s = <<s[1], s[2]>> /\ t = <<t[1], t[2]>>
  BY SubscriptionsAssumption DEF Subs
<1>2. made[s[1]] <= 1 /\ made[s[1]] \in Nat
  BY <1>1 DEF SubInv, Stays
<1>3. s[2] > 0 /\ s[2] <= made[s[1]] /\ t[2] > 0 /\ t[2] <= made[s[1]]
  BY <1>1 DEF SubInv, Indexed
<1>4. s[2] = t[2]
  BY <1>1, <1>2, <1>3
<1> QED
  BY <1>1, <1>4

LEMMA SubStarts == Init => SubInv
BY DEF Init, SubInv, WorksFor, Stays

\* A handler goes on with a subscription that was made, and the rest stays.
LEMMA HandlerGoes ==
  ASSUME SubInv, NEW r \in Handlers, NEW o, WorksFor(o), h' = [h EXCEPT ![r] = o],
         UNCHANGED <<reader, session, closed, members>>
  PROVE  SubInv'
<1>1. o \in Job \cup {Idle}
  BY DEF WorksFor
<1>2. /\ h' \in [Handlers -> Job \cup {Idle}]
      /\ \A q \in Handlers : h'[q] = IF q = r THEN o ELSE h[q]
  BY <1>1 DEF SubInv
<1>3. made' = made /\ named' = named /\ cache' = cache /\ reader' = reader
      /\ closed' = closed /\ members' = members
  BY DEF session
<1>4. \A q \in Handlers : WorksFor(h[q])'
  BY <1>2, <1>3 DEF SubInv, WorksFor
<1>5. \A c \in Clients : Stays(c)' <=> Stays(c)
  BY <1>3 DEF Stays
<1> QED
  BY <1>2, <1>3, <1>4, <1>5 DEF SubInv

\* It answers, or takes the next step of Subscribe.
LEMMA HandlerSteps ==
  ASSUME SubInv, NEW r \in Handlers, h[r].pc \in Places \ {"session", "find"},
         \/ h' = [h EXCEPT ![r] = Idle]
         \/ \E pc \in Places : Goes(r, pc),
         UNCHANGED <<reader, session, closed, members>>
  PROVE  SubInv'
<1>1. CASE h' = [h EXCEPT ![r] = Idle]
  BY <1>1, HandlerGoes DEF WorksFor
<1>2. ASSUME NEW pc \in Places, Goes(r, pc) PROVE SubInv'
  <2> DEFINE o == [h[r] EXCEPT !.pc = pc]
  <2>1. h[r] \in Job
    BY DEF SubInv, Idle, Places
  <2>2. h[r].n <= made[h[r].c] /\ h[r].n > 0
    BY <2>1 DEF SubInv, WorksFor, Idle, Places
  <2>3. o \in Job /\ o.c = h[r].c /\ o.n = h[r].n
    BY <2>1 DEF Job
  <2>4. h' = [h EXCEPT ![r] = o]
    BY <1>2, <2>1 DEF Goes, Job
  <2> HIDE DEF o
  <2>5. WorksFor(o)
    BY <2>2, <2>3 DEF WorksFor
  <2> QED
    BY <2>4, <2>5, HandlerGoes
<1> QED
  BY <1>1, <1>2

\* A connection is opened, or goes on with its end.
LEMMA ReaderSteps ==
  ASSUME SubInv, NEW c \in Clients, NEW s \in {"reading", "lookup", "close", "empty", "leave", "done"},
         Turns(c, s), s = "reading" => reader[c] = "off",
         UNCHANGED <<named, made, h>>,
         Stays(c) => UNCHANGED <<cache, closed, members>>,
         cache' \in [Clients -> Nat], \A d \in Clients : cache'[d] = cache[d] \/ (d = c /\ cache'[d] = 0),
         \A d \in Clients \ {c}, n \in Nat : <<d, n>> \in closed' => <<d, n>> \in closed,
         members' \in [Channels -> SUBSET (Clients \X Nat)],
         \A ch \in Channels : members'[ch] \subseteq members[ch]
  PROVE  SubInv'
<1>1. /\ reader' \in [Clients -> {"off", "reading", "lookup", "close", "empty", "leave", "done"}]
      /\ \A d \in Clients : reader'[d] = IF d = c THEN s ELSE reader[d]
  BY DEF SubInv, Turns
<1>2. \A d \in Clients : Stays(d)' => Stays(d) /\ (d = c => UNCHANGED <<cache, closed>>)
  BY <1>1 DEF Stays
<1>3. \A d \in Clients : Stays(d)' =>
        made'[d] <= 1 /\ cache'[d] = made'[d] /\ \A n \in Nat : <<d, n>> \notin closed'
  <2> SUFFICES ASSUME NEW d \in Clients, Stays(d)'
               PROVE  made'[d] <= 1 /\ cache'[d] = made'[d] /\ \A n \in Nat : <<d, n>> \notin closed'
    OBVIOUS
  <2>1. made[d] <= 1 /\ cache[d] = made[d] /\ \A n \in Nat : <<d, n>> \notin closed
    BY <1>2 DEF SubInv
  <2>2. CASE d = c
    BY <1>2, <2>1, <2>2
  <2>3. CASE d # c
    BY <2>1, <2>3
  <2> QED
    BY <2>2, <2>3
<1>4. \A r \in Handlers : WorksFor(h[r])'
  BY DEF SubInv, WorksFor
<1>5. \A d \in Clients : named'[d] <= made'[d] /\ cache'[d] <= made'[d]
  BY DEF SubInv
<1>6. \A ch \in Channels : \A t \in members'[ch] : t[2] > 0 /\ t[2] <= made'[t[1]]
  BY DEF SubInv
<1> QED
  BY <1>1, <1>3, <1>4, <1>5, <1>6 DEF SubInv

LEMMA MakesSubscription == ASSUME SubInv, NEW r \in Handlers, GetOrCreateSubscription(r) PROVE SubInv'
<1> DEFINE c == h[r].c
           n == IF Reusable(c) THEN cache[c] ELSE made[c] + 1
           o == [h[r] EXCEPT !.pc = "resolve", !.n = n]
<1>1. h[r] \in Job /\ c \in Clients
  BY DEF SubInv, GetOrCreateSubscription, At, Idle, Job
<1>2. n \in Nat /\ n > 0 /\ made'[c] \in Nat /\ made'[c] >= n /\ made'[c] >= made[c]
  BY <1>1 DEF SubInv, GetOrCreateSubscription, Reusable
<1>3. /\ made' \in [Clients -> Nat] /\ \A d \in Clients : d # c => made'[d] = made[d]
      /\ cache' \in [Clients -> Nat] /\ cache'[c] = n /\ \A d \in Clients : d # c => cache'[d] = cache[d]
      /\ named' \in [Clients -> Nat] /\ \A d \in Clients : named'[d] = named[d] \/ (d = c /\ named'[d] = n)
  BY <1>1, <1>2 DEF SubInv, GetOrCreateSubscription
<1>4. UNCHANGED <<reader, closed, members>>
  BY DEF GetOrCreateSubscription, index
<1>5. Stays(c) => made'[c] <= 1 /\ cache'[c] = made'[c]
  <2> SUFFICES ASSUME Stays(c) PROVE made'[c] <= 1 /\ cache'[c] = made'[c]
    OBVIOUS
  <2>1. made[c] <= 1 /\ cache[c] = made[c] /\ made[c] \in Nat /\ <<c, cache[c]>> \notin closed
    BY <1>1 DEF SubInv
  <2>2. CASE cache[c] = 0
    BY <1>1, <1>3, <2>1, <2>2 DEF SubInv, GetOrCreateSubscription, Reusable
  <2>3. CASE cache[c] # 0
    BY <1>1, <1>3, <2>1, <2>3 DEF SubInv, GetOrCreateSubscription, Reusable
  <2> QED
    BY <2>2, <2>3
<1>6. o \in Job /\ o.c = c /\ o.n = n /\ h' = [h EXCEPT ![r] = o]
  BY <1>1, <1>2 DEF Job, Places, GetOrCreateSubscription
<1> HIDE DEF c, n, o
<1>7. \A d \in Clients : made[d] <= made'[d]
  BY <1>2, <1>3 DEF SubInv
<1>8. \A q \in Handlers : h'[q] \in Job \cup {Idle} /\ WorksFor(h[q])'
  <2> SUFFICES ASSUME NEW q \in Handlers PROVE h'[q] \in Job \cup {Idle} /\ WorksFor(h[q])'
    OBVIOUS
  <2>1. CASE q = r
    <3>1. h'[q] = o
      BY <1>6, <2>1 DEF SubInv
    <3>2. o.n <= made'[o.c] /\ o.n > 0
      BY <1>2, <1>6
    <3> QED
      BY <1>6, <3>1, <3>2 DEF WorksFor
  <2>2. CASE q # r
    <3>1. h'[q] = h[q] /\ h[q] \in Job \cup {Idle}
      BY <1>6, <2>2 DEF SubInv
    <3>2. h[q] # Idle => h[q].c \in Clients /\ h[q].n \in Nat
      BY <3>1 DEF Job
    <3>3. h[q] # Idle => h[q].n <= made'[h[q].c]
      BY <1>3, <1>7, <3>1, <3>2 DEF SubInv, WorksFor
    <3> QED
      BY <3>1, <3>3 DEF SubInv, WorksFor
  <2> QED
    BY <2>1, <2>2
<1>9. h' \in [Handlers -> Job \cup {Idle}]
  BY <1>6, <1>8 DEF SubInv
<1>10. \A d \in Clients : named'[d] <= made'[d] /\ cache'[d] <= made'[d]
  <2> SUFFICES ASSUME NEW d \in Clients PROVE named'[d] <= made'[d] /\ cache'[d] <= made'[d]
    OBVIOUS
  <2>1. named[d] <= made[d] /\ cache[d] <= made[d] /\ named[d] \in Nat /\ made[d] \in Nat /\ made'[d] \in Nat
    BY <1>3 DEF SubInv
  <2> QED
    BY <1>2, <1>3, <1>7, <2>1
<1>11. \A d \in Clients : Stays(d)' =>
         made'[d] <= 1 /\ cache'[d] = made'[d] /\ \A k \in Nat : <<d, k>> \notin closed'
  BY <1>3, <1>4, <1>5 DEF SubInv, Stays
<1>12. \A ch \in Channels : \A s \in members[ch] : s[2] > 0 /\ s[2] <= made'[s[1]]
  <2> SUFFICES ASSUME NEW ch \in Channels, NEW s \in members[ch] PROVE s[2] > 0 /\ s[2] <= made'[s[1]]
    OBVIOUS
  <2>1. s[1] \in Clients /\ s[2] \in Nat /\ s[2] > 0 /\ s[2] <= made[s[1]]
    BY DEF SubInv
  <2> QED
    BY <1>3, <1>7, <2>1 DEF SubInv
<1> QED
  BY <1>3, <1>4, <1>8, <1>9, <1>10, <1>11, <1>12 DEF SubInv

\* The indexes take the subscription the handler has in hand, or give it up.
LEMMA Indexes ==
  ASSUME SubInv, NEW r \in Handlers, AddInserts(r) \/ Unsubscribe(r) PROVE SubInv'
<1>1. h[r] \in Job /\ h[r].n > 0 /\ h[r].n <= made[h[r].c]
  BY DEF SubInv, WorksFor, AddInserts, Unsubscribe, At, Idle, Places
<1>2. h[r].c \in Clients /\ h[r].ch \in Channels /\ h[r].n \in Nat
  BY <1>1 DEF Job
<1> DEFINE s == <<h[r].c, h[r].n>>  ch == h[r].ch
<1>3. s \in Clients \X Nat /\ s[1] = h[r].c /\ s[2] = h[r].n /\ ch \in Channels
  BY <1>2
<1>4. members' = [members EXCEPT ![ch] = @ \cup {s}] \/ members' = [members EXCEPT ![ch] = @ \ {s}]
  BY DEF AddInserts, Unsubscribe, AddToChannel, RemoveFromChannel, Sub
<1> HIDE DEF s, ch
<1>5. /\ members' \in [Channels -> SUBSET (Clients \X Nat)]
      /\ \A k \in Channels : \A t \in members'[k] : t \in members[k] \/ t = s
  BY <1>3, <1>4 DEF SubInv
<1>6. \A k \in Channels : \A t \in members'[k] : t[2] > 0 /\ t[2] <= made[t[1]]
  BY <1>1, <1>3, <1>5 DEF SubInv
<1>7. UNCHANGED <<reader, session, closed>>
  BY DEF AddInserts, Unsubscribe
<1> DEFINE o == IF At(r, "insert") THEN [h[r] EXCEPT !.pc = "listen"] ELSE Idle
<1>8. h' = [h EXCEPT ![r] = o] /\ WorksFor(o)
  <2>1. CASE AddInserts(r)
    <3>1. At(r, "insert") /\ Goes(r, "listen")
      BY <2>1 DEF AddInserts
    <3>2. o \in Job /\ o.c = h[r].c /\ o.n = h[r].n
      BY <1>1, <3>1 DEF Job, Places
    <3>3. h' = [h EXCEPT ![r] = o]
      BY <1>1, <3>1 DEF Goes, Job
    <3> HIDE DEF o
    <3> QED
      BY <1>1, <3>2, <3>3 DEF WorksFor
  <2>2. CASE Unsubscribe(r)
    BY <2>2 DEF Unsubscribe, At, Reply, WorksFor
  <2> QED
    BY <2>1, <2>2
<1> HIDE DEF o
<1>9. o \in Job \cup {Idle}
  BY <1>8 DEF WorksFor
<1>10. /\ h' \in [Handlers -> Job \cup {Idle}]
       /\ \A q \in Handlers : h'[q] = IF q = r THEN o ELSE h[q]
  BY <1>8, <1>9 DEF SubInv
<1>11. made' = made /\ named' = named /\ cache' = cache /\ reader' = reader /\ closed' = closed
  BY <1>7 DEF session
<1>12. \A q \in Handlers : WorksFor(h[q])'
  BY <1>8, <1>10, <1>11 DEF SubInv, WorksFor
<1>13. \A c \in Clients : Stays(c)' <=> Stays(c)
  BY <1>11 DEF Stays
<1> QED
  BY <1>5, <1>6, <1>10, <1>11, <1>12, <1>13 DEF SubInv

LEMMA SubscribeKeeps ==
  ASSUME SubInv, NEW r \in Handlers, SubscribeMessage(r) \/ UnsubscribeMessage(r) PROVE SubInv'
<1>1. CASE GetOrCreateSubscription(r)
  BY <1>1, MakesSubscription
<1>2. CASE AddInserts(r) \/ Unsubscribe(r)
  BY <1>2, Indexes
<1>3. CASE FindChannel(r) \/ CreateChannel(r) \/ AlreadySubscribed(r) \/ AddChecksClosed(r)
             \/ EnsureChannelListening(r)
  <2>1. h[r].pc \in Places \ {"session", "find"}
    BY <1>3 DEF FindChannel, CreateChannel, AlreadySubscribed, AddChecksClosed, EnsureChannelListening,
                At, Places
  <2>2. h' = [h EXCEPT ![r] = Idle] \/ \E pc \in Places : Goes(r, pc)
    BY <1>3 DEF FindChannel, CreateChannel, AlreadySubscribed, AddChecksClosed, EnsureChannelListening,
                Reply, Places
  <2>3. UNCHANGED <<reader, session, closed, members>>
    BY <1>3 DEF FindChannel, CreateChannel, AlreadySubscribed, AddChecksClosed, EnsureChannelListening,
                index
  <2> QED
    BY <2>1, <2>2, <2>3, HandlerSteps
<1>4. CASE FindSubscription(r)
  <2>1. UNCHANGED <<reader, session, closed, members>>
    BY <1>4 DEF FindSubscription, index
  <2>2. CASE h' = [h EXCEPT ![r] = Idle]
    BY <2>1, <2>2, HandlerGoes DEF WorksFor
  <2>3. CASE h' # [h EXCEPT ![r] = Idle]
    <3> DEFINE n == named[h[r].c]
               o == [h[r] EXCEPT !.pc = "remove", !.n = n]
    <3>1. h[r] \in Job /\ h[r].c \in Clients
      BY <1>4 DEF FindSubscription, At, SubInv, Job, Idle
    <3>2. n # 0 /\ h' = [h EXCEPT ![r] = o]
      BY <1>4, <2>3 DEF FindSubscription, Reply
    <3>3. n \in Nat /\ n > 0 /\ n <= made[h[r].c]
      BY <3>1, <3>2 DEF SubInv
    <3>4. o \in Job /\ o.c = h[r].c /\ o.n = n
      BY <3>1, <3>3 DEF Job, Places
    <3> HIDE DEF n, o
    <3> QED
      BY <2>1, <3>2, <3>3, <3>4, HandlerGoes DEF WorksFor
  <2> QED
    BY <2>2, <2>3
<1> QED
  BY <1>1, <1>2, <1>3, <1>4 DEF SubscribeMessage, Subscribe, UnsubscribeMessage

LEMMA ConnectionKeeps ==
  ASSUME SubInv, NEW c \in Clients, HandleConnection(c) \/ Disconnection(c) PROVE SubInv'
<1>1. \A ch \in Channels : members[ch] \subseteq members[ch]
  OBVIOUS
<1>2. members \in [Channels -> SUBSET (Clients \X Nat)] /\ cache \in [Clients -> Nat]
  BY DEF SubInv
<1>3. CASE HandleConnection(c)
  BY <1>1, <1>2, <1>3, ReaderSteps DEF HandleConnection, Turns, session, index
<1>4. CASE HandleDisconnection(c)
  BY <1>1, <1>2, <1>4, ReaderSteps DEF HandleDisconnection, session, index
<1>5. CASE LookupSubscription(c)
  BY <1>1, <1>2, <1>5, ReaderSteps DEF LookupSubscription, session, index
<1>6. CASE MarkClosed(c)
  <2>1. ~Stays(c) /\ \A d \in Clients \ {c}, n \in Nat : <<d, n>> \in closed' => <<d, n>> \in closed
    BY <1>6 DEF MarkClosed, Stays, Named
  <2> QED
    BY <1>1, <1>2, <1>6, <2>1, ReaderSteps DEF MarkClosed, session, index
<1>7. CASE RemoveSubscriptionFromAll(c)
  <2>1. ~Stays(c)
    BY <1>7 DEF RemoveSubscriptionFromAll, Stays
  <2>2. /\ members' \in [Channels -> SUBSET (Clients \X Nat)]
        /\ \A ch \in Channels : members'[ch] \subseteq members[ch]
    BY <1>2, <1>7 DEF RemoveSubscriptionFromAll
  <2> QED
    BY <1>2, <1>7, <2>1, <2>2, ReaderSteps DEF RemoveSubscriptionFromAll, session
<1>8. CASE UnregisterConnection(c)
  <2>1. ~Stays(c)
    BY <1>8 DEF UnregisterConnection, Stays
  <2>2. cache' \in [Clients -> Nat] /\ \A d \in Clients : cache'[d] = cache[d] \/ (d = c /\ cache'[d] = 0)
    BY <1>2, <1>8 DEF UnregisterConnection
  <2> QED
    BY <1>1, <1>2, <1>8, <2>1, <2>2, ReaderSteps DEF UnregisterConnection, index
<1> QED
  BY <1>3, <1>4, <1>5, <1>6, <1>7, <1>8 DEF Disconnection, CloseSubscription

LEMMA SubStep ==
  ASSUME SubInv, [Next]_vars
  PROVE  SubInv'
<1>1. CASE \E r \in Handlers : SubscribeMessage(r) \/ UnsubscribeMessage(r)
  BY <1>1, SubscribeKeeps
<1>2. CASE \E c \in Clients : HandleConnection(c) \/ Disconnection(c)
  BY <1>2, ConnectionKeeps
<1>3. ASSUME NEW r \in Handlers, NEW c \in Clients, NEW ch \in Channels, ReadMessage(r, c, ch)
      PROVE  SubInv'
  <2>1. PICK pc \in {"session", "find"} :
          h' = [h EXCEPT ![r] = [pc |-> pc, c |-> c, ch |-> ch, n |-> 0]]
    BY <1>3 DEF ReadMessage
  <2>2. [pc |-> pc, c |-> c, ch |-> ch, n |-> 0] \in Job /\ 0 <= made[c]
    BY DEF Job, Places, SubInv
  <2>3. WorksFor([pc |-> pc, c |-> c, ch |-> ch, n |-> 0])
    BY <2>2 DEF WorksFor
  <2> QED
    BY <1>3, <2>1, <2>3, HandlerGoes DEF ReadMessage, index
<1>4. CASE UNCHANGED vars
  BY <1>4 DEF vars, session, index, SubInv, WorksFor, Stays
<1> QED
  BY <1>1, <1>2, <1>3, <1>4 DEF Next

\* While a client is read it has one subscription in the index, for any number
\* of clients, channels and messages in flight: the session's cache under its
\* lock gives every goroutine of a client the same one.
THEOREM OneSubscriptionAlways == Spec => []OneSubscription
<1> QED
  BY SubStarts, SubStep, SubInvGivesOne, PTL DEF Spec


-----------------------------------------------------------------------------
(* Who has left, and what clients are told *)

\* The two indexes agree, and a channel with members is there.
Linked ==
  /\ chansOf \in [Subs -> SUBSET Channels]
  /\ \A ch \in Channels, s \in Subs : s \in members[ch] <=> ch \in chansOf[s]
  /\ \A ch \in Channels : members[ch] # {} => ch \in channels
  /\ \A r \in Handlers : h[r].pc \in {"check", "add", "insert"} => h[r].ch \in channels
  /\ \A c \in Clients : made[c] <= SubBound
  /\ \A c \in Clients : reader[c] \in {"lookup", "close", "empty"} => named[c] > 0

\* A client has the id of its only subscription while it is read, and while it
\* leaves with no message in flight.
OneAtMost(c) == made[c] <= 1 /\ named[c] = made[c]
LeavesAlone(c) == ~Stays(c) /\ c \notin overtaken
Left ==
  /\ \A c \in Clients : Stays(c) \/ LeavesAlone(c) => OneAtMost(c)
  /\ \A c \in Clients : LeavesAlone(c) =>
       /\ Busy(c) = {}
       /\ reader[c] \in {"lookup", "close", "empty"} => made[c] = 1
       /\ reader[c] \in {"leave", "done"} => \A ch \in Channels : \A s \in members[ch] : s[1] # c

\* What a client was told about a channel, when its messages never overlapped
\* and the broker never failed there.
On(c, ch) == <<c, 1>> \in members[ch]
Works(r, c, ch) == h[r] # Idle /\ h[r].c = c /\ h[r].ch = ch
Truth(c, ch) ==
  IF told[c][ch] = "subscribed" THEN On(c, ch) /\ ch \in listening ELSE ~On(c, ch)
Orderly(c, ch) == Stays(c) /\ <<c, ch>> \notin raced /\ ch \notin deaf
ToldInOrder(c, ch) ==
  /\ \A q, r \in Handlers : Works(q, c, ch) /\ Works(r, c, ch) => q = r
  /\ \A r \in Handlers : Works(r, c, ch) =>
       /\ h[r].pc = "listen" => On(c, ch)
       /\ h[r].pc \in {"create", "add", "insert"} => ~On(c, ch)
  /\ (\A r \in Handlers : Works(r, c, ch) => h[r].pc # "listen") => Truth(c, ch)
States == {"nothing", "subscribed", "unsubscribed", "refused"}
Told ==
  /\ told \in [Clients -> [Channels -> States]]
  /\ \A c \in Clients, ch \in Channels : Orderly(c, ch) => ToldInOrder(c, ch)

IndexInv == SubInv /\ Linked /\ Left /\ Told

LEMMA InHand ==
  ASSUME SubInv, NEW r \in Handlers, h[r].pc # "idle"
  PROVE  /\ h[r] \in Job /\ h[r] # Idle /\ h[r].c \in Clients /\ h[r].ch \in Channels
         /\ h[r].pc \notin {"session", "find"} =>
              /\ h[r].n \in Nat /\ h[r].n > 0 /\ h[r].n <= made[h[r].c]
              /\ Stays(h[r].c) => h[r].n = 1
         /\ Stays(h[r].c) => Sub(r) \notin closed
<1>1. h[r] \in Job /\ h[r] # Idle
  BY DEF SubInv, Idle
<1>2. h[r].c \in Clients /\ h[r].ch \in Channels /\ h[r].n \in Nat
  BY <1>1 DEF Job
<1>3. h[r].n <= made[h[r].c] /\ (h[r].pc \notin {"session", "find"} => h[r].n > 0)
  BY <1>1 DEF SubInv, WorksFor
<1>4. ASSUME Stays(h[r].c) PROVE made[h[r].c] \in Nat /\ made[h[r].c] <= 1 /\ Sub(r) \notin closed
  BY <1>2, <1>4 DEF SubInv, Sub
<1> QED BY <1>1, <1>2, <1>3, <1>4

\* A handler goes on with its message, or is through with it.
Meets(pc, c, ch) ==
  /\ pc = "listen" => On(c, ch)
  /\ pc \in {"create", "add", "insert"} => ~On(c, ch)
  /\ pc # "listen" => Truth(c, ch)

\* The step is about one client and one channel.
OthersStay(c, ch) ==
  \A d \in Clients, k \in Channels : d # c \/ k # ch =>
    /\ told'[d][k] = told[d][k]
    /\ <<d, 1>> \in members'[k] <=> <<d, 1>> \in members[k]

LEMMA HandlerTold ==
  ASSUME IndexInv, NEW r \in Handlers, NEW c \in Clients, NEW ch \in Channels, Works(r, c, ch),
         NEW o, h' = [h EXCEPT ![r] = o], o = Idle \/ (o \in Job /\ o.c = c /\ o.ch = ch),
         reader' = reader, raced' = raced, deaf \subseteq deaf', listening \subseteq listening',
         told' \in [Clients -> [Channels -> States]],
         OthersStay(c, ch),
         Orderly(c, ch)' => Meets(o.pc, c, ch)'
  PROVE  Told'
<1>1. \A q \in Handlers : h'[q] = IF q = r THEN o ELSE h[q]
  BY DEF IndexInv, SubInv
<1>2. ASSUME NEW d \in Clients, NEW k \in Channels, Orderly(d, k)'
      PROVE  ToldInOrder(d, k)'
  <2>1. Orderly(d, k)
    BY <1>2 DEF Orderly, Stays
  <2>2. ToldInOrder(d, k)
    BY <2>1 DEF IndexInv, Told
  <2>3. \A q \in Handlers : Works(q, d, k)' => Works(q, d, k)
    BY <1>1 DEF Works
  <2>4. CASE d # c \/ k # ch
    <3>1. \A q \in Handlers : Works(q, d, k) => q # r
      BY <2>4 DEF Works
    <3>2. \A q \in Handlers : Works(q, d, k) => Works(q, d, k)' /\ h'[q] = h[q]
      BY <1>1, <3>1 DEF Works
    <3>3. On(d, k)' <=> On(d, k)
      BY <2>4 DEF On, OthersStay
    <3>4. Truth(d, k) => Truth(d, k)'
      BY <2>4, <3>3 DEF Truth, OthersStay
    <3> QED BY <2>2, <2>3, <3>2, <3>3, <3>4 DEF ToldInOrder
  <2>5. CASE d = c /\ k = ch
    <3>1. \A q \in Handlers : Works(q, d, k)' => q = r
      BY <2>2, <2>3, <2>5 DEF ToldInOrder
    <3>2. o # Idle => Works(r, d, k)'
      BY <1>1, <2>5 DEF Works
    <3>3. h'[r] = o /\ Idle.pc # "listen"
      BY <1>1 DEF Idle
    <3>4. (\A q \in Handlers : Works(q, d, k)' => h'[q].pc # "listen") => o.pc # "listen"
      BY <3>2, <3>3
    <3> QED BY <1>2, <2>5, <3>1, <3>3, <3>4 DEF ToldInOrder, Meets
  <2> QED BY <2>4, <2>5
<1> QED BY <1>2 DEF Told

LEMMA HandlerLeft ==
  ASSUME IndexInv, NEW r \in Handlers, NEW c \in Clients, NEW ch \in Channels, Works(r, c, ch),
         NEW o, h' = [h EXCEPT ![r] = o], o = Idle \/ (o \in Job /\ o.c = c /\ o.ch = ch),
         reader' = reader, overtaken' = overtaken,
         \A d \in Clients : d # c => made'[d] = made[d] /\ named'[d] = named[d],
         \A k \in Channels : \A s \in members'[k] : s[1] # c => s \in members[k],
         Stays(c) => OneAtMost(c)'
  PROVE  Left'
<1>1. \A q \in Handlers : h'[q] = IF q = r THEN o ELSE h[q]
  BY DEF IndexInv, SubInv
<1>2. \A d \in Clients : Busy(d)' \subseteq Busy(d)
  BY <1>1 DEF Busy, Works
<1>3. ~LeavesAlone(c)
  BY DEF IndexInv, Left, Busy, Works
<1>4. \A d \in Clients : (Stays(d)' <=> Stays(d)) /\ (LeavesAlone(d)' <=> LeavesAlone(d))
  BY DEF Stays, LeavesAlone
<1>5. ASSUME NEW d \in Clients, d # c
      PROVE  OneAtMost(d) => OneAtMost(d)'
  BY <1>5 DEF OneAtMost
<1>6. ASSUME NEW d \in Clients, Stays(d)' \/ LeavesAlone(d)' PROVE OneAtMost(d)'
  BY <1>3, <1>4, <1>5, <1>6 DEF IndexInv, Left
<1>7. ASSUME NEW d \in Clients, LeavesAlone(d)'
      PROVE  /\ Busy(d)' = {}
             /\ reader'[d] \in {"lookup", "close", "empty"} => made'[d] = 1
             /\ reader'[d] \in {"leave", "done"} => \A k \in Channels : \A s \in members'[k] : s[1] # d
  <2>1. LeavesAlone(d) /\ d # c
    BY <1>3, <1>4, <1>7
  <2> QED BY <1>2, <2>1 DEF IndexInv, Left
<1> QED BY <1>6, <1>7 DEF Left

\* What is known of a handler whose client's messages about the channel never
\* overlapped.
LEMMA OrderlyGives ==
  ASSUME IndexInv, NEW r \in Handlers, NEW c \in Clients, NEW ch \in Channels, Works(r, c, ch),
         Orderly(c, ch)
  PROVE  /\ h[r].pc = "listen" => On(c, ch)
         /\ h[r].pc \in {"create", "add", "insert"} => ~On(c, ch)
         /\ h[r].pc # "listen" => Truth(c, ch)
         /\ h[r].pc \notin {"session", "find"} => Sub(r) = <<c, 1>>
         /\ Sub(r) \notin closed /\ OneAtMost(c) /\ made[c] \in Nat
<1>1. ToldInOrder(c, ch) /\ Stays(c)
  BY DEF IndexInv, Told, Orderly
<1>2. \A q \in Handlers : Works(q, c, ch) => q = r
  BY <1>1 DEF ToldInOrder
<1>3. /\ h[r].pc = "listen" => On(c, ch)
      /\ h[r].pc \in {"create", "add", "insert"} => ~On(c, ch)
      /\ h[r].pc # "listen" => Truth(c, ch)
  BY <1>1, <1>2 DEF ToldInOrder
<1>4. h[r].c = c /\ h[r].pc # "idle"
  BY DEF Works, IndexInv, SubInv, Idle, Job, Places
<1>5. /\ h[r].pc \notin {"session", "find"} => h[r].n = 1
      /\ Sub(r) \notin closed
  BY <1>1, <1>4, InHand DEF IndexInv
<1>6. OneAtMost(c) /\ made[c] \in Nat
  BY <1>1 DEF IndexInv, Left, SubInv
<1> QED BY <1>3, <1>4, <1>5, <1>6 DEF Sub

\* A step that leaves the indexes and the sessions alone.
LEMMA QuietStep ==
  ASSUME IndexInv, NEW r \in Handlers, NEW c \in Clients, NEW ch \in Channels, Works(r, c, ch),
         NEW o, h' = [h EXCEPT ![r] = o], o = Idle \/ (o \in Job /\ o.c = c /\ o.ch = ch),
         UNCHANGED <<reader, made, named, members, chansOf, raced, overtaken>>,
         deaf \subseteq deaf', listening \subseteq listening', channels \subseteq channels',
         o.pc \in {"check", "add", "insert"} => ch \in channels',
         told' = told \/ \E s \in States : told' = [told EXCEPT ![c][ch] = s],
         Orderly(c, ch) /\ ch \notin deaf' =>
           /\ o.pc = "listen" => On(c, ch)
           /\ o.pc \in {"create", "add", "insert"} => ~On(c, ch)
           /\ o.pc # "listen" => Truth(c, ch)'
  PROVE  Linked' /\ Left' /\ Told'
<1>1. \A q \in Handlers : h'[q] = IF q = r THEN o ELSE h[q]
  BY DEF IndexInv, SubInv
<1>2. Linked'
  <2>1. \A q \in Handlers : h'[q].pc \in {"check", "add", "insert"} => h'[q].ch \in channels'
    <3>1. o.pc \in {"check", "add", "insert"} => o.ch \in channels'
      BY DEF Idle
    <3> QED BY <1>1, <3>1 DEF IndexInv, Linked
  <2>2. \A k \in Channels : members[k] # {} => k \in channels'
    BY DEF IndexInv, Linked
  <2> QED BY <2>1, <2>2 DEF IndexInv, Linked
<1>3. Left'
  <2>1. Stays(c) => OneAtMost(c)'
    BY DEF IndexInv, Left, OneAtMost
  <2>2. \A k \in Channels : \A s \in members'[k] : s[1] # c => s \in members[k]
    OBVIOUS
  <2> QED BY <2>1, <2>2, HandlerLeft
<1>4. Told'
  <2>1. /\ told' \in [Clients -> [Channels -> States]]
        /\ \A d \in Clients, k \in Channels : d # c \/ k # ch => told'[d][k] = told[d][k]
    <3>1. told \in [Clients -> [Channels -> States]]
      BY DEF IndexInv, Told
    <3> QED BY <3>1
  <2>2. \A d \in Clients, k \in Channels : <<d, 1>> \in members'[k] <=> <<d, 1>> \in members[k]
    OBVIOUS
  <2>3. Orderly(c, ch)' => Orderly(c, ch) /\ ch \notin deaf'
    BY DEF Orderly, Stays
  <2>4. On(c, ch)' <=> On(c, ch)
    BY DEF On
  <2>5. Orderly(c, ch)' => Meets(o.pc, c, ch)'
    BY <2>3, <2>4 DEF Meets
  <2>6. OthersStay(c, ch)
    BY <2>1, <2>2 DEF OthersStay
  <2>7. reader' = reader /\ raced' = raced
    OBVIOUS
  <2> QED BY <2>1, <2>5, <2>6, <2>7, HandlerTold
<1> QED BY <1>2, <1>3, <1>4

\* The answer of a quiet step.
LEMMA QuietReply ==
  ASSUME IndexInv, NEW r \in Handlers, NEW c \in Clients, NEW ch \in Channels, Works(r, c, ch),
         NEW s \in States, Reply(r, s),
         UNCHANGED <<reader, made, named, closed, members, chansOf, raced, overtaken>>,
         deaf \subseteq deaf', listening \subseteq listening', channels \subseteq channels',
         Orderly(c, ch) /\ ch \notin deaf' =>
           IF s = "subscribed" THEN On(c, ch) /\ ch \in listening' ELSE ~On(c, ch)
  PROVE  Linked' /\ Left' /\ Told'
<1>1. h' = [h EXCEPT ![r] = Idle]
  BY DEF Reply
<1>2. h[r].c = c /\ h[r].ch = ch /\ told \in [Clients -> [Channels -> States]]
  BY DEF Works, IndexInv, Told
<1>3. told' = [told EXCEPT ![c][ch] = IF Sub(r) \in closed THEN told[c][ch] ELSE s]
  BY <1>2 DEF Reply
<1>4. \E x \in States : told' = [told EXCEPT ![c][ch] = x]
  <2>1. told[c][ch] \in States
    BY <1>2
  <2> QED BY <1>3, <2>1
<1>5. ASSUME Orderly(c, ch), ch \notin deaf' PROVE Truth(c, ch)'
  <2>1. told'[c][ch] = s
    BY <1>2, <1>3, <1>5, OrderlyGives
  <2> QED BY <1>5, <2>1 DEF Truth, On
<1> QED BY <1>1, <1>4, <1>5, QuietStep DEF Idle

\* A quiet step to another place.
Moves(r, pc) ==
  \E o \in Job : o.c = h[r].c /\ o.ch = h[r].ch /\ o.pc = pc /\ h' = [h EXCEPT ![r] = o]

LEMMA QuietGoes ==
  ASSUME IndexInv, NEW r \in Handlers, NEW c \in Clients, NEW ch \in Channels, Works(r, c, ch),
         NEW pc \in Places \ {"listen"}, Moves(r, pc),
         UNCHANGED <<reader, made, named, members, chansOf, raced, overtaken, deaf, listening, told>>,
         channels \subseteq channels',
         pc \in {"check", "add", "insert"} => ch \in channels', h[r].pc # "listen",
         pc \in {"create", "add", "insert"} => (Orderly(c, ch) => ~On(c, ch))
  PROVE  Linked' /\ Left' /\ Told'
<1>1. PICK o \in Job : o.c = c /\ o.ch = ch /\ o.pc = pc /\ h' = [h EXCEPT ![r] = o]
  BY DEF Moves, Works
<1>2. Orderly(c, ch) => Truth(c, ch)'
  BY OrderlyGives DEF Truth, On
<1> QED BY <1>1, <1>2, QuietStep

LEMMA QuietKeeps ==
  ASSUME IndexInv, NEW r \in Handlers, NEW c \in Clients, NEW ch \in Channels, Works(r, c, ch),
         \/ FindChannel(r) \/ CreateChannel(r) \/ AlreadySubscribed(r) \/ AddChecksClosed(r)
         \/ EnsureChannelListening(r) \/ FindSubscription(r)
  PROVE  Linked' /\ Left' /\ Told'
<1>1. /\ h[r] \in Job /\ h[r].c = c /\ h[r].ch = ch
      /\ \A pc \in Places : Goes(r, pc) => Moves(r, pc)
  <2>1. h[r] \in Job /\ h[r].c = c /\ h[r].ch = ch
    BY DEF Works, IndexInv, SubInv
  <2>2. ASSUME NEW pc \in Places, Goes(r, pc) PROVE Moves(r, pc)
    <3>1. [h[r] EXCEPT !.pc = pc] \in Job
      BY <2>1 DEF Job
    <3>2. h' = [h EXCEPT ![r] = [h[r] EXCEPT !.pc = pc]]
      BY <2>2 DEF Goes
    <3> QED BY <2>1, <3>1, <3>2 DEF Moves, Job
  <2> QED BY <2>1, <2>2
<1>2. UNCHANGED <<reader, made, named, closed, members, chansOf, raced, overtaken>>
  BY DEF FindChannel, CreateChannel, AlreadySubscribed, AddChecksClosed, EnsureChannelListening,
         FindSubscription, session, index, history
<1>3. CASE FindChannel(r)
  <2>1. UNCHANGED <<deaf, listening, channels>> /\ h[r].pc = "resolve"
    BY <1>3 DEF FindChannel, broker, At
  <2>2. CASE Sub(r) \in closed
    <3>1. Reply(r, "refused")
      BY <1>3, <2>2 DEF FindChannel
    <3>2. ~Orderly(c, ch)
      BY <2>2, OrderlyGives
    <3> QED BY <1>2, <2>1, <3>1, <3>2, QuietReply DEF States
  <2>3. CASE Sub(r) \notin closed
    <3> DEFINE pc == IF ch \in channels THEN "check" ELSE "create"
    <3>1. Goes(r, pc) /\ told' = told /\ pc \in Places \ {"listen"}
      BY <1>1, <1>3, <2>3 DEF FindChannel, Places
    <3>2. pc \in {"create", "add", "insert"} => (Orderly(c, ch) => ~On(c, ch))
      BY DEF IndexInv, Linked, On
    <3>3. pc \in {"check", "add", "insert"} => ch \in channels
      OBVIOUS
    <3> HIDE DEF pc
    <3>4. Moves(r, pc)
      BY <1>1, <3>1
    <3> QED BY <1>2, <2>1, <3>1, <3>2, <3>3, <3>4, QuietGoes
  <2> QED BY <2>2, <2>3
<1>4. CASE CreateChannel(r)
  <2>1. UNCHANGED <<deaf, listening>> /\ h[r].pc = "create" /\ channels' = channels \cup {ch}
    BY <1>1, <1>4 DEF CreateChannel, At
  <2>2. CASE Goes(r, "check") /\ UNCHANGED told
    <3>1. Moves(r, "check") /\ told' = told
      BY <1>1, <2>2 DEF Places
    <3> QED BY <1>2, <2>1, <3>1, QuietGoes DEF Places
  <2>3. CASE Reply(r, "refused")
    <3>1. Orderly(c, ch) => ~On(c, ch)
      BY <2>1, OrderlyGives
    <3> QED BY <1>2, <2>1, <2>3, <3>1, QuietReply DEF States
  <2> QED BY <1>4, <2>2, <2>3 DEF CreateChannel
<1>5. CASE AlreadySubscribed(r)
  <2>1. UNCHANGED <<deaf, listening, channels>> /\ h[r].pc = "check"
    BY <1>5 DEF AlreadySubscribed, broker, At
  <2>2. Sub(r) \in Subs
    <3>1. /\ h[r].c \in Clients /\ h[r].n \in Nat /\ h[r].n > 0 /\ h[r].n <= made[h[r].c]
      BY <2>1, InHand DEF IndexInv
    <3>2. made[h[r].c] <= SubBound /\ made[h[r].c] \in Nat /\ SubBound \in Nat
      BY <3>1, SubscriptionsAssumption DEF IndexInv, Linked, SubInv
    <3>3. h[r].n \in 1..SubBound
      BY <3>1, <3>2
    <3> QED BY <3>1, <3>3 DEF Sub, Subs
  <2>3. ch \in chansOf[Sub(r)] <=> Sub(r) \in members[ch]
    BY <2>2 DEF IndexInv, Linked
  <2>4. Orderly(c, ch) => (On(c, ch) <=> ch \in chansOf[Sub(r)])
    BY <2>1, <2>3, OrderlyGives DEF On
  <2>5. CASE ch \in chansOf[Sub(r)]
    <3>1. Reply(r, "subscribed")
      BY <1>1, <1>5, <2>5 DEF AlreadySubscribed
    <3>2. Orderly(c, ch) => On(c, ch) /\ ch \in listening
      BY <2>1, <2>4, <2>5, OrderlyGives DEF Truth
    <3> QED BY <1>2, <2>1, <3>1, <3>2, QuietReply DEF States
  <2>6. CASE ch \notin chansOf[Sub(r)]
    <3>1. Goes(r, "add") /\ told' = told
      BY <1>1, <1>5, <2>6 DEF AlreadySubscribed
    <3>2. ch \in channels
      BY <1>1, <2>1 DEF IndexInv, Linked
    <3>3. Moves(r, "add") /\ (Orderly(c, ch) => ~On(c, ch))
      BY <1>1, <2>4, <2>6, <3>1 DEF Places
    <3> QED BY <1>2, <2>1, <3>1, <3>2, <3>3, QuietGoes DEF Places
  <2> QED BY <2>5, <2>6
<1>6. CASE AddChecksClosed(r)
  <2>1. UNCHANGED <<deaf, listening, channels>> /\ h[r].pc = "add"
    BY <1>6 DEF AddChecksClosed, broker, At
  <2>2. CASE Sub(r) \in closed
    <3>1. Reply(r, "refused")
      BY <1>6, <2>2 DEF AddChecksClosed
    <3>2. ~Orderly(c, ch)
      BY <2>2, OrderlyGives
    <3> QED BY <1>2, <2>1, <3>1, <3>2, QuietReply DEF States
  <2>3. CASE Sub(r) \notin closed
    <3>1. Goes(r, "insert") /\ told' = told
      BY <1>6, <2>3 DEF AddChecksClosed
    <3>2. ch \in channels
      BY <1>1, <2>1 DEF IndexInv, Linked
    <3>3. Orderly(c, ch) => ~On(c, ch)
      BY <2>1, OrderlyGives
    <3>4. Moves(r, "insert")
      BY <1>1, <3>1 DEF Places
    <3> QED BY <1>2, <2>1, <3>1, <3>2, <3>3, <3>4, QuietGoes DEF Places
  <2> QED BY <2>2, <2>3
<1>7. CASE EnsureChannelListening(r)
  <2>1. h[r].pc = "listen" /\ channels' = channels
    BY <1>7 DEF EnsureChannelListening, At
  <2>2. CASE /\ listening' = listening \cup {ch} /\ deaf' = deaf /\ Reply(r, "subscribed")
    <3>1. Orderly(c, ch) => On(c, ch)
      BY <2>1, OrderlyGives
    <3> QED BY <1>2, <2>1, <2>2, <3>1, QuietReply DEF States
  <2>3. CASE /\ listening' = listening /\ deaf' = deaf \cup {ch} /\ Reply(r, "refused")
    BY <1>2, <2>1, <2>3, QuietReply DEF States
  <2> QED BY <1>1, <1>7, <2>2, <2>3 DEF EnsureChannelListening
<1>8. CASE FindSubscription(r)
  <2>1. UNCHANGED <<deaf, listening, channels>> /\ h[r].pc = "find"
    BY <1>8 DEF FindSubscription, broker, At
  <2>2. CASE named[c] # 0 /\ Indexed(<<c, named[c]>>)
    <3>1. h' = [h EXCEPT ![r] = [h[r] EXCEPT !.pc = "remove", !.n = named[c]]] /\ told' = told
      BY <1>1, <1>8, <2>2 DEF FindSubscription
    <3>2. named[c] \in Nat
      BY DEF IndexInv, SubInv
    <3>3. Moves(r, "remove")
      <4>1. [h[r] EXCEPT !.pc = "remove", !.n = named[c]] \in Job
        BY <1>1, <3>2 DEF Job, Places
      <4> QED BY <1>1, <3>1, <4>1 DEF Moves, Job
    <3> QED BY <1>2, <2>1, <3>1, <3>3, QuietGoes DEF Places
  <2>3. CASE ~(named[c] # 0 /\ Indexed(<<c, named[c]>>))
    <3>1. Reply(r, "refused")
      BY <1>1, <1>8, <2>3 DEF FindSubscription
    <3>2. Orderly(c, ch) => ~On(c, ch)
      <4> SUFFICES ASSUME Orderly(c, ch), On(c, ch) PROVE FALSE
        OBVIOUS
      <4>1. named[c] = made[c] /\ made[c] \in Nat /\ made[c] <= 1
        BY OrderlyGives DEF OneAtMost
      <4>2. 1 <= made[c]
        <5>1. <<c, 1>>[2] <= made[<<c, 1>>[1]]
          BY DEF On, IndexInv, SubInv
        <5> QED BY <5>1
      <4>3. named[c] = 1
        BY <4>1, <4>2
      <4> QED BY <2>3, <4>3 DEF On, Indexed
    <3> QED BY <1>2, <2>1, <3>1, <3>2, QuietReply DEF States
  <2> QED BY <2>2, <2>3
<1> QED BY <1>3, <1>4, <1>5, <1>6, <1>7, <1>8
\* The session's subscription is made at most once while its client is read.
LEMMA SessionKeeps ==
  ASSUME IndexInv, NEW r \in Handlers, NEW c \in Clients, NEW ch \in Channels, Works(r, c, ch),
         GetOrCreateSubscription(r)
  PROVE  Linked' /\ Left' /\ Told'
<1> DEFINE n == IF Reusable(c) THEN cache[c] ELSE made[c] + 1
<1>1. h[r] \in Job /\ h[r].c = c /\ h[r].ch = ch /\ h[r].pc = "session"
  BY DEF Works, IndexInv, SubInv, GetOrCreateSubscription, At
<1>2. /\ made[c] \in Nat /\ named[c] \in Nat /\ cache[c] \in Nat
      /\ made \in [Clients -> Nat] /\ named \in [Clients -> Nat] /\ SubBound \in Nat
      /\ made[c] <= SubBound
  BY SubscriptionsAssumption DEF IndexInv, SubInv, Linked
<1>3. n \in Nat /\ n > 0 /\ n <= SubBound
  BY <1>1, <1>2 DEF GetOrCreateSubscription, Reusable
<1>4. /\ made' = [made EXCEPT ![c] = IF Reusable(c) THEN made[c] ELSE n]
      /\ named' = [named EXCEPT ![c] = IF named[c] = 0 THEN n ELSE named[c]]
      /\ UNCHANGED <<reader, closed, members, chansOf, channels, listening, deaf, told, raced, overtaken>>
  BY <1>1 DEF GetOrCreateSubscription, index, broker, history
<1>5. PICK o \in Job : o.c = c /\ o.ch = ch /\ o.pc = "resolve" /\ h' = [h EXCEPT ![r] = o]
  <2>1. [h[r] EXCEPT !.pc = "resolve", !.n = n] \in Job
    BY <1>1, <1>3 DEF Job, Places
  <2>2. h' = [h EXCEPT ![r] = [h[r] EXCEPT !.pc = "resolve", !.n = n]]
    BY <1>1 DEF GetOrCreateSubscription
  <2> QED BY <1>1, <2>1, <2>2 DEF Job
<1>6. Stays(c) => OneAtMost(c)'
  <2> SUFFICES ASSUME Stays(c) PROVE OneAtMost(c)'
    OBVIOUS
  <2>1. made[c] <= 1 /\ cache[c] = made[c] /\ named[c] = made[c] /\ <<c, cache[c]>> \notin closed
    BY <1>2 DEF IndexInv, SubInv, Left, OneAtMost
  <2>2. CASE made[c] = 0
    <3>1. n = 1 /\ ~Reusable(c)
      BY <2>1, <2>2 DEF Reusable
    <3>2. made'[c] = 1 /\ named'[c] = 1
      BY <1>2, <1>4, <2>1, <2>2, <3>1
    <3> QED BY <3>2 DEF OneAtMost
  <2>3. CASE made[c] # 0
    <3>1. made[c] = 1 /\ Reusable(c)
      BY <1>2, <2>1, <2>3 DEF Reusable
    <3>2. made'[c] = 1 /\ named'[c] = 1
      BY <1>2, <1>4, <2>1, <3>1
    <3> QED BY <3>2 DEF OneAtMost
  <2> QED BY <2>2, <2>3
<1>7. /\ \A d \in Clients : d # c => made'[d] = made[d] /\ named'[d] = named[d]
      /\ made'[c] <= SubBound /\ (named[c] > 0 => named'[c] > 0)
  BY <1>2, <1>3, <1>4
<1> HIDE DEF n
<1>8. \A q \in Handlers : h'[q] = IF q = r THEN o ELSE h[q]
  BY <1>5 DEF IndexInv, SubInv
<1>9. Linked'
  <2>1. \A q \in Handlers : h'[q].pc \in {"check", "add", "insert"} => h'[q].ch \in channels'
    BY <1>4, <1>5, <1>8 DEF IndexInv, Linked
  <2>2. \A d \in Clients : made'[d] <= SubBound
    BY <1>7 DEF IndexInv, Linked
  <2>3. \A d \in Clients : reader'[d] \in {"lookup", "close", "empty"} => named'[d] > 0
    BY <1>4, <1>7 DEF IndexInv, Linked
  <2> QED BY <1>4, <2>1, <2>2, <2>3 DEF IndexInv, Linked
<1>10. Left'
  <2>1. \A k \in Channels : \A s \in members'[k] : s[1] # c => s \in members[k]
    BY <1>4
  <2> QED BY <1>4, <1>5, <1>6, <1>7, <2>1, HandlerLeft
<1>11. Told'
  <2>1. OthersStay(c, ch) /\ told' \in [Clients -> [Channels -> States]]
    BY <1>4 DEF OthersStay, IndexInv, Told
  <2>2. Orderly(c, ch)' => Truth(c, ch)'
    <3>1. Orderly(c, ch)' => Orderly(c, ch)
      BY <1>4 DEF Orderly, Stays
    <3> QED BY <1>1, <1>4, <3>1, OrderlyGives DEF Truth, On
  <2>3. Orderly(c, ch)' => Meets(o.pc, c, ch)'
    BY <1>5, <2>2 DEF Meets
  <2>4. reader' = reader /\ raced' = raced /\ deaf \subseteq deaf' /\ listening \subseteq listening'
    BY <1>4
  <2> QED BY <1>5, <2>1, <2>3, <2>4, HandlerTold
<1> QED BY <1>9, <1>10, <1>11

\* The two indexes take a subscription, and give it up, together.
LEMMA IndexesAgree ==
  ASSUME IndexInv, NEW s \in Subs, NEW ch \in Channels, AddToChannel(s, ch) \/ RemoveFromChannel(s, ch)
  PROVE  /\ chansOf' \in [Subs -> SUBSET Channels]
         /\ \A k \in Channels, t \in Subs : t \in members'[k] <=> k \in chansOf'[t]
         /\ \A k \in Channels : k # ch => members'[k] = members[k]
         /\ \A t : t # s => (t \in members'[ch] <=> t \in members[ch])
         /\ s \in members'[ch] <=> AddToChannel(s, ch)
<1>1. /\ chansOf \in [Subs -> SUBSET Channels] /\ DOMAIN members = Channels
      /\ \A k \in Channels, t \in Subs : t \in members[k] <=> k \in chansOf[t]
  BY DEF IndexInv, Linked, SubInv
<1>2. CASE AddToChannel(s, ch)
  <2>1. /\ members' = [members EXCEPT ![ch] = members[ch] \cup {s}]
        /\ chansOf' = [chansOf EXCEPT ![s] = chansOf[s] \cup {ch}]
    BY <1>2 DEF AddToChannel
  <2> QED BY <1>1, <1>2, <2>1
<1>3. CASE RemoveFromChannel(s, ch)
  <2>1. /\ members' = [members EXCEPT ![ch] = members[ch] \ {s}]
        /\ chansOf' = [chansOf EXCEPT ![s] = chansOf[s] \ {ch}]
    BY <1>3 DEF RemoveFromChannel
  <2>2. s \notin members'[ch] /\ ~AddToChannel(s, ch)
    BY <1>1, <2>1 DEF AddToChannel
  <2> QED BY <1>1, <2>1, <2>2
<1> QED BY <1>2, <1>3

LEMMA IndexChangeKeeps ==
  ASSUME IndexInv, NEW r \in Handlers, NEW c \in Clients, NEW ch \in Channels, Works(r, c, ch),
         AddInserts(r) \/ Unsubscribe(r)
  PROVE  Linked' /\ Left' /\ Told'
<1>1. /\ h[r] \in Job /\ h[r].c = c /\ h[r].ch = ch /\ h[r].pc \in {"insert", "remove"}
      /\ h[r].n \in Nat /\ h[r].n > 0 /\ h[r].n <= made[c]
  <2>1. h[r].pc \in {"insert", "remove"} /\ h[r].c = c /\ h[r].ch = ch
    BY DEF AddInserts, Unsubscribe, At, Works
  <2> QED BY <2>1, InHand DEF IndexInv
<1>2. Sub(r) \in Subs
  <2>1. made[c] <= SubBound /\ made[c] \in Nat /\ SubBound \in Nat
    BY SubscriptionsAssumption DEF IndexInv, Linked, SubInv
  <2>2. h[r].n \in 1..SubBound
    BY <1>1, <2>1
  <2> QED BY <1>1, <2>2 DEF Sub, Subs
<1>3. PICK s \in Subs : s = Sub(r)
  BY <1>2
<1>4. s[1] = c /\ (Orderly(c, ch) => s = <<c, 1>>)
  BY <1>1, <1>3, OrderlyGives DEF Sub
<1>5. AddToChannel(s, ch) \/ RemoveFromChannel(s, ch)
  BY <1>1, <1>3 DEF AddInserts, Unsubscribe
<1>6. UNCHANGED <<reader, made, named, closed, channels, listening, deaf, raced, overtaken>>
  BY DEF AddInserts, Unsubscribe, session, broker, history
<1>7. PICK o : /\ h' = [h EXCEPT ![r] = o]
               /\ o = Idle \/ (o \in Job /\ o.c = c /\ o.ch = ch)
               /\ o.pc = IF AddInserts(r) THEN "listen" ELSE "idle"
  <2>1. CASE AddInserts(r)
    <3> DEFINE x == [h[r] EXCEPT !.pc = "listen"]
    <3>1. x \in Job /\ x.c = c /\ x.ch = ch /\ x.pc = "listen"
      BY <1>1 DEF Job, Places
    <3>2. h' = [h EXCEPT ![r] = x]
      BY <2>1 DEF AddInserts, Goes
    <3> HIDE DEF x
    <3> QED BY <2>1, <3>1, <3>2
  <2>2. CASE ~AddInserts(r)
    <3>1. h' = [h EXCEPT ![r] = Idle] /\ Idle.pc = "idle"
      BY <2>2 DEF Unsubscribe, Reply, Idle
    <3> QED BY <2>2, <3>1
  <2> QED BY <2>1, <2>2
<1>8. \A q \in Handlers : h'[q] = IF q = r THEN o ELSE h[q]
  BY <1>7 DEF IndexInv, SubInv
<1>9. \A k \in Channels : members'[k] # {} => k \in channels'
  <2> SUFFICES ASSUME NEW k \in Channels, NEW t \in members'[k] PROVE k \in channels
    BY <1>6
  <2>1. CASE members[k] # {}
    BY <2>1 DEF IndexInv, Linked
  <2>2. CASE members[k] = {}
    <3>1. k = ch /\ t = s
      BY <1>5, <2>2, IndexesAgree
    <3>2. AddToChannel(s, ch)
      BY <1>5, <3>1, IndexesAgree
    <3>3. AddInserts(r)
      <4>1. s \in members'[ch]
        BY <3>1
      <4>2. ~RemoveFromChannel(s, ch)
        BY <4>1 DEF RemoveFromChannel, IndexInv, SubInv
      <4> QED BY <1>1, <1>3, <4>2 DEF Unsubscribe
    <3>4. h[r].pc = "insert"
      BY <3>3 DEF AddInserts, At
    <3> QED BY <1>1, <3>1, <3>4 DEF IndexInv, Linked
  <2> QED BY <2>1, <2>2
<1>10. Linked'
  <2>1. \A q \in Handlers : h'[q].pc \in {"check", "add", "insert"} => h'[q].ch \in channels'
    BY <1>6, <1>7, <1>8 DEF IndexInv, Linked
  <2>2. /\ chansOf' \in [Subs -> SUBSET Channels]
        /\ \A k \in Channels, t \in Subs : t \in members'[k] <=> k \in chansOf'[t]
    BY <1>5, IndexesAgree
  <2> QED BY <1>6, <1>9, <2>1, <2>2 DEF IndexInv, Linked
<1>11. Left'
  <2>1. \A k \in Channels : \A t \in members'[k] : t[1] # c => t \in members[k]
    BY <1>4, <1>5, IndexesAgree
  <2>2. Stays(c) => OneAtMost(c)'
    BY <1>6 DEF IndexInv, Left, OneAtMost
  <2> QED BY <1>6, <1>7, <2>1, <2>2, HandlerLeft
<1>12. Told'
  <2>1. told' \in [Clients -> [Channels -> States]]
    <3>1. told \in [Clients -> [Channels -> States]]
      BY DEF IndexInv, Told
    <3>2. CASE AddInserts(r)
      BY <3>1, <3>2 DEF AddInserts
    <3>3. CASE Unsubscribe(r)
      BY <1>1, <3>1, <3>3 DEF Unsubscribe, Reply, States
    <3> QED BY <3>2, <3>3
  <2>2. OthersStay(c, ch)
    <3>1. \A d \in Clients, k \in Channels : d # c \/ k # ch => told'[d][k] = told[d][k]
      <4>1. told \in [Clients -> [Channels -> States]]
        BY DEF IndexInv, Told
      <4>2. CASE AddInserts(r)
        BY <4>2 DEF AddInserts
      <4>3. CASE Unsubscribe(r)
        BY <1>1, <4>1, <4>3 DEF Unsubscribe, Reply
      <4> QED BY <4>2, <4>3
    <3>2. ASSUME NEW d \in Clients, NEW k \in Channels, d # c \/ k # ch
          PROVE  <<d, 1>> \in members'[k] <=> <<d, 1>> \in members[k]
      <4>1. CASE k # ch
        BY <1>5, <4>1, IndexesAgree
      <4>2. CASE k = ch
        <5>1. <<d, 1>> # s
          BY <1>4, <3>2, <4>2
        <5> QED BY <1>5, <4>2, <5>1, IndexesAgree
      <4> QED BY <4>1, <4>2
    <3> QED BY <3>1, <3>2 DEF OthersStay
  <2>3. Orderly(c, ch)' => Orderly(c, ch)
    BY <1>6 DEF Orderly, Stays
  <2>4. Orderly(c, ch)' => Meets(o.pc, c, ch)'
    <3> SUFFICES ASSUME Orderly(c, ch)' PROVE Meets(o.pc, c, ch)'
      OBVIOUS
    <3>1. Orderly(c, ch) /\ s = <<c, 1>> /\ Sub(r) \notin closed
      BY <1>4, <2>3, OrderlyGives
    <3>2. CASE AddInserts(r)
      <4>1. AddToChannel(s, ch)
        BY <1>1, <1>3, <3>2 DEF AddInserts
      <4>2. On(c, ch)'
        BY <1>5, <3>1, <4>1, IndexesAgree DEF On
      <4> QED BY <1>7, <3>2, <4>2 DEF Meets
    <3>3. CASE ~AddInserts(r)
      <4>1. RemoveFromChannel(s, ch) /\ Reply(r, "unsubscribed")
        BY <1>1, <1>3, <3>3 DEF Unsubscribe
      <4>2. told'[c][ch] = "unsubscribed"
        BY <1>1, <3>1, <4>1 DEF Reply, IndexInv, Told
      <4>3. s \notin members'[ch]
        BY <4>1 DEF RemoveFromChannel, IndexInv, SubInv
      <4> QED BY <1>7, <3>1, <3>3, <4>2, <4>3 DEF Meets, Truth, On
    <3> QED BY <3>2, <3>3
  <2>5. reader' = reader /\ raced' = raced /\ deaf \subseteq deaf' /\ listening \subseteq listening'
    BY <1>6
  <2> QED BY <1>7, <2>1, <2>2, <2>4, <2>5, HandlerTold
<1> QED BY <1>10, <1>11, <1>12

LEMMA ReadKeeps ==
  ASSUME IndexInv, NEW r \in Handlers, NEW c \in Clients, NEW ch \in Channels, ReadMessage(r, c, ch)
  PROVE  Linked' /\ Left' /\ Told'
<1>1. PICK pc \in {"session", "find"} :
        h' = [h EXCEPT ![r] = [pc |-> pc, c |-> c, ch |-> ch, n |-> 0]]
  BY DEF ReadMessage
<1>2. PICK o : o = [pc |-> pc, c |-> c, ch |-> ch, n |-> 0]
  OBVIOUS
<1>3. /\ o.c = c /\ o.ch = ch /\ o.pc \in {"session", "find"}
      /\ \A q \in Handlers : h'[q] = IF q = r THEN o ELSE h[q]
  BY <1>1, <1>2 DEF IndexInv, SubInv
<1>4. /\ UNCHANGED <<reader, made, named, members, chansOf, channels, listening, deaf, told, overtaken>>
      /\ reader[c] = "reading" /\ h[r] = Idle
  BY DEF ReadMessage, session, index, broker
<1>5. raced \subseteq raced' /\ (<<c, ch>> \notin raced' => \A q \in Busy(c) : h[q].ch # ch)
  BY DEF ReadMessage
<1>6. Linked'
  <2>1. \A q \in Handlers : h'[q].pc \in {"check", "add", "insert"} => h'[q].ch \in channels'
    BY <1>3, <1>4 DEF IndexInv, Linked
  <2> QED BY <1>4, <2>1 DEF IndexInv, Linked
<1>7. Left'
  <2>1. ASSUME NEW d \in Clients, LeavesAlone(d)' PROVE LeavesAlone(d) /\ Busy(d)' = {}
    <3>1. LeavesAlone(d) /\ d # c
      BY <1>4, <2>1 DEF LeavesAlone, Stays
    <3>2. Busy(d)' \subseteq Busy(d)
      BY <1>3, <3>1 DEF Busy
    <3> QED BY <3>1, <3>2 DEF IndexInv, Left
  <2>2. \A d \in Clients : Stays(d)' => Stays(d)
    BY <1>4 DEF Stays
  <2>3. \A d \in Clients : OneAtMost(d) => OneAtMost(d)'
    BY <1>4 DEF OneAtMost
  <2>4. ASSUME NEW d \in Clients, Stays(d)' \/ LeavesAlone(d)' PROVE OneAtMost(d)'
    BY <2>1, <2>2, <2>3, <2>4 DEF IndexInv, Left
  <2>5. ASSUME NEW d \in Clients, LeavesAlone(d)'
        PROVE  /\ Busy(d)' = {}
               /\ reader'[d] \in {"lookup", "close", "empty"} => made'[d] = 1
               /\ reader'[d] \in {"leave", "done"} => \A k \in Channels : \A s \in members'[k] : s[1] # d
    BY <1>4, <2>1, <2>5 DEF IndexInv, Left
  <2> QED BY <2>4, <2>5 DEF Left
<1>8. ASSUME NEW d \in Clients, NEW k \in Channels, Orderly(d, k)'
      PROVE  ToldInOrder(d, k)'
  <2>1. ToldInOrder(d, k)
    BY <1>4, <1>5, <1>8 DEF Orderly, Stays, IndexInv, Told
  <2>2. (On(d, k)' <=> On(d, k)) /\ (Truth(d, k)' <=> Truth(d, k))
    BY <1>4 DEF On, Truth
  <2>3. \A q \in Handlers : q # r => (Works(q, d, k)' <=> Works(q, d, k)) /\ h'[q] = h[q]
    BY <1>3 DEF Works
  <2>4. ~Works(r, d, k)
    BY <1>4 DEF Works
  <2>5. CASE d = c /\ k = ch
    <3>1. \A q \in Handlers : ~Works(q, d, k)
      BY <1>5, <1>8, <2>5 DEF Orderly, Busy, Works
    <3>2. \A q \in Handlers : Works(q, d, k)' => q = r
      BY <2>3, <3>1
    <3>3. Truth(d, k)
      BY <2>1, <3>1 DEF ToldInOrder
    <3> QED BY <1>3, <2>2, <3>2, <3>3 DEF ToldInOrder
  <2>6. CASE d # c \/ k # ch
    <3>1. ~Works(r, d, k)'
      BY <1>3, <2>6 DEF Works
    <3>2. \A q \in Handlers : (Works(q, d, k)' <=> Works(q, d, k)) /\ (Works(q, d, k) => h'[q] = h[q])
      BY <2>3, <2>4, <3>1
    <3> QED BY <2>1, <2>2, <3>2 DEF ToldInOrder
  <2> QED BY <2>5, <2>6
<1>9. Told'
  BY <1>4, <1>8 DEF IndexInv, Told
<1> QED BY <1>6, <1>7, <1>9

-----------------------------------------------------------------------------
(* The reading goroutine *)

LEMMA ReaderTold ==
  ASSUME IndexInv, UNCHANGED <<h, listening, deaf, told, raced>>,
         \A d \in Clients : reader'[d] \in {"off", "reading"} =>
           /\ reader[d] \in {"off", "reading"}
           /\ \A k \in Channels : <<d, 1>> \in members'[k] <=> <<d, 1>> \in members[k]
  PROVE  Told'
<1>1. ASSUME NEW d \in Clients, NEW k \in Channels, Orderly(d, k)'
      PROVE  ToldInOrder(d, k)'
  <2>1. ToldInOrder(d, k)
    BY <1>1 DEF Orderly, Stays, IndexInv, Told
  <2>2. (On(d, k)' <=> On(d, k)) /\ (Truth(d, k)' <=> Truth(d, k))
    BY <1>1 DEF On, Truth, Orderly, Stays
  <2>3. \A q \in Handlers : Works(q, d, k)' <=> Works(q, d, k)
    BY DEF Works
  <2> QED BY <2>1, <2>2, <2>3 DEF ToldInOrder
<1> QED BY <1>1 DEF IndexInv, Told

LEMMA ReaderLeft ==
  ASSUME IndexInv, NEW c \in Clients, UNCHANGED <<made, named, h>>,
         \A d \in Clients : d # c => reader'[d] = reader[d] /\ (d \in overtaken' <=> d \in overtaken),
         \A k \in Channels : members'[k] \subseteq members[k],
         Stays(c)' => Stays(c),
         LeavesAlone(c)' =>
           /\ OneAtMost(c) /\ Busy(c) = {}
           /\ reader'[c] \in {"lookup", "close", "empty"} => made[c] = 1
           /\ reader'[c] \in {"leave", "done"} => \A k \in Channels : \A s \in members'[k] : s[1] # c
  PROVE  Left'
<1>1. \A d \in Clients : d # c => (Stays(d)' <=> Stays(d)) /\ (LeavesAlone(d)' <=> LeavesAlone(d))
  BY DEF Stays, LeavesAlone
<1>2. \A d \in Clients : (OneAtMost(d)' <=> OneAtMost(d)) /\ Busy(d)' = Busy(d)
  BY DEF OneAtMost, Busy
<1>3. ASSUME NEW d \in Clients, Stays(d)' \/ LeavesAlone(d)' PROVE OneAtMost(d)'
  <2>1. OneAtMost(d)
    BY <1>1, <1>3 DEF IndexInv, Left
  <2> QED BY <1>2, <2>1
<1>4. ASSUME NEW d \in Clients, LeavesAlone(d)'
      PROVE  /\ Busy(d)' = {}
             /\ reader'[d] \in {"lookup", "close", "empty"} => made'[d] = 1
             /\ reader'[d] \in {"leave", "done"} => \A k \in Channels : \A s \in members'[k] : s[1] # d
  <2>1. CASE d = c
    BY <1>2, <1>4, <2>1
  <2>2. CASE d # c
    BY <1>1, <1>2, <1>4, <2>2 DEF IndexInv, Left
  <2> QED BY <2>1, <2>2
<1> QED BY <1>3, <1>4 DEF Left

LEMMA ReaderLinked ==
  ASSUME IndexInv, NEW c \in Clients, UNCHANGED <<members, chansOf, channels, h, made, named>>,
         \A d \in Clients : d # c => reader'[d] = reader[d],
         reader'[c] \in {"lookup", "close", "empty"} => named[c] > 0
  PROVE  Linked'
BY DEF IndexInv, Linked

\* With no message in flight, the client's subscription is the first it made.
LEMMA OnlyOne ==
  ASSUME IndexInv, NEW c \in Clients, OneAtMost(c), NEW ch \in Channels, NEW s \in members[ch], s[1] = c
  PROVE  s = <<c, 1>> /\ s = Named(c) /\ made[c] = 1
<1>1. members[ch] \in SUBSET (Clients \X Nat) /\ s[2] > 0 /\ s[2] <= made[s[1]]
  BY DEF IndexInv, SubInv
<1>2. s \in Clients \X Nat
  BY <1>1
<1>3. s = <<s[1], s[2]>> /\ s[2] \in Nat
  BY <1>2
<1>4. made[c] \in Nat /\ made[c] <= 1 /\ named[c] = made[c]
  BY DEF IndexInv, SubInv, OneAtMost
<1>5. s[2] = 1 /\ made[c] = 1
  BY <1>1, <1>3, <1>4
<1> QED BY <1>3, <1>4, <1>5 DEF Named

LEMMA ArrivalKeeps ==
  ASSUME IndexInv, NEW c \in Clients, HandleConnection(c) \/ HandleDisconnection(c)
  PROVE  Linked' /\ Left' /\ Told'
<1>1. /\ reader \in [Clients -> {"off", "reading", "lookup", "close", "empty", "leave", "done"}]
      /\ Stays(c) /\ named[c] \in Nat /\ made[c] \in Nat
  BY DEF IndexInv, SubInv, Stays, HandleConnection, HandleDisconnection
<1>2. OneAtMost(c)
  BY <1>1 DEF IndexInv, Left
<1>3. UNCHANGED <<members, chansOf, channels, h, made, named, listening, deaf, told, raced>>
  BY DEF HandleConnection, HandleDisconnection, session, index, broker, history
<1>4. /\ \A d \in Clients : d # c => reader'[d] = reader[d] /\ (d \in overtaken' <=> d \in overtaken)
      /\ reader'[c] \in {"reading", "lookup", "leave"}
  <2>1. CASE HandleConnection(c)
    BY <1>1, <2>1 DEF HandleConnection, history
  <2>2. CASE HandleDisconnection(c)
    BY <1>1, <2>2 DEF HandleDisconnection, Turns
  <2> QED BY <2>1, <2>2
<1>5. Told'
  <2>1. \A d \in Clients : reader'[d] \in {"off", "reading"} => reader[d] \in {"off", "reading"}
    BY <1>1, <1>4 DEF Stays
  <2> QED BY <1>3, <2>1, ReaderTold
<1>6. CASE HandleConnection(c)
  <2>1. reader'[c] = "reading"
    BY <1>1, <1>6 DEF HandleConnection
  <2>2. Stays(c)' /\ ~LeavesAlone(c)'
    BY <2>1 DEF Stays, LeavesAlone
  <2>3. Linked'
    BY <1>3, <1>4, <2>1, ReaderLinked
  <2>4. Left'
    BY <1>1, <1>3, <1>4, <2>2, ReaderLeft
  <2> QED BY <1>5, <2>3, <2>4
<1>7. CASE HandleDisconnection(c)
  <2>1. /\ reader'[c] = IF named[c] = 0 THEN "leave" ELSE "lookup"
        /\ Busy(c) # {} => c \in overtaken'
    BY <1>1, <1>7 DEF HandleDisconnection, Turns
  <2>2. Linked'
    BY <1>1, <1>3, <1>4, <2>1, ReaderLinked
  <2>3. ~Stays(c)'
    BY <2>1 DEF Stays
  <2>4. LeavesAlone(c)' => Busy(c) = {}
    BY <2>1 DEF LeavesAlone
  <2>5. reader'[c] \in {"lookup", "close", "empty"} => made[c] = 1
    BY <1>1, <1>2, <2>1 DEF OneAtMost
  <2>6. reader'[c] \in {"leave", "done"} => \A k \in Channels : \A s \in members'[k] : s[1] # c
    <3> SUFFICES ASSUME named[c] = 0, NEW k \in Channels, NEW s \in members[k], s[1] = c PROVE FALSE
      BY <1>3, <2>1
    <3>1. made[c] = 0
      BY <1>2 DEF OneAtMost
    <3> QED BY <1>2, <3>1, OnlyOne
  <2>7. Left'
    BY <1>2, <1>3, <1>4, <2>3, <2>4, <2>5, <2>6, ReaderLeft
  <2> QED BY <1>5, <2>2, <2>7
<1> QED BY <1>6, <1>7

LEMMA LeavingKeeps ==
  ASSUME IndexInv, NEW c \in Clients,
         LookupSubscription(c) \/ MarkClosed(c) \/ UnregisterConnection(c)
  PROVE  Linked' /\ Left' /\ Told'
<1>1. /\ reader \in [Clients -> {"off", "reading", "lookup", "close", "empty", "leave", "done"}]
      /\ reader[c] \in {"lookup", "close", "leave"} /\ named[c] \in Nat
  BY DEF IndexInv, SubInv, LookupSubscription, MarkClosed, UnregisterConnection
<1>2. UNCHANGED <<members, chansOf, channels, h, made, named, listening, deaf, told, raced, overtaken>>
  BY DEF LookupSubscription, MarkClosed, UnregisterConnection, session, index, broker, history
<1>3. /\ \A d \in Clients : d # c => reader'[d] = reader[d]
      /\ \/ reader[c] = "lookup" /\ reader'[c] = "close"
         \/ reader[c] = "lookup" /\ reader'[c] = "leave" /\ ~Indexed(Named(c))
         \/ reader[c] = "close" /\ reader'[c] = "empty"
         \/ reader[c] = "leave" /\ reader'[c] = "done"
  <2>1. CASE LookupSubscription(c)
    BY <1>1, <2>1 DEF LookupSubscription, Turns
  <2>2. CASE MarkClosed(c)
    BY <1>1, <2>2 DEF MarkClosed, Turns
  <2>3. CASE UnregisterConnection(c)
    BY <1>1, <2>3 DEF UnregisterConnection, Turns
  <2> QED BY <2>1, <2>2, <2>3
<1>4. Linked'
  <2>1. reader'[c] \in {"lookup", "close", "empty"} => named[c] > 0
    BY <1>3 DEF IndexInv, Linked
  <2> QED BY <1>2, <1>3, <2>1, ReaderLinked
<1>5. ~Stays(c)' /\ ~Stays(c)
  BY <1>3 DEF Stays
<1>6. Told'
  <2>1. \A d \in Clients : reader'[d] \in {"off", "reading"} => reader[d] \in {"off", "reading"}
    BY <1>3, <1>5 DEF Stays
  <2> QED BY <1>2, <2>1, ReaderTold
<1>7. Left'
  <2>1. ASSUME LeavesAlone(c)'
        PROVE  /\ OneAtMost(c) /\ Busy(c) = {}
               /\ reader'[c] \in {"lookup", "close", "empty"} => made[c] = 1
               /\ reader'[c] \in {"leave", "done"} => \A k \in Channels : \A s \in members'[k] : s[1] # c
    <3>1. LeavesAlone(c)
      BY <1>2, <1>5, <2>1 DEF LeavesAlone
    <3>2. OneAtMost(c) /\ Busy(c) = {}
      BY <3>1 DEF IndexInv, Left
    <3>3. reader'[c] \in {"lookup", "close", "empty"} => made[c] = 1
      BY <1>3, <3>1 DEF IndexInv, Left
    <3>4. ASSUME reader'[c] \in {"leave", "done"}, NEW k \in Channels, NEW s \in members[k], s[1] = c
          PROVE  FALSE
      <4>1. CASE reader[c] = "lookup"
        <5>1. s = Named(c)
          BY <3>2, <3>4, OnlyOne
        <5> QED BY <1>3, <3>4, <4>1, <5>1 DEF Indexed
      <4>2. CASE reader[c] = "leave"
        BY <3>1, <3>4, <4>2 DEF IndexInv, Left
      <4> QED BY <1>3, <3>4, <4>1, <4>2
    <3> QED BY <1>2, <3>2, <3>3, <3>4
  <2> QED BY <1>2, <1>3, <1>5, <2>1, ReaderLeft
<1> QED BY <1>4, <1>6, <1>7

LEMMA EmptyKeeps ==
  ASSUME IndexInv, NEW c \in Clients, RemoveSubscriptionFromAll(c)
  PROVE  Linked' /\ Left' /\ Told'
<1>1. /\ reader \in [Clients -> {"off", "reading", "lookup", "close", "empty", "leave", "done"}]
      /\ reader[c] = "empty" /\ reader' = [reader EXCEPT ![c] = "leave"]
      /\ named[c] \in Nat /\ made[c] \in Nat /\ members \in [Channels -> SUBSET (Clients \X Nat)]
      /\ chansOf \in [Subs -> SUBSET Channels]
  BY DEF IndexInv, SubInv, Linked, RemoveSubscriptionFromAll, Turns
<1>2. UNCHANGED <<channels, h, made, named, listening, deaf, told, raced, overtaken>>
  BY DEF RemoveSubscriptionFromAll, session, broker, history
<1>3. named[c] > 0 /\ named[c] <= made[c] /\ made[c] <= SubBound /\ SubBound \in Nat
  BY <1>1, SubscriptionsAssumption DEF IndexInv, Linked, SubInv
<1>4. Named(c) \in Subs
  <2>1. named[c] \in 1..SubBound
    BY <1>1, <1>3
  <2> QED BY <2>1 DEF Named, Subs
<1>5. PICK s \in Subs : s = Named(c) /\ s[1] = c
  BY <1>4 DEF Named
<1>6. /\ members' = [k \in Channels |-> IF k \in chansOf[s] THEN members[k] \ {s} ELSE members[k]]
      /\ chansOf' = [chansOf EXCEPT ![s] = {}]
  BY <1>5 DEF RemoveSubscriptionFromAll
<1>7. \A k \in Channels : \A t : t \in members'[k] <=> t \in members[k] /\ t # s
  <2> SUFFICES ASSUME NEW k \in Channels, NEW t PROVE t \in members'[k] <=> t \in members[k] /\ t # s
    OBVIOUS
  <2>1. s \in members[k] <=> k \in chansOf[s]
    BY DEF IndexInv, Linked
  <2> QED BY <1>6, <2>1
<1>8. Linked'
  <2>1. chansOf' \in [Subs -> SUBSET Channels]
    BY <1>1, <1>6
  <2>2. ASSUME NEW k \in Channels, NEW t \in Subs PROVE t \in members'[k] <=> k \in chansOf'[t]
    <3>1. t \in members[k] <=> k \in chansOf[t]
      BY DEF IndexInv, Linked
    <3> QED BY <1>1, <1>6, <1>7, <3>1
  <2>3. \A k \in Channels : members'[k] # {} => k \in channels
    BY <1>7 DEF IndexInv, Linked
  <2>4. \A d \in Clients : reader'[d] \in {"lookup", "close", "empty"} => named[d] > 0
    BY <1>1 DEF IndexInv, Linked
  <2> QED BY <1>2, <2>1, <2>2, <2>3, <2>4 DEF IndexInv, Linked
<1>9. Told'
  <2>1. ASSUME NEW d \in Clients, reader'[d] \in {"off", "reading"}
        PROVE  /\ reader[d] \in {"off", "reading"}
               /\ \A k \in Channels : <<d, 1>> \in members'[k] <=> <<d, 1>> \in members[k]
    <3>1. d # c /\ reader[d] \in {"off", "reading"}
      BY <1>1, <2>1
    <3>2. <<d, 1>> # s
      BY <1>5, <3>1
    <3> QED BY <1>7, <3>1, <3>2
  <2> QED BY <1>2, <2>1, ReaderTold
<1>10. Left'
  <2>1. /\ \A d \in Clients : d # c => reader'[d] = reader[d]
        /\ ~Stays(c)' /\ ~Stays(c) /\ reader'[c] = "leave"
    BY <1>1 DEF Stays
  <2>2. \A k \in Channels : members'[k] \subseteq members[k]
    BY <1>7
  <2>3. ASSUME LeavesAlone(c)'
        PROVE  /\ OneAtMost(c) /\ Busy(c) = {}
               /\ \A k \in Channels : \A t \in members'[k] : t[1] # c
    <3>1. LeavesAlone(c)
      BY <1>2, <2>1, <2>3 DEF LeavesAlone
    <3>2. OneAtMost(c) /\ Busy(c) = {}
      BY <3>1 DEF IndexInv, Left
    <3>3. ASSUME NEW k \in Channels, NEW t \in members'[k], t[1] = c PROVE FALSE
      <4>1. t \in members[k] /\ t # s
        BY <1>7
      <4> QED BY <1>5, <3>2, <3>3, <4>1, OnlyOne
    <3> QED BY <3>2, <3>3
  <2> QED BY <1>2, <2>1, <2>2, <2>3, ReaderLeft
<1> QED BY <1>8, <1>9, <1>10

-----------------------------------------------------------------------------
LEMMA IndexStarts == Init => IndexInv
<1> SUFFICES ASSUME Init PROVE IndexInv
  OBVIOUS
<1>1. SubInv
  BY SubStarts
<1>2. Linked
  BY SubscriptionsAssumption DEF Init, Linked, Idle
<1>3. Left
  BY DEF Init, Left, OneAtMost, LeavesAlone, Stays
<1>4. Told
  BY DEF Init, Told, ToldInOrder, Orderly, Truth, On, Works, States
<1> QED BY <1>1, <1>2, <1>3, <1>4 DEF IndexInv

LEMMA IndexStep ==
  ASSUME IndexInv, [Next]_vars
  PROVE  IndexInv'
<1>1. SubInv'
  BY SubStep DEF IndexInv
<1>2. ASSUME NEW r \in Handlers, SubscribeMessage(r) \/ UnsubscribeMessage(r)
      PROVE  Linked' /\ Left' /\ Told'
  <2>1. h[r].pc # "idle"
    BY <1>2 DEF SubscribeMessage, UnsubscribeMessage, Subscribe, GetOrCreateSubscription, FindChannel,
                CreateChannel, AlreadySubscribed, AddChecksClosed, AddInserts, EnsureChannelListening,
                FindSubscription, Unsubscribe, At
  <2>2. PICK c \in Clients, ch \in Channels : Works(r, c, ch)
    BY <2>1, InHand DEF IndexInv, Works
  <2> QED BY <1>2, <2>2, SessionKeeps, QuietKeeps, IndexChangeKeeps
          DEF SubscribeMessage, UnsubscribeMessage, Subscribe
<1>3. ASSUME NEW c \in Clients, HandleConnection(c) \/ Disconnection(c)
      PROVE  Linked' /\ Left' /\ Told'
  BY <1>3, ArrivalKeeps, LeavingKeeps, EmptyKeeps DEF Disconnection, CloseSubscription
<1>4. ASSUME NEW r \in Handlers, NEW c \in Clients, NEW ch \in Channels, ReadMessage(r, c, ch)
      PROVE  Linked' /\ Left' /\ Told'
  BY <1>4, ReadKeeps
<1>5. CASE UNCHANGED vars
  <2>1. UNCHANGED <<reader, named, made, members, chansOf, channels, listening, deaf, h, told, raced, overtaken>>
    BY <1>5 DEF vars, session, index, broker, history
  <2>2. Linked'
    BY <2>1 DEF IndexInv, Linked
  <2>3. Left'
    BY <2>1 DEF IndexInv, Left, OneAtMost, LeavesAlone, Stays, Busy
  <2>4. Told'
    BY <2>1, ReaderTold
  <2> QED BY <1>1, <2>2, <2>3, <2>4 DEF IndexInv
<1> QED BY <1>1, <1>2, <1>3, <1>4, <1>5 DEF Next, IndexInv

LEMMA IndexGivesGhosts == IndexInv => GhostsAreLate
<1> SUFFICES ASSUME IndexInv, NEW c \in Clients, reader[c] = "done", c \notin overtaken,
                    NEW s \in Subs, s[1] = c, NEW ch \in Channels, s \in members[ch]
             PROVE  FALSE
  BY DEF GhostsAreLate, Indexed
<1>1. LeavesAlone(c)
  BY DEF LeavesAlone, Stays
<1> QED BY <1>1 DEF IndexInv, Left

LEMMA IndexGivesTold == IndexInv => ToldIsTrue
<1> SUFFICES ASSUME IndexInv, NEW c \in Clients, NEW ch \in Channels,
                    reader[c] = "reading", <<c, ch>> \notin raced, ch \notin deaf,
                    \A r \in Busy(c) : h[r].ch # ch
             PROVE  CASE told[c][ch] = "subscribed" -> Named(c) \in members[ch] /\ ch \in listening
                      [] told[c][ch] \in {"unsubscribed", "refused", "nothing"} ->
                           ~\E s \in members[ch] : s[1] = c
  BY DEF ToldIsTrue
<1>1. ToldInOrder(c, ch) /\ OneAtMost(c)
  BY DEF IndexInv, Told, Orderly, Stays, Left
<1>2. \A r \in Handlers : ~Works(r, c, ch)
  BY DEF Works, Busy
<1>3. Truth(c, ch)
  BY <1>1, <1>2 DEF ToldInOrder
<1>4. \A s \in members[ch] : s[1] = c => s = <<c, 1>> /\ s = Named(c)
  BY <1>1, OnlyOne
<1>5. told[c][ch] \in States
  BY DEF IndexInv, Told
<1>6. CASE told[c][ch] = "subscribed"
  <2>1. On(c, ch) /\ ch \in listening
    BY <1>3, <1>6 DEF Truth
  <2>2. Named(c) \in members[ch]
    BY <1>4, <2>1 DEF On
  <2> QED BY <1>6, <2>1, <2>2
<1>7. CASE told[c][ch] # "subscribed"
  <2>1. ~On(c, ch)
    BY <1>3, <1>7 DEF Truth
  <2>2. ~\E s \in members[ch] : s[1] = c
    BY <1>4, <2>1 DEF On
  <2>3. told[c][ch] \in {"unsubscribed", "refused", "nothing"}
    BY <1>5, <1>7 DEF States
  <2> QED BY <2>2, <2>3
<1> QED BY <1>6, <1>7

\* A client that has left is on no channel unless its disconnection overtook a
\* message of its own, for any number of clients, channels and messages in
\* flight: HandleDisconnection finds the one subscription there is, and
\* RemoveSubscriptionFromAll needs no more than the reverse index to empty it.
THEOREM GhostsAlwaysLate == Spec => []GhostsAreLate
<1> QED
  BY IndexStarts, IndexStep, IndexGivesGhosts, PTL DEF Spec

\* What a client was last told about a channel is so, as long as its messages
\* about the channel did not overlap and the broker did not fail there: each
\* step of Subscribe and Unsubscribe leaves the index as its answer says.
THEOREM ToldAlwaysTrue == Spec => []ToldIsTrue
<1> QED
  BY IndexStarts, IndexStep, IndexGivesTold, PTL DEF Spec
=============================================================================
