---------------------------- MODULE FanoutProofs ----------------------------
(***************************************************************************)
(* A message is in one place for each of its subscribers until it is       *)
(* handed over or dropped, and the messages of a channel keep their order, *)
(* for any number of channels, subscriptions, goroutines of the broker     *)
(* client, messages and faults, and for buffers of any size.               *)
(***************************************************************************)
EXTENDS Fanout, FiniteSetTheorems, TLAPS

Places == {"idle", "each", "gate", "push", "append", "pop", "cut", "deliver"}
Goroutine == [pc: Places, ch: Channels \cup {None}, m: Nat, subs: SUBSET Subs,
              s: Subs \cup {None}, items: Seq(Nat)]

FanTypes ==
  /\ listeners \in [Channels -> Nat]
  /\ wire \in [Channels -> Seq(Nat)]
  /\ chanOf \in Seq(Channels)
  /\ members \in [Channels -> SUBSET Subs]
  /\ g \in [Listeners -> Goroutine]
  /\ buf \in [Subs -> Seq(Nat)]
  /\ last \in [Subs -> [Channels -> Nat]]
  /\ due \in [Subs -> SUBSET Nat]

\* What a goroutine has in hand at its place: one message of its channel, and
\* one subscriber it has not before it any more.
HandFits(l) ==
  /\ g[l].pc = "idle" <=> g[l].ch = None
  /\ g[l].pc = "idle" => g[l].subs = {}
  /\ g[l].pc # "idle" => g[l].m \in DOMAIN chanOf /\ chanOf[g[l].m] = g[l].ch
  /\ g[l].pc \in {"idle", "each"} <=> g[l].s = None
  /\ g[l].s \notin g[l].subs
  /\ g[l].pc \in {"cut", "deliver"} => g[l].items # <<>>

\* One goroutine for each channel; the messages behind its own come later.
OneForEach == \A l, k \in Listeners : g[l].ch = g[k].ch /\ g[l].ch # None => l = k
WireOrder ==
  \A ch \in Channels : \A i \in DOMAIN wire[ch] :
    /\ wire[ch][i] \in DOMAIN chanOf /\ chanOf[wire[ch][i]] = ch
    /\ \A j \in DOMAIN wire[ch] : i < j => wire[ch][i] < wire[ch][j]
    /\ \A l \in Listeners : g[l].ch = ch => g[l].m < wire[ch][i]

\* Message m of channel ch has not been at subscription s.
NewTo(s, ch, m) == m \notin due[s] /\ (s \notin crossed => last[s][ch] < m)
Fresh ==
  /\ \A s \in Subs : due[s] \subseteq DOMAIN chanOf
  /\ \A s \in Subs, ch \in Channels : s \notin crossed => last[s][ch] <= Len(chanOf)
  /\ \A s \in Subs, ch \in Channels : \A i \in DOMAIN wire[ch] : NewTo(s, ch, wire[ch][i])
  /\ \A l \in Listeners : \A s \in g[l].subs : NewTo(s, g[l].ch, g[l].m)

Enters(l, s) == g[l].s = s /\ g[l].pc \in {"gate", "push", "append"}
Hands(l, s) == g[l].s = s /\ At(l, "deliver")
\* Nobody else changes the items while a goroutine is about to write them back.
Touches(l, s) == g[l].s = s /\ g[l].pc \in {"append", "cut"}
Apart(s) ==
  /\ \A l, k \in Listeners : Touches(l, s) /\ Touches(k, s) => l = k
  /\ \A l \in Listeners : Touches(l, s) => g[l].items = buf[s]

\* A message that is due is with a goroutine that brings it to the buffer, in
\* the buffer, or with one that has taken it out.
Somewhere(s, m) ==
  \/ \E l \in Listeners : Enters(l, s) /\ g[l].m = m
  \/ \E i \in DOMAIN buf[s] : buf[s][i] = m
  \/ \E l \in Listeners : Hands(l, s) /\ Head(g[l].items) = m
Once(s) ==
  /\ \A i, j \in DOMAIN buf[s] : buf[s][i] = buf[s][j] => i = j
  /\ \A l, k \in Listeners :
       Hands(l, s) /\ Hands(k, s) /\ Head(g[l].items) = Head(g[k].items) => l = k
  /\ \A l \in Listeners, i \in DOMAIN buf[s] : Enters(l, s) => g[l].m # buf[s][i]
  /\ \A l, k \in Listeners : Enters(l, s) /\ Hands(k, s) => g[l].m # Head(g[k].items)
  /\ \A l \in Listeners, i \in DOMAIN buf[s] : Hands(l, s) => Head(g[l].items) # buf[s][i]

\* Whoever put an item into the buffer stays until somebody took one out.
Flushers(s) == {l \in Listeners : g[l].s = s /\ g[l].pc \in {"pop", "cut"}}
Flushed(s) == IsFiniteSet(Flushers(s)) /\ Len(buf[s]) <= Cardinality(Flushers(s))

Placed(s) ==
  Apart(s) /\ Once(s) /\ Flushed(s) /\ \A m \in Nat : m \in due[s] <=> Somewhere(s, m)

\* While one goroutine at a time delivers to s, it delivers what it brought.
Delivers(l, s) == g[l].s = s /\ g[l].pc \in {"append", "pop", "cut", "deliver"}
Single(s) ==
  /\ \A l, k \in Listeners : Delivers(l, s) /\ Delivers(k, s) => l = k
  /\ \A i \in DOMAIN buf[s] : \E l \in Flushers(s) : buf[s][i] = g[l].m
  /\ \A l \in Listeners : Hands(l, s) => Head(g[l].items) = g[l].m
  /\ \A m \in due[s] : last[s][chanOf[m]] < m

FanInv ==
  /\ FanTypes /\ (\A l \in Listeners : HandFits(l)) /\ OneForEach /\ WireOrder /\ Fresh
  /\ \A s \in Subs : s \notin torn => Placed(s)
  /\ \A s \in Subs : s \notin crossed => s \notin torn /\ Single(s)

-----------------------------------------------------------------------------
(* What the invariant gives *)

\* No two goroutines are at one message.
LEMMA OneMessage ==
  ASSUME FanInv, NEW l \in Listeners, NEW k \in Listeners, g[l].pc # "idle", g[k].pc # "idle",
         g[l].m = g[k].m
  PROVE  l = k
<1>1. g[l].ch = g[k].ch /\ g[l].ch # None
  BY DEF FanInv, HandFits
<1> QED BY <1>1 DEF FanInv, OneForEach

LEMMA NotNone == None \notin Channels /\ None \notin Subs
BY FanoutAssumption

\* A set with one member at most, if it is known whether there is one.
LEMMA CountOne ==
  ASSUME NEW S, NEW x, \A y \in S : y = x
  PROVE  Cardinality(S) = IF x \in S THEN 1 ELSE 0
<1>1. CASE x \in S
  <2>1. S = {x}
    BY <1>1
  <2> QED BY <1>1, <2>1, FS_Singleton
<1>2. CASE x \notin S
  <2>1. S = {}
    BY <1>2
  <2> QED BY <1>2, <2>1, FS_EmptySet
<1> QED BY <1>1, <1>2

LEMMA CountNone == ASSUME NEW S, S = {} PROVE Cardinality(S) = 0
BY FS_EmptySet

\* The copies of a message that is due: one of three.
LEMMA CopiesCounted ==
  ASSUME FanInv, NEW s \in Subs, s \notin torn, NEW m \in Nat
  PROVE  Copies(s, m) = IF m \in due[s] THEN 1 ELSE 0
<1> DEFINE W == {l \in Held(s) : g[l].m = m /\ g[l].pc \in {"gate", "push", "append"}}
           B == {i \in DOMAIN buf[s] : buf[s][i] = m /\ ~\E l \in Held(s) : At(l, "cut") /\ i = 1}
           O == {l \in Held(s) : g[l].pc \in {"cut", "deliver"} /\ Head(g[l].items) = m}
<1>1. Copies(s, m) = Cardinality(W) + Cardinality(B) + Cardinality(O)
  BY DEF Copies
<1>2. Apart(s) /\ Once(s) /\ (m \in due[s] <=> Somewhere(s, m))
  BY DEF FanInv, Placed
<1>3. \A l : l \in W <=> l \in Listeners /\ Enters(l, s) /\ g[l].m = m
  BY DEF Held, Enters
<1>4. buf[s] \in Seq(Nat)
  BY DEF FanInv, FanTypes
<1>5. \A l \in Listeners : g[l].s = s /\ At(l, "cut") =>
        1 \in DOMAIN buf[s] /\ Head(g[l].items) = buf[s][1] /\ g[l].items = buf[s]
  <2> SUFFICES ASSUME NEW l \in Listeners, g[l].s = s, At(l, "cut")
               PROVE  1 \in DOMAIN buf[s] /\ Head(g[l].items) = buf[s][1] /\ g[l].items = buf[s]
    OBVIOUS
  <2>1. g[l].items = buf[s] /\ g[l].items # <<>>
    BY <1>2 DEF Apart, Touches, At, FanInv, HandFits
  <2> QED BY <1>4, <2>1
<1>6. \A l : l \in O <=> /\ l \in Listeners /\ g[l].s = s
                         /\ \/ Hands(l, s) /\ Head(g[l].items) = m
                            \/ At(l, "cut") /\ buf[s][1] = m
  BY <1>5 DEF Held, Hands, At
<1>7. \A l, k \in W : l = k
  BY <1>3, OneMessage DEF Enters
<1>8. \A i, j \in B : i = j
  BY <1>2 DEF Once
<1>9. \A l, k \in O : l = k
  <2> SUFFICES ASSUME NEW l \in O, NEW k \in O PROVE l = k
    OBVIOUS
  <2>1. CASE Hands(l, s) /\ Hands(k, s)
    BY <1>2, <1>6, <2>1 DEF Once, Hands, At
  <2>2. CASE At(l, "cut") /\ At(k, "cut")
    BY <1>2, <1>6, <2>2 DEF Apart, Touches, At
  <2>3. CASE Hands(l, s) /\ At(k, "cut")
    BY <1>2, <1>5, <1>6, <2>3 DEF Once, Hands, At
  <2>4. CASE At(l, "cut") /\ Hands(k, s)
    BY <1>2, <1>5, <1>6, <2>4 DEF Once, Hands, At
  <2> QED BY <1>6, <2>1, <2>2, <2>3, <2>4
<1>10. W = {} \/ B = {}
  BY <1>2, <1>3 DEF Once
<1>11. W = {} \/ O = {}
  <2> SUFFICES ASSUME NEW l \in W, NEW k \in O PROVE FALSE
    OBVIOUS
  <2>1. CASE Hands(k, s) /\ Head(g[k].items) = m
    BY <1>2, <1>3, <1>6, <2>1 DEF Once
  <2>2. CASE At(k, "cut") /\ buf[s][1] = m
    BY <1>2, <1>3, <1>5, <1>6, <2>2 DEF Once
  <2> QED BY <1>6, <2>1, <2>2
<1>12. B = {} \/ O = {}
  <2> SUFFICES ASSUME NEW i \in B, NEW k \in O PROVE FALSE
    OBVIOUS
  <2>1. CASE Hands(k, s) /\ Head(g[k].items) = m
    BY <1>2, <1>6, <2>1 DEF Once
  <2>2. CASE At(k, "cut") /\ buf[s][1] = m
    <3>1. 1 \in DOMAIN buf[s] /\ i = 1
      BY <1>2, <1>5, <1>6, <2>2 DEF Once
    <3> QED BY <1>6, <2>2, <3>1 DEF Held
  <2> QED BY <1>6, <2>1, <2>2
<1>13. Somewhere(s, m) <=> W # {} \/ B # {} \/ O # {}
  <2>1. (\E l \in Listeners : Enters(l, s) /\ g[l].m = m) <=> W # {}
    BY <1>3
  <2>2. (\E l \in Listeners : Hands(l, s) /\ Head(g[l].items) = m) => O # {}
    BY <1>6 DEF Hands
  <2>3. (\E i \in DOMAIN buf[s] : buf[s][i] = m) => B # {} \/ O # {}
    <3> SUFFICES ASSUME NEW i \in DOMAIN buf[s], buf[s][i] = m PROVE B # {} \/ O # {}
      OBVIOUS
    <3>1. CASE \E l \in Held(s) : At(l, "cut") /\ i = 1
      BY <1>6, <3>1 DEF Held
    <3>2. CASE ~\E l \in Held(s) : At(l, "cut") /\ i = 1
      BY <3>2
    <3> QED BY <3>1, <3>2
  <2>4. B # {} => \E i \in DOMAIN buf[s] : buf[s][i] = m
    OBVIOUS
  <2>5. O # {} => \/ \E l \in Listeners : Hands(l, s) /\ Head(g[l].items) = m
                  \/ \E i \in DOMAIN buf[s] : buf[s][i] = m
    BY <1>5, <1>6
  <2> QED BY <2>1, <2>2, <2>3, <2>4, <2>5 DEF Somewhere
<1> HIDE DEF W, B, O
<1>14. \A S \in {W, B, O} : Cardinality(S) = IF S # {} THEN 1 ELSE 0
  BY <1>7, <1>8, <1>9, CountOne, CountNone
<1>15. Cardinality(W) = (IF W # {} THEN 1 ELSE 0) /\ Cardinality(B) = (IF B # {} THEN 1 ELSE 0)
       /\ Cardinality(O) = IF O # {} THEN 1 ELSE 0
  BY <1>14
<1> QED BY <1>1, <1>2, <1>10, <1>11, <1>12, <1>13, <1>15

LEMMA InvGivesOnce == FanInv => OnceEach
<1> SUFFICES ASSUME FanInv, NEW s \in Subs, s \notin torn
             PROVE  /\ \A m \in 1..Len(chanOf) :
                         /\ Copies(s, m) = IF m \in due[s] THEN 1 ELSE 0
                         /\ m \in due[s] /\ s \notin crossed => m > last[s][chanOf[m]]
                    /\ Held(s) = {} => buf[s] = <<>>
  BY DEF OnceEach
<1>1. ASSUME NEW m \in 1..Len(chanOf), m \in due[s], s \notin crossed
      PROVE  m > last[s][chanOf[m]]
  BY <1>1 DEF FanInv, Single
<1>2. ASSUME Held(s) = {} PROVE buf[s] = <<>>
  <2>1. Flushers(s) = {}
    BY <1>2 DEF Held, Flushers
  <2>2. Len(buf[s]) <= 0 /\ buf[s] \in Seq(Nat)
    BY <2>1, FS_EmptySet DEF FanInv, FanTypes, Placed, Flushed
  <2> QED BY <2>2
<1>3. 1..Len(chanOf) \subseteq Nat
  BY DEF FanInv, FanTypes
<1> QED BY <1>1, <1>2, <1>3, CopiesCounted

-----------------------------------------------------------------------------
(* How a step of one goroutine looks to a subscription *)

\* Goroutine l goes on with its message, at pc, with subscriber t and items.
Becomes(l, pc, t, items) ==
  /\ g' \in [Listeners -> Goroutine]
  /\ \A k \in Listeners : k # l => g'[k] = g[k]
  /\ g'[l].pc = pc /\ g'[l].s = t /\ g'[l].items = items
  /\ g'[l].ch = g[l].ch /\ g'[l].m = g[l].m /\ g'[l].subs = g[l].subs

LEMMA ItGoes ==
  ASSUME FanTypes, NEW l \in Listeners, NEW pc \in Places, Goes(l, pc)
  PROVE  Becomes(l, pc, g[l].s, g[l].items)
<1> DEFINE r == [g[l] EXCEPT !.pc = pc]
<1>1. g[l] \in Goroutine /\ g \in [Listeners -> Goroutine]
  BY DEF FanTypes
<1>2. /\ r \in Goroutine /\ r.pc = pc /\ r.s = g[l].s /\ r.items = g[l].items
      /\ r.ch = g[l].ch /\ r.m = g[l].m /\ r.subs = g[l].subs
  BY <1>1 DEF Goroutine
<1>3. g' = [g EXCEPT ![l] = r]
  BY <1>1 DEF Goes
<1> HIDE DEF r
<1>4. g' \in [Listeners -> Goroutine] /\ g'[l] = r /\ \A k \in Listeners : k # l => g'[k] = g[k]
  BY <1>1, <1>2, <1>3
<1> QED BY <1>2, <1>4 DEF Becomes

LEMMA ItLeaves ==
  ASSUME FanTypes, NEW l \in Listeners, Leaves(l)
  PROVE  Becomes(l, "each", None, <<>>)
<1> DEFINE r == [g[l] EXCEPT !.pc = "each", !.s = None, !.items = <<>>]
<1>1. g[l] \in Goroutine /\ g \in [Listeners -> Goroutine]
  BY DEF FanTypes
<1>5. <<>> \in Seq(Nat) /\ "each" \in Places
  BY DEF Places
<1>2. /\ r \in Goroutine /\ r.pc = "each" /\ r.s = None /\ r.items = <<>>
      /\ r.ch = g[l].ch /\ r.m = g[l].m /\ r.subs = g[l].subs
  BY <1>1, <1>5 DEF Goroutine
<1>3. g' = [g EXCEPT ![l] = r]
  BY <1>1 DEF Leaves
<1> HIDE DEF r
<1>4. g' \in [Listeners -> Goroutine] /\ g'[l] = r /\ \A k \in Listeners : k # l => g'[k] = g[k]
  BY <1>1, <1>2, <1>3
<1> QED BY <1>2, <1>4 DEF Becomes

LEMMA ItReads ==
  ASSUME FanTypes, NEW l \in Listeners, NEW pc \in Places, NEW s \in Subs,
         g' = [g EXCEPT ![l].pc = pc, ![l].items = buf[s]]
  PROVE  Becomes(l, pc, g[l].s, buf[s])
<1> DEFINE r == [g[l] EXCEPT !.pc = pc, !.items = buf[s]]
<1>1. g[l] \in Goroutine /\ g \in [Listeners -> Goroutine] /\ buf[s] \in Seq(Nat)
  BY DEF FanTypes
<1>2. /\ r \in Goroutine /\ r.pc = pc /\ r.s = g[l].s /\ r.items = buf[s]
      /\ r.ch = g[l].ch /\ r.m = g[l].m /\ r.subs = g[l].subs
  BY <1>1 DEF Goroutine
<1>3. g' = [g EXCEPT ![l] = r]
  BY <1>1
<1> HIDE DEF r
<1>4. g' \in [Listeners -> Goroutine] /\ g'[l] = r /\ \A k \in Listeners : k # l => g'[k] = g[k]
  BY <1>1, <1>2, <1>3
<1> QED BY <1>2, <1>4 DEF Becomes

LEMMA ItWrites ==
  ASSUME FanTypes, NEW l \in Listeners, g' = [g EXCEPT ![l].pc = "pop", ![l].items = <<>>]
  PROVE  Becomes(l, "pop", g[l].s, <<>>)
<1> DEFINE r == [g[l] EXCEPT !.pc = "pop", !.items = <<>>]
<1>1. g[l] \in Goroutine /\ g \in [Listeners -> Goroutine]
  BY DEF FanTypes
<1>5. <<>> \in Seq(Nat) /\ "pop" \in Places
  BY DEF Places
<1>2. /\ r \in Goroutine /\ r.pc = "pop" /\ r.s = g[l].s /\ r.items = <<>>
      /\ r.ch = g[l].ch /\ r.m = g[l].m /\ r.subs = g[l].subs
  BY <1>1, <1>5 DEF Goroutine
<1>3. g' = [g EXCEPT ![l] = r]
  BY <1>1
<1> HIDE DEF r
<1>4. g' \in [Listeners -> Goroutine] /\ g'[l] = r /\ \A k \in Listeners : k # l => g'[k] = g[k]
  BY <1>1, <1>2, <1>3
<1> QED BY <1>2, <1>4 DEF Becomes

\* Nothing changes for subscription s.
Untouched(s) ==
  /\ buf'[s] = buf[s] /\ due'[s] = due[s] /\ last'[s] = last[s]
  /\ s \in torn' <=> s \in torn
  /\ s \in crossed' <=> s \in crossed
  /\ \A m \in due[s] : chanOf'[m] = chanOf[m]
  /\ \A l \in Listeners :
       /\ g'[l].s = s <=> g[l].s = s
       /\ g[l].s = s => g'[l].pc = g[l].pc /\ g'[l].m = g[l].m /\ g'[l].items = g[l].items

LEMMA UntouchedRoles ==
  ASSUME NEW s \in Subs, Untouched(s)
  PROVE  /\ \A l \in Listeners : /\ Enters(l, s)' <=> Enters(l, s)
                                 /\ Hands(l, s)' <=> Hands(l, s)
                                 /\ Touches(l, s)' <=> Touches(l, s)
                                 /\ Delivers(l, s)' <=> Delivers(l, s)
                                 /\ Enters(l, s) \/ Hands(l, s) \/ Touches(l, s) \/ l \in Flushers(s) =>
                                      g'[l].m = g[l].m /\ g'[l].items = g[l].items
         /\ Flushers(s)' = Flushers(s)
BY DEF Untouched, Enters, Hands, Touches, Delivers, Flushers, At

LEMMA UntouchedPlaced ==
  ASSUME NEW s \in Subs, Untouched(s), Placed(s)
  PROVE  Placed(s)'
<1>1. buf'[s] = buf[s] /\ due'[s] = due[s]
  BY DEF Untouched
<1>2. Apart(s)'
  BY <1>1, UntouchedRoles DEF Placed, Apart
<1>3. Once(s)'
  BY <1>1, UntouchedRoles DEF Placed, Once
<1>4. Flushed(s)'
  BY <1>1, UntouchedRoles DEF Placed, Flushed
<1>5. \A m \in Nat : Somewhere(s, m)' <=> Somewhere(s, m)
  BY <1>1, UntouchedRoles DEF Somewhere
<1> QED BY <1>1, <1>2, <1>3, <1>4, <1>5 DEF Placed

LEMMA UntouchedSingle ==
  ASSUME NEW s \in Subs, Untouched(s), Single(s)
  PROVE  Single(s)'
<1>1. /\ buf'[s] = buf[s] /\ due'[s] = due[s] /\ last'[s] = last[s]
      /\ \A m \in due[s] : chanOf'[m] = chanOf[m]
  BY DEF Untouched
<1>2. \A i \in DOMAIN buf[s] : \E l \in Flushers(s)' : buf[s][i] = g'[l].m
  <2>1. \A l \in Flushers(s) : g'[l].m = g[l].m
    BY UntouchedRoles DEF Flushers
  <2> QED BY <2>1, UntouchedRoles DEF Single
<1> QED BY <1>1, <1>2, UntouchedRoles DEF Single

\* A step that touches at most one subscription.
LEMMA OneTouched ==
  ASSUME FanInv, NEW t, (FanTypes /\ OneForEach /\ WireOrder /\ Fresh)',
         \A l \in Listeners : HandFits(l)',
         \A s \in Subs : s # t => Untouched(s),
         t \in Subs => /\ t \notin torn' => Placed(t)'
                       /\ t \notin crossed' => t \notin torn' /\ Single(t)'
  PROVE  FanInv'
<1>1. ASSUME NEW s \in Subs, s \notin torn' PROVE Placed(s)'
  <2>1. CASE s # t
    BY <1>1, <2>1, UntouchedPlaced DEF Untouched, FanInv
  <2> QED BY <1>1, <2>1
<1>2. ASSUME NEW s \in Subs, s \notin crossed' PROVE s \notin torn' /\ Single(s)'
  <2>1. CASE s # t
    BY <1>2, <2>1, UntouchedSingle DEF Untouched, FanInv
  <2> QED BY <1>2, <2>1
<1> QED BY <1>1, <1>2 DEF FanInv

\* What the others do for s stays as it is, and l does what its place says.
LEMMA Roles ==
  ASSUME NEW l \in Listeners, NEW pc, NEW t, NEW items, Becomes(l, pc, t, items),
         NEW s \in Subs, g[l].s = s, t = s \/ t = None
  PROVE  /\ \A k \in Listeners : g'[k].m = g[k].m /\ (k # l => g'[k].items = g[k].items)
         /\ \A k \in Listeners :
              /\ Enters(k, s)' <=> IF k = l THEN t = s /\ pc \in {"gate", "push", "append"}
                                   ELSE Enters(k, s)
              /\ Hands(k, s)' <=> IF k = l THEN t = s /\ pc = "deliver" ELSE Hands(k, s)
              /\ Touches(k, s)' <=> IF k = l THEN t = s /\ pc \in {"append", "cut"}
                                    ELSE Touches(k, s)
              /\ Delivers(k, s)' <=> IF k = l
                                     THEN t = s /\ pc \in {"append", "pop", "cut", "deliver"}
                                     ELSE Delivers(k, s)
         /\ Flushers(s)' = IF t = s /\ pc \in {"pop", "cut"} THEN Flushers(s) \cup {l}
                           ELSE Flushers(s) \ {l}
<1>1. \A k \in Listeners : k # l => g'[k] = g[k]
  BY DEF Becomes
<1>2. g'[l].pc = pc /\ g'[l].s = t /\ g'[l].m = g[l].m
  BY DEF Becomes
<1>3. \A k \in Listeners : g'[k].m = g[k].m /\ (k # l => g'[k].items = g[k].items)
  BY <1>1, <1>2
<1>4. \A k \in Listeners :
        /\ Enters(k, s)' <=> IF k = l THEN t = s /\ pc \in {"gate", "push", "append"}
                             ELSE Enters(k, s)
        /\ Hands(k, s)' <=> IF k = l THEN t = s /\ pc = "deliver" ELSE Hands(k, s)
        /\ Touches(k, s)' <=> IF k = l THEN t = s /\ pc \in {"append", "cut"}
                              ELSE Touches(k, s)
        /\ Delivers(k, s)' <=> IF k = l
                               THEN t = s /\ pc \in {"append", "pop", "cut", "deliver"}
                               ELSE Delivers(k, s)
  BY <1>1, <1>2 DEF Enters, Hands, Touches, Delivers, At
<1>5. Flushers(s)' = IF t = s /\ pc \in {"pop", "cut"} THEN Flushers(s) \cup {l}
                     ELSE Flushers(s) \ {l}
  BY <1>1, <1>2 DEF Flushers
<1> QED BY <1>3, <1>4, <1>5

\* Nothing but subscription s is touched.
Only(s) ==
  /\ \A x \in Subs : x # s =>
       /\ buf'[x] = buf[x] /\ due'[x] = due[x] /\ last'[x] = last[x]
       /\ x \in torn' <=> x \in torn
       /\ x \in crossed' <=> x \in crossed
  /\ UNCHANGED <<listeners, wire, chanOf, members>>
  /\ buf' \in [Subs -> Seq(Nat)] /\ due' \in [Subs -> SUBSET Nat]
  /\ last' \in [Subs -> [Channels -> Nat]]

\* What is new stays new.
LEMMA StaysFresh ==
  ASSUME FanInv, NEW l \in Listeners, NEW pc, NEW t, NEW items, Becomes(l, pc, t, items),
         UNCHANGED <<wire, chanOf, last>>, \A s \in Subs : due'[s] \subseteq due[s],
         crossed \subseteq crossed'
  PROVE  Fresh'
<1>1. \A k \in Listeners : g'[k].ch = g[k].ch /\ g'[k].m = g[k].m /\ g'[k].subs = g[k].subs
  BY DEF Becomes
<1>2. \A k \in Listeners : g[k].subs \subseteq Subs
  BY DEF FanInv, FanTypes, Goroutine
<1>3. \A s \in Subs : /\ due'[s] \subseteq due[s] /\ last'[s] = last[s]
                      /\ s \notin crossed' => s \notin crossed
  OBVIOUS
<1>4. \A s \in Subs : due'[s] \subseteq DOMAIN chanOf
  BY DEF FanInv, Fresh
<1>5. \A s \in Subs, ch \in Channels : s \notin crossed' => last[s][ch] <= Len(chanOf)
  BY DEF FanInv, Fresh
<1>6. \A s \in Subs, ch \in Channels : \A i \in DOMAIN wire[ch] :
        wire[ch][i] \notin due'[s] /\ (s \notin crossed' => last'[s][ch] < wire[ch][i])
  BY <1>3 DEF FanInv, Fresh, NewTo
<1>7. \A k \in Listeners : \A s \in g[k].subs :
        g[k].m \notin due'[s] /\ (s \notin crossed' => last'[s][g[k].ch] < g[k].m)
  BY <1>2, <1>3 DEF FanInv, Fresh, NewTo
<1> QED BY <1>1, <1>4, <1>5, <1>6, <1>7 DEF Fresh, NewTo

LEMMA HandStaysFit ==
  ASSUME FanInv, NEW l \in Listeners, NEW pc \in Places \ {"idle"}, NEW t, NEW items,
         Becomes(l, pc, t, items), g[l].pc # "idle", t = g[l].s \/ t = None,
         t = None <=> pc = "each", pc \in {"cut", "deliver"} => items # <<>>,
         UNCHANGED <<wire, chanOf>>
  PROVE  (\A k \in Listeners : HandFits(k)') /\ OneForEach' /\ WireOrder'
<1>1. \A k \in Listeners : /\ g'[k].ch = g[k].ch /\ g'[k].m = g[k].m /\ g'[k].subs = g[k].subs
                           /\ k # l => g'[k] = g[k]
  BY DEF Becomes
<1>2. g'[l].pc = pc /\ g'[l].s = t /\ g'[l].items = items
  BY DEF Becomes
<1>3. g[l].subs \subseteq Subs /\ None \notin Subs
  BY NotNone DEF FanInv, FanTypes, Goroutine
<1>4. HandFits(l)'
  BY <1>1, <1>2, <1>3 DEF FanInv, HandFits
<1>5. \A k \in Listeners : k # l => HandFits(k)'
  BY <1>1 DEF FanInv, HandFits
<1>6. OneForEach'
  BY <1>1 DEF FanInv, OneForEach
<1>7. WireOrder'
  BY <1>1 DEF FanInv, WireOrder
<1> QED BY <1>4, <1>5, <1>6, <1>7

LEMMA GoroutineStep ==
  ASSUME FanInv, NEW l \in Listeners, NEW pc \in Places \ {"idle"}, NEW t, NEW items,
         NEW s \in Subs, g[l].s = s, Becomes(l, pc, t, items), t = s \/ t = None,
         t = None <=> pc = "each", pc \in {"cut", "deliver"} => items # <<>>,
         Only(s), Fresh',
         s \notin torn' => Placed(s)', s \notin crossed' => s \notin torn' /\ Single(s)'
  PROVE  FanInv'
<1>1. g[l].pc # "idle"
  BY NotNone DEF FanInv, HandFits
<1>2. FanTypes'
  BY DEF FanInv, FanTypes, Only, Becomes
<1>3. (\A k \in Listeners : HandFits(k)') /\ OneForEach' /\ WireOrder'
  BY <1>1, HandStaysFit DEF Only
<1>4. ASSUME NEW x \in Subs, x # s PROVE Untouched(x)
  <2>1. g'[l].s # x /\ g[l].s # x
    BY <1>4, NotNone DEF Becomes
  <2>2. \A k \in Listeners : k # l => g'[k] = g[k]
    BY DEF Becomes
  <2> QED BY <1>4, <2>1, <2>2 DEF Untouched, Only
<1> QED BY <1>2, <1>3, <1>4, OneTouched

\* Where goroutine l is, when s is its subscriber.
LEMMA HasSubscriber ==
  ASSUME FanInv, NEW l \in Listeners, g[l].pc \notin {"idle", "each"}
  PROVE  g[l].s \in Subs /\ g[l].m \in Nat /\ g[l].items \in Seq(Nat) /\ buf[g[l].s] \in Seq(Nat)
BY DEF FanInv, FanTypes, HandFits, Goroutine

-----------------------------------------------------------------------------
(* The steps of a delivery *)

\* No two goroutines enter with one message.
LEMMA EntersOne ==
  ASSUME FanInv, NEW s \in Subs
  PROVE  \A l, k \in Listeners : Enters(l, s) /\ Enters(k, s) /\ g[l].m = g[k].m => l = k
BY OneMessage DEF Enters

\* A goroutine that leaves does nothing for s any more.
LEMMA RolesLeft ==
  ASSUME NEW l \in Listeners, NEW s \in Subs, g[l].s = s, FanTypes, Leaves(l)
  PROVE  /\ \A k \in Listeners :
              /\ g'[k].m = g[k].m
              /\ k # l => g'[k].items = g[k].items
              /\ Enters(k, s)' <=> Enters(k, s) /\ k # l
              /\ Hands(k, s)' <=> Hands(k, s) /\ k # l
              /\ Touches(k, s)' <=> Touches(k, s) /\ k # l
              /\ Delivers(k, s)' <=> Delivers(k, s) /\ k # l
         /\ Flushers(s)' = Flushers(s) \ {l}
<1>1. Becomes(l, "each", None, <<>>) /\ None # s
  BY ItLeaves, NotNone
<1> HIDE DEF Leaves
<1> QED BY <1>1, Roles

LEMMA DropsEntering ==
  ASSUME FanInv, NEW l \in Listeners, NEW s \in Subs, Enters(l, s), Leaves(l), Drop(s, g[l].m),
         UNCHANGED <<listeners, wire, chanOf, members, buf, last>>,
         torn' \in {torn, torn \cup {s}}, crossed' \in {crossed, crossed \cup {s}},
         s \notin crossed' => s \notin torn'
  PROVE  FanInv'
<1>1. g[l].s = s /\ g[l].pc # "idle" /\ FanTypes /\ ~Hands(l, s) /\ l \notin Flushers(s)
  BY DEF Enters, Hands, Flushers, At, FanInv
<1>2. Becomes(l, "each", None, <<>>)
  BY <1>1, ItLeaves
<1>3. /\ \A k \in Listeners : /\ g'[k].m = g[k].m
                              /\ k # l => g'[k].items = g[k].items
                              /\ Enters(k, s)' <=> Enters(k, s) /\ k # l
                              /\ Hands(k, s)' <=> Hands(k, s)
                              /\ Touches(k, s)' <=> Touches(k, s) /\ k # l
                              /\ Delivers(k, s)' <=> Delivers(k, s) /\ k # l
      /\ Flushers(s)' = Flushers(s)
  <2>1. Flushers(s) \ {l} = Flushers(s)
    BY <1>1
  <2> QED BY <1>1, <2>1, RolesLeft
<1>4. due'[s] = due[s] \ {g[l].m} /\ due' \in [Subs -> SUBSET Nat]
      /\ \A x \in Subs : due'[x] \subseteq due[x] /\ (x # s => due'[x] = due[x])
  BY <1>1 DEF Drop, FanTypes
<1>5. Only(s)
  BY <1>1, <1>4 DEF Only, FanTypes
<1>6. Fresh'
  BY <1>2, <1>4, StaysFresh
<1>7. ASSUME s \notin torn' PROVE Placed(s)'
  <2>1. Placed(s)
    BY <1>7 DEF FanInv
  <2>2. Apart(s)'
    BY <1>3, <2>1 DEF Placed, Apart
  <2>3. Once(s)'
    BY <1>1, <1>3, <2>1 DEF Placed, Once
  <2>4. Flushed(s)'
    BY <1>3, <2>1 DEF Placed, Flushed
  <2>5. ASSUME NEW m \in Nat PROVE Somewhere(s, m)' <=> Somewhere(s, m) /\ m # g[l].m
    <3>1. \A k \in Listeners : Hands(k, s) => Head(g'[k].items) = Head(g[k].items)
      BY <1>1, <1>3
    <3>2. CASE m = g[l].m
      BY <1>3, <2>1, <3>1, <3>2, EntersOne DEF Somewhere, Placed, Once
    <3>3. CASE m # g[l].m
      BY <1>3, <3>1, <3>3 DEF Somewhere
    <3> QED BY <3>2, <3>3
  <2> QED BY <1>4, <2>1, <2>2, <2>3, <2>4, <2>5 DEF Placed
<1>8. ASSUME s \notin crossed' PROVE s \notin torn' /\ Single(s)'
  <2>1. Single(s)
    BY <1>8 DEF FanInv
  <2>2. \A k \in Listeners : Hands(k, s) => Head(g'[k].items) = Head(g[k].items)
    BY <1>1, <1>3
  <2>3. \A k \in Flushers(s) : g'[k].m = g[k].m
    BY <1>3 DEF Flushers
  <2> QED BY <1>3, <1>4, <1>8, <2>1, <2>2, <2>3 DEF Single
<1> QED BY <1>1, <1>2, <1>5, <1>6, <1>7, <1>8, GoroutineStep DEF Places

LEMMA AllowStep ==
  ASSUME FanInv, NEW l \in Listeners, NEW s \in Subs, g[l].s = s, AllowOutbound(l)
  PROVE  FanInv'
<1>1. /\ g[l].pc = "gate" /\ Enters(l, s) /\ FanTypes
      /\ UNCHANGED <<listeners, wire, chanOf, members, buf, last, torn, crossed>>
  BY DEF AllowOutbound, At, Enters, subscribers, races, FanInv
<1>2. CASE Drop(s, g[l].m) /\ Leaves(l)
  <2>1. s \notin crossed' => s \notin torn'
    BY <1>1 DEF FanInv
  <2> QED BY <1>1, <1>2, <2>1, DropsEntering
<1>3. CASE Goes(l, "push") /\ UNCHANGED due
  <2>1. Becomes(l, "push", s, g[l].items)
    BY <1>1, <1>3, ItGoes DEF Places
  <2>2. ~Hands(l, s) /\ ~Touches(l, s) /\ ~Delivers(l, s) /\ l \notin Flushers(s)
    BY <1>1 DEF Hands, Touches, Delivers, Flushers, At
  <2>3. Flushers(s) \ {l} = Flushers(s)
    BY <2>2
  <2>4. /\ \A k \in Listeners : /\ g'[k].m = g[k].m /\ (k # l => g'[k].items = g[k].items)
                                /\ Enters(k, s)' <=> Enters(k, s)
                                /\ Hands(k, s)' <=> Hands(k, s)
                                /\ Touches(k, s)' <=> Touches(k, s)
                                /\ Delivers(k, s)' <=> Delivers(k, s)
        /\ Flushers(s)' = Flushers(s)
    <3>1. /\ \A k \in Listeners : g'[k].m = g[k].m /\ (k # l => g'[k].items = g[k].items)
          /\ \A k \in Listeners :
               /\ Enters(k, s)' <=> k = l \/ Enters(k, s)
               /\ Hands(k, s)' <=> k # l /\ Hands(k, s)
               /\ Touches(k, s)' <=> k # l /\ Touches(k, s)
               /\ Delivers(k, s)' <=> k # l /\ Delivers(k, s)
          /\ Flushers(s)' = Flushers(s) \ {l}
      BY <2>1, Roles
    <3> QED BY <1>1, <2>2, <2>3, <3>1
  <2>5. Only(s)
    BY <1>1, <1>3 DEF Only, FanTypes
  <2>6. Fresh'
    BY <1>1, <1>3, <2>1, StaysFresh
  <2>7. \A k \in Listeners : Hands(k, s) \/ Touches(k, s) => g'[k].items = g[k].items
    BY <2>2, <2>4
  <2>8. ASSUME s \notin torn' PROVE Placed(s)'
    <3>1. Placed(s)
      BY <1>1, <2>8 DEF FanInv
    <3>2. Apart(s)' /\ Once(s)' /\ Flushed(s)'
      BY <1>1, <2>4, <2>7, <3>1 DEF Placed, Apart, Once, Flushed
    <3>3. \A m \in Nat : Somewhere(s, m)' <=> Somewhere(s, m)
      BY <1>1, <2>4, <2>7 DEF Somewhere
    <3> QED BY <1>3, <3>1, <3>2, <3>3 DEF Placed
  <2>9. ASSUME s \notin crossed' PROVE s \notin torn' /\ Single(s)'
    <3>1. Single(s) /\ s \notin torn
      BY <1>1, <2>9 DEF FanInv
    <3>2. \A k \in Flushers(s) : g'[k].m = g[k].m
      BY <2>4 DEF Flushers
    <3> QED BY <1>1, <1>3, <2>4, <2>7, <3>1, <3>2 DEF Single
  <2> QED BY <1>1, <2>1, <2>5, <2>6, <2>8, <2>9, NotNone, GoroutineStep DEF Places
<1> QED BY <1>2, <1>3 DEF AllowOutbound

\* Who overlaps an access to the items is told from torn, who overlaps a delivery
\* from crossed.
LEMMA TouchTells ==
  ASSUME NEW l \in Listeners, NEW s \in Subs, g[l].s = s, Touch(l)
  PROVE  /\ torn' \in {torn, torn \cup {s}}
         /\ s \notin torn' => \A k \in Listeners : k # l => ~Touches(k, s)
         /\ (\A k \in Listeners : k # l => ~Touches(k, s)) => torn' = torn
BY DEF Touch, Others, Touches

LEMMA PushReadsStep ==
  ASSUME FanInv, NEW l \in Listeners, NEW s \in Subs, g[l].s = s, PushReads(l)
  PROVE  FanInv'
<1>1. /\ g[l].pc = "push" /\ Enters(l, s) /\ FanTypes
      /\ UNCHANGED <<listeners, wire, chanOf, members, buf, last>> /\ Touch(l)
  BY DEF PushReads, At, Enters, subscribers, FanInv
<1>2. /\ torn' \in {torn, torn \cup {s}}
      /\ s \notin torn' => \A k \in Listeners : k # l => ~Touches(k, s)
      /\ (\A k \in Listeners : k # l => ~Touches(k, s)) => torn' = torn
  BY <1>1, TouchTells
<1>3. /\ crossed' \in {crossed, crossed \cup {s}}
      /\ s \notin crossed' => \A k \in Listeners : k # l => ~Delivers(k, s)
  BY DEF PushReads, Others, Delivers
<1>4. s \notin crossed' => s \notin torn' /\ s \notin crossed
  <2>1. s \notin crossed' => \A k \in Listeners : k # l => ~Touches(k, s)
    BY <1>3 DEF Delivers, Touches
  <2> QED BY <1>2, <1>3, <2>1 DEF FanInv
<1>5. CASE Leaves(l) /\ Drop(s, g[l].m)
  BY <1>1, <1>2, <1>3, <1>4, <1>5, DropsEntering
<1>6. CASE g' = [g EXCEPT ![l].pc = "append", ![l].items = buf[s]] /\ UNCHANGED due
  <2>1. Becomes(l, "append", s, buf[s])
    BY <1>1, <1>6, ItReads DEF Places
  <2>2. ~Hands(l, s) /\ l \notin Flushers(s) /\ g'[l].items = buf[s]
    BY <1>1, <2>1 DEF Hands, Flushers, At, Becomes
  <2>3. /\ \A k \in Listeners : g'[k].m = g[k].m /\ (k # l => g'[k].items = g[k].items)
        /\ \A k \in Listeners :
             /\ Enters(k, s)' <=> k = l \/ Enters(k, s)
             /\ Hands(k, s)' <=> k # l /\ Hands(k, s)
             /\ Touches(k, s)' <=> k = l \/ Touches(k, s)
             /\ Delivers(k, s)' <=> k = l \/ Delivers(k, s)
        /\ Flushers(s)' = Flushers(s) \ {l}
    BY <2>1, Roles
  <2>4. Flushers(s)' = Flushers(s)
    BY <2>2, <2>3
  <2>5. Only(s)
    BY <1>1, <1>2, <1>3, <1>6 DEF Only, FanTypes
  <2>6. Fresh'
    BY <1>1, <1>3, <1>6, <2>1, StaysFresh
  <2>7. ASSUME s \notin torn' PROVE Placed(s)'
    <3>1. Placed(s)
      BY <1>2, <2>7 DEF FanInv
    <3>2. Apart(s)'
      BY <1>1, <1>2, <2>2, <2>3, <2>7 DEF Apart
    <3>3. Once(s)'
      BY <1>1, <2>2, <2>3, <3>1 DEF Placed, Once
    <3>4. Flushed(s)'
      BY <1>1, <2>4, <3>1 DEF Placed, Flushed
    <3>5. \A m \in Nat : Somewhere(s, m)' <=> Somewhere(s, m)
      BY <1>1, <2>2, <2>3 DEF Somewhere
    <3> QED BY <1>6, <3>1, <3>2, <3>3, <3>4, <3>5 DEF Placed
  <2>8. ASSUME s \notin crossed' PROVE s \notin torn' /\ Single(s)'
    <3>1. Single(s)
      BY <1>4, <2>8 DEF FanInv
    <3>2. \A k \in Flushers(s) : g'[k].m = g[k].m
      BY <2>3 DEF Flushers
    <3>3. \A k \in Listeners : Hands(k, s)' => Head(g'[k].items) = g'[k].m
      BY <2>2, <2>3, <3>1 DEF Single
    <3>4. \A i \in DOMAIN buf[s] : \E k \in Flushers(s)' : buf[s][i] = g'[k].m
      BY <2>4, <3>1, <3>2 DEF Single
    <3>5. \A j, k \in Listeners : Delivers(j, s)' /\ Delivers(k, s)' => j = k
      BY <1>3, <2>3, <2>8
    <3>6. \A m \in due[s] : last[s][chanOf[m]] < m
      BY <3>1 DEF Single
    <3> QED BY <1>1, <1>4, <1>6, <2>8, <3>3, <3>4, <3>5, <3>6 DEF Single
  <2> QED BY <1>1, <2>1, <2>5, <2>6, <2>7, <2>8, NotNone, GoroutineStep DEF Places
<1> QED BY <1>5, <1>6 DEF PushReads

\* An item is added; the goroutine that added it is at the buffer.
LEMMA PushWritesStep ==
  ASSUME FanInv, NEW l \in Listeners, NEW s \in Subs, g[l].s = s, PushWrites(l)
  PROVE  FanInv'
<1>1. /\ g[l].pc = "append" /\ Enters(l, s) /\ Touches(l, s) /\ Delivers(l, s) /\ FanTypes
      /\ ~Hands(l, s) /\ l \notin Flushers(s)
      /\ UNCHANGED <<listeners, wire, chanOf, members, last, due, torn, crossed>>
      /\ g' = [g EXCEPT ![l].pc = "pop", ![l].items = <<>>]
  BY DEF PushWrites, At, Enters, Touches, Delivers, Hands, Flushers, subscribers, history, races,
         FanInv
<1>2. g[l].m \in Nat /\ g[l].items \in Seq(Nat) /\ buf[s] \in Seq(Nat)
  BY <1>1, HasSubscriber
<1>3. PICK m \in {g[l].m} \cup {g[k].m : k \in {k \in Others(l) : At(k, "append")}} :
        buf' = [buf EXCEPT ![s] = Append(g[l].items, m)]
  BY DEF PushWrites
<1>4. m \in Nat
  BY <1>1, <1>2, <1>3 DEF FanTypes, Goroutine, Others
<1>5. Becomes(l, "pop", s, <<>>)
  BY <1>1, ItWrites
<1>6. /\ \A k \in Listeners : g'[k].m = g[k].m /\ (k # l => g'[k].items = g[k].items)
      /\ \A k \in Listeners :
           /\ Enters(k, s)' <=> k # l /\ Enters(k, s)
           /\ Hands(k, s)' <=> k # l /\ Hands(k, s)
           /\ Touches(k, s)' <=> k # l /\ Touches(k, s)
           /\ Delivers(k, s)' <=> k = l \/ Delivers(k, s)
      /\ Flushers(s)' = Flushers(s) \cup {l}
  BY <1>5, Roles
<1>7. buf' \in [Subs -> Seq(Nat)] /\ buf'[s] = Append(g[l].items, m)
      /\ \A x \in Subs : x # s => buf'[x] = buf[x]
  <2>1. Append(g[l].items, m) \in Seq(Nat)
    BY <1>2, <1>4
  <2> QED BY <1>1, <1>3, <2>1 DEF FanTypes
<1>8. Only(s)
  BY <1>1, <1>7 DEF Only, FanTypes
<1>9. Fresh'
  BY <1>1, <1>5, StaysFresh
<1>10. ASSUME s \notin torn
       PROVE  /\ Placed(s) /\ \A k \in Listeners : Touches(k, s) => k = l
              /\ buf'[s] = Append(buf[s], g[l].m)
              /\ DOMAIN buf'[s] = DOMAIN buf[s] \cup {Len(buf[s]) + 1}
              /\ \A i \in DOMAIN buf[s] : i # Len(buf[s]) + 1 /\ buf'[s][i] = buf[s][i]
              /\ buf'[s][Len(buf[s]) + 1] = g[l].m
              /\ Len(buf'[s]) = Len(buf[s]) + 1
  <2>1. Placed(s)
    BY <1>10 DEF FanInv
  <2>2. \A k \in Listeners : Touches(k, s) => k = l
    BY <1>1, <2>1 DEF Placed, Apart
  <2>3. g[l].items = buf[s]
    BY <1>1, <2>1 DEF Placed, Apart
  <2>4. m = g[l].m
    BY <1>3, <2>2 DEF Others, At, Touches
  <2>5. buf'[s] = Append(buf[s], g[l].m)
    BY <1>7, <2>3, <2>4
  <2> QED BY <1>2, <2>1, <2>2, <2>5
<1>11. ASSUME s \notin torn' PROVE Placed(s)'
  <2>1. s \notin torn
    BY <1>1, <1>11
  <2>2. Once(s) /\ Flushed(s) /\ \A x \in Nat : x \in due[s] <=> Somewhere(s, x)
    BY <1>10, <2>1 DEF Placed
  <2>3. Apart(s)'
    BY <1>6, <1>10, <2>1 DEF Apart
  <2>4. \A k \in Listeners : Hands(k, s) => Head(g'[k].items) = Head(g[k].items)
    BY <1>1, <1>6
  <2>5. Once(s)'
    <3>6. /\ \A i \in DOMAIN buf[s] : buf[s][i] # g[l].m
          /\ \A k \in Listeners : Enters(k, s) /\ k # l => g[k].m # g[l].m
          /\ \A k \in Listeners : Hands(k, s) => g[l].m # Head(g[k].items)
      BY <1>1, <2>2, EntersOne DEF Once
    <3>7. \A i \in DOMAIN buf'[s] : \/ i \in DOMAIN buf[s] /\ buf'[s][i] = buf[s][i]
                                    \/ i = Len(buf[s]) + 1 /\ buf'[s][i] = g[l].m
      BY <1>10, <2>1
    <3>8. /\ \A i, j \in DOMAIN buf[s] : buf[s][i] = buf[s][j] => i = j
          /\ \A k \in Listeners, i \in DOMAIN buf[s] : Enters(k, s) => g[k].m # buf[s][i]
          /\ \A k \in Listeners, i \in DOMAIN buf[s] : Hands(k, s) => Head(g[k].items) # buf[s][i]
      BY <2>2 DEF Once
    <3>1. \A i, j \in DOMAIN buf'[s] : buf'[s][i] = buf'[s][j] => i = j
      BY <3>6, <3>7, <3>8
    <3>2. \A k \in Listeners, i \in DOMAIN buf'[s] : Enters(k, s)' => g'[k].m # buf'[s][i]
      BY <1>6, <3>6, <3>7, <3>8
    <3>3. \A k \in Listeners, i \in DOMAIN buf'[s] :
            Hands(k, s)' => Head(g'[k].items) # buf'[s][i]
      BY <1>6, <2>4, <3>6, <3>7, <3>8
    <3>4. \A j, k \in Listeners :
            Hands(j, s)' /\ Hands(k, s)' /\ Head(g'[j].items) = Head(g'[k].items) => j = k
      BY <1>6, <2>2, <2>4 DEF Once
    <3>9. \A j, k \in Listeners : Enters(j, s) /\ Hands(k, s) => g[j].m # Head(g[k].items)
      BY <2>2 DEF Once
    <3>5. \A j, k \in Listeners : Enters(j, s)' /\ Hands(k, s)' => g'[j].m # Head(g'[k].items)
      BY <1>6, <2>4, <3>9
    <3> QED BY <3>1, <3>2, <3>3, <3>4, <3>5 DEF Once
  <2>6. Flushed(s)'
    <3>1. IsFiniteSet(Flushers(s)) /\ Len(buf[s]) <= Cardinality(Flushers(s))
      BY <2>2 DEF Flushed
    <3>2. IsFiniteSet(Flushers(s)') /\ Cardinality(Flushers(s)') = Cardinality(Flushers(s)) + 1
      BY <1>1, <1>6, <3>1, FS_AddElement
    <3>3. Cardinality(Flushers(s)) \in Nat /\ Len(buf[s]) \in Nat
      BY <1>2, <3>1, FS_CardinalityType
    <3> QED BY <1>10, <2>1, <3>1, <3>2, <3>3 DEF Flushed
  <2>7. ASSUME NEW x \in Nat PROVE Somewhere(s, x)' <=> Somewhere(s, x)
    <3>1. (\E i \in DOMAIN buf'[s] : buf'[s][i] = x) <=>
            (\E i \in DOMAIN buf[s] : buf[s][i] = x) \/ x = g[l].m
      BY <1>10, <2>1
    <3>2. (\E k \in Listeners : Hands(k, s)' /\ Head(g'[k].items) = x) <=>
            \E k \in Listeners : Hands(k, s) /\ Head(g[k].items) = x
      BY <1>1, <1>6, <2>4
    <3>3. (\E k \in Listeners : Enters(k, s)' /\ g'[k].m = x) \/ x = g[l].m <=>
            \E k \in Listeners : Enters(k, s) /\ g[k].m = x
      BY <1>1, <1>6
    <3> QED BY <3>1, <3>2, <3>3 DEF Somewhere
  <2> QED BY <1>1, <2>2, <2>3, <2>5, <2>6, <2>7 DEF Placed
<1>12. ASSUME s \notin crossed' PROVE s \notin torn' /\ Single(s)'
  <2>1. Single(s) /\ s \notin torn
    BY <1>1, <1>12 DEF FanInv
  <2>2. \A k \in Flushers(s) : Delivers(k, s) /\ k \in Listeners /\ k # l
    BY <1>1 DEF Flushers, Delivers
  <2>3. Flushers(s) = {}
    BY <1>1, <2>1, <2>2 DEF Single
  <2>4. DOMAIN buf[s] = {}
    BY <2>1, <2>3 DEF Single
  <2>5. \A i \in DOMAIN buf'[s] : buf'[s][i] = g'[l].m /\ l \in Flushers(s)'
    BY <1>6, <1>10, <2>1, <2>4
  <2>6. \A k \in Listeners : Hands(k, s)' => Head(g'[k].items) = g'[k].m
    BY <1>6, <2>1 DEF Single
  <2> QED BY <1>1, <1>6, <2>1, <2>5, <2>6 DEF Single
<1> QED BY <1>1, <1>5, <1>8, <1>9, <1>11, <1>12, NotNone, GoroutineStep DEF Places

LEMMA PopReadsStep ==
  ASSUME FanInv, NEW l \in Listeners, NEW s \in Subs, g[l].s = s, PopReads(l)
  PROVE  FanInv'
<1>1. /\ g[l].pc = "pop" /\ l \in Flushers(s) /\ Delivers(l, s) /\ FanTypes
      /\ ~Enters(l, s) /\ ~Hands(l, s)
      /\ UNCHANGED <<listeners, wire, chanOf, members, buf, last, due, crossed>> /\ Touch(l)
  BY DEF PopReads, At, Enters, Hands, Delivers, Flushers, subscribers, history, FanInv
<1>2. /\ torn' \in {torn, torn \cup {s}}
      /\ s \notin torn' => \A k \in Listeners : k # l => ~Touches(k, s)
      /\ (\A k \in Listeners : k # l => ~Touches(k, s)) => torn' = torn
  BY <1>1, TouchTells
<1>3. s \notin crossed' => s \notin torn' /\ Single(s)
  <2>1. s \notin crossed' => /\ s \notin torn /\ Single(s)
                             /\ \A k \in Listeners : Delivers(k, s) => k = l
    BY <1>1 DEF FanInv, Single
  <2>2. \A k \in Listeners : Touches(k, s) => Delivers(k, s)
    BY DEF Touches, Delivers
  <2> QED BY <1>2, <2>1, <2>2
<1>4. Only(s)
  BY <1>1, <1>2 DEF Only, FanTypes
<1>5. CASE buf[s] = <<>> /\ Leaves(l)
  <2>1. Becomes(l, "each", None, <<>>)
    BY <1>1, <1>5, ItLeaves
  <2>2. /\ \A k \in Listeners : g'[k].m = g[k].m /\ (k # l => g'[k].items = g[k].items)
        /\ \A k \in Listeners : /\ Enters(k, s)' <=> Enters(k, s)
                                /\ Hands(k, s)' <=> Hands(k, s)
                                /\ Touches(k, s)' <=> Touches(k, s) /\ k # l
                                /\ Delivers(k, s)' <=> Delivers(k, s) /\ k # l
        /\ Flushers(s)' = Flushers(s) \ {l}
    BY <1>1, <1>5, RolesLeft
  <2>3. \A k \in Listeners : Hands(k, s) => Head(g'[k].items) = Head(g[k].items)
    BY <1>1, <2>2
  <2>4. Fresh'
    BY <1>1, <2>1, StaysFresh
  <2>5. ASSUME s \notin torn' PROVE Placed(s)'
    <3>1. Placed(s)
      BY <1>2, <2>5 DEF FanInv
    <3>2. Apart(s)' /\ Once(s)'
      BY <1>1, <2>2, <2>3, <3>1 DEF Placed, Apart, Once
    <3>3. IsFiniteSet(Flushers(s)') /\ Cardinality(Flushers(s)') \in Nat
      BY <2>2, <3>1, FS_RemoveElement, FS_CardinalityType DEF Placed, Flushed
    <3>4. Flushed(s)'
      BY <1>1, <1>5, <3>3 DEF Flushed
    <3>5. \A m \in Nat : Somewhere(s, m)' <=> Somewhere(s, m)
      BY <1>1, <2>2, <2>3 DEF Somewhere
    <3> QED BY <1>1, <3>1, <3>2, <3>4, <3>5 DEF Placed
  <2>6. ASSUME s \notin crossed' PROVE s \notin torn' /\ Single(s)'
    <3>1. DOMAIN buf'[s] = {}
      BY <1>1, <1>5
    <3>2. \A i \in DOMAIN buf'[s] : \E k \in Flushers(s)' : buf'[s][i] = g'[k].m
      BY <3>1
    <3>3. /\ \A j, k \in Listeners : Delivers(j, s)' /\ Delivers(k, s)' => j = k
          /\ \A k \in Listeners : Hands(k, s)' => Head(g'[k].items) = g'[k].m
          /\ \A m \in due'[s] : last'[s][chanOf'[m]] < m
      BY <1>1, <1>3, <2>2, <2>3, <2>6 DEF Single
    <3> QED BY <1>3, <2>6, <3>2, <3>3 DEF Single
  <2> QED BY <1>1, <1>4, <2>1, <2>4, <2>5, <2>6, GoroutineStep DEF Places
<1>6. CASE buf[s] # <<>> /\ g' = [g EXCEPT ![l].pc = "cut", ![l].items = buf[s]]
  <2>1. Becomes(l, "cut", s, buf[s])
    BY <1>1, <1>6, ItReads DEF Places
  <2>2. /\ \A k \in Listeners : g'[k].m = g[k].m /\ (k # l => g'[k].items = g[k].items)
        /\ \A k \in Listeners : /\ Enters(k, s)' <=> k # l /\ Enters(k, s)
                                /\ Hands(k, s)' <=> k # l /\ Hands(k, s)
                                /\ Touches(k, s)' <=> k = l \/ Touches(k, s)
                                /\ Delivers(k, s)' <=> k = l \/ Delivers(k, s)
        /\ Flushers(s)' = Flushers(s) \cup {l}
    BY <2>1, Roles
  <2>3. Flushers(s)' = Flushers(s) /\ g'[l].items = buf[s]
    BY <1>1, <2>1, <2>2 DEF Becomes
  <2>4. \A k \in Listeners : Hands(k, s) => Head(g'[k].items) = Head(g[k].items)
    BY <1>1, <2>2
  <2>5. Fresh'
    BY <1>1, <2>1, StaysFresh
  <2>6. ASSUME s \notin torn' PROVE Placed(s)'
    <3>1. Placed(s)
      BY <1>2, <2>6 DEF FanInv
    <3>2. Apart(s)'
      BY <1>1, <1>2, <2>2, <2>3, <2>6 DEF Apart
    <3>3. Once(s)'
      BY <1>1, <2>2, <2>4, <3>1 DEF Placed, Once
    <3>4. Flushed(s)'
      BY <1>1, <2>3, <3>1 DEF Placed, Flushed
    <3>5. \A m \in Nat : Somewhere(s, m)' <=> Somewhere(s, m)
      BY <1>1, <2>2, <2>4 DEF Somewhere
    <3> QED BY <1>1, <3>1, <3>2, <3>3, <3>4, <3>5 DEF Placed
  <2>7. ASSUME s \notin crossed' PROVE s \notin torn' /\ Single(s)'
    <3>1. \A k \in Flushers(s) : g'[k].m = g[k].m
      BY <2>2 DEF Flushers
    <3>2. \A i \in DOMAIN buf[s] : \E k \in Flushers(s)' : buf[s][i] = g'[k].m
      BY <1>3, <2>3, <2>7, <3>1 DEF Single
    <3>3. /\ \A j, k \in Listeners : Delivers(j, s)' /\ Delivers(k, s)' => j = k
          /\ \A k \in Listeners : Hands(k, s)' => Head(g'[k].items) = g'[k].m
          /\ \A m \in due'[s] : last'[s][chanOf'[m]] < m
      BY <1>1, <1>3, <2>2, <2>4, <2>7 DEF Single
    <3> QED BY <1>1, <1>3, <2>7, <3>2, <3>3 DEF Single
  <2> QED BY <1>1, <1>4, <1>6, <2>1, <2>5, <2>6, <2>7, NotNone, GoroutineStep DEF Places
<1> QED BY <1>5, <1>6 DEF PopReads

\* The first item is out of the buffer, with the goroutine that took it.
LEMMA PopWritesStep ==
  ASSUME FanInv, NEW l \in Listeners, NEW s \in Subs, g[l].s = s, PopWrites(l)
  PROVE  FanInv'
<1>1. /\ g[l].pc = "cut" /\ l \in Flushers(s) /\ Delivers(l, s) /\ Touches(l, s) /\ FanTypes
      /\ ~Enters(l, s) /\ ~Hands(l, s) /\ g[l].items # <<>> /\ Goes(l, "deliver")
      /\ UNCHANGED <<listeners, wire, chanOf, members, last, due, torn, crossed>>
  BY DEF PopWrites, At, Enters, Hands, Delivers, Touches, Flushers, subscribers, history, races,
         FanInv, HandFits
<1>2. g[l].items \in Seq(Nat) /\ buf[s] \in Seq(Nat)
  BY <1>1, HasSubscriber
<1>3. Becomes(l, "deliver", s, g[l].items)
  BY <1>1, ItGoes DEF Places
<1>4. /\ \A k \in Listeners : g'[k].m = g[k].m /\ (k # l => g'[k].items = g[k].items)
      /\ \A k \in Listeners : /\ Enters(k, s)' <=> k # l /\ Enters(k, s)
                              /\ Hands(k, s)' <=> k = l \/ Hands(k, s)
                              /\ Touches(k, s)' <=> k # l /\ Touches(k, s)
                              /\ Delivers(k, s)' <=> k = l \/ Delivers(k, s)
      /\ Flushers(s)' = Flushers(s) \ {l}
  BY <1>3, Roles
<1>5. \A k \in Listeners : g'[k].items = g[k].items
  BY <1>3, <1>4 DEF Becomes
<1>6. buf' \in [Subs -> Seq(Nat)] /\ buf'[s] = Tail(g[l].items)
      /\ \A x \in Subs : x # s => buf'[x] = buf[x]
  <2>1. Tail(g[l].items) \in Seq(Nat)
    BY <1>1, <1>2
  <2>2. buf' = [buf EXCEPT ![s] = Tail(g[l].items)]
    BY DEF PopWrites
  <2> QED BY <1>1, <2>1, <2>2 DEF FanTypes
<1>7. Only(s)
  BY <1>1, <1>6 DEF Only, FanTypes
<1>8. Fresh'
  BY <1>1, <1>3, StaysFresh
<1>9. ASSUME s \notin torn
      PROVE  /\ Placed(s) /\ Len(buf[s]) \in Nat \ {0} /\ 1 \in DOMAIN buf[s]
             /\ \A k \in Listeners : Touches(k, s) => k = l
             /\ Head(g[l].items) = buf[s][1] /\ Len(buf'[s]) = Len(buf[s]) - 1
             /\ \A i \in DOMAIN buf'[s] : /\ i \in Nat /\ i + 1 \in DOMAIN buf[s] /\ i + 1 # 1
                                          /\ buf'[s][i] = buf[s][i + 1]
             /\ \A i \in DOMAIN buf[s] : i # 1 =>
                  i \in Nat /\ i - 1 \in DOMAIN buf'[s] /\ buf'[s][i - 1] = buf[s][i]
  <2>1. Placed(s)
    BY <1>9 DEF FanInv
  <2>2. g[l].items = buf[s] /\ \A k \in Listeners : Touches(k, s) => k = l
    BY <1>1, <2>1 DEF Placed, Apart
  <2>3. buf[s] # <<>> /\ buf'[s] = Tail(buf[s])
    BY <1>1, <1>6, <2>2
  <2>4. /\ Len(buf[s]) \in Nat \ {0} /\ 1 \in DOMAIN buf[s] /\ Head(buf[s]) = buf[s][1]
        /\ Len(buf'[s]) = Len(buf[s]) - 1 /\ DOMAIN buf'[s] = 1..(Len(buf[s]) - 1)
        /\ DOMAIN buf[s] = 1..Len(buf[s])
        /\ \A i \in 1..(Len(buf[s]) - 1) : buf'[s][i] = buf[s][i + 1]
    BY <1>2, <2>3
  <2>5. \A i \in DOMAIN buf'[s] : /\ i \in Nat /\ i + 1 \in DOMAIN buf[s] /\ i + 1 # 1
                                  /\ buf'[s][i] = buf[s][i + 1]
    BY <2>4
  <2>6. \A i \in DOMAIN buf[s] : i # 1 =>
          i \in Nat /\ i - 1 \in DOMAIN buf'[s] /\ buf'[s][i - 1] = buf[s][i]
    <3> SUFFICES ASSUME NEW i \in DOMAIN buf[s], i # 1
                 PROVE  i \in Nat /\ i - 1 \in DOMAIN buf'[s] /\ buf'[s][i - 1] = buf[s][i]
      OBVIOUS
    <3>1. i \in 2..Len(buf[s]) /\ i - 1 \in 1..(Len(buf[s]) - 1) /\ (i - 1) + 1 = i
      BY <2>4
    <3> QED BY <2>4, <3>1
  <2> QED BY <2>1, <2>2, <2>4, <2>5, <2>6
<1>10. ASSUME s \notin torn' PROVE Placed(s)'
  <2>1. s \notin torn
    BY <1>1, <1>10
  <2>2. Once(s) /\ Flushed(s) /\ \A x \in Nat : x \in due[s] <=> Somewhere(s, x)
    BY <1>9, <2>1 DEF Placed
  <2>3. Apart(s)'
    BY <1>4, <1>9, <2>1 DEF Apart
  <2>4. Once(s)'
    <3>1. /\ \A i, j \in DOMAIN buf[s] : buf[s][i] = buf[s][j] => i = j
          /\ \A k \in Listeners, i \in DOMAIN buf[s] : Enters(k, s) => g[k].m # buf[s][i]
          /\ \A k \in Listeners, i \in DOMAIN buf[s] : Hands(k, s) => Head(g[k].items) # buf[s][i]
      BY <2>2 DEF Once
    <3>2. /\ \A j, k \in Listeners :
               Hands(j, s) /\ Hands(k, s) /\ Head(g[j].items) = Head(g[k].items) => j = k
          /\ \A j, k \in Listeners : Enters(j, s) /\ Hands(k, s) => g[j].m # Head(g[k].items)
      BY <2>2 DEF Once
    <3>3. \A i, j \in DOMAIN buf'[s] : buf'[s][i] = buf'[s][j] => i = j
      <4> SUFFICES ASSUME NEW i \in DOMAIN buf'[s], NEW j \in DOMAIN buf'[s],
                          buf'[s][i] = buf'[s][j]
                   PROVE  i = j
        OBVIOUS
      <4>1. i + 1 = j + 1 /\ i \in Nat /\ j \in Nat
        BY <1>9, <2>1, <3>1
      <4> QED BY <4>1
    <3>4. \A k \in Listeners, i \in DOMAIN buf'[s] : Enters(k, s)' => g'[k].m # buf'[s][i]
      BY <1>4, <1>9, <2>1, <3>1
    <3>5. \A i \in DOMAIN buf'[s] : buf'[s][i] # buf[s][1]
      BY <1>9, <2>1, <3>1
    <3>9. \A k \in Listeners : Hands(k, s)' =>
            \/ k = l /\ Head(g'[k].items) = buf[s][1]
            \/ Hands(k, s) /\ Head(g'[k].items) = Head(g[k].items)
      BY <1>4, <1>5, <1>9, <2>1
    <3>6. \A k \in Listeners, i \in DOMAIN buf'[s] :
            Hands(k, s)' => Head(g'[k].items) # buf'[s][i]
      <4> SUFFICES ASSUME NEW k \in Listeners, NEW i \in DOMAIN buf'[s], Hands(k, s)'
                   PROVE  Head(g'[k].items) # buf'[s][i]
        OBVIOUS
      <4>1. i + 1 \in DOMAIN buf[s] /\ buf'[s][i] = buf[s][i + 1]
        BY <1>9, <2>1
      <4> QED BY <3>1, <3>5, <3>9, <4>1
    <3>7. \A j, k \in Listeners :
            Hands(j, s)' /\ Hands(k, s)' /\ Head(g'[j].items) = Head(g'[k].items) => j = k
      BY <1>4, <1>5, <1>9, <2>1, <3>1, <3>2
    <3>8. \A j, k \in Listeners : Enters(j, s)' /\ Hands(k, s)' => g'[j].m # Head(g'[k].items)
      BY <1>4, <1>5, <1>9, <2>1, <3>1, <3>2
    <3> QED BY <3>3, <3>4, <3>6, <3>7, <3>8 DEF Once
  <2>5. Flushed(s)'
    <3>1. IsFiniteSet(Flushers(s)) /\ Len(buf[s]) <= Cardinality(Flushers(s))
      BY <2>2 DEF Flushed
    <3>2. IsFiniteSet(Flushers(s)') /\ Cardinality(Flushers(s)') = Cardinality(Flushers(s)) - 1
      BY <1>1, <1>4, <3>1, FS_RemoveElement
    <3>3. Cardinality(Flushers(s)) \in Nat
      BY <3>1, FS_CardinalityType
    <3> QED BY <1>9, <2>1, <3>1, <3>2, <3>3 DEF Flushed
  <2>6. ASSUME NEW x \in Nat PROVE Somewhere(s, x)' <=> Somewhere(s, x)
    <3>1. (\E i \in DOMAIN buf[s] : buf[s][i] = x) <=>
            (\E i \in DOMAIN buf'[s] : buf'[s][i] = x) \/ x = buf[s][1]
      <4>1. ASSUME NEW i \in DOMAIN buf[s], buf[s][i] = x
            PROVE  (\E j \in DOMAIN buf'[s] : buf'[s][j] = x) \/ x = buf[s][1]
        <5>1. CASE i # 1
          <6>1. i - 1 \in DOMAIN buf'[s] /\ buf'[s][i - 1] = x
            BY <1>9, <2>1, <4>1, <5>1
          <6> QED BY <6>1
        <5> QED BY <4>1, <5>1
      <4>2. ASSUME NEW i \in DOMAIN buf'[s], buf'[s][i] = x
            PROVE  \E j \in DOMAIN buf[s] : buf[s][j] = x
        BY <1>9, <2>1, <4>2
      <4>3. 1 \in DOMAIN buf[s]
        BY <1>9, <2>1
      <4> QED BY <4>1, <4>2, <4>3
    <3>2. (\E k \in Listeners : Hands(k, s)' /\ Head(g'[k].items) = x) <=>
            (\E k \in Listeners : Hands(k, s) /\ Head(g[k].items) = x) \/ x = buf[s][1]
      BY <1>1, <1>4, <1>5, <1>9, <2>1
    <3>3. (\E k \in Listeners : Enters(k, s)' /\ g'[k].m = x) <=>
            \E k \in Listeners : Enters(k, s) /\ g[k].m = x
      BY <1>1, <1>4
    <3> QED BY <3>1, <3>2, <3>3 DEF Somewhere
  <2> QED BY <1>1, <2>2, <2>3, <2>4, <2>5, <2>6 DEF Placed
<1>11. ASSUME s \notin crossed' PROVE s \notin torn' /\ Single(s)'
  <2>1. Single(s) /\ s \notin torn
    BY <1>1, <1>11 DEF FanInv
  <2>2. \A k \in Flushers(s) : k = l
    BY <1>1, <2>1 DEF Flushers, Delivers, Single
  <2>3. \A i \in DOMAIN buf[s] : buf[s][i] = g[l].m
    BY <2>1, <2>2 DEF Single
  <2>4. DOMAIN buf'[s] = {}
    <3>1. \A i, j \in DOMAIN buf[s] : i = j
      BY <1>9, <2>1, <2>3 DEF Placed, Once
    <3> QED BY <1>9, <2>1, <3>1
  <2>5. \A i \in DOMAIN buf'[s] : \E k \in Flushers(s)' : buf'[s][i] = g'[k].m
    BY <2>4
  <2>6. \A k \in Listeners : Hands(k, s)' => Head(g'[k].items) = g'[k].m
    <3>1. Head(g[l].items) = g[l].m
      BY <1>9, <2>1, <2>3
    <3>2. \A k \in Listeners : Hands(k, s) => Head(g[k].items) = g[k].m
      BY <2>1 DEF Single
    <3> QED BY <1>4, <1>5, <3>1, <3>2
  <2>7. /\ \A j, k \in Listeners : Delivers(j, s)' /\ Delivers(k, s)' => j = k
        /\ \A m \in due'[s] : last'[s][chanOf'[m]] < m
    BY <1>1, <1>4, <2>1 DEF Single
  <2> QED BY <1>1, <2>1, <2>5, <2>6, <2>7 DEF Single
<1> QED BY <1>1, <1>3, <1>7, <1>8, <1>10, <1>11, NotNone, GoroutineStep DEF Places

\* A goroutine that hands s an item goes on with s, or is done with it.
LEMMA RolesOn ==
  ASSUME NEW l \in Listeners, NEW s \in Subs, NEW items, g[l].s = s, Becomes(l, "pop", s, items)
  PROVE  /\ \A k \in Listeners : g'[k].m = g[k].m /\ (k # l => g'[k].items = g[k].items)
         /\ \A k \in Listeners : /\ Enters(k, s)' <=> k # l /\ Enters(k, s)
                                 /\ Hands(k, s)' <=> k # l /\ Hands(k, s)
                                 /\ Touches(k, s)' <=> k # l /\ Touches(k, s)
                                 /\ Delivers(k, s)' <=> k = l \/ Delivers(k, s)
         /\ Flushers(s)' = Flushers(s) \cup {l}
<1>1. /\ \A k \in Listeners : k # l => g'[k] = g[k]
      /\ g'[l].pc = "pop" /\ g'[l].s = s /\ g'[l].m = g[l].m
  BY DEF Becomes
<1>2. \A k \in Listeners : g'[k].m = g[k].m /\ (k # l => g'[k].items = g[k].items)
  BY <1>1
<1>3. \A k \in Listeners : /\ Enters(k, s)' <=> k # l /\ Enters(k, s)
                           /\ Hands(k, s)' <=> k # l /\ Hands(k, s)
                           /\ Touches(k, s)' <=> k # l /\ Touches(k, s)
                           /\ Delivers(k, s)' <=> k = l \/ Delivers(k, s)
  BY <1>1 DEF Enters, Hands, Touches, Delivers, At
<1>4. Flushers(s)' = Flushers(s) \cup {l}
  BY <1>1 DEF Flushers
<1> QED BY <1>2, <1>3, <1>4

LEMMA RolesDone ==
  ASSUME NEW l \in Listeners, NEW s \in Subs, NEW items, g[l].s = s,
         Becomes(l, "each", None, items)
  PROVE  /\ \A k \in Listeners : g'[k].m = g[k].m /\ (k # l => g'[k].items = g[k].items)
         /\ \A k \in Listeners : /\ Enters(k, s)' <=> k # l /\ Enters(k, s)
                                 /\ Hands(k, s)' <=> k # l /\ Hands(k, s)
                                 /\ Touches(k, s)' <=> k # l /\ Touches(k, s)
                                 /\ Delivers(k, s)' <=> k # l /\ Delivers(k, s)
         /\ Flushers(s)' = Flushers(s) \ {l}
<1>1. /\ \A k \in Listeners : k # l => g'[k] = g[k]
      /\ g'[l].pc = "each" /\ g'[l].s = None /\ g'[l].m = g[l].m /\ None # s
  BY NotNone DEF Becomes
<1>2. \A k \in Listeners : g'[k].m = g[k].m /\ (k # l => g'[k].items = g[k].items)
  BY <1>1
<1>3. \A k \in Listeners : /\ Enters(k, s)' <=> k # l /\ Enters(k, s)
                           /\ Hands(k, s)' <=> k # l /\ Hands(k, s)
                           /\ Touches(k, s)' <=> k # l /\ Touches(k, s)
                           /\ Delivers(k, s)' <=> k # l /\ Delivers(k, s)
  BY <1>1 DEF Enters, Hands, Touches, Delivers, At
<1>4. Flushers(s)' = Flushers(s) \ {l}
  BY <1>1 DEF Flushers
<1> QED BY <1>2, <1>3, <1>4

\* The item that was out is where it should be, or given up.
LEMMA ItemGone ==
  ASSUME FanInv, NEW l \in Listeners, NEW s \in Subs, g[l].s = s, At(l, "deliver"),
         NEW pc, NEW t, NEW items, Becomes(l, pc, t, items),
         (t = s /\ pc = "pop") \/ (t = None /\ pc = "each"),
         buf' = buf, due' = [due EXCEPT ![s] = @ \ {Head(g[l].items)}],
         UNCHANGED <<listeners, wire, chanOf, members, torn, crossed>>,
         last' \in [Subs -> [Channels -> Nat]],
         \A x \in Subs : x # s => last'[x] = last[x],
         Fresh',
         s \notin crossed => \A m \in due'[s] : last'[s][chanOf[m]] < m
  PROVE  FanInv'
<1>1. /\ FanTypes /\ Hands(l, s) /\ Delivers(l, s) /\ ~Enters(l, s) /\ ~Touches(l, s)
      /\ l \notin Flushers(s) /\ None # s
  BY NotNone DEF FanInv, Hands, Delivers, Enters, Touches, Flushers, At
<1>2. /\ \A k \in Listeners : g'[k].m = g[k].m /\ (k # l => g'[k].items = g[k].items)
      /\ \A k \in Listeners : /\ Enters(k, s)' <=> k # l /\ Enters(k, s)
                              /\ Hands(k, s)' <=> k # l /\ Hands(k, s)
                              /\ Touches(k, s)' <=> k # l /\ Touches(k, s)
                              /\ Delivers(k, s)' => Delivers(k, s)
      /\ Flushers(s)' = Flushers(s) \cup {l} \/ Flushers(s)' = Flushers(s) \ {l}
  <2>1. CASE t = s /\ pc = "pop"
    <3>1. Becomes(l, "pop", s, items)
      BY <2>1
    <3>2. /\ \A k \in Listeners : g'[k].m = g[k].m /\ (k # l => g'[k].items = g[k].items)
          /\ \A k \in Listeners : /\ Enters(k, s)' <=> k # l /\ Enters(k, s)
                                  /\ Hands(k, s)' <=> k # l /\ Hands(k, s)
                                  /\ Touches(k, s)' <=> k # l /\ Touches(k, s)
                                  /\ Delivers(k, s)' <=> k = l \/ Delivers(k, s)
          /\ Flushers(s)' = Flushers(s) \cup {l}
      BY <3>1, RolesOn
    <3> QED BY <1>1, <3>2
  <2>2. CASE t = None /\ pc = "each"
    <3>1. Becomes(l, "each", None, items)
      BY <2>2
    <3>2. /\ \A k \in Listeners : g'[k].m = g[k].m /\ (k # l => g'[k].items = g[k].items)
          /\ \A k \in Listeners : /\ Enters(k, s)' <=> k # l /\ Enters(k, s)
                                  /\ Hands(k, s)' <=> k # l /\ Hands(k, s)
                                  /\ Touches(k, s)' <=> k # l /\ Touches(k, s)
                                  /\ Delivers(k, s)' <=> k # l /\ Delivers(k, s)
          /\ Flushers(s)' = Flushers(s) \ {l}
      BY <3>1, RolesDone
    <3> QED BY <1>1, <3>2
  <2> QED BY <2>1, <2>2
<1>3. /\ due'[s] = due[s] \ {Head(g[l].items)} /\ due' \in [Subs -> SUBSET Nat]
      /\ \A x \in Subs : x # s => due'[x] = due[x]
  BY <1>1 DEF FanTypes
<1>4. Only(s)
  BY <1>1, <1>3 DEF Only, FanTypes
<1>5. ASSUME s \notin torn' PROVE Placed(s)'
  <2>1. Placed(s)
    BY <1>5 DEF FanInv
  <2>2. Apart(s)'
    BY <1>1, <1>2, <2>1 DEF Placed, Apart
  <2>3. Once(s)'
    BY <1>1, <1>2, <2>1 DEF Placed, Once
  <2>4. Flushed(s)'
    <3>1. IsFiniteSet(Flushers(s)) /\ Len(buf[s]) <= Cardinality(Flushers(s))
      BY <2>1 DEF Placed, Flushed
    <3>2. CASE Flushers(s)' = Flushers(s) \cup {l}
      <4>1. /\ IsFiniteSet(Flushers(s)')
            /\ Cardinality(Flushers(s)') = Cardinality(Flushers(s)) + 1
        BY <1>1, <3>1, <3>2, FS_AddElement
      <4>2. Cardinality(Flushers(s)) \in Nat /\ Len(buf[s]) \in Nat
        BY <1>1, <3>1, FS_CardinalityType DEF FanTypes
      <4> QED BY <3>1, <4>1, <4>2 DEF Flushed
    <3>3. CASE Flushers(s)' = Flushers(s) \ {l}
      <4>1. Flushers(s)' = Flushers(s)
        BY <1>1, <3>3
      <4> QED BY <3>1, <4>1 DEF Flushed
    <3> QED BY <1>2, <3>2, <3>3
  <2>5. ASSUME NEW m \in Nat
        PROVE  Somewhere(s, m)' <=> Somewhere(s, m) /\ m # Head(g[l].items)
    <3>1. \A k \in Listeners, i \in DOMAIN buf[s] : Hands(k, s) => Head(g[k].items) # buf[s][i]
      BY <2>1 DEF Placed, Once
    <3>2. /\ \A j, k \in Listeners :
               Hands(j, s) /\ Hands(k, s) /\ Head(g[j].items) = Head(g[k].items) => j = k
          /\ \A j, k \in Listeners : Enters(j, s) /\ Hands(k, s) => g[j].m # Head(g[k].items)
      BY <2>1 DEF Placed, Once
    <3>3. (\E k \in Listeners : Enters(k, s)' /\ g'[k].m = m) <=>
            \E k \in Listeners : Enters(k, s) /\ g[k].m = m
      BY <1>1, <1>2
    <3>6. (\E k \in Listeners : Enters(k, s) /\ g[k].m = m) => m # Head(g[l].items)
      BY <1>1, <3>2
    <3>4. (\E k \in Listeners : Hands(k, s)' /\ Head(g'[k].items) = m) <=>
            (\E k \in Listeners : Hands(k, s) /\ Head(g[k].items) = m) /\ m # Head(g[l].items)
      BY <1>1, <1>2, <3>2
    <3>5. (\E i \in DOMAIN buf[s] : buf[s][i] = m) => m # Head(g[l].items)
      BY <1>1, <3>1
    <3> QED BY <3>3, <3>4, <3>5, <3>6 DEF Somewhere
  <2> QED BY <1>3, <2>1, <2>2, <2>3, <2>4, <2>5 DEF Placed
<1>6. ASSUME s \notin crossed' PROVE s \notin torn' /\ Single(s)'
  <2>1. Single(s) /\ s \notin torn
    BY <1>6 DEF FanInv
  <2>2. \A k \in Flushers(s) : k \in Listeners /\ Delivers(k, s)
    BY DEF Flushers, Delivers
  <2>3. Flushers(s) = {}
    BY <1>1, <2>1, <2>2 DEF Single
  <2>4. DOMAIN buf[s] = {}
    BY <2>1, <2>3 DEF Single
  <2>5. /\ \A j, k \in Listeners : Delivers(j, s)' /\ Delivers(k, s)' => j = k
        /\ \A k \in Listeners : Hands(k, s)' => Head(g'[k].items) = g'[k].m
    BY <1>2, <2>1 DEF Single
  <2> QED BY <1>6, <2>1, <2>4, <2>5 DEF Single
<1> QED BY <1>1, <1>4, <1>5, <1>6, GoroutineStep DEF Places

\* Two messages of one channel are not due at once, where one goroutine at a
\* time delivers: the other one would be with the goroutine of its channel.
LEMMA OnlyOneDue ==
  ASSUME FanInv, NEW l \in Listeners, NEW s \in Subs, Hands(l, s), s \notin crossed
  PROVE  /\ Head(g[l].items) = g[l].m /\ g[l].m \in DOMAIN chanOf /\ chanOf[g[l].m] = g[l].ch
         /\ \A m \in due[s] : chanOf[m] = g[l].ch => m = g[l].m
<1>1. Single(s) /\ Placed(s) /\ FanTypes
  BY DEF FanInv
<1>2. Delivers(l, s) /\ l \notin Flushers(s) /\ g[l].pc # "idle"
  BY DEF Hands, Delivers, Flushers, At
<1>3. Head(g[l].items) = g[l].m /\ g[l].m \in DOMAIN chanOf /\ chanOf[g[l].m] = g[l].ch
  BY <1>1, <1>2 DEF Single, FanInv, HandFits
<1>4. \A k \in Flushers(s) : k \in Listeners /\ Delivers(k, s)
  BY DEF Flushers, Delivers
<1>5. DOMAIN buf[s] = {}
  BY <1>1, <1>2, <1>4 DEF Single
<1>6. \A k \in Listeners : Hands(k, s) => k = l
  <2>1. \A k \in Listeners : Hands(k, s) => Delivers(k, s)
    BY DEF Hands, Delivers, At
  <2> QED BY <1>1, <1>2, <2>1 DEF Single
<1>7. ASSUME NEW m \in due[s], chanOf[m] = g[l].ch PROVE m = g[l].m
  <2>1. Somewhere(s, m)
    BY <1>1 DEF Placed, FanTypes
  <2>2. CASE \E k \in Listeners : Enters(k, s) /\ g[k].m = m
    <3>1. PICK k \in Listeners : Enters(k, s) /\ g[k].m = m
      BY <2>2
    <3>2. g[k].ch = g[l].ch /\ g[l].ch # None
      BY <1>2, <1>7, <3>1 DEF Enters, FanInv, HandFits
    <3>3. k = l
      BY <3>2 DEF FanInv, OneForEach
    <3> QED BY <3>1, <3>3
  <2> QED BY <1>3, <1>5, <1>6, <2>1, <2>2 DEF Somewhere
<1> QED BY <1>3, <1>7

LEMMA DeliverStep ==
  ASSUME FanInv, NEW l \in Listeners, NEW s \in Subs, g[l].s = s, Deliver(l)
  PROVE  FanInv'
<1>1. /\ At(l, "deliver") /\ g[l].items # <<>> /\ FanTypes /\ Hands(l, s)
      /\ UNCHANGED <<listeners, wire, chanOf, members, buf, torn, crossed>>
  BY DEF Deliver, At, Hands, subscribers, races, FanInv, HandFits
<1>2. g[l].items \in Seq(Nat) /\ Head(g[l].items) \in Nat
  BY <1>1, HasSubscriber DEF At
<1>3. CASE Drop(s, Head(g[l].items)) /\ UNCHANGED last /\ (Leaves(l) \/ Goes(l, "pop"))
  <2>1. \E pc, t, items : /\ Becomes(l, pc, t, items)
                          /\ (t = s /\ pc = "pop") \/ (t = None /\ pc = "each")
    BY <1>1, <1>3, ItGoes, ItLeaves DEF Places
  <2>2. PICK pc, t, items : /\ Becomes(l, pc, t, items)
                            /\ (t = s /\ pc = "pop") \/ (t = None /\ pc = "each")
    BY <2>1
  <2>3. due' = [due EXCEPT ![s] = @ \ {Head(g[l].items)}]
    BY <1>3 DEF Drop
  <2>4. \A x \in Subs : due'[x] \subseteq due[x]
    BY <1>1, <2>3 DEF FanTypes
  <2>5. Fresh'
    BY <1>1, <1>3, <2>2, <2>4, StaysFresh
  <2>6. s \notin crossed => \A m \in due'[s] : last'[s][chanOf[m]] < m
    BY <1>3, <2>4 DEF FanInv, Single
  <2>7. last' \in [Subs -> [Channels -> Nat]] /\ \A x \in Subs : x # s => last'[x] = last[x]
    BY <1>1, <1>3 DEF FanTypes
  <2> QED BY <1>1, <2>2, <2>3, <2>5, <2>6, <2>7, ItemGone
<1>4. CASE Hand(s, Head(g[l].items)) /\ Goes(l, "pop")
  <2>1. Becomes(l, "pop", s, g[l].items)
    BY <1>1, <1>4, ItGoes DEF Places
  <2>2. due' = [due EXCEPT ![s] = @ \ {Head(g[l].items)}]
    BY <1>4 DEF Hand
  <2>3. \A x \in Subs : due'[x] \subseteq due[x]
    BY <1>1, <2>2 DEF FanTypes
  <2>4. PICK m \in Nat : m = Head(g[l].items)
    BY <1>2
  <2>5. /\ last' \in [Subs -> [Channels -> Nat]]
        /\ \A x \in Subs : x # s => last'[x] = last[x]
        /\ \A ch \in Channels : last'[s][ch] = IF ch = chanOf[m] THEN m ELSE last[s][ch]
    <3>1. last' = [last EXCEPT ![s][chanOf[m]] = m]
      BY <1>4, <2>4 DEF Hand
    <3>2. last \in [Subs -> [Channels -> Nat]]
      BY <1>1 DEF FanTypes
    <3> QED BY <3>1, <3>2
  <2>6. ASSUME s \notin crossed
        PROVE  /\ m = g[l].m /\ g[l].m \in DOMAIN chanOf /\ chanOf[g[l].m] = g[l].ch
               /\ \A x \in due[s] : chanOf[x] = g[l].ch => x = g[l].m
    BY <1>1, <2>4, <2>6, OnlyOneDue
  <2>7. Fresh'
    <3>1. \A k \in Listeners : g'[k].ch = g[k].ch /\ g'[k].m = g[k].m /\ g'[k].subs = g[k].subs
      BY <2>1 DEF Becomes
    <3>2. \A x \in Subs : due'[x] \subseteq DOMAIN chanOf
      BY <2>3 DEF FanInv, Fresh
    <3>3. ASSUME NEW x \in Subs, NEW ch \in Channels, x \notin crossed
          PROVE  last'[x][ch] <= Len(chanOf)
      <4>1. last[x][ch] <= Len(chanOf)
        BY <3>3 DEF FanInv, Fresh
      <4>2. x = s => m \in 1..Len(chanOf)
        BY <1>1, <2>6, <3>3 DEF FanTypes
      <4> QED BY <2>5, <4>1, <4>2
    <3>4. ASSUME NEW x \in Subs, NEW ch \in Channels, NEW i \in DOMAIN wire[ch]
          PROVE  /\ wire[ch][i] \notin due'[x]
                 /\ x \notin crossed => last'[x][ch] < wire[ch][i]
      <4>1. wire[ch][i] \notin due[x] /\ (x \notin crossed => last[x][ch] < wire[ch][i])
        BY DEF FanInv, Fresh, NewTo
      <4>2. x = s /\ x \notin crossed /\ ch = chanOf[m] => m < wire[ch][i]
        BY <2>6 DEF FanInv, WireOrder
      <4> QED BY <2>3, <2>5, <4>1, <4>2
    <3>5. ASSUME NEW k \in Listeners, NEW x \in g[k].subs
          PROVE  /\ g[k].m \notin due'[x]
                 /\ x \notin crossed => last'[x][g[k].ch] < g[k].m
      <4>1. x \in Subs /\ g[k].ch \in Channels \cup {None}
        BY <1>1 DEF FanTypes, Goroutine
      <4>2. g[k].m \notin due[x] /\ (x \notin crossed => last[x][g[k].ch] < g[k].m)
        BY DEF FanInv, Fresh, NewTo
      <4>3. CASE x # s \/ x \in crossed
        BY <2>3, <2>5, <4>1, <4>2, <4>3
      <4>4. CASE x = s /\ x \notin crossed
        <5>1. s \notin g[l].subs
          BY DEF FanInv, HandFits
        <5>2. chanOf[m] = g[l].ch /\ chanOf[m] \in Channels
          BY <1>1, <2>6, <4>4 DEF FanTypes
        <5>3. g[k].ch # chanOf[m]
          BY <4>4, <5>1, <5>2, NotNone DEF FanInv, OneForEach
        <5>4. last'[s][g[k].ch] = last[s][g[k].ch]
          <6>1. last' = [last EXCEPT ![s][chanOf[m]] = m]
            BY <1>4, <2>4 DEF Hand
          <6>2. last \in [Subs -> [Channels -> Nat]]
            BY <1>1 DEF FanTypes
          <6> QED BY <5>3, <6>1, <6>2
        <5> QED BY <2>3, <4>1, <4>2, <4>4, <5>4
      <4> QED BY <4>3, <4>4
    <3> QED BY <1>1, <3>1, <3>2, <3>3, <3>4, <3>5 DEF Fresh, NewTo
  <2>8. ASSUME s \notin crossed, NEW x \in due'[s] PROVE last'[s][chanOf[x]] < x
    <3>1. x \in due[s] /\ x # m
      BY <1>1, <2>2, <2>4, <2>8 DEF FanTypes
    <3>2. chanOf[x] # chanOf[m]
      BY <2>6, <2>8, <3>1
    <3>3. last[s][chanOf[x]] < x
      BY <2>8, <3>1 DEF FanInv, Single
    <3>4. x \in DOMAIN chanOf /\ chanOf[x] \in Channels
      BY <1>1, <3>1 DEF FanInv, Fresh, FanTypes
    <3> QED BY <2>5, <3>2, <3>3, <3>4
  <2> QED BY <1>1, <2>1, <2>2, <2>5, <2>7, <2>8, ItemGone
<1> QED BY <1>3, <1>4 DEF Deliver

LEMMA DeliveryStep ==
  ASSUME FanInv, NEW l \in Listeners, DeliverToSubscriber(l)
  PROVE  FanInv'
<1>1. g[l].pc \notin {"idle", "each"}
  BY DEF DeliverToSubscriber, AllowOutbound, PushReads, PushWrites, PopReads, PopWrites, Deliver, At
<1>2. PICK s \in Subs : g[l].s = s
  BY <1>1, HasSubscriber
<1> QED
  BY <1>2, AllowStep, PushReadsStep, PushWritesStep, PopReadsStep, PopWritesStep, DeliverStep
     DEF DeliverToSubscriber


-----------------------------------------------------------------------------
(* The other steps *)

LEMMA TailFacts ==
  ASSUME NEW q \in Seq(Nat), q # <<>>
  PROVE  /\ Tail(q) \in Seq(Nat) /\ 1 \in DOMAIN q /\ Head(q) = q[1]
         /\ \A i \in DOMAIN Tail(q) : i \in Nat /\ 1 < i + 1 /\ i + 1 \in DOMAIN q /\ Tail(q)[i] = q[i + 1]
OBVIOUS

LEMMA AppendFacts ==
  ASSUME NEW S, NEW q \in Seq(S), NEW m \in S
  PROVE  /\ Append(q, m) \in Seq(S) /\ Len(Append(q, m)) = Len(q) + 1
         /\ \A i \in DOMAIN q : i \in DOMAIN Append(q, m) /\ Append(q, m)[i] = q[i]
         /\ Append(q, m)[Len(q) + 1] = m
         /\ \A i \in DOMAIN Append(q, m) : i \in DOMAIN q \/ i = Len(q) + 1
OBVIOUS

\* A step that leaves goroutines and buffers alone, and what is on the wire new.
LEMMA QuietStep ==
  ASSUME FanInv, UNCHANGED <<g, buf, last, due, crossed, torn>>,
         listeners' \in [Channels -> Nat], members' \in [Channels -> SUBSET Subs],
         wire' \in [Channels -> Seq(Nat)], chanOf' \in Seq(Channels),
         Len(chanOf) <= Len(chanOf'), \A m \in DOMAIN chanOf : chanOf'[m] = chanOf[m],
         WireOrder',
         \A s \in Subs, ch \in Channels : \A i \in DOMAIN wire'[ch] : NewTo(s, ch, wire'[ch][i])
  PROVE  FanInv'
<1>1. FanTypes /\ FanTypes'
  BY DEF FanInv, FanTypes
<1>2. \A m \in DOMAIN chanOf : m \in DOMAIN chanOf'
  BY <1>1 DEF FanTypes
<1>3. \A l \in Listeners : HandFits(l)'
  BY <1>2 DEF FanInv, HandFits
<1>4. OneForEach'
  BY DEF FanInv, OneForEach
<1>5. Fresh'
  <2>1. \A s \in Subs : due[s] \subseteq DOMAIN chanOf'
    BY <1>2 DEF FanInv, Fresh
  <2>2. ASSUME NEW s \in Subs, NEW ch \in Channels, s \notin crossed
        PROVE  last[s][ch] <= Len(chanOf')
    <3>1. last[s][ch] <= Len(chanOf)
      BY <2>2 DEF FanInv, Fresh
    <3>2. last[s][ch] \in Nat /\ Len(chanOf) \in Nat /\ Len(chanOf') \in Nat
      BY <1>1 DEF FanTypes
    <3> QED BY <3>1, <3>2
  <2>3. \A l \in Listeners : \A s \in g[l].subs : NewTo(s, g[l].ch, g[l].m)
    BY DEF FanInv, Fresh
  <2> QED BY <2>1, <2>2, <2>3 DEF Fresh, NewTo
<1>6. \A s \in Subs : Untouched(s)
  BY DEF Untouched, FanInv, Fresh
<1>7. None \notin Subs
  BY NotNone
<1> QED BY <1>1, <1>3, <1>4, <1>5, <1>6, <1>7, OneTouched

\* The number of a new message is higher than all there are.
LEMMA Published ==
  ASSUME FanInv, NEW ch \in Channels, NEW m \in Nat, m = Len(chanOf) + 1,
         UNCHANGED <<g, buf, last, due, crossed, torn, members>>,
         listeners' \in [Channels -> Nat], chanOf' = Append(chanOf, ch),
         wire' = [wire EXCEPT ![ch] = Append(@, m)]
  PROVE  FanInv'
<1>1. FanTypes
  BY DEF FanInv
<1>2. /\ chanOf' \in Seq(Channels) /\ Len(chanOf') = m /\ Len(chanOf) \in Nat
      /\ \A i \in DOMAIN chanOf : i \in Nat /\ i < m /\ i \in DOMAIN chanOf' /\ chanOf'[i] = chanOf[i]
      /\ m \in DOMAIN chanOf' /\ chanOf'[m] = ch
  BY <1>1, AppendFacts DEF FanTypes
<1>3. /\ wire' \in [Channels -> Seq(Nat)] /\ wire'[ch] = Append(wire[ch], m)
      /\ \A c \in Channels : c # ch => wire'[c] = wire[c]
  BY <1>1, AppendFacts DEF FanTypes
<1>4. \A i \in DOMAIN wire'[ch] :
        \/ i \in DOMAIN wire[ch] /\ wire'[ch][i] = wire[ch][i] /\ i <= Len(wire[ch])
        \/ i = Len(wire[ch]) + 1 /\ wire'[ch][i] = m
  BY <1>1, <1>3 DEF FanTypes
<1>5. Len(wire[ch]) \in Nat /\ DOMAIN wire[ch] = 1..Len(wire[ch])
  BY <1>1 DEF FanTypes
<1>6. WireOrder'
  <2>1. ASSUME NEW c \in Channels, c # ch, NEW i \in DOMAIN wire[c]
        PROVE  /\ wire[c][i] \in DOMAIN chanOf' /\ chanOf'[wire[c][i]] = c
               /\ \A j \in DOMAIN wire[c] : i < j => wire[c][i] < wire[c][j]
               /\ \A l \in Listeners : g[l].ch = c => g[l].m < wire[c][i]
    BY <1>2 DEF FanInv, WireOrder
  <2>2. ASSUME NEW i \in DOMAIN wire'[ch]
        PROVE  /\ wire'[ch][i] \in DOMAIN chanOf' /\ chanOf'[wire'[ch][i]] = ch
               /\ \A l \in Listeners : g[l].ch = ch => g[l].m < wire'[ch][i]
    <3>1. CASE i \in DOMAIN wire[ch] /\ wire'[ch][i] = wire[ch][i]
      BY <1>2, <3>1 DEF FanInv, WireOrder
    <3>2. CASE wire'[ch][i] = m
      <4>1. \A l \in Listeners : g[l].ch = ch => g[l].m \in DOMAIN chanOf
        BY NotNone DEF FanInv, HandFits
      <4> QED BY <1>2, <3>2, <4>1
    <3> QED BY <1>4, <3>1, <3>2
  <2>3. ASSUME NEW i \in DOMAIN wire'[ch], NEW j \in DOMAIN wire'[ch], i < j
        PROVE  wire'[ch][i] < wire'[ch][j]
    <3>1. CASE j \in DOMAIN wire[ch] /\ wire'[ch][j] = wire[ch][j] /\ j <= Len(wire[ch])
      <4>1. i \in DOMAIN wire[ch] /\ wire'[ch][i] = wire[ch][i]
        BY <1>4, <1>5, <2>3, <3>1
      <4> QED BY <2>3, <3>1, <4>1 DEF FanInv, WireOrder
    <3>2. CASE j = Len(wire[ch]) + 1 /\ wire'[ch][j] = m
      <4>1. i \in DOMAIN wire[ch] /\ wire'[ch][i] = wire[ch][i]
        BY <1>4, <1>5, <2>3, <3>2
      <4>2. wire[ch][i] \in DOMAIN chanOf
        BY <4>1 DEF FanInv, WireOrder
      <4> QED BY <1>2, <3>2, <4>1, <4>2
    <3> QED BY <1>4, <3>1, <3>2
  <2> QED BY <1>3, <2>1, <2>2, <2>3 DEF WireOrder
<1>7. ASSUME NEW s \in Subs, NEW c \in Channels, NEW i \in DOMAIN wire'[c]
      PROVE  NewTo(s, c, wire'[c][i])
  <2>1. CASE c # ch \/ (i \in DOMAIN wire[ch] /\ wire'[ch][i] = wire[ch][i])
    BY <1>3, <2>1 DEF FanInv, Fresh
  <2>2. CASE c = ch /\ wire'[ch][i] = m
    <3>1. m \notin due[s]
      BY <1>2 DEF FanInv, Fresh
    <3>2. s \notin crossed => last[s][ch] < m
      BY <1>1, <1>2 DEF FanInv, Fresh, FanTypes
    <3> QED BY <2>2, <3>1, <3>2 DEF NewTo
  <2> QED BY <1>4, <2>1, <2>2
<1>8. Len(chanOf) <= Len(chanOf') /\ members' \in [Channels -> SUBSET Subs]
  BY <1>1, <1>2 DEF FanTypes
<1> QED BY <1>2, <1>3, <1>6, <1>7, <1>8, QuietStep

\* Neither the wire nor the messages change.
LEMMA WireStays ==
  ASSUME FanInv, UNCHANGED <<g, buf, last, due, crossed, torn, wire, chanOf>>,
         listeners' \in [Channels -> Nat], members' \in [Channels -> SUBSET Subs]
  PROVE  FanInv'
<1>1. FanTypes /\ WireOrder /\ Fresh
  BY DEF FanInv
<1>2. WireOrder'
  BY <1>1 DEF WireOrder
<1>3. \A s \in Subs, ch \in Channels : \A i \in DOMAIN wire'[ch] : NewTo(s, ch, wire'[ch][i])
  BY <1>1 DEF Fresh
<1>4. /\ wire' \in [Channels -> Seq(Nat)] /\ chanOf' \in Seq(Channels)
      /\ Len(chanOf) <= Len(chanOf') /\ \A m \in DOMAIN chanOf : chanOf'[m] = chanOf[m]
  BY <1>1 DEF FanTypes
<1> QED BY <1>2, <1>3, <1>4, QuietStep

LEMMA PublishStep == ASSUME FanInv, PublishInbound PROVE FanInv'
<1>1. PICK ch \in Channels, reached \in {"gate", "listen", "publish", "ack"} :
        /\ EnsureChannelListening(ch, reached \in {"publish", "ack"})
        /\ PublishToChannel(ch, reached = "ack")
  BY DEF PublishInbound
<1>2. FanTypes /\ UNCHANGED <<g, buf, last, due, crossed, torn, members>>
  BY DEF PublishInbound, FanInv, subscribers, history, races
<1>3. listeners' \in [Channels -> Nat]
  <2>1. listeners' = listeners \/ listeners' = [listeners EXCEPT ![ch] = 1]
    BY <1>1 DEF EnsureChannelListening, Listen
  <2> QED BY <1>2, <2>1 DEF FanTypes
<1>4. CASE reached = "ack"
  <2>1. listeners' = [listeners EXCEPT ![ch] = 1]
    BY <1>1, <1>4 DEF EnsureChannelListening, Listen
  <2>2. listeners'[ch] = 1
    BY <1>2, <2>1 DEF FanTypes
  <2>3. PICK m \in Nat : m = Len(chanOf) + 1
    BY <1>2 DEF FanTypes
  <2>4. /\ chanOf' = Append(chanOf, ch)
        /\ wire' = [wire EXCEPT ![ch] = @ \o [i \in 1..listeners'[ch] |-> m]]
    BY <1>1, <1>4, <2>3 DEF PublishToChannel
  <2>5. wire[ch] \in Seq(Nat)
    BY <1>2 DEF FanTypes
  <2>6. [i \in 1..1 |-> m] = <<m>>
    OBVIOUS
  <2>7. wire[ch] \o <<m>> = Append(wire[ch], m)
    BY <2>5
  <2>8. wire' = [wire EXCEPT ![ch] = Append(@, m)]
    BY <2>2, <2>4, <2>6, <2>7
  <2> QED BY <1>2, <1>3, <2>3, <2>4, <2>8, Published
<1>5. CASE reached # "ack"
  <2>1. UNCHANGED <<chanOf, wire>>
    BY <1>1, <1>5 DEF PublishToChannel
  <2> QED BY <1>2, <1>3, <2>1, WireStays DEF FanTypes
<1> QED BY <1>4, <1>5

LEMMA LoseStep == ASSUME FanInv, NEW ch \in Channels, Lose(ch) PROVE FanInv'
<1>1. /\ FanTypes /\ wire[ch] # <<>> /\ wire' = [wire EXCEPT ![ch] = Tail(@)]
      /\ UNCHANGED <<listeners, chanOf, g, buf, last, due, crossed, torn, members>>
  BY DEF Lose, FanInv, subscribers, history, races
<1>2. /\ wire[ch] \in Seq(Nat) /\ wire'[ch] = Tail(wire[ch])
      /\ \A c \in Channels : c # ch => wire'[c] = wire[c]
  BY <1>1 DEF FanTypes
<1>3. /\ wire'[ch] \in Seq(Nat)
      /\ \A i \in DOMAIN wire'[ch] : /\ i \in Nat /\ i + 1 \in DOMAIN wire[ch]
                                     /\ wire'[ch][i] = wire[ch][i + 1]
  <2>1. /\ Tail(wire[ch]) \in Seq(Nat)
        /\ \A i \in DOMAIN Tail(wire[ch]) : /\ i \in Nat /\ i + 1 \in DOMAIN wire[ch]
                                            /\ Tail(wire[ch])[i] = wire[ch][i + 1]
    BY <1>1, <1>2, TailFacts
  <2> QED BY <1>2, <2>1
<1>4. wire' \in [Channels -> Seq(Nat)]
  BY <1>1, <1>2, <1>3 DEF FanTypes
<1>5. WireOrder'
  BY <1>1, <1>2, <1>3 DEF FanInv, WireOrder
<1>6. \A s \in Subs, c \in Channels : \A i \in DOMAIN wire'[c] : NewTo(s, c, wire'[c][i])
  BY <1>2, <1>3 DEF FanInv, Fresh
<1>7. /\ listeners' \in [Channels -> Nat] /\ members' \in [Channels -> SUBSET Subs]
      /\ chanOf' \in Seq(Channels) /\ Len(chanOf) <= Len(chanOf')
      /\ \A m \in DOMAIN chanOf : chanOf'[m] = chanOf[m]
  BY <1>1 DEF FanTypes
<1> QED BY <1>1, <1>4, <1>5, <1>6, <1>7, QuietStep

LEMMA ComingAndGoing ==
  ASSUME FanInv, NEW s \in Subs, Close(s) \/ \E ch \in Channels : Join(s, ch) \/ Leave(s, ch)
  PROVE  FanInv'
<1>1. FanTypes
  BY DEF FanInv
<1>2. CASE Close(s)
  BY <1>1, <1>2, WireStays DEF Close, FanTypes, history, races
<1>3. ASSUME NEW ch \in Channels, Join(s, ch) PROVE FanInv'
  <2>1. /\ listeners' = [listeners EXCEPT ![ch] = 1]
        /\ members' = [members EXCEPT ![ch] = @ \cup {s}]
        /\ UNCHANGED <<g, buf, last, due, crossed, torn, wire, chanOf>>
    BY <1>3 DEF Join, Listen, history, races
  <2>2. listeners' \in [Channels -> Nat] /\ members' \in [Channels -> SUBSET Subs]
    BY <1>1, <2>1 DEF FanTypes
  <2> QED BY <2>1, <2>2, WireStays
<1>4. ASSUME NEW ch \in Channels, Leave(s, ch) PROVE FanInv'
  <2>1. /\ members' = [members EXCEPT ![ch] = @ \ {s}]
        /\ UNCHANGED <<listeners, g, buf, last, due, crossed, torn, wire, chanOf>>
    BY <1>4 DEF Leave, history, races
  <2>2. listeners' \in [Channels -> Nat] /\ members' \in [Channels -> SUBSET Subs]
    BY <1>1, <2>1 DEF FanTypes
  <2> QED BY <2>1, <2>2, WireStays
<1> QED BY <1>2, <1>3, <1>4

\* A goroutine that has no subscriber, before and after, gets a new hand.
LEMMA NewHand ==
  ASSUME FanInv, NEW l \in Listeners, NEW r \in Goroutine, g' = [g EXCEPT ![l] = r],
         g[l].s = None, r.s = None,
         UNCHANGED <<listeners, chanOf, members, buf, last, due, crossed, torn>>,
         wire' \in [Channels -> Seq(Nat)], HandFits(l)',
         \A k \in Listeners : k # l /\ r.ch # None => g[k].ch # r.ch,
         \A ch \in Channels : \A i \in DOMAIN wire'[ch] : \E j \in DOMAIN wire[ch] :
           /\ wire'[ch][i] = wire[ch][j]
           /\ r.ch = ch => r.m < wire[ch][j],
         \A ch \in Channels : \A i, j \in DOMAIN wire'[ch] : i < j => wire'[ch][i] < wire'[ch][j],
         \A s \in r.subs : NewTo(s, r.ch, r.m)
  PROVE  FanInv'
<1>1. /\ FanTypes /\ g' \in [Listeners -> Goroutine] /\ g'[l] = r
      /\ \A k \in Listeners : k # l => g'[k] = g[k]
  BY DEF FanInv, FanTypes
<1>2. FanTypes'
  BY <1>1 DEF FanTypes
<1>3. \A k \in Listeners : HandFits(k)'
  BY <1>1 DEF FanInv, HandFits
<1>4. OneForEach'
  BY <1>1 DEF FanInv, OneForEach
<1>5. WireOrder'
  BY <1>1 DEF FanInv, WireOrder
<1>6. Fresh'
  <2>1. \A s \in Subs, ch \in Channels : \A i \in DOMAIN wire'[ch] : NewTo(s, ch, wire'[ch][i])
    BY DEF FanInv, Fresh
  <2>2. \A k \in Listeners : \A s \in g'[k].subs : NewTo(s, g'[k].ch, g'[k].m)
    BY <1>1 DEF FanInv, Fresh
  <2>3. /\ \A s \in Subs : due[s] \subseteq DOMAIN chanOf
        /\ \A s \in Subs, ch \in Channels : s \notin crossed => last[s][ch] <= Len(chanOf)
    BY DEF FanInv, Fresh
  <2> QED BY <2>1, <2>2, <2>3 DEF Fresh, NewTo
<1>7. \A s \in Subs : Untouched(s)
  BY <1>1, NotNone DEF Untouched
<1> QED BY <1>2, <1>3, <1>4, <1>5, <1>6, <1>7, NotNone, OneTouched

LEMMA ListenerCalled ==
  ASSUME FanInv, NEW l \in Listeners, NEW ch \in Channels, OnBrokerMessage(l, ch)
  PROVE  FanInv'
<1>1. /\ FanTypes /\ At(l, "idle") /\ wire[ch] # <<>> /\ \A k \in Listeners : g[k].ch # ch
      /\ wire' = [wire EXCEPT ![ch] = Tail(@)]
      /\ g' = [g EXCEPT ![l] = [Idle EXCEPT !.pc = "each", !.ch = ch, !.m = Head(wire[ch]),
                                            !.subs = members[ch]]]
      /\ UNCHANGED <<listeners, chanOf, members, buf, last, due, crossed, torn>>
  BY DEF OnBrokerMessage, FanInv, subscribers, history, races
<1>2. wire[ch] \in Seq(Nat) /\ members[ch] \in SUBSET Subs /\ wire \in [Channels -> Seq(Nat)]
  BY <1>1 DEF FanTypes
<1>3. /\ 1 \in DOMAIN wire[ch] /\ Head(wire[ch]) = wire[ch][1] /\ Head(wire[ch]) \in Nat
      /\ Tail(wire[ch]) \in Seq(Nat)
      /\ \A i \in DOMAIN Tail(wire[ch]) : /\ i \in Nat /\ 1 < i + 1 /\ i + 1 \in DOMAIN wire[ch]
                                          /\ Tail(wire[ch])[i] = wire[ch][i + 1]
  BY <1>1, <1>2, TailFacts
<1>4. <<>> \in Seq(Nat) /\ "each" \in Places
  BY DEF Places
<1>5. PICK r \in Goroutine :
        /\ g' = [g EXCEPT ![l] = r]
        /\ r.pc = "each" /\ r.ch = ch /\ r.m = wire[ch][1] /\ r.subs = members[ch]
        /\ r.s = None /\ r.items = <<>>
  <2> DEFINE q == [Idle EXCEPT !.pc = "each", !.ch = ch, !.m = Head(wire[ch]),
                               !.subs = members[ch]]
  <2>1. /\ q.pc = "each" /\ q.ch = ch /\ q.m = wire[ch][1] /\ q.subs = members[ch]
        /\ q.s = None /\ q.items = <<>> /\ q \in Goroutine
    BY <1>2, <1>3, <1>4 DEF Idle, Goroutine
  <2>2. g' = [g EXCEPT ![l] = q]
    BY <1>1
  <2> HIDE DEF q
  <2> QED BY <2>1, <2>2
<1>6. g[l].s = None
  BY <1>1 DEF FanInv, HandFits, At
<1>7. wire[ch][1] \in DOMAIN chanOf /\ chanOf[wire[ch][1]] = ch
  BY <1>3 DEF FanInv, WireOrder
<1>8. g'[l] = r
  BY <1>1, <1>5 DEF FanTypes
<1>9. HandFits(l)'
  BY <1>1, <1>2, <1>5, <1>7, <1>8, NotNone DEF HandFits
<1>10. /\ wire' \in [Channels -> Seq(Nat)] /\ wire'[ch] = Tail(wire[ch])
       /\ \A c \in Channels : c # ch => wire'[c] = wire[c]
  BY <1>1, <1>2, <1>3
<1>11. \A c \in Channels : \A i \in DOMAIN wire'[c] : \E j \in DOMAIN wire[c] :
         wire'[c][i] = wire[c][j] /\ (r.ch = c => r.m < wire[c][j])
  <2>1. ASSUME NEW i \in DOMAIN wire'[ch]
        PROVE  /\ i + 1 \in DOMAIN wire[ch] /\ wire'[ch][i] = wire[ch][i + 1]
               /\ wire[ch][1] < wire[ch][i + 1]
    BY <1>3, <1>10 DEF FanInv, WireOrder
  <2>2. ASSUME NEW i \in DOMAIN wire'[ch]
        PROVE  \E j \in DOMAIN wire[ch] :
                 wire'[ch][i] = wire[ch][j] /\ (r.ch = ch => r.m < wire[ch][j])
    BY <1>5, <2>1
  <2>3. ASSUME NEW c \in Channels, c # ch, NEW i \in DOMAIN wire'[c]
        PROVE  i \in DOMAIN wire[c] /\ wire'[c][i] = wire[c][i] /\ r.ch # c
    BY <1>5, <1>10, <2>3
  <2> QED BY <2>2, <2>3
<1>12. \A c \in Channels : \A i, j \in DOMAIN wire'[c] : i < j => wire'[c][i] < wire'[c][j]
  <2> SUFFICES ASSUME NEW c \in Channels, NEW i \in DOMAIN wire'[c], NEW j \in DOMAIN wire'[c],
                      i < j
               PROVE  wire'[c][i] < wire'[c][j]
    OBVIOUS
  <2>1. CASE c = ch
    <3>1. /\ i + 1 \in DOMAIN wire[ch] /\ wire'[ch][i] = wire[ch][i + 1] /\ i \in Nat
          /\ j + 1 \in DOMAIN wire[ch] /\ wire'[ch][j] = wire[ch][j + 1] /\ j \in Nat
      BY <1>3, <1>10, <2>1
    <3>2. i + 1 < j + 1
      BY <3>1
    <3> QED BY <2>1, <3>1, <3>2 DEF FanInv, WireOrder
  <2>2. CASE c # ch
    BY <1>10, <2>2 DEF FanInv, WireOrder
  <2> QED BY <2>1, <2>2
<1>13. \A s \in r.subs : NewTo(s, r.ch, r.m)
  BY <1>2, <1>3, <1>5 DEF FanInv, Fresh
<1>14. \A k \in Listeners : k # l /\ r.ch # None => g[k].ch # r.ch
  BY <1>1, <1>5
<1>15. /\ g' = [g EXCEPT ![l] = r] /\ g[l].s = None /\ r.s = None
       /\ wire' \in [Channels -> Seq(Nat)]
       /\ UNCHANGED <<listeners, chanOf, members, buf, last, due, crossed, torn>>
  BY <1>1, <1>5, <1>6, <1>10
<1> QED BY <1>9, <1>11, <1>12, <1>13, <1>14, <1>15, NewHand

\* Nobody on the list, the next one closed, or its subscriber for a delivery.
LEMMA ListDone ==
  ASSUME FanInv, NEW l \in Listeners, At(l, "each"), g' = [g EXCEPT ![l] = Idle],
         UNCHANGED <<listeners, wire, chanOf, members, buf, last, due, crossed, torn>>
  PROVE  FanInv'
<1>1. FanTypes
  BY DEF FanInv
<1>2. <<>> \in Seq(Nat) /\ "idle" \in Places
  BY DEF Places
<1>3. /\ Idle \in Goroutine /\ Idle.pc = "idle" /\ Idle.s = None /\ Idle.ch = None
      /\ Idle.subs = {}
  BY <1>2 DEF Idle, Goroutine
<1>4. g[l].s = None /\ g'[l] = Idle
  BY <1>1 DEF FanInv, FanTypes, HandFits, At
<1>5. HandFits(l)'
  BY <1>3, <1>4 DEF HandFits
<1>6. wire' \in [Channels -> Seq(Nat)] /\ wire' = wire
  BY <1>1 DEF FanTypes
<1>7. /\ \A ch \in Channels : \A i \in DOMAIN wire'[ch] : \E j \in DOMAIN wire[ch] :
           wire'[ch][i] = wire[ch][j] /\ (Idle.ch = ch => Idle.m < wire[ch][j])
      /\ \A ch \in Channels : \A i, j \in DOMAIN wire'[ch] : i < j => wire'[ch][i] < wire'[ch][j]
  BY <1>3, <1>6, NotNone DEF FanInv, WireOrder
<1> QED BY <1>3, <1>4, <1>5, <1>6, <1>7, NewHand

LEMMA PassedOver ==
  ASSUME FanInv, NEW l \in Listeners, At(l, "each"), NEW s \in g[l].subs,
         g' = [g EXCEPT ![l].subs = @ \ {s}],
         UNCHANGED <<listeners, wire, chanOf, members, buf, last, due, crossed, torn>>
  PROVE  FanInv'
<1>1. FanTypes /\ g[l] \in Goroutine
  BY DEF FanInv, FanTypes
<1>2. PICK r \in Goroutine :
        /\ g' = [g EXCEPT ![l] = r]
        /\ r.pc = g[l].pc /\ r.ch = g[l].ch /\ r.m = g[l].m /\ r.subs = g[l].subs \ {s}
        /\ r.s = g[l].s /\ r.items = g[l].items
  <2> DEFINE q == [g[l] EXCEPT !.subs = @ \ {s}]
  <2>1. /\ q.pc = g[l].pc /\ q.ch = g[l].ch /\ q.m = g[l].m /\ q.subs = g[l].subs \ {s}
        /\ q.s = g[l].s /\ q.items = g[l].items /\ q \in Goroutine
    BY <1>1 DEF Goroutine
  <2>2. g' = [g EXCEPT ![l] = q]
    BY <1>1 DEF FanTypes
  <2> HIDE DEF q
  <2> QED BY <2>1, <2>2
<1>3. g[l].s = None /\ g'[l] = r
  BY <1>1, <1>2 DEF FanInv, FanTypes, HandFits, At
<1>4. HandFits(l)'
  BY <1>2, <1>3 DEF FanInv, HandFits
<1>5. wire' \in [Channels -> Seq(Nat)] /\ wire' = wire
  BY <1>1 DEF FanTypes
<1>6. /\ \A ch \in Channels : \A i \in DOMAIN wire'[ch] : \E j \in DOMAIN wire[ch] :
           wire'[ch][i] = wire[ch][j] /\ (r.ch = ch => r.m < wire[ch][j])
      /\ \A ch \in Channels : \A i, j \in DOMAIN wire'[ch] : i < j => wire'[ch][i] < wire'[ch][j]
  BY <1>2, <1>5 DEF FanInv, WireOrder
<1>7. \A k \in Listeners : k # l /\ r.ch # None => g[k].ch # r.ch
  BY <1>2 DEF FanInv, OneForEach
<1>8. \A x \in r.subs : NewTo(x, r.ch, r.m)
  BY <1>2 DEF FanInv, Fresh
<1> QED BY <1>2, <1>3, <1>4, <1>5, <1>6, <1>7, <1>8, NewHand

\* Goroutine l takes subscriber s from its list.
Takes(l, s) ==
  /\ g' \in [Listeners -> Goroutine]
  /\ \A k \in Listeners : k # l => g'[k] = g[k]
  /\ g'[l].pc = "gate" /\ g'[l].s = s /\ g'[l].ch = g[l].ch /\ g'[l].m = g[l].m
  /\ g'[l].subs = g[l].subs \ {s} /\ g'[l].items = g[l].items

Picked(l, s) == g' = [g EXCEPT ![l].subs = @ \ {s}, ![l].s = s, ![l].pc = "gate"]

LEMMA ItTakes ==
  ASSUME FanTypes, NEW l \in Listeners, NEW s \in Subs, Picked(l, s)
  PROVE  Takes(l, s)
<1> DEFINE r == [g[l] EXCEPT !.subs = @ \ {s}, !.s = s, !.pc = "gate"]
<1>1. g[l] \in Goroutine /\ g \in [Listeners -> Goroutine]
  BY DEF FanTypes
<1>2. /\ r \in Goroutine /\ r.pc = "gate" /\ r.s = s /\ r.items = g[l].items
      /\ r.ch = g[l].ch /\ r.m = g[l].m /\ r.subs = g[l].subs \ {s}
  BY <1>1 DEF Goroutine, Places
<1>3. g' = [g EXCEPT ![l] = r]
  BY <1>1 DEF Picked
<1> HIDE DEF r
<1>4. g' \in [Listeners -> Goroutine] /\ g'[l] = r /\ \A k \in Listeners : k # l => g'[k] = g[k]
  BY <1>1, <1>2, <1>3
<1> QED BY <1>2, <1>4 DEF Takes

LEMMA RolesTaken ==
  ASSUME NEW l \in Listeners, NEW s \in Subs, g[l].s = None, Takes(l, s)
  PROVE  /\ \A k \in Listeners : /\ g'[k].m = g[k].m /\ g'[k].items = g[k].items
                                 /\ Enters(k, s)' <=> k = l \/ Enters(k, s)
                                 /\ Hands(k, s)' <=> Hands(k, s)
                                 /\ Touches(k, s)' <=> Touches(k, s)
                                 /\ Delivers(k, s)' <=> Delivers(k, s)
         /\ Flushers(s)' = Flushers(s)
<1>1. /\ \A k \in Listeners : k # l => g'[k] = g[k]
      /\ g'[l].pc = "gate" /\ g'[l].s = s /\ None # s
      /\ g'[l].m = g[l].m /\ g'[l].items = g[l].items
  BY NotNone DEF Takes
<1>2. \A k \in Listeners : g'[k].m = g[k].m /\ g'[k].items = g[k].items
  BY <1>1
<1>3. \A k \in Listeners : /\ Enters(k, s)' <=> k = l \/ Enters(k, s)
                           /\ Hands(k, s)' <=> Hands(k, s)
                           /\ Touches(k, s)' <=> Touches(k, s)
                           /\ Delivers(k, s)' <=> Delivers(k, s)
  BY <1>1 DEF Enters, Hands, Touches, Delivers, At
<1>4. Flushers(s)' = Flushers(s)
  BY <1>1 DEF Flushers
<1> QED BY <1>2, <1>3, <1>4

LEMMA TakesUp ==
  ASSUME FanInv, NEW l \in Listeners, At(l, "each"), NEW s \in g[l].subs, Takes(l, s),
         NEW m \in Nat, m = g[l].m,
         due' \in [Subs -> SUBSET Nat], due'[s] = due[s] \cup {m},
         \A x \in Subs : x # s => due'[x] = due[x],
         UNCHANGED <<listeners, wire, chanOf, members, buf, last, crossed, torn>>
  PROVE  FanInv'
<1>1. FanTypes /\ g[l] \in Goroutine /\ s \in Subs /\ None # s
  BY NotNone DEF FanInv, FanTypes, Goroutine
<1>2. m = g[l].m
  OBVIOUS
<1>3. g[l].s = None /\ g[l].pc = "each" /\ g[l].ch # None /\ m \in DOMAIN chanOf
      /\ chanOf[m] = g[l].ch /\ g[l].ch \in Channels
  BY <1>1, <1>2 DEF FanInv, HandFits, At, Goroutine
<1>4. /\ g' \in [Listeners -> Goroutine]
      /\ \A k \in Listeners : k # l => g'[k] = g[k]
      /\ g'[l].pc = "gate" /\ g'[l].s = s /\ g'[l].ch = g[l].ch /\ g'[l].m = m
      /\ g'[l].subs = g[l].subs \ {s} /\ g'[l].items = g[l].items
  BY <1>2 DEF Takes
<1>5. /\ due' \in [Subs -> SUBSET Nat] /\ due'[s] = due[s] \cup {m}
      /\ \A x \in Subs : x # s => due'[x] = due[x]
  OBVIOUS
<1>6. m \notin due[s] /\ (s \notin crossed => last[s][chanOf[m]] < m)
  BY <1>2, <1>3 DEF FanInv, Fresh, NewTo
<1>7. FanTypes'
  BY <1>1, <1>4, <1>5 DEF FanTypes
<1>8. (\A k \in Listeners : HandFits(k)') /\ OneForEach' /\ WireOrder'
  <2>1. HandFits(l)'
    BY <1>1, <1>2, <1>3, <1>4 DEF HandFits
  <2>2. \A k \in Listeners : k # l => HandFits(k)'
    BY <1>4 DEF FanInv, HandFits
  <2>3. OneForEach'
    BY <1>4 DEF FanInv, OneForEach
  <2>4. WireOrder'
    BY <1>2, <1>4 DEF FanInv, WireOrder
  <2> QED BY <2>1, <2>2, <2>3, <2>4
<1>9. Fresh'
  <2>1. \A x \in Subs : due'[x] \subseteq DOMAIN chanOf
    BY <1>3, <1>5 DEF FanInv, Fresh
  <2>2. ASSUME NEW x \in Subs, NEW ch \in Channels, NEW i \in DOMAIN wire[ch]
        PROVE  wire[ch][i] \notin due'[x] /\ (x \notin crossed => last[x][ch] < wire[ch][i])
    <3>1. wire[ch][i] \notin due[x] /\ (x \notin crossed => last[x][ch] < wire[ch][i])
      BY DEF FanInv, Fresh, NewTo
    <3>2. wire[ch][i] # m
      <4>1. chanOf[wire[ch][i]] = ch /\ (g[l].ch = ch => m < wire[ch][i])
        BY <1>2 DEF FanInv, WireOrder
      <4>2. CASE g[l].ch = ch
        BY <1>2, <4>1, <4>2
      <4>3. CASE g[l].ch # ch
        BY <1>3, <4>1, <4>3
      <4> QED BY <4>2, <4>3
    <3> QED BY <1>5, <3>1, <3>2
  <2>3. ASSUME NEW k \in Listeners, NEW x \in g'[k].subs
        PROVE  g'[k].m \notin due'[x] /\ (x \notin crossed => last[x][g'[k].ch] < g'[k].m)
    <3>1. x \in g[k].subs /\ g'[k].ch = g[k].ch /\ g'[k].m = g[k].m /\ x \in Subs
      BY <1>1, <1>2, <1>4 DEF FanTypes, Goroutine
    <3>2. g[k].m \notin due[x] /\ (x \notin crossed => last[x][g[k].ch] < g[k].m)
      BY <3>1 DEF FanInv, Fresh, NewTo
    <3>3. x = s => k # l
      BY <1>4
    <3>4. x = s => g[k].m # m
      <4>1. k # l /\ g[k].pc # "idle" => g[k].m # m
        BY <1>2, <1>3, OneMessage
      <4>2. g[k].pc # "idle"
        BY <3>1 DEF FanInv, HandFits
      <4> QED BY <3>3, <4>1, <4>2
    <3> QED BY <1>5, <3>1, <3>2, <3>4
  <2>4. \A x \in Subs, ch \in Channels : x \notin crossed => last[x][ch] <= Len(chanOf)
    BY DEF FanInv, Fresh
  <2> QED BY <2>1, <2>2, <2>3, <2>4 DEF Fresh, NewTo
<1>10. \A x \in Subs : x # s => Untouched(x)
  <2> SUFFICES ASSUME NEW x \in Subs, x # s PROVE Untouched(x)
    OBVIOUS
  <2>1. \A k \in Listeners : k # l => g'[k] = g[k]
    BY <1>4
  <2>2. g[l].s # x /\ g'[l].s # x
    BY <1>3, <1>4, NotNone
  <2>3. due'[x] = due[x]
    BY <1>5
  <2> QED BY <2>1, <2>2, <2>3 DEF Untouched
<1>11. /\ \A k \in Listeners : /\ g'[k].m = g[k].m /\ g'[k].items = g[k].items
                               /\ Enters(k, s)' <=> k = l \/ Enters(k, s)
                               /\ Hands(k, s)' <=> Hands(k, s)
                               /\ Touches(k, s)' <=> Touches(k, s)
                               /\ Delivers(k, s)' <=> Delivers(k, s)
       /\ Flushers(s)' = Flushers(s)
  BY <1>1, <1>3, RolesTaken
<1>12. ASSUME s \notin torn' PROVE Placed(s)'
  <2>1. Placed(s) /\ s \notin torn
    BY <1>1, <1>12 DEF FanInv
  <2>2. ~Somewhere(s, m)
    BY <1>6, <2>1 DEF Placed
  <2>3. Apart(s)'
    BY <1>11, <2>1 DEF Placed, Apart
  <2>4. Once(s)'
    <3>1. /\ \A i, j \in DOMAIN buf[s] : buf[s][i] = buf[s][j] => i = j
          /\ \A h, k \in Listeners :
               Hands(h, s) /\ Hands(k, s) /\ Head(g[h].items) = Head(g[k].items) => h = k
          /\ \A h \in Listeners, i \in DOMAIN buf[s] : Enters(h, s) => g[h].m # buf[s][i]
          /\ \A h, k \in Listeners : Enters(h, s) /\ Hands(k, s) => g[h].m # Head(g[k].items)
          /\ \A h \in Listeners, i \in DOMAIN buf[s] : Hands(h, s) => Head(g[h].items) # buf[s][i]
      BY <2>1 DEF Placed, Once
    <3>2. /\ \A i \in DOMAIN buf[s] : g[l].m # buf[s][i]
          /\ \A k \in Listeners : Hands(k, s) => g[l].m # Head(g[k].items)
      BY <1>2, <2>2 DEF Somewhere
    <3>3. \A h \in Listeners, i \in DOMAIN buf[s] : Enters(h, s)' => g'[h].m # buf[s][i]
      BY <1>11, <3>1, <3>2
    <3>4. \A h, k \in Listeners : Enters(h, s)' /\ Hands(k, s)' => g'[h].m # Head(g'[k].items)
      BY <1>11, <3>1, <3>2
    <3>5. /\ \A h, k \in Listeners :
               Hands(h, s)' /\ Hands(k, s)' /\ Head(g'[h].items) = Head(g'[k].items) => h = k
          /\ \A h \in Listeners, i \in DOMAIN buf[s] : Hands(h, s)' => Head(g'[h].items) # buf[s][i]
      BY <1>11, <3>1
    <3> QED BY <3>1, <3>3, <3>4, <3>5 DEF Once
  <2>5. Flushed(s)'
    BY <1>11, <2>1 DEF Placed, Flushed
  <2>6. \A x \in Nat : Somewhere(s, x)' <=> x = m \/ Somewhere(s, x)
    BY <1>2, <1>11 DEF Somewhere
  <2> QED BY <1>5, <2>1, <2>3, <2>4, <2>5, <2>6 DEF Placed
<1>13. ASSUME s \notin crossed' PROVE s \notin torn' /\ Single(s)'
  <2>1. s \notin torn /\ Single(s) /\ s \notin crossed
    BY <1>1, <1>13 DEF FanInv
  <2>2. \A i \in DOMAIN buf[s] : \E k \in Flushers(s) : buf[s][i] = g'[k].m
    <3>1. \A k \in Flushers(s) : g'[k].m = g[k].m
      BY <1>11 DEF Flushers
    <3>2. \A i \in DOMAIN buf[s] : \E k \in Flushers(s) : buf[s][i] = g[k].m
      BY <2>1 DEF Single
    <3> QED BY <3>1, <3>2
  <2>3. \A x \in due'[s] : last[s][chanOf[x]] < x
    BY <1>5, <1>6, <2>1 DEF Single
  <2>4. /\ \A h, k \in Listeners : Delivers(h, s)' /\ Delivers(k, s)' => h = k
        /\ \A k \in Listeners : Hands(k, s)' => Head(g'[k].items) = g'[k].m
    BY <1>11, <2>1 DEF Single
  <2>5. \A i \in DOMAIN buf[s] : \E k \in Flushers(s)' : buf[s][i] = g'[k].m
    BY <1>11, <2>2
  <2> QED BY <2>1, <2>3, <2>4, <2>5 DEF Single
<1> QED BY <1>1, <1>7, <1>8, <1>9, <1>10, <1>12, <1>13, OneTouched

LEMMA ListStep == ASSUME FanInv, NEW l \in Listeners, NextSubscriber(l) PROVE FanInv'
<1>1. At(l, "each") /\ UNCHANGED <<listeners, wire, chanOf, members, buf, last, crossed, torn>>
  BY DEF NextSubscriber, subscribers, races
<1>2. \/ g' = [g EXCEPT ![l] = Idle] /\ UNCHANGED due
      \/ \E s \in g[l].subs :
           \/ g' = [g EXCEPT ![l].subs = @ \ {s}] /\ UNCHANGED due
           \/ /\ g' = [g EXCEPT ![l].subs = @ \ {s}, ![l].s = s, ![l].pc = "gate"]
              /\ due' = [due EXCEPT ![s] = @ \cup {g[l].m}]
  BY DEF NextSubscriber
<1>3. ASSUME NEW s \in g[l].subs,
             g' = [g EXCEPT ![l].subs = @ \ {s}, ![l].s = s, ![l].pc = "gate"],
             due' = [due EXCEPT ![s] = @ \cup {g[l].m}]
      PROVE  FanInv'
  <2>1. FanTypes /\ s \in Subs
    BY DEF FanInv, FanTypes, Goroutine
  <2>2. Takes(l, s)
    BY <1>3, <2>1, ItTakes DEF Picked
  <2>3. PICK m \in Nat : m = g[l].m
    BY <2>1 DEF FanTypes, Goroutine
  <2>4. /\ due' \in [Subs -> SUBSET Nat] /\ due'[s] = due[s] \cup {m}
        /\ \A x \in Subs : x # s => due'[x] = due[x]
    BY <1>3, <2>1, <2>3 DEF FanTypes
  <2> QED BY <1>1, <2>2, <2>3, <2>4, TakesUp
<1> QED BY <1>1, <1>2, <1>3, ListDone, PassedOver

-----------------------------------------------------------------------------
(* The theorems *)

LEMMA FanStarts == Init => FanInv
<1> SUFFICES ASSUME Init PROVE FanInv
  OBVIOUS
<1>1. <<>> \in Seq(Nat) /\ <<>> \in Seq(Channels) /\ DOMAIN <<>> = {} /\ Len(<<>>) = 0
  OBVIOUS
<1>2. /\ Idle \in Goroutine /\ Idle.pc = "idle" /\ Idle.s = None /\ Idle.ch = None
      /\ Idle.subs = {}
  BY <1>1 DEF Idle, Goroutine, Places
<1>3. FanTypes
  BY <1>1, <1>2 DEF Init, FanTypes
<1>4. \A l \in Listeners : g[l] = Idle
  BY DEF Init
<1>5. (\A l \in Listeners : HandFits(l)) /\ OneForEach
  BY <1>2, <1>4 DEF HandFits, OneForEach
<1>6. WireOrder /\ Fresh
  <2>1. \A ch \in Channels : DOMAIN wire[ch] = {}
    BY <1>1 DEF Init
  <2>2. WireOrder
    BY <2>1 DEF WireOrder
  <2>3. /\ \A s \in Subs : due[s] = {}
        /\ \A s \in Subs, ch \in Channels : last[s][ch] <= Len(chanOf)
    BY <1>1 DEF Init
  <2> QED BY <1>2, <1>4, <2>1, <2>2, <2>3 DEF Fresh
<1>7. ASSUME NEW s \in Subs PROVE Placed(s) /\ Single(s)
  <2>1. \A l \in Listeners : g[l].s # s
    BY <1>2, <1>4, NotNone
  <2>2. /\ buf[s] = <<>> /\ DOMAIN buf[s] = {} /\ Len(buf[s]) = 0 /\ due[s] = {}
    BY <1>1 DEF Init
  <2>3. \A l \in Listeners : ~Enters(l, s) /\ ~Hands(l, s) /\ ~Touches(l, s) /\ ~Delivers(l, s)
    BY <2>1 DEF Enters, Hands, Touches, Delivers
  <2>4. Flushers(s) = {}
    BY <2>1 DEF Flushers
  <2>5. Flushed(s)
    BY <2>2, <2>4, FS_EmptySet DEF Flushed
  <2> QED BY <2>2, <2>3, <2>5 DEF Placed, Single, Apart, Once, Somewhere
<1> QED BY <1>3, <1>5, <1>6, <1>7 DEF FanInv, Init

LEMMA FanStep == FanInv /\ [Next]_vars => FanInv'
<1> SUFFICES ASSUME FanInv, [Next]_vars PROVE FanInv'
  OBVIOUS
<1>1. CASE UNCHANGED vars
  BY <1>1, WireStays DEF vars, FanInv, FanTypes, history, races, subscribers
<1>2. CASE PublishInbound
  BY <1>2, PublishStep
<1>3. ASSUME NEW ch \in Channels, Lose(ch) PROVE FanInv'
  BY <1>3, LoseStep
<1>4. ASSUME NEW ch \in Channels, NEW l \in Listeners, OnBrokerMessage(l, ch) PROVE FanInv'
  BY <1>4, ListenerCalled
<1>5. ASSUME NEW l \in Listeners, NextSubscriber(l) PROVE FanInv'
  BY <1>5, ListStep
<1>6. ASSUME NEW l \in Listeners, DeliverToSubscriber(l) PROVE FanInv'
  BY <1>6, DeliveryStep
<1>7. ASSUME NEW s \in Subs, Close(s) \/ \E ch \in Channels : Join(s, ch) \/ Leave(s, ch)
      PROVE  FanInv'
  BY <1>7, ComingAndGoing
<1> QED BY <1>1, <1>2, <1>3, <1>4, <1>5, <1>6, <1>7 DEF Next

LEMMA FanHolds == Spec => []FanInv
BY FanStarts, FanStep, PTL DEF Spec

\* A message that finds a subscription on its channel (onBrokerMessage) is on its
\* way to the buffer, in it, or just out of it, and in one of these places, until
\* it is handed to the client's pipeline or given up; a buffer with something in
\* it has a goroutine that flushes it.
THEOREM DeliveredOnce == Spec => []OnceEach
BY FanHolds, InvGivesOnce, PTL

\* What goes to a pipeline is due, and later than all that went there before it.
LEMMA HandedInOrder ==
  FanInv /\ [Next]_vars =>
    [\A s \in Subs \ crossed, ch \in Channels : last'[s][ch] >= last[s][ch]]_vars
<1> SUFFICES ASSUME FanInv, Next, NEW s \in Subs \ crossed, NEW ch \in Channels
             PROVE  last'[s][ch] >= last[s][ch]
  OBVIOUS
<1>1. last \in [Subs -> [Channels -> Nat]]
  BY DEF FanInv, FanTypes
<1>2. CASE last' = last
  BY <1>1, <1>2
<1>3. ASSUME NEW l \in Listeners, At(l, "deliver"), Hand(g[l].s, Head(g[l].items))
      PROVE  last'[s][ch] >= last[s][ch]
  <2>1. PICK m \in Nat : m = Head(g[l].items)
    <3>1. g[l].items \in Seq(Nat) /\ g[l].items # <<>>
      BY <1>3, HasSubscriber DEF At, FanInv, HandFits
    <3> QED BY <3>1
  <2>2. last' = [last EXCEPT ![g[l].s][chanOf[m]] = m]
    BY <1>3, <2>1 DEF Hand
  <2>3. CASE g[l].s = s
    <3>1. Hands(l, s) /\ Single(s) /\ Placed(s)
      BY <1>3, <2>3 DEF Hands, FanInv
    <3>2. m \in due[s]
      BY <2>1, <3>1 DEF Placed, Somewhere
    <3>3. last[s][chanOf[m]] < m
      BY <3>1, <3>2 DEF Single
    <3> QED BY <1>1, <2>2, <2>3, <3>3
  <2>4. CASE g[l].s # s
    BY <1>1, <2>2, <2>4
  <2> QED BY <2>3, <2>4
<1>4. \/ last' = last
      \/ \E l \in Listeners : At(l, "deliver") /\ Hand(g[l].s, Head(g[l].items))
  <2>1. \A l \in Listeners : Deliver(l) =>
          last' = last \/ (At(l, "deliver") /\ Hand(g[l].s, Head(g[l].items)))
    BY DEF Deliver
  <2>2. \A l \in Listeners : DeliverToSubscriber(l) => last' = last \/ Deliver(l)
    BY DEF DeliverToSubscriber, AllowOutbound, PushReads, PushWrites, PopReads, PopWrites, history
  <2>3. \A l \in Listeners, c \in Channels : NextSubscriber(l) \/ OnBrokerMessage(l, c) =>
          last' = last
    BY DEF NextSubscriber, OnBrokerMessage, history
  <2>4. PublishInbound \/ (\E c \in Channels : Lose(c)) => last' = last
    BY DEF PublishInbound, Lose, history
  <2>5. \A x \in Subs, c \in Channels : Join(x, c) \/ Leave(x, c) => last' = last
    BY DEF Join, Leave, history
  <2>6. \A x \in Subs : Close(x) => last' = last
    BY DEF Close, history
  <2>7. \A l \in Listeners : NextSubscriber(l) => last' = last
    BY DEF NextSubscriber
  <2> QED BY <2>1, <2>2, <2>3, <2>4, <2>5, <2>6, <2>7 DEF Next
<1> QED BY <1>2, <1>3, <1>4

\* processMessage: a channel's messages are handed to a client's pipeline in the
\* order the broker took them, as long as the goroutines of two channels were
\* never delivering to it together.
THEOREM OrderKept == Spec => InOrder
<1>1. FanInv /\ [Next]_vars =>
        [\A s \in Subs \ crossed, ch \in Channels : last'[s][ch] >= last[s][ch]]_vars
  BY HandedInOrder
<1> QED BY <1>1, FanHolds, PTL DEF Spec, InOrder
=============================================================================
