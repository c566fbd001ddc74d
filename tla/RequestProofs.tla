---------------------------- MODULE RequestProofs ---------------------------
(***************************************************************************)
(* Who is let in by a key or a token, and what a key is after an update,   *)
(* for any number of requests, tokens and lifetimes; what the answer to a  *)
(* publish request says, for any number of requests and channels; and what *)
(* holds of the sockets of any number of connections, whoever sends on     *)
(* them and closes them.                                                   *)
(***************************************************************************)
EXTENDS Access, Publishing, Connections, TLAPS

Asks == [kind: {"update", "delete"}, status: States \cup {Omitted}, grant: Grants \cup {Omitted}]
Request ==
  [pc: {"idle", "update", "save", "delete", "remove"}, asks: Asks, row: Row \cup {NoKey}]
Call == [pc: {"idle", "key", "token", "admitted"}, token: tokens \cup {NoToken}, since: Int,
         late: BOOLEAN]

AccessTypes ==
  /\ time \in Int
  /\ control \in [Controllers -> Request]
  /\ call \in [Callers -> Call]
  /\ \A t \in tokens : t.expires \in Int /\ t.limit \in Int /\ t.expires <= t.limit

\* Who gets to a write has been counted, and the first of several found a row.
Counted ==
  /\ before = NoKey => asked = {} /\ Settled
  /\ \A w \in Controllers :
       /\ control[w].pc = "save" => control[w].asks \in asked /\ control[w].asks.kind = "update"
       /\ control[w].pc = "update" => control[w].asks.kind = "update"
       /\ control[w].pc = "remove" => Deletion \in asked

\* When nothing but deletions got to their write, the key is gone or goes.
Going == asked = {Deletion} => key = NoKey \/ \E w \in Controllers : control[w].pc = "remove"

\* It is gone for good for who came after.
GoneFor(c) == call[c].late => key = NoKey /\ before # NoKey /\ Settled

AccessInv ==
  /\ key \in Row \cup {NoKey} /\ AccessTypes /\ Counted /\ Going
  /\ \A c \in Callers : GoneFor(c)
  /\ AdmittedForCause

\* Types first.
LEMMA AccessTypeStep ==
  ASSUME AccessTypes, key \in Row \cup {NoKey}, [AccessNext]_accessVars
  PROVE  AccessTypes' /\ key' \in Row \cup {NoKey}
<1> USE AccessAssumption
<1>1. CASE UNCHANGED accessVars
  BY <1>1 DEF AccessTypes, Call, accessVars
<1>2. CASE CreateAPIKey
  BY <1>2 DEF AccessTypes, Call, CreateAPIKey
<1>3. ASSUME NEW w \in Controllers, NEW r \in Request, Controls(w, r), UNCHANGED <<time, tokens, call>>,
             key' \in Row \cup {NoKey}
      PROVE  AccessTypes' /\ key' \in Row \cup {NoKey}
  BY <1>3 DEF AccessTypes, Call, Controls
<1>4. AtRest \in Request /\ [AtRest EXCEPT !.pc = "delete"] \in Request
  BY DEF AtRest, Deletion, Request, Asks
<1>5. ASSUME NEW w \in Controllers, UpdateAPIKey(w) PROVE AccessTypes' /\ key' \in Row \cup {NoKey}
  <2>1. CASE UpdateReads(w)
    <3>1. PICK status \in States \cup {Omitted}, grant \in Grants \cup {Omitted} :
            LET asks == [kind |-> "update", status |-> status, grant |-> grant]
            IN Controls(w, [pc |-> "update", asks |-> asks, row |-> Filled(asks)])
      BY <2>1 DEF UpdateReads
    <3> DEFINE asks == [kind |-> "update", status |-> status, grant |-> grant]
    <3>2. asks \in Asks
      BY DEF Asks
    <3>3. Filled(asks) \in Row
      BY <2>1 DEF Filled, Row, UpdateReads
    <3>4. [pc |-> "update", asks |-> asks, row |-> Filled(asks)] \in Request
      BY <3>2, <3>3 DEF Request
    <3> QED BY <1>3, <2>1, <3>1, <3>4 DEF UpdateReads
  <2>2. CASE UpdateReadsAgain(w)
    <3>1. [control[w] EXCEPT !.pc = "save"] \in Request
      BY DEF AccessTypes, Request
    <3> QED BY <1>3, <1>4, <2>2, <3>1 DEF UpdateReadsAgain
  <2>3. CASE UpdateSaves(w)
    <3>1. control[w].row \in Row \cup {NoKey}
      BY DEF AccessTypes, Request
    <3> QED BY <1>3, <1>4, <2>3, <3>1 DEF UpdateSaves
  <2> QED BY <1>5, <2>1, <2>2, <2>3 DEF UpdateAPIKey
<1>6. ASSUME NEW w \in Controllers, DeleteAPIKey(w) PROVE AccessTypes' /\ key' \in Row \cup {NoKey}
  <2>1. CASE DeleteReads(w)
    BY <1>3, <1>4, <2>1 DEF DeleteReads
  <2>2. CASE DeleteReadsAgain(w)
    <3>1. [control[w] EXCEPT !.pc = "remove"] \in Request
      BY DEF AccessTypes, Request
    <3> QED BY <1>3, <1>4, <2>2, <3>1 DEF DeleteReadsAgain
  <2>3. CASE DeleteRemoves(w)
    BY <1>3, <1>4, <2>3 DEF DeleteRemoves
  <2> QED BY <1>6, <2>1, <2>2, <2>3 DEF DeleteAPIKey
<1>7. ASSUME NEW lifetime \in Int, NEW limit \in Int, time + lifetime <= limit,
             CreateAPIKeyToken(lifetime, limit), UNCHANGED <<time, key, control, call>>
      PROVE  AccessTypes' /\ key' \in Row \cup {NoKey}
  BY <1>7 DEF AccessTypes, Call, CreateAPIKeyToken
<1>8. ASSUME NEW c \in Callers, IssueToken(c) PROVE AccessTypes' /\ key' \in Row \cup {NoKey}
  <2>1. UNCHANGED <<time, key, control, call>>
    BY <1>8 DEF IssueToken
  <2>2. CASE CreateAPIKeyToken(Duration, time + Duration)
    <3>1. Duration \in Int /\ time + Duration \in Int /\ time + Duration <= time + Duration
      BY DEF AccessTypes
    <3> QED BY <1>7, <2>1, <2>2, <3>1
  <2>3. ASSUME NEW lifetime \in 1..MaxDuration, CreateAPIKeyToken(lifetime, time + MaxDuration)
        PROVE  AccessTypes' /\ key' \in Row \cup {NoKey}
    <3>1. /\ lifetime \in Int /\ time + MaxDuration \in Int
          /\ time + lifetime <= time + MaxDuration
      BY DEF AccessTypes
    <3> QED BY <1>7, <2>1, <2>3, <3>1
  <2> QED BY <1>8, <2>2, <2>3 DEF IssueToken
<1>9. ASSUME NEW c \in Callers, RequestToken(c) PROVE AccessTypes' /\ key' \in Row \cup {NoKey}
  <2>1. PICK signed \in 0..TimeBound :
          TokenRequestAuth(signed) /\ CreateAPIKeyToken(Duration, signed + Tolerance + Duration)
    BY <1>9 DEF RequestToken
  <2>2. /\ Duration \in Int /\ signed + Tolerance + Duration \in Int
        /\ time + Duration <= signed + Tolerance + Duration
    BY <2>1 DEF AccessTypes, TokenRequestAuth, Abs
  <2> QED BY <1>7, <1>9, <2>1, <2>2 DEF RequestToken
<1>10. ASSUME NEW c \in Callers, NEW r \in Call, Calls(c, r), UNCHANGED <<time, key, control, tokens>>
       PROVE  AccessTypes' /\ key' \in Row \cup {NoKey}
  BY <1>10 DEF AccessTypes, Calls, Call
<1>11. NoCall \in Call
  BY DEF NoCall, Call
<1>12. ASSUME NEW c \in Callers, APIKeyOrTokenAuth(c) \/ Served(c) PROVE AccessTypes' /\ key' \in Row \cup {NoKey}
  <2>1. CASE Arrive(c)
    <3>1. PICK token \in tokens \cup {NoToken}, first \in {"key", "token"} :
            Calls(c, [pc |-> first, token |-> token, since |-> 0, late |-> Settled /\ asked = {Deletion}])
      BY <2>1 DEF Arrive
    <3> DEFINE late == Settled /\ asked = {Deletion}
    <3>2. late \in BOOLEAN
      OBVIOUS
    <3> HIDE DEF late
    <3>3. [pc |-> first, token |-> token, since |-> 0, late |-> late] \in Call
      BY <3>2 DEF Call
    <3>4. Calls(c, [pc |-> first, token |-> token, since |-> 0, late |-> late])
      BY <3>1 DEF late
    <3> QED BY <1>10, <2>1, <3>3, <3>4 DEF Arrive
  <2>2. CASE TryAPIKeyAuth(c)
    <3>1. /\ [call[c] EXCEPT !.pc = "admitted", !.token = NoToken] \in Call
          /\ [call[c] EXCEPT !.pc = "token"] \in Call
      BY DEF AccessTypes, Call
    <3> QED BY <1>10, <1>11, <2>2, <3>1 DEF TryAPIKeyAuth
  <2>3. CASE TryTokenAuth(c)
    <3>1. [call[c] EXCEPT !.pc = "admitted", !.since = time] \in Call
      BY DEF AccessTypes, Call
    <3> QED BY <1>10, <1>11, <2>3, <3>1 DEF TryTokenAuth
  <2>4. CASE Served(c)
    BY <1>10, <1>11, <2>4 DEF Served
  <2> QED BY <1>12, <2>1, <2>2, <2>3, <2>4 DEF APIKeyOrTokenAuth
<1>13. CASE TimePasses
  BY <1>13 DEF AccessTypes, Call, TimePasses
<1> QED BY <1>1, <1>2, <1>5, <1>6, <1>8, <1>9, <1>12, <1>13 DEF AccessNext

\* While a control request is in progress, nobody came after the key had gone.
LEMMA NobodyLate ==
  ASSUME AccessInv, ~Settled \/ key # NoKey \/ before = NoKey, NEW c \in Callers
  PROVE  ~call[c].late
BY DEF AccessInv, GoneFor

LEMMA ControlStep ==
  ASSUME AccessInv, UNCHANGED <<time, tokens, call>>, ~Settled \/ key # NoKey \/ before = NoKey,
         AccessTypes', key' \in Row \cup {NoKey}, Counted', Going'
  PROVE  AccessInv'
<1>1. \A c \in Callers : ~call[c].late
  BY NobodyLate
<1>2. (\A c \in Callers : GoneFor(c))'
  BY <1>1 DEF GoneFor
<1>3. AdmittedForCause'
  BY DEF AccessInv, AdmittedForCause
<1> QED BY <1>2, <1>3 DEF AccessInv

\* A step that changes neither the key nor a control request.
LEMMA CallStep ==
  ASSUME AccessInv, UNCHANGED <<key, control, before, asked>>, AccessTypes',
         (\A c \in Callers : GoneFor(c))', AdmittedForCause'
  PROVE  AccessInv'
BY DEF AccessInv, Counted, Going, Settled

LEMMA AccessStep ==
  ASSUME AccessInv, [AccessNext]_accessVars
  PROVE  AccessInv'
<1> USE AccessAssumption
<1>0. AccessTypes' /\ key' \in Row \cup {NoKey}
  BY AccessTypeStep DEF AccessInv
<1>1. CASE UNCHANGED accessVars
  <2>1. (\A c \in Callers : GoneFor(c))' /\ AdmittedForCause'
    BY <1>1 DEF accessVars, AccessInv, GoneFor, AdmittedForCause, Settled
  <2> QED BY <1>0, <1>1, <2>1, CallStep DEF accessVars
<1>2. CASE CreateAPIKey
  <2>1. Counted' /\ Going'
    BY <1>2 DEF CreateAPIKey, AccessInv, Counted, Going, Settled
  <2> QED BY <1>0, <1>2, <2>1, ControlStep DEF CreateAPIKey
<1>3. ASSUME NEW w \in Controllers, UpdateReads(w) \/ DeleteReads(w) PROVE AccessInv'
  <2>1. PICK r : Controls(w, r) /\ r.pc \in {"update", "delete"}
                 /\ (r.pc = "update" => r.asks.kind = "update")
    <3>1. CASE UpdateReads(w)
      <4>1. PICK status \in States \cup {Omitted}, grant \in Grants \cup {Omitted} :
              LET asks == [kind |-> "update", status |-> status, grant |-> grant]
              IN Controls(w, [pc |-> "update", asks |-> asks, row |-> Filled(asks)])
        BY <3>1 DEF UpdateReads
      <4> QED BY <4>1
    <3>2. CASE DeleteReads(w)
      BY <3>2 DEF DeleteReads, AtRest
    <3> QED BY <1>3, <3>1, <3>2
  <2>2. /\ key # NoKey /\ key' = key /\ control[w].pc = "idle"
        /\ before' = IF Settled THEN key ELSE before
        /\ asked' = IF Settled THEN {} ELSE asked
        /\ UNCHANGED <<time, tokens, call>>
    BY <1>3 DEF UpdateReads, DeleteReads, Begins
  <2>3. Counted'
    BY <2>1, <2>2 DEF AccessInv, AccessTypes, Counted, Controls, Settled
  <2>4. Going'
    BY <2>1, <2>2 DEF AccessInv, AccessTypes, Going, Controls, Settled
  <2> QED BY <1>0, <2>2, <2>3, <2>4, ControlStep
<1>4. ASSUME NEW w \in Controllers, control[w].pc # "idle", UNCHANGED <<time, tokens, call, before>>,
             Counted', Going'
      PROVE  AccessInv'
  BY <1>0, <1>4, ControlStep DEF Settled
<1>5. ASSUME NEW w \in Controllers, UpdateReadsAgain(w) \/ UpdateSaves(w) PROVE AccessInv'
  <2>1. control[w].pc \in {"update", "save"} /\ control[w].asks.kind = "update" /\ before # NoKey
    BY <1>5 DEF UpdateReadsAgain, UpdateSaves, AccessInv, Counted, Settled
  <2>2. control[w].asks # Deletion
    BY <2>1 DEF Deletion
  <2>3. CASE Controls(w, AtRest) /\ UNCHANGED asked /\ (key' = key \/ control[w].asks \in asked)
    <3>1. Counted'
      BY <1>5, <2>1, <2>3 DEF UpdateReadsAgain, UpdateSaves, AccessInv, AccessTypes, Counted, Controls, AtRest
    <3>2. Going'
      BY <2>1, <2>2, <2>3 DEF AccessInv, AccessTypes, Going, Controls, AtRest
    <3> QED BY <1>4, <1>5, <2>1, <3>1, <3>2 DEF UpdateReadsAgain, UpdateSaves
  <2>4. CASE /\ Controls(w, [control[w] EXCEPT !.pc = "save"])
             /\ asked' = asked \cup {control[w].asks} /\ UNCHANGED <<key, before>>
    <3>1. Counted'
      BY <2>1, <2>4 DEF AccessInv, AccessTypes, Counted, Controls, Request
    <3>2. Going'
      BY <2>2, <2>4 DEF Going
    <3> QED BY <1>4, <1>5, <2>1, <3>1, <3>2 DEF UpdateReadsAgain, UpdateSaves
  <2>5. CASE UpdateReadsAgain(w)
    BY <2>3, <2>4, <2>5 DEF UpdateReadsAgain
  <2>6. CASE UpdateSaves(w)
    BY <2>3, <2>6 DEF UpdateSaves, AccessInv, Counted
  <2> QED BY <1>5, <2>5, <2>6
<1>6. ASSUME NEW w \in Controllers, DeleteReadsAgain(w) \/ DeleteRemoves(w) PROVE AccessInv'
  <2>1. control[w].pc \in {"delete", "remove"} /\ before # NoKey
    BY <1>6 DEF DeleteReadsAgain, DeleteRemoves, AccessInv, Counted, Settled
  <2>2. CASE Controls(w, AtRest) /\ UNCHANGED asked /\ key' = NoKey
    <3>1. Counted'
      BY <1>6, <2>1, <2>2 DEF DeleteReadsAgain, DeleteRemoves, AccessInv, AccessTypes, Counted, Controls, AtRest
    <3>2. Going'
      BY <2>2 DEF Going
    <3> QED BY <1>4, <1>6, <2>1, <3>1, <3>2 DEF DeleteReadsAgain, DeleteRemoves
  <2>3. CASE /\ Controls(w, [control[w] EXCEPT !.pc = "remove"])
             /\ asked' = asked \cup {Deletion} /\ UNCHANGED <<key, before>>
    <3>1. Counted'
      BY <2>1, <2>3 DEF AccessInv, AccessTypes, Counted, Controls, Request
    <3>2. Going'
      BY <2>3 DEF AccessInv, AccessTypes, Going, Controls, Request
    <3> QED BY <1>4, <1>6, <2>1, <3>1, <3>2 DEF DeleteReadsAgain, DeleteRemoves
  <2>4. CASE DeleteReadsAgain(w)
    BY <2>2, <2>3, <2>4 DEF DeleteReadsAgain
  <2>5. CASE DeleteRemoves(w)
    BY <2>2, <2>5 DEF DeleteRemoves
  <2> QED BY <1>6, <2>4, <2>5
<1>7. ASSUME NEW c \in Callers, IssueToken(c) \/ RequestToken(c) PROVE AccessInv'
  <2>1. UNCHANGED <<time, key, control, call, before, asked>>
    BY <1>7 DEF IssueToken, RequestToken
  <2>2. (\A d \in Callers : GoneFor(d))' /\ AdmittedForCause'
    BY <2>1 DEF AccessInv, GoneFor, AdmittedForCause, Settled
  <2> QED BY <1>0, <2>1, <2>2, CallStep
<1>8. ASSUME NEW c \in Callers, NEW r, Calls(c, r), UNCHANGED <<time, key, control, tokens, before, asked>>,
             r.late => key = NoKey /\ before # NoKey /\ Settled,
             r.pc = "admitted" => ~r.late /\ (r.token # NoToken => r.since < r.token.limit)
      PROVE  AccessInv'
  <2>1. call' = [call EXCEPT ![c] = r] /\ (Settled' <=> Settled)
    BY <1>8 DEF Calls, Settled
  <2>2. (\A d \in Callers : GoneFor(d))'
    BY <1>8, <2>1 DEF AccessInv, AccessTypes, GoneFor
  <2>3. AdmittedForCause'
    BY <1>8, <2>1 DEF AccessInv, AccessTypes, AdmittedForCause
  <2> QED BY <1>0, <1>8, <2>2, <2>3, CallStep
<1>9. ~NoCall.late /\ NoCall.pc = "idle"
  BY DEF NoCall
<1>10. ASSUME NEW c \in Callers, Arrive(c) PROVE AccessInv'
  <2> DEFINE late == Settled /\ asked = {Deletion}
  <2>1. PICK token \in tokens \cup {NoToken}, first \in {"key", "token"} :
          Calls(c, [pc |-> first, token |-> token, since |-> 0, late |-> late])
    BY <1>10 DEF Arrive
  <2>2. late => key = NoKey /\ before # NoKey /\ Settled
    BY DEF AccessInv, Counted, Going, Settled
  <2> HIDE DEF late
  <2> QED BY <1>8, <1>10, <2>1, <2>2 DEF Arrive
<1>11. ASSUME NEW c \in Callers, TryAPIKeyAuth(c) PROVE AccessInv'
  <2>1. call[c] \in Call /\ GoneFor(c)
    BY DEF AccessInv, AccessTypes
  <2>2. CASE Authenticate
    <3> DEFINE r == [call[c] EXCEPT !.pc = "admitted", !.token = NoToken]
    <3>1. ~r.late /\ r.token = NoToken
      BY <2>1, <2>2 DEF Call, GoneFor, Authenticate
    <3>2. Calls(c, r)
      BY <1>11, <2>2 DEF TryAPIKeyAuth
    <3> HIDE DEF r
    <3> QED BY <1>8, <1>11, <3>1, <3>2 DEF TryAPIKeyAuth
  <2>3. CASE ~Authenticate /\ call[c].token # NoToken
    <3> DEFINE r == [call[c] EXCEPT !.pc = "token"]
    <3>1. (r.late <=> call[c].late) /\ r.pc = "token"
      BY <2>1 DEF Call
    <3>2. Calls(c, r)
      BY <1>11, <2>3 DEF TryAPIKeyAuth
    <3> HIDE DEF r
    <3> QED BY <1>8, <1>11, <2>1, <3>1, <3>2 DEF TryAPIKeyAuth, GoneFor
  <2>4. CASE ~Authenticate /\ call[c].token = NoToken
    BY <1>8, <1>9, <1>11, <2>4 DEF TryAPIKeyAuth
  <2> QED BY <2>2, <2>3, <2>4
<1>12. ASSUME NEW c \in Callers, TryTokenAuth(c) PROVE AccessInv'
  <2>1. call[c] \in Call /\ GoneFor(c)
    BY DEF AccessInv, AccessTypes
  <2>2. CASE AuthenticateAPIKeyToken(call[c].token)
    <3> DEFINE r == [call[c] EXCEPT !.pc = "admitted", !.since = time]
    <3>1. ~r.late /\ r.token = call[c].token /\ r.since = time
      BY <2>1, <2>2 DEF Call, GoneFor, AuthenticateAPIKeyToken
    <3>2. call[c].token # NoToken => time < call[c].token.limit
      BY <2>1, <2>2 DEF Call, AccessInv, AccessTypes, AuthenticateAPIKeyToken, VerifyAPIKeyToken
    <3>3. Calls(c, r)
      BY <1>12, <2>2 DEF TryTokenAuth
    <3> HIDE DEF r
    <3> QED BY <1>8, <1>12, <3>1, <3>2, <3>3 DEF TryTokenAuth
  <2>3. CASE ~AuthenticateAPIKeyToken(call[c].token)
    BY <1>8, <1>9, <1>12, <2>3 DEF TryTokenAuth
  <2> QED BY <2>2, <2>3
<1>13. ASSUME NEW c \in Callers, Served(c) PROVE AccessInv'
  BY <1>8, <1>9, <1>13 DEF Served
<1>14. CASE TimePasses
  <2>1. (\A c \in Callers : GoneFor(c))' /\ AdmittedForCause'
    BY <1>14 DEF TimePasses, AccessInv, GoneFor, AdmittedForCause, Settled
  <2> QED BY <1>0, <1>14, <2>1, CallStep DEF TimePasses
<1> QED
  BY <1>1, <1>2, <1>3, <1>5, <1>6, <1>7, <1>10, <1>11, <1>12, <1>13, <1>14
  DEF AccessNext, UpdateAPIKey, DeleteAPIKey, APIKeyOrTokenAuth

LEMMA AccessStarts == AccessInit => AccessInv
  BY DEF AccessInit, AccessInv, AccessTypes, Counted, Going, GoneFor, AdmittedForCause, Settled,
         AtRest, Deletion, NoCall, Request, Asks, Call

\* Nobody is let in after the key was deleted by requests that were all
\* deletions, and no token lets in after its time, whatever requests, lifetimes
\* and clocks there are (APIKeyOrTokenAuth, TokenRequestAuth, IssueToken).
THEOREM NobodyWithoutCause == AccessSpec => []AdmittedForCause
<1>1. AccessInit => AccessInv
  BY AccessStarts
<1>2. AccessInv /\ [AccessNext]_accessVars => AccessInv'
  BY AccessStep
<1>3. AccessInv => AdmittedForCause
  BY DEF AccessInv
<1> QED BY <1>1, <1>2, <1>3, PTL DEF AccessSpec

-----------------------------------------------------------------------------
(* What the row of a key holds *)

\* A value is the old one or one that a request gave.
StatusFrom(v) ==
  v = before.status \/ \E r \in asked : r.kind = "update" /\ r.status = v /\ v # Omitted
GrantFrom(v) ==
  v = before.grant \/ \E r \in asked : r.kind = "update" /\ r.grant = v /\ v # Omitted

\* What a request asks for is in the row.
Fills(new, r) ==
  (r.status # Omitted => new.status = r.status) /\ (r.grant # Omitted => new.grant = r.grant)

\* What a request is about to write is what it asks for, on top of a row that
\* was there during the overlap.
Prepared(w) ==
  LET r == control[w].asks
      new == control[w].row
  IN /\ new \in Row /\ Fills(new, r)
     /\ r.status = Omitted => StatusFrom(new.status)
     /\ r.grant = Omitted => GrantFrom(new.grant)

\* The row there is comes from the old one and from what the requests ask for,
\* and the last to write it, if none is about to, has what it asked for.
KeyFrom ==
  /\ before = NoKey => key = NoKey
  /\ key = NoKey => before = NoKey \/ Deletion \in asked
  /\ key # NoKey => StatusFrom(key.status) /\ GrantFrom(key.grant)
LastHolds ==
  key # NoKey /\ (\E r \in asked : r.kind = "update") =>
    \/ \E w \in Controllers : control[w].pc = "save"
    \/ \E r \in asked : r.kind = "update" /\ Fills(key, r)

KeyInv ==
  /\ KeyFrom /\ LastHolds
  /\ \A r \in asked : r.kind = "update" \/ r = Deletion
  /\ \A w \in Controllers : control[w].pc \in {"update", "save"} => Prepared(w)

\* A step that neither writes the row nor ends or begins a request for it.
LEMMA KeyRests ==
  ASSUME KeyInv, UNCHANGED <<key, control, before, asked>>
  PROVE  KeyInv'
BY DEF KeyInv, KeyFrom, LastHolds, Prepared, Fills, StatusFrom, GrantFrom

\* More requests get to their write.
LEMMA FromGrows ==
  ASSUME before' = before, asked \subseteq asked'
  PROVE  /\ \A v : StatusFrom(v) => v = before'.status
                     \/ \E r \in asked' : r.kind = "update" /\ r.status = v /\ v # Omitted
         /\ \A v : GrantFrom(v) => v = before'.grant
                     \/ \E r \in asked' : r.kind = "update" /\ r.grant = v /\ v # Omitted
BY DEF StatusFrom, GrantFrom

\* A request that is under way, and stays so, stays prepared.
LEMMA StaysPrepared ==
  ASSUME NEW w \in Controllers, Prepared(w), before' = before, asked \subseteq asked',
         control'[w].asks = control[w].asks, control'[w].row = control[w].row
  PROVE  Prepared(w)'
<1> DEFINE new == control[w].row
           r == control[w].asks
<1>1. /\ new \in Row /\ Fills(new, r)
      /\ r.status = Omitted => StatusFrom(new.status)
      /\ r.grant = Omitted => GrantFrom(new.grant)
  BY DEF Prepared
<1>2. /\ r.status = Omitted => new.status = before'.status
           \/ \E x \in asked' : x.kind = "update" /\ x.status = new.status /\ new.status # Omitted
      /\ r.grant = Omitted => new.grant = before'.grant
           \/ \E x \in asked' : x.kind = "update" /\ x.grant = new.grant /\ new.grant # Omitted
  BY <1>1, FromGrows
<1> QED BY <1>1, <1>2 DEF Prepared, Fills, StatusFrom, GrantFrom

LEMMA ReadsKeep ==
  ASSUME AccessInv, KeyInv, NEW w \in Controllers, UpdateReads(w) \/ DeleteReads(w)
  PROVE  KeyInv'
<1>1. /\ key \in Row /\ key # NoKey /\ key' = key /\ control[w].pc = "idle"
      /\ before' = (IF Settled THEN key ELSE before)
      /\ asked' = (IF Settled THEN {} ELSE asked)
  BY DEF UpdateReads, DeleteReads, Begins, AccessInv
<1>2. PICK o : Controls(w, o) /\ o.pc \in {"update", "delete"}
  <2>1. CASE UpdateReads(w)
    <3>1. PICK status \in States \cup {Omitted}, grant \in Grants \cup {Omitted} :
            LET asks == [kind |-> "update", status |-> status, grant |-> grant]
            IN Controls(w, [pc |-> "update", asks |-> asks, row |-> Filled(asks)])
      BY <2>1 DEF UpdateReads
    <3> QED BY <3>1
  <2>2. CASE DeleteReads(w)
    BY <2>2 DEF DeleteReads, AtRest
  <2> QED BY <2>1, <2>2
<1>3. \A v \in Controllers : v # w => control'[v] = control[v]
  BY <1>2 DEF Controls, AccessInv, AccessTypes
<1>4. control'[w] = o
  BY <1>2 DEF Controls, AccessInv, AccessTypes
<1>5. KeyFrom'
  <2>1. CASE Settled
    BY <1>1, <2>1 DEF KeyFrom, StatusFrom, GrantFrom
  <2>2. CASE ~Settled
    BY <1>1, <2>2 DEF KeyInv, KeyFrom, StatusFrom, GrantFrom
  <2> QED BY <2>1, <2>2
<1>6. LastHolds'
  <2>1. CASE Settled
    BY <1>1, <2>1 DEF LastHolds
  <2>2. CASE ~Settled /\ \E v \in Controllers : control[v].pc = "save"
    <3>1. PICK v \in Controllers : control[v].pc = "save"
      BY <2>2
    <3>2. v # w
      BY <1>1, <3>1
    <3> QED BY <1>3, <3>1, <3>2 DEF LastHolds
  <2>3. CASE ~Settled /\ ~\E v \in Controllers : control[v].pc = "save"
    BY <1>1, <2>3 DEF KeyInv, LastHolds, Fills
  <2> QED BY <2>1, <2>2, <2>3
<1>7. \A r \in asked' : r.kind = "update" \/ r = Deletion
  BY <1>1 DEF KeyInv
<1>8. ASSUME NEW v \in Controllers, control'[v].pc \in {"update", "save"}, v # w
      PROVE  Prepared(v)'
  <2>1. control'[v] = control[v] /\ ~Settled
    BY <1>3, <1>8 DEF Settled
  <2>2. Prepared(v)
    BY <1>8, <2>1 DEF KeyInv
  <2> QED BY <1>1, <2>1, <2>2, StaysPrepared
<1>9. ASSUME control'[w].pc \in {"update", "save"}
      PROVE  Prepared(w)'
  <2>1. UpdateReads(w)
    BY <1>9 DEF DeleteReads, AtRest, Controls, AccessInv, AccessTypes
  <2>2. PICK status \in States \cup {Omitted}, grant \in Grants \cup {Omitted} :
            Controls(w, [pc |-> "update", row |-> Filled([kind |-> "update", status |-> status, grant |-> grant]),
                         asks |-> [kind |-> "update", status |-> status, grant |-> grant]])
    BY <2>1 DEF UpdateReads
  <2> DEFINE r == [kind |-> "update", status |-> status, grant |-> grant]
             new == Filled(r)
  <2>3. control'[w].asks = r /\ control'[w].row = new
    BY <2>2 DEF Controls, AccessInv, AccessTypes
  <2>4. /\ r.status = status /\ r.grant = grant
        /\ new.status = (IF status = Omitted THEN key.status ELSE status)
        /\ new.grant = (IF grant = Omitted THEN key.grant ELSE grant)
        /\ new \in Row
    BY <1>1 DEF Filled, Row
  <2> HIDE DEF r, new
  <2>5. StatusFrom(key.status)' /\ GrantFrom(key.grant)'
    BY <1>1, <1>5 DEF KeyFrom
  <2>6. Fills(new, r)
    BY <2>4 DEF Fills
  <2> QED BY <1>1, <2>3, <2>4, <2>5, <2>6 DEF Prepared, Fills, StatusFrom, GrantFrom
<1> QED BY <1>5, <1>6, <1>7, <1>8, <1>9 DEF KeyInv

\* A request that is over, or gets to its write; the row is not written.
LEMMA KeyStays ==
  ASSUME AccessInv, KeyInv, NEW w \in Controllers, NEW o, Controls(w, o),
         control[w].pc # "idle", control[w].pc # "save", UNCHANGED <<key, before>>,
         \/ o.pc = "idle" /\ asked' = asked
         \/ /\ control[w].pc = "update" /\ control[w].asks.kind = "update"
            /\ o = [control[w] EXCEPT !.pc = "save"] /\ asked' = asked \cup {control[w].asks}
         \/ o.pc = "remove" /\ asked' = asked \cup {Deletion}
  PROVE  KeyInv'
<1>1. control'[w] = o /\ \A v \in Controllers : v # w => control'[v] = control[v]
  BY DEF Controls, AccessInv, AccessTypes
<1>2. asked \subseteq asked' /\ before' = before
  OBVIOUS
<1>3. KeyFrom'
  BY <1>2, FromGrows DEF KeyInv, KeyFrom, StatusFrom, GrantFrom
<1>4. LastHolds'
  <2> SUFFICES ASSUME key # NoKey, \E r \in asked' : r.kind = "update"
               PROVE  \/ \E v \in Controllers : control'[v].pc = "save"
                      \/ \E r \in asked' : r.kind = "update" /\ Fills(key, r)
    BY DEF LastHolds, Fills
  <2>1. CASE o.pc = "save"
    BY <1>1, <2>1
  <2>2. CASE \E r \in asked : r.kind = "update"
    <3>1. CASE \E v \in Controllers : control[v].pc = "save"
      BY <1>1, <3>1
    <3>2. CASE \E r \in asked : r.kind = "update" /\ Fills(key, r)
      BY <1>2, <3>2
    <3> QED BY <2>2, <3>1, <3>2 DEF KeyInv, LastHolds
  <2>3. ~(o.pc = "save") => asked' \subseteq asked \cup {Deletion}
    BY DEF AccessInv, AccessTypes, Request
  <2> QED BY <2>1, <2>2, <2>3 DEF Deletion
<1>5. \A r \in asked' : r.kind = "update" \/ r = Deletion
  BY DEF KeyInv
<1>6. ASSUME NEW v \in Controllers, control'[v].pc \in {"update", "save"}
      PROVE  Prepared(v)'
  <2>1. control'[v].asks = control[v].asks /\ control'[v].row = control[v].row
    BY <1>1, <1>6 DEF AccessInv, AccessTypes, Request
  <2>2. control[v].pc \in {"update", "save"}
    BY <1>1, <1>6
  <2>3. Prepared(v)
    BY <2>2 DEF KeyInv
  <2> QED BY <1>2, <2>1, <2>3, StaysPrepared
<1> QED BY <1>3, <1>4, <1>5, <1>6 DEF KeyInv

LEMMA SaveKeeps ==
  ASSUME AccessInv, KeyInv, NEW w \in Controllers, UpdateSaves(w)
  PROVE  KeyInv'
<1> DEFINE new == control[w].row
           r == control[w].asks
<1>1. /\ control'[w] = AtRest /\ AtRest.pc = "idle"
      /\ \A v \in Controllers : v # w => control'[v] = control[v]
      /\ UNCHANGED <<before, asked>> /\ key' = new
  BY DEF UpdateSaves, Controls, AccessInv, AccessTypes, AtRest
<1>2. r \in asked /\ r.kind = "update" /\ Prepared(w) /\ before # NoKey
  BY DEF UpdateSaves, AccessInv, Counted, Settled, KeyInv
<1>3. /\ new \in Row /\ new # NoKey /\ Fills(new, r)
      /\ r.status = Omitted => StatusFrom(new.status)
      /\ r.grant = Omitted => GrantFrom(new.grant)
  BY <1>2, NoKeyAssumption DEF Prepared
<1> HIDE DEF new, r
<1>4. StatusFrom(new.status) /\ GrantFrom(new.grant)
  BY <1>2, <1>3 DEF Fills, StatusFrom, GrantFrom
<1>5. KeyFrom'
  BY <1>1, <1>2, <1>3, <1>4 DEF KeyFrom, StatusFrom, GrantFrom
<1>6. LastHolds'
  BY <1>1, <1>2, <1>3 DEF LastHolds, Fills
<1>7. ASSUME NEW v \in Controllers, control'[v].pc \in {"update", "save"}
      PROVE  Prepared(v)'
  <2>1. v # w /\ control'[v] = control[v]
    BY <1>1, <1>7
  <2>2. Prepared(v)
    BY <1>7, <2>1 DEF KeyInv
  <2> QED BY <1>1, <2>1, <2>2, StaysPrepared
<1> QED BY <1>1, <1>5, <1>6, <1>7 DEF KeyInv

LEMMA RemoveKeeps ==
  ASSUME AccessInv, KeyInv, NEW w \in Controllers, DeleteRemoves(w)
  PROVE  KeyInv'
<1>1. /\ control'[w] = AtRest /\ AtRest.pc = "idle"
      /\ \A v \in Controllers : v # w => control'[v] = control[v]
      /\ UNCHANGED <<before, asked>> /\ key' = NoKey /\ Deletion \in asked
  BY DEF DeleteRemoves, Controls, AccessInv, AccessTypes, AtRest, Counted
<1>2. ASSUME NEW v \in Controllers, control'[v].pc \in {"update", "save"}
      PROVE  Prepared(v)'
  <2>1. v # w /\ control'[v] = control[v]
    BY <1>1, <1>2
  <2>2. Prepared(v)
    BY <1>2, <2>1 DEF KeyInv
  <2> QED BY <1>1, <2>1, <2>2, StaysPrepared
<1> QED BY <1>1, <1>2 DEF KeyInv, KeyFrom, LastHolds

LEMMA KeyStep ==
  ASSUME AccessInv, KeyInv, [AccessNext]_accessVars
  PROVE  KeyInv'
<1>1. CASE CreateAPIKey
  <2>1. /\ asked' = {} /\ key' = before' /\ key' # NoKey
        /\ \A w \in Controllers : control'[w].pc = "idle"
    BY <1>1, NoKeyAssumption DEF CreateAPIKey, AccessInv, Counted, Settled
  <2> QED BY <2>1 DEF KeyInv, KeyFrom, LastHolds, StatusFrom, GrantFrom
<1>2. ASSUME NEW w \in Controllers, UpdateReadsAgain(w)
      PROVE  KeyInv'
  <2>1. control[w].asks.kind = "update" /\ [control[w] EXCEPT !.pc = "save"].pc = "save"
    BY <1>2 DEF UpdateReadsAgain, AccessInv, Counted, AccessTypes, Request
  <2>2. AtRest.pc = "idle"
    BY DEF AtRest
  <2> QED BY <1>2, <2>1, <2>2, KeyStays DEF UpdateReadsAgain
<1>3. ASSUME NEW w \in Controllers, DeleteReadsAgain(w)
      PROVE  KeyInv'
  <2>1. [control[w] EXCEPT !.pc = "remove"].pc = "remove"
    BY DEF AccessInv, AccessTypes, Request
  <2>2. AtRest.pc = "idle"
    BY DEF AtRest
  <2> QED BY <1>3, <2>1, <2>2, KeyStays DEF DeleteReadsAgain
<1>4. CASE TimePasses \/ UNCHANGED accessVars
  BY <1>4, KeyRests DEF TimePasses, accessVars
<1>5. ASSUME NEW c \in Callers,
             IssueToken(c) \/ RequestToken(c) \/ APIKeyOrTokenAuth(c) \/ Served(c)
      PROVE  KeyInv'
  BY <1>5, KeyRests DEF IssueToken, RequestToken, APIKeyOrTokenAuth, Arrive, TryAPIKeyAuth,
                        TryTokenAuth, Served
<1> QED BY <1>1, <1>2, <1>3, <1>4, <1>5, ReadsKeep, SaveKeeps, RemoveKeeps
        DEF AccessNext, UpdateAPIKey, DeleteAPIKey

LEMMA KeyHolds == ASSUME AccessInv, KeyInv PROVE UpdateHolds
<1> DEFINE updates == {r \in asked : r.kind = "update"}
           Kept(f) == IF \A r \in updates : r[f] # Omitted THEN {} ELSE {before[f]}
           Possible(f) ==
             IF updates = {} THEN {before[f]}
             ELSE ({r[f] : r \in updates} \ {Omitted}) \cup Kept(f)
<1> SUFFICES ASSUME Settled
             PROVE  IF key = NoKey THEN before = NoKey \/ Deletion \in asked
                    ELSE /\ updates # {} \/ Deletion \notin asked
                         /\ key.status \in Possible("status") /\ key.grant \in Possible("grant")
  BY DEF UpdateHolds
<1>1. CASE key = NoKey
  BY <1>1 DEF KeyInv, KeyFrom
<1>2. CASE key # NoKey
  <2>1. updates # {} \/ Deletion \notin asked
    BY <1>2 DEF AccessInv, Going, Settled, KeyInv
  <2>2. StatusFrom(key.status) /\ GrantFrom(key.grant)
    BY <1>2 DEF KeyInv, KeyFrom
  <2>3. CASE updates = {}
    <3>1. key.status = before.status /\ key.grant = before.grant
      BY <2>2, <2>3 DEF StatusFrom, GrantFrom
    <3> QED BY <1>2, <2>1, <2>3, <3>1
  <2>4. CASE updates # {}
    <3>1. PICK r \in updates : Fills(key, r)
      BY <1>2, <2>4 DEF KeyInv, LastHolds, Settled
    <3>2. key.status \in Possible("status")
      <4>1. CASE r.status # Omitted
        BY <2>4, <3>1, <4>1 DEF Fills
      <4>2. CASE r.status = Omitted
        BY <2>2, <2>4, <3>1, <4>2 DEF StatusFrom
      <4> QED BY <4>1, <4>2
    <3>3. key.grant \in Possible("grant")
      <4>1. CASE r.grant # Omitted
        BY <2>4, <3>1, <4>1 DEF Fills
      <4>2. CASE r.grant = Omitted
        BY <2>2, <2>4, <3>1, <4>2 DEF GrantFrom
      <4> QED BY <4>1, <4>2
    <3> QED BY <1>2, <2>1, <3>2, <3>3
  <2> QED BY <2>3, <2>4
<1> QED BY <1>1, <1>2

\* When the requests that overlapped are done, the row of a key is gone only if
\* one deleted it, and each of its fields is one that a request gave, or the old
\* one if a request left it out, for any number of requests (UpdateAPIKey, whose
\* last save wins, with the values that it read).
THEOREM LastUpdateHolds == AccessSpec => []UpdateHolds
<1>1. AccessInit => AccessInv /\ KeyInv
  BY AccessStarts DEF AccessInit, KeyInv, KeyFrom, LastHolds, AtRest
<1>2. AccessInv /\ KeyInv /\ [AccessNext]_accessVars => AccessInv' /\ KeyInv'
  BY AccessStep, KeyStep
<1>3. AccessInv /\ KeyInv => UpdateHolds
  BY KeyHolds
<1> QED BY <1>1, <1>2, <1>3, PTL DEF AccessSpec

-----------------------------------------------------------------------------
(* Publishing *)

Steps == {"prepare", "gate", "find", "find again", "insert", "listen", "broker"}
Message ==
  [pc: Steps \cup {"idle", "answered"}, via: {"rest", "ws"}, names: Seq(Channels), at: Nat,
   failed: SUBSET Nat, status: Nat, known: SUBSET Channels, blind: BOOLEAN]

\* The first n channels are done: each failed, or was taken and is heard here.
Done(p, r, n, heard, tk) ==
  /\ r.failed \subseteq 1..n
  /\ \A i \in Nat : <<p, i>> \in tk <=> i \in 1..n /\ i \notin r.failed
  /\ \A i \in 1..n : i \notin r.failed => r.names[i] \in heard

Caused(r, chs) ==
  \A i \in r.failed : r.names[i] \in Refused \/ r.blind \/ r.names[i] \in chs \ r.known

Told(p, r, heard, tk) ==
  LET took == {i \in DOMAIN r.names : <<p, i>> \in tk}
  IN /\ r.status = 201 => took = DOMAIN r.names
     /\ r.status = 206 => took = DOMAIN r.names \ r.failed /\ took # {} /\ r.failed # {}
     /\ r.status \in {400, 403, 404, 500} => took = {}
     /\ \A i \in took : r.names[i] \in heard

\* What holds of a request wherever it is.
Fair(r, chs, up) ==
  /\ r \in Message /\ r.known \subseteq chs /\ Caused(r, chs)
  /\ ~up => r.blind
OneOf(r) == r.at \in 1..Len(r.names) /\ (r.via = "ws" => Len(r.names) = 1)

Sound(p, r, chs, heard, up, tk) ==
  /\ r \in Message
  /\ r.pc = "idle" => \A i \in Nat : <<p, i>> \notin tk
  /\ r.pc = "idle" => r.failed = {}
  /\ r.pc # "idle" => Fair(r, chs, up)
  /\ r.pc \in Steps => OneOf(r) /\ Done(p, r, r.at - 1, heard, tk)
  /\ r.pc \in {"find again", "insert"} => r.names[r.at] \notin r.known
  /\ r.pc = "broker" => r.names[r.at] \in heard
  /\ r.pc = "answered" => Told(p, r, heard, tk)

PublishInv ==
  /\ channels \subseteq Channels /\ linked \in BOOLEAN
  /\ pub \in [Publishers -> Message]
  /\ \A p \in Publishers : Sound(p, pub[p], channels, listening, linked, taken)

LEMMA PublishInvGives == PublishInv => AnswerIsTrue /\ FailsForCause
<1>1. PublishInv => AnswerIsTrue
  BY DEF PublishInv, Sound, Told, AnswerIsTrue
<1>2. ASSUME PublishInv, NEW p \in Publishers, NEW i \in pub[p].failed
      PROVE  \/ pub[p].names[i] \in Refused
             \/ pub[p].blind
             \/ pub[p].names[i] \in channels \ pub[p].known
  <2>1. Sound(p, pub[p], channels, listening, linked, taken)
    BY <1>2 DEF PublishInv
  <2> QED
    BY <1>2, <2>1 DEF Sound, Fair, Caused
<1> QED
  BY <1>1, <1>2 DEF FailsForCause

-----------------------------------------------------------------------------
(* Answers *)

LEMMA AnswerFields ==
  ASSUME NEW r \in Message, NEW st \in Nat
  PROVE  LET o == Answered(r, st)
         IN /\ o \in Message /\ o.pc = "answered" /\ o.status = st
            /\ o.names = r.names /\ o.failed = r.failed /\ o.known = r.known /\ o.blind = r.blind
BY DEF Answered, Message

\* An answer is sound if what it says is.
LEMMA AnswerSound ==
  ASSUME NEW p, NEW r, NEW chs, NEW heard, NEW up, NEW tk, NEW st \in Nat,
         Fair(r, chs, up), Told(p, Answered(r, st), heard, tk)
  PROVE  Sound(p, Answered(r, st), chs, heard, up, tk)
<1> DEFINE o == Answered(r, st)
<1>1. /\ o \in Message /\ o.pc = "answered" /\ o.status = st
      /\ o.names = r.names /\ o.failed = r.failed /\ o.known = r.known /\ o.blind = r.blind
  BY AnswerFields DEF Fair
<1> HIDE DEF o
<1>2. Fair(o, chs, up)
  BY <1>1 DEF Fair, Caused
<1>3. Told(p, o, heard, tk)
  BY DEF o
<1>4. Sound(p, o, chs, heard, up, tk)
  BY <1>1, <1>2, <1>3 DEF Sound, Steps
<1> QED
  BY <1>4 DEF o

\* A status that means that nothing was published.
LEMMA NothingTaken ==
  ASSUME NEW p, NEW r, NEW chs, NEW heard, NEW up, NEW tk, NEW st \in {400, 403, 404, 500},
         Fair(r, chs, up), \A i \in Nat : <<p, i>> \notin tk
  PROVE  Sound(p, Answered(r, st), chs, heard, up, tk)
<1> DEFINE o == Answered(r, st)
<1>1. o.names = r.names /\ o.status = st /\ DOMAIN r.names \subseteq Nat
  <2>1. r \in Message /\ st \in Nat
    BY DEF Fair
  <2>2. r.names \in Seq(Channels)
    BY <2>1 DEF Message
  <2> QED
    BY <2>1, <2>2, AnswerFields
<1> HIDE DEF o
<1>2. Told(p, o, heard, tk)
  BY <1>1 DEF Told
<1> QED
  BY <1>2, AnswerSound DEF o

\* The last channel is done: what Conclude counts is what was published.
LEMMA ConcludeSound ==
  ASSUME NEW p, NEW r, NEW chs, NEW heard, NEW up, NEW tk,
         Fair(r, chs, up), Done(p, r, Len(r.names), heard, tk), Len(r.names) > 0
  PROVE  Sound(p, Conclude(r), chs, heard, up, tk)
<1> DEFINE st == IF r.failed = {} THEN 201 ELSE IF r.failed = DOMAIN r.names THEN 500 ELSE 206
           o == Answered(r, st)
           took == {i \in DOMAIN r.names : <<p, i>> \in tk}
<1>1. r \in Message /\ st \in {201, 206, 500}
  BY DEF Fair
<1>2. DOMAIN r.names = 1..Len(r.names) /\ Len(r.names) \in Nat
  BY <1>1 DEF Message
<1>3. took = DOMAIN r.names \ r.failed
  BY <1>2 DEF Done
<1>4. r.failed \subseteq DOMAIN r.names /\ \A i \in took : r.names[i] \in heard
  BY <1>2, <1>3 DEF Done
<1>5. o.names = r.names /\ o.failed = r.failed /\ o.status = st
  <2>1. st \in Nat
    BY <1>1
  <2>2. \A n \in Nat : LET a == Answered(r, n)
                       IN a.names = r.names /\ a.failed = r.failed /\ a.status = n
    BY <1>1, AnswerFields
  <2> HIDE DEF st
  <2> QED
    BY <2>1, <2>2
<1>6. DOMAIN r.names # {}
  BY <1>2
<1>7. /\ st = 201 => r.failed = {}
      /\ st = 206 => r.failed # {} /\ r.failed # DOMAIN r.names
      /\ st = 500 => r.failed = DOMAIN r.names
  OBVIOUS
<1>8. Conclude(r) = o
  BY DEF Conclude
<1> HIDE DEF st, o, took
<1>9. /\ st = 201 => took = DOMAIN r.names
      /\ st = 206 => took # {} /\ r.failed # {}
      /\ st = 500 => took = {}
  <2>1. r.failed # DOMAIN r.names => took # {}
    BY <1>3, <1>4
  <2>2. r.failed = DOMAIN r.names => took = {}
    BY <1>3
  <2>3. r.failed = {} => took = DOMAIN r.names
    BY <1>3
  <2> QED
    BY <1>7, <2>1, <2>2, <2>3
<1>10. Told(p, o, heard, tk)
  <2>1. {i \in DOMAIN o.names : <<p, i>> \in tk} = took
    BY <1>5 DEF took
  <2>2. \A i \in took : o.names[i] \in heard
    BY <1>4, <1>5
  <2> QED
    BY <1>1, <1>3, <1>5, <1>9, <2>1, <2>2 DEF Told
<1> QED
  BY <1>1, <1>8, <1>10, AnswerSound DEF o

\* A channel is done, and the next one begins or the request is answered.
LEMMA NextSound ==
  ASSUME NEW p, NEW r, NEW chs, NEW heard, NEW up, NEW tk,
         Fair(r, chs, up), r.via = "rest", r.at \in 1..Len(r.names), Done(p, r, r.at, heard, tk)
  PROVE  Sound(p, NextChannel(r), chs, heard, up, tk)
<1>1. r \in Message /\ Len(r.names) \in Nat /\ r.at \in Nat
  BY DEF Fair, Message
<1>2. CASE r.at < Len(r.names)
  <2> DEFINE o == [r EXCEPT !.pc = "prepare", !.at = @ + 1]
  <2>1. /\ o \in Message /\ o.pc = "prepare" /\ o.at = r.at + 1 /\ o.names = r.names
        /\ o.failed = r.failed /\ o.via = "rest" /\ o.known = r.known /\ o.blind = r.blind
    <3>1. r.at + 1 \in Nat
      BY <1>1
    <3> QED
      BY <1>1, <3>1 DEF Message, Steps
  <2>2. NextChannel(r) = o
    BY <1>2 DEF NextChannel
  <2> HIDE DEF o
  <2>3. Fair(o, chs, up) /\ OneOf(o) /\ o.at - 1 = r.at
    BY <1>1, <1>2, <2>1 DEF Fair, Caused, OneOf
  <2>4. Done(p, o, o.at - 1, heard, tk)
    BY <2>1, <2>3 DEF Done
  <2>5. Sound(p, o, chs, heard, up, tk)
    BY <2>1, <2>3, <2>4 DEF Sound, Steps
  <2> QED
    BY <2>2, <2>5
<1>3. CASE ~(r.at < Len(r.names))
  <2>1. r.at = Len(r.names) /\ Len(r.names) > 0
    BY <1>1, <1>3
  <2> QED
    BY <1>3, <2>1, ConcludeSound DEF NextChannel
<1> QED
  BY <1>2, <1>3

\* The channel at hand fails for a cause.
LEMMA GivesUpSound ==
  ASSUME NEW p, NEW r, NEW chs, NEW heard, NEW up, NEW tk,
         Fair(r, chs, up), OneOf(r), Done(p, r, r.at - 1, heard, tk),
         r.names[r.at] \in Refused \/ r.blind \/ r.names[r.at] \in chs \ r.known
  PROVE  Sound(p, GivesUp(r), chs, heard, up, tk)
<1>1. r \in Message /\ Len(r.names) \in Nat /\ r.at \in Nat /\ r.at \in 1..Len(r.names)
  BY DEF Fair, Message, OneOf
<1>2. CASE r.via = "ws"
  <2>1. r.at - 1 = 0
    BY <1>1, <1>2 DEF OneOf
  <2>2. \A i \in Nat : <<p, i>> \notin tk
    BY <2>1 DEF Done
  <2> QED
    BY <1>2, <2>2, NothingTaken DEF GivesUp
<1>3. CASE r.via # "ws"
  <2> DEFINE o == [r EXCEPT !.failed = @ \cup {r.at}]
  <2>1. /\ o \in Message /\ o.at = r.at /\ o.names = r.names /\ o.via = "rest"
        /\ o.failed = r.failed \cup {r.at} /\ o.known = r.known /\ o.blind = r.blind
    BY <1>1, <1>3 DEF Message
  <2>2. GivesUp(r) = NextChannel(o)
    BY <1>3 DEF GivesUp
  <2> HIDE DEF o
  <2>3. Fair(o, chs, up)
    BY <2>1 DEF Fair, Caused
  <2>4. Done(p, o, o.at, heard, tk)
    <3>1. \A i \in Nat : i \in 1..r.at <=> i \in 1..(r.at - 1) \/ i = r.at
      BY <1>1
    <3>2. r.at \notin 1..(r.at - 1)
      BY <1>1
    <3>3. o.failed \subseteq 1..r.at
      BY <1>1, <2>1, <3>1 DEF Done
    <3>4. \A i \in Nat : <<p, i>> \in tk <=> i \in 1..r.at /\ i \notin o.failed
      BY <2>1, <3>1, <3>2 DEF Done
    <3>5. \A i \in 1..r.at : i \notin o.failed => o.names[i] \in heard
      BY <2>1, <3>1 DEF Done
    <3> QED
      BY <2>1, <3>3, <3>4, <3>5 DEF Done
  <2> QED
    BY <1>1, <2>1, <2>2, <2>3, <2>4, NextSound
<1> QED
  BY <1>2, <1>3

\* The broker has taken the message for the channel at hand.
LEMMA SucceedsSound ==
  ASSUME NEW p, NEW r, NEW chs, NEW heard, NEW up, NEW tk, NEW tk2,
         Fair(r, chs, up), OneOf(r), Done(p, r, r.at - 1, heard, tk),
         r.names[r.at] \in heard, tk2 = tk \cup {<<p, r.at>>}
  PROVE  Sound(p, Succeeds(r), chs, heard, up, tk2)
<1>1. r \in Message /\ Len(r.names) \in Nat /\ r.at \in Nat /\ r.at \in 1..Len(r.names)
  BY DEF Fair, Message, OneOf
<1>2. Done(p, r, r.at, heard, tk2)
  <2>1. \A i \in Nat : i \in 1..r.at <=> i \in 1..(r.at - 1) \/ i = r.at
    BY <1>1
  <2>2. r.at \notin r.failed
    BY <1>1 DEF Done
  <2>3. \A i \in Nat : <<p, i>> \in tk2 <=> <<p, i>> \in tk \/ i = r.at
    OBVIOUS
  <2>4. r.failed \subseteq 1..r.at
    BY <1>1, <2>1 DEF Done
  <2>5. \A i \in Nat : <<p, i>> \in tk2 <=> i \in 1..r.at /\ i \notin r.failed
    BY <2>1, <2>2, <2>3 DEF Done
  <2>6. \A i \in 1..r.at : i \notin r.failed => r.names[i] \in heard
    BY <2>1 DEF Done
  <2> QED
    BY <2>4, <2>5, <2>6 DEF Done
<1>3. CASE r.via = "rest"
  BY <1>1, <1>2, <1>3, NextSound DEF Succeeds
<1>4. CASE r.via = "ws"
  <2>1. r.at = 1 /\ Len(r.names) = 1 /\ r.failed = {}
    BY <1>1, <1>4 DEF OneOf, Done
  <2>2. Len(r.names) > 0 /\ Conclude(r) = Answered(r, 201)
    BY <1>1, <2>1 DEF Conclude
  <2> QED
    BY <1>2, <1>4, <2>1, <2>2, ConcludeSound DEF Succeeds
<1> QED
  BY <1>1, <1>3, <1>4 DEF Message

-----------------------------------------------------------------------------
(* Steps *)

\* More channels, more listeners, a link that is back: a request stays sound.
LEMMA SoundGrows ==
  ASSUME NEW p, NEW r, NEW chs, NEW heard, NEW up, NEW tk,
         NEW chs2, NEW heard2, NEW up2, NEW tk2,
         Sound(p, r, chs, heard, up, tk),
         chs \subseteq chs2, heard \subseteq heard2, ~up2 => ~up,
         \A i \in Nat : <<p, i>> \in tk2 <=> <<p, i>> \in tk
  PROVE  Sound(p, r, chs2, heard2, up2, tk2)
<1>1. r \in Message
  BY DEF Sound
<1>2. Fair(r, chs, up) => Fair(r, chs2, up2)
  BY DEF Fair, Caused
<1>3. \A n \in Nat : Done(p, r, n, heard, tk) => Done(p, r, n, heard2, tk2)
  BY DEF Done
<1>4. Told(p, r, heard, tk) => Told(p, r, heard2, tk2)
  <2>1. DOMAIN r.names \subseteq Nat
    BY <1>1 DEF Message
  <2>2. {i \in DOMAIN r.names : <<p, i>> \in tk} = {i \in DOMAIN r.names : <<p, i>> \in tk2}
    BY <2>1
  <2> QED
    BY <2>2 DEF Told
<1>5. r.pc \in Steps /\ OneOf(r) => r.at - 1 \in Nat
  BY <1>1 DEF Message, OneOf
<1> QED
  BY <1>1, <1>2, <1>3, <1>4, <1>5 DEF Sound

\* One request goes on.
LEMMA PublishStep ==
  ASSUME PublishInv, NEW p \in Publishers, NEW o, Turns(p, o), UNCHANGED linked,
         Sound(p, o, channels', listening', linked', taken'),
         channels' \subseteq Channels, channels \subseteq channels', listening \subseteq listening',
         \A q \in Publishers \ {p}, i \in Nat : <<q, i>> \in taken' <=> <<q, i>> \in taken
  PROVE  PublishInv'
<1>1. /\ o \in Message /\ pub' \in [Publishers -> Message] /\ pub'[p] = o
      /\ \A q \in Publishers \ {p} : pub'[q] = pub[q]
  BY DEF PublishInv, Turns, Sound
<1>2. \A q \in Publishers \ {p} : Sound(q, pub[q], channels', listening', linked', taken')
  BY SoundGrows DEF PublishInv
<1>3. \A q \in Publishers : Sound(q, pub'[q], channels', listening', linked', taken')
  BY <1>1, <1>2
<1> QED
  BY <1>1, <1>3 DEF PublishInv

\* It goes on to a step of its own with the same channel in hand.
LEMMA GoesOnSound ==
  ASSUME NEW p, NEW r, NEW chs, NEW heard, NEW up, NEW tk, NEW pc \in Steps,
         Sound(p, r, chs, heard, up, tk), r.pc \in Steps,
         pc \in {"find again", "insert"} => r.names[r.at] \notin r.known,
         pc = "broker" => r.names[r.at] \in heard
  PROVE  Sound(p, [r EXCEPT !.pc = pc], chs, heard, up, tk)
<1> DEFINE o == [r EXCEPT !.pc = pc]
<1>1. r \in Message /\ r.pc # "idle"
  BY DEF Sound, Steps
<1>2. /\ o \in Message /\ o.pc = pc /\ o.at = r.at /\ o.names = r.names /\ o.via = r.via
      /\ o.failed = r.failed /\ o.known = r.known /\ o.blind = r.blind
  BY <1>1 DEF Message, Steps
<1> HIDE DEF o
<1>3. Fair(o, chs, up) /\ OneOf(o) /\ Done(p, o, o.at - 1, heard, tk)
  BY <1>1, <1>2 DEF Sound, Fair, Caused, OneOf, Done
<1>4. Sound(p, o, chs, heard, up, tk)
  BY <1>2, <1>3 DEF Sound, Steps
<1> QED
  BY <1>4 DEF o

LEMMA ReceiveKeeps ==
  ASSUME PublishInv, NEW p \in Publishers, NEW via \in {"rest", "ws"}, NEW names \in Seq(Channels),
         NEW permission, names # <<>>, via = "ws" => Len(names) = 1,
         Receive(p, via, names, permission)
  PROVE  PublishInv'
<1> DEFINE r == [Quiet EXCEPT !.via = via, !.names = names, !.at = 1,
                              !.known = channels, !.blind = ~linked]
<1>1. \A i \in Nat : <<p, i>> \notin taken
  BY DEF PublishInv, Sound, Receive
<1>2. Quiet \in Message
  BY DEF Quiet, Message
<1>3. /\ r \in Message /\ r.names = names /\ r.failed = {} /\ r.known = channels /\ r.at = 1
      /\ r.blind = ~linked /\ r.via = via
  BY <1>2 DEF PublishInv, Message, Quiet
<1> HIDE DEF r
<1> DEFINE o == [r EXCEPT !.pc = "prepare"]
<1>4. /\ o \in Message /\ o.names = names /\ o.failed = {} /\ o.known = channels /\ o.at = 1
      /\ o.blind = ~linked /\ o.via = via /\ o.pc = "prepare"
  BY <1>3 DEF Message, Steps
<1>5. UNCHANGED <<channels, listening, linked, taken>>
  BY DEF Receive
<1>6. Turns(p, Answered(r, 400)) \/ Turns(p, Answered(r, 403)) \/ Turns(p, o)
  BY DEF Receive, r
<1> HIDE DEF o
<1>7. Fair(r, channels, linked) /\ Fair(o, channels, linked)
  BY <1>3, <1>4 DEF Fair, Caused
<1>8. \A st \in {400, 403} : Sound(p, Answered(r, st), channels, listening, linked, taken)
  BY <1>1, <1>7, NothingTaken
<1>9. Sound(p, o, channels, listening, linked, taken)
  <2>1. OneOf(o) /\ o.at - 1 = 0
    BY <1>4 DEF OneOf
  <2>2. Done(p, o, o.at - 1, listening, taken)
    BY <1>1, <1>4, <2>1 DEF Done
  <2> QED
    BY <1>4, <1>7, <2>1, <2>2 DEF Sound, Steps
<1> QED
  BY <1>5, <1>6, <1>8, <1>9, PublishStep DEF PublishInv

\* The steps of a request that is under way.
LEMMA UnderwayKeeps ==
  ASSUME PublishInv, NEW p \in Publishers, ClientGone(p) \/ Create(p) \/ Publish(p)
  PROVE  PublishInv'
<1> DEFINE r == pub[p]
<1>1. r.pc \in Steps /\ Sound(p, r, channels, listening, linked, taken)
  BY DEF PublishInv, ClientGone, Create, Publish, AllowInbound, Lookup, Inserts, Listens, BrokerTakes, Steps
<1>2. /\ r \in Message /\ Fair(r, channels, linked) /\ OneOf(r)
      /\ Done(p, r, r.at - 1, listening, taken) /\ linked' = linked
  BY <1>1 DEF Sound, Steps, ClientGone, Create, Publish, AllowInbound, Lookup, Inserts, Listens, BrokerTakes
<1>3. Current(p) = r.names[r.at] /\ Current(p) \in Channels
  BY <1>2 DEF Current, OneOf, Message
<1>4. CASE ClientGone(p)
  <2>1. r.at - 1 = 0
    <3>1. r.via = "ws"
      BY <1>4 DEF ClientGone
    <3> HIDE DEF r
    <3>2. r.at \in 1..1
      BY <1>2, <3>1 DEF OneOf
    <3> QED
      BY <3>2
  <2>2. \A i \in Nat : <<p, i>> \notin taken
    BY <1>2, <2>1 DEF Done
  <2>3. Sound(p, Answered(r, 404), channels, listening, linked, taken)
    BY <1>2, <2>2, NothingTaken
  <2> QED
    BY <1>4, <2>3, PublishStep DEF ClientGone, PublishInv
<1>5. CASE Create(p)
  <2>1. CASE Current(p) \in Refused
    <3>1. Sound(p, GivesUp(r), channels, listening, linked, taken)
      BY <1>2, <1>3, <2>1, GivesUpSound
    <3> QED
      BY <1>5, <2>1, <3>1, PublishStep DEF Create, PublishInv
  <2>2. CASE Current(p) \notin Refused
    <3>1. Sound(p, [r EXCEPT !.pc = "gate"], channels, listening, linked, taken)
      BY <1>1, GoesOnSound DEF Steps
    <3> QED
      BY <1>5, <2>2, <3>1, PublishStep DEF Create, PublishInv
  <2> QED
    BY <2>1, <2>2
<1>6. CASE AllowInbound(p)
  <2>1. UNCHANGED <<channels, listening, linked, taken>>
    BY <1>6 DEF AllowInbound
  <2>2. Sound(p, [r EXCEPT !.pc = "find"], channels, listening, linked, taken)
    BY <1>1, GoesOnSound DEF Steps
  <2>3. Told(p, Answered(r, 429), listening, taken)
    <3> DEFINE o == Answered(r, 429)
    <3>1. o.names = r.names /\ o.status = 429
      BY <1>2, AnswerFields
    <3> HIDE DEF o
    <3>2. \A i \in DOMAIN r.names : <<p, i>> \in taken => r.names[i] \in listening
      BY <1>2 DEF Done, Message
    <3>3. Told(p, o, listening, taken)
      BY <3>1, <3>2 DEF Told
    <3> QED
      BY <3>3 DEF o
  <2>4. Sound(p, Answered(r, 429), channels, listening, linked, taken)
    BY <1>2, <2>3, AnswerSound
  <2>5. Turns(p, [r EXCEPT !.pc = "find"]) \/ Turns(p, Answered(r, 429))
    BY <1>6 DEF AllowInbound
  <2> QED
    BY <2>1, <2>2, <2>4, <2>5, PublishStep DEF PublishInv
<1>7. CASE Lookup(p)
  <2>1. UNCHANGED <<channels, listening, linked, taken>> /\ r.pc \in {"find", "find again"}
    BY <1>7 DEF Lookup
  <2>2. \E pc \in {"listen", "find again", "insert"} :
          /\ Turns(p, [r EXCEPT !.pc = pc])
          /\ pc # "listen" => Current(p) \notin channels
    BY <1>7 DEF Lookup
  <2>3. PICK pc \in {"listen", "find again", "insert"} :
          /\ Turns(p, [r EXCEPT !.pc = pc])
          /\ pc # "listen" => Current(p) \notin channels
    BY <2>2
  <2>4. Sound(p, [r EXCEPT !.pc = pc], channels, listening, linked, taken)
    BY <1>1, <1>2, <1>3, <2>3, GoesOnSound DEF Steps, Fair
  <2> QED
    BY <2>1, <2>3, <2>4, PublishStep DEF PublishInv
<1>8. CASE Inserts(p)
  <2>1. /\ UNCHANGED <<listening, linked, taken>> /\ r.pc = "insert"
        /\ channels' = channels \cup {Current(p)}
    BY <1>8 DEF Inserts
  <2>2. channels \subseteq channels' /\ channels' \subseteq Channels
    BY <1>3, <2>1 DEF PublishInv
  <2>3. CASE Current(p) \in channels
    <3>1. Current(p) \notin r.known /\ channels' = channels
      BY <1>1, <1>3, <2>1, <2>3 DEF Sound
    <3>2. Sound(p, GivesUp(r), channels, listening, linked, taken)
      BY <1>2, <1>3, <2>3, <3>1, GivesUpSound
    <3> QED
      BY <1>8, <2>1, <2>2, <2>3, <3>1, <3>2, PublishStep DEF Inserts
  <2>4. CASE Current(p) \notin channels
    <3>1. Sound(p, [r EXCEPT !.pc = "listen"], channels, listening, linked, taken)
      BY <1>1, GoesOnSound DEF Steps
    <3>2. Sound(p, [r EXCEPT !.pc = "listen"], channels', listening', linked', taken')
      BY <2>1, <2>2, <3>1, SoundGrows
    <3> QED
      BY <1>8, <2>1, <2>2, <2>4, <3>2, PublishStep DEF Inserts
  <2> QED
    BY <2>3, <2>4
<1>9. CASE Listens(p)
  <2>1. UNCHANGED <<channels, linked, taken>> /\ listening \subseteq listening'
    BY <1>9 DEF Listens
  <2>2. CASE linked
    <3>1. listening' = listening \cup {Current(p)}
      BY <1>9, <2>2 DEF Listens
    <3>2. Sound(p, r, channels', listening', linked', taken')
      BY <1>1, <2>1, SoundGrows
    <3>3. Sound(p, [r EXCEPT !.pc = "broker"], channels', listening', linked', taken')
      BY <1>1, <1>3, <3>1, <3>2, GoesOnSound DEF Steps
    <3> QED
      BY <1>9, <2>1, <2>2, <3>3, PublishStep DEF Listens, PublishInv
  <2>3. CASE ~linked
    <3>1. r.blind
      BY <1>2, <2>3 DEF Fair
    <3>2. Sound(p, GivesUp(r), channels, listening, linked, taken)
      BY <1>2, <3>1, GivesUpSound
    <3>3. listening' = listening /\ Turns(p, GivesUp(r))
      BY <1>9, <2>3 DEF Listens
    <3> QED
      BY <2>1, <3>2, <3>3, PublishStep DEF PublishInv
  <2> QED
    BY <2>2, <2>3
<1>10. CASE BrokerTakes(p)
  <2>1. UNCHANGED <<channels, listening, linked>> /\ r.pc = "broker"
    BY <1>10 DEF BrokerTakes
  <2>2. CASE linked
    <3>1. taken' = taken \cup {<<p, r.at>>} /\ Turns(p, Succeeds(r))
      BY <1>10, <2>2 DEF BrokerTakes
    <3>2. r.names[r.at] \in listening
      BY <1>1, <2>1 DEF Sound
    <3>3. Sound(p, Succeeds(r), channels, listening, linked, taken')
      BY <1>2, <3>1, <3>2, SucceedsSound
    <3>4. \A q \in Publishers \ {p}, i \in Nat : <<q, i>> \in taken' <=> <<q, i>> \in taken
      BY <3>1
    <3> QED
      BY <2>1, <3>1, <3>3, <3>4, PublishStep DEF PublishInv
  <2>3. CASE ~linked
    <3>1. r.blind
      BY <1>2, <2>3 DEF Fair
    <3>2. Sound(p, GivesUp(r), channels, listening, linked, taken)
      BY <1>2, <3>1, GivesUpSound
    <3>3. taken' = taken /\ Turns(p, GivesUp(r))
      BY <1>10, <2>3 DEF BrokerTakes
    <3> QED
      BY <2>1, <3>2, <3>3, PublishStep DEF PublishInv
  <2> QED
    BY <2>2, <2>3
<1> QED
  BY <1>4, <1>5, <1>6, <1>7, <1>8, <1>9, <1>10 DEF Publish

LEMMA LinkKeeps ==
  ASSUME PublishInv, InsertedBySubscriber \/ LinkDrops \/ LinkReturns PROVE PublishInv'
<1>1. CASE InsertedBySubscriber
  <2>1. channels \subseteq channels' /\ channels' \subseteq Channels
    BY <1>1 DEF InsertedBySubscriber, PublishInv
  <2> QED
    BY <1>1, <2>1, SoundGrows DEF InsertedBySubscriber, PublishInv
<1>2. CASE LinkReturns
  BY <1>2, SoundGrows DEF LinkReturns, PublishInv
<1>3. CASE LinkDrops
  <2>1. /\ UNCHANGED <<channels, listening, taken>> /\ linked' = FALSE
        /\ pub' = [p \in Publishers |-> [pub[p] EXCEPT !.blind = TRUE]]
    BY <1>3 DEF LinkDrops
  <2>2. ASSUME NEW p \in Publishers
        PROVE  pub'[p] \in Message /\ Sound(p, pub'[p], channels, listening, FALSE, taken)
    <3> DEFINE o == [pub[p] EXCEPT !.blind = TRUE]
    <3>1. pub[p] \in Message /\ Sound(p, pub[p], channels, listening, linked, taken)
      BY DEF PublishInv
    <3>2. /\ o \in Message /\ o.pc = pub[p].pc /\ o.at = pub[p].at /\ o.names = pub[p].names
          /\ o.via = pub[p].via /\ o.failed = pub[p].failed /\ o.known = pub[p].known
          /\ o.status = pub[p].status /\ o.blind = TRUE
      BY <3>1 DEF Message
    <3>3. pub'[p] = o
      BY <2>1
    <3> HIDE DEF o
    <3>4. o.pc # "idle" => Fair(o, channels, FALSE)
      BY <3>1, <3>2 DEF Sound, Fair, Caused
    <3>5. o.pc \in Steps => OneOf(o) /\ Done(p, o, o.at - 1, listening, taken)
      BY <3>1, <3>2 DEF Sound, OneOf, Done
    <3>6. o.pc = "answered" => Told(p, o, listening, taken)
      BY <3>1, <3>2 DEF Sound, Told
    <3>7. Sound(p, o, channels, listening, FALSE, taken)
      BY <3>1, <3>2, <3>4, <3>5, <3>6 DEF Sound
    <3> QED
      BY <3>2, <3>3, <3>7
  <2> QED
    BY <2>1, <2>2 DEF PublishInv
<1> QED
  BY <1>1, <1>2, <1>3

LEMMA PublishInvStays == PublishSpec => []PublishInv
<1> USE PublishAssumption
<1>1. PublishInit => PublishInv
  <2> SUFFICES ASSUME PublishInit PROVE PublishInv
    OBVIOUS
  <2>1. Quiet \in Message
    BY DEF Quiet, Message
  <2>2. \A p \in Publishers : Sound(p, Quiet, channels, listening, linked, taken)
    BY <2>1 DEF PublishInit, Sound, Quiet, Steps
  <2> QED
    BY <2>1, <2>2 DEF PublishInit, PublishInv
<1>2. ASSUME PublishInv, [PublishNext]_publishVars PROVE PublishInv'
  <2>1. ASSUME NEW p \in Publishers, PublishREST(p) PROVE PublishInv'
    <3>1. CASE \E names \in NameLists, permission \in Permissions : Receive(p, "rest", names, permission)
      BY <1>2, <3>1, ReceiveKeeps
    <3> QED
      BY <1>2, <2>1, <3>1, UnderwayKeeps DEF PublishREST
  <2>2. ASSUME NEW p \in Publishers, HandlePublishMessage(p) PROVE PublishInv'
    <3>1. ASSUME NEW c \in Channels, NEW permission \in Permissions, Receive(p, "ws", <<c>>, permission)
          PROVE  PublishInv'
      <4>1. <<c>> \in Seq(Channels) /\ <<c>> # <<>> /\ Len(<<c>>) = 1
        OBVIOUS
      <4> QED
        BY <1>2, <3>1, <4>1, ReceiveKeeps
    <3> QED
      BY <1>2, <2>2, <3>1, UnderwayKeeps DEF HandlePublishMessage
  <2>3. CASE UNCHANGED publishVars
    BY <1>2, <2>3 DEF publishVars, PublishInv
  <2> QED
    BY <1>2, <2>1, <2>2, <2>3, LinkKeeps DEF PublishNext
<1> QED
  BY <1>1, <1>2, PTL DEF PublishSpec

\* The answer to a publish request or message says what was published, for any
\* number of requests, lists of channels, outages and refusals (Handler.Publish,
\* sendPublishState).
THEOREM AnswersAreTrue == PublishSpec => []AnswerIsTrue
BY PublishInvStays, PublishInvGives, PTL

\* And a channel that failed had a cause to (Channel GetOrCreate, Create).
THEOREM FailuresHaveCause == PublishSpec => []FailsForCause
BY PublishInvStays, PublishInvGives, PTL

-----------------------------------------------------------------------------
\* The sockets.

Places ==
  {"idle", "send", "lock", "write", "store", "register", "reading", "select", "waiting",
   "enqueue", "push", "drop", "count", "judge", "find", "mark", "unregister", "leave",
   "unpipe", "stop", "join", "forget", "hangup", "exited", "done"}
Op == [pc : Places, c : Conns \cup {Nobody}, n : Nat]

\* Only a sender that is idle has no connection in hand.
InHand(p, o) == o.c \in Conns \/ (p \in Senders /\ o.pc = "idle")
Inside(o) == o.pc \in {"write", "store"}

ConnTypes ==
  /\ op \in [Procs -> Op]
  /\ \A p \in Procs : InHand(p, op[p])
  /\ mutex \in [Conns -> Procs \cup {Nobody}]
  /\ drops \in [Conns -> Nat]

\* Who is inside a write holds the mutex of the connection.
WritersHold == \A p \in Procs : Inside(op[p]) => mutex[op[p].c] = p

ConnInv == ConnTypes /\ WritersHold

LEMMA ConnInvGivesOneWriter == ConnInv => OneWriter
BY ConnectionsAssumption DEF ConnInv, ConnTypes, WritersHold, OneWriter, Inside, Con, InHand

LEMMA ConnStarts == Init => ConnInv
<1> SUFFICES ASSUME Init PROVE ConnInv
  OBVIOUS
<1> USE DEF Init
<1>1. ASSUME NEW p \in Procs PROVE op[p] \in Op /\ InHand(p, op[p]) /\ ~Inside(op[p])
  <2>1. CASE p \in Senders
    BY <2>1 DEF Idle, Op, Places, InHand, Inside
  <2>2. CASE p \notin Senders
    <3>1. \E c \in Conns : p[2] = c
      BY <2>2 DEF Procs, Reader, Writer, Pinger
    <3>2. op[p] = [pc |-> "idle", c |-> p[2], n |-> 0]
      BY <2>2 DEF Idle
    <3> QED
      BY <3>1, <3>2 DEF Op, Places, InHand, Inside
  <2> QED
    BY <2>1, <2>2
<1> QED
  BY <1>1 DEF ConnInv, ConnTypes, WritersHold

\* One process goes on, outside of a write, and gives back what it held.
LEMMA GoesOn ==
  ASSUME ConnInv, NEW p \in Procs, NEW o \in Op, InHand(p, o), ~Inside(o),
         op' = [op EXCEPT ![p] = o],
         \/ UNCHANGED mutex
         \/ Inside(op[p]) /\ mutex' = [mutex EXCEPT ![op[p].c] = Nobody],
         drops' \in [Conns -> Nat]
  PROVE  ConnInv'
<1>1. /\ op' \in [Procs -> Op] /\ op'[p] = o /\ \A q \in Procs \ {p} : op'[q] = op[q]
  BY DEF ConnInv, ConnTypes
<1>2. /\ mutex' \in [Conns -> Procs \cup {Nobody}]
      /\ \A c \in Conns : mutex'[c] = mutex[c] \/ mutex[c] = p
  BY DEF ConnInv, ConnTypes, WritersHold, Inside, InHand
<1>3. \A q \in Procs : InHand(q, op'[q])
  BY <1>1 DEF ConnInv, ConnTypes
<1>4. ASSUME NEW q \in Procs, Inside(op'[q]) PROVE mutex'[op'[q].c] = q
  <2>1. q # p /\ op'[q] = op[q]
    BY <1>1, <1>4
  <2>2. mutex[op[q].c] = q /\ op[q].c \in Conns
    BY <1>4, <2>1 DEF ConnInv, ConnTypes, WritersHold, Inside, InHand
  <2> QED
    BY <1>2, <2>1, <2>2
<1>5. ConnTypes'
  BY <1>1, <1>2, <1>3 DEF ConnTypes
<1>6. WritersHold'
  BY <1>4 DEF WritersHold
<1> QED
  BY <1>5, <1>6 DEF ConnInv

\* The usual case: it only changes its place.
LEMMA Moves ==
  ASSUME ConnInv, NEW p \in Procs, NEW pc \in Places \ {"write", "store"},
         op[p].c \in Conns, Goes(p, pc),
         \/ UNCHANGED mutex
         \/ Inside(op[p]) /\ mutex' = [mutex EXCEPT ![op[p].c] = Nobody],
         drops' \in [Conns -> Nat]
  PROVE  ConnInv'
<1> DEFINE o == [op[p] EXCEPT !.pc = pc]
<1>1. op[p] \in Op
  BY DEF ConnInv, ConnTypes
<1>2. o \in Op /\ o.pc = pc /\ o.c = op[p].c
  BY <1>1 DEF Op
<1>3. op' = [op EXCEPT ![p] = o]
  BY <1>1 DEF Goes, Op
<1>4. InHand(p, o) /\ ~Inside(o)
  BY <1>2 DEF InHand, Inside
<1> HIDE DEF o
<1> QED
  BY <1>2, <1>3, <1>4, GoesOn

\* Who is not idle has a connection in hand, and its drops are a number.
LEMMA Busy ==
  ASSUME ConnInv, NEW p \in Procs, op[p].pc # "idle"
  PROVE  op[p].c \in Conns /\ drops \in [Conns -> Nat] /\ op[p] \in Op
BY DEF ConnInv, ConnTypes, InHand

\* A step that leaves all of this alone.
LEMMA ConnRests == ASSUME ConnInv, UNCHANGED <<op, mutex, drops>> PROVE ConnInv'
BY DEF ConnInv, ConnTypes, WritersHold

\* The mutex is taken only when nobody has it.
LEMMA LockIsFree ==
  ASSUME ConnInv, NEW p \in Procs, SendLocks(p) PROVE ConnInv'
<1>1. op[p].pc = "lock" /\ op[p].c \in Conns /\ mutex[op[p].c] = Nobody
  BY Busy DEF SendLocks, At, Con
<1>2. /\ mutex' \in [Conns -> Procs \cup {Nobody}]
      /\ mutex'[op[p].c] = p
      /\ \A c \in Conns : c # op[p].c => mutex'[c] = mutex[c]
  BY <1>1 DEF SendLocks, Con, ConnInv, ConnTypes
<1>3. op[p] \in Op
  BY DEF ConnInv, ConnTypes
<1>4. /\ op' \in [Procs -> Op] /\ op'[p].c = op[p].c
      /\ \A q \in Procs \ {p} : op'[q] = op[q]
  BY <1>3 DEF SendLocks, Goes, ConnInv, ConnTypes, Op, Places
<1>5. ConnTypes'
  <2>1. \A q \in Procs : InHand(q, op'[q])
    BY <1>1, <1>4 DEF InHand, ConnInv, ConnTypes
  <2> QED
    BY <1>2, <1>4, <2>1 DEF ConnInv, ConnTypes, SendLocks, pipe
<1>6. ASSUME NEW q \in Procs, Inside(op'[q]) PROVE mutex'[op'[q].c] = q
  <2>1. CASE q = p
    BY <1>2, <1>4, <2>1
  <2>2. CASE q # p
    <3>1. op'[q] = op[q] /\ mutex[op[q].c] = q /\ op[q].c \in Conns
      BY <1>4, <1>6, <2>2 DEF ConnInv, ConnTypes, WritersHold, Inside, InHand
    <3>2. op[q].c # op[p].c
      BY <1>1, <3>1, ConnectionsAssumption
    <3> QED
      BY <1>2, <3>1, <3>2
  <2> QED
    BY <2>1, <2>2
<1> QED
  BY <1>5, <1>6 DEF ConnInv, WritersHold

\* A write that has begun: it ends, or its message is stored.
LEMMA WritesOn == ASSUME ConnInv, NEW p \in Procs, SendWrites(p) PROVE ConnInv'
<1>1. op[p].pc = "write" /\ op[p].c \in Conns /\ drops' \in [Conns -> Nat] /\ op[p] \in Op
  BY Busy DEF SendWrites, At, pipe
<1>2. CASE socket[Con(p)] # "open"
  BY <1>1, <1>2, Moves DEF SendWrites, AfterSend, Places, Inside, Con, Goes
<1>3. CASE socket[Con(p)] = "open"
  <2>1. /\ op' \in [Procs -> Op] /\ op'[p].c = op[p].c /\ mutex' = mutex
        /\ \A q \in Procs \ {p} : op'[q] = op[q]
    BY <1>1, <1>3 DEF SendWrites, Goes, ConnInv, ConnTypes, Op, Places
  <2>2. \A q \in Procs : InHand(q, op'[q])
    BY <1>1, <2>1 DEF InHand, ConnInv, ConnTypes
  <2>3. ASSUME NEW q \in Procs, Inside(op'[q]) PROVE mutex'[op'[q].c] = q
    BY <1>1, <2>1, <2>3 DEF ConnInv, WritersHold, Inside
  <2> QED
    BY <1>1, <2>1, <2>2, <2>3 DEF ConnInv, ConnTypes, WritersHold
<1> QED
  BY <1>2, <1>3

LEMMA SendKeeps == ASSUME ConnInv, NEW p \in Procs, Send(p) PROVE ConnInv'
<1>1. CASE SendLooksUp(p)
  BY <1>1, Busy, Moves DEF SendLooksUp, At, AfterSend, Places, pipe
<1>2. CASE SendWrites(p)
  BY <1>2, WritesOn
<1>3. CASE SendStores(p)
  <2>1. op[p].pc = "store" /\ op[p].c \in Conns /\ drops' \in [Conns -> Nat]
    BY <1>3, Busy DEF SendStores, At
  <2> QED
    BY <1>3, <2>1, Moves DEF SendStores, AfterSend, Places, Inside, Con
<1> QED
  BY <1>1, <1>2, <1>3 DEF Send

LEMMA CloseKeeps == ASSUME ConnInv, NEW p \in Procs, Close(p) PROVE ConnInv'
<1>1. op[p].c \in Conns /\ drops \in [Conns -> Nat]
  BY Busy DEF Close, CloseFinds, CloseMarks, Unregister, At
<1>2. AfterClose(p) \in Places \ {"write", "store"}
  BY DEF AfterClose, Places
<1>3. CASE CloseFinds(p)
  BY <1>1, <1>2, <1>3, Moves DEF CloseFinds, Places, pipe
<1>4. CASE CloseMarks(p)
  BY <1>1, <1>4, Moves DEF CloseMarks, Places, pipe
<1>5. CASE Unregister(p)
  BY <1>1, <1>2, <1>5, Moves DEF Unregister, pipe
<1> QED
  BY <1>3, <1>4, <1>5 DEF Close

\* A sender's way from the pipeline to its queue, or to closing it.
LEMMA SenderKeeps ==
  ASSUME ConnInv, NEW d \in Senders, EnqueueChecksStop(d) \/ Enqueue(d) \/ HandleDrop(d)
  PROVE  ConnInv'
<1>1. d \in Procs
  BY DEF Procs
<1>2. op[d].c \in Conns /\ drops \in [Conns -> Nat] /\ op[d] \in Op
  BY <1>1, Busy DEF EnqueueChecksStop, Enqueue, HandleDrop, DropReads, DropWrites, DropJudges, At
<1>3. CASE EnqueueChecksStop(d)
  BY <1>1, <1>2, <1>3, Moves DEF EnqueueChecksStop, Places, pipe
<1>4. CASE Enqueue(d)
  <2>1. Goes(d, "idle") \/ Goes(d, "drop")
    BY <1>4 DEF Enqueue
  <2>2. UNCHANGED <<mutex, drops>>
    BY <1>4 DEF Enqueue
  <2> QED
    BY <1>1, <1>2, <2>1, <2>2, Moves DEF Places
<1>5. CASE DropReads(d)
  <2> DEFINE o == [op[d] EXCEPT !.pc = "count", !.n = drops[op[d].c] + 1]
  <2>1. o \in Op /\ o.c = op[d].c /\ o.pc = "count"
    <3>1. drops[op[d].c] + 1 \in Nat
      BY <1>2
    <3> QED
      BY <1>2, <3>1 DEF Op, Places
  <2>2. op' = [op EXCEPT ![d] = o]
    BY <1>2, <1>5 DEF DropReads, Con, Op
  <2>3. UNCHANGED <<mutex, drops>> /\ InHand(d, o) /\ ~Inside(o)
    BY <1>2, <1>5, <2>1 DEF DropReads, pipe, InHand, Inside
  <2> HIDE DEF o
  <2> QED
    BY <1>1, <1>2, <2>1, <2>2, <2>3, GoesOn
<1>6. CASE DropWrites(d)
  <2>1. drops' \in [Conns -> Nat]
    BY <1>2, <1>6 DEF DropWrites, Op
  <2> QED
    BY <1>1, <1>2, <1>6, <2>1, Moves DEF DropWrites, Places
<1>7. CASE DropJudges(d)
  BY <1>1, <1>2, <1>7, Moves DEF DropJudges, Places, pipe
<1> QED
  BY <1>3, <1>4, <1>5, <1>6, <1>7 DEF HandleDrop

\* A message for a connection gets into the hands of a sender.
LEMMA DeliveryKeeps ==
  ASSUME ConnInv, NEW d \in Senders, NEW c \in Conns, Deliver(d, c) \/ HandlePing(d, c)
  PROVE  ConnInv'
<1>1. PICK pc \in {"enqueue", "send"} : Sends(d, c, pc)
  BY DEF Deliver, HandlePing, SendMessage
<1> DEFINE o == [Idle EXCEPT !.pc = pc, !.c = c]
<1>2. o \in Op /\ InHand(d, o) /\ ~Inside(o) /\ d \in Procs
  <2>1. Idle \in Op
    BY DEF Idle, Op, Places
  <2>2. o \in Op /\ o.pc = pc /\ o.c = c
    BY <2>1 DEF Op, Places
  <2> HIDE DEF o
  <2> QED
    BY <2>2 DEF InHand, Inside, Procs
<1>3. op' = [op EXCEPT ![d] = o] /\ UNCHANGED <<mutex, drops>>
  BY <1>1 DEF Sends, pipe
<1>4. drops' \in [Conns -> Nat]
  BY <1>3 DEF ConnInv, ConnTypes
<1> HIDE DEF o
<1> QED
  BY <1>2, <1>3, <1>4, GoesOn

\* The goroutines of one connection.
LEMMA ConnectionKeeps ==
  ASSUME ConnInv, NEW c \in Conns,
         \/ HandleConnection(c) \/ RegisterConnection(c) \/ Peer(c)
         \/ Run(c) \/ ReadFails(c) \/ PingFails(c) \/ Disconnection(c)
  PROVE  ConnInv'
<1> DEFINE r == Reader(c)  w == Writer(c)  g == Pinger(c)
<1>1. r \in Procs /\ w \in Procs /\ g \in Procs
  BY DEF Procs
<1>2. r \notin Senders /\ w \notin Senders /\ g \notin Senders
  BY ConnectionsAssumption
<1>3. op[r].c \in Conns /\ op[w].c \in Conns /\ op[g].c \in Conns /\ drops \in [Conns -> Nat]
  BY <1>1, <1>2 DEF ConnInv, ConnTypes, InHand
<1>4. CASE HandleConnection(c)
  BY <1>1, <1>3, <1>4, Moves DEF HandleConnection, Places, pipe
<1>5. CASE RegisterConnection(c)
  <2>1. UNCHANGED <<mutex, drops>>
    BY <1>5 DEF RegisterConnection, pipe
  <2>2. op' = [op EXCEPT ![r].pc = "reading", ![w].pc = "select", ![g].pc = "waiting"]
    BY <1>5 DEF RegisterConnection
  <2>3. op[r] \in Op /\ op[w] \in Op /\ op[g] \in Op
    BY <1>1 DEF ConnInv, ConnTypes
  <2>4. r # w /\ r # g /\ w # g
    BY DEF Reader, Writer, Pinger
  <2> HIDE DEF r, w, g
  <2>5. \A p \in Procs \ {r, w, g} : op'[p] = op[p]
    BY <2>2 DEF ConnInv, ConnTypes
  <2>6. \A p \in {r, w, g} : op'[p] \in Op /\ op'[p].c = op[p].c /\ ~Inside(op'[p])
    <3>1. op'[r] = [op[r] EXCEPT !.pc = "reading"]
      BY <1>1, <2>2, <2>4 DEF ConnInv, ConnTypes
    <3>2. op'[w] = [op[w] EXCEPT !.pc = "select"]
      BY <1>1, <2>2, <2>4 DEF ConnInv, ConnTypes
    <3>3. op'[g] = [op[g] EXCEPT !.pc = "waiting"]
      BY <1>1, <2>2, <2>4 DEF ConnInv, ConnTypes
    <3> QED
      BY <2>3, <3>1, <3>2, <3>3 DEF Op, Places, Inside
  <2>7. op' \in [Procs -> Op]
    BY <2>2, <2>5, <2>6 DEF ConnInv, ConnTypes
  <2>8. \A p \in Procs : InHand(p, op'[p])
    BY <1>3, <2>5, <2>6 DEF InHand, ConnInv, ConnTypes
  <2>9. \A p \in Procs : Inside(op'[p]) => mutex'[op'[p].c] = p
    BY <2>1, <2>5, <2>6 DEF ConnInv, WritersHold
  <2> QED
    BY <1>3, <2>1, <2>7, <2>8, <2>9 DEF ConnInv, ConnTypes, WritersHold
<1>6. CASE Peer(c)
  BY <1>6, ConnRests DEF Peer, pipe
<1>7. CASE Run(c)
  <2>1. \/ Goes(w, "send") \/ Goes(w, "exited")
    BY <1>7 DEF Run, WriterTakes, WriterExits
  <2>2. UNCHANGED <<mutex, drops>>
    BY <1>7 DEF Run, WriterTakes, WriterExits, pipe
  <2> QED
    BY <1>1, <1>3, <2>1, <2>2, Moves DEF Places
<1>8. CASE ReadFails(c)
  BY <1>1, <1>3, <1>8, Moves DEF ReadFails, Places, pipe
<1>9. CASE PingFails(c)
  BY <1>1, <1>3, <1>9, Moves DEF PingFails, Places, pipe
<1>10. CASE Disconnection(c)
  <2>1. \E pc \in {"find", "stop", "join", "forget", "hangup", "done"} : Goes(r, pc)
    BY <1>10 DEF Disconnection, Disconnect, RemovePipeline, StopPipeline, JoinWriter,
                 UnregisterConnection, HangUp
  <2>2. UNCHANGED <<mutex, drops>>
    BY <1>10 DEF Disconnection, Disconnect, RemovePipeline, StopPipeline, JoinWriter,
                 UnregisterConnection, HangUp, pipe
  <2> QED
    BY <1>1, <1>3, <2>1, <2>2, Moves DEF Places
<1> QED
  BY <1>4, <1>5, <1>6, <1>7, <1>8, <1>9, <1>10

\* One goroutine writes to a socket at a time, for any number of connections
\* and senders: the write mutex of the connection service is enough, although
\* a close takes it out of its map while it is held.
THEOREM OneWriterAlways == Spec => []OneWriter
<1>1. ASSUME ConnInv, [Next]_vars PROVE ConnInv'
  <2>1. CASE \E p \in Procs : Send(p) \/ SendLocks(p) \/ Close(p)
    BY <1>1, <2>1, SendKeeps, LockIsFree, CloseKeeps
  <2>2. CASE \E c \in Conns : \/ HandleConnection(c) \/ RegisterConnection(c) \/ Peer(c)
                              \/ Run(c) \/ ReadFails(c) \/ PingFails(c) \/ Disconnection(c)
    BY <1>1, <2>2, ConnectionKeeps
  <2>3. CASE PerformMaintenance
    BY <1>1, <2>3, ConnRests DEF PerformMaintenance, CleanStaleConnections, pipe
  <2>4. CASE \E d \in Senders : \/ EnqueueChecksStop(d) \/ Enqueue(d) \/ HandleDrop(d)
                                \/ \E c \in Conns : Deliver(d, c) \/ HandlePing(d, c)
    BY <1>1, <2>4, SenderKeeps, DeliveryKeeps
  <2>5. CASE UNCHANGED vars
    BY <1>1, <2>5, ConnRests DEF vars, pipe
  <2> QED
    BY <1>1, <2>1, <2>2, <2>3, <2>4, <2>5 DEF Next
<1> QED
  BY <1>1, ConnStarts, ConnInvGivesOneWriter, PTL DEF Spec
=============================================================================
