------------------------------- MODULE Access -------------------------------
(***************************************************************************)
(* One API key of a tenant: the control requests that create, change and   *)
(* delete its row, each a few statements without a transaction around      *)
(* them, and the requests let in by the key or by a token signed with its  *)
(* secret.  The secret never changes and callers have the right one; what  *)
(* a permission allows is in Publishing.                                   *)
(***************************************************************************)
EXTENDS Integers, FiniteSets

CONSTANTS
  Controllers,  \* control requests handled at one time
  Callers,      \* requests to the REST and websocket interfaces at one time
  Grants,       \* permissions a key may have
  Omitted,      \* a field the body of a control request leaves out
  NoKey,        \* no row
  NoToken,      \* a caller without a token
  Duration,     \* lifetime of a token for which none is asked
  MaxDuration,  \* the most one may ask for, which the configuration does not
                \* compare with Duration
  Tolerance,    \* on the timestamp of a signed token request
  TimeBound,    \* bound on the clock
  ChangeBound,  \* bound on control requests
  TokenBound    \* bound on the tokens issued

ASSUME AccessAssumption ==
  /\ {Duration, Tolerance, TimeBound, ChangeBound, TokenBound} \subseteq Nat
  /\ MaxDuration \in Int

States == {"active", "inactive"}

VARIABLES
  time,
  key,      \* the row of the key
  control,  \* what each control request is doing
  tokens,   \* tokens issued so far; limit: history, the time it may let in until
  call,     \* what each caller is doing; late: history, it began after the key had gone
  before,   \* history: the row when the first of the control requests in progress began
  asked,    \* history: what those of them that get to their write ask for
  changes

accessVars == <<time, key, control, tokens, call, before, asked, changes>>

Row == [status : States, grant : Grants]
ASSUME NoKeyAssumption == NoKey \notin Row
Deletion == [kind |-> "delete", status |-> Omitted, grant |-> Omitted]
AtRest == [pc |-> "idle", asks |-> Deletion, row |-> NoKey]
NoCall == [pc |-> "idle", token |-> NoToken, since |-> 0, late |-> FALSE]

AccessInit ==
  /\ time = 0 /\ key = NoKey /\ tokens = {}
  /\ control = [w \in Controllers |-> AtRest]
  /\ call = [c \in Callers |-> NoCall]
  /\ before = NoKey /\ asked = {} /\ changes = 0

Controls(w, r) == control' = [control EXCEPT ![w] = r]
Calls(c, r) == call' = [call EXCEPT ![c] = r]
Settled == \A w \in Controllers : control[w].pc = "idle"

\* Bookkeeping: a control request joins the ones in progress, or is the first.
Begins ==
  /\ changes < ChangeBound /\ changes' = changes + 1
  /\ before' = IF Settled THEN key ELSE before
  /\ asked' = IF Settled THEN {} ELSE asked

-----------------------------------------------------------------------------
(* The control interface *)

\* CreateAPIKey: an omitted status is active, an omitted permission all.
CreateAPIKey ==
  /\ key = NoKey /\ before = NoKey
  /\ key' \in Row
  /\ before' = key'
  /\ UNCHANGED <<time, control, tokens, call, asked, changes>>

\* UpdateAPIKey reads the row and fills in what the body leaves out.
\* Mutant: an omitted status is active, as it is when a key is created.
Filled_Active(r) ==
  [status |-> IF r.status = Omitted THEN "active" ELSE r.status,
   grant |-> IF r.grant = Omitted THEN key.grant ELSE r.grant]
Filled(r) ==
  [status |-> IF r.status = Omitted THEN key.status ELSE r.status,
   grant |-> IF r.grant = Omitted THEN key.grant ELSE r.grant]

UpdateReads(w) ==
  /\ control[w].pc = "idle" /\ key # NoKey
  /\ \E status \in States \cup {Omitted}, grant \in Grants \cup {Omitted} :
       LET asks == [kind |-> "update", status |-> status, grant |-> grant]
       IN Controls(w, [pc |-> "update", asks |-> asks, row |-> Filled(asks)])
  /\ Begins
  /\ UNCHANGED <<time, key, tokens, call>>

\* The service reads the row again, and refuses a body that is not valid.
UpdateReadsAgain(w) ==
  /\ control[w].pc = "update"
  /\ \/ Controls(w, AtRest) /\ UNCHANGED asked
     \/ /\ key # NoKey /\ Controls(w, [control[w] EXCEPT !.pc = "save"])
        /\ asked' = asked \cup {control[w].asks}
  /\ UNCHANGED <<time, key, tokens, call, before, changes>>

\* Save writes every column, and inserts the row when it has gone.
UpdateSaves(w) ==
  /\ control[w].pc = "save"
  /\ key' = control[w].row
  /\ Controls(w, AtRest)
  /\ UNCHANGED <<time, tokens, call, before, asked, changes>>

UpdateAPIKey(w) == UpdateReads(w) \/ UpdateReadsAgain(w) \/ UpdateSaves(w)

\* DeleteAPIKey, and the deletion of a tenant's keys from a list of them.
DeleteReads(w) ==
  /\ control[w].pc = "idle" /\ key # NoKey
  /\ Controls(w, [AtRest EXCEPT !.pc = "delete"])
  /\ Begins
  /\ UNCHANGED <<time, key, tokens, call>>

DeleteReadsAgain(w) ==
  /\ control[w].pc = "delete"
  /\ \/ key = NoKey /\ Controls(w, AtRest) /\ UNCHANGED asked
     \/ /\ key # NoKey /\ Controls(w, [control[w] EXCEPT !.pc = "remove"])
        /\ asked' = asked \cup {Deletion}
  /\ UNCHANGED <<time, key, tokens, call, before, changes>>

DeleteRemoves(w) ==
  /\ control[w].pc = "remove"
  /\ key' = NoKey
  /\ Controls(w, AtRest)
  /\ UNCHANGED <<time, tokens, call, before, asked, changes>>

DeleteAPIKey(w) == DeleteReads(w) \/ DeleteReadsAgain(w) \/ DeleteRemoves(w)

-----------------------------------------------------------------------------
(* Tokens *)

CreateAPIKeyToken(lifetime, limit) ==
  /\ Cardinality(tokens) < TokenBound
  /\ tokens' = tokens \cup {[expires |-> time + lifetime, limit |-> limit]}

\* authAPIKey.Authenticate finds the key of the id, whatever its status.
Authenticate == key # NoKey

\* POST token/issue, for who has the key; the body may ask for a lifetime, which
\* is then checked against MaxDuration.
IssueToken(c) ==
  /\ call[c].pc = "idle" /\ Authenticate
  /\ \/ CreateAPIKeyToken(Duration, time + Duration)
     \/ \E lifetime \in 1..MaxDuration : CreateAPIKeyToken(lifetime, time + MaxDuration)
  /\ UNCHANGED <<time, key, control, call, before, asked, changes>>

\* TokenRequestAuth: the key is active, and the request was signed, by a clock of
\* its own, at a time near enough.
Abs(n) == IF n < 0 THEN -n ELSE n

\* Mutant: the timestamp is not compared with the clock.
TokenRequestAuth_AnyTime(signed) == key # NoKey /\ key.status = "active"
TokenRequestAuth(signed) ==
  key # NoKey /\ key.status = "active" /\ Abs(time - signed) <= Tolerance

\* POST token/request; nothing is read between the check and the signature.
RequestToken(c) ==
  /\ call[c].pc = "idle"
  /\ \E signed \in 0..TimeBound :
       /\ TokenRequestAuth(signed)
       /\ CreateAPIKeyToken(Duration, signed + Tolerance + Duration)
  /\ UNCHANGED <<time, key, control, call, before, asked, changes>>

-----------------------------------------------------------------------------
(* APIKeyOrTokenAuth *)

Arrive(c) ==
  /\ call[c].pc = "idle"
  /\ \E token \in tokens \cup {NoToken}, first \in {"key", "token"} :
       /\ first = "token" => token # NoToken
       /\ Calls(c, [pc |-> first, token |-> token, since |-> 0,
                    late |-> Settled /\ asked = {Deletion}])
  /\ UNCHANGED <<time, key, control, tokens, before, asked, changes>>

\* The key is looked up; if that fails, a token is tried.
TryAPIKeyAuth(c) ==
  /\ call[c].pc = "key"
  /\ Calls(c, CASE Authenticate -> [call[c] EXCEPT !.pc = "admitted", !.token = NoToken]
                [] ~Authenticate /\ call[c].token # NoToken -> [call[c] EXCEPT !.pc = "token"]
                [] ~Authenticate /\ call[c].token = NoToken -> NoCall)
  /\ UNCHANGED <<time, key, control, tokens, before, asked, changes>>

VerifyAPIKeyToken(token) == time < token.expires

\* The secret of the key the token names is looked up to verify the token.
AuthenticateAPIKeyToken(token) == key # NoKey /\ VerifyAPIKeyToken(token)

TryTokenAuth(c) ==
  /\ call[c].pc = "token"
  /\ Calls(c, IF AuthenticateAPIKeyToken(call[c].token)
              THEN [call[c] EXCEPT !.pc = "admitted", !.since = time] ELSE NoCall)
  /\ UNCHANGED <<time, key, control, tokens, before, asked, changes>>

Served(c) ==
  /\ call[c].pc = "admitted" /\ Calls(c, NoCall)
  /\ UNCHANGED <<time, key, control, tokens, before, asked, changes>>

APIKeyOrTokenAuth(c) == Arrive(c) \/ TryAPIKeyAuth(c) \/ TryTokenAuth(c)

TimePasses ==
  /\ time < TimeBound /\ time' = time + 1
  /\ UNCHANGED <<key, control, tokens, call, before, asked, changes>>

AccessNext ==
  \/ CreateAPIKey
  \/ \E w \in Controllers : UpdateAPIKey(w) \/ DeleteAPIKey(w)
  \/ \E c \in Callers : IssueToken(c) \/ RequestToken(c) \/ APIKeyOrTokenAuth(c) \/ Served(c)
  \/ TimePasses

AccessSpec == AccessInit /\ [][AccessNext]_accessVars

-----------------------------------------------------------------------------
\* When the control requests that overlapped are done, the key is gone only if
\* one of them deleted it and there only if one of them changed it or none
\* deleted it; and a field has a value one of them gave, or the old one if one
\* left it out.  For a request alone: the row is what it asked for
\* (control UpdateAPIKey, DeleteAPIKey; apikey service Update, Delete).
UpdateHolds ==
  LET updates == {r \in asked : r.kind = "update"}
      Kept(f) == IF \A r \in updates : r[f] # Omitted THEN {} ELSE {before[f]}
      Possible(f) ==
        IF updates = {} THEN {before[f]}
        ELSE ({r[f] : r \in updates} \ {Omitted}) \cup Kept(f)
  IN Settled =>
       IF key = NoKey THEN before = NoKey \/ Deletion \in asked
       ELSE /\ updates # {} \/ Deletion \notin asked
            /\ key.status \in Possible("status") /\ key.grant \in Possible("grant")

\* Nobody is let in who comes after the key was deleted, by a request no other
\* overlapped, and no token lets in after its time: from its issue MaxDuration if
\* a lifetime was asked for and Duration, which may be longer, if none was; for a
\* signed token request the tolerance and a Duration from the signature
\* (TokenRequestAuth, IssueToken, AuthenticateAPIKeyToken).
AdmittedForCause ==
  \A c \in Callers : call[c].pc = "admitted" =>
    ~call[c].late /\ (call[c].token # NoToken => call[c].since < call[c].token.limit)
=============================================================================
