------------------------------- MODULE MCClients -------------------------------
(* Two services for TLC that share no state: who is let in by an API key, and *)
(* what clients that were let in subscribe to.  A behaviour is one of one of  *)
(* them, the other at rest.                                                   *)
EXTENDS Subscriptions, Access, TLC
CONSTANTS c1, c2, ch1, ch2, h1, h2, w1, w2, u1, all, some

VARIABLE turn
allVars == <<turn, vars, accessVars>>

Alike ==
  UNION {Permutations(S) : S \in {Handlers, Channels, Clients, Controllers, Grants}}

AllInit == turn \in {"messages", "access"} /\ Init /\ AccessInit
Messages == turn = "messages" /\ Next /\ UNCHANGED <<turn, accessVars>>
KeyAccess == turn = "access" /\ AccessNext /\ UNCHANGED <<turn, vars>>
AllSpec == AllInit /\ [][Messages \/ KeyAccess]_allVars
=============================================================================
