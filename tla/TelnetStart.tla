---------------------------- MODULE TelnetStart -----------------------------
(* getterminaltype(): the server authenticates the client and then asks its *)
(* terminal type; the client may close the connection and open another.     *)
EXTENDS TelnetAuth

CONSTANTS Terminals, Known
VARIABLES term, next, asker, wire

T == INSTANCE TelnetTtype
startVars == <<vars, term, next, asker, wire>>

StartInit == Init /\ T!TtypeInit
(* The values are asked for when auth_negotiated is set.                    *)
Authenticate == (ClientStep \/ ServerStep \/ Alarm) /\ UNCHANGED <<term, next, asker, wire>>
AskType == srv.at = "done" /\ T!TtypeStep /\ UNCHANGED vars
Reopen == Open /\ T!Done /\ T!Reset
StartNext == Authenticate \/ AskType \/ Reopen
(* Both programs read what has come; the alarm need not go off.             *)
StartSpec ==
  /\ StartInit /\ [][StartNext]_startVars
  /\ WF_startVars(ClientStep /\ UNCHANGED <<term, next, asker, wire>>)
  /\ WF_startVars(ServerStep /\ UNCHANGED <<term, next, asker, wire>>)
  /\ WF_startVars(AskType)
----------------------------------------------------------------------------
(* The start-up ends, with whatever mechanisms fail, and the server has the *)
(* best of the client's terminal types: the first it knows, else the first; *)
(* also on a second connection of the same client.                          *)
Starts == <>[](Settled /\ T!Done /\ asker.type = T!Best(term))
=============================================================================
