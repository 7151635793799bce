------------------------ MODULE MCTelnetNegotiation ------------------------
(***************************************************************************)
(* The commands the user gives in the run of TelnetNegotiation: those of   *)
(* the options whose handlers do more than answer.                         *)
(***************************************************************************)
EXTENDS TelnetNegotiation

UserCommands ==
    {<<"do", "ECHO">>, <<"will", "ECHO">>, <<"do", "SGA">>, <<"will", "LINEMODE">>,
     <<"will", "NEW_ENVIRON">>, <<"will", "OLD_ENVIRON">>,
     <<"will", "BINARY">>}
=============================================================================
