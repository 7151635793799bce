-------------------------- MODULE MCTelnetTerminal --------------------------
(* The instance of TelnetTerminal that TLC checks.                         *)
EXTENDS TelnetTerminal

TerminalOptions == {"ECHO", "SGA", "LINEMODE", "TM", "LFLOW"}
=============================================================================
