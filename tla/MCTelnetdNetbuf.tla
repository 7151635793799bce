-------------------------- MODULE MCTelnetdNetbuf --------------------------
(***************************************************************************)
(* The run of TelnetdNetbuf follows the buffer until the stream is spoilt. *)
(* Nothing is promised of what the client reads from there on.             *)
(***************************************************************************)
EXTENDS TelnetdNetbuf

NotSpoilt == ~spoilt
=============================================================================
