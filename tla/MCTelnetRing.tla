---------------------------- MODULE MCTelnetRing ----------------------------
(***************************************************************************)
(* The runs of TelnetRing follow the ring until a writer overtakes the     *)
(* reader.  Nothing is promised of what the other side reads from there    *)
(* on, and the step that overtakes is still checked.                       *)
(***************************************************************************)
EXTENDS TelnetRing

BeforeOverrun == ~overrun
=============================================================================
