------------------------------ MODULE MCRlogin ------------------------------
(* The sessions of the run of Rlogin.                                       *)
EXTENDS Rlogin

\* An encrypted session of version 0.2 with -7 and without, a clear one of
\* version 0.1.
AllModes == {[encrypt |-> TRUE, inband |-> TRUE, eight |-> FALSE],
             [encrypt |-> TRUE, inband |-> TRUE, eight |-> TRUE],
             [encrypt |-> FALSE, inband |-> FALSE, eight |-> TRUE]}

\* Output with the byte of the control messages, and what is one.
SomeOutputs == {<<"F", "F", "y">>, <<"F", "F", "q", "q">>}

\* The terminal turns flow control off, or throws output away and turns it on.
SomeMarks == {[flow |-> "nostop", flush |-> FALSE], [flow |-> "dostop", flush |-> TRUE]}
=============================================================================
