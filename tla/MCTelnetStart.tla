--------------------------- MODULE MCTelnetStart ----------------------------
(* The mechanisms and the terminals of the run of TelnetStart.              *)
EXTENDS TelnetStart

\* All three mechanisms of the table, in its order.
Table == <<"encrypt", "mutual", "oneway">>

\* No terminal, one that no server knows, one whose entry repeats a name, and
\* those that open with an old two-letter name.
Terminal(name, entry) == [term |-> name, entry |-> entry]
SomeTerminals ==
  {Terminal("", <<>>), Terminal("lost", <<"lost", "vt", "a description">>),
   Terminal("mine", <<"mine", "vt", "vt", "ansi", "a description">>),
   Terminal("odd", <<"v6", "odd", "older", "a description">>),
   Terminal("odd", <<"v6", "a description">>)}
SomeKnown == {"ansi", "v6"}
=============================================================================
