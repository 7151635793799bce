------------------------------- MODULE MCRsh --------------------------------
(* The requests and commands of the run of Rsh.                             *)
EXTENDS Rsh

Request(client, x, proto, forward, des) ==
  [client |-> client, x |-> x, proto |-> proto, forward |-> forward, des |-> des]

\* Each program with each protocol, clear and encrypted, with either enctype;
\* rsh, whose session is the large one, encrypted and with credentials.
SomeRequests ==
  {Request("rsh", TRUE, "compat", TRUE, FALSE)}
  \union {Request(c, x, p, FALSE, des) : c \in {"rlogin", "rcp_to", "rcp_from"}, x \in BOOLEAN,
                                    p \in {"old", "new", "compat"}, des \in BOOLEAN}

\* grep, cat, a command that writes more than it reads, and sleep.
SomeCommands ==
  {[kind |-> "filter", gain |-> 1], [kind |-> "filter", gain |-> 3], [kind |-> "sleeper", gain |-> 0]}
=============================================================================
