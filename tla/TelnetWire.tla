----------------------------- MODULE TelnetWire -----------------------------
(***************************************************************************)
(* A byte on its way through the output buffer of the client or of the     *)
(* server, and what the program at the other end makes of it.  Both ends   *)
(* use libtelnet/encrypt.c, which encrypts the buffer in place and         *)
(* decrypts what it reads byte by byte.                                    *)
(***************************************************************************)
EXTENDS Naturals, Sequences

\* The ends of ENCRYPT START and END stand for the whole subnegotiation.
Bytes == {"char", "iac", "cmd", "opt", "dm", "start", "end"}

\* A byte that is sent in the clear, once encrypted, or encrypted twice over.
Unit(b)   == [byte |-> b, enc |-> 0]
Free      == Unit("free")               \* a place where nothing is written
Units     == [byte : Bytes \cup {"free"}, enc : 0..2]
Encode(u) == [u EXCEPT !.enc = IF u.enc < 2 THEN u.enc + 1 ELSE 2]
Text(bytes) == [i \in DOMAIN bytes |-> Unit(bytes[i])]

\* The other side decrypts byte by byte: it can read a byte that has been
\* encrypted exactly when it expects that, and obeys START and END as they come.
Readable(decrypts, u) == u.enc = IF decrypts THEN 1 ELSE 0

After(decrypts, u) ==
    IF Readable(decrypts, u) /\ u.byte \in {"start", "end"}
    THEN u.byte = "start"
    ELSE decrypts

\* The modes the other side goes through as it reads: there is one such function.
Modes(decrypts, units) ==
    {m \in [0 .. Len(units) -> BOOLEAN] :
        /\ m[0] = decrypts
        /\ \A i \in 1 .. Len(units) : m[i] = After(m[i - 1], units[i])}

Reading(m, units) ==
    [i \in 1 .. Len(units) |-> IF Readable(m[i - 1], units[i]) THEN units[i].byte
                                                             ELSE "garbled"]

Silence == [text |-> <<>>, oob |-> FALSE]
=============================================================================
