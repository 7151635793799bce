--------------------------- MODULE TelnetdNetbuf ---------------------------
(***************************************************************************)
(* The server's path to the network: the buffer netobuf with its pointers, *)
(* the writers netprintf() and netwrite(), netflush() and netclear()       *)
(* (telnetd/utility.c), net_encrypt() (telnetd/authenc.c) and              *)
(* libtelnet/encrypt.c.                                                    *)
(*                                                                         *)
(* A pointer is an offset from netobuf.  The buffer does not wrap: it      *)
(* starts over when everything has been sent.  Clients are taken to        *)
(* survive urgent data (not42).                                            *)
(*                                                                         *)
(* The operators whose name begins with Bug are what a slip in the         *)
(* function below them would make of it; the model does not use them.      *)
(***************************************************************************)
EXTENDS Integers, TelnetWire

CONSTANTS
    Size,      \* sizeof(netobuf)
    Slop       \* NETSLOP: what the pty's output leaves free

SizesAssumption == Size \in Nat /\ Slop \in Nat /\ Slop < Size

ASSUME SizesAssumption

Cells   == 0 .. Size - 1
Places  == 0 .. Size
NoPlace == -1                           \* a null nclearto or neturg

VARIABLES
    buf,       \* netobuf
    nbackp,    \* what is before it has been sent
    nfrontp,   \* what is before it has been written
    nclearto,  \* what is before it is not to be encrypted any more
    neturg,    \* one past the urgent byte
    on,        \* encrypt_output is set
    decrypts,  \* decrypt_input is set in the client
    read,      \* what the client makes of the last bytes sent
    spoilt     \* netclear() or a lost START has broken the stream

vars == <<buf, nbackp, nfrontp, nclearto, neturg, on, decrypts, read, spoilt>>

-----------------------------------------------------------------------------
(* netprintf() and netwrite().                                             *)

Remain == Size - nfrontp

Supplied(s) == [i \in Cells |-> IF i \in nfrontp .. nfrontp + Len(s) - 1
                                THEN Unit(s[i - nfrontp + 1])
                                ELSE buf[i]]

Written(s) ==
    /\ Remain >= Len(s)
    /\ buf' = Supplied(s)
    /\ nfrontp' = nfrontp + Len(s)
    /\ read' = Silence
    /\ UNCHANGED <<nbackp, nclearto, neturg, on, decrypts, spoilt>>

\* An option request, or a command of two bytes.  Without the room for it these
\* functions call netflush(), which is the step before this one, and drop it
\* when that has not made room: a step that changes nothing.
WriteCommand == \E s \in {<<"iac", "cmd", "opt">>, <<"iac", "dm">>} : Written(s)

\* telnet(): what the pty has to say, with IAC doubled.
WriteOutput ==
    /\ Size - Slop - nfrontp >= 2
    /\ \E s \in {<<"char">>, <<"iac", "iac">>} : Written(s)

-----------------------------------------------------------------------------
(* netclear().                                                             *)

ByteAt(i) == IF i \in Cells THEN buf[i].byte ELSE "free"

\* An option request is three bytes long, other commands are two; START and
\* END, which nextitem() follows up to their SE, are two bytes here.
NextItem(i) ==
    IF ByteAt(i) # "iac" THEN i + 1
    ELSE IF ByteAt(i + 1) = "cmd" THEN i + 3
    ELSE i + 2

WeWant(i) == nfrontp > i /\ ByteAt(i) = "iac"

ScanFrom == IF nclearto > 0 THEN nclearto ELSE 0

\* Bytes are scanned that have been encrypted in place.
ScansCiphertext == \E i \in Cells : ScanFrom <= i /\ i < nbackp /\ buf[i].enc > 0

\* The item that nbackp points into, or at.  What looks like an item in
\* encrypted bytes is anybody's guess.
FirstItem ==
    LET item[i \in Nat] == IF NextItem(i) <= nbackp THEN item[NextItem(i)] ELSE i
    IN  IF ScansCiphertext THEN ScanFrom .. nbackp ELSE {item[ScanFrom]}

BugWanted(first) ==
    LET from[i \in Nat] ==
            IF i >= nfrontp THEN <<>>
            ELSE IF WeWant(i) /\ ByteAt(i + 1) # "iac"
                 THEN [k \in 1 .. NextItem(i) - i |-> ByteAt(i + k - 1)] \o from[NextItem(i)]
                 ELSE from[NextItem(i)]
    IN  from[first]

\* The commands from there on, each as a whole.
Wanted(first) ==
    LET from[i \in Nat] ==
            IF i >= nfrontp THEN <<>>
            ELSE IF WeWant(i)
                 THEN [k \in 1 .. NextItem(i) - i |-> ByteAt(i + k - 1)] \o from[NextItem(i)]
                 ELSE from[NextItem(i)]
    IN  from[first]

\* The scan starts at nclearto, or finds the head of an item that is already
\* on its way: what has been sent will be sent again.  Or it has lost its way.
Breaks(first) ==
    nbackp > 0 /\ (ScanFrom > 0 \/ first # nbackp \/ ScansCiphertext)

\* AO, and output that the terminal driver throws away: netclear(), and
\* netprintf_urg() of IAC DM, which makes IAC the urgent byte.  Without room
\* for the two it drops them, unless netflush() can send all there is.
AbortOutput ==
    \E first \in FirstItem :
        LET wanted == Wanted(first)
            fits   == ScanFrom + Len(wanted) + 2 <= Size
            kept   == IF fits THEN wanted \o <<"iac", "dm">> ELSE wanted
            good   == ScanFrom + Len(kept)
        IN  /\ buf' = [i \in Cells |-> IF i < ScanFrom THEN buf[i]
                                       ELSE IF i < good THEN Unit(kept[i - ScanFrom + 1])
                                       ELSE Free]
            /\ nbackp' = 0
            /\ nfrontp' = good
            /\ neturg' = IF fits THEN good - 1 ELSE NoPlace
            /\ read' = Silence
            /\ spoilt' = (spoilt \/ Breaks(first))
            /\ UNCHANGED <<nclearto, on, decrypts>>

-----------------------------------------------------------------------------
(* Encryption.                                                             *)

Encrypted(b, from, to) ==
    [i \in Cells |-> IF from <= i /\ i < to THEN Encode(b[i]) ELSE b[i]]

BugSwitch(byte, mode) ==
    LET fits == Remain >= 2
        b    == IF fits THEN Supplied(<<"iac", byte>>) ELSE buf
        n    == IF fits THEN nfrontp + 2 ELSE nfrontp
    IN  /\ buf' = IF on THEN Encrypted(b, nbackp, n) ELSE b
        /\ nfrontp' = n
        /\ nclearto' = n
        /\ spoilt' = (spoilt \/ ~fits)
        /\ on' = mode
        /\ read' = Silence
        /\ UNCHANGED <<nbackp, neturg, decrypts>>

\* net_write() of START or END, dropped without the room for it, and
\* net_encrypt().
Switch(byte, mode) ==
    LET fits == Remain >= 2
        b    == IF fits THEN Supplied(<<"iac", byte>>) ELSE buf
        n    == IF fits THEN nfrontp + 2 ELSE nfrontp
        from == IF nclearto > nbackp THEN nclearto ELSE nbackp
    IN  /\ buf' = IF on THEN Encrypted(b, from, n) ELSE b
        /\ nfrontp' = n
        /\ nclearto' = n
        /\ spoilt' = (spoilt \/ ~fits)
        /\ on' = mode
        /\ read' = Silence
        /\ UNCHANGED <<nbackp, neturg, decrypts>>

EncryptStartOutput == Switch("start", TRUE)

EncryptSendEnd == on /\ Switch("end", FALSE)

-----------------------------------------------------------------------------
(* netflush().                                                             *)

\* n bytes are gone; when all are, the buffer starts over.
Advance(b, clearto, n) ==
    LET back  == nbackp + n
        empty == back = nfrontp
    IN  /\ buf' = IF empty THEN [i \in Cells |-> Free] ELSE b
        /\ nbackp' = IF empty THEN 0 ELSE back
        /\ nfrontp' = IF empty THEN 0 ELSE nfrontp
        /\ nclearto' = IF empty \/ back > clearto THEN NoPlace ELSE clearto
        /\ neturg' = IF back >= neturg THEN NoPlace ELSE neturg

\* How many bytes the socket takes of those it is given, and how.
Sends(n, oob) ==
    IF neturg = NoPlace THEN n <= nfrontp - nbackp /\ ~oob
    ELSE IF neturg - nbackp > 1 THEN n <= neturg - nbackp - 1 /\ ~oob
    ELSE n <= neturg - nbackp /\ oob

Netflush ==
    /\ nfrontp > nbackp
    /\ LET from    == IF nclearto # NoPlace THEN nclearto ELSE nbackp
           b       == IF on THEN Encrypted(buf, from, nfrontp) ELSE buf
           clearto == IF on /\ nfrontp > from THEN nfrontp ELSE nclearto
       IN  \/ \E n \in 1..Size, oob \in BOOLEAN :
                 LET bytes == [i \in 1..n |-> b[nbackp + i - 1]]
                 IN  /\ Sends(n, oob)
                     /\ Advance(b, clearto, n)
                     /\ \E m \in Modes(decrypts, bytes) :
                           /\ decrypts' = m[n]
                           /\ read' = [text |-> Reading(m, bytes), oob |-> oob]
           \/ /\ buf' = b /\ nclearto' = clearto            \* EWOULDBLOCK
              /\ read' = Silence
              /\ UNCHANGED <<nbackp, nfrontp, neturg, decrypts>>
    /\ UNCHANGED <<on, spoilt>>

-----------------------------------------------------------------------------
Init ==
    /\ buf = [i \in Cells |-> Free]
    /\ nbackp = 0 /\ nfrontp = 0
    /\ nclearto = NoPlace /\ neturg = NoPlace
    /\ on = FALSE /\ decrypts = FALSE
    /\ read = Silence
    /\ spoilt = FALSE

Next ==
    \/ WriteCommand \/ WriteOutput
    \/ AbortOutput
    \/ EncryptStartOutput \/ EncryptSendEnd
    \/ Netflush

Spec == Init /\ [][Next]_vars

-----------------------------------------------------------------------------
(* Properties.                                                             *)

\* The type invariant: the pointers stay within netobuf and in order.
TypeOK ==
    /\ buf \in [Cells -> Units]
    /\ nbackp \in Places /\ nfrontp \in Places /\ nbackp <= nfrontp
    /\ nclearto \in Places \cup {NoPlace} /\ nclearto <= nfrontp
    /\ neturg \in Places \cup {NoPlace} /\ neturg <= nfrontp
    /\ on \in BOOLEAN /\ decrypts \in BOOLEAN /\ spoilt \in BOOLEAN

\* netflush() and net_encrypt() find what is left to encrypt from nclearto
\* alone: what waits behind it is in the clear, and nothing that waits has
\* been encrypted twice (utility.c; the type invariant is part of it).
ClearFrontier ==
    /\ TypeOK
    /\ ~spoilt => \A i \in Cells : nbackp <= i /\ i < nfrontp =>
           /\ i >= nclearto => buf[i].enc = 0
           /\ buf[i].enc < 2

Pending == [i \in 1 .. nfrontp - nbackp |-> buf[nbackp + i - 1].byte]

Stream == INSTANCE TelnetStream WITH
    Writes   <- {<<"char">>, <<"iac", "iac">>, <<"iac", "cmd", "opt">>, <<"iac", "dm">>,
                 <<"iac", "start">>, <<"iac", "end">>},
    Discards <- TRUE,
    pending  <- Pending,
    urgent   <- IF neturg = NoPlace THEN 0 ELSE neturg - nbackp

\* netflush(), netclear() and net_encrypt() over all interleavings with the
\* writers: the client reads what was written, in order and readable, less
\* the text that was thrown away; no command is lost or cut.
ImplementsStream == Stream!Spec
=============================================================================
