----------------------------- MODULE TelnetRing -----------------------------
(***************************************************************************)
(* The client's path to the network: the ring buffer netoring (ring.c),    *)
(* the writers that fill it (telnet.c, authenc.c, libtelnet/encrypt.c) and *)
(* netflush() (network.c), which encrypts it in place and sends it.        *)
(*                                                                         *)
(* A place in the ring is an offset from "bottom".  A cell holds what is   *)
(* written there and how often it has been encrypted.  The two clocks of   *)
(* a ring are only compared with one another: "fresh" is the comparison    *)
(* supplytime > consumetime.                                               *)
(*                                                                         *)
(* The operators whose name begins with Bug are what a slip in the         *)
(* function below them would make of it; the model does not use them.      *)
(***************************************************************************)
EXTENDS Integers, TelnetWire

CONSTANTS
    Size       \* of netobuf, in cells

\* The ring holds the longest message that is written at once.
SizeAssumption == Size \in Nat /\ Size > 4

ASSUME SizeAssumption

Cells    == 0 .. Size - 1
NoPlace  == -1                          \* a null mark or clearto

VARIABLES
    ring,      \* netoring, with the bytes of netobuf
    on,        \* encrypt_output is set
    decrypts,  \* decrypt_input is set on the other side
    read,      \* what the other side makes of the last bytes sent
    overrun    \* a writer did not find the room it needed

vars == <<ring, on, decrypts, read, overrun>>

Rings == [buf : [Cells -> Units], consume : Cells, supply : Cells,
          mark : Cells \cup {NoPlace}, clearto : Cells \cup {NoPlace},
          fresh : BOOLEAN]

-----------------------------------------------------------------------------
(* ring.c.                                                                 *)

RingInit == [buf |-> [i \in Cells |-> Free], consume |-> 0, supply |-> 0,
             mark |-> NoPlace, clearto |-> NoPlace, fresh |-> FALSE]

Subtract(a, b)  == IF a - b >= 0 THEN a - b ELSE (a - b) + Size
BugIncrement(a, c) == IF a + c <= Size THEN a + c ELSE (a + c) - Size
Increment(a, c) == IF a + c < Size THEN a + c ELSE (a + c) - Size
Decrement(a, c) == IF a - c >= 0 THEN a - c ELSE (a - c) + Size

RingEmpty(r) == r.consume = r.supply /\ ~r.fresh
RingFull(r)  == r.consume = r.supply /\ r.fresh

RingMark(r)   == [r EXCEPT !.mark = Decrement(r.supply, 1)]
RingAtMark(r) == r.mark = r.consume

\* ring_supply_data(), and NETADD() repeated.
RingSupply(r, s) ==
    [r EXCEPT !.buf = [i \in Cells |-> IF Subtract(i, r.supply) < Len(s)
                                       THEN s[Subtract(i, r.supply) + 1]
                                       ELSE r.buf[i]],
              !.supply = Increment(r.supply, Len(s)),
              !.fresh = TRUE]

\* ring_consumed() with count > 0.
BugConsumed(r, count) ==
    LET sent  == {i \in Cells : Subtract(i, r.consume) < count}
        after == [r EXCEPT !.buf = [i \in Cells |-> IF i \in sent THEN Free ELSE r.buf[i]],
                           !.clearto = IF r.clearto \in sent THEN NoPlace ELSE r.clearto,
                           !.consume = Increment(r.consume, count),
                           !.fresh = FALSE]
    IN  IF RingEmpty(after) THEN [after EXCEPT !.consume = 0, !.supply = 0] ELSE after

RingConsumed(r, count) ==
    LET sent   == {i \in Cells : Subtract(i, r.consume) < count}
        passed == \/ r.consume < r.clearto /\ r.clearto <= r.consume + count
                  \/ r.consume + count > Size /\ 0 <= r.clearto
        after  == [r EXCEPT !.buf = [i \in Cells |-> IF i \in sent THEN Free ELSE r.buf[i]],
                            !.mark = IF r.mark \in sent THEN NoPlace ELSE r.mark,
                            !.clearto = IF passed THEN NoPlace ELSE r.clearto,
                            !.consume = Increment(r.consume, count),
                            !.fresh = FALSE]
    IN  IF RingEmpty(after)
        THEN [after EXCEPT !.consume = 0, !.supply = 0]
        ELSE after

RingEmptyCount(r) ==
    IF RingEmpty(r) THEN Size ELSE Subtract(r.consume, r.supply)

\* How much there is to send, up to the mark.
BugFullCount(r) ==
    IF r.mark = NoPlace THEN IF RingFull(r) THEN Size ELSE Subtract(r.supply, r.consume)
                        ELSE Subtract(r.mark, r.consume)

RingFullCount(r) ==
    IF r.mark = NoPlace \/ RingAtMark(r)
    THEN IF RingFull(r) THEN Size ELSE Subtract(r.supply, r.consume)
    ELSE Subtract(r.mark, r.consume)

\* The same, as far as it goes without a wrap.
RingFullConsecutive(r) ==
    IF r.mark = NoPlace \/ RingAtMark(r)
    THEN IF r.supply < r.consume \/ RingFull(r)
         THEN Size - r.consume
         ELSE r.supply - r.consume
    ELSE IF r.mark < r.consume THEN Size - r.consume ELSE r.mark - r.consume

RingEncrypt(r) ==
    IF RingEmpty(r) \/ r.clearto = r.supply
    THEN r
    ELSE LET c == IF r.clearto = NoPlace THEN r.consume ELSE r.clearto
             s == r.supply
             cells == IF s <= c THEN (c .. Size - 1) \cup (0 .. s - 1) ELSE c .. s - 1
         IN  [r EXCEPT !.buf = [i \in Cells |-> IF i \in cells THEN Encode(r.buf[i])
                                                ELSE r.buf[i]],
                       !.clearto = s]

RingClearto(r) == [r EXCEPT !.clearto = IF RingEmpty(r) THEN NoPlace ELSE r.supply]

-----------------------------------------------------------------------------
(* The writers.                                                            *)

\* A writer has overtaken the reader, or has come round to clearto exactly:
\* ring_encrypt() cannot tell that from a ring with nothing new in it.
Overtakes(s) ==
    \/ Len(s) > RingEmptyCount(ring)
    \/ Len(s) = RingEmptyCount(ring) /\ on /\ RingSupply(ring, s).clearto = RingSupply(ring, s).supply

Put(bytes) ==
    /\ ring' = RingSupply(ring, Text(bytes))
    /\ overrun' = (overrun \/ Overtakes(Text(bytes)))
    /\ read' = Silence
    /\ UNCHANGED <<on, decrypts>>

\* telsnd(): what the user types, with IAC doubled.
Telsnd ==
    /\ RingEmptyCount(ring) > 2
    /\ \E bytes \in {<<"char">>, <<"iac", "iac">>} : Put(bytes)

\* send_do() and its like answer the other side without a look at the room.
SendOption == Put(<<"iac", "cmd", "opt">>)

\* get_status() fills the ring to the last cell.
GetStatus ==
    /\ RingEmptyCount(ring) >= 4
    /\ Put(<<"iac", "cmd", "opt", "iac">>)

\* dosynch(): the mark is set between the two bytes.
Synch(r) == RingSupply(RingMark(RingSupply(r, Text(<<"iac">>))), Text(<<"dm">>))

Dosynch ==
    /\ ring' = Synch(ring)
    /\ overrun' = (overrun \/ Overtakes(Text(<<"iac", "dm">>)))
    /\ read' = Silence
    /\ UNCHANGED <<on, decrypts>>

-----------------------------------------------------------------------------
(* Encryption.                                                             *)

\* net_write() drops what does not fit and only its return value tells.
NetWrite(r, byte) ==
    IF RingEmptyCount(r) > 1 THEN RingSupply(r, Text(<<byte>>)) ELSE r

NetEncrypt(r) == IF on THEN RingEncrypt(r) ELSE RingClearto(r)

BugSwitch(byte, mode) ==
    /\ ring' = NetWrite(ring, byte)
    /\ on' = mode
    /\ overrun' = (overrun \/ RingEmptyCount(ring) <= 1)
    /\ read' = Silence
    /\ UNCHANGED decrypts

Switch(byte, mode) ==
    /\ ring' = NetEncrypt(NetWrite(ring, byte))
    /\ on' = mode
    /\ overrun' = (overrun \/ RingEmptyCount(ring) <= 1)
    /\ read' = Silence
    /\ UNCHANGED decrypts

EncryptStartOutput == Switch("start", TRUE)

EncryptSendEnd == on /\ Switch("end", FALSE)

-----------------------------------------------------------------------------
(* The network.                                                            *)

Sent(r, n, oob) ==
    LET bytes == [i \in 1..n |-> r.buf[r.consume + i - 1]]
    IN  \E m \in Modes(decrypts, bytes) :
            /\ ring' = RingConsumed(r, n)
            /\ decrypts' = m[n]
            /\ read' = [text |-> Reading(m, bytes), oob |-> oob]

\* The socket takes some of the bytes, or none (EWOULDBLOCK).  When it has
\* taken all it was given, netflush() calls itself: the next step.
Netflush ==
    LET r == IF on THEN RingEncrypt(ring) ELSE ring
        n == RingFullConsecutive(r)
    IN  /\ \/ /\ n > 0
              /\ IF RingAtMark(r) THEN Sent(r, 1, TRUE)
                                  ELSE \E k \in 1..n : Sent(r, k, FALSE)
           \/ /\ ring' = r
              /\ read' = Silence
              /\ UNCHANGED decrypts
        /\ UNCHANGED <<on, overrun>>

-----------------------------------------------------------------------------
Init ==
    /\ ring = RingInit
    /\ on = FALSE /\ decrypts = FALSE
    /\ read = Silence
    /\ overrun = FALSE

Next ==
    \/ Telsnd \/ SendOption \/ GetStatus \/ Dosynch
    \/ EncryptStartOutput \/ EncryptSendEnd
    \/ Netflush

Spec == Init /\ [][Next]_vars

-----------------------------------------------------------------------------
(* Properties.                                                             *)

\* The ring stays within netobuf whatever the writers do (ring.c, Ring).
TypeOK ==
    /\ ring \in Rings
    /\ on \in BOOLEAN /\ decrypts \in BOOLEAN /\ overrun \in BOOLEAN

Held == Size - RingEmptyCount(ring)     \* cells with something to send

\* Scheduler() and netflush() ask the ring how much there is to send, once
\* across the wrap and once up to it: neither says none while there is some,
\* or the client would never send it, and neither says some while there is none.
Sendable ==
    ~overrun =>
        /\ Held > 0 <=> RingFullCount(ring) > 0
        /\ Held > 0 <=> RingFullConsecutive(ring) > 0
        /\ RingFullConsecutive(ring) <= RingFullCount(ring)

\* setneturg() says where the urgent byte is: as long as no writer overtakes
\* the reader the mark is on a byte that is still to be sent.
MarkIsAhead ==
    ~overrun /\ ring.mark # NoPlace => Subtract(ring.mark, ring.consume) < Held

Pending == [i \in 1..Held |-> ring.buf[Increment(ring.consume, i - 1)].byte]

Stream == INSTANCE TelnetStream WITH
    Writes  <- {<<"char">>, <<"iac", "iac">>, <<"iac", "cmd", "opt">>,
                <<"iac", "cmd", "opt", "iac">>, <<"iac", "dm">>, <<"start">>, <<"end">>},
    pending <- Pending,
    Discards <- FALSE,
    urgent  <- IF ring.mark = NoPlace THEN 0
               ELSE Subtract(ring.mark, ring.consume) + 1,
    spoilt  <- overrun

\* netflush() and ring.c over all interleavings with the writers, whether
\* encrypting or not, across every wrap: the other side reads what was
\* written, in order, each byte decrypted exactly when it has been encrypted.
ImplementsStream == Stream!Spec
=============================================================================
