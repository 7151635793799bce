---------------------------- MODULE TelnetStream ----------------------------
(***************************************************************************)
(* What the way to the network promises in either program: bytes come out  *)
(* in the order they were written in, each readable by the other side, and *)
(* a byte marked as urgent leaves alone, out of band, when its turn has    *)
(* come.  The server may throw away text that waits, and only text.        *)
(*                                                                         *)
(* TelnetRing and TelnetdNetbuf implement it until something goes wrong    *)
(* that they do not notice (spoilt); of what follows nothing is promised.  *)
(***************************************************************************)
EXTENDS Naturals, Sequences

CONSTANTS
    Writes,    \* the sequences of bytes that are written at once
    Discards   \* text may be thrown away

VARIABLES
    pending,   \* written and not yet sent
    urgent,    \* the place of the urgent byte in pending, 0 without one
    read,      \* what the other side makes of the last bytes sent
    spoilt     \* the promise has been broken

vars == <<pending, urgent, read, spoilt>>

Nothing == [text |-> <<>>, oob |-> FALSE]

Init ==
    /\ pending = <<>> /\ urgent = 0
    /\ read = Nothing
    /\ spoilt = FALSE

\* Bytes are written; the first of them may become the urgent one.
Supply ==
    /\ \E s \in Writes :
          /\ pending' = pending \o s
          /\ urgent' \in {urgent, Len(pending) + 1}
    /\ read' = Nothing
    /\ UNCHANGED spoilt

\* Text from some place on is thrown away, and an urgent byte announces it
\* when there is room.
Discard ==
    /\ Discards
    /\ \E n \in 0..Len(pending) :
          LET text == SubSeq(pending, n + 1, Len(pending))
              kept == SubSeq(pending, 1, n) \o SelectSeq(text, LAMBDA b : b # "char")
          IN  \/ pending' = kept \o <<"iac", "dm">> /\ urgent' = Len(kept) + 1
              \/ pending' = kept /\ urgent' = 0
    /\ read' = Nothing
    /\ UNCHANGED spoilt

\* Nothing happens that the other side could notice.
Silent ==
    /\ read' = Nothing
    /\ UNCHANGED <<pending, urgent, spoilt>>

\* The urgent byte is sent alone; what precedes it is sent without it.
Deliver ==
    /\ \E n \in 1..Len(pending) :
          /\ urgent = 0 \/ n < urgent \/ (urgent = 1 /\ n = 1)
          /\ pending' = SubSeq(pending, n + 1, Len(pending))
          /\ urgent' = IF urgent = 0 THEN 0 ELSE urgent - n
          /\ read' = [text |-> SubSeq(pending, 1, n), oob |-> urgent = 1]
    /\ UNCHANGED spoilt

Spoil == spoilt'

Next == Supply \/ Discard \/ Silent \/ Deliver \/ Spoil

Spec == Init /\ [][Next]_vars
=============================================================================
