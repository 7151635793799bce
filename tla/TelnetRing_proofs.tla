------------------------- MODULE TelnetRing_proofs -------------------------
(* The client's output ring, for every size of it: its state is well typed  *)
(* (TypeCorrect), the mark of the urgent byte stays ahead of what is sent   *)
(* (MarkHolds), the counts ring.c works out from two pointers and two       *)
(* clocks agree with what the ring holds (SendableHolds), and the ring      *)
(* implements TelnetStream (ImplementsStreamHolds).                         *)
(*                                                                          *)
(* The first three rest on the inductive invariant Inv, that is TypeOK and  *)
(* MarkIsAhead. One lemma per routine of ring.c says what it does to the    *)
(* type of a ring and to the distance of its mark (Supply*, Consume*,       *)
(* EncryptOK, CleartoOK); one per action puts them together (PutOK,         *)
(* SynchOK, SwitchOK, FlushOK).                                             *)
(*                                                                          *)
(* The refinement adds Legible to the invariant: the modes the other side   *)
(* will go through as it reads what the ring holds are such that it can     *)
(* read every byte. One lemma per routine says what it does to the bytes    *)
(* and how often they have been encrypted (SupplyCells, EncryptCells,       *)
(* ConsumeCells), one what that means for the other side (DecodesMore,      *)
(* DecodesLess), and one per action maps it to a step of the stream         *)
(* (PutStream, SynchStream, SwitchStream, FlushStream).                     *)
EXTENDS TelnetRing, SequenceTheorems, WellFoundedInduction, TLAPS

(* The inductive invariant. *)
Inv == TypeOK /\ MarkIsAhead

(* How many bytes a ring holds. *)
HeldIn(r) == Size - RingEmptyCount(r)

(* The mark of a ring, if it has one, is on a byte the ring holds. *)
Ahead(r) == r.mark # NoPlace => Subtract(r.mark, r.consume) < HeldIn(r)

(* What cfb64_encrypt() makes of a byte is a byte of the wire. *)
LEMMA EncodeType ==
    ASSUME NEW u \in Units
    PROVE  Encode(u) \in Units
BY DEF Encode, Units

(* A writer's bytes become as many bytes of the wire. *)
LEMMA TextType ==
    ASSUME NEW bytes \in Seq(Bytes)
    PROVE  /\ Text(bytes) \in Seq(Units)
           /\ Len(Text(bytes)) = Len(bytes)
<1>1. \A i \in DOMAIN bytes : Unit(bytes[i]) \in Units
  BY DEF Unit, Units
<1> QED  BY <1>1 DEF Text

(* ring_supply_data() and NETADD (ring.c:292, defines.h:44) leave a ring, 
   even when they overrun it. *)
LEMMA SupplyType ==
    ASSUME NEW r \in Rings, NEW s \in Seq(Units), Len(s) <= 4
    PROVE  RingSupply(r, s) \in Rings
<1>1. Size \in Nat /\ Size > 4  BY SizeAssumption DEF SizeAssumption
<1>2. Increment(r.supply, Len(s)) \in Cells
  BY <1>1 DEF Rings, Cells, Increment
<1>3. \A i \in Cells : Subtract(i, r.supply) \in Nat
  BY <1>1 DEF Rings, Cells, Subtract
<1>4. \A i \in Cells : Subtract(i, r.supply) < Len(s) => s[Subtract(i, r.supply) + 1] \in Units
  <2> TAKE i \in Cells
  <2> HAVE Subtract(i, r.supply) < Len(s)
  <2>1. Subtract(i, r.supply) + 1 \in 1 .. Len(s)  BY <1>3
  <2> QED  BY <2>1
<1> DEFINE b == [i \in Cells |-> IF Subtract(i, r.supply) < Len(s)
                                 THEN s[Subtract(i, r.supply) + 1] ELSE r.buf[i]]
<1>5. b \in [Cells -> Units]
  BY <1>4 DEF Rings
<1> HIDE DEF b
<1>6. RingSupply(r, s) = [r EXCEPT !.buf = b, !.supply = Increment(r.supply, Len(s)), !.fresh = TRUE]
  BY DEF RingSupply, b
<1> QED  BY <1>2, <1>5, <1>6 DEF Rings

(* When there is room, what is written adds to what is held, and the mark
   stays where it is and ahead. *)
LEMMA SupplyAhead ==
    ASSUME NEW r \in Rings, NEW s \in Seq(Units), Len(s) > 0, Len(s) <= RingEmptyCount(r), Len(s) <= 4
    PROVE  /\ HeldIn(RingSupply(r, s)) = HeldIn(r) + Len(s)
           /\ Ahead(r) => Ahead(RingSupply(r, s))
<1>1. Size \in Nat /\ Size > 4  BY SizeAssumption DEF SizeAssumption
<1> DEFINE q == RingSupply(r, s)
<1>2. /\ q.supply = Increment(r.supply, Len(s))
      /\ q.fresh = TRUE /\ q.mark = r.mark /\ q.consume = r.consume
  BY DEF RingSupply, Rings
<1>3. r.supply \in Cells /\ r.consume \in Cells /\ r.fresh \in BOOLEAN /\ r.mark \in Cells \cup {NoPlace}
  BY DEF Rings
<1> HIDE DEF q
<1>4. HeldIn(q) = HeldIn(r) + Len(s)
  <2>1. Len(s) \in Nat
    OBVIOUS
  <2>2. RingEmptyCount(q) = Subtract(r.consume, Increment(r.supply, Len(s)))
    BY <1>2 DEF RingEmptyCount, RingEmpty
  <2>3. CASE RingEmpty(r)
    <3>1. RingEmptyCount(r) = Size /\ r.consume = r.supply
      BY <2>3 DEF RingEmptyCount, RingEmpty
    <3>2. Subtract(r.consume, Increment(r.supply, Len(s))) = Size - Len(s)
      BY <1>1, <1>3, <2>1, <3>1 DEF Subtract, Increment, Cells
    <3> QED  BY <1>1, <2>1, <2>2, <3>1, <3>2 DEF HeldIn
  <2>4. CASE ~RingEmpty(r)
    <3>1. RingEmptyCount(r) = Subtract(r.consume, r.supply)
      BY <2>4 DEF RingEmptyCount
    <3>2. Subtract(r.consume, Increment(r.supply, Len(s))) = Subtract(r.consume, r.supply) - Len(s)
      BY <1>1, <1>3, <2>1, <3>1 DEF Subtract, Increment, Cells
    <3> QED  BY <1>1, <1>3, <2>1, <2>2, <3>1, <3>2 DEF HeldIn, Subtract, Cells
  <2> QED  BY <2>3, <2>4
<1>5. Subtract(r.mark, r.consume) \in Int /\ HeldIn(r) \in Int
  BY <1>1, <1>3 DEF Subtract, HeldIn, RingEmptyCount, Cells, NoPlace
<1>6. Ahead(r) => Ahead(q)
  BY <1>2, <1>4, <1>5 DEF Ahead
<1> QED  BY <1>4, <1>6 DEF q

(* ring_consumed() (ring.c:180) leaves a ring: also where it resets both
   pointers of an empty one. *)
LEMMA ConsumeType ==
    ASSUME NEW r \in Rings, NEW n \in 1 .. Size, n <= Size - r.consume
    PROVE  RingConsumed(r, n) \in Rings
<1>1. Size \in Nat /\ Size > 4  BY SizeAssumption DEF SizeAssumption
<1>2. Free \in Units  BY DEF Free, Unit, Units
<1>3. Increment(r.consume, n) \in Cells
  BY <1>1 DEF Rings, Cells, Increment
<1> DEFINE sent == {i \in Cells : Subtract(i, r.consume) < n}
           passed == \/ r.consume < r.clearto /\ r.clearto <= r.consume + n
                     \/ r.consume + n > Size /\ 0 <= r.clearto
           b == [i \in Cells |-> IF i \in sent THEN Free ELSE r.buf[i]]
           mk == IF r.mark \in sent THEN NoPlace ELSE r.mark
           ct == IF passed THEN NoPlace ELSE r.clearto
           after == [r EXCEPT !.buf = b, !.mark = mk, !.clearto = ct,
                              !.consume = Increment(r.consume, n), !.fresh = FALSE]
<1>4. b \in [Cells -> Units] /\ mk \in Cells \cup {NoPlace} /\ ct \in Cells \cup {NoPlace}
  BY <1>2 DEF Rings
<1>5. RingConsumed(r, n) = IF RingEmpty(after) THEN [after EXCEPT !.consume = 0, !.supply = 0] ELSE after
  BY DEF RingConsumed
<1> HIDE DEF b, mk, ct
<1>6. after \in Rings
  BY <1>3, <1>4 DEF Rings
<1>7. 0 \in Cells  BY <1>1 DEF Cells
<1> HIDE DEF after
<1> QED  BY <1>5, <1>6, <1>7 DEF Rings

(* ring_consumed() of no more than is held clears the mark or leaves it
   ahead of the new consume pointer. *)
LEMMA ConsumeAhead ==
    ASSUME NEW r \in Rings, NEW n \in 1 .. Size, n <= Size - r.consume, n <= HeldIn(r), Ahead(r)
    PROVE  Ahead(RingConsumed(r, n))
<1>1. Size \in Nat /\ Size > 4  BY SizeAssumption DEF SizeAssumption
<1>2. r.supply \in Cells /\ r.consume \in Cells /\ r.fresh \in BOOLEAN /\ r.mark \in Cells \cup {NoPlace}
  BY DEF Rings
<1> DEFINE q == RingConsumed(r, n)
           c == Increment(r.consume, n)
           mk == IF r.mark \in {i \in Cells : Subtract(i, r.consume) < n} THEN NoPlace ELSE r.mark
<1>3. /\ q.mark = mk /\ q.fresh = FALSE
      /\ c = r.supply => q.consume = 0 /\ q.supply = 0
      /\ c # r.supply => q.consume = c /\ q.supply = r.supply
  BY DEF RingConsumed, RingEmpty, Rings
<1>4. c \in Cells
  BY <1>1, <1>2 DEF Increment, Cells
<1>5. ASSUME mk # NoPlace
      PROVE  /\ mk \in Cells /\ mk = r.mark
             /\ Subtract(mk, r.consume) >= n
             /\ Subtract(mk, r.consume) < HeldIn(r)
  <2>1. mk = r.mark /\ r.mark \in Cells /\ ~ (Subtract(r.mark, r.consume) < n)
    BY <1>5, <1>2
  <2>2. Subtract(r.mark, r.consume) \in Int
    BY <1>1, <1>2, <2>1 DEF Subtract, Cells
  <2> QED  BY <2>1, <2>2 DEF Ahead, NoPlace, Cells
<1> HIDE DEF q, mk
<1>6. CASE mk = NoPlace
  BY <1>3, <1>6 DEF Ahead, q
<1>7. CASE mk # NoPlace
  <2>1. c # r.supply
    BY <1>1, <1>2, <1>4, <1>5, <1>7 DEF Increment, Subtract, Cells, HeldIn, RingEmptyCount, RingEmpty
  <2>2. Subtract(mk, c) < Size - Subtract(c, r.supply)
    BY <1>1, <1>2, <1>4, <1>5, <1>7, <2>1 DEF Increment, Subtract, Cells, HeldIn, RingEmptyCount, RingEmpty
  <2>3. HeldIn(q) = Size - Subtract(c, r.supply)
    BY <1>3, <2>1 DEF HeldIn, RingEmptyCount, RingEmpty
  <2>4. Ahead(q)
    BY <1>3, <2>1, <2>2, <2>3 DEF Ahead
  <2> QED  BY <2>4 DEF q
<1> QED  BY <1>6, <1>7

(* ring_encrypt() (ring.c:336) changes bytes and clearto, never a pointer or
   the mark. *)
LEMMA EncryptOK ==
    ASSUME NEW r \in Rings
    PROVE  /\ RingEncrypt(r) \in Rings
           /\ Ahead(r) => Ahead(RingEncrypt(r))
           /\ HeldIn(RingEncrypt(r)) = HeldIn(r)
<1>1. CASE RingEmpty(r) \/ r.clearto = r.supply
  BY <1>1 DEF RingEncrypt
<1>2. CASE ~(RingEmpty(r) \/ r.clearto = r.supply)
  <2> DEFINE c == IF r.clearto = NoPlace THEN r.consume ELSE r.clearto
             t == r.supply
             cells == IF t <= c THEN (c .. Size - 1) \cup (0 .. t - 1) ELSE c .. t - 1
             b == [i \in Cells |-> IF i \in cells THEN Encode(r.buf[i]) ELSE r.buf[i]]
             q == [r EXCEPT !.buf = b, !.clearto = t]
  <2>1. RingEncrypt(r) = q
    BY <1>2 DEF RingEncrypt
  <2>2. b \in [Cells -> Units]
    BY EncodeType DEF Rings
  <2> HIDE DEF b
  <2>3. q \in Rings /\ q.consume = r.consume /\ q.supply = r.supply /\ q.fresh = r.fresh /\ q.mark = r.mark
    BY <2>2 DEF Rings
  <2> HIDE DEF q
  <2> QED  BY <2>1, <2>3 DEF Ahead, HeldIn, RingEmptyCount, RingEmpty
<1> QED  BY <1>1, <1>2

(* ring_clearto() (ring.c:360) changes clearto only. *)
LEMMA CleartoOK ==
    ASSUME NEW r \in Rings
    PROVE  /\ RingClearto(r) \in Rings
           /\ Ahead(r) => Ahead(RingClearto(r))
<1> DEFINE q == RingClearto(r)
<1>1. q \in Rings /\ q.consume = r.consume /\ q.supply = r.supply /\ q.fresh = r.fresh /\ q.mark = r.mark
  BY DEF RingClearto, Rings
<1> HIDE DEF q
<1>2. q \in Rings /\ (Ahead(r) => Ahead(q))
  BY <1>1 DEF Ahead, HeldIn, RingEmptyCount, RingEmpty
<1> QED  BY <1>2 DEF q

(* The room in a ring and what it holds are both between 0 and Size. *)
LEMMA RoomType ==
    ASSUME NEW r \in Rings
    PROVE  RingEmptyCount(r) \in 0 .. Size /\ HeldIn(r) \in 0 .. Size
<1>1. Size \in Nat /\ Size > 4  BY SizeAssumption DEF SizeAssumption
<1> QED  BY <1>1 DEF Rings, HeldIn, RingEmptyCount, Subtract, Cells

(* Writing up to four bytes without a look at the room (NETADD) keeps the
   invariant: an overrun is recorded, and without one the mark is ahead. *)
LEMMA PutOK ==
    ASSUME TypeOK, MarkIsAhead, NEW bytes \in Seq(Bytes), Len(bytes) \in 1 .. 4, Put(bytes)
    PROVE  TypeOK' /\ MarkIsAhead'
<1> DEFINE s == Text(bytes)
<1>1. s \in Seq(Units) /\ Len(s) <= 4 /\ Len(s) > 0 /\ Len(s) \in Int
  <2>1. s \in Seq(Units) /\ Len(s) = Len(bytes)
    BY TextType
  <2> HIDE DEF s
  <2>2. Len(s) \in 1 .. 4
    BY <2>1
  <2>3. \A n \in 1 .. 4 : n <= 4 /\ n > 0 /\ n \in Int
    OBVIOUS
  <2> QED  BY <2>1, <2>2, <2>3, Zenon
<1>2. ring \in Rings /\ ring' = RingSupply(ring, s) /\ overrun' = (overrun \/ Overtakes(s))
  BY DEF TypeOK, Put
<1> HIDE DEF s
<1>3. ring' \in Rings
  BY <1>1, <1>2, SupplyType
<1>4. overrun \in BOOLEAN /\ overrun' \in BOOLEAN
  BY <1>2 DEF TypeOK, Overtakes
<1>5. ASSUME ~overrun' PROVE Ahead(ring')
  <2>1. ~overrun /\ ~Overtakes(s)
    BY <1>2, <1>4, <1>5
  <2>2. Len(s) <= RingEmptyCount(ring)
    BY <1>1, <1>2, <2>1, RoomType DEF Overtakes
  <2>3. Ahead(ring)
    BY <2>1 DEF MarkIsAhead, Ahead, Held, HeldIn
  <2> QED  BY <1>1, <1>2, <2>2, <2>3, SupplyAhead
<1>6. TypeOK'
  BY <1>3, <1>4 DEF TypeOK, Put
<1>7. MarkIsAhead'
  BY <1>5 DEF MarkIsAhead, Ahead, Held, HeldIn
<1> QED  BY <1>6, <1>7

(* dosynch() (telnet.c:2597): IAC, the mark on it by setneturg(), then DM. *)
LEMMA SynchOK ==
    ASSUME TypeOK, MarkIsAhead, Dosynch
    PROVE  TypeOK' /\ MarkIsAhead'
<1>1. Size \in Nat /\ Size > 4  BY SizeAssumption DEF SizeAssumption
<1> DEFINE s1 == Text(<<"iac">>)
           s2 == Text(<<"dm">>)
           s == Text(<<"iac", "dm">>)
           r1 == RingSupply(ring, s1)
           r2 == RingMark(r1)
<1>2. /\ s1 \in Seq(Units) /\ Len(s1) <= 4 /\ Len(s1) > 0 /\ Len(s1) = 1
      /\ s2 \in Seq(Units) /\ Len(s2) <= 4 /\ Len(s2) > 0 /\ Len(s2) = 1
      /\ s \in Seq(Units) /\ Len(s) = 2
  <2>1. <<"iac">> \in Seq(Bytes) /\ <<"dm">> \in Seq(Bytes) /\ <<"iac", "dm">> \in Seq(Bytes)
    BY DEF Bytes
  <2>2. Len(<<"iac">>) = 1 /\ Len(<<"dm">>) = 1 /\ Len(<<"iac", "dm">>) = 2
    OBVIOUS
  <2>3. /\ s1 \in Seq(Units) /\ Len(s1) = 1
        /\ s2 \in Seq(Units) /\ Len(s2) = 1
        /\ s \in Seq(Units) /\ Len(s) = 2
    BY <2>1, <2>2, TextType
  <2> HIDE DEF s1, s2, s, r1, r2
  <2> QED  BY <2>3
<1>3. ring \in Rings /\ ring' = RingSupply(r2, s2) /\ overrun' = (overrun \/ Overtakes(s))
  BY DEF TypeOK, Dosynch, Synch
<1> HIDE DEF s1, s2, s
<1>4. r1 \in Rings
  BY <1>2, <1>3, SupplyType
<1>5. r1.supply = Increment(ring.supply, 1) /\ r1.consume = ring.consume /\ r1.fresh = TRUE
  BY <1>2, <1>3 DEF RingSupply, Rings
<1> HIDE DEF r1
<1>6. Decrement(r1.supply, 1) \in Cells
  BY <1>1, <1>4 DEF Rings, Cells, Decrement
<1>7. /\ r2 \in Rings /\ r2.mark = Decrement(r1.supply, 1) /\ r2.supply = r1.supply
      /\ r2.consume = r1.consume /\ r2.fresh = r1.fresh
  BY <1>4, <1>6 DEF RingMark, Rings
<1> HIDE DEF r2
<1>8. ring' \in Rings
  BY <1>2, <1>3, <1>7, SupplyType
<1>9. overrun \in BOOLEAN /\ overrun' \in BOOLEAN
  BY <1>3 DEF TypeOK, Overtakes
<1>10. ASSUME ~overrun' PROVE Ahead(ring')
  <2>1. 2 <= RingEmptyCount(ring)
    <3>1. ~Overtakes(s)
      BY <1>3, <1>9, <1>10
    <3>2. RingEmptyCount(ring) \in Int
      BY <1>1, <1>3, RoomType
    <3> QED  BY <1>2, <3>1, <3>2 DEF Overtakes
  <2>2. ring.supply \in Cells /\ ring.consume \in Cells /\ ring.fresh \in BOOLEAN
    BY <1>3 DEF Rings
  <2>3. r2.mark = ring.supply
    BY <1>1, <1>5, <1>7, <2>2 DEF Increment, Decrement, Cells
  <2>4. RingEmptyCount(r2) >= 1
    BY <1>1, <1>5, <1>7, <2>1, <2>2 DEF RingEmptyCount, RingEmpty, Increment, Subtract, Cells
  <2>5. Ahead(r2)
    BY <1>1, <1>5, <1>7, <2>1, <2>2, <2>3
    DEF Ahead, HeldIn, RingEmptyCount, RingEmpty, Increment, Subtract, Cells
  <2>6. Len(s2) <= RingEmptyCount(r2)
    BY <1>2, <2>4
  <2> QED  BY <1>2, <1>3, <1>7, <2>5, <2>6, SupplyAhead
<1>11. TypeOK'
  BY <1>8, <1>9 DEF TypeOK, Dosynch
<1>12. MarkIsAhead'
  BY <1>10 DEF MarkIsAhead, Ahead, Held, HeldIn
<1> QED  BY <1>11, <1>12

(* A request that switches the encryption: net_write() of it, if it fits,
   then net_encrypt() or ring_clearto(). *)
LEMMA SwitchOK ==
    ASSUME TypeOK, MarkIsAhead, NEW byte \in Bytes, NEW mode \in BOOLEAN, Switch(byte, mode)
    PROVE  TypeOK' /\ MarkIsAhead'
<1> DEFINE s == Text(<<byte>>)
           r == NetWrite(ring, byte)
<1>1. s \in Seq(Units) /\ Len(s) <= 4 /\ Len(s) > 0 /\ Len(s) = 1
  <2>1. <<byte>> \in Seq(Bytes) /\ Len(<<byte>>) = 1
    OBVIOUS
  <2>2. s \in Seq(Units) /\ Len(s) = 1
    BY <2>1, TextType
  <2> HIDE DEF s, r
  <2> QED  BY <2>2
<1>2. ring \in Rings /\ ring' = NetEncrypt(r) /\ overrun' = (overrun \/ RingEmptyCount(ring) <= 1)
  BY DEF TypeOK, Switch
<1>3. r = IF RingEmptyCount(ring) > 1 THEN RingSupply(ring, s) ELSE ring
  BY DEF NetWrite
<1> HIDE DEF s, r
<1>4. r \in Rings /\ (Ahead(ring) => Ahead(r))
  <2>1. CASE ~(RingEmptyCount(ring) > 1)
    BY <1>2, <1>3, <2>1
  <2>2. CASE RingEmptyCount(ring) > 1
    <3>1. r = RingSupply(ring, s)
      BY <1>3, <2>2
    <3>2. RingEmptyCount(ring) \in Int
      BY <1>2, RoomType
    <3>3. Len(s) <= RingEmptyCount(ring)
      BY <1>1, <2>2, <3>2
    <3>4. r \in Rings
      BY <1>1, <1>2, <3>1, SupplyType
    <3>5. Ahead(ring) => Ahead(r)
      BY <1>1, <1>2, <3>1, <3>3, SupplyAhead
    <3> QED  BY <3>4, <3>5
  <2> QED  BY <2>1, <2>2
<1>5. ring' \in Rings /\ (Ahead(ring) => Ahead(ring'))
  BY <1>2, <1>4, EncryptOK, CleartoOK DEF NetEncrypt
<1>6. overrun \in BOOLEAN /\ overrun' \in BOOLEAN
  BY <1>2 DEF TypeOK
<1>7. TypeOK'
  BY <1>5, <1>6 DEF TypeOK, Switch
<1>8. MarkIsAhead'
  BY <1>2, <1>5, <1>6 DEF MarkIsAhead, Ahead, Held, HeldIn
<1> QED  BY <1>7, <1>8

(* ring_full_consecutive() offers the socket no more than is held and
   nothing behind the end of the buffer. *)
LEMMA FullConsecutive ==
    ASSUME NEW r \in Rings
    PROVE  /\ RingFullConsecutive(r) \in Int
           /\ RingFullConsecutive(r) <= Size - r.consume
           /\ Ahead(r) => RingFullConsecutive(r) <= HeldIn(r)
<1>1. Size \in Nat /\ Size > 4  BY SizeAssumption DEF SizeAssumption
<1>2. r.supply \in Cells /\ r.consume \in Cells /\ r.fresh \in BOOLEAN /\ r.mark \in Cells \cup {NoPlace}
  BY DEF Rings
<1>3. CASE r.mark = NoPlace \/ RingAtMark(r)
  BY <1>1, <1>2, <1>3
  DEF RingFullConsecutive, RingAtMark, RingFull, RingEmpty, HeldIn, RingEmptyCount, Subtract, Cells, NoPlace
<1>4. CASE ~(r.mark = NoPlace \/ RingAtMark(r))
  BY <1>1, <1>2, <1>4
  DEF RingFullConsecutive, RingAtMark, RingFull, RingEmpty, HeldIn, RingEmptyCount, Subtract, Cells, Ahead, NoPlace
<1> QED  BY <1>3, <1>4

(* netflush() (network.c:130): encrypt, offer, and consume what was taken. *)
LEMMA FlushOK ==
    ASSUME TypeOK, MarkIsAhead, Netflush
    PROVE  TypeOK' /\ MarkIsAhead'
<1>1. Size \in Nat /\ Size > 4  BY SizeAssumption DEF SizeAssumption
<1> DEFINE r == IF on THEN RingEncrypt(ring) ELSE ring
           n == RingFullConsecutive(r)
<1>2. ring \in Rings
  BY DEF TypeOK
<1>3. r \in Rings /\ (Ahead(ring) => Ahead(r))
  BY <1>2, EncryptOK
<1>4. \/ \E k \in 1 .. n, oob \in BOOLEAN : Sent(r, k, oob)
      \/ ring' = r /\ UNCHANGED decrypts
  <2> HIDE DEF r
  <2>1. n \in Int  BY <1>3, FullConsecutive
  <2>2. \/ n > 0 /\ IF RingAtMark(r) THEN Sent(r, 1, TRUE) ELSE \E k \in 1..n : Sent(r, k, FALSE)
        \/ ring' = r /\ UNCHANGED decrypts
    BY DEF Netflush, r
  <2> HIDE DEF n
  <2>3. ASSUME n > 0, Sent(r, 1, TRUE) PROVE \E k \in 1 .. n, oob \in BOOLEAN : Sent(r, k, oob)
    <3>1. 1 \in 1 .. n
      BY <2>1, <2>3
    <3> QED  BY <2>3, <3>1, Zenon
  <2>4. ASSUME NEW k \in 1 .. n, Sent(r, k, FALSE) PROVE \E j \in 1 .. n, oob \in BOOLEAN : Sent(r, j, oob)
    BY <2>4
  <2> QED  BY <2>2, <2>3, <2>4
<1>5. UNCHANGED <<on, overrun>>
  BY DEF Netflush
<1> HIDE DEF r
<1>6. CASE ring' = r /\ UNCHANGED decrypts
  BY <1>3, <1>5, <1>6 DEF TypeOK, MarkIsAhead, Ahead, Held, HeldIn
<1>7. CASE \E k \in 1 .. n, oob \in BOOLEAN : Sent(r, k, oob)
  <2>1. PICK k \in 1 .. n, oob \in BOOLEAN : Sent(r, k, oob)
    BY <1>7
  <2>2. /\ n \in Int /\ n <= Size - r.consume
        /\ Ahead(r) => n <= HeldIn(r)
        /\ r.consume \in Cells
    BY <1>3, FullConsecutive DEF Rings
  <2> HIDE DEF n
  <2>3. k \in 1 .. Size /\ k <= Size - r.consume /\ (Ahead(r) => k <= HeldIn(r))
    BY <1>1, <1>3, <2>2, RoomType DEF Cells
  <2>4. ring' = RingConsumed(r, k) /\ decrypts' \in BOOLEAN
    <3> DEFINE bytes == [i \in 1..k |-> r.buf[r.consume + i - 1]]
    <3>1. Len(bytes) = k
      BY <2>3
    <3> HIDE DEF bytes
    <3>2. PICK m \in Modes(decrypts, bytes) : ring' = RingConsumed(r, k) /\ decrypts' = m[k]
      BY <2>1 DEF Sent, bytes
    <3>3. m \in [0 .. k -> BOOLEAN] /\ k \in 0 .. k
      BY <3>1, <2>3 DEF Modes
    <3> QED  BY <3>2, <3>3
  <2>5. ring' \in Rings
    BY <1>3, <2>3, <2>4, ConsumeType
  <2>6. Ahead(r) => Ahead(ring')
    BY <1>3, <2>3, <2>4, ConsumeAhead
  <2>7. TypeOK'
    BY <1>5, <2>4, <2>5 DEF TypeOK
  <2>8. MarkIsAhead'
    BY <1>3, <1>5, <2>6 DEF MarkIsAhead, Ahead, Held, HeldIn
  <2> QED  BY <2>7, <2>8
<1> QED  BY <1>4, <1>6, <1>7

(* The ring of init_network() satisfies the invariant. *)
LEMMA InitOK == Init => Inv
<1>1. Size \in Nat /\ Size > 4  BY SizeAssumption DEF SizeAssumption
<1>2. Free \in Units  BY DEF Free, Unit, Units
<1>3. RingInit \in Rings /\ RingInit.mark = NoPlace
  BY <1>1, <1>2 DEF RingInit, Rings, Cells
<1> QED  BY <1>3 DEF Init, Inv, TypeOK, MarkIsAhead

(* Every step keeps the invariant: one case per action. *)
LEMMA StepOK == Inv /\ [Next]_vars => Inv'
<1> SUFFICES ASSUME Inv, [Next]_vars
             PROVE  Inv'
  OBVIOUS
<1> USE DEF Inv
<1>1. CASE Telsnd
  <2>1. PICK bytes \in {<<"char">>, <<"iac", "iac">>} : Put(bytes)
    BY <1>1 DEF Telsnd
  <2>2. bytes \in Seq(Bytes) /\ Len(bytes) \in 1 .. 4
    <3>1. CASE bytes = <<"char">>
      BY <3>1 DEF Bytes
    <3>2. CASE bytes = <<"iac", "iac">>
      BY <3>2 DEF Bytes
    <3> QED  BY <3>1, <3>2
  <2> QED  BY <2>1, <2>2, PutOK
<1>2. CASE SendOption
  <2>1. <<"iac", "cmd", "opt">> \in Seq(Bytes) /\ Len(<<"iac", "cmd", "opt">>) \in 1 .. 4
    BY DEF Bytes
  <2> QED  BY <1>2, <2>1, PutOK DEF SendOption
<1>3. CASE GetStatus
  <2>1. <<"iac", "cmd", "opt", "iac">> \in Seq(Bytes) /\ Len(<<"iac", "cmd", "opt", "iac">>) \in 1 .. 4
    BY DEF Bytes
  <2> QED  BY <1>3, <2>1, PutOK DEF GetStatus
<1>4. CASE Dosynch
  BY <1>4, SynchOK
<1>5. CASE EncryptStartOutput
  <2>1. "start" \in Bytes
    BY DEF Bytes
  <2> QED  BY <1>5, <2>1, SwitchOK DEF EncryptStartOutput
<1>6. CASE EncryptSendEnd
  <2>1. "end" \in Bytes
    BY DEF Bytes
  <2> QED  BY <1>6, <2>1, SwitchOK DEF EncryptSendEnd
<1>7. CASE Netflush
  BY <1>7, FlushOK
<1>8. CASE UNCHANGED vars
  BY <1>8 DEF vars, TypeOK, MarkIsAhead, Held
<1> QED  BY <1>1, <1>2, <1>3, <1>4, <1>5, <1>6, <1>7, <1>8 DEF Next

(* Type correctness: both pointers, the mark and clearto stay inside the
   buffer, whatever the writers of the client do and the socket takes. *)
THEOREM TypeCorrect == Spec => []TypeOK
BY InitOK, StepOK, PTL DEF Spec, Inv

(* As long as nothing has been overrun, the urgent mark of setneturg() is on
   a byte that has not been sent, so that the next netflush() that reaches
   it sends that byte out of band (network.c:138-150). *)
THEOREM MarkHolds == Spec => []MarkIsAhead
BY InitOK, StepOK, PTL DEF Spec, Inv

(* The counts agree in every state of the invariant. *)
LEMMA InvSendable ==
    ASSUME Inv
    PROVE  Sendable
<1>1. Size \in Nat /\ Size > 4  BY SizeAssumption DEF SizeAssumption
<1>2. /\ ring.supply \in Cells /\ ring.consume \in Cells /\ ring.fresh \in BOOLEAN
      /\ ring.mark \in Cells \cup {NoPlace}
  BY DEF Inv, TypeOK, Rings
<1> SUFFICES ASSUME ~overrun
             PROVE  /\ Held > 0 <=> RingFullCount(ring) > 0
                    /\ Held > 0 <=> RingFullConsecutive(ring) > 0
                    /\ RingFullConsecutive(ring) <= RingFullCount(ring)
  BY DEF Sendable
<1>3. ring.mark # NoPlace => Subtract(ring.mark, ring.consume) < Held
  BY DEF Inv, MarkIsAhead
<1>4. CASE ring.mark = NoPlace \/ RingAtMark(ring)
  BY <1>1, <1>2, <1>3, <1>4
  DEF RingFullCount, RingFullConsecutive, RingAtMark, RingFull, RingEmpty, Held, RingEmptyCount,
      Subtract, Cells, NoPlace
<1>5. CASE ~(ring.mark = NoPlace \/ RingAtMark(ring))
  BY <1>1, <1>2, <1>3, <1>5
  DEF RingFullCount, RingFullConsecutive, RingAtMark, RingFull, RingEmpty, Held, RingEmptyCount,
      Subtract, Cells, NoPlace
<1> QED  BY <1>4, <1>5

(* As long as nothing has been overrun, ring_full_count() and
   ring_full_consecutive() are zero exactly when the ring holds nothing: the
   client neither waits for an empty ring nor forgets a full one. *)
THEOREM SendableHolds == Spec => []Sendable
BY InitOK, StepOK, InvSendable, PTL DEF Spec

-----------------------------------------------------------------------------
(* What is in the ring, and that the other side can read it. *)

(* The i-th of the bytes a ring holds. *)
At(r, i) == r.buf[Increment(r.consume, i - 1)]

(* The ring as netflush() offers it to the socket. *)
Ready(r, o) == IF o THEN RingEncrypt(r) ELSE r

(* clearto is on a byte the ring holds, or just behind the last. *)
Placed(r) == r.clearto # NoPlace => Subtract(r.clearto, r.consume) <= HeldIn(r)

(* How many of the bytes it holds ring_encrypt() leaves alone. *)
Done(r) == IF r.clearto = r.supply THEN HeldIn(r)
           ELSE IF r.clearto = NoPlace THEN 0
           ELSE Subtract(r.clearto, r.consume)

(* The other side, decrypting or not as d says, can read every byte of the
   ring in turn and is then in the mode o. *)
Decodes(r, d, o) ==
    \E m \in [0 .. HeldIn(r) -> BOOLEAN] :
        /\ m[0] = d /\ m[HeldIn(r)] = o
        /\ \A i \in 1 .. HeldIn(r) : Readable(m[i - 1], At(r, i)) /\ m[i] = After(m[i - 1], At(r, i))

(* What the refinement rests on: until a writer overtakes the reader, the
   other side will be able to read what the ring holds. *)
Legible == ~overrun => (on => Placed(ring)) /\ Decodes(Ready(ring, on), decrypts, on)

(* Distances on the way round the buffer, as ring_subtract() has them. *)
LEMMA Round ==
    ASSUME NEW c \in Cells, NEW s \in Cells, NEW i \in Int, i >= 1, i <= Size
    PROVE  /\ Increment(c, i - 1) \in Cells
           /\ Subtract(Increment(c, i - 1), c) = i - 1
           /\ Subtract(c, s) \in 0 .. Size - 1
           /\ c = s <=> Subtract(c, s) = 0
           /\ c # s => Subtract(s, c) = Size - Subtract(c, s)
<1>1. Size \in Nat /\ Size > 4  BY SizeAssumption DEF SizeAssumption
<1> QED  BY <1>1 DEF Increment, Subtract, Cells

(* How far a place ahead of c is ahead of another one. *)
LEMMA RoundPast ==
    ASSUME NEW c \in Cells, NEW s \in Cells, NEW i \in Int, i >= 1
    PROVE  /\ i <= Size - Subtract(c, s) => Subtract(Increment(c, i - 1), s) = Subtract(c, s) + i - 1
           /\ i > Size - Subtract(c, s) /\ i <= Size => Subtract(Increment(c, i - 1), s) = Subtract(c, s) + i - 1 - Size
<1>1. Size \in Nat /\ Size > 4  BY SizeAssumption DEF SizeAssumption
<1> QED  BY <1>1 DEF Increment, Subtract, Cells

(* The cells from p up to s, across the wrap or not, seen from c. *)
LEMMA RoundCells ==
    ASSUME NEW c \in Cells, NEW p \in Cells, NEW s \in Cells, NEW j \in Cells,
           p # s \/ c = p, c = s \/ Subtract(p, c) <= Subtract(s, c)
    PROVE  j \in (IF s <= p THEN (p .. Size - 1) \cup (0 .. s - 1) ELSE p .. s - 1)
           <=> /\ Subtract(j, c) >= Subtract(p, c)
               /\ c # s => Subtract(j, c) < Subtract(s, c)
<1>1. Size \in Nat /\ Size > 4  BY SizeAssumption DEF SizeAssumption
<1> QED  BY <1>1 DEF Subtract, Cells
(* A writer who leaves room comes round to no place behind the reader. *)
LEMMA RoundSupply ==
    ASSUME NEW c \in Cells, NEW s \in Cells, NEW p \in Cells, NEW h \in 0 .. Size, NEW l \in 1 .. 4,
           l <= Size - h, h = 0 => c = s, h > 0 => h = Size - Subtract(c, s),
           Subtract(p, c) <= h, ~(l = Size - h /\ p = Increment(s, l))
    PROVE  p # Increment(s, l) /\ (p = s => Subtract(p, c) = h)
<1>1. Size \in Nat /\ Size > 4  BY SizeAssumption DEF SizeAssumption
<1>2. CASE h = 0
  BY <1>1, <1>2 DEF Increment, Subtract, Cells
<1>3. CASE h > 0
  BY <1>1, <1>3 DEF Increment, Subtract, Cells
<1> QED  BY <1>1, <1>2, <1>3

(* The place of the i-th cell behind what is held. *)
LEMMA Behind ==
    ASSUME NEW c \in Cells, NEW s \in Cells, NEW h \in 0 .. Size, NEW i \in Nat, i >= 1, i <= Size - h,
           (h = 0 /\ c = s) \/ h = Size - Subtract(c, s)
    PROVE  /\ Increment(c, (h + i) - 1) \in Cells
           /\ Subtract(Increment(c, (h + i) - 1), s) = i - 1
<1>1. Size \in Nat /\ Size > 4  BY SizeAssumption DEF SizeAssumption
<1> QED  BY <1>1 DEF Increment, Subtract, Cells

(* What fits is no longer than the room there is. *)
LEMMA Fits ==
    ASSUME NEW l \in Nat, NEW h \in 0 .. Size, NEW e, e = Size - h, l > 0, l <= e, l <= 4
    PROVE  l \in 1 .. 4 /\ l <= Size - h
<1>1. Size \in Nat /\ Size > 4  BY SizeAssumption DEF SizeAssumption
<1> QED  BY <1>1

(* ring_supply_data() keeps what the ring holds and puts the new bytes
   behind it, across the wrap too. *)
LEMMA SupplyCells ==
    ASSUME NEW r \in Rings, NEW s \in Seq(Units), Len(s) > 0, Len(s) <= RingEmptyCount(r), Len(s) <= 4
    PROVE  /\ \A i \in 1 .. HeldIn(r) : At(RingSupply(r, s), i) = At(r, i)
           /\ \A i \in 1 .. Len(s) : At(RingSupply(r, s), HeldIn(r) + i) = s[i]
<1>1. Size \in Nat /\ Size > 4  BY SizeAssumption DEF SizeAssumption
<1> DEFINE q == RingSupply(r, s)
<1>2. /\ q.consume = r.consume
      /\ q.buf = [i \in Cells |-> IF Subtract(i, r.supply) < Len(s)
                                  THEN s[Subtract(i, r.supply) + 1] ELSE r.buf[i]]
  BY DEF RingSupply, Rings
<1>3. r.supply \in Cells /\ r.consume \in Cells /\ r.fresh \in BOOLEAN
  BY DEF Rings
<1>4. Len(s) \in Nat
  OBVIOUS
<1> HIDE DEF q
<1>5. ASSUME NEW i \in 1 .. HeldIn(r)
      PROVE  At(q, i) = At(r, i)
  <2> DEFINE j == Increment(r.consume, i - 1)
  <2>1. j \in Cells /\ ~(Subtract(j, r.supply) < Len(s))
    <3>1. CASE RingEmpty(r)
      BY <1>1, <3>1 DEF HeldIn, RingEmptyCount
    <3>2. CASE ~RingEmpty(r)
      <4>1. RingEmptyCount(r) = Subtract(r.consume, r.supply) /\ i \in Int /\ i >= 1
            /\ i <= Size - Subtract(r.consume, r.supply)
        BY <1>1, <1>3, <3>2 DEF HeldIn, RingEmptyCount, Subtract, Cells
      <4>2. Subtract(j, r.supply) = Subtract(r.consume, r.supply) + i - 1
        BY <1>3, <4>1, RoundPast
      <4>3. Subtract(r.consume, r.supply) \in 0 .. Size - 1 /\ j \in Cells
        <5>1. 1 <= i /\ i <= Size
          BY <1>1, <1>3, <4>1 DEF Subtract, Cells
        <5> QED  BY <1>3, <4>1, <5>1, Round
      <4> HIDE DEF j
      <4> QED  BY <1>1, <1>4, <4>1, <4>2, <4>3
    <3> QED  BY <3>1, <3>2
  <2> QED  BY <1>2, <2>1 DEF At
<1>6. ASSUME NEW i \in 1 .. Len(s)
      PROVE  At(q, HeldIn(r) + i) = s[i]
  <2> DEFINE h == HeldIn(r)
             e == Subtract(r.consume, r.supply)
             j == Increment(r.consume, (h + i) - 1)
  <2>1. h \in 0 .. Size /\ RingEmptyCount(r) = Size - h
    BY <1>1, RoomType DEF HeldIn
  <2>2. i \in Nat /\ i >= 1 /\ i <= Len(s) /\ i <= Size - h
    BY <1>1, <1>4, <2>1
  <2>3. /\ RingEmpty(r) => h = 0 /\ r.consume = r.supply
        /\ ~RingEmpty(r) => h = Size - e
    BY <1>1 DEF HeldIn, RingEmptyCount, RingEmpty
  <2>4. j \in Cells /\ Subtract(j, r.supply) = i - 1
    BY <1>1, <1>3, <2>1, <2>2, <2>3, Behind
  <2>5. i - 1 < Len(s) /\ (i - 1) + 1 = i
    BY <1>4
  <2> HIDE DEF j
  <2>6. q.buf[j] = s[i]
    BY <1>2, <2>4, <2>5
  <2> QED  BY <1>2, <2>6 DEF At, j
<1> QED  BY <1>5, <1>6 DEF q

(* Writing leaves clearto where it is, and what it says stays true, unless
   the writer has come round to it exactly. *)
LEMMA SupplyDone ==
    ASSUME NEW r \in Rings, NEW s \in Seq(Units), Len(s) > 0, Len(s) <= RingEmptyCount(r), Len(s) <= 4,
           Placed(r),
           ~(Len(s) = RingEmptyCount(r) /\ RingSupply(r, s).clearto = RingSupply(r, s).supply)
    PROVE  Placed(RingSupply(r, s)) /\ Done(RingSupply(r, s)) = Done(r)
<1>1. Size \in Nat /\ Size > 4  BY SizeAssumption DEF SizeAssumption
<1> DEFINE q == RingSupply(r, s)
<1>2. /\ q.consume = r.consume /\ q.clearto = r.clearto
      /\ q.supply = Increment(r.supply, Len(s))
  BY DEF RingSupply, Rings
<1>3. /\ r.supply \in Cells /\ r.consume \in Cells /\ r.fresh \in BOOLEAN
      /\ r.clearto \in Cells \cup {NoPlace}
  BY DEF Rings
<1>4. Len(s) \in Nat
  OBVIOUS
<1>5. HeldIn(q) = HeldIn(r) + Len(s)
  BY SupplyAhead
<1>6. ~(Len(s) = RingEmptyCount(r) /\ q.clearto = q.supply)
  OBVIOUS
<1> HIDE DEF q
<1>7. HeldIn(r) \in 0 .. Size /\ RingEmptyCount(r) = Size - HeldIn(r)
  BY <1>1, RoomType DEF HeldIn
<1>8. /\ RingEmpty(r) => HeldIn(r) = 0 /\ r.consume = r.supply
      /\ ~RingEmpty(r) => HeldIn(r) = Size - Subtract(r.consume, r.supply)
  BY <1>1 DEF HeldIn, RingEmptyCount, RingEmpty
<1> DEFINE l == Len(s)
           h == HeldIn(r)
           p == r.clearto
<1>9. l \in 1 .. 4 /\ l <= Size - h /\ HeldIn(q) = h + l
  <2>1. l \in Nat /\ l > 0 /\ l <= 4 /\ l <= RingEmptyCount(r)
    BY <1>4
  <2>2. l \in 1 .. 4 /\ l <= Size - h
    BY <1>7, <2>1, Fits, Zenon
  <2> QED  BY <1>5, <2>2, Zenon
<1>10. ASSUME p # NoPlace
       PROVE  /\ p \in Cells /\ Subtract(p, r.consume) \in 0 .. Size - 1
              /\ Subtract(p, r.consume) <= h
              /\ p # q.supply /\ (p = r.supply => Subtract(p, r.consume) = h)
  <2>1. p \in Cells /\ Subtract(p, r.consume) <= h
    BY <1>3, <1>10 DEF Placed
  <2>2. Subtract(p, r.consume) \in 0 .. Size - 1
    <3>1. 1 \in Int /\ 1 >= 1 /\ 1 <= Size
      BY <1>1
    <3> QED  BY <1>3, <2>1, <3>1, Round
  <2>3. h = 0 => r.consume = r.supply
    <3>1. CASE RingEmpty(r)
      BY <1>8, <3>1
    <3>2. CASE ~RingEmpty(r)
      <4>1. h = Size - Subtract(r.consume, r.supply)
        BY <1>8, <3>2
      <4> QED  BY <1>1, <1>3, <4>1 DEF Subtract, Cells
    <3> QED  BY <3>1, <3>2
  <2>4. h > 0 => h = Size - Subtract(r.consume, r.supply)
    BY <1>1, <1>7, <1>8
  <2>5. ~(l = Size - h /\ p = Increment(r.supply, l))
    BY <1>1, <1>2, <1>6, <1>7
  <2> HIDE DEF l, h, p
  <2>6. p # Increment(r.supply, l) /\ (p = r.supply => Subtract(p, r.consume) = h)
    BY <1>3, <1>7, <1>9, <2>1, <2>3, <2>4, <2>5, RoundSupply DEF h
  <2> QED  BY <1>2, <2>1, <2>2, <2>6 DEF l
<1>11. Placed(q)
  <2> HIDE DEF l, h, p
  <2> SUFFICES ASSUME p # NoPlace PROVE Subtract(p, r.consume) <= HeldIn(q)
    BY <1>2 DEF Placed, p
  <2> QED  BY <1>1, <1>7, <1>9, <1>10 DEF h
<1>12. Done(q) = Done(r)
  <2>1. CASE p = NoPlace
    <3>1. q.supply \in Cells /\ NoPlace \notin Cells
      BY <1>1, <1>2, <1>3, <1>4 DEF Increment, Cells, NoPlace
    <3>2. q.clearto = NoPlace /\ r.clearto = NoPlace
      BY <1>2, <2>1
    <3> QED  BY <1>3, <3>1, <3>2 DEF Done
  <2>2. CASE p # NoPlace
    <3>1. Done(q) = Subtract(p, r.consume)
      BY <1>2, <1>10, <2>2 DEF Done
    <3>2. Done(r) = Subtract(p, r.consume)
      BY <1>10, <2>2 DEF Done
    <3> QED  BY <3>1, <3>2
  <2> QED  BY <2>1, <2>2
<1> QED  BY <1>11, <1>12 DEF q

(* ring_encrypt() encrypts, of what the ring holds, what it has not
   encrypted before, and that once. *)
LEMMA EncryptCells ==
    ASSUME NEW r \in Rings, Placed(r)
    PROVE  \A i \in 1 .. HeldIn(r) :
              At(RingEncrypt(r), i) = IF i > Done(r) THEN Encode(At(r, i)) ELSE At(r, i)
<1>1. Size \in Nat /\ Size > 4  BY SizeAssumption DEF SizeAssumption
<1>2. /\ r.supply \in Cells /\ r.consume \in Cells /\ r.fresh \in BOOLEAN
      /\ r.clearto \in Cells \cup {NoPlace}
  BY DEF Rings
<1>3. HeldIn(r) \in 0 .. Size /\ RingEmptyCount(r) = Size - HeldIn(r)
  BY <1>1, RoomType DEF HeldIn
<1>4. CASE RingEmpty(r)
  BY <1>1, <1>4 DEF HeldIn, RingEmptyCount
<1>5. CASE r.clearto = r.supply
  BY <1>3, <1>5 DEF RingEncrypt, Done
<1>6. CASE ~RingEmpty(r) /\ r.clearto # r.supply
  <2> DEFINE c == IF r.clearto = NoPlace THEN r.consume ELSE r.clearto
             t == r.supply
             cells == IF t <= c THEN (c .. Size - 1) \cup (0 .. t - 1) ELSE c .. t - 1
             q == RingEncrypt(r)
  <2>1. /\ q.consume = r.consume
        /\ q.buf = [i \in Cells |-> IF i \in cells THEN Encode(r.buf[i]) ELSE r.buf[i]]
    BY <1>6 DEF RingEncrypt, Rings
  <2> HIDE DEF q
  <2>2. HeldIn(r) = Size - Subtract(r.consume, r.supply)
    BY <1>6 DEF HeldIn, RingEmptyCount
  <2>3. c \in Cells /\ Done(r) = Subtract(c, r.consume) /\ Subtract(c, r.consume) <= HeldIn(r)
        /\ (r.clearto # NoPlace => c # t)
    BY <1>1, <1>2, <1>3, <1>6 DEF Done, Placed, Subtract, Cells
  <2> TAKE i \in 1 .. HeldIn(r)
  <2> DEFINE j == Increment(r.consume, i - 1)
  <2>4. j \in Cells
    BY <1>1, <1>2, <1>3 DEF Increment, Cells
  <2>5. j \in cells <=> i > Done(r)
    <3>1. i \in Int /\ i >= 1 /\ i <= HeldIn(r) /\ i <= Size
      BY <1>1, <1>3
    <3> DEFINE e == Subtract(r.consume, r.supply)
               d == Subtract(r.supply, r.consume)
               x == Subtract(j, r.consume)
               y == Subtract(c, r.consume)
    <3> HIDE DEF c
    <3>2. /\ x = i - 1 /\ e \in 0 .. Size - 1
          /\ r.consume # r.supply => d = Size - e
      BY <1>2, <3>1, Round
    <3>3. r.consume # r.supply => d = HeldIn(r)
      BY <2>2, <3>2
    <3>4. r.consume = r.supply \/ y <= d
      BY <2>3, <3>3
    <3>5. c # r.supply \/ r.consume = c
      BY <2>3 DEF c
    <3>6. j \in cells <=> x >= y /\ (r.consume # r.supply => x < d)
      <4> HIDE DEF j
      <4> QED  BY <1>2, <2>3, <2>4, <3>4, <3>5, RoundCells
    <3>7. y \in Int
      BY <1>1, <1>2, <2>3 DEF Subtract, Cells
    <3>8. r.consume # r.supply => x < d
      <4> HIDE DEF x, d
      <4> QED  BY <1>3, <3>1, <3>2, <3>3
    <3> HIDE DEF x, y
    <3> QED  BY <2>3, <3>1, <3>2, <3>6, <3>7, <3>8 DEF y
  <2> HIDE DEF cells, j
  <2>6. q.buf[j] = IF i > Done(r) THEN Encode(r.buf[j]) ELSE r.buf[j]
    BY <2>1, <2>4, <2>5
  <2> QED  BY <2>1, <2>6 DEF At, j, q
<1> QED  BY <1>4, <1>5, <1>6

(* A ring is what its fields are. *)
LEMMA RingEqual ==
    ASSUME NEW r \in Rings, NEW q \in Rings,
           r.buf = q.buf, r.consume = q.consume, r.supply = q.supply,
           r.mark = q.mark, r.clearto = q.clearto, r.fresh = q.fresh
    PROVE  r = q
BY DEF Rings

(* The fields of a ring something has been written to. *)
LEMMA SupplyFields ==
    ASSUME NEW r \in Rings, NEW s
    PROVE  LET q == RingSupply(r, s) IN
           /\ q.buf = [i \in Cells |-> IF Subtract(i, r.supply) < Len(s)
                                       THEN s[Subtract(i, r.supply) + 1] ELSE r.buf[i]]
           /\ q.consume = r.consume /\ q.supply = Increment(r.supply, Len(s))
           /\ q.mark = r.mark /\ q.clearto = r.clearto /\ q.fresh = TRUE
BY DEF RingSupply, Rings

(* dosynch() writes its two bytes as any other writer does, and then the
   mark is on the first of them (ring.c:145, telnet.c:2597). *)
LEMMA SynchSupply ==
    ASSUME NEW r \in Rings
    PROVE  Synch(r) = [RingSupply(r, Text(<<"iac", "dm">>)) EXCEPT !.mark = r.supply]
<1>1. Size \in Nat /\ Size > 4  BY SizeAssumption DEF SizeAssumption
<1> DEFINE s1 == Text(<<"iac">>)
           s2 == Text(<<"dm">>)
           s == Text(<<"iac", "dm">>)
           r1 == RingSupply(r, s1)
           r2 == RingMark(r1)
           r3 == RingSupply(r2, s2)
<1>2. /\ Len(s1) = 1 /\ s1[1] = Unit("iac")
      /\ Len(s2) = 1 /\ s2[1] = Unit("dm")
      /\ Len(s) = 2 /\ s[1] = Unit("iac") /\ s[2] = Unit("dm")
  BY DEF Text
<1>3. r.supply \in Cells /\ r.consume \in Cells
  BY DEF Rings
<1>11. s1 \in Seq(Units) /\ s2 \in Seq(Units) /\ s \in Seq(Units)
  <2>1. <<"iac">> \in Seq(Bytes) /\ <<"dm">> \in Seq(Bytes) /\ <<"iac", "dm">> \in Seq(Bytes)
    BY DEF Bytes
  <2> QED  BY <2>1, TextType
<1> HIDE DEF s1, s2, s
<1> DEFINE p1 == Increment(r.supply, 1)
           p2 == Increment(p1, 1)
           b1 == [i \in Cells |-> IF Subtract(i, r.supply) < Len(s1)
                                  THEN s1[Subtract(i, r.supply) + 1] ELSE r.buf[i]]
           b3 == [i \in Cells |-> IF Subtract(i, p1) < Len(s2)
                                  THEN s2[Subtract(i, p1) + 1] ELSE b1[i]]
           b == [i \in Cells |-> IF Subtract(i, r.supply) < Len(s)
                                 THEN s[Subtract(i, r.supply) + 1] ELSE r.buf[i]]
<1>4. /\ p1 \in Cells /\ p2 = Increment(r.supply, 2) /\ Decrement(p1, 1) = r.supply
      /\ \A i \in Cells : /\ Subtract(i, r.supply) \in Nat /\ Subtract(i, p1) \in Nat
                          /\ Subtract(i, p1) = 0 <=> Subtract(i, r.supply) = 1
  BY <1>1, <1>3 DEF Increment, Decrement, Subtract, Cells
<1>5. b3 = b
  <2>1. ASSUME NEW i \in Cells PROVE b3[i] = b[i]
    <3> DEFINE x == Subtract(i, r.supply)
               y == Subtract(i, p1)
    <3>1. x \in Nat /\ y \in Nat /\ (y = 0 <=> x = 1)
      BY <1>4
    <3>2. b3[i] = IF y < 1 THEN s2[y + 1] ELSE IF x < 1 THEN s1[x + 1] ELSE r.buf[i]
      BY <1>2, <2>1
    <3>3. b[i] = IF x < 2 THEN s[x + 1] ELSE r.buf[i]
      BY <1>2, <2>1
    <3> HIDE DEF x, y, b3, b
    <3>4. CASE x = 0
      BY <1>2, <3>1, <3>2, <3>3, <3>4
    <3>5. CASE x = 1
      BY <1>2, <3>1, <3>2, <3>3, <3>5
    <3>6. CASE x > 1
      BY <1>2, <3>1, <3>2, <3>3, <3>6
    <3> QED  BY <3>1, <3>4, <3>5, <3>6
  <2> QED  BY <2>1
<1>6. /\ r1 \in Rings
      /\ r1.buf = b1 /\ r1.consume = r.consume /\ r1.supply = p1
      /\ r1.clearto = r.clearto /\ r1.fresh = TRUE
  <2>1. s1 \in Seq(Units) /\ Len(s1) <= 4
    BY <1>2, <1>11
  <2>2. r1 \in Rings
    BY <2>1, SupplyType
  <2>3. r1.buf = b1
    BY SupplyFields, Zenon
  <2> HIDE DEF b1
  <2>4. /\ r1.consume = r.consume /\ r1.supply = Increment(r.supply, Len(s1))
        /\ r1.clearto = r.clearto /\ r1.fresh = TRUE
    BY SupplyFields, Zenon
  <2> QED  BY <1>2, <2>2, <2>3, <2>4, Zenon
<1> HIDE DEF r1, b1, p1
<1>7. /\ r2 \in Rings
      /\ r2.buf = b1 /\ r2.consume = r.consume /\ r2.supply = p1
      /\ r2.mark = r.supply /\ r2.clearto = r.clearto /\ r2.fresh = TRUE
  BY <1>3, <1>4, <1>6 DEF RingMark, Rings
<1> HIDE DEF r2
<1>8. /\ r3 \in Rings
      /\ r3.buf = b3 /\ r3.consume = r.consume /\ r3.supply = p2
      /\ r3.mark = r.supply /\ r3.clearto = r.clearto /\ r3.fresh = TRUE
  <2>1. s2 \in Seq(Units) /\ Len(s2) <= 4
    BY <1>2, <1>11
  <2>2. r3 \in Rings
    BY <1>7, <2>1, SupplyType
  <2>3. r3.buf = [i \in Cells |-> IF Subtract(i, r2.supply) < Len(s2)
                                    THEN s2[Subtract(i, r2.supply) + 1] ELSE r2.buf[i]]
    BY <1>7, SupplyFields, Zenon
  <2>4. r3.buf = b3
    BY <1>7, <2>3, Zenon DEF b3
  <2> HIDE DEF b3
  <2>5. /\ r3.consume = r2.consume /\ r3.supply = Increment(r2.supply, Len(s2))
        /\ r3.mark = r2.mark /\ r3.clearto = r2.clearto /\ r3.fresh = TRUE
    BY <1>7, SupplyFields, Zenon
  <2> QED  BY <1>2, <1>7, <2>2, <2>4, <2>5, Zenon
<1> HIDE DEF r3, b3, p2
<1> DEFINE q == RingSupply(r, s)
           w == [q EXCEPT !.mark = r.supply]
<1>9. /\ q \in Rings
      /\ q.buf = b /\ q.consume = r.consume /\ q.supply = Increment(r.supply, 2)
      /\ q.clearto = r.clearto /\ q.fresh = TRUE
  <2>1. s \in Seq(Units) /\ Len(s) <= 4
    BY <1>2, <1>11
  <2>2. q \in Rings
    BY <2>1, SupplyType
  <2>3. q.buf = b
    BY SupplyFields, Zenon
  <2> HIDE DEF b
  <2>4. /\ q.consume = r.consume /\ q.supply = Increment(r.supply, Len(s))
        /\ q.clearto = r.clearto /\ q.fresh = TRUE
    BY SupplyFields, Zenon
  <2> QED  BY <1>2, <2>2, <2>3, <2>4, Zenon
<1> HIDE DEF b, q
<1>10. r3 = w
  <2>1. /\ w \in Rings
        /\ w.buf = b /\ w.consume = r.consume /\ w.supply = Increment(r.supply, 2)
        /\ w.mark = r.supply /\ w.clearto = r.clearto /\ w.fresh = TRUE
    BY <1>3, <1>9 DEF Rings
  <2> HIDE DEF w
  <2> QED  BY <1>4, <1>5, <1>8, <2>1, RingEqual
<1> QED  BY <1>10 DEF Synch, r1, r2, r3, s1, s2, s, q

(* Where the mark is has no part in what is encrypted. *)
LEMMA MarkApart ==
    ASSUME NEW r \in Rings, NEW p \in Cells
    PROVE  LET q == [r EXCEPT !.mark = p] IN
           /\ q \in Rings /\ HeldIn(q) = HeldIn(r) /\ (Placed(r) => Placed(q))
           /\ q.consume = r.consume /\ q.buf = r.buf /\ q.mark = p
           /\ \A o \in BOOLEAN, i \in Int : At(Ready(q, o), i) = At(Ready(r, o), i)
<1> DEFINE q == [r EXCEPT !.mark = p]
<1>1. /\ q \in Rings
      /\ q.buf = r.buf /\ q.consume = r.consume /\ q.supply = r.supply /\ q.clearto = r.clearto
      /\ q.fresh = r.fresh /\ q.mark = p
  BY DEF Rings
<1> HIDE DEF q
<1>2. HeldIn(q) = HeldIn(r) /\ (Placed(r) => Placed(q))
  BY <1>1 DEF HeldIn, RingEmptyCount, RingEmpty, Placed
<1>3. RingEncrypt(q).buf = RingEncrypt(r).buf /\ RingEncrypt(q).consume = RingEncrypt(r).consume
  <2>1. CASE RingEmpty(r) \/ r.clearto = r.supply
    BY <1>1, <2>1 DEF RingEncrypt, RingEmpty
  <2>2. CASE ~(RingEmpty(r) \/ r.clearto = r.supply)
    <3> DEFINE c == IF r.clearto = NoPlace THEN r.consume ELSE r.clearto
               t == r.supply
               cells == IF t <= c THEN (c .. Size - 1) \cup (0 .. t - 1) ELSE c .. t - 1
               b == [i \in Cells |-> IF i \in cells THEN Encode(r.buf[i]) ELSE r.buf[i]]
    <3>1. RingEncrypt(r) = [r EXCEPT !.buf = b, !.clearto = t]
      BY <2>2 DEF RingEncrypt
    <3>2. RingEncrypt(q) = [q EXCEPT !.buf = b, !.clearto = t]
      BY <1>1, <2>2 DEF RingEncrypt, RingEmpty
    <3> HIDE DEF b, t
    <3> QED  BY <1>1, <3>1, <3>2 DEF Rings
  <2> QED  BY <2>1, <2>2
<1>4. \A o \in BOOLEAN, i \in Int : At(Ready(q, o), i) = At(Ready(r, o), i)
  BY <1>1, <1>3 DEF At, Ready
<1> QED  BY <1>1, <1>2, <1>4 DEF q

(* What netflush() will send of a ring it would have sent before more was
   written, and of what is written each byte, encrypted once if at all. *)
LEMMA ReadySupply ==
    ASSUME NEW r \in Rings, NEW s \in Seq(Units), Len(s) > 0, Len(s) <= RingEmptyCount(r), Len(s) <= 4,
           NEW o \in BOOLEAN, o => Placed(r),
           ~(Len(s) = RingEmptyCount(r) /\ o /\ RingSupply(r, s).clearto = RingSupply(r, s).supply)
    PROVE  LET q == RingSupply(r, s) IN
           /\ o => Placed(q)
           /\ HeldIn(q) = HeldIn(r) + Len(s)
           /\ \A i \in 1 .. HeldIn(r) : At(Ready(q, o), i) = At(Ready(r, o), i)
           /\ \A i \in 1 .. Len(s) : At(Ready(q, o), HeldIn(r) + i) = IF o THEN Encode(s[i]) ELSE s[i]
<1>1. Size \in Nat /\ Size > 4  BY SizeAssumption DEF SizeAssumption
<1> DEFINE q == RingSupply(r, s)
<1>2. /\ q \in Rings /\ HeldIn(q) = HeldIn(r) + Len(s)
      /\ \A i \in 1 .. HeldIn(r) : At(q, i) = At(r, i)
      /\ \A i \in 1 .. Len(s) : At(q, HeldIn(r) + i) = s[i]
  BY SupplyType, SupplyAhead, SupplyCells
<1>3. o => Placed(q) /\ Done(q) = Done(r)
  BY SupplyDone
<1> HIDE DEF q
<1>4. CASE ~o
  BY <1>2, <1>4 DEF Ready, q
<1>5. CASE o
  <2>1. Placed(r) /\ Placed(q) /\ Done(q) = Done(r)
    BY <1>3, <1>5
  <2>2. Done(r) \in Int /\ Done(r) <= HeldIn(r)
    <3>1. HeldIn(r) \in 0 .. Size /\ r.consume \in Cells /\ r.clearto \in Cells \cup {NoPlace}
      BY <1>1, RoomType DEF Rings
    <3>2. r.clearto # NoPlace => Subtract(r.clearto, r.consume) \in Int /\ Subtract(r.clearto, r.consume) <= HeldIn(r)
      BY <1>1, <2>1, <3>1 DEF Placed, Subtract, Cells
    <3> QED  BY <1>1, <3>1, <3>2 DEF Done
  <2>3. HeldIn(r) \in Nat /\ Len(s) \in Nat
    BY <1>1, RoomType
  <2>4. \A i \in 1 .. HeldIn(q) : At(RingEncrypt(q), i) = IF i > Done(r) THEN Encode(At(q, i)) ELSE At(q, i)
    BY <1>2, <2>1, EncryptCells
  <2>5. \A i \in 1 .. HeldIn(r) : At(RingEncrypt(r), i) = IF i > Done(r) THEN Encode(At(r, i)) ELSE At(r, i)
    BY <2>1, EncryptCells
  <2>6. \A i \in 1 .. HeldIn(r) : i \in 1 .. HeldIn(q)
    BY <1>2, <2>3
  <2>7. \A i \in 1 .. HeldIn(r) : At(RingEncrypt(q), i) = At(RingEncrypt(r), i)
    BY <1>2, <2>4, <2>5, <2>6
  <2>8. \A i \in 1 .. Len(s) : HeldIn(r) + i \in 1 .. HeldIn(q) /\ HeldIn(r) + i > Done(r)
    BY <1>2, <2>2, <2>3
  <2>9. \A i \in 1 .. Len(s) : At(RingEncrypt(q), HeldIn(r) + i) = Encode(s[i])
    BY <1>2, <2>4, <2>8
  <2> QED  BY <1>2, <1>5, <2>1, <2>7, <2>9 DEF Ready, q
<1> QED  BY <1>4, <1>5

(* A ring that has been encrypted is not encrypted again, and what it holds
   is placed. *)
LEMMA EncryptAgain ==
    ASSUME NEW r \in Rings
    PROVE  LET q == RingEncrypt(r) IN
           /\ RingEncrypt(q) = q /\ (RingEmpty(q) \/ q.clearto = q.supply)
           /\ q.consume = r.consume /\ q.supply = r.supply /\ q.mark = r.mark
           /\ q.fresh = r.fresh
           /\ Placed(r) => Placed(q)
<1>1. Size \in Nat /\ Size > 4  BY SizeAssumption DEF SizeAssumption
<1> DEFINE q == RingEncrypt(r)
<1>2. /\ q.consume = r.consume /\ q.supply = r.supply /\ q.mark = r.mark /\ q.fresh = r.fresh
      /\ RingEmpty(r) \/ r.clearto = r.supply => q = r
      /\ ~(RingEmpty(r) \/ r.clearto = r.supply) => q.clearto = r.supply
  BY DEF RingEncrypt, Rings
<1> HIDE DEF q
<1>3. RingEmpty(q) \/ q.clearto = q.supply
  BY <1>2 DEF RingEmpty
<1>4. RingEncrypt(q) = q
  BY <1>3 DEF RingEncrypt
<1>5. Placed(r) => Placed(q)
  <2>1. CASE RingEmpty(r) \/ r.clearto = r.supply
    BY <1>2, <2>1
  <2>2. CASE ~(RingEmpty(r) \/ r.clearto = r.supply)
    <3>1. q.clearto = r.supply /\ HeldIn(q) = HeldIn(r)
      BY <1>2, <2>2 DEF HeldIn, RingEmptyCount, RingEmpty
    <3>2. HeldIn(r) = Size - Subtract(r.consume, r.supply)
      BY <2>2 DEF HeldIn, RingEmptyCount
    <3>3. r.consume \in Cells /\ r.supply \in Cells
      BY DEF Rings
    <3>4. Subtract(r.supply, r.consume) <= Size - Subtract(r.consume, r.supply)
      BY <1>1, <3>3 DEF Subtract, Cells
    <3> QED  BY <1>2, <3>1, <3>2, <3>4 DEF Placed
  <2> QED  BY <2>1, <2>2
<1> QED  BY <1>2, <1>3, <1>4, <1>5 DEF q

(* ring_clearto() marks all that is held as not to be encrypted. *)
LEMMA CleartoAgain ==
    ASSUME NEW r \in Rings
    PROVE  LET q == RingClearto(r) IN
           /\ RingEncrypt(q) = q /\ Placed(q) /\ HeldIn(q) = HeldIn(r)
           /\ q.consume = r.consume /\ q.buf = r.buf /\ q.mark = r.mark
<1>1. Size \in Nat /\ Size > 4  BY SizeAssumption DEF SizeAssumption
<1> DEFINE q == RingClearto(r)
<1>2. /\ q.consume = r.consume /\ q.supply = r.supply /\ q.mark = r.mark /\ q.fresh = r.fresh
      /\ q.buf = r.buf /\ q.clearto = IF RingEmpty(r) THEN NoPlace ELSE r.supply
  BY DEF RingClearto, Rings
<1> HIDE DEF q
<1>3. RingEncrypt(q) = q /\ HeldIn(q) = HeldIn(r)
  BY <1>2 DEF RingEncrypt, RingEmpty, HeldIn, RingEmptyCount
<1>4. Placed(q)
  <2>1. CASE RingEmpty(r)
    BY <1>2, <2>1 DEF Placed
  <2>2. CASE ~RingEmpty(r)
    <3>1. HeldIn(r) = Size - Subtract(r.consume, r.supply)
      BY <2>2 DEF HeldIn, RingEmptyCount
    <3>2. r.consume \in Cells /\ r.supply \in Cells
      BY DEF Rings
    <3>3. Subtract(r.supply, r.consume) <= Size - Subtract(r.consume, r.supply)
      BY <1>1, <3>2 DEF Subtract, Cells
    <3> QED  BY <1>2, <1>3, <2>2, <3>1, <3>3 DEF Placed
  <2> QED  BY <2>1, <2>2
<1> QED  BY <1>2, <1>3, <1>4 DEF q

(* Distances after the reader has gone on. *)
LEMMA RoundConsume ==
    ASSUME NEW c \in Cells, NEW s \in Cells, NEW h \in 0 .. Size, NEW n \in 1 .. Size,
           n <= Size - c, n <= h, h = Size - Subtract(c, s)
    PROVE  /\ Increment(c, n) \in Cells
           /\ Increment(c, n) = s <=> n = h
           /\ n < h => Subtract(Increment(c, n), s) = Size - (h - n)
           /\ n < h => Subtract(s, Increment(c, n)) = h - n
           /\ Increment(c, n) = s /\ ~(c < s /\ s <= c + n) => s = 0
<1>1. Size \in Nat /\ Size > 4  BY SizeAssumption DEF SizeAssumption
<1> QED  BY <1>1 DEF Increment, Subtract, Cells

LEMMA RoundOn ==
    ASSUME NEW c \in Cells, NEW n \in 1 .. Size, NEW i \in Nat, i >= 1, n + i <= Size
    PROVE  /\ Increment(Increment(c, n), i - 1) = Increment(c, (n + i) - 1)
           /\ Increment(c, (n + i) - 1) \in Cells
           /\ ~(Subtract(Increment(c, (n + i) - 1), c) < n)
<1>1. Size \in Nat /\ Size > 4  BY SizeAssumption DEF SizeAssumption
<1> QED  BY <1>1 DEF Increment, Subtract, Cells

(* ring_consumed() takes the first bytes away and leaves the others; a ring
   that was encrypted to the end still is. *)
LEMMA ConsumeCells ==
    ASSUME NEW r \in Rings, NEW n \in 1 .. Size, n <= Size - r.consume, n <= HeldIn(r)
    PROVE  LET q == RingConsumed(r, n) IN
           /\ HeldIn(q) = HeldIn(r) - n
           /\ \A i \in 1 .. HeldIn(r) - n : At(q, i) = At(r, n + i)
           /\ r.clearto = r.supply => Placed(q) /\ RingEncrypt(q) = q
<1>1. Size \in Nat /\ Size > 4  BY SizeAssumption DEF SizeAssumption
<1> DEFINE q == RingConsumed(r, n)
           c == Increment(r.consume, n)
           h == HeldIn(r)
           sent == {i \in Cells : Subtract(i, r.consume) < n}
           passed == \/ r.consume < r.clearto /\ r.clearto <= r.consume + n
                     \/ r.consume + n > Size /\ 0 <= r.clearto
<1>2. /\ r.supply \in Cells /\ r.consume \in Cells /\ r.fresh \in BOOLEAN
      /\ r.clearto \in Cells \cup {NoPlace}
  BY DEF Rings
<1>3. /\ q.buf = [i \in Cells |-> IF i \in sent THEN Free ELSE r.buf[i]]
      /\ q.clearto = IF passed THEN NoPlace ELSE r.clearto
      /\ q.fresh = FALSE
      /\ c = r.supply => q.consume = 0 /\ q.supply = 0
      /\ c # r.supply => q.consume = c /\ q.supply = r.supply
  BY DEF RingConsumed, RingEmpty, Rings
<1>4. h \in 0 .. Size /\ h = Size - Subtract(r.consume, r.supply) /\ n \in Nat /\ n >= 1 /\ n <= h
  <2>1. h \in 0 .. Size
    BY RoomType
  <2>2. ~RingEmpty(r)
    BY <1>1, <2>1 DEF HeldIn, RingEmptyCount
  <2> QED  BY <1>1, <2>1, <2>2 DEF HeldIn, RingEmptyCount
<1> HIDE DEF q, sent, passed, h
<1>5. /\ c \in Cells /\ (c = r.supply <=> n = h)
      /\ n < h => Subtract(c, r.supply) = Size - (h - n) /\ Subtract(r.supply, c) = h - n
      /\ c = r.supply /\ ~(r.consume < r.supply /\ r.supply <= r.consume + n) => r.supply = 0
  BY <1>2, <1>4, RoundConsume
<1> HIDE DEF c
<1>6. HeldIn(q) = h - n
  <2>1. CASE n = h
    <3>1. RingEmpty(q)
      BY <1>3, <1>5, <2>1 DEF RingEmpty
    <3> QED  BY <1>1, <1>4, <2>1, <3>1 DEF HeldIn, RingEmptyCount
  <2>2. CASE n < h
    <3>1. c # r.supply
      BY <1>4, <1>5, <2>2
    <3>2. ~RingEmpty(q) /\ Subtract(q.consume, q.supply) = Size - (h - n)
      BY <1>3, <1>5, <2>2, <3>1 DEF RingEmpty
    <3> QED  BY <1>1, <1>4, <3>2 DEF HeldIn, RingEmptyCount
  <2> QED  BY <1>4, <2>1, <2>2
<1>7. ASSUME NEW i \in 1 .. h - n
      PROVE  At(q, i) = At(r, n + i)
  <2>1. i \in Nat /\ i >= 1 /\ n + i <= Size /\ n < h
    BY <1>1, <1>4
  <2>2. q.consume = c
    BY <1>3, <1>4, <1>5, <2>1
  <2> DEFINE j == Increment(r.consume, (n + i) - 1)
  <2>3. j \in Cells /\ j \notin sent /\ Increment(c, i - 1) = j
    BY <1>2, <2>1, RoundOn DEF c, sent
  <2> HIDE DEF j
  <2>4. q.buf[j] = r.buf[j]
    BY <1>3, <2>3
  <2> QED  BY <2>2, <2>3, <2>4 DEF At, j
<1>8. ASSUME r.clearto = r.supply
      PROVE  Placed(q) /\ RingEncrypt(q) = q
  <2>1. r.clearto # NoPlace
    BY <1>1, <1>2, <1>8 DEF Cells, NoPlace
  <2>2. CASE q.clearto = NoPlace
    <3>1. passed
      BY <1>3, <2>1, <2>2
    <3>2. r.consume < r.supply /\ r.supply <= r.consume + n
      BY <1>1, <1>2, <1>4, <1>8, <3>1 DEF passed, Cells
    <3>3. c = r.supply
      BY <1>1, <1>2, <1>4, <1>5, <3>2 DEF Subtract, Cells
    <3>4. RingEmpty(q)
      BY <1>3, <3>3 DEF RingEmpty
    <3> QED  BY <2>2, <3>4 DEF RingEncrypt, Placed
  <2>3. CASE q.clearto # NoPlace
    <3>1. ~passed /\ q.clearto = r.supply
      BY <1>3, <1>8, <2>3
    <3>2. q.clearto = q.supply
      BY <1>3, <1>5, <1>8, <3>1 DEF passed
    <3>3. RingEncrypt(q) = q
      BY <3>2 DEF RingEncrypt
    <3>4. Subtract(q.supply, q.consume) = HeldIn(q)
      <4>1. CASE n = h
        BY <1>1, <1>3, <1>4, <1>5, <1>6, <4>1 DEF Subtract
      <4>2. CASE n < h
        BY <1>3, <1>4, <1>5, <1>6, <4>2
      <4> QED  BY <1>4, <4>1, <4>2
    <3>5. HeldIn(q) \in Int
      BY <1>4, <1>6
    <3> QED  BY <3>2, <3>3, <3>4, <3>5 DEF Placed
  <2> QED  BY <2>2, <2>3
<1> QED  BY <1>6, <1>7, <1>8 DEF q, h

-----------------------------------------------------------------------------
(* The other side.                                                          *)

(* A nonempty set of numbers has a least element: what the library says of
   sets over a well-founded relation, for the order of the numbers. *)
LEMMA Least ==
    ASSUME NEW T, T \subseteq Nat, T # {}
    PROVE  \E x \in T : \A y \in T : x <= y
<1> DEFINE Less == {p \in Nat \X Nat : p[1] < p[2]}
<1>1. IsWellFoundedOn(Less, Nat)
  BY NatLessThanWellFounded DEF OpToRel
<1>2. PICK x \in T : \A y \in T : ~(<<y, x>> \in Less)
  BY <1>1, WFMin
<1>3. \A y \in T : x <= y
  <2> TAKE y \in T
  <2>1. x \in Nat /\ y \in Nat
    OBVIOUS
  <2>2. ~(y < x)
    BY <1>2, <2>1
  <2> QED  BY <2>1, <2>2
<1> QED  BY <1>3

(* f is the modes the other side goes through as it reads the first n of u. *)
Reads(f, d, u, n) == f[0] = d /\ \A i \in 1 .. n : f[i] = After(f[i - 1], u[i])

(* Two readings of n bytes are one. *)
Same(f, g, n) == \A i \in 0 .. n : f[i] = g[i]

(* What the other side makes of bytes depends on nothing but its mode and
   the bytes: the modes it goes through are those of any reading of them. *)
LEMMA OneReading ==
    ASSUME NEW n \in Nat, NEW u, NEW d, NEW f, NEW g, Reads(f, d, u, n), Reads(g, d, u, n)
    PROVE  Same(f, g, n)
<1> USE DEF Reads, Same
<1> DEFINE T == {i \in 0 .. n : f[i] # g[i]}
<1> SUFFICES ASSUME T # {} PROVE FALSE
  OBVIOUS
<1>1. PICK x \in T : \A y \in T : x <= y
  <2>1. T \subseteq Nat
    OBVIOUS
  <2> HIDE DEF T
  <2> QED  BY <2>1, Least
<1>2. x \in 1 .. n /\ x - 1 \in 0 .. n /\ f[x] # g[x]
  OBVIOUS
<1>3. x - 1 \notin T
  <2> HIDE DEF T
  <2> QED  BY <1>1, <1>2
<1>4. f[x - 1] = g[x - 1]
  BY <1>2, <1>3
<1> QED  BY <1>2, <1>4

(* Bytes that are taken away have been read, and the rest can be. *)
LEMMA DecodesLess ==
    ASSUME NEW r \in Rings, NEW q, NEW d \in BOOLEAN, NEW o \in BOOLEAN, NEW n \in 1 .. HeldIn(r),
           Decodes(r, d, o), HeldIn(q) = HeldIn(r) - n,
           \A i \in 1 .. HeldIn(r) - n : At(q, i) = At(r, n + i),
           NEW units, Len(units) = n, \A i \in 1 .. n : units[i] = At(r, i),
           NEW f \in Modes(d, units)
    PROVE  /\ Decodes(q, f[n], o)
           /\ \A i \in 1 .. n : Readable(f[i - 1], units[i])
<1> DEFINE h == HeldIn(r)
<1>1. h \in Nat /\ n \in Nat /\ n >= 1 /\ n <= h
  <2>1. Size \in Nat  BY SizeAssumption DEF SizeAssumption
  <2> QED  BY <2>1, RoomType
<1>2. PICK m \in [0 .. h -> BOOLEAN] :
         /\ m[0] = d /\ m[h] = o
         /\ \A i \in 1 .. h : Readable(m[i - 1], At(r, i)) /\ m[i] = After(m[i - 1], At(r, i))
  BY DEF Decodes
<1>3. f[0] = d /\ \A i \in 1 .. n : f[i] = After(f[i - 1], units[i])
  BY DEF Modes
<1> HIDE DEF h
<1>4. \A i \in 1 .. n : i \in 1 .. h
  BY <1>1
<1>5. \A i \in 1 .. n : m[i] = After(m[i - 1], units[i])
  BY <1>2, <1>4
<1>6. \A i \in 0 .. n : f[i] = m[i]
  <2>1. n \in Nat /\ Reads(f, d, units, n) /\ Reads(m, d, units, n)
    BY <1>1, <1>2, <1>3, <1>5 DEF Reads
  <2>2. Same(f, m, n)
    BY <2>1, OneReading, Zenon
  <2> QED  BY <2>2 DEF Same
<1>7. \A i \in 1 .. n : Readable(f[i - 1], units[i])
  <2> TAKE i \in 1 .. n
  <2>1. i - 1 \in 0 .. n
    BY <1>1
  <2> QED  BY <1>2, <1>4, <1>6, <2>1
<1> DEFINE g == [i \in 0 .. h - n |-> m[n + i]]
<1>8. g \in [0 .. h - n -> BOOLEAN]
  BY <1>1, <1>2
<1>9. g[0] = f[n] /\ g[h - n] = o
  BY <1>1, <1>2, <1>6
<1>10. ASSUME NEW i \in 1 .. h - n
       PROVE  Readable(g[i - 1], At(q, i)) /\ g[i] = After(g[i - 1], At(q, i))
  <2>1. /\ i \in 0 .. h - n /\ i - 1 \in 0 .. h - n
        /\ n + (i - 1) = (n + i) - 1 /\ n + i \in 1 .. h
    BY <1>1
  <2>2. g[i] = m[n + i] /\ g[i - 1] = m[(n + i) - 1]
    BY <2>1
  <2>3. At(q, i) = At(r, n + i)
    BY DEF h
  <2> HIDE DEF g
  <2> QED  BY <1>2, <2>1, <2>2, <2>3
<1> HIDE DEF g
<1>11. HeldIn(q) = h - n
  BY DEF h
<1> QED  BY <1>7, <1>8, <1>9, <1>10, <1>11 DEF Decodes

(* Bytes that are written can be read if they are encrypted exactly when the
   output is; a request to start or to end is read as such. *)
LEMMA DecodesMore ==
    ASSUME NEW r \in Rings, NEW q, NEW d \in BOOLEAN, NEW o \in BOOLEAN, NEW e \in BOOLEAN,
           Decodes(r, d, o),
           NEW bytes \in Seq(Bytes), Len(bytes) > 0, HeldIn(q) = HeldIn(r) + Len(bytes),
           \A i \in 1 .. HeldIn(r) : At(q, i) = At(r, i),
           \A i \in 1 .. Len(bytes) : At(q, HeldIn(r) + i) =
                IF o THEN Encode(Unit(bytes[i])) ELSE Unit(bytes[i]),
           \/ e = o /\ \A i \in 1 .. Len(bytes) : bytes[i] \notin {"start", "end"}
           \/ Len(bytes) = 1 /\ bytes[1] = IF e THEN "start" ELSE "end"
    PROVE  Decodes(q, d, e)
<1> DEFINE h == HeldIn(r)
           l == Len(bytes)
<1>1. h \in Nat /\ l \in Nat /\ l >= 1
  <2>1. Size \in Nat  BY SizeAssumption DEF SizeAssumption
  <2> QED  BY <2>1, RoomType
<1>2. PICK m \in [0 .. h -> BOOLEAN] :
         /\ m[0] = d /\ m[h] = o
         /\ \A i \in 1 .. h : Readable(m[i - 1], At(r, i)) /\ m[i] = After(m[i - 1], At(r, i))
  BY DEF Decodes
<1>3. \A i \in 1 .. h : At(q, i) = At(r, i)
  OBVIOUS
<1>4. ASSUME NEW i \in 1 .. l
      PROVE  /\ At(q, h + i).byte = bytes[i]
             /\ Readable(o, At(q, h + i))
  <2>1. At(q, h + i) = IF o THEN Encode(Unit(bytes[i])) ELSE Unit(bytes[i])
    OBVIOUS
  <2> QED  BY <2>1 DEF Encode, Unit, Readable
<1>5. HeldIn(q) = h + l
  OBVIOUS
<1>6. \/ e = o /\ \A i \in 1 .. l : bytes[i] \notin {"start", "end"}
      \/ l = 1 /\ bytes[1] = IF e THEN "start" ELSE "end"
  OBVIOUS
<1> HIDE DEF h, l
<1> DEFINE g == [i \in 0 .. h + l |-> IF i <= h THEN m[i] ELSE IF i = h + l THEN e ELSE o]
<1>7. g \in [0 .. h + l -> BOOLEAN] /\ g[0] = d /\ g[h + l] = e
  BY <1>1, <1>2
<1>8. ASSUME NEW i \in 1 .. h + l
      PROVE  Readable(g[i - 1], At(q, i)) /\ g[i] = After(g[i - 1], At(q, i))
  <2>1. CASE i <= h
    <3>1. i \in 1 .. h /\ i - 1 <= h /\ i - 1 \in 0 .. h + l /\ i \in 0 .. h + l
      BY <1>1, <2>1
    <3>2. g[i] = m[i] /\ g[i - 1] = m[i - 1]
      BY <2>1, <3>1
    <3> HIDE DEF g
    <3> QED  BY <1>2, <1>3, <3>1, <3>2
  <2>2. CASE i > h
    <3>1. PICK k \in 1 .. l : i = h + k
      <4>1. i - h \in 1 .. l /\ i = h + (i - h)
        BY <1>1, <2>2
      <4> QED  BY <4>1
    <3>2. i - 1 \in 0 .. h + l /\ i \in 0 .. h + l /\ (i - 1 <= h <=> k = 1) /\ (i = h + l <=> k = l)
          /\ (i - 1 <= h => i - 1 = h) /\ i - 1 # h + l
      BY <1>1, <3>1
    <3>3. g[i - 1] = o
      BY <1>2, <3>2
    <3>4. g[i] = IF k = l THEN e ELSE o
      BY <2>2, <3>2, <1>1
    <3>5. /\ Readable(o, At(q, i)) /\ At(q, i).byte = bytes[k]
      BY <1>4, <3>1
    <3> HIDE DEF g
    <3>6. CASE e = o /\ \A j \in 1 .. l : bytes[j] \notin {"start", "end"}
      BY <3>3, <3>4, <3>5, <3>6 DEF After
    <3>7. CASE l = 1 /\ bytes[1] = IF e THEN "start" ELSE "end"
      <4>1. k = 1 /\ k = l
        BY <3>7
      <4> QED  BY <3>3, <3>4, <3>5, <3>7, <4>1 DEF After
    <3> QED  BY <1>6, <3>3, <3>5, <3>6, <3>7
  <2> QED  BY <1>1, <2>1, <2>2
<1> HIDE DEF g
<1> QED  BY <1>5, <1>7, <1>8 DEF Decodes

-----------------------------------------------------------------------------
(* The ring as a stream.                                                    *)

Letters == Bytes \cup {"free"}

(* What Pending and the urgent place of the refinement are, of any ring. *)
PendingOf(r) == [i \in 1 .. HeldIn(r) |-> At(r, i).byte]
UrgentOf(r)  == IF r.mark = NoPlace THEN 0 ELSE Subtract(r.mark, r.consume) + 1

(* A ring holds a sequence of bytes. *)
LEMMA PendingType ==
    ASSUME NEW r \in Rings
    PROVE  /\ HeldIn(r) \in Nat
           /\ PendingOf(r) \in Seq(Letters) /\ Len(PendingOf(r)) = HeldIn(r)
           /\ \A i \in 1 .. HeldIn(r) : At(r, i) \in Units /\ PendingOf(r)[i] = At(r, i).byte
<1>1. Size \in Nat /\ Size > 4  BY SizeAssumption DEF SizeAssumption
<1>2. HeldIn(r) \in 0 .. Size /\ r.consume \in Cells /\ r.buf \in [Cells -> Units]
  BY RoomType DEF Rings
<1>3. ASSUME NEW i \in 1 .. HeldIn(r) PROVE At(r, i) \in Units
  <2>1. i \in Int /\ i >= 1 /\ i <= Size
    BY <1>1, <1>2
  <2>2. Increment(r.consume, i - 1) \in Cells
    BY <1>2, <2>1, Round
  <2> QED  BY <1>2, <2>2 DEF At
<1>4. \A i \in 1 .. HeldIn(r) : At(r, i).byte \in Letters
  BY <1>3 DEF Units, Letters
<1>5. HeldIn(r) \in Nat
  BY <1>1, <1>2
<1> QED  BY <1>3, <1>4, <1>5 DEF PendingOf

(* Sequences of the same length with the same elements. *)
LEMMA Alike ==
    ASSUME NEW s \in Seq(Letters), NEW t \in Seq(Letters), Len(s) = Len(t),
           \A i \in 1 .. Len(s) : s[i] = t[i]
    PROVE  s = t
BY SeqEqual

(* Writing appends. *)
LEMMA PendingSupply ==
    ASSUME NEW r \in Rings, NEW bytes \in Seq(Bytes), Len(bytes) \in 1 .. 4, Len(bytes) <= RingEmptyCount(r)
    PROVE  LET q == RingSupply(r, Text(bytes)) IN
           /\ q \in Rings /\ HeldIn(q) = HeldIn(r) + Len(bytes)
           /\ PendingOf(q) = PendingOf(r) \o bytes
<1> DEFINE s == Text(bytes)
           q == RingSupply(r, s)
           l == Len(bytes)
           h == HeldIn(r)
           p == PendingOf(r) \o bytes
<1>1. s \in Seq(Units) /\ Len(s) = l /\ \A i \in 1 .. l : s[i] = Unit(bytes[i])
  BY TextType DEF Text
<1>2. l \in Nat /\ l > 0 /\ l <= 4 /\ l <= RingEmptyCount(r)
  <2>1. \A k \in 1 .. 4 : k \in Nat /\ k > 0 /\ k <= 4
    OBVIOUS
  <2> QED  BY <2>1, Zenon
<1> HIDE DEF s, l
<1>3. /\ q \in Rings /\ HeldIn(q) = h + l
      /\ \A i \in 1 .. h : At(q, i) = At(r, i)
      /\ \A i \in 1 .. l : At(q, h + i) = s[i]
  <2>1. Len(s) > 0 /\ Len(s) <= 4 /\ Len(s) <= RingEmptyCount(r)
    BY <1>1, <1>2
  <2>2. q \in Rings
    BY <1>1, <2>1, SupplyType
  <2>3. HeldIn(q) = h + Len(s)
    BY <1>1, <2>1, SupplyAhead
  <2>4. /\ \A i \in 1 .. h : At(q, i) = At(r, i)
        /\ \A i \in 1 .. Len(s) : At(q, h + i) = s[i]
    BY <1>1, <2>1, SupplyCells
  <2> QED  BY <1>1, <2>2, <2>3, <2>4
<1> HIDE DEF q
<1>4. /\ h \in Nat /\ PendingOf(r) \in Seq(Letters) /\ Len(PendingOf(r)) = h
      /\ \A i \in 1 .. h : PendingOf(r)[i] = At(r, i).byte
  BY PendingType
<1>5. bytes \in Seq(Letters) /\ Len(bytes) = l
  BY DEF Letters, l
<1>6. /\ PendingOf(q) \in Seq(Letters) /\ Len(PendingOf(q)) = h + l
      /\ \A i \in 1 .. h + l : PendingOf(q)[i] = At(q, i).byte
  BY <1>3, PendingType
<1> HIDE DEF h
<1>7. /\ p \in Seq(Letters) /\ Len(p) = h + l
      /\ \A i \in 1 .. h + l : p[i] = IF i <= h THEN PendingOf(r)[i] ELSE bytes[i - h]
  BY <1>4, <1>5, ConcatProperties
<1> HIDE DEF p
<1>8. ASSUME NEW i \in 1 .. h + l PROVE PendingOf(q)[i] = p[i]
  <2>1. CASE i <= h
    <3>1. i \in 1 .. h
      BY <1>2, <1>4, <2>1
    <3> QED  BY <1>3, <1>4, <1>6, <1>7, <2>1, <3>1
  <2>2. CASE i > h
    <3>1. PICK k \in 1 .. l : i = h + k /\ i - h = k
      <4>1. i - h \in 1 .. l /\ i = h + (i - h)
        BY <1>2, <1>4, <2>2
      <4> QED  BY <4>1
    <3>2. PendingOf(q)[i] = s[k].byte
      BY <1>3, <1>6, <3>1
    <3>3. p[i] = bytes[k]
      BY <1>4, <1>7, <2>2, <3>1
    <3> QED  BY <1>1, <3>2, <3>3 DEF Unit
  <2> QED  BY <1>2, <1>4, <2>1, <2>2
<1>9. PendingOf(q) = p
  BY <1>6, <1>7, <1>8, Alike
<1> QED  BY <1>3, <1>9 DEF q, p, s, l, h

(* Encrypting does not change what the bytes are. *)
LEMMA PendingEncrypt ==
    ASSUME NEW r \in Rings
    PROVE  PendingOf(RingEncrypt(r)) = PendingOf(r) /\ UrgentOf(RingEncrypt(r)) = UrgentOf(r)
<1> DEFINE q == RingEncrypt(r)
<1>1. q \in Rings /\ HeldIn(q) = HeldIn(r) /\ q.consume = r.consume /\ q.mark = r.mark
  BY EncryptOK, EncryptAgain
<1>2. \A i \in Cells : q.buf[i].byte = r.buf[i].byte
  <2>1. CASE RingEmpty(r) \/ r.clearto = r.supply
    BY <2>1 DEF RingEncrypt
  <2>2. CASE ~(RingEmpty(r) \/ r.clearto = r.supply)
    <3> DEFINE c == IF r.clearto = NoPlace THEN r.consume ELSE r.clearto
               t == r.supply
               cells == IF t <= c THEN (c .. Size - 1) \cup (0 .. t - 1) ELSE c .. t - 1
    <3>1. q.buf = [i \in Cells |-> IF i \in cells THEN Encode(r.buf[i]) ELSE r.buf[i]]
      BY <2>2 DEF RingEncrypt, Rings
    <3> HIDE DEF q, cells
    <3>2. \A u \in Units : Encode(u).byte = u.byte
      BY DEF Encode, Units
    <3>3. r.buf \in [Cells -> Units]
      BY DEF Rings
    <3> QED  BY <3>1, <3>2, <3>3
  <2> QED  BY <2>1, <2>2
<1>3. UrgentOf(q) = UrgentOf(r)
  BY <1>1 DEF UrgentOf
<1>4. ASSUME NEW i \in 1 .. HeldIn(r) PROVE At(q, i).byte = At(r, i).byte
  <2>1. Size \in Nat /\ Size > 4 /\ HeldIn(r) \in 0 .. Size /\ r.consume \in Cells
    BY SizeAssumption, RoomType DEF SizeAssumption, Rings
  <2>2. i \in Int /\ i >= 1 /\ i <= Size
    BY <2>1
  <2>3. Increment(r.consume, i - 1) \in Cells
    BY <2>1, <2>2, Round
  <2> HIDE DEF q
  <2> QED  BY <1>1, <1>2, <2>3 DEF At
<1> HIDE DEF q
<1>5. PendingOf(q) = PendingOf(r)
  BY <1>1, <1>4 DEF PendingOf
<1> QED  BY <1>3, <1>5 DEF q

(* Consuming takes the first bytes away. *)
LEMMA PendingConsume ==
    ASSUME NEW r \in Rings, NEW n \in 1 .. Size, n <= Size - r.consume, n <= HeldIn(r)
    PROVE  PendingOf(RingConsumed(r, n)) = SubSeq(PendingOf(r), n + 1, HeldIn(r))
<1> DEFINE q == RingConsumed(r, n)
           h == HeldIn(r)
           p == SubSeq(PendingOf(r), n + 1, h)
<1>1. /\ q \in Rings /\ HeldIn(q) = h - n
      /\ \A i \in 1 .. h - n : At(q, i) = At(r, n + i)
  BY ConsumeType, ConsumeCells
<1> HIDE DEF q
<1>2. /\ h \in Nat /\ n \in Nat /\ n >= 1 /\ n <= h
      /\ PendingOf(r) \in Seq(Letters) /\ Len(PendingOf(r)) = h
      /\ \A i \in 1 .. h : PendingOf(r)[i] = At(r, i).byte
  <2>1. Size \in Nat  BY SizeAssumption DEF SizeAssumption
  <2>2. n \in Nat /\ n >= 1 /\ n <= h
    BY <2>1
  <2> QED  BY <2>2, PendingType
<1>3. /\ PendingOf(q) \in Seq(Letters) /\ Len(PendingOf(q)) = h - n
      /\ \A i \in 1 .. h - n : PendingOf(q)[i] = At(q, i).byte
  BY <1>1, PendingType
<1> HIDE DEF h
<1>4. /\ p \in Seq(Letters) /\ Len(p) = h - n
      /\ \A i \in 1 .. h - n : p[i] = PendingOf(r)[n + i]
  <2>1. n + 1 \in Int /\ h \in Int
    BY <1>2
  <2>2. \A i \in n + 1 .. h : PendingOf(r)[i] \in Letters
    <3> TAKE i \in n + 1 .. h
    <3>1. i \in 1 .. Len(PendingOf(r))
      BY <1>2
    <3> QED  BY <1>2, <3>1
  <2>3. /\ p \in Seq(Letters)
        /\ Len(p) = IF n + 1 <= h THEN h - (n + 1) + 1 ELSE 0
        /\ \A i \in 1 .. h - (n + 1) + 1 : p[i] = PendingOf(r)[(n + 1) + i - 1]
    BY <2>1, <2>2, SubSeqProperties
  <2> HIDE DEF p
  <2>4. Len(p) = h - n /\ h - (n + 1) + 1 = h - n
    BY <1>2, <2>3
  <2>5. \A i \in 1 .. h - n : (n + 1) + i - 1 = n + i
    BY <1>2
  <2> QED  BY <2>3, <2>4, <2>5
<1> HIDE DEF p
<1>5. ASSUME NEW i \in 1 .. h - n PROVE PendingOf(q)[i] = p[i]
  <2>1. n + i \in 1 .. h
    BY <1>2
  <2> QED  BY <1>1, <1>2, <1>3, <1>4, <2>1
<1>6. PendingOf(q) = p
  BY <1>3, <1>4, <1>5, Alike
<1> QED  BY <1>6 DEF q, p, h

(* The sequences of bytes the writers of the client write. *)
Writes == {<<"char">>, <<"iac", "iac">>, <<"iac", "cmd", "opt">>,
           <<"iac", "cmd", "opt", "iac">>, <<"iac", "dm">>, <<"start">>, <<"end">>}

(* All of them are short, and of ours. *)
LEMMA WritesType ==
    ASSUME NEW bytes \in Writes
    PROVE  bytes \in Seq(Bytes) /\ Len(bytes) \in 1 .. 4
<1>1. CASE bytes = <<"char">>  BY <1>1 DEF Bytes
<1>2. CASE bytes = <<"iac", "iac">>  BY <1>2 DEF Bytes
<1>3. CASE bytes = <<"iac", "cmd", "opt">>  BY <1>3 DEF Bytes
<1>4. CASE bytes = <<"iac", "cmd", "opt", "iac">>  BY <1>4 DEF Bytes
<1>5. CASE bytes = <<"iac", "dm">>  BY <1>5 DEF Bytes
<1>6. CASE bytes = <<"start">>  BY <1>6 DEF Bytes
<1>7. CASE bytes = <<"end">>  BY <1>7 DEF Bytes
<1> QED  BY <1>1, <1>2, <1>3, <1>4, <1>5, <1>6, <1>7 DEF Writes

(* None but the requests to start and to end switches the other side. *)
LEMMA WritesPlain ==
    ASSUME NEW bytes \in Writes \ {<<"start">>, <<"end">>}
    PROVE  \A i \in 1 .. Len(bytes) : bytes[i] \notin {"start", "end"}
<1>1. CASE bytes = <<"char">>  BY <1>1
<1>2. CASE bytes = <<"iac", "iac">>  BY <1>2
<1>3. CASE bytes = <<"iac", "cmd", "opt">>  BY <1>3
<1>4. CASE bytes = <<"iac", "cmd", "opt", "iac">>  BY <1>4
<1>5. CASE bytes = <<"iac", "dm">>  BY <1>5
<1> QED  BY <1>1, <1>2, <1>3, <1>4, <1>5 DEF Writes

(* The sequence that is pending is what the ring holds. *)
LEMMA PendingIs ==
    /\ Pending = PendingOf(ring) /\ Stream!Nothing = Silence
BY DEF Pending, PendingOf, Held, HeldIn, At, Stream!Nothing, Silence

(* A write that overtakes nothing leaves a ring the other side can read,
   with the bytes behind the others. *)
LEMMA WriteOK ==
    ASSUME TypeOK, Legible, ~overrun, NEW bytes \in Writes, ~Overtakes(Text(bytes)), NEW e \in BOOLEAN,
           \/ e = on /\ \A i \in 1 .. Len(bytes) : bytes[i] \notin {"start", "end"}
           \/ Len(bytes) = 1 /\ bytes[1] = IF e THEN "start" ELSE "end"
    PROVE  LET q == RingSupply(ring, Text(bytes)) IN
           /\ q \in Rings /\ PendingOf(q) = PendingOf(ring) \o bytes
           /\ HeldIn(q) = HeldIn(ring) + Len(bytes)
           /\ on => Placed(q)
           /\ Decodes(Ready(q, on), decrypts, e)
<1> DEFINE s == Text(bytes)
           q == RingSupply(ring, s)
           r == Ready(ring, on)
           t == Ready(q, on)
<1>1. bytes \in Seq(Bytes) /\ Len(bytes) \in 1 .. 4
  BY WritesType
<1>2. ring \in Rings /\ on \in BOOLEAN /\ decrypts \in BOOLEAN
  BY DEF TypeOK
<1>3. s \in Seq(Units) /\ Len(s) = Len(bytes) /\ \A i \in 1 .. Len(bytes) : s[i] = Unit(bytes[i])
  BY <1>1, TextType DEF Text
<1> DEFINE l == Len(bytes)
<1>4. /\ l \in Nat /\ l > 0 /\ l <= 4 /\ l <= RingEmptyCount(ring)
      /\ ~(Len(s) = RingEmptyCount(ring) /\ on /\ q.clearto = q.supply)
  <2>1. \A k \in 1 .. 4 : k \in Nat /\ k > 0 /\ k <= 4
    OBVIOUS
  <2>2. l \in Nat /\ l > 0 /\ l <= 4
    BY <1>1, <2>1, Zenon
  <2>3. ~(Len(s) > RingEmptyCount(ring)) /\ ~(Len(s) = RingEmptyCount(ring) /\ on /\ q.clearto = q.supply)
    BY DEF Overtakes
  <2>4. RingEmptyCount(ring) \in Int
    BY <1>2, RoomType
  <2>5. l \in Int /\ ~(l > RingEmptyCount(ring))
    BY <1>3, <2>2, <2>3
  <2> HIDE DEF l
  <2>6. l <= RingEmptyCount(ring)
    BY <2>4, <2>5
  <2> QED  BY <2>2, <2>3, <2>6
<1> HIDE DEF s
<1>5. (on => Placed(ring)) /\ Decodes(r, decrypts, on)
  BY DEF Legible
<1>6. q \in Rings /\ PendingOf(q) = PendingOf(ring) \o bytes /\ HeldIn(q) = HeldIn(ring) + l
  BY <1>1, <1>2, <1>4, PendingSupply DEF s
<1>7. /\ on => Placed(q)
      /\ \A i \in 1 .. HeldIn(ring) : At(t, i) = At(r, i)
      /\ \A i \in 1 .. Len(s) : At(t, HeldIn(ring) + i) = IF on THEN Encode(s[i]) ELSE s[i]
  <2>1. Len(s) > 0 /\ Len(s) <= RingEmptyCount(ring) /\ Len(s) <= 4
    BY <1>3, <1>4
  <2> HIDE DEF r, t, q
  <2> QED  BY <1>2, <1>3, <1>4, <1>5, <2>1, ReadySupply DEF q, r, t
<1>8. r \in Rings /\ HeldIn(r) = HeldIn(ring) /\ HeldIn(t) = HeldIn(q)
  BY <1>2, <1>6, EncryptOK DEF Ready
<1> HIDE DEF r, t, q
<1>9. Decodes(t, decrypts, e)
  <2>1. HeldIn(t) = HeldIn(r) + Len(bytes) /\ Len(bytes) > 0
    BY <1>4, <1>6, <1>8
  <2>2. \A i \in 1 .. HeldIn(r) : At(t, i) = At(r, i)
    BY <1>7, <1>8
  <2>3. \A i \in 1 .. Len(bytes) : At(t, HeldIn(r) + i) =
             IF on THEN Encode(Unit(bytes[i])) ELSE Unit(bytes[i])
    BY <1>3, <1>7, <1>8
  <2> QED  BY <1>1, <1>2, <1>5, <1>8, <2>1, <2>2, <2>3, DecodesMore
<1> QED  BY <1>6, <1>7, <1>9 DEF q, t, s

(* A put keeps the ring legible and is a write of the stream. *)
LEMMA PutStream ==
    ASSUME TypeOK, Legible, ~overrun, NEW bytes \in Writes \ {<<"start">>, <<"end">>}, Put(bytes), ~overrun'
    PROVE  Legible' /\ Stream!Supply
<1> DEFINE q == RingSupply(ring, Text(bytes))
<1>1. /\ ring' = q /\ overrun' = (overrun \/ Overtakes(Text(bytes)))
      /\ read' = Silence /\ UNCHANGED <<on, decrypts>>
  BY DEF Put
<1>2. ~Overtakes(Text(bytes))
  BY <1>1
<1>3. \A i \in 1 .. Len(bytes) : bytes[i] \notin {"start", "end"}
  BY WritesPlain
<1>4. /\ PendingOf(q) = PendingOf(ring) \o bytes
      /\ on => Placed(q)
      /\ Decodes(Ready(q, on), decrypts, on)
  <2>1. on \in BOOLEAN
    BY DEF TypeOK
  <2> HIDE DEF q
  <2> QED  BY <1>2, <1>3, <2>1, WriteOK DEF q
<1>5. q.mark = ring.mark /\ q.consume = ring.consume
  <2>1. ring \in Rings
    BY DEF TypeOK
  <2> QED  BY <2>1, SupplyFields, Zenon
<1> HIDE DEF q
<1>6. Legible'
  BY <1>1, <1>4 DEF Legible
<1>7. Pending' = Pending \o bytes
  BY <1>1, <1>4, PendingIs DEF Pending, PendingOf, Held, HeldIn, At
<1>8. Stream!Supply
  <2>1. UrgentOf(ring)' = UrgentOf(ring)
    BY <1>1, <1>5 DEF UrgentOf
  <2>2. overrun' = overrun
    BY <1>1, <1>2 DEF TypeOK
  <2> QED  BY <1>1, <1>7, <2>1, <2>2, PendingIs DEF Stream!Supply, Writes, UrgentOf
<1> QED  BY <1>6, <1>8

(* dosynch() too, and the first of its bytes becomes the urgent one. *)
LEMMA SynchStream ==
    ASSUME TypeOK, Legible, ~overrun, Dosynch, ~overrun'
    PROVE  Legible' /\ Stream!Supply
<1> DEFINE bytes == <<"iac", "dm">>
           q == RingSupply(ring, Text(bytes))
           w == [q EXCEPT !.mark = ring.supply]
<1>1. ring \in Rings /\ on \in BOOLEAN
  BY DEF TypeOK
<1>2. /\ ring' = w /\ overrun' = (overrun \/ Overtakes(Text(bytes)))
      /\ read' = Silence /\ UNCHANGED <<on, decrypts>>
  BY <1>1, SynchSupply DEF Dosynch
<1>3. ~Overtakes(Text(bytes))
  BY <1>2
<1>4. bytes \in Writes /\ Len(bytes) = 2 /\ \A i \in 1 .. Len(bytes) : bytes[i] \notin {"start", "end"}
  BY DEF Writes
<1> HIDE DEF bytes
<1>5. /\ q \in Rings /\ PendingOf(q) = PendingOf(ring) \o bytes
      /\ HeldIn(q) = HeldIn(ring) + 2
      /\ on => Placed(q)
      /\ Decodes(Ready(q, on), decrypts, on)
  <2> HIDE DEF q
  <2> QED  BY <1>1, <1>3, <1>4, WriteOK DEF q
<1>6. q.consume = ring.consume
  BY <1>1, SupplyFields, Zenon
<1> HIDE DEF q
<1>7. ring.supply \in Cells
  BY <1>1 DEF Rings
<1>8. /\ w \in Rings /\ HeldIn(w) = HeldIn(q) /\ (Placed(q) => Placed(w))
      /\ w.consume = q.consume /\ w.buf = q.buf /\ w.mark = ring.supply
      /\ \A i \in Int : At(Ready(w, on), i) = At(Ready(q, on), i)
  BY <1>1, <1>5, <1>7, MarkApart
<1> HIDE DEF w
<1>9. HeldIn(Ready(w, on)) = HeldIn(Ready(q, on))
  BY <1>1, <1>5, <1>8, EncryptOK DEF Ready
<1>10. Decodes(Ready(w, on), decrypts, on)
  <2>1. \A i \in 1 .. HeldIn(Ready(q, on)) : At(Ready(w, on), i) = At(Ready(q, on), i)
    BY <1>8
  <2> QED  BY <1>5, <1>9, <2>1 DEF Decodes
<1>11. Legible'
  BY <1>2, <1>5, <1>8, <1>10 DEF Legible
<1>12. Pending' = Pending \o bytes
  <2>1. PendingOf(w) = PendingOf(q)
    BY <1>8 DEF PendingOf, At
  <2> QED  BY <1>2, <1>5, <2>1, PendingIs DEF Pending, PendingOf, Held, HeldIn, At
<1>13. UrgentOf(ring)' = Len(Pending) + 1
  <2>1. HeldIn(w) \in 0 .. Size /\ HeldIn(ring) \in 0 .. Size /\ Size \in Nat /\ Size > 4
    BY <1>1, <1>8, RoomType, SizeAssumption DEF SizeAssumption
  <2>2. HeldIn(ring) <= Size - 2
    BY <1>5, <1>8, <2>1
  <2>3. Subtract(ring.supply, ring.consume) = HeldIn(ring)
    <3>1. ring.consume \in Cells /\ ring.supply \in Cells
      BY <1>1 DEF Rings
    <3>2. CASE RingEmpty(ring)
      BY <2>1, <3>1, <3>2 DEF HeldIn, RingEmptyCount, RingEmpty, Subtract, Cells
    <3>3. CASE ~RingEmpty(ring)
      BY <2>1, <2>2, <3>1, <3>3 DEF HeldIn, RingEmptyCount, Subtract, Cells
    <3> QED  BY <3>2, <3>3
  <2>4. Len(Pending) = HeldIn(ring)
    BY <1>1, PendingType, PendingIs
  <2>5. w.mark # NoPlace
    BY <1>7, <1>8, <2>1 DEF Cells, NoPlace
  <2> QED  BY <1>2, <1>6, <1>8, <2>3, <2>4, <2>5 DEF UrgentOf
<1>14. Stream!Supply
  <2>1. overrun' = overrun
    BY <1>2, <1>3 DEF TypeOK
  <2>2. bytes \in {<<"char">>, <<"iac", "iac">>, <<"iac", "cmd", "opt">>,
                   <<"iac", "cmd", "opt", "iac">>, <<"iac", "dm">>, <<"start">>, <<"end">>}
    BY <1>4 DEF Writes
  <2> QED  BY <1>2, <1>12, <1>13, <2>1, <2>2, PendingIs DEF Stream!Supply, UrgentOf
<1> QED  BY <1>11, <1>14

(* A request that switches the encryption: the bytes before it are read in
   the old mode, and the other side is in the new one when it has read it. *)
LEMMA SwitchStream ==
    ASSUME TypeOK, Legible, ~overrun, NEW mode \in BOOLEAN,
           NEW byte, byte = IF mode THEN "start" ELSE "end", Switch(byte, mode), ~overrun'
    PROVE  Legible' /\ Stream!Supply
<1> DEFINE bytes == <<byte>>
           q == RingSupply(ring, Text(bytes))
           w == NetEncrypt(q)
<1>1. ring \in Rings /\ on \in BOOLEAN
  BY DEF TypeOK
<1>2. /\ bytes \in Writes /\ Len(bytes) = 1 /\ bytes[1] = byte
      /\ Len(Text(bytes)) = 1
  <2>1. bytes \in Writes /\ Len(bytes) = 1 /\ bytes[1] = byte
    BY DEF Writes
  <2> HIDE DEF bytes
  <2> QED  BY <2>1, WritesType, TextType
<1>3. RingEmptyCount(ring) > 1 /\ RingEmptyCount(ring) \in Int
  <2>1. RingEmptyCount(ring) \in Int
    BY <1>1, RoomType
  <2>2. ~(RingEmptyCount(ring) <= 1)
    BY Zenon DEF Switch
  <2> QED  BY <2>1, <2>2
<1>4. /\ ring' = w /\ on' = mode /\ read' = Silence /\ UNCHANGED decrypts
      /\ overrun' = overrun
  BY <1>3 DEF Switch, NetWrite, TypeOK
<1> HIDE DEF bytes
<1>5. ~Overtakes(Text(bytes))
  BY <1>2, <1>3 DEF Overtakes
<1>6. /\ q \in Rings /\ PendingOf(q) = PendingOf(ring) \o bytes
      /\ on => Placed(q)
      /\ Decodes(Ready(q, on), decrypts, mode)
  <2>1. Len(bytes) = 1 /\ bytes[1] = IF mode THEN "start" ELSE "end"
    BY <1>2
  <2> HIDE DEF q
  <2> QED  BY <1>1, <1>2, <1>5, <2>1, WriteOK DEF q
<1>7. q.consume = ring.consume /\ q.mark = ring.mark
  BY <1>1, SupplyFields, Zenon
<1> HIDE DEF q
<1>8. /\ w.consume = q.consume /\ w.mark = q.mark /\ PendingOf(w) = PendingOf(q)
      /\ Placed(w) /\ RingEncrypt(w) = w
      /\ HeldIn(w) = HeldIn(Ready(q, on))
      /\ \A i \in 1 .. HeldIn(w) : At(w, i) = At(Ready(q, on), i)
  <2>1. CASE on
    <3>1. w = RingEncrypt(q) /\ Ready(q, on) = w
      BY <2>1 DEF NetEncrypt, Ready
    <3> HIDE DEF w
    <3> QED  BY <1>6, <2>1, <3>1, EncryptAgain, PendingEncrypt
  <2>2. CASE ~on
    <3>1. w = RingClearto(q) /\ Ready(q, on) = q
      BY <2>2 DEF NetEncrypt, Ready
    <3> HIDE DEF w
    <3>2. /\ w.consume = q.consume /\ w.mark = q.mark /\ w.buf = q.buf /\ HeldIn(w) = HeldIn(q)
          /\ Placed(w) /\ RingEncrypt(w) = w
      BY <1>6, <3>1, CleartoAgain
    <3>3. PendingOf(w) = PendingOf(q)
      BY <3>2 DEF PendingOf, At
    <3> QED  BY <3>1, <3>2, <3>3 DEF At
  <2> QED  BY <2>1, <2>2
<1> HIDE DEF w
<1>9. Decodes(w, decrypts, mode) /\ Ready(w, mode) = w
  BY <1>6, <1>8 DEF Decodes, Ready
<1>10. Legible'
  BY <1>4, <1>8, <1>9 DEF Legible
<1>11. Pending' = Pending \o bytes
  BY <1>4, <1>6, <1>8, PendingIs DEF Pending, PendingOf, Held, HeldIn, At
<1>12. Stream!Supply
  <2>1. UrgentOf(ring)' = UrgentOf(ring)
    BY <1>4, <1>7, <1>8 DEF UrgentOf
  <2>2. bytes \in {<<"char">>, <<"iac", "iac">>, <<"iac", "cmd", "opt">>,
                   <<"iac", "cmd", "opt", "iac">>, <<"iac", "dm">>, <<"start">>, <<"end">>}
    BY <1>2 DEF Writes
  <2> QED  BY <1>4, <1>11, <2>1, <2>2, PendingIs DEF Stream!Supply, UrgentOf
<1> QED  BY <1>10, <1>12

(* The place of the mark after the reader has gone on. *)
LEMMA RoundMark ==
    ASSUME NEW c \in Cells, NEW p \in Cells, NEW n \in 1 .. Size, n <= Size - c
    PROVE  /\ n <= Subtract(p, c) => Subtract(p, Increment(c, n)) = Subtract(p, c) - n
           /\ p < c => Size - c <= Subtract(p, c)
           /\ p >= c => Subtract(p, c) = p - c
<1>1. Size \in Nat /\ Size > 4  BY SizeAssumption DEF SizeAssumption
<1> QED  BY <1>1 DEF Increment, Subtract, Cells

(* netflush() offers the urgent byte alone and nothing that reaches it
   (ring.c:272, network.c:138), and ring_consumed() keeps its place. *)
LEMMA UrgentFlush ==
    ASSUME NEW r \in Rings, Ahead(r), NEW k \in 1 .. RingFullConsecutive(r), RingAtMark(r) => k = 1
    PROVE  LET u == UrgentOf(r) IN
           /\ u \in Nat
           /\ u = 0 \/ k < u \/ (u = 1 /\ k = 1)
           /\ RingAtMark(r) <=> u = 1
           /\ UrgentOf(RingConsumed(r, k)) = IF u = 0 THEN 0 ELSE u - k
<1>1. Size \in Nat /\ Size > 4  BY SizeAssumption DEF SizeAssumption
<1> DEFINE u == UrgentOf(r)
           q == RingConsumed(r, k)
           c == Increment(r.consume, k)
           d == Subtract(r.mark, r.consume)
           sent == {i \in Cells : Subtract(i, r.consume) < k}
<1>2. /\ r.consume \in Cells /\ r.supply \in Cells /\ r.mark \in Cells \cup {NoPlace}
  BY DEF Rings
<1>3. /\ k \in 1 .. Size /\ k <= Size - r.consume /\ k <= HeldIn(r)
      /\ HeldIn(r) \in 0 .. Size
      /\ HeldIn(r) = Size - Subtract(r.consume, r.supply)
  <2>1. /\ RingFullConsecutive(r) \in Int /\ RingFullConsecutive(r) <= Size - r.consume
        /\ RingFullConsecutive(r) <= HeldIn(r) /\ HeldIn(r) \in 0 .. Size
    BY FullConsecutive, RoomType
  <2>2. k \in 1 .. Size /\ k <= Size - r.consume /\ k <= HeldIn(r)
    BY <1>1, <1>2, <2>1 DEF Cells
  <2>3. ~RingEmpty(r)
    BY <1>1, <2>1, <2>2 DEF HeldIn, RingEmptyCount
  <2> QED  BY <2>1, <2>2, <2>3 DEF HeldIn, RingEmptyCount
<1>4. /\ q.mark = IF r.mark \in sent THEN NoPlace ELSE r.mark
      /\ c = r.supply => q.consume = 0 /\ q.supply = 0
      /\ c # r.supply => q.consume = c /\ q.supply = r.supply
  BY DEF RingConsumed, RingEmpty, Rings
<1> HIDE DEF q
<1>5. CASE r.mark = NoPlace
  <2>1. u = 0 /\ ~RingAtMark(r) /\ r.mark \notin Cells
    BY <1>1, <1>2, <1>5 DEF UrgentOf, RingAtMark, Cells, NoPlace
  <2>2. q.mark = NoPlace
    BY <1>4, <1>5, <2>1
  <2>3. UrgentOf(q) = 0
    BY <2>2 DEF UrgentOf
  <2> QED  BY <2>1, <2>3 DEF q
<1>6. CASE r.mark # NoPlace /\ RingAtMark(r)
  <2>1. d = 0 /\ r.mark \in Cells /\ k = 1
    BY <1>1, <1>2, <1>6 DEF RingAtMark, Subtract, Cells
  <2>2. u = 1
    BY <1>6, <2>1 DEF UrgentOf
  <2>3. q.mark = NoPlace
    BY <1>4, <2>1
  <2>4. UrgentOf(q) = 0
    BY <2>3 DEF UrgentOf
  <2> QED  BY <1>6, <2>1, <2>2, <2>4 DEF q
<1>7. CASE r.mark # NoPlace /\ ~RingAtMark(r)
  <2>1. r.mark \in Cells /\ d \in 0 .. Size - 1 /\ (r.mark = r.consume <=> d = 0) /\ r.mark # r.consume
    <3>1. 1 \in Int /\ 1 >= 1 /\ 1 <= Size
      BY <1>1
    <3> QED  BY <1>2, <1>7, <3>1, Round DEF RingAtMark
  <2>2. k <= d
    <3>1. RingFullConsecutive(r) = IF r.mark < r.consume THEN Size - r.consume ELSE r.mark - r.consume
      BY <1>7 DEF RingFullConsecutive
    <3>2. /\ r.mark < r.consume => Size - r.consume <= d
          /\ r.mark >= r.consume => d = r.mark - r.consume
      BY <1>2, <1>3, <2>1, RoundMark
    <3>3. r.mark \in Int /\ r.consume \in Int
      BY <1>1, <1>2, <2>1 DEF Cells
    <3> HIDE DEF d
    <3> QED  BY <1>1, <1>3, <2>1, <3>1, <3>2, <3>3
  <2>3. d < HeldIn(r)
    BY <1>7 DEF Ahead
  <2>4. u = d + 1 /\ d \in Nat /\ d >= 1
    BY <1>1, <1>7, <2>1 DEF UrgentOf
  <2>5. q.mark = r.mark
    <3>1. ~(d < k)
      BY <1>1, <1>3, <2>1, <2>2
    <3> QED  BY <1>4, <3>1
  <2>6. c # r.supply
    <3>1. k < HeldIn(r)
      BY <1>1, <1>3, <2>1, <2>2, <2>3
    <3>2. c = r.supply <=> k = HeldIn(r)
      BY <1>2, <1>3, RoundConsume
    <3> QED  BY <1>1, <1>3, <3>1, <3>2
  <2>7. Subtract(r.mark, c) = d - k
    BY <1>2, <1>3, <2>1, <2>2, RoundMark
  <2>8. q.mark # NoPlace /\ q.consume = c
    BY <1>4, <1>7, <2>5, <2>6
  <2>9. UrgentOf(q) = (d - k) + 1
    BY <2>5, <2>7, <2>8 DEF UrgentOf
  <2> HIDE DEF u, d
  <2>10. /\ u \in Nat /\ k < u /\ u # 1 /\ u # 0 /\ UrgentOf(q) = u - k
    BY <1>1, <1>3, <2>1, <2>2, <2>4, <2>9
  <2> QED  BY <1>7, <2>10 DEF u, q
<1> QED  BY <1>5, <1>6, <1>7

(* What netflush() does, with the two branches of the urgent byte told apart. *)
LEMMA FlushCases ==
    ASSUME TypeOK, Netflush
    PROVE  LET r == Ready(ring, on) IN
           /\ UNCHANGED <<on, overrun>>
           /\ \/ \E k \in 1 .. RingFullConsecutive(r), oob \in BOOLEAN :
                    Sent(r, k, oob) /\ (RingAtMark(r) => k = 1) /\ (oob <=> RingAtMark(r))
              \/ ring' = r /\ read' = Silence /\ UNCHANGED decrypts
<1> DEFINE r == Ready(ring, on)
           n == RingFullConsecutive(r)
<1>1. r \in Rings
  BY EncryptOK DEF TypeOK, Ready
<1>2. UNCHANGED <<on, overrun>>
  BY DEF Netflush
<1>3. \/ n > 0 /\ IF RingAtMark(r) THEN Sent(r, 1, TRUE) ELSE \E k \in 1..n : Sent(r, k, FALSE)
      \/ ring' = r /\ read' = Silence /\ UNCHANGED decrypts
  BY DEF Netflush, Ready
<1> HIDE DEF r
<1>4. n \in Int
  BY <1>1, FullConsecutive
<1> HIDE DEF n
<1>5. ASSUME n > 0, RingAtMark(r), Sent(r, 1, TRUE)
      PROVE  \E k \in 1 .. n, oob \in BOOLEAN :
                Sent(r, k, oob) /\ (RingAtMark(r) => k = 1) /\ (oob <=> RingAtMark(r))
  <2>1. 1 \in 1 .. n
    BY <1>4, <1>5
  <2> QED  BY <1>5, <2>1, Zenon
<1>6. ASSUME ~RingAtMark(r), NEW k \in 1 .. n, Sent(r, k, FALSE)
      PROVE  \E j \in 1 .. n, oob \in BOOLEAN :
                Sent(r, j, oob) /\ (RingAtMark(r) => j = 1) /\ (oob <=> RingAtMark(r))
  BY <1>6, Zenon
<1>7. \/ \E k \in 1 .. n, oob \in BOOLEAN :
            Sent(r, k, oob) /\ (RingAtMark(r) => k = 1) /\ (oob <=> RingAtMark(r))
      \/ ring' = r /\ read' = Silence /\ UNCHANGED decrypts
  BY <1>3, <1>5, <1>6, Zenon
<1> QED  BY <1>2, <1>7 DEF r, n

(* What the other side makes of bytes it can read. *)
LEMMA ReadingIs ==
    ASSUME NEW r \in Rings, NEW k \in 1 .. HeldIn(r), NEW units, Len(units) = k,
           \A i \in 1 .. k : units[i] = At(r, i), NEW f,
           \A i \in 1 .. k : Readable(f[i - 1], units[i])
    PROVE  Reading(f, units) = SubSeq(PendingOf(r), 1, k)
<1> DEFINE h == HeldIn(r)
           t == Reading(f, units)
           p == SubSeq(PendingOf(r), 1, k)
<1>1. /\ h \in Nat /\ PendingOf(r) \in Seq(Letters) /\ Len(PendingOf(r)) = h
      /\ \A i \in 1 .. h : PendingOf(r)[i] = At(r, i).byte
  BY PendingType
<1>2. k \in Nat /\ k >= 1 /\ k <= h /\ \A i \in 1 .. k : i \in 1 .. h
  BY <1>1
<1>3. \A i \in 1 .. k : PendingOf(r)[i] \in Letters /\ units[i].byte = PendingOf(r)[i]
  <2> TAKE i \in 1 .. k
  <2>1. i \in 1 .. Len(PendingOf(r))
    BY <1>1, <1>2
  <2> QED  BY <1>1, <1>2, <2>1
<1>4. t = [i \in 1 .. k |-> units[i].byte]
  BY DEF Reading
<1> HIDE DEF t, h
<1>5. t \in Seq(Letters) /\ Len(t) = k /\ \A i \in 1 .. k : t[i] = PendingOf(r)[i]
  <2>1. \A i \in 1 .. k : units[i].byte \in Letters
    BY <1>3
  <2> QED  BY <1>2, <1>3, <1>4, <2>1
<1>6. p \in Seq(Letters) /\ Len(p) = k /\ \A i \in 1 .. k : p[i] = PendingOf(r)[i]
  <2>1. 1 \in Int /\ k \in Int
    BY <1>2
  <2>2. \A i \in 1 .. k : PendingOf(r)[i] \in Letters
    BY <1>3
  <2>3. /\ p \in Seq(Letters)
        /\ Len(p) = IF 1 <= k THEN k - 1 + 1 ELSE 0
        /\ \A i \in 1 .. k - 1 + 1 : p[i] = PendingOf(r)[1 + i - 1]
    BY <2>1, <2>2, SubSeqProperties
  <2> HIDE DEF p
  <2>4. Len(p) = k /\ k - 1 + 1 = k
    BY <1>2, <2>3
  <2>5. \A i \in 1 .. k : 1 + i - 1 = i
    BY <1>2
  <2> QED  BY <2>3, <2>4, <2>5
<1> HIDE DEF p
<1>7. t = p
  BY <1>5, <1>6, Alike
<1> QED  BY <1>7 DEF t, p

(* netflush() delivers what it sends, or does nothing the other side sees. *)
LEMMA FlushStream ==
    ASSUME TypeOK, MarkIsAhead, Legible, ~overrun, Netflush
    PROVE  Legible' /\ (Stream!Deliver \/ Stream!Silent)
<1> DEFINE r == Ready(ring, on)
<1>1. ring \in Rings /\ on \in BOOLEAN /\ decrypts \in BOOLEAN
  BY DEF TypeOK
<1>2. /\ r \in Rings /\ Ahead(r)
      /\ PendingOf(r) = PendingOf(ring) /\ UrgentOf(r) = UrgentOf(ring)
      /\ on => Placed(r) /\ RingEncrypt(r) = r /\ (RingEmpty(r) \/ r.clearto = r.supply)
      /\ Decodes(r, decrypts, on)
  <2>1. Ahead(ring)
    BY DEF MarkIsAhead, Ahead, Held, HeldIn
  <2>2. (on => Placed(ring)) /\ Decodes(r, decrypts, on)
    BY DEF Legible
  <2> HIDE DEF r
  <2>3. CASE on
    <3>1. r = RingEncrypt(ring)
      BY <2>3 DEF r, Ready
    <3> QED  BY <1>1, <2>1, <2>2, <2>3, <3>1, EncryptOK, EncryptAgain, PendingEncrypt
  <2>4. CASE ~on
    <3>1. r = ring
      BY <2>4 DEF r, Ready
    <3> QED  BY <1>1, <2>1, <2>2, <2>4, <3>1
  <2> QED  BY <2>3, <2>4
<1>3. /\ UNCHANGED <<on, overrun>>
      /\ \/ \E k \in 1 .. RingFullConsecutive(r), oob \in BOOLEAN :
               Sent(r, k, oob) /\ (RingAtMark(r) => k = 1) /\ (oob <=> RingAtMark(r))
         \/ ring' = r /\ read' = Silence /\ UNCHANGED decrypts
  BY FlushCases
<1> HIDE DEF r
<1>4. CASE ring' = r /\ read' = Silence /\ UNCHANGED decrypts
  <2>1. Ready(r, on) = r
    BY <1>2 DEF Ready
  <2>2. Legible'
    BY <1>2, <1>3, <1>4, <2>1 DEF Legible
  <2>3. Pending' = Pending /\ UrgentOf(ring)' = UrgentOf(ring)
    BY <1>2, <1>4, PendingIs DEF Pending, PendingOf, Held, HeldIn, At, UrgentOf
  <2>4. Stream!Silent
    BY <1>3, <1>4, <2>3, PendingIs DEF Stream!Silent, UrgentOf
  <2> QED  BY <2>2, <2>4
<1>5. CASE \E k \in 1 .. RingFullConsecutive(r), oob \in BOOLEAN :
              Sent(r, k, oob) /\ (RingAtMark(r) => k = 1) /\ (oob <=> RingAtMark(r))
  <2>1. PICK k \in 1 .. RingFullConsecutive(r), oob \in BOOLEAN :
           Sent(r, k, oob) /\ (RingAtMark(r) => k = 1) /\ (oob <=> RingAtMark(r))
    BY <1>5
  <2> DEFINE h == HeldIn(r)
             units == [i \in 1..k |-> r.buf[r.consume + i - 1]]
             q == RingConsumed(r, k)
  <2>2. /\ Size \in Nat /\ Size > 4
        /\ k \in 1 .. Size /\ k <= Size - r.consume /\ k <= h /\ k \in 1 .. h
        /\ r.consume \in Cells /\ h \in 0 .. Size
    <3>1. /\ RingFullConsecutive(r) \in Int /\ RingFullConsecutive(r) <= Size - r.consume
          /\ RingFullConsecutive(r) <= h
      BY <1>2, FullConsecutive
    <3>2. Size \in Nat /\ Size > 4 /\ r.consume \in Cells /\ h \in 0 .. Size
      BY <1>2, SizeAssumption, RoomType DEF SizeAssumption, Rings
    <3> HIDE DEF h
    <3> QED  BY <3>1, <3>2 DEF Cells
  <2>3. Len(units) = k /\ \A i \in 1 .. k : units[i] = At(r, i)
    <3>1. \A i \in 1 .. k : Increment(r.consume, i - 1) = r.consume + i - 1
      BY <2>2 DEF Increment, Cells
    <3> QED  BY <2>2, <3>1 DEF At
  <2>4. PICK m \in Modes(decrypts, units) :
           /\ ring' = q /\ decrypts' = m[k]
           /\ read' = [text |-> Reading(m, units), oob |-> oob]
    BY <2>1 DEF Sent
  <2> HIDE DEF units, q
  <2>5. /\ HeldIn(q) = h - k
        /\ \A i \in 1 .. h - k : At(q, i) = At(r, k + i)
        /\ r.clearto = r.supply => Placed(q) /\ RingEncrypt(q) = q
    BY <1>2, <2>2, ConsumeCells DEF q
  <2>6. /\ Decodes(q, m[k], on)
        /\ \A i \in 1 .. k : Readable(m[i - 1], units[i])
    <3> HIDE DEF h
    <3>1. k \in 1 .. HeldIn(r) /\ HeldIn(q) = HeldIn(r) - k
          /\ \A i \in 1 .. HeldIn(r) - k : At(q, i) = At(r, k + i)
      BY <2>2, <2>5 DEF h
    <3> QED  BY <1>1, <1>2, <2>3, <3>1, DecodesLess
  <2>7. on => Placed(q) /\ RingEncrypt(q) = q
    <3>1. ~RingEmpty(r)
      BY <2>2 DEF HeldIn, RingEmptyCount
    <3> QED  BY <1>2, <2>5, <3>1
  <2>8. Legible'
    BY <1>3, <2>4, <2>6, <2>7 DEF Legible, Ready
  <2>9. Reading(m, units) = SubSeq(Pending, 1, k)
    BY <1>2, <2>2, <2>3, <2>6, ReadingIs, PendingIs
  <2>10. Pending' = SubSeq(Pending, k + 1, Len(Pending)) /\ Len(Pending) = h
    <3>1. PendingOf(q) = SubSeq(PendingOf(r), k + 1, h)
      BY <1>2, <2>2, PendingConsume DEF q
    <3>2. Pending' = PendingOf(q)
      BY <2>4 DEF Pending, PendingOf, Held, HeldIn, At
    <3>3. Len(Pending) = h
      BY <1>2, PendingType, PendingIs
    <3> HIDE DEF h
    <3> QED  BY <1>2, <3>1, <3>2, <3>3, PendingIs
  <2> DEFINE u == UrgentOf(ring)
  <2>11. /\ u = 0 \/ k < u \/ (u = 1 /\ k = 1)
         /\ oob <=> u = 1
         /\ UrgentOf(ring)' = IF u = 0 THEN 0 ELSE u - k
    <3>1. /\ u = 0 \/ k < u \/ (u = 1 /\ k = 1)
          /\ RingAtMark(r) <=> u = 1
          /\ UrgentOf(q) = IF u = 0 THEN 0 ELSE u - k
      BY <1>2, <2>1, UrgentFlush DEF q
    <3>2. UrgentOf(ring)' = UrgentOf(q)
      BY <2>4 DEF UrgentOf
    <3> HIDE DEF u
    <3> QED  BY <2>1, <3>1, <3>2
  <2>12. k \in 1 .. Len(Pending)
    BY <2>2, <2>10
  <2>13. read' = [text |-> SubSeq(Pending, 1, k), oob |-> u = 1]
    <3>1. oob = (u = 1)
      BY <2>11
    <3> HIDE DEF u
    <3> QED  BY <2>4, <2>9, <3>1
  <2>14. Stream!Deliver
    BY <1>3, <2>10, <2>11, <2>12, <2>13 DEF Stream!Deliver, UrgentOf
  <2> QED  BY <2>8, <2>14
<1> QED  BY <1>3, <1>4, <1>5

(* The empty ring is the empty stream. *)
LEMMA StreamInit == Init => Legible /\ Stream!Init
<1> SUFFICES ASSUME Init PROVE Legible /\ Stream!Init
  OBVIOUS
<1>1. Size \in Nat /\ Size > 4  BY SizeAssumption DEF SizeAssumption
<1>2. RingEmpty(ring) /\ ring.mark = NoPlace /\ on = FALSE /\ decrypts = FALSE
      /\ read = Silence /\ overrun = FALSE
  BY DEF Init, RingInit, RingEmpty
<1>3. HeldIn(ring) = 0 /\ Held = 0
  BY <1>1, <1>2 DEF HeldIn, Held, RingEmptyCount
<1>4. Decodes(ring, FALSE, FALSE)
  <2> DEFINE m == [i \in 0 .. 0 |-> FALSE]
  <2>1. m \in [0 .. 0 -> BOOLEAN] /\ m[0] = FALSE
    OBVIOUS
  <2> HIDE DEF m
  <2> QED  BY <1>3, <2>1 DEF Decodes
<1>5. Legible
  BY <1>2, <1>4 DEF Legible, Ready
<1>6. Pending = << >>
  BY <1>3 DEF Pending
<1>7. Stream!Init
  BY <1>2, <1>6, PendingIs DEF Stream!Init
<1> QED  BY <1>5, <1>7

(* Every step keeps the ring legible and is a step of the stream, or one
   that shows nothing: one case per action. A writer that overtakes the
   reader spoils the stream. *)
LEMMA StreamStep == Inv /\ Legible /\ [Next]_vars => Legible' /\ [Stream!Next]_(Stream!vars)
<1> SUFFICES ASSUME Inv, Legible, [Next]_vars
             PROVE  Legible' /\ [Stream!Next]_(Stream!vars)
  OBVIOUS
<1>1. TypeOK /\ MarkIsAhead
  BY DEF Inv
<1>2. CASE overrun'
  BY <1>2 DEF Legible, Stream!Next, Stream!Spoil
<1>3. CASE UNCHANGED vars
  BY <1>3 DEF vars, Legible, Stream!vars, Pending, Held
<1>4. CASE Next /\ ~overrun'
  <2>1. ~overrun
    BY <1>4 DEF Next, Telsnd, SendOption, GetStatus, Put, Dosynch, EncryptStartOutput, EncryptSendEnd,
                Switch, Netflush
  <2>2. CASE Telsnd
    <3>1. PICK bytes \in {<<"char">>, <<"iac", "iac">>} : Put(bytes)
      BY <2>2 DEF Telsnd
    <3>2. bytes \in Writes \ {<<"start">>, <<"end">>}
      BY DEF Writes
    <3> QED  BY <1>1, <1>4, <2>1, <3>1, <3>2, PutStream DEF Stream!Next
  <2>3. CASE SendOption
    <3>1. <<"iac", "cmd", "opt">> \in Writes \ {<<"start">>, <<"end">>}
      BY DEF Writes
    <3> QED  BY <1>1, <1>4, <2>1, <2>3, <3>1, PutStream DEF SendOption, Stream!Next
  <2>4. CASE GetStatus
    <3>1. <<"iac", "cmd", "opt", "iac">> \in Writes \ {<<"start">>, <<"end">>}
      BY DEF Writes
    <3> QED  BY <1>1, <1>4, <2>1, <2>4, <3>1, PutStream DEF GetStatus, Stream!Next
  <2>5. CASE Dosynch
    BY <1>1, <1>4, <2>1, <2>5, SynchStream DEF Stream!Next
  <2>6. CASE EncryptStartOutput
    <3>1. Switch("start", TRUE)
      BY <2>6, Zenon DEF EncryptStartOutput
    <3> QED  BY <1>1, <1>4, <2>1, <3>1, SwitchStream DEF Stream!Next
  <2>7. CASE EncryptSendEnd
    <3>1. Switch("end", FALSE)
      BY <2>7, Zenon DEF EncryptSendEnd
    <3> QED  BY <1>1, <1>4, <2>1, <3>1, SwitchStream DEF Stream!Next
  <2>8. CASE Netflush
    BY <1>1, <1>4, <2>1, <2>8, FlushStream DEF Stream!Next
  <2> QED  BY <1>4, <2>2, <2>3, <2>4, <2>5, <2>6, <2>7, <2>8 DEF Next
<1> QED  BY <1>2, <1>3, <1>4

(* The ring implements the stream, for every size of it and whatever the
   writers of the client do and the socket takes: until a writer overtakes
   the reader, the other side reads what was written, in order, each byte
   encrypted exactly when it decrypts, and the urgent byte alone. *)
THEOREM ImplementsStreamHolds == Spec => ImplementsStream
<1>1. Init => Inv /\ Legible /\ Stream!Init
  BY InitOK, StreamInit
<1>2. Inv /\ Legible /\ [Next]_vars => (Inv /\ Legible)' /\ [Stream!Next]_(Stream!vars)
  BY StepOK, StreamStep
<1> QED  BY <1>1, <1>2, PTL DEF Spec, ImplementsStream, Stream!Spec
=============================================================================
