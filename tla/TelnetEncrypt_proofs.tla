------------------------ MODULE TelnetEncrypt_proofs ------------------------
(***************************************************************************)
(* Proofs about TelnetEncrypt: whatever two sides write, each reads it     *)
(* under the cipher it was written under, and can read it (Readable).      *)
(*                                                                         *)
(* The invariant speaks of one side as a writer and of the other as its    *)
(* reader.  Nothing is taken for confirmed that the reader has not taken   *)
(* (Promised, Confirmed); and as long as the user leaves the types alone   *)
(* there is only one, so that a START cannot stand for another (OneType,   *)
(* Switches).                                                              *)
(***************************************************************************)
EXTENDS TelnetEncrypt, TLAPS

First == "DES_CFB64"
Free == given \cap ByHand = {}

(* A side that has taken the vector of a type decrypts it from then on, and *)
(* confirms only a vector that it has taken.                                *)
Promised(p) ==
  /\ \A t \in Types : p.dec[t] # FAILED => t \in p.remote_encrypt /\ p.decrypt_mode # None
  /\ \A i \in 1..Len(p.out) :
       /\ p.out[i].say \in {"IS", "REPLY"} => p.out[i].type \in Types
       /\ p.out[i].say = "REPLY" => p.dec[p.out[i].type] # FAILED

(* What p takes for confirmed, and what it writes under, q has taken.       *)
Confirmed(p, q) ==
  /\ p.encrypt_output # None => q.dec[p.encrypt_output] # FAILED
  /\ \A t \in Types :
       p.enc[t] # FAILED /\ "NO_RECV_IV" \notin p.enc[t] => q.dec[t] # FAILED

(* As long as the user leaves the types alone only the first one is used.   *)
OneType(p) ==
  /\ p.i_encrypt = Types /\ p.i_decrypt = Types
  /\ p.encrypt_mode \in {None, First} /\ p.decrypt_mode \in {None, First}
  /\ p.need_start \subseteq {First}
  /\ \A i \in 1..Len(p.out) : p.out[i].say \in {"IS", "REPLY"} => p.out[i].type = First

(* The cipher changes with START, which q has been prepared for, and END.   *)
Switches(p, q) ==
  /\ q.decrypt_input = Under(p, 0)
  /\ \A i \in 1..Len(p.out) :
       /\ p.out[i].say = "START" => Under(p, i) = First /\ q.dec[First] # FAILED
       /\ p.out[i].say = "END" => Under(p, i) = None
       /\ p.out[i].say \notin {"START", "END"} => Under(p, i) = Under(p, i - 1)

(* What p has written, and p itself, are as q needs them to be; free tells  *)
(* whether the user has left the types alone.                               *)
Pair(p, q, free) ==
  /\ Promised(p)
  /\ Confirmed(p, q)
  /\ free => OneType(p) /\ Switches(p, q)

Inv == TypeOK /\ Pair(cli, srv, Free) /\ Pair(srv, cli, Free)
-----------------------------------------------------------------------------
(* What a side does, seen by the other.                                    *)

\* The reader goes on reading under the same cipher, and forgets no vector.
Grown(p, r, free) ==
  /\ \A t \in Types : p.dec[t] # FAILED => r.dec[t] # FAILED
  /\ free => r.decrypt_input = p.decrypt_input

\* r is p after something it has done.
Good(p, r, q, free) == r \in Sides /\ Pair(r, q, free) /\ Grown(p, r, free)

\* The messages of a side are numbered.
LEMMA OutType ==
  ASSUME NEW p \in Sides
  PROVE  p.out \in Seq(Message) /\ Len(p.out) \in Nat
BY DEF Sides

\* A step that does nothing is good.
LEMMA GoodItself ==
  ASSUME NEW p \in Sides, NEW q, NEW free \in BOOLEAN, Pair(p, q, free)
  PROVE  Good(p, p, q, free)
BY DEF Good, Grown

\* One good step after another is one.
LEMMA GoodTrans ==
  ASSUME NEW p, NEW r, NEW s, NEW q, NEW free \in BOOLEAN,
         Good(p, r, q, free), Good(r, s, q, free)
  PROVE  Good(p, s, q, free)
BY DEF Good, Grown

\* What its reader does with a good step does not matter to a writer.
LEMMA ReaderGrows ==
  ASSUME NEW p, NEW r, NEW q \in Sides, NEW free \in BOOLEAN,
         Pair(q, p, free), Grown(p, r, free)
  PROVE  Pair(q, r, free)
<1>1. Confirmed(q, r)
  <2>1. q.encrypt_output \in Types \cup {None}
    BY DEF Sides, Ciphers
  <2> QED BY <2>1 DEF Pair, Confirmed, Grown
<1>2. free => Switches(q, r)
  BY DEF Pair, Switches, Grown, Types, First
<1> QED BY <1>1, <1>2 DEF Pair

-----------------------------------------------------------------------------
(* The primitive steps.                                                    *)

\* A message written comes last, under the cipher in use.
LEMMA WriteType ==
  ASSUME NEW p \in Sides, NEW say \in Says, NEW t \in Types \cup {None}, NEW len \in 0..1
  PROVE  /\ Write(p, say, t, len) \in Sides
         /\ Write(p, say, t, len).out
              = Append(p.out, [say |-> say, type |-> t, len |-> len, enc |-> p.encrypt_output])
<1> DEFINE m == [say |-> say, type |-> t, len |-> len, enc |-> p.encrypt_output]
<1>1. m \in Message
  BY DEF Message, Sides, Ciphers
<1> HIDE DEF m
<1>2. Append(p.out, m) \in Seq(Message)
  BY <1>1, OutType
<1>3. Write(p, say, t, len) = [p EXCEPT !.out = Append(p.out, m)]
  BY DEF Write, m
<1>4. [p EXCEPT !.out = Append(p.out, m)] \in Sides
  BY <1>2 DEF Sides
<1>5. [p EXCEPT !.out = Append(p.out, m)].out = Append(p.out, m)
  BY DEF Sides
<1> QED BY <1>3, <1>4, <1>5 DEF m

\* With one message more the cipher after each of the earlier ones is the same.
LEMMA UnderAppend ==
  ASSUME NEW p \in Sides, NEW r \in Sides, NEW m \in Message, r.out = Append(p.out, m),
         m.enc = p.encrypt_output
  PROVE  /\ Len(r.out) = Len(p.out) + 1 /\ r.out[Len(p.out) + 1] = m
         /\ \A i \in 1..Len(p.out) : r.out[i] = p.out[i]
         /\ \A i \in 0..Len(p.out) : Under(r, i) = Under(p, i)
         /\ Under(r, Len(p.out) + 1) = r.encrypt_output
<1>1. /\ Len(r.out) = Len(p.out) + 1 /\ r.out[Len(p.out) + 1] = m
      /\ \A i \in 1..Len(p.out) : r.out[i] = p.out[i]
      /\ Len(p.out) \in Nat
  BY OutType
<1>2. \A i \in 0..Len(p.out) : Under(r, i) = Under(p, i)
  <2> SUFFICES ASSUME NEW i \in 0..Len(p.out) PROVE Under(r, i) = Under(p, i)
    OBVIOUS
  <2>1. CASE i = Len(p.out)
    BY <1>1, <2>1 DEF Under
  <2>2. CASE i < Len(p.out)
    BY <1>1, <2>2 DEF Under
  <2> QED BY <1>1, <2>1, <2>2
<1> QED BY <1>1, <1>2 DEF Under

\* A step that writes m and leaves the reading half as it is.
LEMMA Wrote ==
  ASSUME NEW p \in Sides, NEW r \in Sides, NEW q \in Sides, NEW free \in BOOLEAN,
         NEW m \in Message,
         Pair(p, q, free), r.out = Append(p.out, m), m.enc = p.encrypt_output,
         r.dec = p.dec, r.decrypt_input = p.decrypt_input, r.decrypt_mode = p.decrypt_mode,
         r.remote_encrypt = p.remote_encrypt, r.enc = p.enc,
         r.i_encrypt = p.i_encrypt, r.i_decrypt = p.i_decrypt, r.need_start = p.need_start,
         m.say \in {"IS", "REPLY"} => m.type \in Types,
         m.say = "REPLY" => p.dec[m.type] # FAILED,
         r.encrypt_output # None => q.dec[r.encrypt_output] # FAILED,
         free =>
           /\ m.say \in {"IS", "REPLY"} => m.type = First
           /\ m.say = "START" => r.encrypt_output = First
           /\ m.say = "END" => r.encrypt_output = None
           /\ m.say \notin {"START", "END"} => r.encrypt_output = p.encrypt_output
           /\ r.encrypt_mode \in {None, First}
  PROVE  Good(p, r, q, free)
<1> DEFINE n == Len(p.out)
<1>1. /\ Len(r.out) = n + 1 /\ r.out[n + 1] = m
      /\ \A i \in 1..n : r.out[i] = p.out[i]
      /\ \A i \in 0..n : Under(r, i) = Under(p, i)
      /\ Under(r, n + 1) = r.encrypt_output
      /\ n \in Nat
  BY UnderAppend, OutType
<1>2. Under(p, n) = p.encrypt_output
  BY DEF Under
<1>3. Promised(p) /\ Confirmed(p, q)
  BY DEF Pair
<1>4. Promised(r)
  BY <1>1, <1>3 DEF Promised
<1>5. Confirmed(r, q)
  BY <1>3 DEF Confirmed
<1>6. ASSUME free
      PROVE  OneType(r) /\ Switches(r, q)
  <2>1. OneType(p) /\ Switches(p, q)
    BY <1>6 DEF Pair
  <2>2. OneType(r)
    BY <1>1, <1>6, <2>1 DEF OneType
  <2>3. q.decrypt_input = Under(r, 0)
    BY <1>1, <2>1 DEF Switches
  <2>4. ASSUME NEW i \in 1..(n + 1)
        PROVE  /\ r.out[i].say = "START" => Under(r, i) = First /\ q.dec[First] # FAILED
               /\ r.out[i].say = "END" => Under(r, i) = None
               /\ r.out[i].say \notin {"START", "END"} => Under(r, i) = Under(r, i - 1)
    <3>1. CASE i = n + 1
      <4>1. Under(r, i - 1) = p.encrypt_output
        BY <1>1, <1>2, <3>1
      <4> QED BY <1>1, <1>6, <3>1, <4>1 DEF First, None
    <3>2. CASE i \in 1..n
      <4>1. i - 1 \in 0..n /\ i \in 0..n
        BY <1>1, <3>2
      <4> QED BY <1>1, <2>1, <3>2, <4>1 DEF Switches
    <3> QED BY <1>1, <2>4, <3>1, <3>2
  <2> QED BY <1>1, <2>2, <2>3, <2>4 DEF Switches
<1> QED BY <1>4, <1>5, <1>6 DEF Pair, Good, Grown

\* A message that is neither START nor END.
LEMMA WriteGood ==
  ASSUME NEW p \in Sides, NEW q \in Sides, NEW free \in BOOLEAN, Pair(p, q, free),
         NEW say \in Says \ {"START", "END"}, NEW t \in Types \cup {None}, NEW len \in 0..1,
         say \in {"IS", "REPLY"} => t \in Types,
         say = "REPLY" => p.dec[t] # FAILED,
         free /\ say \in {"IS", "REPLY"} => t = First
  PROVE  Good(p, Write(p, say, t, len), q, free)
<1> DEFINE r == Write(p, say, t, len)
           m == [say |-> say, type |-> t, len |-> len, enc |-> p.encrypt_output]
<1>0. say \in Says
  OBVIOUS
<1>1. r \in Sides /\ r.out = Append(p.out, m)
  BY <1>0, WriteType, Zenon
<1>2. m \in Message
  BY DEF Message, Sides, Ciphers
<1>3. /\ r.dec = p.dec /\ r.decrypt_input = p.decrypt_input /\ r.decrypt_mode = p.decrypt_mode
      /\ r.remote_encrypt = p.remote_encrypt /\ r.enc = p.enc
      /\ r.i_encrypt = p.i_encrypt /\ r.i_decrypt = p.i_decrypt /\ r.need_start = p.need_start
      /\ r.encrypt_output = p.encrypt_output /\ r.encrypt_mode = p.encrypt_mode
  BY DEF Write, Sides
<1>4. m.say = say /\ m.type = t /\ m.enc = p.encrypt_output
  OBVIOUS
<1> HIDE DEF r, m
<1>5. p.encrypt_output # None => q.dec[p.encrypt_output] # FAILED
  BY DEF Pair, Confirmed
<1>6. free => p.encrypt_mode \in {None, First}
  BY DEF Pair, OneType
<1> QED BY <1>1, <1>2, <1>3, <1>4, <1>5, <1>6, Wrote DEF r

\* START and the switch, to a type that the reader is prepared for.
LEMMA SwitchOnGood ==
  ASSUME NEW p \in Sides, NEW q \in Sides, NEW free \in BOOLEAN, Pair(p, q, free),
         NEW t \in Types, q.dec[t] # FAILED, free => t = First
  PROVE  Good(p, SwitchOn(p, t), q, free)
<1> DEFINE w == Write(p, "START", None, p.enc_keylen)
           r == SwitchOn(p, t)
           m == [say |-> "START", type |-> None, len |-> p.enc_keylen, enc |-> p.encrypt_output]
<1>0. p.enc_keylen \in 0..1 /\ "START" \in Says /\ None \in Types \cup {None}
  BY DEF Sides, Says
<1>1. w \in Sides /\ w.out = Append(p.out, m)
  BY <1>0, WriteType, Zenon
<1>2. m \in Message
  BY <1>0 DEF Message, Sides, Ciphers
<1>3. /\ w.dec = p.dec /\ w.decrypt_input = p.decrypt_input /\ w.decrypt_mode = p.decrypt_mode
      /\ w.remote_encrypt = p.remote_encrypt /\ w.enc = p.enc
      /\ w.i_encrypt = p.i_encrypt /\ w.i_decrypt = p.i_decrypt /\ w.need_start = p.need_start
  BY DEF Write, Sides
<1>4. m.say = "START" /\ m.enc = p.encrypt_output
  OBVIOUS
<1>5. r = [w EXCEPT !.encrypt_output = t, !.encrypt_mode = t]
  BY DEF SwitchOn
<1> HIDE DEF w, r, m
<1>6. /\ r \in Sides /\ r.out = w.out /\ r.encrypt_output = t /\ r.encrypt_mode = t
      /\ r.dec = w.dec /\ r.decrypt_input = w.decrypt_input /\ r.decrypt_mode = w.decrypt_mode
      /\ r.remote_encrypt = w.remote_encrypt /\ r.enc = w.enc
      /\ r.i_encrypt = w.i_encrypt /\ r.i_decrypt = w.i_decrypt /\ r.need_start = w.need_start
  BY <1>1, <1>5 DEF Sides, Ciphers
<1> QED BY <1>1, <1>2, <1>3, <1>4, <1>6, Wrote DEF r

\* END, if there is anything to end.
LEMMA SendEndGood ==
  ASSUME NEW p \in Sides, NEW q \in Sides, NEW free \in BOOLEAN, Pair(p, q, free)
  PROVE  Good(p, SendEnd(p), q, free)
<1>1. CASE p.encrypt_output = None
  BY <1>1, GoodItself DEF SendEnd
<1>2. CASE p.encrypt_output # None
  <2> DEFINE w == Write(p, "END", None, 0)
             r == [w EXCEPT !.encrypt_output = None]
             m == [say |-> "END", type |-> None, len |-> 0, enc |-> p.encrypt_output]
  <2>0. 0 \in 0..1 /\ "END" \in Says /\ None \in Types \cup {None}
    BY DEF Says
  <2>1. w \in Sides /\ w.out = Append(p.out, m)
    BY <2>0, WriteType, Zenon
  <2>2. m \in Message
    BY <2>0 DEF Message, Sides, Ciphers
  <2>3. /\ w.dec = p.dec /\ w.decrypt_input = p.decrypt_input /\ w.decrypt_mode = p.decrypt_mode
        /\ w.remote_encrypt = p.remote_encrypt /\ w.enc = p.enc /\ w.encrypt_mode = p.encrypt_mode
        /\ w.i_encrypt = p.i_encrypt /\ w.i_decrypt = p.i_decrypt /\ w.need_start = p.need_start
    BY DEF Write, Sides
  <2>4. m.say = "END" /\ m.enc = p.encrypt_output
    OBVIOUS
  <2>5. SendEnd(p) = r
    BY <1>2 DEF SendEnd
  <2> HIDE DEF w, m
  <2>6. /\ r \in Sides /\ r.out = w.out /\ r.encrypt_output = None
        /\ r.dec = w.dec /\ r.decrypt_input = w.decrypt_input /\ r.decrypt_mode = w.decrypt_mode
        /\ r.remote_encrypt = w.remote_encrypt /\ r.enc = w.enc /\ r.encrypt_mode = w.encrypt_mode
        /\ r.i_encrypt = w.i_encrypt /\ r.i_decrypt = w.i_decrypt /\ r.need_start = w.need_start
    BY <2>1 DEF Sides, Ciphers
  <2> HIDE DEF r
  <2>7. free => p.encrypt_mode \in {None, First}
    BY DEF Pair, OneType
  <2> QED BY <2>1, <2>2, <2>3, <2>4, <2>5, <2>6, <2>7, Wrote
<1> QED BY <1>1, <1>2

\* A step that writes nothing: vectors may be taken, confirmations may come.
Adjusts(p, r, q, free) ==
  /\ r.out = p.out /\ r.encrypt_output = p.encrypt_output
  /\ \A t \in Types : p.dec[t] # FAILED => r.dec[t] # FAILED
  /\ \A t \in Types : r.dec[t] # FAILED => t \in r.remote_encrypt /\ r.decrypt_mode # None
  /\ \A t \in Types : r.enc[t] # FAILED /\ "NO_RECV_IV" \notin r.enc[t] => q.dec[t] # FAILED
  /\ free =>
       /\ r.decrypt_input = p.decrypt_input
       /\ r.i_encrypt = Types /\ r.i_decrypt = Types
       /\ r.encrypt_mode \in {None, First} /\ r.decrypt_mode \in {None, First}
       /\ r.need_start \subseteq {First}
LEMMA Adjusted ==
  ASSUME NEW p \in Sides, NEW r \in Sides, NEW q \in Sides, NEW free \in BOOLEAN,
         Pair(p, q, free), Adjusts(p, r, q, free)
  PROVE  Good(p, r, q, free)
<1> USE DEF Adjusts
<1>1. Promised(r)
  BY DEF Pair, Promised
<1>2. Confirmed(r, q)
  BY DEF Pair, Confirmed
<1>3. ASSUME free
      PROVE  OneType(r) /\ Switches(r, q)
  <2>1. OneType(p) /\ Switches(p, q)
    BY <1>3 DEF Pair
  <2>2. OneType(r)
    BY <1>3, <2>1 DEF OneType
  <2>3. \A i \in Nat : Under(r, i) = Under(p, i)
    BY DEF Under
  <2>4. Switches(r, q)
    <3>1. Len(p.out) \in Nat /\ \A i \in 1..Len(p.out) : i \in Nat /\ i - 1 \in Nat
      BY OutType
    <3> QED BY <2>1, <2>3, <3>1 DEF Switches
  <2> QED BY <2>2, <2>4
<1> QED BY <1>1, <1>2, <1>3 DEF Pair, Good, Grown

\* All of a side that the other depends on.
Core(p) ==
  <<p.out, p.enc, p.dec, p.encrypt_output, p.decrypt_input, p.encrypt_mode, p.decrypt_mode,
    p.remote_encrypt, p.i_encrypt, p.i_decrypt, p.need_start>>

\* A step that changes nothing of it.
LEMMA BesideGood ==
  ASSUME NEW p \in Sides, NEW r \in Sides, NEW q \in Sides, NEW free \in BOOLEAN,
         Pair(p, q, free), Core(r) = Core(p)
  PROVE  Good(p, r, q, free)
<1>1. /\ r.out = p.out /\ r.enc = p.enc /\ r.dec = p.dec /\ r.encrypt_output = p.encrypt_output
      /\ r.decrypt_input = p.decrypt_input /\ r.encrypt_mode = p.encrypt_mode
      /\ r.decrypt_mode = p.decrypt_mode /\ r.remote_encrypt = p.remote_encrypt
      /\ r.i_encrypt = p.i_encrypt /\ r.i_decrypt = p.i_decrypt /\ r.need_start = p.need_start
  BY DEF Core
<1>2. /\ \A t \in Types : p.dec[t] # FAILED => t \in p.remote_encrypt /\ p.decrypt_mode # None
      /\ \A t \in Types : p.enc[t] # FAILED /\ "NO_RECV_IV" \notin p.enc[t] => q.dec[t] # FAILED
  BY DEF Pair, Promised, Confirmed
<1>3. /\ \A t \in Types : p.dec[t] # FAILED => r.dec[t] # FAILED
      /\ \A t \in Types : r.dec[t] # FAILED => t \in r.remote_encrypt /\ r.decrypt_mode # None
      /\ \A t \in Types : r.enc[t] # FAILED /\ "NO_RECV_IV" \notin r.enc[t] => q.dec[t] # FAILED
  BY <1>1, <1>2
<1>4. free => /\ p.i_encrypt = Types /\ p.i_decrypt = Types
              /\ p.encrypt_mode \in {None, First} /\ p.decrypt_mode \in {None, First}
              /\ p.need_start \subseteq {First}
  BY DEF Pair, OneType
<1>5. free => /\ r.decrypt_input = p.decrypt_input
              /\ r.i_encrypt = Types /\ r.i_decrypt = Types
              /\ r.encrypt_mode \in {None, First} /\ r.decrypt_mode \in {None, First}
              /\ r.need_start \subseteq {First}
  BY <1>1, <1>4
<1> QED BY <1>1, <1>3, <1>5, Adjusted, Zenon DEF Adjusts

\* Nor does the other depend on the length of a key id.
LEMMA KeylenBeside ==
  ASSUME NEW p \in Sides, NEW len \in 0..1, NEW r,
         r = [p EXCEPT !.enc_keylen = len] \/ r = [p EXCEPT !.dec_keylen = len]
  PROVE  r \in Sides /\ Core(r) = Core(p)
<1>1. CASE r = [p EXCEPT !.enc_keylen = len]
  <2>1. r \in Sides
    BY <1>1 DEF Sides
  <2>2. Core(r) = Core(p)
    BY <1>1 DEF Sides, Core
  <2> QED BY <2>1, <2>2
<1>2. CASE r = [p EXCEPT !.dec_keylen = len]
  <2>1. r \in Sides
    BY <1>2 DEF Sides
  <2>2. Core(r) = Core(p)
    BY <1>2 DEF Sides, Core
  <2> QED BY <2>1, <2>2
<1> QED BY <1>1, <1>2

\* A step of the writing half: another state for one type, which is not that of
\* a confirmed vector unless the reader has taken it.
LEMMA EncGood ==
  ASSUME NEW p \in Sides, NEW r \in Sides, NEW q \in Sides, NEW free \in BOOLEAN,
         Pair(p, q, free), NEW t \in Types, NEW state \in StreamState,
         r.enc = [p.enc EXCEPT ![t] = state],
         state # FAILED /\ "NO_RECV_IV" \notin state => q.dec[t] # FAILED,
         r.out = p.out, r.dec = p.dec, r.encrypt_output = p.encrypt_output,
         r.decrypt_input = p.decrypt_input, r.decrypt_mode = p.decrypt_mode,
         r.remote_encrypt = p.remote_encrypt,
         free =>
           /\ r.i_encrypt = Types /\ r.i_decrypt = Types
           /\ r.encrypt_mode \in {None, First} /\ r.need_start \subseteq {First}
  PROVE  Good(p, r, q, free)
<1>1. \A u \in Types : p.dec[u] # FAILED => u \in p.remote_encrypt /\ p.decrypt_mode # None
  BY DEF Pair, Promised
<1>2. \A u \in Types : r.enc[u] # FAILED /\ "NO_RECV_IV" \notin r.enc[u] => q.dec[u] # FAILED
  <2>1. p.enc \in [Types -> StreamState]
    BY DEF Sides
  <2>2. \A u \in Types : r.enc[u] = IF u = t THEN state ELSE p.enc[u]
    BY <2>1
  <2> QED BY <2>2 DEF Pair, Confirmed
<1>3. free => p.decrypt_mode \in {None, First}
  BY DEF Pair, OneType
<1>4. /\ \A u \in Types : p.dec[u] # FAILED => r.dec[u] # FAILED
      /\ \A u \in Types : r.dec[u] # FAILED => u \in r.remote_encrypt /\ r.decrypt_mode # None
  BY <1>1
<1>5. free => /\ r.decrypt_input = p.decrypt_input
              /\ r.i_encrypt = Types /\ r.i_decrypt = Types
              /\ r.encrypt_mode \in {None, First} /\ r.decrypt_mode \in {None, First}
              /\ r.need_start \subseteq {First}
  BY <1>3
<1>6. Adjusts(p, r, q, free)
  BY <1>2, <1>4, <1>5, Zenon DEF Adjusts
<1> QED BY <1>6, Adjusted

-----------------------------------------------------------------------------
(* What the handlers are made of.                                          *)

\* A state of a stream.
LEMMA StreamType ==
  /\ IN_PROGRESS \in SUBSET Steps /\ SUCCESS \in SUBSET Steps
  /\ SUCCESS # FAILED /\ "NO_RECV_IV" \in IN_PROGRESS /\ "NO_RECV_IV" \notin SUCCESS
  /\ \A x \in SUBSET Steps : x # FAILED /\ x \in StreamState
  /\ \A x \in StreamState : x # FAILED => x \in SUBSET Steps
<1>1. "FAILED" \in FAILED /\ "FAILED" \notin Steps
  BY DEF FAILED, Steps
<1>2. \A x \in SUBSET Steps : x # FAILED
  BY <1>1
<1> QED BY <1>2 DEF StreamState, IN_PROGRESS, Steps, SUCCESS

\* The vector is made up and sent.
LEMMA StartFbGood ==
  ASSUME NEW p \in Sides, NEW q \in Sides, NEW free \in BOOLEAN, Pair(p, q, free),
         NEW t \in Types, free => t = First
  PROVE  Good(p, StartFb(p, t), q, free)
<1> DEFINE state == IF p.enc[t] = FAILED THEN IN_PROGRESS ELSE p.enc[t]
           wait == [p EXCEPT !.need_start = @ \cup {t}, !.enc[t] = state]
           sent == (state \ {"NO_SEND_IV"}) \cup {"NO_RECV_IV"}
           made == [p EXCEPT !.enc[t] = sent]
<1>1. p.enc[t] \in StreamState /\ p.enc \in [Types -> StreamState] /\ p.need_start \subseteq Types
  BY DEF Sides
<1>2. /\ state \in SUBSET Steps /\ state \in StreamState
      /\ "NO_RECV_IV" \notin state => q.dec[t] # FAILED
  BY <1>1, StreamType DEF Pair, Confirmed
<1>3. sent \in SUBSET Steps /\ sent \in StreamState /\ "NO_RECV_IV" \in sent
  BY <1>2, StreamType DEF Steps
<1>4. CASE "NO_SEND_IV" \notin state
  <2>1. StartFb(p, t) = p
    BY <1>4 DEF StartFb
  <2> QED BY <2>1, GoodItself
<1>5. CASE "NO_SEND_IV" \in state /\ ~p.havesessionkey
  <2>1. StartFb(p, t) = wait
    BY <1>5 DEF StartFb
  <2> HIDE DEF state
  <2>2. /\ wait \in Sides /\ wait.enc = [p.enc EXCEPT ![t] = state]
        /\ wait.need_start = p.need_start \cup {t}
        /\ wait.out = p.out /\ wait.dec = p.dec /\ wait.encrypt_output = p.encrypt_output
        /\ wait.decrypt_input = p.decrypt_input /\ wait.decrypt_mode = p.decrypt_mode
        /\ wait.remote_encrypt = p.remote_encrypt
        /\ wait.i_encrypt = p.i_encrypt /\ wait.i_decrypt = p.i_decrypt
        /\ wait.encrypt_mode = p.encrypt_mode
    BY <1>1, <1>2 DEF Sides
  <2> HIDE DEF wait
  <2>3. free => /\ wait.i_encrypt = Types /\ wait.i_decrypt = Types
                /\ wait.encrypt_mode \in {None, First} /\ wait.need_start \subseteq {First}
    BY <2>2 DEF Pair, OneType
  <2> QED BY <1>2, <2>1, <2>2, <2>3, EncGood
<1>6. CASE "NO_SEND_IV" \in state /\ p.havesessionkey
  <2>1. StartFb(p, t) = Write(made, "IS", t, 0)
    BY <1>6 DEF StartFb
  <2> HIDE DEF state, sent
  <2>2. /\ made \in Sides /\ made.enc = [p.enc EXCEPT ![t] = sent]
        /\ made.need_start = p.need_start
        /\ made.out = p.out /\ made.dec = p.dec /\ made.encrypt_output = p.encrypt_output
        /\ made.decrypt_input = p.decrypt_input /\ made.decrypt_mode = p.decrypt_mode
        /\ made.remote_encrypt = p.remote_encrypt
        /\ made.i_encrypt = p.i_encrypt /\ made.i_decrypt = p.i_decrypt
        /\ made.encrypt_mode = p.encrypt_mode
    BY <1>1, <1>3 DEF Sides
  <2> HIDE DEF made
  <2>3. free => /\ made.i_encrypt = Types /\ made.i_decrypt = Types
                /\ made.encrypt_mode \in {None, First} /\ made.need_start \subseteq {First}
    BY <2>2 DEF Pair, OneType
  <2>4. Good(p, made, q, free)
    BY <1>3, <2>2, <2>3, EncGood
  <2>5. Good(made, Write(made, "IS", t, 0), q, free)
    <3>1. "IS" \in Says \ {"START", "END"} /\ 0 \in 0..1 /\ t \in Types \cup {None}
      BY DEF Says
    <3>2. Pair(made, q, free)
      BY <2>4 DEF Good
    <3> QED BY <2>2, <3>1, <3>2, WriteGood
  <2> QED BY <2>1, <2>4, <2>5, GoodTrans
<1> QED BY <1>4, <1>5, <1>6

\* A good step leaves a side that can take another.
LEMMA GoodSide ==
  ASSUME NEW p, NEW r, NEW q, NEW free \in BOOLEAN, Good(p, r, q, free)
  PROVE  r \in Sides /\ Pair(r, q, free)
BY DEF Good

\* Output is switched on only when the vector has been confirmed.
LEMMA StartOutputGood ==
  ASSUME NEW p \in Sides, NEW q \in Sides, NEW free \in BOOLEAN, Pair(p, q, free),
         NEW t, t \in CanEncrypt(p) /\ free => t = First
  PROVE  Good(p, StartOutput(p, t), q, free)
<1>1. CASE t \notin CanEncrypt(p)
  BY <1>1, GoodItself DEF StartOutput
<1>2. CASE t \in CanEncrypt(p)
  <2> DEFINE r == StartFb(p, t)
  <2>1. t \in Types /\ (free => t = First)
    BY <1>2 DEF CanEncrypt, Sides
  <2>2. Good(p, r, q, free)
    BY <2>1, StartFbGood
  <2>3. StartOutput(p, t) = IF r.enc[t] = SUCCESS THEN SwitchOn(r, t) ELSE r
    BY <1>2 DEF StartOutput
  <2> HIDE DEF r
  <2>4. r \in Sides /\ Pair(r, q, free)
    BY <2>2, GoodSide
  <2>5. CASE r.enc[t] = SUCCESS
    <3>1. q.dec[t] # FAILED
      BY <2>1, <2>4, <2>5, StreamType DEF Pair, Confirmed
    <3>2. Good(r, SwitchOn(r, t), q, free)
      BY <2>1, <2>4, <3>1, SwitchOnGood
    <3> QED BY <2>2, <2>3, <2>5, <3>2, GoodTrans
  <2>6. CASE r.enc[t] # SUCCESS
    BY <2>2, <2>3, <2>6
  <2> QED BY <2>5, <2>6
<1> QED BY <1>1, <1>2

\* A message that has no type.
LEMMA SaysGood ==
  ASSUME NEW p \in Sides, NEW q \in Sides, NEW free \in BOOLEAN, Pair(p, q, free),
         NEW say \in Says \ {"START", "END", "IS", "REPLY"}, NEW len \in 0..1
  PROVE  Good(p, Write(p, say, None, len), q, free)
<1>1. say \in Says \ {"START", "END"} /\ None \in Types \cup {None} /\ say \notin {"IS", "REPLY"}
  OBVIOUS
<1> QED BY <1>1, WriteGood

\* The requests for START and END.
LEMMA RequestsGood ==
  ASSUME NEW p \in Sides, NEW q \in Sides, NEW free \in BOOLEAN, Pair(p, q, free)
  PROVE  /\ Good(p, SendRequestStart(p), q, free)
         /\ Good(p, SendRequestEnd(p), q, free)
<1>1. p.dec_keylen \in 0..1 /\ 0 \in 0..1
  BY DEF Sides
<1>2. /\ "REQSTART" \in Says \ {"START", "END", "IS", "REPLY"}
      /\ "REQEND" \in Says \ {"START", "END", "IS", "REPLY"}
  BY DEF Says
<1> QED BY <1>1, <1>2, SaysGood DEF SendRequestStart, SendRequestEnd

\* The list of types is sent, once.
LEMMA SendSupportGood ==
  ASSUME NEW p \in Sides, NEW q \in Sides, NEW free \in BOOLEAN, Pair(p, q, free)
  PROVE  Good(p, SendSupport(p), q, free)
<1> DEFINE a == IF ~p.server /\ p.autodecrypt THEN SendRequestStart(p) ELSE p
           b == Write(a, "SUPPORT", None, 0)
           c == [b EXCEPT !.support = FALSE]
<1>1. CASE ~p.support
  BY <1>1, GoodItself DEF SendSupport
<1>2. CASE p.support
  <2>1. Good(p, a, q, free)
    BY RequestsGood, GoodItself
  <2>2. SendSupport(p) = c
    BY <1>2 DEF SendSupport
  <2> HIDE DEF a
  <2>3. Good(a, b, q, free)
    <3>1. "SUPPORT" \in Says \ {"START", "END", "IS", "REPLY"} /\ 0 \in 0..1
      BY DEF Says
    <3> QED BY <2>1, <3>1, GoodSide, SaysGood
  <2> HIDE DEF b
  <2>4. b \in Sides /\ Pair(b, q, free)
    BY <2>3, GoodSide
  <2>5. c \in Sides /\ Core(c) = Core(b)
    BY <2>4 DEF Sides, Core
  <2>6. Good(b, c, q, free)
    BY <2>4, <2>5, BesideGood
  <2> QED BY <2>1, <2>2, <2>3, <2>6, GoodTrans
<1> QED BY <1>1, <1>2

\* The session key starts the types that have waited for it.
LEMMA StartIfNeededGood ==
  ASSUME NEW p \in Sides, NEW q \in Sides, NEW free \in BOOLEAN, Pair(p, q, free), NEW t \in Types
  PROVE  Good(p, StartIfNeeded(p, t), q, free)
<1> DEFINE r == [p EXCEPT !.need_start = @ \ {t}]
<1>1. CASE t \notin p.need_start
  BY <1>1, GoodItself DEF StartIfNeeded
<1>2. CASE t \in p.need_start
  <2>1. StartIfNeeded(p, t) = StartFb(r, t)
    BY <1>2 DEF StartIfNeeded
  <2>2. /\ r \in Sides /\ r.need_start = p.need_start \ {t}
        /\ r.out = p.out /\ r.enc = p.enc /\ r.dec = p.dec /\ r.encrypt_output = p.encrypt_output
        /\ r.decrypt_input = p.decrypt_input /\ r.encrypt_mode = p.encrypt_mode
        /\ r.decrypt_mode = p.decrypt_mode /\ r.remote_encrypt = p.remote_encrypt
        /\ r.i_encrypt = p.i_encrypt /\ r.i_decrypt = p.i_decrypt
    BY DEF Sides
  <2> HIDE DEF r
  <2>3. free => /\ p.i_encrypt = Types /\ p.i_decrypt = Types /\ t = First
                /\ p.encrypt_mode \in {None, First} /\ p.decrypt_mode \in {None, First}
                /\ p.need_start \subseteq {First}
    BY <1>2 DEF Pair, OneType
  <2>4. /\ \A u \in Types : p.dec[u] # FAILED => u \in p.remote_encrypt /\ p.decrypt_mode # None
        /\ \A u \in Types : p.enc[u] # FAILED /\ "NO_RECV_IV" \notin p.enc[u] => q.dec[u] # FAILED
    BY DEF Pair, Promised, Confirmed
  <2>5. Good(p, r, q, free)
    BY <2>2, <2>3, <2>4, Adjusted DEF Adjusts
  <2>6. Good(r, StartFb(r, t), q, free)
    BY <2>3, <2>5, GoodSide, StartFbGood
  <2> QED BY <2>1, <2>5, <2>6, GoodTrans
<1> QED BY <1>1, <1>2

\* The session key arrives.
LEMMA SessionKeyGood ==
  ASSUME NEW p \in Sides, NEW q \in Sides, NEW free \in BOOLEAN, Pair(p, q, free)
  PROVE  Good(p, SessionKey(p), q, free)
<1> DEFINE a == [p EXCEPT !.havesessionkey = TRUE]
           b == StartIfNeeded(a, TypeOrder[1])
           c == StartIfNeeded(b, TypeOrder[2])
<1>0. TypeOrder[1] \in Types /\ TypeOrder[2] \in Types
  BY DEF TypeOrder, Types
<1>1. a \in Sides /\ Core(a) = Core(p)
  BY DEF Sides, Core
<1>2. SessionKey(p) = c
  BY DEF SessionKey
<1> HIDE DEF a
<1>3. Good(p, a, q, free)
  BY <1>1, BesideGood
<1>4. Good(a, b, q, free)
  BY <1>0, <1>3, GoodSide, StartIfNeededGood
<1> HIDE DEF b
<1>5. Good(b, c, q, free)
  BY <1>0, <1>4, GoodSide, StartIfNeededGood
<1> HIDE DEF c
<1> QED BY <1>2, <1>3, <1>4, <1>5, GoodTrans
-----------------------------------------------------------------------------
(* What is done with a message.                                            *)

\* The types of the other side are looked through for the first in common.
LEMMA SupportGood ==
  ASSUME NEW p \in Sides, NEW q \in Sides, NEW free \in BOOLEAN, Pair(p, q, free)
  PROVE  Good(p, Support(p), q, free)
<1> DEFINE r == [p EXCEPT !.remote_decrypt = p.i_encrypt]
           t == IF TypeOrder[1] \in p.i_encrypt THEN TypeOrder[1] ELSE TypeOrder[2]
           f == StartFb(r, t)
           g == [f EXCEPT !.encrypt_mode = t]
<1>1. t \in Types /\ (free => t = First)
  BY DEF TypeOrder, Types, First, Pair, OneType
<1>2. r \in Sides /\ Core(r) = Core(p)
  BY DEF Sides, Core
<1>3. Support(p) = IF p.i_encrypt = {} THEN r
                   ELSE IF g.enc[t] = SUCCESS THEN StartOutput(g, t) ELSE g
  BY DEF Support
<1> HIDE DEF r, t
<1>4. Good(p, r, q, free)
  BY <1>2, BesideGood
<1>5. Good(r, f, q, free)
  BY <1>1, <1>4, GoodSide, StartFbGood
<1> HIDE DEF f
<1>6. f \in Sides /\ Pair(f, q, free)
  BY <1>5, GoodSide
<1>7. Good(f, g, q, free)
  <2>1. /\ g \in Sides /\ g.encrypt_mode = t
        /\ g.out = f.out /\ g.enc = f.enc /\ g.dec = f.dec /\ g.encrypt_output = f.encrypt_output
        /\ g.decrypt_input = f.decrypt_input /\ g.need_start = f.need_start
        /\ g.decrypt_mode = f.decrypt_mode /\ g.remote_encrypt = f.remote_encrypt
        /\ g.i_encrypt = f.i_encrypt /\ g.i_decrypt = f.i_decrypt
    BY <1>1, <1>6 DEF Sides, Ciphers
  <2> HIDE DEF g
  <2>2. /\ \A u \in Types : f.dec[u] # FAILED => u \in f.remote_encrypt /\ f.decrypt_mode # None
        /\ \A u \in Types : f.enc[u] # FAILED /\ "NO_RECV_IV" \notin f.enc[u] => q.dec[u] # FAILED
    BY <1>6 DEF Pair, Promised, Confirmed
  <2>3. free => /\ f.i_encrypt = Types /\ f.i_decrypt = Types
                /\ f.decrypt_mode \in {None, First} /\ f.need_start \subseteq {First}
    BY <1>6 DEF Pair, OneType
  <2> QED BY <1>1, <1>6, <2>1, <2>2, <2>3, Adjusted DEF Adjusts
<1> HIDE DEF g
<1>8. Good(g, StartOutput(g, t), q, free)
  BY <1>1, <1>7, GoodSide, StartOutputGood
<1> QED BY <1>3, <1>4, <1>5, <1>7, <1>8, GoodTrans

\* A vector is taken and confirmed.
LEMMA IsGood ==
  ASSUME NEW p \in Sides, NEW q \in Sides, NEW free \in BOOLEAN, Pair(p, q, free),
         NEW t \in Types, free => t = First
  PROVE  Good(p, Is(p, t), q, free)
<1> DEFINE a == [p EXCEPT !.remote_encrypt = @ \cup {t}]
           b == [p EXCEPT !.remote_encrypt = @ \cup {t}, !.dec[t] = IN_PROGRESS, !.decrypt_mode = t]
<1>1. /\ a \in Sides /\ a.remote_encrypt = p.remote_encrypt \cup {t}
      /\ a.out = p.out /\ a.enc = p.enc /\ a.dec = p.dec /\ a.encrypt_output = p.encrypt_output
      /\ a.decrypt_input = p.decrypt_input /\ a.encrypt_mode = p.encrypt_mode
      /\ a.decrypt_mode = p.decrypt_mode /\ a.need_start = p.need_start
      /\ a.i_encrypt = p.i_encrypt /\ a.i_decrypt = p.i_decrypt
  BY DEF Sides
<1>2. /\ b \in Sides /\ b.remote_encrypt = p.remote_encrypt \cup {t} /\ b.decrypt_mode = t
      /\ b.dec = [p.dec EXCEPT ![t] = IN_PROGRESS]
      /\ b.out = p.out /\ b.enc = p.enc /\ b.encrypt_output = p.encrypt_output
      /\ b.decrypt_input = p.decrypt_input /\ b.encrypt_mode = p.encrypt_mode
      /\ b.need_start = p.need_start /\ b.i_encrypt = p.i_encrypt /\ b.i_decrypt = p.i_decrypt
  <2>1. /\ p.dec \in [Types -> StreamState]
        /\ [p.dec EXCEPT ![t] = IN_PROGRESS] \in [Types -> StreamState]
        /\ p.remote_encrypt \cup {t} \in SUBSET Types /\ t \in Ciphers
    <3>1. IN_PROGRESS \in StreamState
      BY StreamType
    <3> QED BY <3>1 DEF Sides, Ciphers
  <2>2. b = [p EXCEPT !.remote_encrypt = p.remote_encrypt \cup {t},
                      !.dec = [p.dec EXCEPT ![t] = IN_PROGRESS], !.decrypt_mode = t]
    OBVIOUS
  <2> HIDE DEF b
  <2> QED BY <2>1, <2>2 DEF Sides
<1>3. \A u \in Types : b.dec[u] = IF u = t THEN IN_PROGRESS ELSE p.dec[u]
  BY <1>2 DEF Sides
<1>4. Is(p, t) = IF t \notin CanDecrypt(a) THEN a ELSE Write(b, "REPLY", t, 0)
  <2>1. [Write(a, "REPLY", t, 0) EXCEPT !.dec[t] = IN_PROGRESS, !.decrypt_mode = t]
          = Write(b, "REPLY", t, 0)
    BY DEF Write, Sides
  <2> QED BY <2>1 DEF Is
<1> HIDE DEF a, b
<1>5. /\ \A u \in Types : p.dec[u] # FAILED => u \in p.remote_encrypt /\ p.decrypt_mode # None
      /\ \A u \in Types : p.enc[u] # FAILED /\ "NO_RECV_IV" \notin p.enc[u] => q.dec[u] # FAILED
  BY DEF Pair, Promised, Confirmed
<1>6. free => /\ p.i_encrypt = Types /\ p.i_decrypt = Types
              /\ p.encrypt_mode \in {None, First} /\ p.decrypt_mode \in {None, First}
              /\ p.need_start \subseteq {First}
  BY DEF Pair, OneType
<1>7. Good(p, a, q, free)
  BY <1>1, <1>5, <1>6, Adjusted DEF Adjusts
<1>8. Good(p, b, q, free)
  <2>1. t # None /\ IN_PROGRESS # FAILED
    BY StreamType DEF Types, None
  <2>2. /\ \A u \in Types : p.dec[u] # FAILED => b.dec[u] # FAILED
        /\ \A u \in Types : b.dec[u] # FAILED => u \in b.remote_encrypt /\ b.decrypt_mode # None
        /\ \A u \in Types : b.enc[u] # FAILED /\ "NO_RECV_IV" \notin b.enc[u] => q.dec[u] # FAILED
    BY <1>2, <1>3, <1>5, <2>1
  <2>3. b \in Sides /\ b.out = p.out /\ b.encrypt_output = p.encrypt_output
    BY <1>2
  <2>4. free => /\ b.decrypt_input = p.decrypt_input
                /\ b.i_encrypt = Types /\ b.i_decrypt = Types
                /\ b.encrypt_mode \in {None, First} /\ b.decrypt_mode \in {None, First}
                /\ b.need_start \subseteq {First}
    BY <1>2, <1>6
  <2> QED BY <2>2, <2>3, <2>4, Adjusted, Zenon DEF Adjusts
<1>9. Good(b, Write(b, "REPLY", t, 0), q, free)
  <2>1. b.dec[t] # FAILED
    BY <1>3, StreamType
  <2>2. "REPLY" \in Says \ {"START", "END"} /\ 0 \in 0..1 /\ t \in Types \cup {None}
    BY DEF Says
  <2> QED BY <1>8, <2>1, <2>2, GoodSide, WriteGood
<1> QED BY <1>4, <1>7, <1>8, <1>9, GoodTrans

\* A confirmation of a vector that the other side has taken.
LEMMA ReplyGood ==
  ASSUME NEW p \in Sides, NEW q \in Sides, NEW free \in BOOLEAN, Pair(p, q, free),
         NEW t \in Types, free => t = First, q.dec[t] # FAILED
  PROVE  Good(p, Reply(p, t), q, free)
<1>1. CASE t \notin CanEncrypt(p)
  BY <1>1, GoodItself DEF Reply
<1>2. CASE t \in CanEncrypt(p)
  <2> DEFINE state == (IF p.enc[t] = FAILED THEN IN_PROGRESS ELSE p.enc[t]) \ {"NO_RECV_IV"}
             a == [p EXCEPT !.enc_keylen = 1]
             b == SendEncKeyid(p)
             r == [b EXCEPT !.enc[t] = state, !.encrypt_mode = t]
  <2>1. Reply(p, t) = IF r.enc[t] = SUCCESS /\ r.autoencrypt THEN StartOutput(r, t) ELSE r
    BY <1>2 DEF Reply
  <2>2. a \in Sides /\ Core(a) = Core(p)
    <3>1. 1 \in 0..1
      OBVIOUS
    <3> QED BY <3>1, KeylenBeside
  <2>3. b = Write(a, "ENC_KEYID", None, 1)
    BY DEF SendEncKeyid
  <2>4. state \in StreamState
    <3>1. p.enc[t] \in StreamState
      BY DEF Sides
    <3>2. (IF p.enc[t] = FAILED THEN IN_PROGRESS ELSE p.enc[t]) \in SUBSET Steps
      BY <3>1, StreamType
    <3>3. state \in SUBSET Steps
      BY <3>2
    <3> HIDE DEF state
    <3> QED BY <3>3, StreamType
  <2> HIDE DEF a, b, state
  <2>5. Good(p, a, q, free)
    BY <2>2, BesideGood
  <2>6. Good(a, b, q, free)
    <3>1. "ENC_KEYID" \in Says \ {"START", "END", "IS", "REPLY"} /\ 1 \in 0..1
      BY DEF Says
    <3> QED BY <2>3, <2>5, <3>1, GoodSide, SaysGood
  <2>7. b \in Sides /\ Pair(b, q, free)
    BY <2>6, GoodSide
  <2>8. Good(b, r, q, free)
    <3>1. /\ r \in Sides /\ r.enc = [b.enc EXCEPT ![t] = state] /\ r.encrypt_mode = t
          /\ r.out = b.out /\ r.dec = b.dec /\ r.encrypt_output = b.encrypt_output
          /\ r.decrypt_input = b.decrypt_input /\ r.decrypt_mode = b.decrypt_mode
          /\ r.remote_encrypt = b.remote_encrypt /\ r.need_start = b.need_start
          /\ r.i_encrypt = b.i_encrypt /\ r.i_decrypt = b.i_decrypt
      BY <2>4, <2>7 DEF Sides, Ciphers
    <3> HIDE DEF r
    <3>2. free => /\ r.i_encrypt = Types /\ r.i_decrypt = Types
                  /\ r.encrypt_mode \in {None, First} /\ r.need_start \subseteq {First}
      BY <2>7, <3>1 DEF Pair, OneType
    <3> QED BY <2>4, <2>7, <3>1, <3>2, EncGood
  <2> HIDE DEF r
  <2>9. Good(r, StartOutput(r, t), q, free)
    BY <2>8, GoodSide, StartOutputGood
  <2> QED BY <2>1, <2>5, <2>6, <2>8, <2>9, GoodTrans
<1> QED BY <1>1, <1>2

\* With the key id accepted a vector is confirmed or not as before.
LEMMA KeyAcceptedType ==
  ASSUME NEW x \in StreamState
  PROVE  /\ KeyAccepted(x) \in StreamState /\ KeyAccepted(x) # FAILED
         /\ "NO_RECV_IV" \notin KeyAccepted(x) => x # FAILED /\ "NO_RECV_IV" \notin x
<1> DEFINE y == IF x = FAILED THEN IN_PROGRESS ELSE x
<1>1. y \in SUBSET Steps /\ ("NO_RECV_IV" \notin y => x # FAILED /\ "NO_RECV_IV" \notin x)
  BY StreamType
<1>2. KeyAccepted(x) = y \ {"NO_KEYID"}
  BY DEF KeyAccepted
<1> HIDE DEF y
<1>3. KeyAccepted(x) \in SUBSET Steps
  BY <1>1, <1>2
<1>4. "NO_RECV_IV" \notin KeyAccepted(x) => "NO_RECV_IV" \notin y
  BY <1>2
<1> QED BY <1>1, <1>3, <1>4, StreamType

\* A key id is refused or answered.
LEMMA KeyidGood ==
  ASSUME NEW p \in Sides, NEW r \in Sides, NEW q \in Sides, NEW free \in BOOLEAN,
         Good(p, r, q, free), NEW say \in {"ENC_KEYID", "DEC_KEYID"}, NEW len \in 0..1
  PROVE  Good(p, Write(r, say, None, len), q, free)
<1>1. say \in Says \ {"START", "END", "IS", "REPLY"}
  BY DEF Says
<1>2. Good(r, Write(r, say, None, len), q, free)
  BY <1>1, GoodSide, SaysGood
<1> QED BY <1>2, GoodTrans

\* The reader of a stream is told the key id.
LEMMA EncKeyidGood ==
  ASSUME NEW p \in Sides, NEW q \in Sides, NEW free \in BOOLEAN, Pair(p, q, free), NEW len \in 0..1
  PROVE  Good(p, EncKeyid(p, len), q, free)
<1> DEFINE t == p.decrypt_mode
           z == [p EXCEPT !.dec_keylen = 0]
<1>0. 0 \in 0..1 /\ Good(p, p, q, free)
  BY GoodItself
<1>1. Good(p, Write(z, "DEC_KEYID", None, 0), q, free)
  <2>1. z \in Sides /\ Core(z) = Core(p)
    BY <1>0, KeylenBeside
  <2> HIDE DEF z
  <2>2. Good(p, z, q, free)
    BY <2>1, BesideGood
  <2> QED BY <1>0, <2>1, <2>2, KeyidGood
<1>2. CASE t \notin CanDecrypt(p) \/ len = 0
  <2>1. EncKeyid(p, len) \in {p, Write(z, "DEC_KEYID", None, 0)}
    BY <1>2 DEF EncKeyid
  <2> QED BY <1>0, <1>1, <2>1
<1>3. CASE t \in CanDecrypt(p) /\ len # 0
  <2> DEFINE state == KeyAccepted(p.dec[t])
             a == [p EXCEPT !.dec[t] = state]
             b == [p EXCEPT !.dec_keylen = len, !.dec[t] = state]
  <2>1. t \in Types /\ t \in p.remote_encrypt /\ t # None
    BY <1>3 DEF CanDecrypt, Sides, Types, None
  <2>2. state \in StreamState /\ state # FAILED
    <3>1. p.dec[t] \in StreamState
      BY <2>1 DEF Sides
    <3> QED BY <3>1, KeyAcceptedType
  <2>3. EncKeyid(p, len) \in {a, Write(b, "DEC_KEYID", None, len)}
    BY <1>3 DEF EncKeyid
  <2> HIDE DEF state
  <2>4. /\ a \in Sides /\ a.dec = [p.dec EXCEPT ![t] = state]
        /\ a.out = p.out /\ a.enc = p.enc /\ a.encrypt_output = p.encrypt_output
        /\ a.decrypt_input = p.decrypt_input /\ a.encrypt_mode = p.encrypt_mode
        /\ a.decrypt_mode = p.decrypt_mode /\ a.remote_encrypt = p.remote_encrypt
        /\ a.need_start = p.need_start /\ a.i_encrypt = p.i_encrypt /\ a.i_decrypt = p.i_decrypt
    BY <2>1, <2>2 DEF Sides
  <2>5. b = [a EXCEPT !.dec_keylen = len]
    BY DEF Sides
  <2> HIDE DEF a, b
  <2>6. b \in Sides /\ Core(b) = Core(a)
    BY <2>4, <2>5, KeylenBeside
  <2>7. Good(p, a, q, free)
    <3>0. p.dec \in [Types -> StreamState]
      BY DEF Sides
    <3>1. \A u \in Types : a.dec[u] = IF u = t THEN state ELSE p.dec[u]
      BY <2>4, <3>0
    <3>2. /\ \A u \in Types : p.dec[u] # FAILED => u \in p.remote_encrypt /\ p.decrypt_mode # None
          /\ \A u \in Types : p.enc[u] # FAILED /\ "NO_RECV_IV" \notin p.enc[u] => q.dec[u] # FAILED
      BY DEF Pair, Promised, Confirmed
    <3>3. /\ \A u \in Types : p.dec[u] # FAILED => a.dec[u] # FAILED
          /\ \A u \in Types : a.dec[u] # FAILED => u \in a.remote_encrypt /\ a.decrypt_mode # None
          /\ \A u \in Types : a.enc[u] # FAILED /\ "NO_RECV_IV" \notin a.enc[u] => q.dec[u] # FAILED
      BY <2>1, <2>2, <2>4, <3>1, <3>2
    <3>4. free => /\ p.i_encrypt = Types /\ p.i_decrypt = Types
                  /\ p.encrypt_mode \in {None, First} /\ p.decrypt_mode \in {None, First}
                  /\ p.need_start \subseteq {First}
      BY DEF Pair, OneType
    <3>5. free => /\ a.decrypt_input = p.decrypt_input
                  /\ a.i_encrypt = Types /\ a.i_decrypt = Types
                  /\ a.encrypt_mode \in {None, First} /\ a.decrypt_mode \in {None, First}
                  /\ a.need_start \subseteq {First}
      BY <2>4, <3>4
    <3>6. a \in Sides /\ a.out = p.out /\ a.encrypt_output = p.encrypt_output
      BY <2>4
    <3> QED BY <3>3, <3>5, <3>6, Adjusted, Zenon DEF Adjusts
  <2>8. Good(p, b, q, free)
    BY <2>6, <2>7, GoodSide, BesideGood, GoodTrans
  <2>9. Good(p, Write(b, "DEC_KEYID", None, len), q, free)
    BY <2>6, <2>8, KeyidGood
  <2> QED BY <2>3, <2>7, <2>9
<1> QED BY <1>2, <1>3

\* The writer of a stream is told that the key id has been accepted.
LEMMA DecKeyidGood ==
  ASSUME NEW p \in Sides, NEW q \in Sides, NEW free \in BOOLEAN, Pair(p, q, free), NEW len \in 0..1
  PROVE  Good(p, DecKeyid(p, len), q, free)
<1> DEFINE t == p.encrypt_mode
           z == [p EXCEPT !.enc_keylen = 0]
<1>0. 0 \in 0..1 /\ Good(p, p, q, free)
  BY GoodItself
<1>1. Good(p, Write(z, "ENC_KEYID", None, 0), q, free)
  <2>1. z \in Sides /\ Core(z) = Core(p)
    BY <1>0, KeylenBeside
  <2> HIDE DEF z
  <2>2. Good(p, z, q, free)
    BY <2>1, BesideGood
  <2> QED BY <1>0, <2>1, <2>2, KeyidGood
<1>2. CASE t \notin CanEncrypt(p) \/ len = 0
  <2>1. DecKeyid(p, len) \in {p, Write(z, "ENC_KEYID", None, 0)}
    BY <1>2 DEF DecKeyid
  <2> QED BY <1>0, <1>1, <2>1
<1>3. CASE t \in CanEncrypt(p) /\ len # 0
  <2> DEFINE state == KeyAccepted(p.enc[t])
             r == [p EXCEPT !.enc[t] = state]
             b == [r EXCEPT !.enc_keylen = len]
  <2>1. t \in Types /\ (free => t = First)
    <3>1. t \in Types
      BY <1>3 DEF CanEncrypt, Sides
    <3>2. t # None
      BY <3>1 DEF Types, None
    <3> QED BY <3>1, <3>2 DEF Pair, OneType
  <2>2. /\ state \in StreamState
        /\ "NO_RECV_IV" \notin state => q.dec[t] # FAILED
    <3>1. p.enc[t] \in StreamState
      BY <2>1 DEF Sides
    <3>2. /\ state \in StreamState
          /\ "NO_RECV_IV" \notin state => p.enc[t] # FAILED /\ "NO_RECV_IV" \notin p.enc[t]
      BY <3>1, KeyAcceptedType
    <3> HIDE DEF state
    <3> QED BY <2>1, <3>2 DEF Pair, Confirmed
  <2>3. DecKeyid(p, len) \in {r, StartOutput(r, t), Write(b, "ENC_KEYID", None, len)}
    BY <1>3 DEF DecKeyid
  <2> HIDE DEF state
  <2>4. /\ r \in Sides /\ r.enc = [p.enc EXCEPT ![t] = state]
        /\ r.out = p.out /\ r.dec = p.dec /\ r.encrypt_output = p.encrypt_output
        /\ r.decrypt_input = p.decrypt_input /\ r.encrypt_mode = p.encrypt_mode
        /\ r.decrypt_mode = p.decrypt_mode /\ r.remote_encrypt = p.remote_encrypt
        /\ r.need_start = p.need_start /\ r.i_encrypt = p.i_encrypt /\ r.i_decrypt = p.i_decrypt
    BY <2>1, <2>2 DEF Sides
  <2> HIDE DEF r
  <2>5. free => /\ r.i_encrypt = Types /\ r.i_decrypt = Types
                /\ r.encrypt_mode \in {None, First} /\ r.need_start \subseteq {First}
    BY <2>4 DEF Pair, OneType
  <2>6. Good(p, r, q, free)
    BY <2>1, <2>2, <2>4, <2>5, EncGood
  <2>7. Good(p, StartOutput(r, t), q, free)
    BY <2>1, <2>6, GoodSide, StartOutputGood, GoodTrans
  <2>8. b \in Sides /\ Core(b) = Core(r)
    BY <2>4, KeylenBeside
  <2> HIDE DEF b
  <2>9. Good(p, b, q, free)
    BY <2>6, <2>8, GoodSide, BesideGood, GoodTrans
  <2>10. Good(p, Write(b, "ENC_KEYID", None, len), q, free)
    BY <2>8, <2>9, KeyidGood
  <2> QED BY <2>3, <2>6, <2>7, <2>10
<1> QED BY <1>2, <1>3

\* DO ENCRYPT is answered once.
LEMMA DoGood ==
  ASSUME NEW p \in Sides, NEW q \in Sides, NEW free \in BOOLEAN, Pair(p, q, free)
  PROVE  Good(p, Do(p), q, free)
<1> DEFINE a == [p EXCEPT !.willed = TRUE]
<1>1. Do(p) \in {p, Write(a, "WILL", None, 0)}
  BY DEF Do
<1>2. a \in Sides /\ Core(a) = Core(p)
  BY DEF Sides, Core
<1> HIDE DEF a
<1>3. Good(p, a, q, free)
  BY <1>2, BesideGood
<1>4. "WILL" \in Says \ {"START", "END", "IS", "REPLY"} /\ 0 \in 0..1
  BY DEF Says
<1>5. Good(a, Write(a, "WILL", None, 0), q, free)
  BY <1>3, <1>4, GoodSide, SaysGood
<1> QED BY <1>1, <1>3, <1>5, GoodItself, GoodTrans

\* The client takes the session key once its credentials are accepted.
LEMMA AcceptGood ==
  ASSUME NEW p \in Sides, NEW q \in Sides, NEW free \in BOOLEAN, Pair(p, q, free)
  PROVE  Good(p, Accept(p), q, free)
BY SessionKeyGood, GoodItself DEF Accept

\* A request for START is obeyed, or remembered by the server.
LEMMA RequestStartGood ==
  ASSUME NEW p \in Sides, NEW q \in Sides, NEW free \in BOOLEAN, Pair(p, q, free)
  PROVE  Good(p, RequestStart(p), q, free)
<1> DEFINE a == [p EXCEPT !.autoencrypt = IF p.server THEN TRUE ELSE @]
<1>1. CASE p.encrypt_mode = None
  <2>1. RequestStart(p) = a
    BY <1>1 DEF RequestStart
  <2>2. a \in Sides /\ Core(a) = Core(p)
    <3>1. a \in Sides
      BY DEF Sides
    <3>2. Core(a) = Core(p)
      BY DEF Sides, Core
    <3> QED BY <3>1, <3>2
  <2> HIDE DEF a
  <2> QED BY <2>1, <2>2, BesideGood
<1>2. CASE p.encrypt_mode # None
  <2>1. RequestStart(p) = StartOutput(p, p.encrypt_mode)
    BY <1>2 DEF RequestStart
  <2>2. free => p.encrypt_mode = First
    BY <1>2 DEF Pair, OneType
  <2> QED BY <2>1, <2>2, StartOutputGood
<1> QED BY <1>1, <1>2

\* What a side decrypts with does not matter to the other as its reader.
LEMMA TurnGood ==
  ASSUME NEW p \in Sides, NEW q \in Sides, NEW free \in BOOLEAN, Pair(p, q, free),
         NEW x \in Ciphers, NEW r, r = [p EXCEPT !.decrypt_input = x]
  PROVE  r \in Sides /\ Pair(r, q, free) /\ r.decrypt_input = x /\ r.dec = p.dec
<1>1. /\ r \in Sides /\ r.decrypt_input = x
      /\ r.out = p.out /\ r.enc = p.enc /\ r.dec = p.dec /\ r.encrypt_output = p.encrypt_output
      /\ r.encrypt_mode = p.encrypt_mode /\ r.decrypt_mode = p.decrypt_mode
      /\ r.remote_encrypt = p.remote_encrypt /\ r.need_start = p.need_start
      /\ r.i_encrypt = p.i_encrypt /\ r.i_decrypt = p.i_decrypt
  BY DEF Sides
<1>2. \A i : Under(r, i) = Under(p, i)
  BY <1>1 DEF Under
<1>3. Promised(r)
  BY <1>1 DEF Pair, Promised
<1>4. Confirmed(r, q)
  BY <1>1 DEF Pair, Confirmed
<1>5. ASSUME free
      PROVE  OneType(r) /\ Switches(r, q)
  <2>1. OneType(p) /\ Switches(p, q)
    BY <1>5 DEF Pair
  <2>2. OneType(r)
    BY <1>1, <2>1 DEF OneType
  <2>3. Switches(r, q)
    BY <1>1, <1>2, <2>1 DEF Switches
  <2> QED BY <2>2, <2>3
<1> QED BY <1>1, <1>3, <1>4, <1>5 DEF Pair

\* Every message but START and END is handled by good steps.
LEMMA HandleGood ==
  ASSUME NEW p \in Sides, NEW q \in Sides, NEW free \in BOOLEAN, Pair(p, q, free),
         NEW m \in Message, m.say \notin {"START", "END"},
         m.say \in {"IS", "REPLY"} => m.type \in Types,
         m.say = "REPLY" => q.dec[m.type] # FAILED,
         free /\ m.say \in {"IS", "REPLY"} => m.type = First
  PROVE  Good(p, Handle(p, m), q, free)
<1>1. m.say \in Says /\ m.len \in 0..1
  BY DEF Message
<1>2. CASE m.say = "DO"
  <2>1. Handle(p, m) = Do(p)
    BY <1>2 DEF Handle
  <2> QED BY <2>1, DoGood
<1>3. CASE m.say = "WILL"
  <2>1. Handle(p, m) = SendSupport(p)
    BY <1>3 DEF Handle
  <2> QED BY <2>1, SendSupportGood
<1>4. CASE m.say = "ACCEPT"
  <2>1. Handle(p, m) = Accept(p)
    BY <1>4 DEF Handle
  <2> QED BY <2>1, AcceptGood
<1>5. CASE m.say = "SUPPORT"
  <2>1. Handle(p, m) = Support(p)
    BY <1>5 DEF Handle
  <2> QED BY <2>1, SupportGood
<1>6. CASE m.say = "IS"
  <2>1. Handle(p, m) = Is(p, m.type)
    BY <1>6 DEF Handle
  <2> QED BY <1>6, <2>1, IsGood
<1>7. CASE m.say = "REPLY"
  <2>1. Handle(p, m) = Reply(p, m.type)
    BY <1>7 DEF Handle
  <2> QED BY <1>7, <2>1, ReplyGood
<1>8. CASE m.say = "ENC_KEYID"
  <2>1. Handle(p, m) = EncKeyid(p, m.len)
    BY <1>8 DEF Handle
  <2> QED BY <1>1, <2>1, EncKeyidGood
<1>9. CASE m.say = "DEC_KEYID"
  <2>1. Handle(p, m) = DecKeyid(p, m.len)
    BY <1>9 DEF Handle
  <2> QED BY <1>1, <2>1, DecKeyidGood
<1>10. CASE m.say = "REQSTART"
  <2>1. Handle(p, m) = RequestStart(p)
    BY <1>10 DEF Handle
  <2> QED BY <2>1, RequestStartGood
<1>11. CASE m.say = "REQEND"
  <2>1. Handle(p, m) = SendEnd(p)
    BY <1>11 DEF Handle
  <2> QED BY <2>1, SendEndGood
<1> QED BY <1>1, <1>2, <1>3, <1>4, <1>5, <1>6, <1>7, <1>8, <1>9, <1>10, <1>11 DEF Says

-----------------------------------------------------------------------------
(* A message is read.                                                      *)

\* A side whose first message has been read.
Rest(q) == [q EXCEPT !.out = Tail(@)]

\* Without the message that comes first, the others are as they were.
LEMMA TailShift ==
  ASSUME NEW q \in Sides, q.out # <<>>, NEW z, z = Rest(q)
  PROVE  /\ z \in Sides /\ Head(q.out) = q.out[1] /\ Head(q.out) \in Message
         /\ Len(q.out) \in Nat /\ Len(q.out) >= 1 /\ Len(z.out) = Len(q.out) - 1
         /\ \A i \in 1..Len(z.out) : z.out[i] = q.out[i + 1]
         /\ \A i \in 0..Len(z.out) : Under(z, i) = Under(q, i + 1)
         /\ Under(q, 0) = q.out[1].enc
         /\ z.enc = q.enc /\ z.dec = q.dec /\ z.encrypt_output = q.encrypt_output
         /\ z.decrypt_input = q.decrypt_input /\ z.encrypt_mode = q.encrypt_mode
         /\ z.decrypt_mode = q.decrypt_mode /\ z.remote_encrypt = q.remote_encrypt
         /\ z.need_start = q.need_start /\ z.i_encrypt = q.i_encrypt
         /\ z.i_decrypt = q.i_decrypt
<1>1. q.out \in Seq(Message)
  BY OutType
<1>2. /\ Len(q.out) \in Nat /\ Len(q.out) >= 1 /\ Head(q.out) = q.out[1] /\ Head(q.out) \in Message
      /\ Tail(q.out) \in Seq(Message) /\ Len(Tail(q.out)) = Len(q.out) - 1
      /\ \A i \in 1..Len(Tail(q.out)) : Tail(q.out)[i] = q.out[i + 1]
  BY <1>1
<1>3. /\ z \in Sides /\ z.out = Tail(q.out)
      /\ z.enc = q.enc /\ z.dec = q.dec /\ z.encrypt_output = q.encrypt_output
      /\ z.decrypt_input = q.decrypt_input /\ z.encrypt_mode = q.encrypt_mode
      /\ z.decrypt_mode = q.decrypt_mode /\ z.remote_encrypt = q.remote_encrypt
      /\ z.need_start = q.need_start /\ z.i_encrypt = q.i_encrypt /\ z.i_decrypt = q.i_decrypt
  BY <1>2 DEF Sides, Rest
<1>4. \A i \in 0..Len(z.out) : Under(z, i) = Under(q, i + 1)
  <2> SUFFICES ASSUME NEW i \in 0..Len(z.out) PROVE Under(z, i) = Under(q, i + 1)
    OBVIOUS
  <2>1. Len(z.out) = Len(q.out) - 1 /\ i \in Nat
    BY <1>2, <1>3
  <2>2. CASE i = Len(z.out)
    BY <1>2, <1>3, <2>1, <2>2 DEF Under
  <2>3. CASE i < Len(z.out)
    <3>1. z.out[i + 1] = q.out[i + 1 + 1]
      BY <1>2, <1>3, <2>1, <2>3
    <3> QED BY <1>2, <1>3, <2>1, <2>3, <3>1 DEF Under
  <2> QED BY <1>2, <1>3, <2>1, <2>2, <2>3
<1>5. Under(q, 0) = q.out[1].enc
  BY <1>2 DEF Under
<1> QED BY <1>2, <1>3, <1>4, <1>5

\* What remains to be said by the writer of a message that has been read.
LEMMA TailPair ==
  ASSUME NEW q \in Sides, NEW p \in Sides, NEW free \in BOOLEAN, Pair(q, p, free),
         q.out # <<>>, NEW z, z = Rest(q)
  PROVE  /\ Promised(z) /\ Confirmed(z, p)
         /\ \A r \in Sides :
              /\ r.dec = p.dec
              /\ free => r.decrypt_input = Under(q, 1)
              => Pair(z, r, free)
<1>1. /\ z \in Sides
      /\ Len(q.out) \in Nat /\ Len(q.out) >= 1 /\ Len(z.out) = Len(q.out) - 1
      /\ \A i \in 1..Len(z.out) : z.out[i] = q.out[i + 1]
      /\ \A i \in 0..Len(z.out) : Under(z, i) = Under(q, i + 1)
      /\ z.enc = q.enc /\ z.dec = q.dec /\ z.encrypt_output = q.encrypt_output
      /\ z.decrypt_input = q.decrypt_input /\ z.encrypt_mode = q.encrypt_mode
      /\ z.decrypt_mode = q.decrypt_mode /\ z.remote_encrypt = q.remote_encrypt
      /\ z.need_start = q.need_start /\ z.i_encrypt = q.i_encrypt /\ z.i_decrypt = q.i_decrypt
  BY TailShift
<1>2. \A i \in 1..Len(z.out) : /\ i + 1 \in 1..Len(q.out) /\ (i + 1) - 1 = i /\ (i - 1) + 1 = i
                               /\ i \in 0..Len(z.out) /\ i - 1 \in 0..Len(z.out)
  <2>1. Len(q.out) \in Nat /\ Len(q.out) >= 1 /\ Len(z.out) = Len(q.out) - 1
    BY <1>1
  <2> QED BY <2>1
<1>3. Promised(z)
  <2>1. Promised(q)
    BY DEF Pair
  <2>2. \A t \in Types : z.dec[t] # FAILED => t \in z.remote_encrypt /\ z.decrypt_mode # None
    BY <1>1, <2>1, Zenon DEF Promised
  <2>3. ASSUME NEW i \in 1..Len(z.out)
        PROVE  /\ z.out[i].say \in {"IS", "REPLY"} => z.out[i].type \in Types
               /\ z.out[i].say = "REPLY" => z.dec[z.out[i].type] # FAILED
    <3>1. i + 1 \in 1..Len(q.out) /\ z.out[i] = q.out[i + 1] /\ z.dec = q.dec
      BY <1>1, <1>2
    <3>2. /\ q.out[i + 1].say \in {"IS", "REPLY"} => q.out[i + 1].type \in Types
          /\ q.out[i + 1].say = "REPLY" => q.dec[q.out[i + 1].type] # FAILED
      BY <2>1, <3>1, Zenon DEF Promised
    <3> QED BY <3>1, <3>2, Zenon
  <2> QED BY <2>2, <2>3, Zenon DEF Promised
<1>4. Confirmed(z, p)
  BY <1>1 DEF Pair, Confirmed
<1>5. ASSUME NEW r \in Sides, r.dec = p.dec, free => r.decrypt_input = Under(q, 1)
      PROVE  Pair(z, r, free)
  <2>1. Confirmed(z, r)
    BY <1>4, <1>5 DEF Confirmed
  <2>2. ASSUME free
        PROVE  OneType(z) /\ Switches(z, r)
    <3>1. OneType(q) /\ Switches(q, p)
      BY <2>2 DEF Pair
    <3>2. OneType(z)
      BY <1>1, <1>2, <3>1 DEF OneType
    <3>3. r.decrypt_input = Under(z, 0)
      BY <1>1, <1>5, <2>2
    <3>4. ASSUME NEW i \in 1..Len(z.out)
          PROVE  /\ z.out[i].say = "START" => Under(z, i) = First /\ r.dec[First] # FAILED
                 /\ z.out[i].say = "END" => Under(z, i) = None
                 /\ z.out[i].say \notin {"START", "END"} => Under(z, i) = Under(z, i - 1)
      <4>1. /\ z.out[i] = q.out[i + 1] /\ Under(z, i) = Under(q, i + 1)
            /\ Under(z, i - 1) = Under(q, (i + 1) - 1) /\ i + 1 \in 1..Len(q.out)
        BY <1>1, <1>2, <3>4
      <4> QED BY <1>5, <3>1, <4>1 DEF Switches
    <3> QED BY <3>2, <3>3, <3>4 DEF Switches
  <2> QED BY <1>3, <2>1, <2>2 DEF Pair
<1> QED BY <1>3, <1>4, <1>5

\* START is believed: the reader turns to the type it has been prepared for.
LEMMA StartTurns ==
  ASSUME NEW p \in Sides, NEW q \in Sides, Pair(p, q, TRUE), p.dec[First] # FAILED
  PROVE  Start(p) = [p EXCEPT !.decrypt_input = First]
<1>1. First \in Types /\ First # None
  BY DEF First, Types, None
<1>2. First \in p.remote_encrypt /\ p.decrypt_mode # None
  BY <1>1 DEF Pair, Promised
<1>3. p.decrypt_mode = First /\ p.i_decrypt = Types
  BY <1>2 DEF Pair, OneType
<1> QED BY <1>1, <1>2, <1>3 DEF Start, CanDecrypt

\* A side reads a message; both are left as the other needs them to be.
LEMMA ReceiveGood ==
  ASSUME NEW p \in Sides, NEW q \in Sides, NEW free \in BOOLEAN,
         Pair(p, q, free), Pair(q, p, free), q.out # <<>>,
         NEW z, z = Rest(q), NEW r, r = Receive(p, Head(q.out))
  PROVE  r \in Sides /\ z \in Sides /\ Pair(r, z, free) /\ Pair(z, r, free)
<1> DEFINE m == Head(q.out)
<1>1. /\ z \in Sides /\ m = q.out[1] /\ m \in Message
      /\ Len(q.out) \in Nat /\ Len(q.out) >= 1 /\ Under(q, 0) = m.enc
      /\ z.dec = q.dec /\ z.decrypt_input = q.decrypt_input
  BY TailShift
<1>2. /\ Promised(z) /\ Confirmed(z, p)
      /\ \A x \in Sides :
           /\ x.dec = p.dec
           /\ free => x.decrypt_input = Under(q, 1)
           => Pair(z, x, free)
  BY TailPair
<1>3. Grown(q, z, free)
  BY <1>1 DEF Grown
<1>4. Pair(p, z, free)
  BY <1>1, <1>3, ReaderGrows
<1>5. 1 \in 1..Len(q.out) /\ 1 - 1 = 0
  BY <1>1
<1>6. /\ m.say \in {"IS", "REPLY"} => m.type \in Types
      /\ m.say = "REPLY" => q.dec[m.type] # FAILED
  BY <1>1, <1>5 DEF Pair, Promised
<1>7. free => /\ m.say \in {"IS", "REPLY"} => m.type = First
              /\ p.decrypt_input = Under(q, 0)
              /\ m.say = "START" => Under(q, 1) = First /\ p.dec[First] # FAILED
              /\ m.say = "END" => Under(q, 1) = None
              /\ m.say \notin {"START", "END"} => Under(q, 1) = Under(q, 0)
  BY <1>1, <1>5 DEF Pair, OneType, Switches
<1>8. r = IF m.enc = p.decrypt_input THEN Handle(p, m) ELSE p
  BY DEF Receive
<1> HIDE DEF m
\* Whatever leaves it reading under the cipher that the writer goes on with.
<1>9. ASSUME Good(p, r, z, free), free => p.decrypt_input = Under(q, 1)
      PROVE  r \in Sides /\ z \in Sides /\ Pair(r, z, free) /\ Pair(z, r, free)
  <2>1. Pair(z, p, free)
    BY <1>2, <1>9
  <2>2. r \in Sides /\ Pair(r, z, free) /\ Grown(p, r, free)
    BY <1>9 DEF Good
  <2>3. Pair(z, r, free)
    BY <1>1, <2>1, <2>2, ReaderGrows
  <2> QED BY <1>1, <2>2, <2>3
<1>10. CASE m.enc # p.decrypt_input
  <2>1. r = p /\ ~free
    BY <1>1, <1>7, <1>8, <1>10
  <2>2. Good(p, r, z, free)
    BY <1>4, <2>1, GoodItself
  <2> QED BY <1>9, <2>1, <2>2
<1>11. CASE m.enc = p.decrypt_input /\ m.say \notin {"START", "END"}
  <2>1. z.dec = q.dec
    BY <1>1
  <2>2. m.say = "REPLY" => z.dec[m.type] # FAILED
    BY <1>6, <2>1
  <2>3. free /\ m.say \in {"IS", "REPLY"} => m.type = First
    BY <1>7
  <2>4. Good(p, Handle(p, m), z, free)
    BY <1>1, <1>4, <1>6, <1>11, <2>2, <2>3, HandleGood
  <2>5. free => p.decrypt_input = Under(q, 1)
    BY <1>7, <1>11
  <2> QED BY <1>8, <1>9, <1>11, <2>4, <2>5
\* A turn: to the cipher that the writer goes on with, as long as the types are
\* left alone.
<1>12. ASSUME NEW x \in Ciphers, r = [p EXCEPT !.decrypt_input = x], free => x = Under(q, 1)
       PROVE  r \in Sides /\ z \in Sides /\ Pair(r, z, free) /\ Pair(z, r, free)
  <2>1. r \in Sides /\ Pair(r, z, free) /\ r.decrypt_input = x /\ r.dec = p.dec
    BY <1>1, <1>4, <1>12, TurnGood
  <2> QED BY <1>1, <1>2, <1>12, <2>1
<1>13. CASE m.enc = p.decrypt_input /\ m.say = "START"
  <2>1. r = Start(p)
    BY <1>8, <1>13 DEF Handle
  <2>2. CASE free
    <3>1. Pair(p, z, TRUE)
      BY <1>4, <2>2
    <3>2. r = [p EXCEPT !.decrypt_input = First]
      BY <1>1, <1>7, <1>13, <2>1, <2>2, <3>1, StartTurns
    <3> QED BY <1>7, <1>12, <1>13, <2>2, <3>2 DEF First, Ciphers, Types
  <2>3. CASE ~free
    <3>1. CASE p.decrypt_mode \in CanDecrypt(p)
      <4>1. r = [p EXCEPT !.decrypt_input = p.decrypt_mode] /\ p.decrypt_mode \in Ciphers
        BY <2>1, <3>1 DEF Start, Sides
      <4> QED BY <1>12, <2>3, <4>1
    <3>2. CASE p.decrypt_mode \notin CanDecrypt(p)
      <4>1. Good(p, r, z, free)
        BY <1>1, <1>4, <2>1, <3>2, RequestsGood DEF Start
      <4> QED BY <1>9, <2>3, <4>1
    <3> QED BY <3>1, <3>2
  <2> QED BY <2>2, <2>3
<1>14. CASE m.enc = p.decrypt_input /\ m.say = "END"
  <2>1. r = [p EXCEPT !.decrypt_input = None]
    BY <1>8, <1>14 DEF Handle, End
  <2> QED BY <1>7, <1>12, <1>14, <2>1 DEF Ciphers
<1> QED BY <1>10, <1>11, <1>13, <1>14
-----------------------------------------------------------------------------
(* The user's commands.                                                    *)

\* A type is set by hand.
LEMMA TypeGood ==
  ASSUME NEW p \in Sides, NEW q \in Sides, Pair(p, q, FALSE), NEW t \in Types, NEW mode \in Modes
  PROVE  Good(p, EncryptType(p, t, mode), q, FALSE)
<1> DEFINE r == EncryptType(p, t, mode)
           dm == IF In(mode) THEN t ELSE p.decrypt_mode
           em == IF Out(mode) THEN t ELSE p.encrypt_mode
           id == IF In(mode) THEN p.i_decrypt \cup {t} ELSE p.i_decrypt
           ie == IF Out(mode) THEN p.i_encrypt \cup {t} ELSE p.i_encrypt
<1>1. dm \in Ciphers /\ em \in Ciphers /\ id \in SUBSET Types /\ ie \in SUBSET Types
  BY DEF Sides, Ciphers
<1>2. p.decrypt_mode # None => dm # None
  BY DEF Types, None
<1>3. r = [p EXCEPT !.decrypt_mode = dm, !.i_decrypt = id, !.encrypt_mode = em, !.i_encrypt = ie]
  BY DEF EncryptType
<1> HIDE DEF r, dm, em, id, ie
<1>4. /\ r \in Sides /\ r.decrypt_mode = dm
      /\ r.out = p.out /\ r.enc = p.enc /\ r.dec = p.dec /\ r.encrypt_output = p.encrypt_output
      /\ r.remote_encrypt = p.remote_encrypt
  BY <1>1, <1>3 DEF Sides
<1>5. /\ \A u \in Types : p.dec[u] # FAILED => u \in p.remote_encrypt /\ p.decrypt_mode # None
      /\ \A u \in Types : p.enc[u] # FAILED /\ "NO_RECV_IV" \notin p.enc[u] => q.dec[u] # FAILED
  BY DEF Pair, Promised, Confirmed
<1>6. /\ \A u \in Types : p.dec[u] # FAILED => r.dec[u] # FAILED
      /\ \A u \in Types : r.dec[u] # FAILED => u \in r.remote_encrypt /\ r.decrypt_mode # None
      /\ \A u \in Types : r.enc[u] # FAILED /\ "NO_RECV_IV" \notin r.enc[u] => q.dec[u] # FAILED
  BY <1>2, <1>4, <1>5
<1>7. r \in Sides /\ r.out = p.out /\ r.encrypt_output = p.encrypt_output /\ FALSE \in BOOLEAN
  BY <1>4
<1> HIDE DEF r
<1> QED BY <1>6, <1>7, Adjusted, Zenon DEF r, Adjusts

\* A request for START, and START.
LEMMA EncryptStartGood ==
  ASSUME NEW p \in Sides, NEW q \in Sides, NEW free \in BOOLEAN, Pair(p, q, free), NEW mode
  PROVE  Good(p, StartInput(p), q, free) /\ Good(p, EncryptStart(p, mode), q, free)
<1> DEFINE r == IF In(mode) THEN StartInput(p) ELSE p
<1>1. Good(p, StartInput(p), q, free)
  BY RequestsGood, GoodItself DEF StartInput
<1>2. Good(p, r, q, free)
  BY <1>1, GoodItself
<1>3. EncryptStart(p, mode) = IF Out(mode) /\ r.encrypt_mode # None
                              THEN StartOutput(r, r.encrypt_mode) ELSE r
  BY DEF EncryptStart
<1> HIDE DEF r
<1>4. r \in Sides /\ Pair(r, q, free)
  BY <1>2, GoodSide
<1>5. ASSUME r.encrypt_mode # None
      PROVE  Good(r, StartOutput(r, r.encrypt_mode), q, free)
  <2>1. free => r.encrypt_mode = First
    BY <1>4, <1>5 DEF Pair, OneType
  <2> QED BY <1>4, <2>1, StartOutputGood
<1> QED BY <1>1, <1>2, <1>3, <1>5, GoodTrans

\* A request for END, and END.
LEMMA EncryptStopGood ==
  ASSUME NEW p \in Sides, NEW q \in Sides, NEW free \in BOOLEAN, Pair(p, q, free), NEW mode
  PROVE  Good(p, EncryptStop(p, mode), q, free)
<1> DEFINE r == IF In(mode) THEN SendRequestEnd(p) ELSE p
<1>1. Good(p, r, q, free)
  BY RequestsGood, GoodItself
<1>2. EncryptStop(p, mode) = IF Out(mode) THEN SendEnd(r) ELSE r
  BY DEF EncryptStop
<1> HIDE DEF r
<1>3. Good(r, SendEnd(r), q, free)
  BY <1>1, GoodSide, SendEndGood
<1> QED BY <1>1, <1>2, <1>3, GoodTrans

\* A type is taken back by hand.
LEMMA DisableGood ==
  ASSUME NEW p \in Sides, NEW q \in Sides, Pair(p, q, FALSE), NEW t \in Types, NEW mode \in Modes
  PROVE  Good(p, EncryptDisable(p, t, mode), q, FALSE)
<1> DEFINE a == IF In(mode) /\ p.decrypt_mode = t THEN SendRequestEnd(p) ELSE p
           b == IF Out(mode) /\ a.encrypt_mode = t THEN SendEnd(a) ELSE a
           id == IF In(mode) THEN b.i_decrypt \ {t} ELSE b.i_decrypt
           ie == IF Out(mode) THEN b.i_encrypt \ {t} ELSE b.i_encrypt
           r == [b EXCEPT !.i_decrypt = id, !.i_encrypt = ie]
<1>0. FALSE \in BOOLEAN
  OBVIOUS
<1>1. Good(p, a, q, FALSE)
  BY <1>0, RequestsGood, GoodItself
<1>2. EncryptDisable(p, t, mode) = r
  BY DEF EncryptDisable
<1> HIDE DEF a
<1>3. a \in Sides /\ Pair(a, q, FALSE)
  BY <1>0, <1>1, GoodSide
<1>4. Good(a, b, q, FALSE)
  BY <1>0, <1>3, SendEndGood, GoodItself
<1> HIDE DEF b
<1>5. b \in Sides /\ Pair(b, q, FALSE)
  BY <1>0, <1>4, GoodSide
<1>6. id \in SUBSET Types /\ ie \in SUBSET Types
  BY <1>5 DEF Sides
<1> HIDE DEF id, ie
<1>7. /\ r \in Sides /\ r.decrypt_mode = b.decrypt_mode
      /\ r.out = b.out /\ r.enc = b.enc /\ r.dec = b.dec /\ r.encrypt_output = b.encrypt_output
      /\ r.remote_encrypt = b.remote_encrypt
  BY <1>5, <1>6 DEF Sides
<1> HIDE DEF r
<1>8. /\ \A u \in Types : b.dec[u] # FAILED => u \in b.remote_encrypt /\ b.decrypt_mode # None
      /\ \A u \in Types : b.enc[u] # FAILED /\ "NO_RECV_IV" \notin b.enc[u] => q.dec[u] # FAILED
  BY <1>5 DEF Pair, Promised, Confirmed
<1>9. /\ \A u \in Types : b.dec[u] # FAILED => r.dec[u] # FAILED
      /\ \A u \in Types : r.dec[u] # FAILED => u \in r.remote_encrypt /\ r.decrypt_mode # None
      /\ \A u \in Types : r.enc[u] # FAILED /\ "NO_RECV_IV" \notin r.enc[u] => q.dec[u] # FAILED
  BY <1>7, <1>8
<1>10. Good(b, r, q, FALSE)
  BY <1>0, <1>5, <1>7, <1>9, Adjusted, Zenon DEF Adjusts
<1> QED BY <1>0, <1>1, <1>2, <1>4, <1>10, GoodTrans

\* What the user has said about answering by itself is beside it.
LEMMA Toggled ==
  ASSUME NEW p \in Sides, NEW on \in BOOLEAN
  PROVE  /\ [p EXCEPT !.autoencrypt = on] \in Sides
         /\ [p EXCEPT !.autodecrypt = on] \in Sides
         /\ Core([p EXCEPT !.autoencrypt = on]) = Core(p)
         /\ Core([p EXCEPT !.autodecrypt = on]) = Core(p)
         /\ p.autoencrypt \in BOOLEAN /\ p.autodecrypt \in BOOLEAN
<1>1. [p EXCEPT !.autoencrypt = on] \in Sides /\ p.autoencrypt \in BOOLEAN
  BY DEF Sides
<1>2. [p EXCEPT !.autodecrypt = on] \in Sides /\ p.autodecrypt \in BOOLEAN
  BY DEF Sides
<1>3. Core([p EXCEPT !.autoencrypt = on]) = Core(p)
  BY DEF Sides, Core
<1>4. Core([p EXCEPT !.autodecrypt = on]) = Core(p)
  BY DEF Sides, Core
<1> QED BY <1>1, <1>2, <1>3, <1>4

\* A command; free tells whether it leaves the types alone.
LEMMA ObeyGood ==
  ASSUME NEW p \in Sides, NEW q \in Sides, NEW free \in BOOLEAN, Pair(p, q, free),
         NEW verb \in Verbs, NEW t \in Types, NEW mode \in Modes, free => verb \notin ByHand
  PROVE  Good(p, Obey(p, verb, t, mode), q, free)
<1> DEFINE a == [p EXCEPT !.autoencrypt = ~@]
           b == [p EXCEPT !.autodecrypt = ~@]
<1>1. CASE verb = "type"
  <2>1. Obey(p, verb, t, mode) = EncryptType(p, t, mode) /\ free = FALSE
    BY <1>1 DEF Obey, ByHand
  <2> QED BY <2>1, TypeGood
<1>2. CASE verb = "enable"
  <2>1. Obey(p, verb, t, mode) = EncryptStart(EncryptType(p, t, mode), mode) /\ free = FALSE
    BY <1>2 DEF Obey, ByHand
  <2>2. Good(p, EncryptType(p, t, mode), q, FALSE)
    BY <2>1, TypeGood
  <2>3. EncryptType(p, t, mode) \in Sides /\ Pair(EncryptType(p, t, mode), q, free)
    BY <2>1, <2>2, GoodSide
  <2>4. Good(EncryptType(p, t, mode), EncryptStart(EncryptType(p, t, mode), mode), q, free)
    BY <2>3, EncryptStartGood
  <2> QED BY <2>1, <2>2, <2>4, GoodTrans
<1>3. CASE verb = "start"
  <2>1. Obey(p, verb, t, mode) = EncryptStart(p, mode)
    BY <1>3 DEF Obey
  <2> QED BY <2>1, EncryptStartGood
<1>4. CASE verb = "stop"
  <2>1. Obey(p, verb, t, mode) = EncryptStop(p, mode)
    BY <1>4 DEF Obey
  <2> QED BY <2>1, EncryptStopGood
<1>5. CASE verb = "disable"
  <2>1. Obey(p, verb, t, mode) = EncryptDisable(p, t, mode) /\ free = FALSE
    BY <1>5 DEF Obey, ByHand
  <2> QED BY <2>1, DisableGood
<1>6. CASE verb = "autoencrypt"
  <2>1. Obey(p, verb, t, mode) = a
    BY <1>6 DEF Obey
  <2>2. a \in Sides /\ Core(a) = Core(p)
    <3> DEFINE on == ~p.autoencrypt
    <3>1. on \in BOOLEAN /\ a = [p EXCEPT !.autoencrypt = on]
      OBVIOUS
    <3> HIDE DEF on, a
    <3> QED BY <3>1, Toggled
  <2> HIDE DEF a
  <2> QED BY <2>1, <2>2, BesideGood
<1>7. CASE verb = "autodecrypt"
  <2>1. Obey(p, verb, t, mode) = b
    BY <1>7 DEF Obey
  <2>2. b \in Sides /\ Core(b) = Core(p)
    <3> DEFINE on == ~p.autodecrypt
    <3>1. on \in BOOLEAN /\ b = [p EXCEPT !.autodecrypt = on]
      OBVIOUS
    <3> HIDE DEF on, b
    <3> QED BY <3>1, Toggled
  <2> HIDE DEF b
  <2> QED BY <2>1, <2>2, BesideGood
<1> QED BY <1>1, <1>2, <1>3, <1>4, <1>5, <1>6, <1>7 DEF Verbs
-----------------------------------------------------------------------------
(* The steps of the two programs.                                          *)

\* What a side is doing besides does not matter to the other.
LEMMA PhaseGood ==
  ASSUME NEW p \in Sides, NEW q \in Sides, NEW free \in BOOLEAN, Pair(p, q, free),
         NEW x \in {"auth", "options", "wait", "input", "output", "both",
                   "waiting", "main", "exit"},
         NEW r, r = [p EXCEPT !.phase = x]
  PROVE  Good(p, r, q, free)
<1>1. r \in Sides
  BY DEF Sides
<1>2. Core(r) = Core(p)
  BY DEF Sides, Core
<1> QED BY <1>1, <1>2, BesideGood

\* What telnet() opens with.
Opening == <<Plain("DO"), Plain("WILL")>>

\* A server as its command line has it.
Must(s, must) == [s EXCEPT !.must = must]

\* Before anything has been sent but DO and WILL the two agree.
LEMMA SideInit ==
  ASSUME NEW server \in BOOLEAN, NEW auto \in BOOLEAN, NEW must \in BOOLEAN,
         NEW out \in {<<>>, Opening},
         NEW p,
         p = Side(server, auto, out) \/ p = Must(Side(server, auto, out), must)
  PROVE  /\ p \in Sides /\ Promised(p) /\ OneType(p)
         /\ \A t \in Types : p.enc[t] = FAILED
         /\ p.encrypt_output = None /\ p.decrypt_input = None
         /\ \A i \in 0..Len(p.out) : Under(p, i) = None
         /\ \A i \in 1..Len(p.out) : p.out[i].say \notin {"START", "END"}
<1>1. Plain("DO") \in Message /\ Plain("WILL") \in Message
  BY DEF Plain, Message, Says
<1>2. out \in Seq(Message) /\ Len(out) \in Nat
  <2>1. CASE out = <<>>
    BY <2>1
  <2>2. CASE out = Opening
    <3> DEFINE d == Plain("DO")
               w == Plain("WILL")
    <3>1. d \in Message /\ w \in Message /\ out = <<d, w>>
      BY <1>1, <2>2 DEF Opening
    <3> HIDE DEF d, w
    <3> QED BY <3>1
  <2> QED BY <2>1, <2>2
<1>3. \A i \in 1..Len(out) : out[i].say \in {"DO", "WILL"} /\ out[i].enc = None
  BY DEF Plain, Opening
<1>4. /\ p.out = out /\ p.server = server /\ p.support = TRUE
      /\ p.i_encrypt = Types /\ p.i_decrypt = Types
      /\ p.enc = [t \in Types |-> FAILED] /\ p.dec = [t \in Types |-> FAILED]
      /\ p.need_start = {} /\ p.encrypt_mode = None /\ p.decrypt_mode = None
      /\ p.encrypt_output = None /\ p.decrypt_input = None
  <2>1. CASE p = Side(server, auto, out)
    BY <2>1 DEF Side
  <2>2. CASE p = Must(Side(server, auto, out), must)
    BY <2>2 DEF Side, Must
  <2> QED BY <2>1, <2>2
<1>5. p \in Sides
  <2>1. FAILED \in StreamState /\ 0 \in 0..1
    BY DEF StreamState
  <2>2. Side(server, auto, out) \in Sides
    BY <1>2, <2>1 DEF Side, Sides, Ciphers
  <2>3. Must(Side(server, auto, out), must) \in Sides
    BY <2>2 DEF Sides, Must
  <2> QED BY <2>2, <2>3
<1>6. Promised(p)
  BY <1>3, <1>4 DEF Promised
<1>7. OneType(p)
  BY <1>3, <1>4 DEF OneType
<1>8. \A i \in 0..Len(p.out) : Under(p, i) = None
  <2> SUFFICES ASSUME NEW i \in 0..Len(p.out) PROVE Under(p, i) = None
    OBVIOUS
  <2>1. i < Len(out) => i + 1 \in 1..Len(out)
    BY <1>2, <1>4
  <2> QED BY <1>3, <1>4, <2>1 DEF Under
<1>9. \A i \in 1..Len(p.out) : p.out[i].say \notin {"START", "END"}
  BY <1>3, <1>4
<1> QED BY <1>4, <1>5, <1>6, <1>7, <1>8, <1>9

\* Two sides that have written nothing under a cipher are a pair.
LEMMA PairInit ==
  ASSUME NEW p \in Sides, NEW q \in Sides, Promised(p), OneType(p),
         \A t \in Types : p.enc[t] = FAILED,
         p.encrypt_output = None, q.decrypt_input = None,
         \A i \in 0..Len(p.out) : Under(p, i) = None,
         \A i \in 1..Len(p.out) : p.out[i].say \notin {"START", "END"}
  PROVE  Pair(p, q, TRUE)
<1>1. Confirmed(p, q)
  BY DEF Confirmed
<1>2. Len(p.out) \in Nat
  BY OutType
<1>3. 0 \in 0..Len(p.out) /\ \A i \in 1..Len(p.out) : i \in 0..Len(p.out) /\ i - 1 \in 0..Len(p.out)
  BY <1>2
<1>4. Switches(p, q)
  BY <1>3 DEF Switches
<1> QED BY <1>1, <1>4 DEF Pair

\* The invariant holds at the start.
LEMMA InvInit == Init => Inv
<1> SUFFICES ASSUME Init PROVE Inv
  OBVIOUS
<1> USE EncryptAssumption DEF EncryptAssumption
<1>1. PICK s \in Settings :
        /\ cli = Side(FALSE, s[1], Opening)
        /\ srv = Must(Side(TRUE, FALSE, <<>>), s[2])
  BY DEF Init, Must, Opening
<1>2. /\ s[1] \in BOOLEAN /\ s[2] \in BOOLEAN /\ TRUE \in BOOLEAN /\ FALSE \in BOOLEAN
      /\ <<>> \in {<<>>, Opening} /\ Opening \in {<<>>, Opening}
  BY <1>1
<1>3. /\ cli \in Sides /\ Promised(cli) /\ OneType(cli)
      /\ \A t \in Types : cli.enc[t] = FAILED
      /\ cli.encrypt_output = None /\ cli.decrypt_input = None
      /\ \A i \in 0..Len(cli.out) : Under(cli, i) = None
      /\ \A i \in 1..Len(cli.out) : cli.out[i].say \notin {"START", "END"}
  <2>1. cli = Side(FALSE, s[1], Opening) \/ cli = Must(Side(FALSE, s[1], Opening), FALSE)
    BY <1>1
  <2> QED BY <1>2, <2>1, SideInit, ZenonT(60)
<1>4. /\ srv \in Sides /\ Promised(srv) /\ OneType(srv)
      /\ \A t \in Types : srv.enc[t] = FAILED
      /\ srv.encrypt_output = None /\ srv.decrypt_input = None
      /\ \A i \in 0..Len(srv.out) : Under(srv, i) = None
      /\ \A i \in 1..Len(srv.out) : srv.out[i].say \notin {"START", "END"}
  <2>1. srv = Side(TRUE, FALSE, <<>>) \/ srv = Must(Side(TRUE, FALSE, <<>>), s[2])
    BY <1>1
  <2> QED BY <1>2, <2>1, SideInit, ZenonT(60)
<1>5. Pair(cli, srv, TRUE) /\ Pair(srv, cli, TRUE)
  BY <1>3, <1>4, PairInit
<1>6. commands \in 0..MaxCommands /\ given \subseteq Verbs
  BY DEF Init
<1> QED BY <1>3, <1>4, <1>5, <1>6 DEF Inv, TypeOK, Pair

\* A good step of the client leaves the two as they should be.
LEMMA CliGood ==
  ASSUME Inv, Good(cli, cli', srv, Free), UNCHANGED <<srv, commands, given>>
  PROVE  Inv'
<1>1. Pair(srv, cli', Free)
  <2>1. Free \in BOOLEAN
    BY DEF Free
  <2> QED BY <2>1, ReaderGrows DEF Inv, TypeOK, Good
<1> QED BY <1>1 DEF Inv, TypeOK, Good, Free

\* A good step of the server does.
LEMMA SrvGood ==
  ASSUME Inv, Good(srv, srv', cli, Free), UNCHANGED <<cli, commands, given>>
  PROVE  Inv'
<1>1. Pair(cli, srv', Free)
  <2>1. Free \in BOOLEAN
    BY DEF Free
  <2> QED BY <2>1, ReaderGrows DEF Inv, TypeOK, Good
<1> QED BY <1>1 DEF Inv, TypeOK, Good, Free

\* Each step keeps the invariant.
LEMMA InvNext == Inv /\ [Next]_vars => Inv'
<1> SUFFICES ASSUME Inv, [Next]_vars PROVE Inv'
  OBVIOUS
<1> USE EncryptAssumption DEF EncryptAssumption
<1>0. /\ cli \in Sides /\ srv \in Sides /\ Free \in BOOLEAN
      /\ Pair(cli, srv, Free) /\ Pair(srv, cli, Free)
  BY DEF Inv, TypeOK, Free
<1>1. CASE CliRecv
  <2>1. srv.out # <<>> /\ cli' = Receive(cli, Head(srv.out)) /\ srv' = Rest(srv)
    BY <1>1 DEF CliRecv, Rest
  <2>2. cli' \in Sides /\ srv' \in Sides /\ Pair(cli', srv', Free) /\ Pair(srv', cli', Free)
    BY <1>0, <2>1, ReceiveGood
  <2> QED BY <1>1, <2>2 DEF CliRecv, Inv, TypeOK, Free
<1>2. CASE SrvRecv
  <2>1. cli.out # <<>> /\ srv' = Receive(srv, Head(cli.out)) /\ cli' = Rest(cli)
    BY <1>2 DEF SrvRecv, Rest
  <2>2. cli' \in Sides /\ srv' \in Sides /\ Pair(srv', cli', Free) /\ Pair(cli', srv', Free)
    BY <1>0, <2>1, ReceiveGood
  <2> QED BY <1>2, <2>2 DEF SrvRecv, Inv, TypeOK, Free
<1>3. CASE CliEncrypting \/ CliGiveUp \/ CliEof
  <2>1. PICK x \in {"main", "exit"} : cli' = [cli EXCEPT !.phase = x]
    BY <1>3 DEF CliEncrypting, CliGiveUp, CliEof, CliStep
  <2>2. Good(cli, cli', srv, Free)
    BY <1>0, <2>1, PhaseGood
  <2> QED BY <1>3, <2>2, CliGood DEF CliEncrypting, CliGiveUp, CliEof, CliStep
<1>4. CASE Command
  <2>1. PICK c \in Commands : cli' = Obey(cli, c[1], c[2], c[3]) /\ given' = given \cup {c[1]}
    BY <1>4 DEF Command
  <2>2. c[1] \in Verbs /\ c[2] \in Types /\ c[3] \in Modes
    BY <2>1
  <2>3. /\ Free' \in BOOLEAN
        /\ Free' => Free
        /\ Free' => c[1] \notin ByHand
    BY <2>1 DEF Free
  <2>4. Pair(cli, srv, Free') /\ Pair(srv, cli, Free')
    BY <1>0, <2>3 DEF Pair
  <2>5. Good(cli, cli', srv, Free')
    BY <1>0, <2>1, <2>2, <2>3, <2>4, ObeyGood
  <2>6. Pair(srv, cli', Free') /\ Pair(cli', srv, Free') /\ cli' \in Sides
    BY <1>0, <2>3, <2>4, <2>5, ReaderGrows DEF Good
  <2>7. srv' = srv /\ commands' \in 0..MaxCommands /\ given' \subseteq Verbs
    BY <1>4, <2>1, <2>2 DEF Command, Inv, TypeOK
  <2> QED BY <1>0, <2>6, <2>7 DEF Inv, TypeOK
<1>5. CASE KerberosAccept
  <2> DEFINE w == Write(srv, "ACCEPT", None, 0)
  <2>1. srv' = SessionKey(w) /\ UNCHANGED <<cli, commands, given>>
    BY <1>5 DEF KerberosAccept
  <2>2. Good(srv, w, cli, Free)
    <3>1. "ACCEPT" \in Says \ {"START", "END", "IS", "REPLY"} /\ 0 \in 0..1
      BY DEF Says
    <3> QED BY <1>0, <3>1, SaysGood
  <2> HIDE DEF w
  <2>3. Good(w, SessionKey(w), cli, Free)
    BY <1>0, <2>2, GoodSide, SessionKeyGood
  <2>4. Good(srv, srv', cli, Free)
    BY <1>0, <2>1, <2>2, <2>3, GoodTrans
  <2> QED BY <2>1, <2>4, SrvGood
<1>6. CASE AuthWaited
  <2> DEFINE a == IF srv.willed THEN srv ELSE Write(srv, "WILL", None, 0)
             b == [a EXCEPT !.willed = TRUE]
  <2>1. srv' = [b EXCEPT !.phase = "options"] /\ UNCHANGED <<cli, commands, given>>
    BY <1>6 DEF AuthWaited, SrvStep
  <2>2. Good(srv, a, cli, Free)
    <3>1. "WILL" \in Says \ {"START", "END", "IS", "REPLY"} /\ 0 \in 0..1
      BY DEF Says
    <3> QED BY <1>0, <3>1, SaysGood, GoodItself
  <2> HIDE DEF a
  <2>3. a \in Sides /\ Pair(a, cli, Free)
    BY <1>0, <2>2, GoodSide
  <2>4. Good(a, b, cli, Free)
    <3>1. b \in Sides /\ Core(b) = Core(a)
      BY <2>3 DEF Sides, Core
    <3> HIDE DEF b
    <3> QED BY <1>0, <2>3, <3>1, BesideGood
  <2> HIDE DEF b
  <2>5. b \in Sides /\ Pair(b, cli, Free)
    BY <1>0, <2>4, GoodSide
  <2>6. Good(b, srv', cli, Free)
    BY <1>0, <2>1, <2>5, PhaseGood
  <2>7. Good(srv, srv', cli, Free)
    BY <1>0, <2>2, <2>4, <2>6, GoodTrans
  <2> QED BY <2>1, <2>7, SrvGood
<1>7. CASE EncryptWait \/ EncryptWaited \/ MustBoth \/ SrvGiveUp \/ SrvEof
  <2>1. /\ \E x \in {"wait", "input", "main", "exit"} : srv' = [srv EXCEPT !.phase = x]
        /\ UNCHANGED <<cli, commands, given>>
    BY <1>7 DEF EncryptWait, EncryptWaited, MustBoth, SrvGiveUp, SrvEof, SrvStep, Go
  <2>2. PICK x \in {"wait", "input", "main", "exit"} : srv' = [srv EXCEPT !.phase = x]
    BY <2>1
  <2>3. Good(srv, srv', cli, Free)
    BY <1>0, <2>2, PhaseGood
  <2> QED BY <2>1, <2>3, SrvGood
<1>8. CASE MustInput \/ MustOutput
  <2>1. PICK a \in {StartInput(srv), EncryptStart(srv, "output")}, x \in {"output", "both"} :
          srv' = [a EXCEPT !.phase = x]
    BY <1>8 DEF MustInput, MustOutput, SrvStep
  <2>2. Good(srv, a, cli, Free)
    BY <1>0, <2>1, EncryptStartGood
  <2>3. a \in Sides /\ Pair(a, cli, Free)
    BY <1>0, <2>2, GoodSide
  <2>4. Good(a, srv', cli, Free)
    BY <1>0, <2>1, <2>3, PhaseGood
  <2>5. Good(srv, srv', cli, Free)
    BY <1>0, <2>2, <2>4, GoodTrans
  <2>6. UNCHANGED <<cli, commands, given>>
    BY <1>8 DEF MustInput, MustOutput, SrvStep
  <2> QED BY <2>5, <2>6, SrvGood
<1>9. CASE UNCHANGED vars
  <2>1. Good(cli, cli', srv, Free) /\ UNCHANGED <<srv, commands, given>>
    BY <1>0, <1>9, GoodItself DEF vars
  <2> QED BY <2>1, CliGood
<1> QED BY <1>1, <1>2, <1>3, <1>4, <1>5, <1>6, <1>7, <1>8, <1>9
        DEF Next, SrvStartup, GiveUp, Eof
-----------------------------------------------------------------------------
(* What the invariant is for.                                              *)

\* What a writer switches to, its reader is prepared for.
LEMMA PairPrepared ==
  ASSUME NEW p \in Sides, NEW q \in Sides, NEW free, NEW free2,
         Pair(p, q, free), Pair(q, p, free2)
  PROVE  Prepared(p, q)
<1>1. p.encrypt_output \in Types \cup {None}
  BY DEF Sides, Ciphers
<1> QED BY <1>1 DEF Pair, Confirmed, Promised, Prepared

\* As long as the types are left alone a START stands for the one there is.
LEMMA PairFollows ==
  ASSUME NEW p \in Sides, NEW q \in Sides, Pair(p, q, TRUE), Pair(q, p, TRUE)
  PROVE  Follows(q, p)
<1>1. OneType(p) /\ OneType(q) /\ Switches(p, q) /\ Promised(q)
  BY DEF Pair
<1>2. First \in Types
  BY DEF First, Types
<1>3. ASSUME NEW i \in 1..Len(p.out), p.out[i].say = "START"
      PROVE  StandsFor(q, p.out, i - 1, Under(p, i))
  <2>1. Under(p, i) = First /\ q.dec[First] # FAILED
    BY <1>1, <1>3 DEF Switches
  <2>2. q.decrypt_mode = First
    BY <1>1, <1>2, <2>1 DEF Promised, OneType
  <2>3. \A k \in 1..(i - 1) : k \in 1..Len(p.out)
    BY OutType
  <2>4. \A k \in {k \in 1..(i - 1) : p.out[k].say = "IS"} : p.out[k].type = First
    BY <1>1, <2>3 DEF OneType
  <2> QED BY <2>1, <2>2, <2>4 DEF StandsFor
<1>4. q.decrypt_input = Under(p, 0)
  BY <1>1 DEF Switches
<1>5. ASSUME NEW i \in 1..Len(p.out)
      PROVE  CASE p.out[i].say = "START" -> StandsFor(q, p.out, i - 1, Under(p, i))
               [] p.out[i].say = "END" -> Under(p, i) = None
               [] OTHER -> Under(p, i) = Under(p, i - 1)
  <2>1. CASE p.out[i].say = "START"
    BY <1>3, <2>1
  <2>2. CASE p.out[i].say = "END"
    BY <1>1, <2>2 DEF Switches
  <2>3. CASE p.out[i].say \notin {"START", "END"}
    BY <1>1, <2>3 DEF Switches
  <2> QED BY <2>1, <2>2, <2>3
<1> QED BY <1>4, <1>5 DEF Follows

\* The invariant gives the property.
LEMMA InvReadable == Inv => Readable
<1> SUFFICES ASSUME Inv PROVE Readable
  OBVIOUS
<1>1. cli \in Sides /\ srv \in Sides /\ Pair(cli, srv, Free) /\ Pair(srv, cli, Free) /\ TypeOK
  BY DEF Inv, TypeOK
<1>2. Prepared(cli, srv) /\ Prepared(srv, cli)
  BY <1>1, PairPrepared
<1>3. ASSUME Free
      PROVE  Follows(cli, srv) /\ Follows(srv, cli)
  <2>1. Pair(cli, srv, TRUE) /\ Pair(srv, cli, TRUE)
    BY <1>1, <1>3
  <2> QED BY <1>1, <2>1, PairFollows
<1> QED BY <1>1, <1>2, <1>3 DEF Readable, Free

\* The invariant holds in every state.
LEMMA InvHolds == Spec => []Inv
BY InvInit, InvNext, PTL DEF Spec

\* The types of the variables, in every state.
THEOREM TypeCorrect == Spec => []TypeOK
<1>1. Inv => TypeOK
  BY DEF Inv
<1> QED BY <1>1, InvHolds, PTL

\* However many commands the user gives, of whatever types, and however START, END
\* and the requests for them cross: no side writes under a cipher for which the
\* other has taken no vector; and unless the user sets a type by hand, each message
\* is read under the cipher it was written under (encrypt_start_output(),
\* encrypt_start(), encrypt_is(), encrypt_reply()).
THEOREM ReadableHolds == Spec => []Readable
BY InvHolds, InvReadable, PTL
=============================================================================
