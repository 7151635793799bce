---------------------- MODULE TelnetNegotiation_proofs ----------------------
(***************************************************************************)
(* Proofs about TelnetNegotiation: its type invariant, Announced and       *)
(* Agreement, for every set of options, whatever commands the user gives.  *)
(***************************************************************************)
EXTENDS TelnetNegotiation, TLAPS

Peer == Client \cup Server

-----------------------------------------------------------------------------
(* The two primitive updates of a peer.                                    *)

\* A peer has a well-typed machine for every option on each side.
LEMMA MachineType ==
    ASSUME NEW p \in Peer, NEW s \in Sides, NEW o \in Options
    PROVE  p.opt[s][o] \in Machine
BY DEF Peer, Client, Server

\* Put changes one machine, and nothing else.
LEMMA PutType ==
    ASSUME NEW p \in Peer, NEW s \in Sides, NEW o \in Options, NEW m \in Machine
    PROVE  /\ p \in Client => Put(p, s, o, m) \in Client
           /\ p \in Server => Put(p, s, o, m) \in Server
           /\ Put(p, s, o, m) \in Peer
           /\ Put(p, s, o, m).out = p.out
<1>1. p \in Client => Put(p, s, o, m) \in Client
  BY DEF Put, Client
<1>2. p \in Server => Put(p, s, o, m) \in Server
  BY DEF Put, Server
<1>3. Put(p, s, o, m).out = p.out
  BY DEF Put, Peer, Client, Server
<1> QED
  BY <1>1, <1>2, <1>3 DEF Peer

\* The machine put is read back, and every other machine is as before.
LEMMA PutMachine ==
    ASSUME NEW p \in Peer, NEW s \in Sides, NEW o \in Options, NEW m \in Machine,
           NEW t \in Sides, NEW x \in Options
    PROVE  Put(p, s, o, m).opt[t][x] =
              IF t = s /\ x = o THEN m ELSE p.opt[t][x]
BY DEF Put, Peer, Client, Server

\* A message written goes to the end of out, and changes nothing else.
LEMMA WriteType ==
    ASSUME NEW p \in Peer, NEW s \in Sides \cup {"sub"}, NEW o \in Options,
           NEW on \in BOOLEAN
    PROVE  /\ p \in Client => Write(p, s, o, on) \in Client
           /\ p \in Server => Write(p, s, o, on) \in Server
           /\ Write(p, s, o, on) \in Peer
           /\ Write(p, s, o, on).out = Append(p.out, Msg(s, o, on))
           /\ Write(p, s, o, on).opt = p.opt
<1>1. Msg(s, o, on) \in Message
  BY DEF Msg, Message
<1>2. p.out \in Seq(Message)
  BY DEF Peer, Client, Server
<1>3. Append(p.out, Msg(s, o, on)) \in Seq(Message)
  BY <1>1, <1>2
<1>4. p \in Client => Write(p, s, o, on) \in Client
  BY <1>3 DEF Write, Client
<1>5. p \in Server => Write(p, s, o, on) \in Server
  BY <1>3 DEF Write, Server
<1>6. /\ Write(p, s, o, on).out = Append(p.out, Msg(s, o, on))
      /\ Write(p, s, o, on).opt = p.opt
  BY DEF Write, Peer, Client, Server
<1> QED
  BY <1>4, <1>5, <1>6 DEF Peer

-----------------------------------------------------------------------------
(* What the peer at the other end hears.                                   *)

\* A message other than neg, at the end, leaves the last word to pos.
LEMMA EndsAfterAppend ==
    ASSUME NEW S, NEW out \in Seq(S), NEW pos, NEW neg, NEW st \in BOOLEAN, NEW m \in S,
           m # neg, Ends(out, pos, neg, st)
    PROVE  Ends(Append(out, m), pos, neg, st)
<1> DEFINE q == Append(out, m)
<1>1. /\ Len(q) = Len(out) + 1 /\ Len(out) \in Nat
      /\ q[Len(out) + 1] = m
      /\ \A i \in 1..Len(out) : q[i] = out[i]
  OBVIOUS
<1> HIDE DEF q
<1>2. \A i \in 1..Len(q) : q[i] = neg =>
         \E j \in i+1..Len(q) : q[j] = pos
  BY <1>1 DEF Ends
<1>3. st \/ \E i \in 1..Len(q) : q[i] = pos
  BY <1>1 DEF Ends
<1> QED BY <1>2, <1>3 DEF Ends, q

\* pos at the end has the last word.
LEMMA EndsAfterPositive ==
    ASSUME NEW S, NEW out \in Seq(S), NEW pos \in S, NEW neg, NEW st \in BOOLEAN, pos # neg
    PROVE  Ends(Append(out, pos), pos, neg, st)
<1> DEFINE q == Append(out, pos)
<1>1. /\ Len(q) = Len(out) + 1 /\ Len(out) \in Nat
      /\ q[Len(out) + 1] = pos
  OBVIOUS
<1> HIDE DEF q
<1> QED BY <1>1 DEF Ends, q

\* When the first message is read, the last word stays with pos, provided the
\* reader's state has become what that message says.
LEMMA EndsAfterTail ==
    ASSUME NEW S, NEW out \in Seq(S), out # <<>>, NEW pos, NEW neg,
           NEW st \in BOOLEAN, NEW new \in BOOLEAN,
           Head(out) = pos => new,
           Head(out) # pos /\ Head(out) # neg => new = st,
           Ends(out, pos, neg, st)
    PROVE  Ends(Tail(out), pos, neg, new)
<1> DEFINE q == Tail(out)
<1>1. /\ Len(out) \in Nat /\ Len(out) > 0 /\ Len(q) = Len(out) - 1
      /\ out[1] = Head(out)
      /\ \A i \in 1..Len(q) : q[i] = out[i+1]
  OBVIOUS
<1> HIDE DEF q
<1>2. \A k \in 2..Len(out) : k - 1 \in 1..Len(q) /\ q[k-1] = out[k]
  BY <1>1
<1>3. ASSUME NEW i \in 1..Len(q), q[i] = neg
      PROVE  \E j \in i+1..Len(q) : q[j] = pos
  <2>1. i + 1 \in 1..Len(out) /\ out[i+1] = neg
    BY <1>1, <1>3
  <2>2. PICK k \in i+2..Len(out) : out[k] = pos
    BY <2>1, <1>1 DEF Ends
  <2>3. k - 1 \in i+1..Len(q) /\ q[k-1] = pos
    BY <2>2, <1>1, <1>2
  <2> QED BY <2>3
<1>4. new \/ \E i \in 1..Len(q) : q[i] = pos
  <2>1. CASE out[1] = pos
    BY <2>1, <1>1
  <2>2. CASE out[1] # pos /\ out[1] # neg /\ st
    BY <2>2, <1>1
  <2>3. CASE out[1] # pos /\ (out[1] = neg \/ ~st)
    <3>1. PICK k \in 2..Len(out) : out[k] = pos
      BY <2>3, <1>1 DEF Ends
    <3> QED BY <3>1, <1>2
  <2> QED BY <2>1, <2>2, <2>3
<1> QED BY <1>3, <1>4 DEF Ends, q

\* Anything but the negative message may be written after a promise.
LEMMA HeardAfterAppend ==
    ASSUME NEW out \in Seq(Message), NEW s \in Sides, NEW o \in Options,
           NEW st \in BOOLEAN, NEW m \in Message,
           m # Msg(s, o, FALSE), Heard(out, s, o, st)
    PROVE  Heard(Append(out, m), s, o, st)
BY EndsAfterAppend DEF Heard

\* Writing the positive message makes the promise.
LEMMA HeardAfterPositive ==
    ASSUME NEW out \in Seq(Message), NEW s \in Sides, NEW o \in Options,
           NEW st \in BOOLEAN
    PROVE  Heard(Append(out, Msg(s, o, TRUE)), s, o, st)
<1>1. Msg(s, o, TRUE) \in Message /\ Msg(s, o, TRUE) # Msg(s, o, FALSE)
  BY DEF Msg, Message
<1> QED BY <1>1, EndsAfterPositive DEF Heard

\* Reading the first message is what the state of the reader becomes.
LEMMA HeardAfterTail ==
    ASSUME NEW out \in Seq(Message), out # <<>>,
           NEW s \in Sides, NEW o \in Options,
           NEW st \in BOOLEAN, NEW new \in BOOLEAN,
           Head(out).side = s /\ Head(out).opt = o => new = Head(out).on,
           ~(Head(out).side = s /\ Head(out).opt = o) => new = st,
           Heard(out, s, o, st)
    PROVE  Heard(Tail(out), s, o, new)
<1> DEFINE h == Head(out)
<1>1. h \in Message
  OBVIOUS
<1>2. h = Msg(s, o, TRUE) => new
  BY DEF Msg
<1>3. h # Msg(s, o, TRUE) /\ h # Msg(s, o, FALSE) => ~(h.side = s /\ h.opt = o)
  BY <1>1 DEF Msg, Message
<1>4. h # Msg(s, o, TRUE) /\ h # Msg(s, o, FALSE) => new = st
  BY <1>3
<1> QED BY <1>2, <1>4, EndsAfterTail DEF Heard

-----------------------------------------------------------------------------
(* What a handler may do to the promises of its peer.                      *)

\* For whatever state b of the other end: if what q wants was announced to it
\* as long as what p wants was.
Promise(p, q) ==
    \A s \in Sides, o \in Options \ {"TM"}, b \in BOOLEAN :
        (p.opt[s][o].want => Heard(p.out, s, o, b)) =>
            (q.opt[s][o].want => Heard(q.out, s, o, b))

Typed(p, q) == /\ p \in Client => q \in Client
               /\ p \in Server => q \in Server
               /\ q \in Peer

\* q is p after requests, answers and side effects; no state has changed.
Keeps(p, q) ==
    /\ Typed(p, q)
    /\ Promise(p, q)
    /\ \A s \in Sides, o \in Options : q.opt[s][o].state = p.opt[s][o].state

\* q is p after a message (side, opt, on) has been handled.
Handled(p, q, side, opt, on) ==
    /\ Typed(p, q)
    /\ Promise(p, q)
    /\ \A s \in Sides, o \in Options \ {"TM"} :
          q.opt[s][o].state = IF s = side /\ o = opt THEN on
                              ELSE p.opt[s][o].state

\* A peer that does nothing keeps its promises.
LEMMA KeepsItself ==
    ASSUME NEW p \in Peer PROVE Keeps(p, p)
BY DEF Keeps, Typed, Promise

\* Keeping promises composes.
LEMMA KeepsTrans ==
    ASSUME NEW p, NEW q, NEW r, Keeps(p, q), Keeps(q, r)
    PROVE  Keeps(p, r)
<1>1. Typed(p, r)
  BY DEF Keeps, Typed, Peer
<1>2. Promise(p, r)
  BY DEF Keeps, Promise
<1>3. \A s \in Sides, o \in Options : r.opt[s][o].state = p.opt[s][o].state
  BY DEF Keeps
<1> QED BY <1>1, <1>2, <1>3 DEF Keeps

\* Something done before a message is handled changes nothing of the result.
LEMMA KeepsHandled ==
    ASSUME NEW p, NEW q, NEW r, NEW side, NEW opt, NEW on, Keeps(p, q),
           Handled(q, r, side, opt, on)
    PROVE  Handled(p, r, side, opt, on)
<1>1. Typed(p, r)
  BY DEF Keeps, Handled, Typed, Peer
<1>2. Promise(p, r)
  BY DEF Keeps, Handled, Promise
<1>3. \A s \in Sides, o \in Options \ {"TM"} :
          r.opt[s][o].state = IF s = side /\ o = opt THEN on
                              ELSE p.opt[s][o].state
  BY DEF Keeps, Handled
<1> QED BY <1>1, <1>2, <1>3 DEF Handled

\* Nor does something done after it.
LEMMA HandledKeeps ==
    ASSUME NEW p, NEW q, NEW r, NEW side, NEW opt, NEW on,
           Handled(p, q, side, opt, on), Keeps(q, r)
    PROVE  Handled(p, r, side, opt, on)
<1>1. Typed(p, r)
  BY DEF Keeps, Handled, Typed, Peer
<1>2. Promise(p, r)
  BY DEF Keeps, Handled, Promise
<1>3. \A s \in Sides, o \in Options \ {"TM"} :
          r.opt[s][o].state = IF s = side /\ o = opt THEN on
                              ELSE p.opt[s][o].state
  BY DEF Keeps, Handled
<1> QED BY <1>1, <1>2, <1>3 DEF Handled

-----------------------------------------------------------------------------
(* The operators the handlers are built from.                              *)

\* A change of one machine that does not turn want on.
LEMMA PutKeeps ==
    ASSUME NEW p \in Peer, NEW s \in Sides, NEW o \in Options, NEW m \in Machine,
           m.state = p.opt[s][o].state,
           m.want => p.opt[s][o].want
    PROVE  Keeps(p, Put(p, s, o, m))
<1> DEFINE q == Put(p, s, o, m)
<1>1. Typed(p, q) /\ q.out = p.out
  BY PutType DEF Typed
<1>2. \A t \in Sides, x \in Options :
         q.opt[t][x] = IF t = s /\ x = o THEN m ELSE p.opt[t][x]
  BY PutMachine
<1> HIDE DEF q
<1>3. Promise(p, q)
  BY <1>1, <1>2 DEF Promise
<1>4. \A t \in Sides, x \in Options : q.opt[t][x].state = p.opt[t][x].state
  BY <1>2
<1> QED BY <1>1, <1>3, <1>4 DEF Keeps, q

\* Ceasing to want an option breaks no promise.
LEMMA SetWantOffKeeps ==
    ASSUME NEW p \in Peer, NEW s \in Sides, NEW o \in Options
    PROVE  Keeps(p, SetWant(p, s, o, FALSE)) /\ ~SetWant(p, s, o, FALSE).opt[s][o].want
<1> DEFINE m == [p.opt[s][o] EXCEPT !.want = FALSE]
<1>1. m \in Machine /\ m.state = p.opt[s][o].state /\ ~m.want
  BY MachineType DEF Machine
<1> HIDE DEF m
<1>2. Put(p, s, o, m).opt[s][o] = m
  BY <1>1, PutMachine
<1> QED BY <1>1, <1>2, PutKeeps DEF SetWant, m

\* Changing a counter of outstanding answers breaks no promise.
LEMMA SetRespKeeps ==
    ASSUME NEW p \in Peer, NEW s \in Sides, NEW o \in Options, NEW r \in Nat
    PROVE  /\ Keeps(p, SetResp(p, s, o, r))
           /\ SetResp(p, s, o, r).opt[s][o].want = p.opt[s][o].want
<1> DEFINE m == [p.opt[s][o] EXCEPT !.resp = r]
<1>1. m \in Machine /\ m.state = p.opt[s][o].state /\ m.want = p.opt[s][o].want
  BY MachineType DEF Machine
<1> HIDE DEF m
<1>2. Put(p, s, o, m).opt[s][o] = m
  BY <1>1, PutMachine
<1> QED BY <1>1, <1>2, PutKeeps DEF SetResp, m

\* Nor does counting one more outstanding answer.
LEMMA ExpectKeeps ==
    ASSUME NEW p \in Peer, NEW s \in Sides, NEW o \in Options
    PROVE  Keeps(p, Expect(p, s, o)) /\ Expect(p, s, o).opt[s][o].want = p.opt[s][o].want
<1>1. p.opt[s][o].resp + 1 \in Nat
  BY MachineType DEF Machine
<1> QED BY <1>1, SetRespKeeps DEF Expect

\* The head of a handler keeps the counter a natural number.
LEMMA AnsweredKeeps ==
    ASSUME NEW p \in Peer, NEW s \in Sides, NEW o \in Options, NEW on \in BOOLEAN
    PROVE  Keeps(p, Answered(p, s, o, on))
<1> DEFINE m == p.opt[s][o]
           r == IF m.resp > 0 THEN m.resp - 1 ELSE 0
           r2 == IF r > 0 /\ m.state = on THEN r - 1 ELSE r
<1>1. r2 \in Nat
  BY MachineType DEF Machine
<1>2. Answered(p, s, o, on) = SetResp(p, s, o, r2)
  BY DEF Answered
<1> HIDE DEF r2
<1> QED BY <1>1, <1>2, SetRespKeeps

\* A positive message, or a negative one for something not wanted.
LEMMA WriteKeeps ==
    ASSUME NEW p \in Peer, NEW s \in Sides \cup {"sub"}, NEW o \in Options,
           NEW on \in BOOLEAN,
           \/ on
           \/ o = "TM"
           \/ s \in Sides /\ ~p.opt[s][o].want
    PROVE  Keeps(p, Write(p, s, o, on))
<1> DEFINE q == Write(p, s, o, on)
           msg == Msg(s, o, on)
<1>1. Typed(p, q) /\ q.opt = p.opt /\ q.out = Append(p.out, msg)
  BY WriteType DEF Typed
<1>2. p.out \in Seq(Message) /\ msg \in Message
  BY DEF Peer, Client, Server, Msg, Message
<1>3. ASSUME NEW t \in Sides, NEW x \in Options \ {"TM"}, NEW b \in BOOLEAN,
             p.opt[t][x].want, Heard(p.out, t, x, b)
      PROVE  Heard(Append(p.out, msg), t, x, b)
  <2>1. msg # Msg(t, x, FALSE)
    BY <1>3 DEF Msg
  <2> QED BY <1>2, <1>3, <2>1, HeardAfterAppend
<1> HIDE DEF q, msg
<1>4. Promise(p, q)
  BY <1>1, <1>3 DEF Promise
<1> QED BY <1>1, <1>4 DEF Keeps, q

\* Wanting something and saying so.
LEMMA AnnounceKeeps ==
    ASSUME NEW p \in Peer, NEW q \in Peer, NEW s \in Sides, NEW o \in Options,
           Typed(p, q), q.out = p.out,
           \A t \in Sides, x \in Options : q.opt[t][x].state = p.opt[t][x].state,
           \A t \in Sides, x \in Options :
              ~(t = s /\ x = o) => q.opt[t][x].want = p.opt[t][x].want
    PROVE  Keeps(p, Write(q, s, o, TRUE))
<1> DEFINE r == Write(q, s, o, TRUE)
           msg == Msg(s, o, TRUE)
<1>1. Typed(q, r) /\ r.opt = q.opt /\ r.out = Append(p.out, msg)
  <2>1. s \in Sides \cup {"sub"} /\ TRUE \in BOOLEAN
    OBVIOUS
  <2>2. /\ q \in Client => Write(q, s, o, TRUE) \in Client
        /\ q \in Server => Write(q, s, o, TRUE) \in Server
        /\ Write(q, s, o, TRUE) \in Peer
        /\ Write(q, s, o, TRUE).out = Append(q.out, Msg(s, o, TRUE))
        /\ Write(q, s, o, TRUE).opt = q.opt
    BY <2>1, WriteType
  <2> QED BY <2>2, Zenon DEF Typed
<1>2. p.out \in Seq(Message) /\ msg \in Message
  BY DEF Peer, Client, Server, Msg, Message
<1>3. ASSUME NEW t \in Sides, NEW x \in Options \ {"TM"}, NEW b \in BOOLEAN,
             p.opt[t][x].want => Heard(p.out, t, x, b), r.opt[t][x].want
      PROVE  Heard(r.out, t, x, b)
  <2>1. CASE t = s /\ x = o
    <3>1. Heard(Append(p.out, Msg(t, x, TRUE)), t, x, b)
      BY <1>2, HeardAfterPositive
    <3>2. r.out = Append(p.out, Msg(t, x, TRUE))
      BY <1>1, <2>1
    <3> QED BY <3>1, <3>2, Zenon
  <2>2. CASE ~(t = s /\ x = o)
    <3>1. msg # Msg(t, x, FALSE)
      BY DEF Msg
    <3>2. Heard(p.out, t, x, b)
      <4>1. r.opt[t][x].want = q.opt[t][x].want
        BY <1>1, Zenon
      <4>2. q.opt[t][x].want = p.opt[t][x].want
        BY <2>2
      <4> QED BY <4>1, <4>2, <1>3
    <3> HIDE DEF msg, r
    <3>3. Heard(Append(p.out, msg), t, x, b)
      BY <3>1, <3>2, <1>2, HeardAfterAppend
    <3> QED BY <3>3, <1>1, Zenon
  <2> QED BY <2>1, <2>2
<1> HIDE DEF r, msg
<1>4. Promise(p, r)
  BY <1>3 DEF Promise
<1>5. Typed(p, r)
  BY <1>1 DEF Typed
<1> QED BY <1>1, <1>4, <1>5 DEF Keeps, r

\* SetWant changes the want of one machine and nothing else.
LEMMA SetWantKinds ==
    ASSUME NEW p \in Peer, NEW s \in Sides, NEW o \in Options, NEW on \in BOOLEAN
    PROVE  LET q == SetWant(p, s, o, on)
           IN  /\ Typed(p, q) /\ q.out = p.out
               /\ q.opt[s][o].want = on
               /\ \A t \in Sides, x \in Options :
                     /\ q.opt[t][x].state = p.opt[t][x].state
                     /\ ~(t = s /\ x = o) => q.opt[t][x].want = p.opt[t][x].want
<1> DEFINE m == [p.opt[s][o] EXCEPT !.want = on]
           q == Put(p, s, o, m)
<1>1. m \in Machine /\ m.state = p.opt[s][o].state /\ m.want = on
  BY MachineType DEF Machine
<1> HIDE DEF m
<1>2. /\ Typed(p, q) /\ q.out = p.out
      /\ \A t \in Sides, x \in Options :
            q.opt[t][x] = IF t = s /\ x = o THEN m ELSE p.opt[t][x]
  BY <1>1, PutType, PutMachine DEF Typed
<1>3. SetWant(p, s, o, on) = q
  BY DEF SetWant, m
<1> HIDE DEF q
<1> QED BY <1>1, <1>2, <1>3

\* Accepting a change announces what is now wanted.
LEMMA AcceptKeeps ==
    ASSUME NEW p \in Peer, NEW s \in Sides, NEW o \in Options
    PROVE  Keeps(p, Accept(p, s, o))
<1> DEFINE m == [p.opt[s][o] EXCEPT !.want = TRUE]
           q == Put(p, s, o, m)
<1>0. m \in Machine /\ m.state = p.opt[s][o].state
  BY MachineType DEF Machine
<1> HIDE DEF m
<1>1. /\ q \in Peer /\ Typed(p, q) /\ q.out = p.out
      /\ \A t \in Sides, x \in Options :
            q.opt[t][x] = IF t = s /\ x = o THEN m ELSE p.opt[t][x]
  BY <1>0, PutType, PutMachine DEF Typed
<1> HIDE DEF q
<1>2. Keeps(p, Write(q, s, o, TRUE))
  BY <1>0, <1>1, AnnounceKeeps
<1> QED BY <1>2 DEF Accept, SetWant, q, m

\* Refusing what is not wanted breaks no promise.
LEMMA RefuseKeeps ==
    ASSUME NEW p \in Peer, NEW s \in Sides, NEW o \in Options,
           ~p.opt[s][o].want
    PROVE  Keeps(p, Refuse(p, s, o))
<1> DEFINE q == Expect(p, s, o)
<1>1. Keeps(p, q) /\ ~q.opt[s][o].want
  BY ExpectKeeps
<1>2. q \in Peer
  BY <1>1 DEF Keeps, Typed
<1> HIDE DEF q
<1>3. Keeps(q, Write(q, s, o, FALSE))
  BY <1>1, <1>2, WriteKeeps
<1> QED BY <1>1, <1>3, KeepsTrans DEF Refuse, q

\* Going to the negative state breaks no promise: nothing is wanted any more.
LEMMA ConcedeKeeps ==
    ASSUME NEW p \in Peer, NEW s \in Sides, NEW o \in Options
    PROVE  Keeps(p, Concede(p, s, o))
<1> DEFINE q == SetWant(p, s, o, FALSE)
<1>1. Keeps(p, q) /\ ~q.opt[s][o].want
  BY SetWantOffKeeps
<1>2. q \in Peer
  BY <1>1 DEF Keeps, Typed
<1>3. Concede(p, s, o) = IF p.opt[s][o].state THEN Write(q, s, o, FALSE) ELSE q
  BY DEF Concede
<1> HIDE DEF q
<1>4. Keeps(q, Write(q, s, o, FALSE))
  BY <1>1, <1>2, WriteKeeps
<1>5. Keeps(p, Write(q, s, o, FALSE))
  BY <1>1, <1>4, KeepsTrans
<1> QED BY <1>1, <1>3, <1>5

\* A request announces what it makes the peer want.
LEMMA RequestKeeps ==
    ASSUME NEW p \in Peer, NEW s \in Sides, NEW o \in Options, NEW on \in BOOLEAN
    PROVE  Keeps(p, Request(p, s, o, on))
<1> DEFINE w == SetWant(p, s, o, on)
           q == Expect(w, s, o)
<1>1. /\ w \in Peer /\ Typed(p, w) /\ w.out = p.out
      /\ w.opt[s][o].want = on
      /\ \A t \in Sides, x \in Options :
            /\ w.opt[t][x].state = p.opt[t][x].state
            /\ ~(t = s /\ x = o) => w.opt[t][x].want = p.opt[t][x].want
  BY SetWantKinds DEF Typed
<1>2. w.opt[s][o].resp + 1 \in Nat
  BY <1>1, MachineType DEF Machine
<1> DEFINE m == [w.opt[s][o] EXCEPT !.resp = w.opt[s][o].resp + 1]
<1>3. m \in Machine /\ m.state = w.opt[s][o].state /\ m.want = on
  BY <1>1, <1>2, MachineType DEF Machine
<1>4. q = Put(w, s, o, m)
  BY DEF Expect, SetResp
<1> HIDE DEF w, m
<1>5. /\ Typed(w, q) /\ q.out = w.out
      /\ \A t \in Sides, x \in Options :
            q.opt[t][x] = IF t = s /\ x = o THEN m ELSE w.opt[t][x]
  BY <1>1, <1>3, <1>4, PutType, PutMachine DEF Typed
<1> HIDE DEF q
<1>6. /\ q \in Peer /\ Typed(p, q) /\ q.out = p.out
      /\ q.opt[s][o].want = on
      /\ \A t \in Sides, x \in Options : q.opt[t][x].state = p.opt[t][x].state
      /\ \A t \in Sides, x \in Options :
            ~(t = s /\ x = o) => q.opt[t][x].want = p.opt[t][x].want
  BY <1>1, <1>3, <1>5 DEF Typed
<1>7. CASE on
  <2>1. Keeps(p, Write(q, s, o, TRUE))
    BY <1>6, AnnounceKeeps
  <2> QED BY <2>1, <1>7, KeepsItself DEF Request, q, w
<1>8. CASE ~on
  <2>1. Promise(p, q)
    BY <1>6, <1>8 DEF Promise
  <2>2. Keeps(p, q)
    BY <2>1, <1>6 DEF Keeps
  <2>3. Keeps(q, Write(q, s, o, FALSE))
    BY <1>6, <1>8, WriteKeeps
  <2>4. Keeps(p, Write(q, s, o, FALSE))
    BY <2>2, <2>3, KeepsTrans
  <2> QED BY <2>4, <1>8, KeepsItself DEF Request, q, w
<1> QED BY <1>7, <1>8

\* A subnegotiation is no word about an option.
LEMMA SubKeeps ==
    ASSUME NEW p \in Peer, NEW o \in Options
    PROVE  Keeps(p, Sub(p, o))
<1>1. Sub(p, o) = Write(p, "sub", o, TRUE)
  BY DEF Sub, Write
<1> QED BY <1>1, WriteKeeps

\* The state is set when everything else has been done.
LEMMA SetStateHandles ==
    ASSUME NEW p \in Peer, NEW s \in Sides, NEW o \in Options, NEW on \in BOOLEAN
    PROVE  Handled(p, SetState(p, s, o, on), s, o, on)
<1> DEFINE m == [p.opt[s][o] EXCEPT !.state = on]
           q == Put(p, s, o, m)
<1>1. m \in Machine /\ m.state = on /\ m.want = p.opt[s][o].want
  BY MachineType DEF Machine
<1> HIDE DEF m
<1>2. /\ Typed(p, q) /\ q.out = p.out
      /\ \A t \in Sides, x \in Options :
            q.opt[t][x] = IF t = s /\ x = o THEN m ELSE p.opt[t][x]
  BY <1>1, PutType, PutMachine DEF Typed
<1>3. SetState(p, s, o, on) = q
  BY DEF SetState, m
<1> HIDE DEF q
<1>4. Promise(p, q)
  BY <1>1, <1>2 DEF Promise
<1> QED BY <1>1, <1>2, <1>3, <1>4 DEF Handled

\* What is set for TM does not matter.
LEMMA MarkHandles ==
    ASSUME NEW p \in Peer, NEW s \in Sides, NEW on \in BOOLEAN, "TM" \in Options
    PROVE  Handled(p, Mark(p, s, "TM"), s, "TM", on)
<1> DEFINE q == SetWant(p, s, "TM", FALSE)
<1>1. Keeps(p, q)
  BY SetWantOffKeeps
<1>2. q \in Peer
  BY <1>1 DEF Keeps, Typed
<1> HIDE DEF q
<1>3. Handled(q, SetState(q, s, "TM", FALSE), s, "TM", FALSE)
  BY <1>2, SetStateHandles
<1>4. Handled(p, SetState(q, s, "TM", FALSE), s, "TM", FALSE)
  BY <1>1, <1>3, KeepsHandled
<1> QED BY <1>4 DEF Handled, Mark, q

\* No record is both a client and a server.
LEMMA Kinds ==
    ASSUME NEW p \in Client PROVE p \notin Server
<1>1. ASSUME p \in Server PROVE FALSE
  <2>1. "phase" \in DOMAIN p
    BY <1>1 DEF Server
  <2>2. "phase" \notin DOMAIN p
    BY DEF Client
  <2> QED BY <2>1, <2>2
<1> QED BY <1>1

\* Nothing but the other fields of the peer changes.
LEMMA FieldKeeps ==
    ASSUME NEW p \in Peer, NEW q, Typed(p, q), q.opt = p.opt, q.out = p.out
    PROVE  Keeps(p, q)
BY DEF Keeps, Promise

\* What keeps promises keeps its kind.
LEMMA KeepsPeer ==
    ASSUME NEW p, NEW q, Keeps(p, q)
    PROVE  q \in Peer /\ (p \in Client => q \in Client) /\ (p \in Server => q \in Server)
BY DEF Keeps, Typed

\* Sending the list of encryption types breaks no promise.
LEMMA SendSupportKeeps ==
    ASSUME NEW p \in Peer, "ENCRYPT" \in Options
    PROVE  Keeps(p, SendSupport(p))
<1> DEFINE q == [p EXCEPT !.supported = FALSE]
<1>0. /\ p \in Client => q \in Client /\ q.opt = p.opt /\ q.out = p.out
      /\ p \in Server => q \in Server /\ q.opt = p.opt /\ q.out = p.out
  BY DEF Client, Server
<1> HIDE DEF q
<1>1. Keeps(p, q)
  BY <1>0, FieldKeeps DEF Typed, Peer
<1>2. q \in Peer
  BY <1>1, KeepsPeer
<1>3. SendSupport(p) = IF p.supported THEN Sub(q, "ENCRYPT") ELSE p
  BY DEF SendSupport, q
<1>4. Keeps(q, Sub(q, "ENCRYPT"))
  BY <1>2, SubKeeps
<1>5. Keeps(p, Sub(q, "ENCRYPT"))
  BY <1>1, <1>4, KeepsTrans
<1> QED BY <1>3, <1>5, KeepsItself

-----------------------------------------------------------------------------
(* The client's handlers.                                                  *)

\* Showing terminal output again breaks no promise.
LEMMA StopFlushingKeeps ==
    ASSUME NEW p \in Client
    PROVE  Keeps(p, StopFlushing(p)) /\ StopFlushing(p) \in Client
<1>1. /\ StopFlushing(p) \in Client
      /\ StopFlushing(p).opt = p.opt /\ StopFlushing(p).out = p.out
  BY DEF StopFlushing, Client
<1> QED BY <1>1, Kinds, FieldKeeps DEF Typed, Peer

\* The client's willoption() handles WILL.
LEMMA CliWillHandles ==
    ASSUME NEW p0 \in Client, NEW o \in Options
    PROVE  Handled(p0, CliWillOption(p0, o), "do", o, TRUE)
<1> DEFINE p == Answered(p0, "do", o, TRUE)
           q == CASE ~Asked(p, "do", o, TRUE) -> p
                  [] Asked(p, "do", o, TRUE) /\ o \in CliWillOk ->
                         Accept(p, "do", o)
                  [] OTHER -> Refuse(p, "do", o)
           r == SetState(q, "do", o, TRUE)
<1> "do" \in Sides BY DEF Sides
<1>1. Keeps(p0, p) /\ p \in Client /\ p \in Peer
  BY AnsweredKeeps, KeepsPeer DEF Peer
<1>2. CliWillOption(p0, o) =
        CASE Asked(p, "do", o, TRUE) /\ o = "TM" -> Mark(StopFlushing(p), "do", o)
          [] o = "ENCRYPT" -> SendSupport(r)
          [] OTHER -> r
  BY DEF CliWillOption
<1> HIDE DEF p
<1>3. Keeps(p, q)
  <2>1. CASE ~Asked(p, "do", o, TRUE)
    BY <2>1, <1>1, KeepsItself
  <2>2. CASE Asked(p, "do", o, TRUE) /\ o \in CliWillOk
    BY <2>2, <1>1, AcceptKeeps
  <2>3. CASE Asked(p, "do", o, TRUE) /\ o \notin CliWillOk
    <3>1. ~p.opt["do"][o].want
      BY <2>3, <1>1, MachineType DEF Asked, Machine
    <3> QED BY <2>3, <3>1, <1>1, RefuseKeeps
  <2> QED BY <2>1, <2>2, <2>3
<1> HIDE DEF q
<1>4. Keeps(p0, q) /\ q \in Peer
  BY <1>1, <1>3, KeepsTrans, KeepsPeer
<1>5. Handled(p0, r, "do", o, TRUE)
  BY <1>4, SetStateHandles, KeepsHandled
<1> HIDE DEF r
<1>6. CASE Asked(p, "do", o, TRUE) /\ o = "TM"
  <2>1. Keeps(p0, StopFlushing(p)) /\ StopFlushing(p) \in Peer
    BY <1>1, StopFlushingKeeps, KeepsTrans DEF Peer
  <2>2. Handled(p0, Mark(StopFlushing(p), "do", "TM"), "do", "TM", TRUE)
    BY <2>1, <1>6, MarkHandles, KeepsHandled
  <2> QED BY <2>2, <1>2, <1>6
<1>7. CASE ~(Asked(p, "do", o, TRUE) /\ o = "TM") /\ o = "ENCRYPT"
  <2>1. Keeps(r, SendSupport(r))
    BY <1>5, <1>7, SendSupportKeeps DEF Handled, Typed
  <2> QED BY <2>1, <1>2, <1>5, <1>7, HandledKeeps
<1>8. CASE ~(Asked(p, "do", o, TRUE) /\ o = "TM") /\ o # "ENCRYPT"
  BY <1>2, <1>5, <1>8
<1> QED BY <1>6, <1>7, <1>8

\* The client's wontoption() handles WONT.
LEMMA CliWontHandles ==
    ASSUME NEW p0 \in Client, NEW o \in Options
    PROVE  Handled(p0, CliWontOption(p0, o), "do", o, FALSE)
<1> DEFINE p == Answered(p0, "do", o, FALSE)
           q == CASE o = "TM" -> SetWant(StopFlushing(p), "do", o, FALSE)
                  [] o # "TM" /\ Asked(p, "do", o, FALSE) -> Concede(p, "do", o)
                  [] OTHER -> p
<1> "do" \in Sides BY DEF Sides
<1>1. Keeps(p0, p) /\ p \in Client /\ p \in Peer
  BY AnsweredKeeps, KeepsPeer DEF Peer
<1>2. CliWontOption(p0, o) = SetState(q, "do", o, FALSE)
  BY DEF CliWontOption
<1> HIDE DEF p
<1>3. Keeps(p, q)
  <2>1. CASE o = "TM"
    <3>1. Keeps(p, StopFlushing(p)) /\ StopFlushing(p) \in Peer
      BY <1>1, StopFlushingKeeps DEF Peer
    <3>2. Keeps(p, SetWant(StopFlushing(p), "do", o, FALSE))
      BY <3>1, SetWantOffKeeps, KeepsTrans
    <3> QED BY <2>1, <3>2
  <2>2. CASE o # "TM" /\ Asked(p, "do", o, FALSE)
    BY <2>2, <1>1, ConcedeKeeps
  <2>3. CASE o # "TM" /\ ~Asked(p, "do", o, FALSE)
    BY <2>3, <1>1, KeepsItself
  <2> QED BY <2>1, <2>2, <2>3
<1> HIDE DEF q
<1>4. Keeps(p0, q) /\ q \in Peer
  BY <1>1, <1>3, KeepsTrans, KeepsPeer
<1> QED BY <1>2, <1>4, SetStateHandles, KeepsHandled

\* Choosing the environment option's name breaks no promise.
LEMMA EnvironKeeps ==
    ASSUME NEW p \in Client, NEW e \in {"NEW_ENVIRON", "OLD_ENVIRON"}
    PROVE  Keeps(p, [p EXCEPT !.environ = e]) /\ [p EXCEPT !.environ = e] \in Client
<1> DEFINE q == [p EXCEPT !.environ = e]
<1>1. q \in Client /\ q.opt = p.opt /\ q.out = p.out
  BY DEF Client
<1> HIDE DEF q
<1>2. Keeps(p, q)
  BY <1>1, Kinds, FieldKeeps DEF Typed, Peer
<1> QED BY <1>1, <1>2 DEF q

\* Accepting NEW_ENVIRON, which turns OLD_ENVIRON off.
LEMMA AcceptNewEnvironKeeps ==
    ASSUME NEW p \in Client, "NEW_ENVIRON" \in Options
    PROVE  Keeps(p, AcceptNewEnviron(p))
<1> DEFINE q == IF p.opt["will"]["OLD_ENVIRON"].state
                THEN Request(p, "will", "OLD_ENVIRON", FALSE) ELSE p
           e == [q EXCEPT !.environ = "NEW_ENVIRON"]
<1>0. "will" \in Sides /\ "OLD_ENVIRON" \in Options /\ p \in Peer
  BY OptionsAssumption DEF Sides, OptionsAssumption, Peer
<1>1. Keeps(p, q) /\ q \in Client
  BY <1>0, RequestKeeps, KeepsItself, KeepsPeer
<1>2. AcceptNewEnviron(p) = Accept(e, "will", "NEW_ENVIRON")
  BY DEF AcceptNewEnviron
<1> HIDE DEF q
<1>3. Keeps(q, e) /\ e \in Peer
  BY <1>1, EnvironKeeps DEF Peer
<1> HIDE DEF e
<1>4. Keeps(p, e)
  BY <1>1, <1>3, KeepsTrans
<1>5. Keeps(e, Accept(e, "will", "NEW_ENVIRON"))
  BY <1>0, <1>3, AcceptKeeps
<1> QED BY <1>2, <1>4, <1>5, KeepsTrans

\* Accepting or refusing OLD_ENVIRON.
LEMMA AcceptOldEnvironKeeps ==
    ASSUME NEW p \in Client, "OLD_ENVIRON" \in Options,
           ~p.opt["will"]["OLD_ENVIRON"].want
    PROVE  Keeps(p, AcceptOldEnviron(p))
<1> DEFINE e == [p EXCEPT !.environ = "OLD_ENVIRON"]
<1>0. "will" \in Sides /\ p \in Peer
  BY DEF Sides, Peer
<1>1. Keeps(p, e) /\ e \in Peer
  BY EnvironKeeps DEF Peer
<1>2. AcceptOldEnviron(p) = IF p.opt["will"]["NEW_ENVIRON"].state
                            THEN Refuse(p, "will", "OLD_ENVIRON")
                            ELSE Accept(e, "will", "OLD_ENVIRON")
  BY DEF AcceptOldEnviron
<1> HIDE DEF e
<1>3. Keeps(e, Accept(e, "will", "OLD_ENVIRON"))
  BY <1>0, <1>1, AcceptKeeps
<1>4. Keeps(p, Accept(e, "will", "OLD_ENVIRON"))
  BY <1>1, <1>3, KeepsTrans
<1>5. Keeps(p, Refuse(p, "will", "OLD_ENVIRON"))
  BY <1>0, RefuseKeeps
<1> QED BY <1>2, <1>4, <1>5

\* LINEMODE's request for SGA.
LEMMA LineSgaKeeps ==
    ASSUME NEW p \in Client, "SGA" \in Options
    PROVE  Keeps(p, LineSga(p)) /\ LineSga(p) \in Client
<1> DEFINE q == [p EXCEPT !.kludgelinemode = FALSE]
<1>1. q \in Client /\ q.opt = p.opt /\ q.out = p.out
  BY DEF Client
<1>2. LineSga(p) = Request(q, "do", "SGA", TRUE)
  BY DEF LineSga
<1> HIDE DEF q
<1>3. Keeps(p, q) /\ q \in Peer
  BY <1>1, Kinds, FieldKeeps DEF Typed, Peer
<1>4. Keeps(q, Request(q, "do", "SGA", TRUE))
  BY <1>3, RequestKeeps DEF Sides
<1>5. Keeps(p, LineSga(p))
  BY <1>2, <1>3, <1>4, KeepsTrans
<1> QED BY <1>5, KeepsPeer

\* DO LINEMODE that is accepted is handled.
LEMMA AcceptLinemodeHandles ==
    ASSUME NEW p \in Client, "LINEMODE" \in Options, "SGA" \in Options
    PROVE  Handled(p, AcceptLinemode(p), "will", "LINEMODE", TRUE)
<1> DEFINE a == LineSga(p)
           b == Accept(a, "will", "LINEMODE")
           c == SetState(b, "will", "LINEMODE", TRUE)
<1>0. "will" \in Sides
  BY DEF Sides
<1>1. AcceptLinemode(p) = Sub(c, "LINEMODE")
  BY DEF AcceptLinemode
<1>2. Keeps(p, a) /\ a \in Peer
  BY LineSgaKeeps, KeepsPeer
<1> HIDE DEF a
<1>3. Keeps(a, b) /\ b \in Peer
  BY <1>0, <1>2, AcceptKeeps, KeepsPeer
<1> HIDE DEF b
<1>4. Handled(b, c, "will", "LINEMODE", TRUE)
  BY <1>0, <1>3, SetStateHandles
<1> HIDE DEF c
<1>5. Keeps(c, Sub(c, "LINEMODE"))
  BY <1>4, SubKeeps DEF Handled, Typed
<1>6. Handled(p, c, "will", "LINEMODE", TRUE)
  BY <1>2, <1>3, <1>4, KeepsTrans, KeepsHandled
<1> QED BY <1>1, <1>5, <1>6, HandledKeeps

\* DO LINEMODE that confirms a WILL is handled.
LEMMA ConfirmLinemodeHandles ==
    ASSUME NEW p \in Client, "LINEMODE" \in Options, "SGA" \in Options
    PROVE  Handled(p, ConfirmLinemode(p), "will", "LINEMODE", TRUE)
<1> DEFINE a == LineSga(p)
           b == SetState(a, "will", "LINEMODE", TRUE)
           c == Sub(b, "LINEMODE")
<1>0. "will" \in Sides /\ "do" \in Sides
  BY DEF Sides
<1>1. ConfirmLinemode(p) = Write(c, "do", "SGA", TRUE)
  BY DEF ConfirmLinemode
<1>2. Keeps(p, a) /\ a \in Peer
  BY LineSgaKeeps, KeepsPeer
<1> HIDE DEF a
<1>3. Handled(a, b, "will", "LINEMODE", TRUE) /\ b \in Peer
  <2>1. Handled(a, b, "will", "LINEMODE", TRUE)
    BY <1>0, <1>2, SetStateHandles
  <2> QED BY <2>1, Zenon DEF Handled, Typed
<1> HIDE DEF b
<1>4. Keeps(b, c) /\ c \in Peer
  BY <1>3, SubKeeps, KeepsPeer
<1> HIDE DEF c
<1>5. Keeps(c, Write(c, "do", "SGA", TRUE))
  BY <1>0, <1>4, WriteKeeps
<1>6. Keeps(b, Write(c, "do", "SGA", TRUE))
  BY <1>4, <1>5, KeepsTrans
<1>7. Handled(p, b, "will", "LINEMODE", TRUE)
  BY <1>2, <1>3, KeepsHandled
<1> QED BY <1>1, <1>6, <1>7, HandledKeeps

\* The client's dooption() handles DO.
LEMMA CliDoHandles ==
    ASSUME NEW p0 \in Client, NEW o \in Options
    PROVE  Handled(p0, CliDoOption(p0, o), "will", o, TRUE)
<1> DEFINE p == Answered(p0, "will", o, TRUE)
           q == CASE o = "NEW_ENVIRON" -> AcceptNewEnviron(p)
                  [] o = "OLD_ENVIRON" -> AcceptOldEnviron(p)
                  [] o \in CliDoOk -> Accept(p, "will", o)
                  [] OTHER -> Refuse(p, "will", o)
           a == Asked(p, "will", o, TRUE)
           c == Confirmed(p, "will", o, TRUE)
<1> "will" \in Sides BY DEF Sides
<1>1. Keeps(p0, p) /\ p \in Client /\ p \in Peer
  BY AnsweredKeeps, KeepsPeer DEF Peer
<1>2. CliDoOption(p0, o) =
        CASE a /\ o = "TM" -> Mark(Write(p, "will", o, TRUE), "will", o)
          [] a /\ o = "LINEMODE" -> AcceptLinemode(p)
          [] a /\ o \notin {"TM", "LINEMODE"} -> SetState(q, "will", o, TRUE)
          [] c /\ o = "LINEMODE" -> ConfirmLinemode(p)
          [] OTHER -> SetState(p, "will", o, TRUE)
  BY DEF CliDoOption
<1> HIDE DEF p
<1>3. ~(a /\ c)
  BY DEF Asked, Confirmed
<1>4. a => Keeps(p, q)
  <2> SUFFICES ASSUME a PROVE Keeps(p, q)
    OBVIOUS
  <2>1. ~p.opt["will"][o].want
    BY <1>1, MachineType DEF Asked, Machine
  <2>2. CASE o = "NEW_ENVIRON"
    BY <2>2, <1>1, AcceptNewEnvironKeeps DEF CliDoOk
  <2>3. CASE o = "OLD_ENVIRON"
    BY <2>1, <2>3, <1>1, AcceptOldEnvironKeeps DEF CliDoOk
  <2>4. CASE o \notin {"NEW_ENVIRON", "OLD_ENVIRON"} /\ o \in CliDoOk
    BY <2>4, <1>1, AcceptKeeps
  <2>5. CASE o \notin {"NEW_ENVIRON", "OLD_ENVIRON"} /\ o \notin CliDoOk
    BY <2>1, <2>5, <1>1, RefuseKeeps
  <2> QED BY <2>2, <2>3, <2>4, <2>5
<1> HIDE DEF q, a, c
<1>5. CASE a /\ o = "TM"
  <2>1. Keeps(p, Write(p, "will", o, TRUE))
    BY <1>1, WriteKeeps
  <2>2. Keeps(p0, Write(p, "will", o, TRUE)) /\ Write(p, "will", o, TRUE) \in Peer
    BY <1>1, <2>1, KeepsTrans, KeepsPeer
  <2>3. Handled(p0, Mark(Write(p, "will", o, TRUE), "will", "TM"), "will", "TM", TRUE)
    BY <2>2, <1>5, MarkHandles, KeepsHandled
  <2> QED BY <2>3, <1>2, <1>5
<1>6. CASE o = "LINEMODE" /\ (a \/ c)
  <2>1. "SGA" \in Options
    BY <1>6, OptionsAssumption DEF OptionsAssumption
  <2>2. CliDoOption(p0, o) = IF a THEN AcceptLinemode(p) ELSE ConfirmLinemode(p)
    BY <1>2, <1>3, <1>6
  <2>3. Handled(p, CliDoOption(p0, o), "will", o, TRUE)
    BY <1>1, <1>6, <2>1, <2>2, AcceptLinemodeHandles, ConfirmLinemodeHandles
  <2> QED BY <2>3, <1>1, KeepsHandled
<1>7. CASE a /\ o \notin {"TM", "LINEMODE"}
  <2>1. Keeps(p0, q) /\ q \in Peer
    BY <1>1, <1>4, <1>7, KeepsTrans, KeepsPeer
  <2>2. Handled(p0, SetState(q, "will", o, TRUE), "will", o, TRUE)
    BY <2>1, SetStateHandles, KeepsHandled
  <2> QED BY <2>2, <1>2, <1>7
<1>8. CASE ~a /\ ~(c /\ o = "LINEMODE")
  <2>1. Handled(p0, SetState(p, "will", o, TRUE), "will", o, TRUE)
    BY <1>1, SetStateHandles, KeepsHandled
  <2> QED BY <2>1, <1>2, <1>8
<1> QED BY <1>5, <1>6, <1>7, <1>8

\* The client's dontoption() handles DONT.
LEMMA CliDontHandles ==
    ASSUME NEW p0 \in Client, NEW o \in Options
    PROVE  Handled(p0, CliDontOption(p0, o), "will", o, FALSE)
<1> DEFINE p == Answered(p0, "will", o, FALSE)
           n == Request(p, "will", "OLD_ENVIRON", TRUE)
           q == IF o = "NEW_ENVIRON" THEN [n EXCEPT !.environ = "OLD_ENVIRON"]
                ELSE p
           r == IF Asked(p, "will", o, FALSE) THEN Concede(q, "will", o) ELSE p
<1> "will" \in Sides BY DEF Sides
<1>1. Keeps(p0, p) /\ p \in Client /\ p \in Peer
  BY AnsweredKeeps, KeepsPeer DEF Peer
<1>2. CliDontOption(p0, o) = SetState(r, "will", o, FALSE)
  BY DEF CliDontOption
<1> HIDE DEF p
<1>3. Keeps(p, q)
  <2>1. CASE o = "NEW_ENVIRON"
    <3>1. "OLD_ENVIRON" \in Options
      BY <2>1, OptionsAssumption DEF OptionsAssumption
    <3>2. Keeps(p, n) /\ n \in Client
      BY <3>1, <1>1, RequestKeeps, KeepsPeer
    <3> HIDE DEF n
    <3>3. Keeps(n, [n EXCEPT !.environ = "OLD_ENVIRON"])
      BY <3>2, EnvironKeeps
    <3> QED BY <2>1, <3>2, <3>3, KeepsTrans
  <2>2. CASE o # "NEW_ENVIRON"
    BY <2>2, <1>1, KeepsItself
  <2> QED BY <2>1, <2>2
<1> HIDE DEF q
<1>4. Keeps(p, Concede(q, "will", o))
  BY <1>3, KeepsPeer, ConcedeKeeps, KeepsTrans
<1>5. Keeps(p, r)
  BY <1>1, <1>4, KeepsItself
<1> HIDE DEF r
<1>6. Keeps(p0, r) /\ r \in Peer
  BY <1>1, <1>5, KeepsTrans, KeepsPeer
<1> QED BY <1>2, <1>6, SetStateHandles, KeepsHandled

\* The client's suboption() breaks no promise.
LEMMA CliSubKeeps ==
    ASSUME NEW p \in Client, NEW o \in Options
    PROVE  Keeps(p, CliSubOption(p, o))
<1>0. p \in Peer /\ "will" \in Sides
  BY DEF Peer, Sides
<1>1. Keeps(p, p) /\ Keeps(p, Sub(p, o))
  BY <1>0, KeepsItself, SubKeeps
<1>1a. Keeps(p, Request(p, "will", o, FALSE))
  BY <1>0, RequestKeeps
<1>2. CASE o \notin SubOptions \/ ~p.opt["will"][o].want
  BY <1>1, <1>2 DEF CliSubOption, SubOptions
<1>3. CASE o = "XDISPLOC" /\ p.opt["will"][o].want
  BY <1>1, <1>1a, <1>3 DEF CliSubOption, SubOptions
<1>4. CASE o \in {"NEW_ENVIRON", "OLD_ENVIRON"} /\ p.opt["will"][o].want
  <2>1. p.environ \in Options
    BY <1>4, OptionsAssumption DEF Client, OptionsAssumption
  <2>2. Keeps(p, Sub(p, p.environ))
    BY <2>1, <1>0, SubKeeps
  <2> QED BY <2>2, <1>4 DEF CliSubOption, SubOptions
<1>5. CASE o \in {"TSPEED", "TTYPE"} /\ p.opt["will"][o].want
  BY <1>1, <1>5 DEF CliSubOption, SubOptions
<1> QED BY <1>2, <1>3, <1>4, <1>5 DEF SubOptions

-----------------------------------------------------------------------------
(* The server's handlers.                                                  *)

\* Fields of the server other than opt and out do not matter.
LEMMA ServerFieldKeeps ==
    ASSUME NEW p \in Server, NEW q \in Server, q.opt = p.opt, q.out = p.out
    PROVE  Keeps(p, q) /\ q \in Peer
BY Kinds, FieldKeeps DEF Typed, Peer

\* Setting the pty's input modes breaks no promise.
LEMMA PtyInKeeps ==
    ASSUME NEW p \in Server, NEW o \in Options
    PROVE  Keeps(p, PtyIn(p, o)) /\ PtyIn(p, o) \in Server
           /\ PtyIn(p, o).opt = p.opt
<1>1. /\ PtyIn(p, o) \in Server
      /\ PtyIn(p, o).opt = p.opt /\ PtyIn(p, o).out = p.out
  BY DEF PtyIn, Server
<1> QED BY <1>1, ServerFieldKeeps

\* Nor do the effects of an option that is turned off.
LEMMA TurnedOffKeeps ==
    ASSUME NEW p \in Server, NEW o \in Options
    PROVE  Keeps(p, TurnedOff(p, o)) /\ TurnedOff(p, o) \in Server
<1>1. /\ TurnedOff(p, o) \in Server
      /\ TurnedOff(p, o).opt = p.opt /\ TurnedOff(p, o).out = p.out
  <2>1. CASE o = "ECHO"
    BY <2>1 DEF TurnedOff, SubOptions, Server
  <2>2. CASE o = "BINARY"
    BY <2>2 DEF TurnedOff, SubOptions, Server
  <2>3. CASE o \in SubOptions
    BY <2>3 DEF TurnedOff, SubOptions, Server
  <2>4. CASE o \notin SubOptions \cup {"ECHO", "BINARY"}
    BY <2>4 DEF TurnedOff, SubOptions, Server
  <2> QED BY <2>1, <2>2, <2>3, <2>4
<1> QED BY <1>1, ServerFieldKeeps

\* Nor do those of DO and DONT on the pty.
LEMMA PtyOutKeeps ==
    ASSUME NEW p \in Server, NEW o \in Options, NEW on \in BOOLEAN
    PROVE  Keeps(p, PtyOut(p, o, on)) /\ PtyOut(p, o, on) \in Server
           /\ PtyOut(p, o, on).opt = p.opt
<1>1. /\ PtyOut(p, o, on) \in Server
      /\ PtyOut(p, o, on).opt = p.opt /\ PtyOut(p, o, on).out = p.out
  <2>1. CASE o = "ECHO"
    BY <2>1 DEF PtyOut, Server
  <2>2. CASE o = "BINARY"
    BY <2>2 DEF PtyOut, Server
  <2>3. CASE o = "SGA"
    BY <2>3 DEF PtyOut, Server
  <2>4. CASE o \notin {"ECHO", "BINARY", "SGA"}
    BY <2>4 DEF PtyOut
  <2> QED BY <2>1, <2>2, <2>3, <2>4
<1> QED BY <1>1, ServerFieldKeeps

\* The server's willoption() handles WILL.
LEMMA SrvWillHandles ==
    ASSUME NEW p0 \in Server, NEW o \in Options
    PROVE  Handled(p0, SrvWillOption(p0, o), "do", o, TRUE)
<1> DEFINE p == Answered(p0, "do", o, TRUE)
           a == Asked(p, "do", o, TRUE)
           c == Confirmed(p, "do", o, TRUE)
           q == CASE a /\ o \in SrvWillOk -> Accept(PtyIn(p, o), "do", o)
                  [] a /\ o \notin SrvWillOk -> Refuse(p, "do", o)
                  [] c /\ o = "ECHO" -> Request(p, "do", o, FALSE)
                  [] OTHER -> p
           r == SetState(q, "do", o, TRUE)
           n == p.opt["do"][o].resp = 0
<1> "do" \in Sides BY DEF Sides
<1>1. Keeps(p0, p) /\ p \in Server /\ p \in Peer
  BY AnsweredKeeps, KeepsPeer DEF Peer
<1>2. SrvWillOption(p0, o) =
        CASE a /\ o = "TM" -> p
          [] n /\ o = "ECHO" -> [r EXCEPT !.not42 = FALSE]
          [] n /\ o = "AUTHENTICATION" -> Sub(r, o)
          [] n /\ o = "ENCRYPT" -> SendSupport(r)
          [] c /\ o = "LFLOW" -> Sub(r, o)
          [] OTHER -> r
  BY DEF SrvWillOption
<1> HIDE DEF p
<1>3. Keeps(p, q)
  <2>0. ~(a /\ c)
    BY DEF Asked, Confirmed
  <2>1. CASE a /\ o \in SrvWillOk
    <3>1. Keeps(p, PtyIn(p, o)) /\ PtyIn(p, o) \in Peer
      BY <1>1, PtyInKeeps DEF Peer
    <3>2. Keeps(p, Accept(PtyIn(p, o), "do", o))
      BY <3>1, AcceptKeeps, KeepsTrans
    <3> QED BY <2>0, <2>1, <3>2
  <2>2. CASE a /\ o \notin SrvWillOk
    <3>1. ~p.opt["do"][o].want
      BY <2>2, <1>1, MachineType DEF Asked, Machine
    <3> QED BY <2>0, <2>2, <3>1, <1>1, RefuseKeeps
  <2>3. CASE ~a /\ c /\ o = "ECHO"
    <3>1. Keeps(p, Request(p, "do", o, FALSE))
      BY <1>1, RequestKeeps
    <3> QED BY <2>3, <3>1
  <2>4. CASE ~a /\ ~(c /\ o = "ECHO")
    BY <2>4, <1>1, KeepsItself
  <2> QED BY <2>1, <2>2, <2>3, <2>4
<1> HIDE DEF q
<1>4. Keeps(p0, q) /\ q \in Server /\ q \in Peer
  BY <1>1, <1>3, KeepsTrans, KeepsPeer
<1>5. Handled(p0, r, "do", o, TRUE)
  BY <1>4, SetStateHandles, KeepsHandled
<1>6. r \in Server /\ r \in Peer
  BY <1>5 DEF Handled, Typed
<1> HIDE DEF r, a, c, n
<1>7. CASE a /\ o = "TM"
  <2>1. Handled(p0, p, "do", o, TRUE)
    BY <1>1, <1>7 DEF Keeps, Handled
  <2> QED BY <2>1, <1>2, <1>7
<1>8. CASE o = "ECHO" /\ n
  <2>1. Keeps(r, [r EXCEPT !.not42 = FALSE])
    <3> DEFINE z == [r EXCEPT !.not42 = FALSE]
    <3>1. z \in Server /\ z.opt = r.opt /\ z.out = r.out
      BY <1>6 DEF Server
    <3> HIDE DEF z
    <3>2. Keeps(r, z)
      BY <3>1, <1>6, ServerFieldKeeps
    <3> QED BY <3>2 DEF z
  <2>2. SrvWillOption(p0, o) = [r EXCEPT !.not42 = FALSE]
    BY <1>2, <1>8
  <2> QED BY <2>1, <2>2, <1>5, HandledKeeps
<1>9. CASE o = "ENCRYPT" /\ n
  <2>1. SrvWillOption(p0, o) = SendSupport(r)
    BY <1>2, <1>9
  <2> QED BY <2>1, <1>5, <1>6, <1>9, SendSupportKeeps, HandledKeeps
<1>10. CASE (o = "AUTHENTICATION" /\ n) \/ (o = "LFLOW" /\ c)
  <2>1. SrvWillOption(p0, o) = Sub(r, o)
    BY <1>2, <1>10
  <2> QED BY <2>1, <1>5, <1>6, SubKeeps, HandledKeeps
<1>11. CASE ~(a /\ o = "TM") /\ ~(o \in {"ECHO", "ENCRYPT", "AUTHENTICATION"} /\ n)
            /\ ~(o = "LFLOW" /\ c)
  BY <1>2, <1>5, <1>11
<1> QED BY <1>7, <1>8, <1>9, <1>10, <1>11

\* The server's wontoption() handles WONT.
LEMMA SrvWontHandles ==
    ASSUME NEW p0 \in Server, NEW o \in Options
    PROVE  Handled(p0, SrvWontOption(p0, o), "do", o, FALSE)
<1> DEFINE p == Answered(p0, "do", o, FALSE)
           a == Asked(p, "do", o, FALSE)
           t == TurnedOff(p, o)
<1> "do" \in Sides BY DEF Sides
<1>1. Keeps(p0, p) /\ p \in Server /\ p \in Peer
  BY AnsweredKeeps, KeepsPeer DEF Peer
<1>2. SrvWontOption(p0, o) =
        CASE o = "TM" /\ a -> SetWant(p, "do", o, FALSE)
          [] o # "TM" /\ a -> SetState(Concede(t, "do", o), "do", o, FALSE)
          [] OTHER -> SetState(p, "do", o, FALSE)
  BY DEF SrvWontOption
<1> HIDE DEF p
<1>3. Keeps(p, t) /\ t \in Peer
  BY <1>1, TurnedOffKeeps DEF Peer
<1> HIDE DEF t, a
<1>4. CASE o = "TM" /\ a
  <2>1. Keeps(p0, SetWant(p, "do", o, FALSE))
    BY <1>1, SetWantOffKeeps, KeepsTrans
  <2>2. Handled(p0, SetWant(p, "do", o, FALSE), "do", o, FALSE)
    BY <2>1, <1>4 DEF Keeps, Handled
  <2> QED BY <2>2, <1>2, <1>4
<1>5. CASE o # "TM" /\ a
  <2> DEFINE d == Concede(t, "do", o)
  <2>1. Keeps(t, d)
    BY <1>3, ConcedeKeeps
  <2>2. Keeps(p0, d) /\ d \in Peer
    BY <2>1, <1>1, <1>3, KeepsTrans, KeepsPeer
  <2>3. SrvWontOption(p0, o) = SetState(d, "do", o, FALSE)
    BY <1>2, <1>5
  <2> HIDE DEF d
  <2> QED BY <2>2, <2>3, SetStateHandles, KeepsHandled
<1>6. CASE ~a
  <2>1. SrvWontOption(p0, o) = SetState(p, "do", o, FALSE)
    BY <1>2, <1>6
  <2> QED BY <2>1, <1>1, SetStateHandles, KeepsHandled
<1> QED BY <1>4, <1>5, <1>6

\* The server's dooption() handles DO.
LEMMA SrvDoHandles ==
    ASSUME NEW p0 \in Server, NEW o \in Options
    PROVE  Handled(p0, SrvDoOption(p0, o), "will", o, TRUE)
<1> DEFINE p == Answered(p0, "will", o, TRUE)
           a == Asked(p, "will", o, TRUE)
           x == [p EXCEPT !.phase = "exit"]
           w == PtyOut(p, o, TRUE)
           q == CASE a /\ o = "LOGOUT" -> Accept(x, "will", o)
                  [] a /\ o \in SrvDoOk -> Accept(w, "will", o)
                  [] a /\ o \notin SrvDoOk \cup {"LOGOUT"} -> Refuse(p, "will", o)
                  [] OTHER -> p
<1> "will" \in Sides BY DEF Sides
<1>1. Keeps(p0, p) /\ p \in Server /\ p \in Peer
  BY AnsweredKeeps, KeepsPeer DEF Peer
<1>2. SrvDoOption(p0, o) =
        IF a /\ o = "TM" THEN Mark(Write(p, "will", o, TRUE), "will", o)
        ELSE SetState(q, "will", o, TRUE)
  BY DEF SrvDoOption
<1> HIDE DEF p
<1>3. Keeps(p, x) /\ x \in Peer
  <2>1. x \in Server /\ x.opt = p.opt /\ x.out = p.out
    BY <1>1 DEF Server, Phases
  <2> HIDE DEF x
  <2> QED BY <2>1, <1>1, ServerFieldKeeps
<1>4. Keeps(p, w) /\ w \in Peer
  BY <1>1, PtyOutKeeps DEF Peer
<1> HIDE DEF x, w
<1>5. Keeps(p, q)
  <2>1. CASE a /\ o = "LOGOUT"
    <3>1. Keeps(p, Accept(x, "will", o))
      BY <1>3, AcceptKeeps, KeepsTrans
    <3> QED BY <2>1, <3>1 DEF SrvDoOk
  <2>2. CASE a /\ o \in SrvDoOk
    <3>1. Keeps(p, Accept(w, "will", o))
      BY <1>4, AcceptKeeps, KeepsTrans
    <3> QED BY <2>2, <3>1 DEF SrvDoOk
  <2>3. CASE a /\ o \notin SrvDoOk \cup {"LOGOUT"}
    <3>1. ~p.opt["will"][o].want
      BY <2>3, <1>1, MachineType DEF Asked, Machine
    <3>2. Keeps(p, Refuse(p, "will", o))
      BY <3>1, <1>1, RefuseKeeps
    <3> QED BY <2>3, <3>2 DEF SrvDoOk
  <2>4. CASE ~a
    BY <2>4, <1>1, KeepsItself
  <2> QED BY <2>1, <2>2, <2>3, <2>4
<1> HIDE DEF q, a
<1>6. CASE a /\ o = "TM"
  <2>1. Keeps(p, Write(p, "will", o, TRUE))
    BY <1>1, WriteKeeps
  <2>2. Keeps(p0, Write(p, "will", o, TRUE)) /\ Write(p, "will", o, TRUE) \in Peer
    BY <1>1, <2>1, KeepsTrans, KeepsPeer
  <2>3. Handled(p0, Mark(Write(p, "will", o, TRUE), "will", "TM"), "will", "TM", TRUE)
    BY <2>2, <1>6, MarkHandles, KeepsHandled
  <2> QED BY <2>3, <1>2, <1>6
<1>7. CASE ~(a /\ o = "TM")
  <2>1. Keeps(p0, q) /\ q \in Peer
    BY <1>1, <1>5, KeepsTrans, KeepsPeer
  <2>2. Handled(p0, SetState(q, "will", o, TRUE), "will", o, TRUE)
    BY <2>1, SetStateHandles, KeepsHandled
  <2> QED BY <2>2, <1>2, <1>7
<1> QED BY <1>6, <1>7

\* The server's dontoption() handles DONT.
LEMMA SrvDontHandles ==
    ASSUME NEW p0 \in Server, NEW o \in Options
    PROVE  Handled(p0, SrvDontOption(p0, o), "will", o, FALSE)
<1> DEFINE p == Answered(p0, "will", o, FALSE)
           a == Asked(p, "will", o, FALSE)
           w == PtyOut(p, o, FALSE)
           q == IF a THEN Concede(w, "will", o) ELSE p
           r == SetState(q, "will", o, FALSE)
<1> "will" \in Sides BY DEF Sides
<1>1. Keeps(p0, p) /\ p \in Server /\ p \in Peer
  BY AnsweredKeeps, KeepsPeer DEF Peer
<1>2. SrvDontOption(p0, o) =
        IF o = "SGA" /\ a /\ ~p.turnOnSga THEN Request(r, "will", o, TRUE) ELSE r
  BY DEF SrvDontOption
<1> HIDE DEF p
<1>3. Keeps(p, w) /\ w \in Peer
  BY <1>1, PtyOutKeeps DEF Peer
<1> HIDE DEF w
<1>4. Keeps(p, Concede(w, "will", o))
  BY <1>3, ConcedeKeeps, KeepsTrans
<1>5. Keeps(p, q)
  BY <1>1, <1>4, KeepsItself
<1> HIDE DEF q
<1>6. Keeps(p0, q) /\ q \in Peer
  BY <1>1, <1>5, KeepsTrans, KeepsPeer
<1>7. Handled(p0, r, "will", o, FALSE)
  BY <1>6, SetStateHandles, KeepsHandled
<1>8. r \in Peer
  BY <1>7 DEF Handled, Typed
<1> HIDE DEF r
<1>9. Handled(p0, Request(r, "will", o, TRUE), "will", o, FALSE)
  <2>1. Keeps(r, Request(r, "will", o, TRUE))
    BY <1>8, RequestKeeps
  <2> QED BY <2>1, <1>7, HandledKeeps
<1> QED BY <1>2, <1>7, <1>9

\* The server's suboption() breaks no promise.
LEMMA SrvSubKeeps ==
    ASSUME NEW p \in Server, NEW o \in Options
    PROVE  Keeps(p, SrvSubOption(p, o))
<1> DEFINE x == [p EXCEPT !.phase = "exit"]
           g == [p EXCEPT !.got = @ \cup {o}]
<1>1. Keeps(p, p)
  BY KeepsItself DEF Peer
<1>2. Keeps(p, x)
  <2>1. x \in Server /\ x.opt = p.opt /\ x.out = p.out
    BY DEF Server, Phases
  <2> HIDE DEF x
  <2> QED BY <2>1, ServerFieldKeeps
<1>3. o \in SubOptions => Keeps(p, g)
  <2> SUFFICES ASSUME o \in SubOptions PROVE Keeps(p, g)
    OBVIOUS
  <2>1. g \in Server /\ g.opt = p.opt /\ g.out = p.out
    BY DEF Server
  <2> HIDE DEF g
  <2> QED BY <2>1, ServerFieldKeeps
<1>4. \/ SrvSubOption(p, o) \in {p, x}
      \/ o \in SubOptions /\ SrvSubOption(p, o) = g
  <2>1. CASE o \notin SubOptions
    BY <2>1 DEF SrvSubOption, SubOptions
  <2>2. CASE o \in {"TSPEED", "TTYPE"} /\ ~p.opt["do"][o].state
    BY <2>2 DEF SrvSubOption, SubOptions
  <2>3. CASE o \in SubOptions /\ (o \in {"TSPEED", "TTYPE"} => p.opt["do"][o].state)
    BY <2>3 DEF SrvSubOption, SubOptions
  <2> QED BY <2>1, <2>2, <2>3 DEF SubOptions
<1> HIDE DEF x, g
<1> QED BY <1>1, <1>2, <1>3, <1>4

-----------------------------------------------------------------------------
(* Reading a message.                                                      *)

\* Whatever message the client reads, its handler handles it.
LEMMA CliReceiveHandles ==
    ASSUME NEW p \in Client, NEW m \in Message
    PROVE  /\ m.side \in Sides =>
                 Handled(p, CliReceive(p, m), Other(m.side), m.opt, m.on)
           /\ m.side = "sub" => Keeps(p, CliReceive(p, m))
<1>0. m.side \in Sides \cup {"sub"} /\ m.opt \in Options /\ m.on \in BOOLEAN
  BY DEF Message
<1>1. CASE m.side = "will" /\ m.on
  BY <1>0, <1>1, CliWillHandles DEF CliReceive, Other
<1>2. CASE m.side = "will" /\ ~m.on
  BY <1>0, <1>2, CliWontHandles DEF CliReceive, Other
<1>3. CASE m.side = "do" /\ m.on
  <2> DEFINE q == CliDoOption(p, m.opt)
  <2>1. Handled(p, q, "will", m.opt, TRUE)
    BY <1>0, CliDoHandles
  <2>2. q \in Peer
    BY <2>1 DEF Handled, Typed
  <2>3. CliReceive(p, m) = IF m.opt = "NAWS" THEN Sub(q, m.opt) ELSE q
    BY <1>3 DEF CliReceive
  <2> HIDE DEF q
  <2>4. Keeps(q, CliReceive(p, m))
    BY <1>0, <2>2, <2>3, SubKeeps, KeepsItself
  <2>5. Handled(p, CliReceive(p, m), "will", m.opt, TRUE)
    BY <2>1, <2>4, HandledKeeps
  <2> QED BY <1>3, <2>5 DEF Other
<1>4. CASE m.side = "do" /\ ~m.on
  BY <1>0, <1>4, CliDontHandles DEF CliReceive, Other
<1>5. CASE m.side = "sub"
  <2>1. CliReceive(p, m) = CliSubOption(p, m.opt)
    BY <1>5 DEF CliReceive
  <2> QED BY <1>0, <1>5, <2>1, CliSubKeeps DEF Sides
<1> QED BY <1>0, <1>1, <1>2, <1>3, <1>4, <1>5 DEF Sides

\* Whatever message the server reads, its handler handles it.
LEMMA SrvReceiveHandles ==
    ASSUME NEW p \in Server, NEW m \in Message
    PROVE  /\ m.side \in Sides =>
                 Handled(p, SrvReceive(p, m), Other(m.side), m.opt, m.on)
           /\ m.side = "sub" => Keeps(p, SrvReceive(p, m))
<1>0. m.side \in Sides \cup {"sub"} /\ m.opt \in Options /\ m.on \in BOOLEAN
  BY DEF Message
<1>1. CASE m.side = "will" /\ m.on
  BY <1>0, <1>1, SrvWillHandles DEF SrvReceive, Other
<1>2. CASE m.side = "will" /\ ~m.on
  BY <1>0, <1>2, SrvWontHandles DEF SrvReceive, Other
<1>3. CASE m.side = "do" /\ m.on
  BY <1>0, <1>3, SrvDoHandles DEF SrvReceive, Other
<1>4. CASE m.side = "do" /\ ~m.on
  BY <1>0, <1>4, SrvDontHandles DEF SrvReceive, Other
<1>5. CASE m.side = "sub"
  <2>1. SrvReceive(p, m) = SrvSubOption(p, m.opt)
    BY <1>5 DEF SrvReceive
  <2> QED BY <1>0, <1>5, <2>1, SrvSubKeeps DEF Sides
<1> QED BY <1>0, <1>1, <1>2, <1>3, <1>4, <1>5 DEF Sides

\* The states of both machines of an option are Booleans.
LEMMA StateType ==
    ASSUME NEW p \in Peer, NEW s \in Sides, NEW o \in Options
    PROVE  p.opt[s][o].state \in BOOLEAN /\ p.opt[Other(s)][o].state \in BOOLEAN
           /\ Other(s) \in Sides /\ Other(Other(s)) = s
<1>1. Other(s) \in Sides /\ Other(Other(s)) = s
  BY DEF Sides, Other
<1> QED BY <1>1, MachineType DEF Machine

\* What p does on its own disturbs neither its promises nor those made to it.
LEMMA ToldKeeps ==
    ASSUME NEW p \in Peer, NEW q \in Peer, NEW p2, Keeps(p, p2),
           Told(p, q), Told(q, p)
    PROVE  Told(p2, q) /\ Told(q, p2)
<1>1. Told(p2, q)
  <2> SUFFICES ASSUME NEW s \in Sides, NEW o \in Options \ {"TM"},
                      p2.opt[s][o].want
               PROVE  Heard(p2.out, s, o, q.opt[Other(s)][o].state)
    BY DEF Told
  <2>1. q.opt[Other(s)][o].state \in BOOLEAN
    BY StateType
  <2> QED BY <2>1 DEF Told, Keeps, Promise
<1>2. Told(q, p2)
  <2> SUFFICES ASSUME NEW s \in Sides, NEW o \in Options \ {"TM"},
                      q.opt[s][o].want
               PROVE  Heard(q.out, s, o, p2.opt[Other(s)][o].state)
    BY DEF Told
  <2>1. p2.opt[Other(s)][o].state = p.opt[Other(s)][o].state
    BY StateType DEF Keeps
  <2> QED BY <2>1 DEF Told
<1> QED BY <1>1, <1>2

\* The reader q has handled the first message of p.
LEMMA ToldRead ==
    ASSUME NEW p \in Peer, NEW q \in Peer, NEW q2, p.out # <<>>,
           LET m == Head(p.out)
           IN  /\ m.side \in Sides => Handled(q, q2, Other(m.side), m.opt, m.on)
               /\ m.side = "sub" => Keeps(q, q2),
           Told(p, q), Told(q, p)
    PROVE  LET p2 == [p EXCEPT !.out = Tail(@)]
           IN  /\ Typed(p, p2) /\ Typed(q, q2)
               /\ Told(p2, q2) /\ Told(q2, p2)
<1> DEFINE p2 == [p EXCEPT !.out = Tail(@)]
           m == Head(p.out)
<1>1. p.out \in Seq(Message)
  BY DEF Peer, Client, Server
<1>2. m \in Message /\ Tail(p.out) \in Seq(Message)
  BY <1>1
<1>3. m.side \in Sides \cup {"sub"} /\ m.opt \in Options /\ m.on \in BOOLEAN
  BY <1>2 DEF Message
<1>4. /\ p \in Client => p2 \in Client
      /\ p \in Server => p2 \in Server
      /\ p2.opt = p.opt /\ p2.out = Tail(p.out)
  BY <1>2 DEF Peer, Client, Server
<1> HIDE DEF p2, m
<1>5. Typed(p, p2)
  BY <1>4 DEF Typed, Peer
<1>6. Typed(q, q2) /\ Promise(q, q2)
  BY <1>3 DEF Keeps, Handled, m
<1>7. \A s \in Sides, o \in Options \ {"TM"} :
         q2.opt[Other(s)][o].state =
             IF s = m.side /\ o = m.opt THEN m.on ELSE q.opt[Other(s)][o].state
  <2> SUFFICES ASSUME NEW s \in Sides, NEW o \in Options \ {"TM"}
               PROVE  q2.opt[Other(s)][o].state =
                         IF s = m.side /\ o = m.opt THEN m.on
                         ELSE q.opt[Other(s)][o].state
    OBVIOUS
  <2>1. Other(s) \in Sides
    BY StateType
  <2>2. CASE m.side \in Sides
    <3>1. Other(s) = Other(m.side) <=> s = m.side
      BY <2>2 DEF Sides, Other
    <3>2. Handled(q, q2, Other(m.side), m.opt, m.on)
      BY <2>2 DEF m
    <3> QED BY <2>1, <3>1, <3>2 DEF Handled
  <2>3. CASE m.side = "sub"
    <3>1. Keeps(q, q2) /\ s # m.side
      BY <2>3 DEF m, Sides
    <3> QED BY <2>1, <3>1 DEF Keeps
  <2> QED BY <1>3, <2>2, <2>3
<1>8. Told(p2, q2)
  <2> SUFFICES ASSUME NEW s \in Sides, NEW o \in Options \ {"TM"},
                      p.opt[s][o].want
               PROVE  Heard(Tail(p.out), s, o, q2.opt[Other(s)][o].state)
    BY <1>4 DEF Told
  <2>1. /\ q.opt[Other(s)][o].state \in BOOLEAN
        /\ q2.opt[Other(s)][o].state \in BOOLEAN
    BY <1>6, StateType DEF Typed
  <2>2. Heard(p.out, s, o, q.opt[Other(s)][o].state)
    BY DEF Told
  <2>3. /\ m.side = s /\ m.opt = o => q2.opt[Other(s)][o].state = m.on
        /\ ~(m.side = s /\ m.opt = o) =>
              q2.opt[Other(s)][o].state = q.opt[Other(s)][o].state
    BY <1>7
  <2> HIDE DEF Told
  <2> QED BY <1>1, <2>1, <2>2, <2>3, HeardAfterTail DEF m
<1>9. Told(q2, p2)
  <2> SUFFICES ASSUME NEW s \in Sides, NEW o \in Options \ {"TM"},
                      q2.opt[s][o].want
               PROVE  Heard(q2.out, s, o, p.opt[Other(s)][o].state)
    BY <1>4 DEF Told
  <2>1. p.opt[Other(s)][o].state \in BOOLEAN
    BY StateType
  <2> QED BY <1>6, <2>1 DEF Told, Promise
<1> QED BY <1>5, <1>6, <1>8, <1>9 DEF p2

\* The server may believe an option to be on that has not been announced yet.
LEMMA ToldBelieved ==
    ASSUME NEW p \in Peer, NEW q \in Peer, NEW q2, NEW side, NEW opt,
           Handled(q, q2, side, opt, TRUE), Told(p, q), Told(q, p)
    PROVE  Told(p, q2) /\ Told(q2, p)
<1>1. Told(p, q2)
  <2> SUFFICES ASSUME NEW s \in Sides, NEW o \in Options \ {"TM"},
                      p.opt[s][o].want
               PROVE  Heard(p.out, s, o, q2.opt[Other(s)][o].state)
    BY DEF Told
  <2>1. q.opt[Other(s)][o].state \in BOOLEAN /\ Other(s) \in Sides
    BY StateType
  <2>2. q.opt[Other(s)][o].state => q2.opt[Other(s)][o].state
    BY <2>1 DEF Handled
  <2>3. Heard(p.out, s, o, q.opt[Other(s)][o].state)
    BY DEF Told
  <2> QED BY <2>2, <2>3 DEF Heard, Ends
<1>2. Told(q2, p)
  <2> SUFFICES ASSUME NEW s \in Sides, NEW o \in Options \ {"TM"},
                      q2.opt[s][o].want
               PROVE  Heard(q2.out, s, o, p.opt[Other(s)][o].state)
    BY DEF Told
  <2>1. p.opt[Other(s)][o].state \in BOOLEAN
    BY StateType
  <2> QED BY <2>1 DEF Told, Handled, Promise
<1> QED BY <1>1, <1>2


-----------------------------------------------------------------------------
(* The steps.                                                              *)

Inv == TypeOK /\ Announced

\* What the client does on its own.
LEMMA ClientStep ==
    ASSUME Inv, NEW q, cli' = q, Keeps(cli, q), UNCHANGED srv, commands' \in Nat
    PROVE  Inv'
<1>1. cli \in Client /\ srv \in Server /\ cli \in Peer /\ srv \in Peer
  BY DEF Inv, TypeOK, Peer
<1>2. q \in Client
  BY <1>1, KeepsPeer
<1>3. Told(q, srv) /\ Told(srv, q)
  BY <1>1, ToldKeeps DEF Inv, Announced
<1> QED BY <1>1, <1>2, <1>3 DEF Inv, TypeOK, Announced

\* What the server does on its own.
LEMMA ServerStep ==
    ASSUME Inv, NEW q, srv' = q, Keeps(srv, q), UNCHANGED <<cli, commands>>
    PROVE  Inv'
<1>1. cli \in Client /\ srv \in Server /\ cli \in Peer /\ srv \in Peer
  BY DEF Inv, TypeOK, Peer
<1>2. q \in Server
  BY <1>1, KeepsPeer
<1>3. Told(q, cli) /\ Told(cli, q)
  BY <1>1, ToldKeeps DEF Inv, Announced
<1> QED BY <1>1, <1>2, <1>3 DEF Inv, TypeOK, Announced

\* Fields of the server other than opt and out.
LEMMA ServerFields ==
    ASSUME Inv, NEW q \in Server, q.opt = srv.opt, q.out = srv.out
    PROVE  Keeps(srv, q)
BY ServerFieldKeeps DEF Inv, TypeOK

\* Passing on to a later request of those made in a row.
LEMMA RestKeeps ==
    ASSUME NEW p \in Peer, NEW i \in Mine(p.todo)
    PROVE  /\ Keeps(p, Rest(p, i)) /\ Rest(p, i) \in Peer
           /\ p.todo[i][1] \in Sides /\ p.todo[i][2] \in Options
<1>1. p.todo \in Seq(Sides \X AllOptions)
  BY DEF Peer, Client, Server
<1>2. i \in 1..Len(p.todo) /\ p.todo[i][2] \in Options
  BY DEF Mine
<1>3. p.todo[i] \in Sides \X AllOptions
  BY <1>1, <1>2
<1>4. SubSeq(p.todo, i + 1, Len(p.todo)) \in Seq(Sides \X AllOptions)
  BY <1>1, <1>2
<1>5. /\ p \in Client => Rest(p, i) \in Client
      /\ p \in Server => Rest(p, i) \in Server
      /\ Rest(p, i).opt = p.opt /\ Rest(p, i).out = p.out
  BY <1>4 DEF Rest, Peer, Client, Server
<1>6. Typed(p, Rest(p, i))
  BY <1>5 DEF Typed, Peer
<1>7. p.todo[i][1] \in Sides
  BY <1>3
<1> QED BY <1>2, <1>5, <1>6, <1>7, FieldKeeps DEF Typed

\* Dropping the requests that are left breaks no promise.
LEMMA EmptyTodoKeeps ==
    ASSUME NEW p \in Peer
    PROVE  Keeps(p, [p EXCEPT !.todo = <<>>])
<1> DEFINE q == [p EXCEPT !.todo = <<>>]
<1>0. <<>> \in Seq(Sides \X AllOptions)
  OBVIOUS
<1>1. p \in Client => q \in Client /\ q.opt = p.opt /\ q.out = p.out
  BY <1>0 DEF Client
<1>2. p \in Server => q \in Server /\ q.opt = p.opt /\ q.out = p.out
  BY <1>0 DEF Server
<1> HIDE DEF q
<1>3. Typed(p, q) /\ q.opt = p.opt /\ q.out = p.out
  BY <1>1, <1>2 DEF Typed, Peer
<1> QED BY <1>3, FieldKeeps DEF q

\* A request of the server's, DO TM included, announces what is wanted.
LEMMA SrvRequestKeeps ==
    ASSUME NEW p \in Peer, NEW s \in Sides, NEW o \in Options
    PROVE  Keeps(p, SrvRequest(p, s, o))
<1> DEFINE e == Expect(p, "do", o)
<1>0. "do" \in Sides
  BY DEF Sides
<1>1. Keeps(p, Request(p, s, o, TRUE)) /\ Keeps(p, Request(p, "do", o, TRUE))
  BY <1>0, RequestKeeps
<1>2. Keeps(p, e) /\ e \in Peer
  BY <1>0, ExpectKeeps, KeepsPeer
<1>3. SrvRequest(p, s, o) \in {Request(p, s, o, TRUE), Request(p, "do", o, TRUE),
                               Write(e, "do", o, TRUE)}
  BY DEF SrvRequest, SrvRequestDo
<1> HIDE DEF e
<1>4. Keeps(e, Write(e, "do", o, TRUE))
  BY <1>0, <1>2, WriteKeeps
<1>5. Keeps(p, Write(e, "do", o, TRUE))
  BY <1>2, <1>4, KeepsTrans
<1> QED BY <1>1, <1>3, <1>5

\* The requests of telnet() are requests for telnet options.
LEMMA CliRequestsType == CliRequests \in Seq(Sides \X AllOptions)
<1> DEFINE S == Sides \X AllOptions
           a == IF Autologin THEN << <<"will", "AUTHENTICATION">> >> ELSE <<>>
           b == << <<"do", "ENCRYPT">>, <<"will", "ENCRYPT">>, <<"do", "SGA">>,
                  <<"will", "TTYPE">>, <<"will", "NAWS">>, <<"will", "TSPEED">>,
                  <<"will", "LFLOW">>, <<"will", "LINEMODE">>,
                  <<"will", "NEW_ENVIRON">>, <<"do", "STATUS">> >>
           c == IF HasDisplay THEN << <<"will", "XDISPLOC">> >> ELSE <<>>
           d == IF "do" \in Eight THEN << <<"do", "BINARY">> >> ELSE <<>>
           e == IF "will" \in Eight THEN << <<"will", "BINARY">> >> ELSE <<>>
<1>1. a \in Seq(S)
  BY DEF Sides, AllOptions
<1>2. b \in Seq(S)
  BY DEF Sides, AllOptions
<1>3. c \in Seq(S)
  BY DEF Sides, AllOptions
<1>4. d \in Seq(S)
  BY DEF Sides, AllOptions
<1>5. e \in Seq(S)
  BY DEF Sides, AllOptions
<1>6. CliRequests = a \o (IF TelnetPort THEN b \o c \o d \o e ELSE <<>>)
  BY DEF CliRequests
<1> HIDE DEF S, a, b, c, d, e
<1>7. b \o c \in Seq(S)
  BY <1>2, <1>3
<1>8. b \o c \o d \in Seq(S)
  BY <1>4, <1>7
<1>9. b \o c \o d \o e \in Seq(S)
  BY <1>5, <1>8
<1>10. CliRequests \in Seq(S)
  BY <1>1, <1>6, <1>9
<1> QED BY <1>10 DEF S

\* Nothing is wanted at first.
LEMMA InitInv == Init => Inv
<1> SUFFICES ASSUME Init PROVE Inv
  OBVIOUS
<1>1. Default \in Machine /\ ~Default.want
  BY DEF Default, Machine
<1> DEFINE opt0 == [side \in Sides |-> [o \in Options |-> Default]]
<1>2. opt0 \in [Sides -> [Options -> Machine]]
  BY <1>1
<1>3. \A s \in Sides, o \in Options : ~opt0[s][o].want
  BY <1>1
<1>4. cli.opt = opt0 /\ srv.opt = opt0
  BY DEF Init, CliInit, SrvInit
<1>5. cli \in Client
  <2> HIDE DEF opt0
  <2>1. cli = [opt |-> opt0, out |-> <<>>, supported |-> TRUE, todo |-> CliRequests,
               flushout |-> FALSE, kludgelinemode |-> TRUE,
               environ |-> "NEW_ENVIRON"]
    BY DEF Init, CliInit, opt0
  <2> QED BY <2>1, <1>2, CliRequestsType DEF Client
<1>6. srv \in Server
  <2> HIDE DEF opt0
  <2>1. srv = [opt |-> opt0, out |-> <<>>, supported |-> TRUE, todo |-> <<>>,
               phase |-> "start", spin |-> 0, got |-> {}, negotiated |-> FALSE,
               turnOnSga |-> FALSE, not42 |-> TRUE, echo |-> TRUE,
               istrip |-> FALSE, opost |-> TRUE]
    BY DEF Init, SrvInit, opt0
  <2> QED BY <2>1, <1>2 DEF Server, Phases
<1>7. Announced
  BY <1>3, <1>4 DEF Announced, Told
<1> QED BY <1>5, <1>6, <1>7 DEF Init, Inv, TypeOK


\* Asking for one value.
LEMMA AskIfKeeps ==
    ASSUME NEW p \in Server, NEW o, NEW asking \in SUBSET Options
    PROVE  Keeps(p, AskIf(p, o, asking)) /\ AskIf(p, o, asking) \in Server
<1>1. p \in Peer
  BY DEF Peer
<1>2. Keeps(p, AskIf(p, o, asking))
  BY <1>1, SubKeeps, KeepsItself DEF AskIf
<1> QED BY <1>2, KeepsPeer

\* Asking for all the values.
LEMMA AskValuesKeeps ==
    ASSUME NEW p \in Server
    PROVE  Keeps(p, AskValues(p)) /\ AskValues(p) \in Server
<1> DEFINE s == Asking(p)
           a == AskIf(p, "TSPEED", s)
           b == AskIf(a, "XDISPLOC", s)
           c == AskIf(b, "NEW_ENVIRON", s)
           d == AskIf(c, "OLD_ENVIRON", s)
           e == AskIf(d, "TTYPE", s)
           f == [e EXCEPT !.phase = "values"]
<1>1. AskValues(p) = f
  BY DEF AskValues
<1>2. s \in SUBSET Options
  BY DEF Asking, Willing
<1> HIDE DEF s
<1>3. Keeps(p, a) /\ a \in Server
  BY <1>2, AskIfKeeps
<1> HIDE DEF a
<1>4. Keeps(a, b) /\ b \in Server
  BY <1>2, <1>3, AskIfKeeps
<1> HIDE DEF b
<1>5. Keeps(b, c) /\ c \in Server
  BY <1>2, <1>4, AskIfKeeps
<1> HIDE DEF c
<1>6. Keeps(c, d) /\ d \in Server
  BY <1>2, <1>5, AskIfKeeps
<1> HIDE DEF d
<1>7. Keeps(d, e) /\ e \in Server
  BY <1>2, <1>6, AskIfKeeps
<1> HIDE DEF e
<1>8. f \in Server /\ f.opt = e.opt /\ f.out = e.out
  BY <1>7 DEF Server, Phases
<1> HIDE DEF f
<1>9. Keeps(e, f)
  BY <1>7, <1>8, ServerFieldKeeps
<1>10. Keeps(p, c)
  BY <1>3, <1>4, <1>5, KeepsTrans
<1>11. Keeps(p, e)
  BY <1>10, <1>6, <1>7, KeepsTrans
<1>12. Keeps(p, f)
  BY <1>11, <1>9, KeepsTrans
<1> QED BY <1>1, <1>8, <1>12

\* Going on to the next spin, or out of the last one.
LEMMA SpinKeeps ==
    ASSUME NEW p \in Server, NEW from \in 1..6
    PROVE  Keeps(p, Spin(p, from)) /\ Spin(p, from) \in Server
<1> DEFINE left == {i \in from..5 : Values[i] \in Willing(p) \ p.got}
           s == IF left = {} THEN 0
                ELSE CHOOSE i \in left : \A j \in left : i <= j
<1>1. Spin(p, from) = [p EXCEPT !.spin = s]
  BY DEF Spin
<1>2. left \subseteq 1..5
  OBVIOUS
<1> HIDE DEF left
<1>3. left # {} => s \in left
  <2> SUFFICES ASSUME left # {} PROVE s \in left
    OBVIOUS
  <2>1. \E i \in left : \A j \in left : i <= j
    <3>1. CASE 1 \in left
      BY <1>2, <3>1
    <3>2. CASE 1 \notin left /\ 2 \in left
      BY <1>2, <3>2
    <3>3. CASE 1 \notin left /\ 2 \notin left /\ 3 \in left
      BY <1>2, <3>3
    <3>4. CASE 1 \notin left /\ 2 \notin left /\ 3 \notin left /\ 4 \in left
      BY <1>2, <3>4
    <3>5. CASE left \subseteq {5}
      <4>1. PICK x \in left : TRUE
        OBVIOUS
      <4>2. x = 5 /\ \A j \in left : j = 5
        BY <3>5
      <4>3. x \in left /\ \A j \in left : x <= j
        BY <4>2
      <4> QED BY <4>3
    <3> QED BY <1>2, <3>1, <3>2, <3>3, <3>4, <3>5
  <2>2. s = CHOOSE i \in left : \A j \in left : i <= j
    BY DEF s
  <2> HIDE DEF s
  <2>3. (CHOOSE i \in left : \A j \in left : i <= j) \in left
    BY <2>1, Zenon
  <2> QED BY <2>2, <2>3
<1>4. left = {} => s = 0
  OBVIOUS
<1> HIDE DEF s
<1>4a. s \in 0..5
  <2>1. CASE left = {}
    BY <1>4, <2>1
  <2>2. CASE left # {}
    <3>1. s \in 1..5
      BY <1>2, <1>3, <2>2
    <3> QED BY <3>1
  <2> QED BY <2>1, <2>2
<1>5. LET q == [p EXCEPT !.spin = s]
      IN  q \in Server /\ q.opt = p.opt /\ q.out = p.out
  BY <1>4a DEF Server
<1> QED BY <1>1, <1>5, ServerFieldKeeps

\* The end of the start up, where DO ECHO may be taken for answered.
LEMMA EchoSettledStep ==
    ASSUME Inv, srv' = EchoSettled(srv), UNCHANGED <<cli, commands>>
    PROVE  Inv'
<1> DEFINE w == SrvWillOption(srv, "ECHO")
           q == IF srv.opt["do"]["ECHO"].want THEN w ELSE srv
           r == IF q.opt["will"]["ECHO"].state THEN q
                ELSE Request(q, "will", "ECHO", TRUE)
           x == IF "ECHO" \in Options THEN r ELSE srv
           e == [x EXCEPT !.phase = "main"]
<1>1. cli \in Peer /\ srv \in Server /\ srv \in Peer /\ cli \in Client
  BY DEF Inv, TypeOK, Peer
<1>2. srv' = e
  BY DEF EchoSettled
<1>3. ASSUME "ECHO" \in Options
      PROVE  Told(cli, q) /\ Told(q, cli) /\ q \in Server
  <2>1. Handled(srv, w, "do", "ECHO", TRUE)
    BY <1>1, <1>3, SrvWillHandles
  <2>2. w \in Server
    BY <1>1, <2>1 DEF Handled, Typed
  <2> HIDE DEF w
  <2>3. Told(cli, w) /\ Told(w, cli)
    BY <1>1, <2>1, ToldBelieved DEF Inv, Announced
  <2> QED BY <1>1, <2>2, <2>3 DEF Inv, Announced
<1> HIDE DEF q
<1>4. "ECHO" \in Options => q \in Peer /\ Keeps(q, r) /\ r \in Server
  BY <1>3, RequestKeeps, KeepsItself, KeepsPeer DEF Sides, Peer
<1> HIDE DEF r
<1>5. "ECHO" \in Options => Told(r, cli) /\ Told(cli, r)
  BY <1>1, <1>3, <1>4, ToldKeeps
<1>6. x \in Server /\ Told(x, cli) /\ Told(cli, x)
  BY <1>1, <1>4, <1>5 DEF Inv, Announced
<1> HIDE DEF x
<1>7. e \in Server /\ e.opt = x.opt /\ e.out = x.out
  BY <1>6 DEF Server, Phases
<1> HIDE DEF e
<1>8. x \in Peer /\ Keeps(x, e)
  BY <1>6, <1>7, ServerFieldKeeps DEF Peer
<1>9. Told(e, cli) /\ Told(cli, e)
  BY <1>1, <1>6, <1>8, ToldKeeps
<1> QED BY <1>1, <1>2, <1>7, <1>9 DEF Inv, TypeOK, Announced

\* A command of the user's.
LEMMA CommandStep ==
    ASSUME Inv, NEW q, Command(q), Keeps(cli, q)
    PROVE  Inv'
<1>1. cli' = q /\ UNCHANGED srv /\ commands' \in Nat
  BY DEF Command, Inv, TypeOK
<1> QED BY <1>1, ClientStep

\* The options of the mode commands.
LEMMA ModeOptions ==
    ASSUME {<<"do", "ECHO">>, <<"do", "SGA">>, <<"will", "LINEMODE">>} \subseteq Commands
    PROVE  /\ "ECHO" \in Options /\ "SGA" \in Options /\ "LINEMODE" \in Options
           /\ "will" \in Sides /\ "do" \in Sides
BY NegotiationAssumption DEF NegotiationAssumption, Sides

\* Two requests in a row.
LEMMA RequestRequestKeeps ==
    ASSUME NEW p \in Peer, NEW q, Keeps(p, q), NEW s \in Sides, NEW o \in Options,
           NEW on \in BOOLEAN
    PROVE  Keeps(p, Request(q, s, o, on))
<1>1. q \in Peer
  BY KeepsPeer
<1>2. Keeps(q, Request(q, s, o, on))
  BY <1>1, RequestKeeps
<1> QED BY <1>2, KeepsTrans


-----------------------------------------------------------------------------
\* Every action of the two programs and of the user preserves Inv.
LEMMA NextInv == Inv /\ [Next]_vars => Inv'
<1> SUFFICES ASSUME Inv, [Next]_vars PROVE Inv'
  OBVIOUS
<1>0. /\ cli \in Client /\ srv \in Server /\ commands \in Nat
      /\ cli \in Peer /\ srv \in Peer
  BY DEF Inv, TypeOK, Peer
<1>00. Keeps(cli, cli) /\ Keeps(srv, srv)
  BY <1>0, KeepsItself
<1>1. CASE CliStart
  <2>1. CASE cli' = [cli EXCEPT !.todo = <<>>]
    BY <1>0, <1>1, <2>1, EmptyTodoKeeps, ClientStep DEF CliStart
  <2>2. ASSUME NEW i \in Mine(cli.todo),
               cli' = Request(Rest(cli, i), cli.todo[i][1], cli.todo[i][2], TRUE)
        PROVE  Inv'
    <3>1. /\ Keeps(cli, Rest(cli, i))
          /\ cli.todo[i][1] \in Sides /\ cli.todo[i][2] \in Options
      BY <1>0, <2>2, RestKeeps
    <3>2. Keeps(cli, Request(Rest(cli, i), cli.todo[i][1], cli.todo[i][2], TRUE))
      BY <1>0, <3>1, RequestRequestKeeps
    <3> QED BY <1>0, <1>1, <2>2, <3>2, ClientStep DEF CliStart
  <2> QED BY <1>1, <2>1, <2>2 DEF CliStart
<1>2. CASE CliRecv
  <2> DEFINE m == Head(srv.out)
             q == CliReceive(cli, m)
  <2>1. srv.out # <<>> /\ srv.out \in Seq(Message)
    BY <1>0, <1>2 DEF CliRecv, Server
  <2>2. m \in Message
    BY <2>1
  <2>3. /\ m.side \in Sides => Handled(cli, q, Other(m.side), m.opt, m.on)
        /\ m.side = "sub" => Keeps(cli, q)
    BY <1>0, <2>2, CliReceiveHandles
  <2>4. cli' = q /\ srv' = [srv EXCEPT !.out = Tail(@)] /\ commands' = commands
    BY <1>2 DEF CliRecv
  <2>5. Told(srv, cli) /\ Told(cli, srv)
    BY DEF Inv, Announced
  <2> HIDE DEF q
  <2>6. /\ Typed(srv, srv') /\ Typed(cli, cli')
        /\ Told(srv', cli') /\ Told(cli', srv')
    BY <1>0, <2>1, <2>3, <2>4, <2>5, ToldRead
  <2> QED BY <1>0, <2>4, <2>6 DEF Inv, TypeOK, Announced, Typed
<1>3. CASE SendOption
  <2>1. PICK c \in Commands, on \in BOOLEAN :
            Command(Request(cli, c[1], c[2], on))
    BY <1>3 DEF SendOption
  <2>2. c[1] \in Sides /\ c[2] \in Options
    BY NegotiationAssumption DEF NegotiationAssumption
  <2>3. Keeps(cli, Request(cli, c[1], c[2], on))
    BY <1>0, <2>2, RequestKeeps
  <2> QED BY <2>1, <2>3, CommandStep
<1>4. CASE DoCharMode
  <2> DEFINE q == IF cli.kludgelinemode
                  THEN Request(cli, "do", "SGA", TRUE)
                  ELSE Request(cli, "will", "LINEMODE", FALSE)
  <2>1. "ECHO" \in Options /\ "SGA" \in Options /\ "LINEMODE" \in Options
        /\ "will" \in Sides /\ "do" \in Sides
    BY <1>4, ModeOptions DEF DoCharMode
  <2>2. Command(Request(q, "do", "ECHO", TRUE))
    BY <1>4 DEF DoCharMode
  <2>3. Keeps(cli, q)
    BY <1>0, <2>1, RequestKeeps
  <2> HIDE DEF q
  <2>4. Keeps(cli, Request(q, "do", "ECHO", TRUE))
    BY <1>0, <2>1, <2>3, RequestRequestKeeps
  <2> QED BY <2>2, <2>4, CommandStep
<1>5. CASE DoLineMode
  <2> DEFINE q == IF cli.kludgelinemode
                  THEN Request(cli, "do", "SGA", FALSE) ELSE cli
             r == Request(q, "will", "LINEMODE", TRUE)
  <2>1. "ECHO" \in Options /\ "SGA" \in Options /\ "LINEMODE" \in Options
        /\ "will" \in Sides /\ "do" \in Sides
    BY <1>5, ModeOptions DEF DoLineMode
  <2>2. Command(Request(r, "do", "ECHO", FALSE))
    BY <1>5 DEF DoLineMode
  <2>3. Keeps(cli, q)
    BY <1>0, <1>00, <2>1, RequestKeeps
  <2> HIDE DEF q
  <2>4. Keeps(cli, r)
    BY <1>0, <2>1, <2>3, RequestRequestKeeps
  <2> HIDE DEF r
  <2>5. Keeps(cli, Request(r, "do", "ECHO", FALSE))
    BY <1>0, <2>1, <2>4, RequestRequestKeeps
  <2> QED BY <2>2, <2>5, CommandStep
<1>6. CASE DoKludgeMode
  <2> DEFINE k == [cli EXCEPT !.kludgelinemode = TRUE]
             q == Request(k, "will", "LINEMODE", FALSE)
             r == Request(q, "do", "SGA", FALSE)
  <2>1. "ECHO" \in Options /\ "SGA" \in Options /\ "LINEMODE" \in Options
        /\ "will" \in Sides /\ "do" \in Sides
    BY <1>6, ModeOptions DEF DoKludgeMode
  <2>2. Command(Request(r, "do", "ECHO", FALSE))
    BY <1>6 DEF DoKludgeMode
  <2>3. k \in Client /\ k.opt = cli.opt /\ k.out = cli.out
    BY <1>0 DEF Client
  <2> HIDE DEF k
  <2>4. Keeps(cli, k)
    BY <1>0, <2>3, Kinds, FieldKeeps DEF Typed, Peer
  <2>5. Keeps(cli, q)
    BY <1>0, <2>1, <2>4, RequestRequestKeeps
  <2> HIDE DEF q
  <2>6. Keeps(cli, r)
    BY <1>0, <2>1, <2>5, RequestRequestKeeps
  <2> HIDE DEF r
  <2>7. Keeps(cli, Request(r, "do", "ECHO", FALSE))
    BY <1>0, <2>1, <2>6, RequestRequestKeeps
  <2> QED BY <2>2, <2>7, CommandStep
<1>7. CASE DoFlush
  <2> DEFINE k == [cli EXCEPT !.flushout = TRUE]
  <2>1. "TM" \in Options /\ Command(Write(k, "do", "TM", TRUE)) /\ "do" \in Sides
    BY <1>7 DEF DoFlush, Sides
  <2>2. k \in Client /\ k.opt = cli.opt /\ k.out = cli.out
    BY <1>0 DEF Client
  <2> HIDE DEF k
  <2>3. Keeps(cli, k) /\ k \in Peer
    BY <1>0, <2>2, Kinds, FieldKeeps DEF Typed, Peer
  <2>4. Keeps(k, Write(k, "do", "TM", TRUE))
    BY <2>1, <2>3, WriteKeeps
  <2>5. Keeps(cli, Write(k, "do", "TM", TRUE))
    BY <2>3, <2>4, KeepsTrans
  <2> QED BY <2>1, <2>5, CommandStep
<1>8. CASE SrvRequests
  <2>1. CASE srv' = [srv EXCEPT !.todo = <<>>]
    BY <1>0, <1>8, <2>1, EmptyTodoKeeps, ServerStep DEF SrvRequests
  <2>2. ASSUME NEW i \in Mine(srv.todo),
               srv' = SrvRequest(Rest(srv, i), srv.todo[i][1], srv.todo[i][2])
        PROVE  Inv'
    <3> DEFINE q == Rest(srv, i)
               r == SrvRequest(q, srv.todo[i][1], srv.todo[i][2])
    <3>1. /\ Keeps(srv, q) /\ q \in Peer
          /\ srv.todo[i][1] \in Sides /\ srv.todo[i][2] \in Options
      BY <1>0, <2>2, RestKeeps
    <3> HIDE DEF q
    <3>2. Keeps(q, r)
      BY <3>1, SrvRequestKeeps
    <3>3. Keeps(srv, r)
      BY <3>1, <3>2, KeepsTrans
    <3>4. srv' = r
      BY <2>2 DEF q
    <3> HIDE DEF r
    <3> QED BY <1>8, <3>3, <3>4, ServerStep DEF SrvRequests
  <2> QED BY <1>8, <2>1, <2>2 DEF SrvRequests
<1>9. CASE SrvStart
  <2> DEFINE q == [srv EXCEPT !.phase = "auth",
                              !.todo = << <<"do", "AUTHENTICATION">> >>]
  <2>1. srv' = q /\ UNCHANGED <<cli, commands>>
    BY <1>9 DEF SrvStart, SrvStep
  <2>2. << <<"do", "AUTHENTICATION">> >> \in Seq(Sides \X AllOptions)
    BY DEF Sides, AllOptions
  <2>3. q \in Server /\ q.opt = srv.opt /\ q.out = srv.out
    BY <1>0, <2>2 DEF Server, Phases
  <2> HIDE DEF q
  <2> QED BY <2>1, <2>3, ServerFields, ServerStep
<1>10. CASE SrvOptions
  <2> DEFINE t == << <<"will", "ENCRYPT">>, <<"do", "ENCRYPT">>,
                     <<"do", "TTYPE">>, <<"do", "TSPEED">>, <<"do", "XDISPLOC">>,
                     <<"do", "NEW_ENVIRON">>, <<"do", "OLD_ENVIRON">> >>
             q == [srv EXCEPT !.phase = "options", !.todo = t]
  <2>1. srv' = q /\ UNCHANGED <<cli, commands>>
    BY <1>10 DEF SrvOptions, SrvStep
  <2>2. t \in Seq(Sides \X AllOptions)
    BY DEF Sides, AllOptions
  <2> HIDE DEF t
  <2>3. q \in Server /\ q.opt = srv.opt /\ q.out = srv.out
    BY <1>0, <2>2 DEF Server, Phases
  <2> HIDE DEF q
  <2> QED BY <2>1, <2>3, ServerFields, ServerStep
<1>11. CASE SrvAskValues
  <2> DEFINE a == AuthComplete(srv)
             b == AskValues(a)
             c == Spin(b, 1)
  <2>1. srv' = c /\ UNCHANGED <<cli, commands>>
    BY <1>11 DEF SrvAskValues, SrvStep
  <2>2. a \in Server /\ a.opt = srv.opt /\ a.out = srv.out
    BY <1>0 DEF Server, AuthComplete
  <2> HIDE DEF a
  <2>3. Keeps(srv, a)
    BY <2>2, ServerFields
  <2>4. Keeps(a, b) /\ b \in Server
    BY <2>2, AskValuesKeeps
  <2> HIDE DEF b
  <2>5. 1 \in 1..6
    OBVIOUS
  <2>6. Keeps(b, c)
    BY <2>4, <2>5, SpinKeeps
  <2> HIDE DEF c
  <2>7. Keeps(srv, c)
    BY <2>3, <2>4, <2>6, KeepsTrans
  <2> QED BY <2>1, <2>7, ServerStep
<1>12. CASE SrvValue
  <2>1. srv' = Spin(srv, srv.spin + 1) /\ UNCHANGED <<cli, commands>>
    BY <1>12 DEF SrvValue, SrvStep
  <2>2. srv.spin \in 0..5
    BY <1>0 DEF Server
  <2>3. srv.spin + 1 \in 1..6
    BY <2>2
  <2>4. Keeps(srv, Spin(srv, srv.spin + 1))
    BY <1>0, <2>3, SpinKeeps
  <2> QED BY <2>1, <2>4, ServerStep
<1>13. CASE SrvTelnet
  <2> DEFINE s == IF "SGA" \in Options /\ srv.opt["will"]["SGA"].state
                  THEN <<>> ELSE << <<"will", "SGA">> >>
             t == << <<"do", "ECHO">>, <<"do", "NAWS">>,
                     <<"will", "STATUS">>, <<"do", "LFLOW">> >>
             q == [srv EXCEPT !.phase = "naws", !.echo = TRUE, !.opost = TRUE,
                              !.todo = s \o t]
  <2>1. srv' = q /\ UNCHANGED <<cli, commands>>
    BY <1>13 DEF SrvTelnet, SrvStep
  <2>2. s \in Seq(Sides \X AllOptions)
    BY DEF Sides, AllOptions
  <2>3. t \in Seq(Sides \X AllOptions)
    BY DEF Sides, AllOptions
  <2> HIDE DEF s, t
  <2>4. s \o t \in Seq(Sides \X AllOptions)
    BY <2>2, <2>3
  <2>5. q \in Server /\ q.opt = srv.opt /\ q.out = srv.out
    BY <1>0, <2>4 DEF Server, Phases
  <2> HIDE DEF q
  <2> QED BY <2>1, <2>5, ServerFields, ServerStep
<1>14. CASE SrvNaws
  <2> DEFINE m == [srv EXCEPT !.phase = "main"]
             e == [srv EXCEPT !.phase = "echo"]
  <2>1. /\ m \in Server /\ m.opt = srv.opt /\ m.out = srv.out
        /\ e \in Server /\ e.opt = srv.opt /\ e.out = srv.out
    BY <1>0 DEF Server, Phases
  <2>2. /\ UNCHANGED <<cli, commands>>
        /\ \/ srv' = m
           \/ srv' = e
           \/ srv' = EchoSettled(srv)
    BY <1>14 DEF SrvNaws, SrvStep
  <2> HIDE DEF m, e
  <2> QED BY <2>1, <2>2, ServerFields, ServerStep, EchoSettledStep
<1>15. CASE SrvEcho
  BY <1>15, EchoSettledStep DEF SrvEcho, SrvStep
<1>16. CASE SrvRecv
  <2> DEFINE m == Head(cli.out)
             q == SrvReceive(srv, m)
  <2>1. cli.out # <<>> /\ cli.out \in Seq(Message)
    BY <1>0, <1>16 DEF SrvRecv, Client
  <2>2. m \in Message
    BY <2>1
  <2>3. /\ m.side \in Sides => Handled(srv, q, Other(m.side), m.opt, m.on)
        /\ m.side = "sub" => Keeps(srv, q)
    BY <1>0, <2>2, SrvReceiveHandles
  <2>4. srv' = q /\ cli' = [cli EXCEPT !.out = Tail(@)] /\ commands' = commands
    BY <1>16 DEF SrvRecv
  <2>5. Told(srv, cli) /\ Told(cli, srv)
    BY DEF Inv, Announced
  <2> HIDE DEF q
  <2>6. /\ Typed(srv, srv') /\ Typed(cli, cli')
        /\ Told(srv', cli') /\ Told(cli', srv')
    BY <1>0, <2>1, <2>3, <2>4, <2>5, ToldRead
  <2> QED BY <1>0, <2>4, <2>6 DEF Inv, TypeOK, Announced, Typed
<1>17. CASE UNCHANGED vars
  BY <1>17 DEF vars, Inv, TypeOK, Announced
<1> QED
  BY <1>1, <1>2, <1>3, <1>4, <1>5, <1>6, <1>7, <1>8, <1>9, <1>10, <1>11, <1>12,
     <1>13, <1>14, <1>15, <1>16, <1>17 DEF Next, User, SrvStartup

\* The state of both programs keeps its type; no counter of outstanding answers
\* goes below zero.
THEOREM TypeCorrect == Spec => []TypeOK
<1>1. Inv => TypeOK
  BY DEF Inv
<1> QED BY <1>1, InitInv, NextInv, PTL DEF Spec

\* What a program wants on it has announced.
THEOREM AnnouncedHolds == Spec => []Announced
<1>1. Inv => Announced
  BY DEF Inv
<1> QED BY <1>1, InitInv, NextInv, PTL DEF Spec

-----------------------------------------------------------------------------
(* One direction of one option: what one peer has still to read about it.  *)

About(m, s, o) == m.side = s /\ m.opt = o

\* The state f of the reader, and the changes c it has been told of, message by
\* message.  A message that repeats the state it finds stands for two changes,
\* one there and one back again.
Follows(c, f, out, s, o, st) ==
    /\ c \in [0..Len(out) -> Nat] /\ f \in [0..Len(out) -> BOOLEAN]
    /\ c[0] = 0 /\ f[0] = st
    /\ \A i, j \in 0..Len(out) : i <= j => c[i] <= c[j]
    /\ \A i \in 1..Len(out) :
          IF About(out[i], s, o)
          THEN /\ f[i] = out[i].on
               /\ c[i] = c[i - 1] + (IF f[i - 1] = out[i].on THEN 2 ELSE 1)
          ELSE f[i] = f[i - 1] /\ c[i] = c[i - 1]

\* The changes that were not written: those before a message that repeats the
\* state, which is always rep, and one at the end, of a peer that has given in
\* without a word.  The reader takes each of them for an answer.
Line(out, s, o, st, want, resp, n, rep) ==
    \E c, f :
        /\ Follows(c, f, out, s, o, st)
        /\ \A i \in 1..Len(out) :
              About(out[i], s, o) /\ f[i - 1] = out[i].on =>
                  out[i].on = rep /\ resp >= c[i] - 1
        /\ \/ f[Len(out)] = want /\ n = c[Len(out)]
           \/ rep /\ f[Len(out)] /\ ~want /\ n = c[Len(out)] + 1 /\ resp >= n

\* Who writes: a peer that accepts all it is asked for, or one that may refuse.
Accepting == TRUE
Refusing == FALSE

\* out2 is out and messages that are not about the option.
Grows(out, out2, s, o) ==
    /\ Len(out) <= Len(out2)
    /\ \A i \in 1..Len(out) : out2[i] = out[i]
    /\ \A i \in 1..Len(out2) : i > Len(out) => ~About(out2[i], s, o)

\* out2 is out and more messages, of which one is about the option.
Says(out, out2, s, o, on) ==
    /\ Len(out) <= Len(out2)
    /\ \A i \in 1..Len(out) : out2[i] = out[i]
    /\ \E k \in 1..Len(out2) :
          /\ k > Len(out) /\ About(out2[k], s, o) /\ out2[k].on = on
          /\ \A i \in 1..Len(out2) : i > Len(out) /\ About(out2[i], s, o) => i = k

\* Nothing new about the option, nothing new to follow.
LEMMA LineGrows ==
    ASSUME NEW out \in Seq(Message), NEW out2 \in Seq(Message), NEW s, NEW o,
           NEW st \in BOOLEAN, NEW want \in BOOLEAN, NEW resp \in Nat, NEW n \in Nat,
           NEW rep \in BOOLEAN, Grows(out, out2, s, o),
           Line(out, s, o, st, want, resp, n, rep)
    PROVE  Line(out2, s, o, st, want, resp, n, rep)
<1> DEFINE l == Len(out)
           l2 == Len(out2)
<1>1. l \in Nat /\ l2 \in Nat /\ l <= l2
  BY DEF Grows
<1>2. PICK c, f :
        /\ Follows(c, f, out, s, o, st)
        /\ \A i \in 1..l :
              About(out[i], s, o) /\ f[i - 1] = out[i].on =>
                  out[i].on = rep /\ resp >= c[i] - 1
        /\ \/ f[l] = want /\ n = c[l]
           \/ rep /\ f[l] /\ ~want /\ n = c[l] + 1 /\ resp >= n
  BY DEF Line
<1> DEFINE c2 == [i \in 0..l2 |-> IF i <= l THEN c[i] ELSE c[l]]
           f2 == [i \in 0..l2 |-> IF i <= l THEN f[i] ELSE f[l]]
<1>3. /\ c \in [0..l -> Nat] /\ f \in [0..l -> BOOLEAN]
      /\ c[0] = 0 /\ f[0] = st
      /\ \A i, j \in 0..l : i <= j => c[i] <= c[j]
  BY <1>2 DEF Follows
<1>4. \A i \in 1..l :
          IF About(out[i], s, o)
          THEN /\ f[i] = out[i].on
               /\ c[i] = c[i - 1] + (IF f[i - 1] = out[i].on THEN 2 ELSE 1)
          ELSE f[i] = f[i - 1] /\ c[i] = c[i - 1]
  BY <1>2 DEF Follows
<1>5. /\ \A i \in 1..l : out2[i] = out[i]
      /\ \A i \in 1..l2 : i > l => ~About(out2[i], s, o)
  BY DEF Grows
<1> HIDE DEF l, l2
<1>6. \A i \in 0..l2 : /\ i <= l => c2[i] = c[i] /\ f2[i] = f[i]
                       /\ i > l => c2[i] = c[l] /\ f2[i] = f[l]
  BY <1>1
<1>7. c2 \in [0..l2 -> Nat] /\ f2 \in [0..l2 -> BOOLEAN]
  BY <1>1, <1>3
<1> HIDE DEF c2, f2
<1>8. c2[0] = 0 /\ f2[0] = st /\ c2[l2] = c[l] /\ f2[l2] = f[l]
  BY <1>1, <1>3, <1>6
<1>9. \A i, j \in 0..l2 : i <= j => c2[i] <= c2[j]
  <2> TAKE i \in 0..l2, j \in 0..l2
  <2> HAVE i <= j
  <2>1. CASE j <= l
    BY <1>1, <1>3, <1>6, <2>1
  <2>2. CASE i <= l /\ j > l
    <3>1. c[i] <= c[l]
      BY <1>1, <1>3, <2>2
    <3> QED BY <1>6, <2>2, <3>1
  <2>3. CASE i > l
    BY <1>1, <1>3, <1>6, <2>3
  <2> QED BY <1>1, <2>1, <2>2, <2>3
<1>10. \A i \in 1..l2 :
          IF About(out2[i], s, o)
          THEN /\ f2[i] = out2[i].on
               /\ c2[i] = c2[i - 1] + (IF f2[i - 1] = out2[i].on THEN 2 ELSE 1)
               /\ f2[i - 1] = out2[i].on => out2[i].on = rep /\ resp >= c2[i] - 1
          ELSE f2[i] = f2[i - 1] /\ c2[i] = c2[i - 1]
  <2> TAKE i \in 1..l2
  <2>1. CASE i <= l
    <3>1. i \in 1..l /\ i - 1 \in 0..l /\ i \in 0..l2 /\ i - 1 \in 0..l2
      BY <1>1, <2>1
    <3>2. /\ c2[i] = c[i] /\ f2[i] = f[i] /\ out2[i] = out[i]
          /\ c2[i - 1] = c[i - 1] /\ f2[i - 1] = f[i - 1]
      BY <1>5, <1>6, <2>1, <3>1
    <3> QED BY <1>2, <1>4, <3>1, <3>2
  <2>2. CASE i > l
    <3>1. i - 1 \in 0..l2 /\ i \in 0..l2 /\ l \in 0..l2
      BY <1>1, <2>2
    <3>2. c2[i - 1] = c[l] /\ f2[i - 1] = f[l]
      BY <1>1, <1>6, <2>2, <3>1
    <3> QED BY <1>5, <1>6, <2>2, <3>1, <3>2
  <2> QED BY <1>1, <2>1, <2>2
<1>11. Follows(c2, f2, out2, s, o, st)
  BY <1>7, <1>8, <1>9, <1>10 DEF Follows, l2
<1> QED BY <1>2, <1>8, <1>10, <1>11 DEF Line, l2

\* A message is written: the reader's state after it, and the changes.
LEMMA LineSaid ==
    ASSUME NEW out \in Seq(Message), NEW out2 \in Seq(Message), NEW s, NEW o,
           NEW st \in BOOLEAN, NEW resp \in Nat, NEW rep \in BOOLEAN,
           NEW on \in BOOLEAN, Says(out, out2, s, o, on),
           NEW c, NEW f, Follows(c, f, out, s, o, st),
           \A i \in 1..Len(out) :
              About(out[i], s, o) /\ f[i - 1] = out[i].on =>
                  out[i].on = rep /\ resp >= c[i] - 1,
           NEW e, e = c[Len(out)] + (IF f[Len(out)] = on THEN 2 ELSE 1),
           f[Len(out)] = on => on = rep /\ resp >= e - 1
    PROVE  Line(out2, s, o, st, on, resp, e, rep)
<1> DEFINE l == Len(out)
           l2 == Len(out2)
<1>1. l \in Nat /\ l2 \in Nat /\ l <= l2
  BY DEF Says
<1>2. /\ Follows(c, f, out, s, o, st)
      /\ \A i \in 1..l :
            About(out[i], s, o) /\ f[i - 1] = out[i].on =>
                out[i].on = rep /\ resp >= c[i] - 1
      /\ f[l] = on => on = rep /\ resp >= e - 1
  OBVIOUS
<1>11a. e = c[l] + (IF f[l] = on THEN 2 ELSE 1)
  OBVIOUS
<1>0. PICK k \in 1..l2 :
          /\ k > l /\ About(out2[k], s, o) /\ out2[k].on = on
          /\ \A i \in 1..l2 : i > l /\ About(out2[i], s, o) => i = k
  BY DEF Says
<1> DEFINE c2 == [i \in 0..l2 |-> IF i <= l THEN c[i] ELSE IF i < k THEN c[l] ELSE e]
           f2 == [i \in 0..l2 |-> IF i <= l THEN f[i] ELSE IF i < k THEN f[l] ELSE on]
<1>3. /\ c \in [0..l -> Nat] /\ f \in [0..l -> BOOLEAN]
      /\ c[0] = 0 /\ f[0] = st
      /\ \A i, j \in 0..l : i <= j => c[i] <= c[j]
  BY <1>2 DEF Follows
<1>4. \A i \in 1..l :
          IF About(out[i], s, o)
          THEN /\ f[i] = out[i].on
               /\ c[i] = c[i - 1] + (IF f[i - 1] = out[i].on THEN 2 ELSE 1)
          ELSE f[i] = f[i - 1] /\ c[i] = c[i - 1]
  BY <1>2 DEF Follows
<1>5. \A i \in 1..l : out2[i] = out[i]
  BY DEF Says
<1> HIDE DEF l, l2
<1>e. /\ c[l] \in Nat /\ f[l] \in BOOLEAN /\ e \in Nat /\ c[l] <= e
      /\ f[l] = on => e = c[l] + 2
      /\ f[l] # on => e = c[l] + 1
  BY <1>1, <1>3, <1>11a
<1>6. \A i \in 0..l2 : /\ i <= l => c2[i] = c[i] /\ f2[i] = f[i]
                       /\ i > l /\ i < k => c2[i] = c[l] /\ f2[i] = f[l]
                       /\ i >= k => c2[i] = e /\ f2[i] = on
  BY <1>0, <1>1
<1>7. c2 \in [0..l2 -> Nat] /\ f2 \in [0..l2 -> BOOLEAN]
  BY <1>1, <1>3, <1>e
<1> HIDE DEF c2, f2
<1>8. c2[0] = 0 /\ f2[0] = st /\ c2[l2] = e /\ f2[l2] = on
  <2>1. 0 \in 0..l2 /\ l2 \in 0..l2 /\ 0 <= l /\ l2 >= k
    BY <1>0, <1>1
  <2> QED BY <1>3, <1>6, <2>1
<1>9. \A i, j \in 0..l2 : i <= j => c2[i] <= c2[j]
  <2> TAKE i \in 0..l2, j \in 0..l2
  <2> HAVE i <= j
  <2>0. i <= l => c[i] <= c[l] /\ c[i] \in Nat
    BY <1>1, <1>3
  <2>1. CASE j <= l
    BY <1>1, <1>3, <1>6, <2>1
  <2>2. CASE j > l /\ j < k
    BY <1>0, <1>1, <1>e, <1>6, <2>0, <2>2
  <2>3. CASE j >= k
    <3>1. c2[j] = e
      BY <1>6, <2>3
    <3>2. CASE i <= l
      BY <1>e, <1>6, <2>0, <3>1, <3>2
    <3>3. CASE i > l /\ i < k
      BY <1>e, <1>6, <3>1, <3>3
    <3>4. CASE i >= k
      BY <1>e, <1>6, <3>1, <3>4
    <3> QED BY <1>0, <1>1, <3>2, <3>3, <3>4
  <2> QED BY <1>0, <1>1, <2>1, <2>2, <2>3
<1>10. \A i \in 1..l2 : i # k =>
          IF About(out2[i], s, o)
          THEN /\ f2[i] = out2[i].on
               /\ c2[i] = c2[i - 1] + (IF f2[i - 1] = out2[i].on THEN 2 ELSE 1)
               /\ f2[i - 1] = out2[i].on => out2[i].on = rep /\ resp >= c2[i] - 1
          ELSE f2[i] = f2[i - 1] /\ c2[i] = c2[i - 1]
  <2> TAKE i \in 1..l2
  <2> HAVE i # k
  <2>1. CASE i <= l
    <3>1. i \in 1..l /\ i - 1 \in 0..l /\ i \in 0..l2 /\ i - 1 \in 0..l2
      BY <1>1, <2>1
    <3>2. /\ c2[i] = c[i] /\ f2[i] = f[i] /\ out2[i] = out[i]
          /\ c2[i - 1] = c[i - 1] /\ f2[i - 1] = f[i - 1]
      BY <1>5, <1>6, <2>1, <3>1
    <3> QED BY <1>2, <1>4, <3>1, <3>2
  <2>2. CASE i > l
    <3>1. i - 1 \in 0..l2 /\ i \in 0..l2 /\ l \in 0..l2 /\ ~About(out2[i], s, o)
      BY <1>0, <1>1, <2>2
    <3>2. CASE i < k
      <4>1. c2[i - 1] = c[l] /\ f2[i - 1] = f[l]
        BY <1>0, <1>1, <1>6, <2>2, <3>1, <3>2
      <4> QED BY <1>6, <2>2, <3>1, <3>2, <4>1
    <3>3. CASE i > k
      <4>1. c2[i - 1] = e /\ f2[i - 1] = on
        BY <1>0, <1>1, <1>6, <3>1, <3>3
      <4> QED BY <1>0, <1>1, <1>6, <3>1, <3>3, <4>1
    <3> QED BY <1>0, <1>1, <3>2, <3>3
  <2> QED BY <1>1, <2>1, <2>2
<1>11. /\ f2[k] = on /\ f2[k - 1] = f[l] /\ c2[k - 1] = c[l]
       /\ c2[k] = e
  <2>1. k \in 0..l2 /\ k - 1 \in 0..l2 /\ l \in 0..l2
    BY <1>0, <1>1
  <2>2. CASE k - 1 = l
    BY <1>0, <1>1, <1>6, <2>1, <2>2
  <2>3. CASE k - 1 > l
    BY <1>0, <1>1, <1>6, <2>1, <2>3
  <2> QED BY <1>0, <1>1, <2>2, <2>3
<1>12. Follows(c2, f2, out2, s, o, st)
  <2>1. \A i \in 1..l2 :
          IF About(out2[i], s, o)
          THEN /\ f2[i] = out2[i].on
               /\ c2[i] = c2[i - 1] + (IF f2[i - 1] = out2[i].on THEN 2 ELSE 1)
          ELSE f2[i] = f2[i - 1] /\ c2[i] = c2[i - 1]
    BY <1>0, <1>10, <1>11, <1>11a
  <2> QED BY <1>7, <1>8, <1>9, <2>1 DEF Follows, l2
<1>13. \A i \in 1..l2 :
          About(out2[i], s, o) /\ f2[i - 1] = out2[i].on =>
                  out2[i].on = rep /\ resp >= c2[i] - 1
  BY <1>0, <1>2, <1>10, <1>11
<1> QED BY <1>8, <1>12, <1>13 DEF Line, l2

\* A message that changes what the writer wants.
LEMMA LineSays ==
    ASSUME NEW out \in Seq(Message), NEW out2 \in Seq(Message), NEW s, NEW o,
           NEW st \in BOOLEAN, NEW want \in BOOLEAN, NEW resp \in Nat, NEW n \in Nat,
           NEW rep \in BOOLEAN, NEW on \in BOOLEAN, Says(out, out2, s, o, on),
           Line(out, s, o, st, want, resp, n, rep), want # on
    PROVE  Line(out2, s, o, st, on, resp, n + 1, rep)
<1> DEFINE l == Len(out)
<1>1. PICK c, f :
        /\ Follows(c, f, out, s, o, st)
        /\ \A i \in 1..l :
              About(out[i], s, o) /\ f[i - 1] = out[i].on =>
                  out[i].on = rep /\ resp >= c[i] - 1
        /\ \/ f[l] = want /\ n = c[l]
           \/ rep /\ f[l] /\ ~want /\ n = c[l] + 1 /\ resp >= n
  BY DEF Line
<1>2. c[l] \in Nat /\ f[l] \in BOOLEAN
  BY <1>1 DEF Follows
<1> HIDE DEF l
<1>3. PICK e : e = c[l] + (IF f[l] = on THEN 2 ELSE 1)
  OBVIOUS
<1>4. e = n + 1 /\ (f[l] = on => on = rep /\ resp >= e - 1)
  <2>1. CASE f[l] = want /\ n = c[l]
    <3>1. f[l] # on
      BY <2>1
    <3> QED BY <1>2, <1>3, <2>1, <3>1
  <2>2. CASE rep /\ f[l] /\ ~want /\ n = c[l] + 1 /\ resp >= n
    <3>1. on = TRUE /\ f[l] = TRUE /\ rep = TRUE
      BY <1>2, <2>2
    <3> QED BY <1>2, <1>3, <2>2, <3>1
  <2> QED BY <1>1, <2>1, <2>2
<1>5. Line(out2, s, o, st, on, resp, e, rep)
  BY <1>1, <1>3, <1>4, LineSaid DEF l
<1> QED BY <1>4, <1>5

\* A refusal, which repeats what the writer does not want.
LEMMA LineRefuses ==
    ASSUME NEW out \in Seq(Message), NEW out2 \in Seq(Message), NEW s, NEW o,
           NEW st \in BOOLEAN, NEW no \in BOOLEAN, NEW resp \in Nat, NEW n \in Nat,
           Says(out, out2, s, o, no), Line(out, s, o, st, no, resp, n, no),
           resp >= n + 1
    PROVE  Line(out2, s, o, st, no, resp, n + 2, no)
<1> DEFINE l == Len(out)
<1>1. PICK c, f :
        /\ Follows(c, f, out, s, o, st)
        /\ \A i \in 1..l :
              About(out[i], s, o) /\ f[i - 1] = out[i].on =>
                  out[i].on = no /\ resp >= c[i] - 1
        /\ f[l] = no /\ n = c[l]
  BY DEF Line
<1>2. c[l] \in Nat
  BY <1>1 DEF Follows
<1> HIDE DEF l
<1>3. PICK e : e = c[l] + (IF f[l] = no THEN 2 ELSE 1)
  OBVIOUS
<1>4. e = n + 2 /\ resp >= e - 1
  BY <1>1, <1>2, <1>3
<1>5. Line(out2, s, o, st, no, resp, e, no)
  BY <1>1, <1>3, <1>4, LineSaid DEF l
<1> QED BY <1>4, <1>5

\* A reader that expects more answers reads the same.
LEMMA LineRaise ==
    ASSUME NEW out \in Seq(Message), NEW s, NEW o, NEW st, NEW want, NEW resp \in Nat,
           NEW more \in Nat, more >= resp, NEW n \in Nat, NEW rep,
           Line(out, s, o, st, want, resp, n, rep)
    PROVE  Line(out, s, o, st, want, more, n, rep)
<1>1. PICK c, f :
        /\ Follows(c, f, out, s, o, st)
        /\ \A i \in 1..Len(out) :
              About(out[i], s, o) /\ f[i - 1] = out[i].on =>
                  out[i].on = rep /\ resp >= c[i] - 1
        /\ \/ f[Len(out)] = want /\ n = c[Len(out)]
           \/ rep /\ f[Len(out)] /\ ~want /\ n = c[Len(out)] + 1 /\ resp >= n
  BY DEF Line
<1>2. \A i \in 1..Len(out) : c[i] \in Nat
  BY <1>1 DEF Follows
<1>3. \A i \in 1..Len(out) :
          About(out[i], s, o) /\ f[i - 1] = out[i].on =>
              out[i].on = rep /\ more >= c[i] - 1
  BY <1>1, <1>2
<1>4. resp >= n => more >= n
  OBVIOUS
<1> QED BY <1>1, <1>3, <1>4 DEF Line

\* A writer gives in without a word to a reader that waits for an answer.
LEMMA LineGivesIn ==
    ASSUME NEW out \in Seq(Message), NEW s, NEW o, NEW st, NEW resp \in Nat,
           NEW n \in Nat, resp >= n + 1, NEW yes \in BOOLEAN, NEW no \in BOOLEAN,
           yes, yes # no, Line(out, s, o, st, yes, resp, n, yes)
    PROVE  Line(out, s, o, st, no, resp, n + 1, yes)
BY DEF Line

\* The reader takes the first message: it is about something else, or one or
\* two of the changes have been read with it.
LEMMA LineReads ==
    ASSUME NEW out \in Seq(Message), out # <<>>, NEW s, NEW o,
           NEW st \in BOOLEAN, NEW want \in BOOLEAN, NEW resp \in Nat, NEW n \in Nat,
           NEW rep \in BOOLEAN, Line(out, s, o, st, want, resp, n, rep)
    PROVE  LET h == Head(out)
               d == IF h.on = st THEN 2 ELSE 1
           IN  /\ ~About(h, s, o) => Line(Tail(out), s, o, st, want, resp, n, rep)
               /\ About(h, s, o) =>
                     /\ n >= d /\ (h.on = st => h.on = rep /\ resp >= 1)
                     /\ \A less \in Nat : less + d >= resp =>
                           Line(Tail(out), s, o, h.on, want, less, n - d, rep)
<1> DEFINE l == Len(out)
           q == Tail(out)
           h == Head(out)
<1>1. /\ l \in Nat /\ l > 0 /\ Len(q) = l - 1 /\ q \in Seq(Message)
      /\ h = out[1] /\ h \in Message /\ h.on \in BOOLEAN
      /\ \A i \in 1..l - 1 : q[i] = out[i + 1]
  <2>1. l \in Nat /\ l > 0 /\ Len(q) = l - 1 /\ q \in Seq(Message)
    OBVIOUS
  <2>2. h = out[1] /\ h \in Message
    OBVIOUS
  <2>3. \A i \in 1..l - 1 : q[i] = out[i + 1]
    OBVIOUS
  <2>4. h.on \in BOOLEAN
    BY <2>2 DEF Message
  <2> QED BY <2>1, <2>2, <2>3, <2>4
<1>2. PICK c, f :
        /\ Follows(c, f, out, s, o, st)
        /\ \A i \in 1..l :
              About(out[i], s, o) /\ f[i - 1] = out[i].on =>
                  out[i].on = rep /\ resp >= c[i] - 1
        /\ \/ f[l] = want /\ n = c[l]
           \/ rep /\ f[l] /\ ~want /\ n = c[l] + 1 /\ resp >= n
  BY DEF Line
<1>3. /\ c \in [0..l -> Nat] /\ f \in [0..l -> BOOLEAN]
      /\ c[0] = 0 /\ f[0] = st
      /\ \A i, j \in 0..l : i <= j => c[i] <= c[j]
  BY <1>2 DEF Follows
<1>4. \A i \in 1..l :
          IF About(out[i], s, o)
          THEN /\ f[i] = out[i].on
               /\ c[i] = c[i - 1] + (IF f[i - 1] = out[i].on THEN 2 ELSE 1)
          ELSE f[i] = f[i - 1] /\ c[i] = c[i - 1]
  BY <1>2 DEF Follows
<1> HIDE DEF l, q, h
<1> DEFINE c2 == [i \in 0..l - 1 |-> c[i + 1] - c[1]]
           f2 == [i \in 0..l - 1 |-> f[i + 1]]
<1>5. /\ c[1] \in Nat /\ c[1] <= c[l] /\ f[1] \in BOOLEAN /\ f[l] \in BOOLEAN
      /\ \A i \in 0..l - 1 : c[i + 1] \in Nat /\ c[1] <= c[i + 1]
  <2>1. 1 \in 0..l /\ l \in 0..l /\ 1 <= l
    BY <1>1
  <2>2. c[1] \in Nat /\ c[1] <= c[l] /\ f[1] \in BOOLEAN /\ f[l] \in BOOLEAN
    BY <1>3, <2>1
  <2>3. ASSUME NEW i \in 0..l - 1 PROVE c[i + 1] \in Nat /\ c[1] <= c[i + 1]
    <3>1. i + 1 \in 0..l /\ 1 <= i + 1
      BY <1>1
    <3> QED BY <1>3, <2>1, <3>1
  <2> QED BY <2>2, <2>3
<1>6. c2 \in [0..l - 1 -> Nat] /\ f2 \in [0..l - 1 -> BOOLEAN]
  BY <1>1, <1>3, <1>5
<1>7. /\ \A i \in 0..l - 1 : c2[i] = c[i + 1] - c[1] /\ f2[i] = f[i + 1]
      /\ c2[0] = 0 /\ f2[0] = f[1] /\ c2[l - 1] = c[l] - c[1] /\ f2[l - 1] = f[l]
  BY <1>1, <1>5
<1> HIDE DEF c2, f2
<1>8. \A i, j \in 0..l - 1 : i <= j => c2[i] <= c2[j]
  <2> TAKE i \in 0..l - 1, j \in 0..l - 1
  <2> HAVE i <= j
  <2>1. i + 1 \in 0..l /\ j + 1 \in 0..l /\ i + 1 <= j + 1
    BY <1>1
  <2>2. c[i + 1] <= c[j + 1] /\ c[i + 1] \in Nat /\ c[j + 1] \in Nat /\ c[1] \in Nat
    BY <1>3, <1>5, <2>1
  <2>3. c2[i] = c[i + 1] - c[1] /\ c2[j] = c[j + 1] - c[1]
    BY <1>7
  <2> QED BY <2>2, <2>3
<1>9. \A i \in 1..l - 1 :
          /\ i + 1 \in 1..l /\ q[i] = out[i + 1]
          /\ c2[i] = c[i + 1] - c[1] /\ c2[i - 1] = c[i] - c[1]
          /\ f2[i] = f[i + 1] /\ f2[i - 1] = f[i]
          /\ c[i] \in Nat /\ c[i + 1] \in Nat /\ c[1] <= c[i]
  <2> TAKE i \in 1..l - 1
  <2>1. i - 1 \in 0..l - 1 /\ i \in 0..l - 1 /\ (i - 1) + 1 = i
    BY <1>1
  <2>2. /\ c2[i] = c[i + 1] - c[1] /\ f2[i] = f[i + 1]
        /\ c2[i - 1] = c[i] - c[1] /\ f2[i - 1] = f[i]
    <3>1. c2[i - 1] = c[(i - 1) + 1] - c[1] /\ f2[i - 1] = f[(i - 1) + 1]
      BY <1>7, <2>1
    <3> QED BY <1>7, <2>1, <3>1
  <2>3. c[i] \in Nat /\ c[i + 1] \in Nat /\ c[1] <= c[i]
    <3>1. c[(i - 1) + 1] \in Nat /\ c[1] <= c[(i - 1) + 1]
      BY <1>5, <2>1
    <3> QED BY <1>5, <2>1, <3>1
  <2>4. i + 1 \in 1..l /\ q[i] = out[i + 1]
    BY <1>1
  <2> QED BY <2>2, <2>3, <2>4
<1>10. Follows(c2, f2, q, s, o, f[1])
  <2>1. ASSUME NEW i \in 1..l - 1
        PROVE  IF About(q[i], s, o)
               THEN /\ f2[i] = q[i].on
                    /\ c2[i] = c2[i - 1] + (IF f2[i - 1] = q[i].on THEN 2 ELSE 1)
               ELSE f2[i] = f2[i - 1] /\ c2[i] = c2[i - 1]
    <3>1. IF About(out[i + 1], s, o)
          THEN /\ f[i + 1] = out[i + 1].on
               /\ c[i + 1] = c[i] + (IF f[i] = out[i + 1].on THEN 2 ELSE 1)
          ELSE f[i + 1] = f[i] /\ c[i + 1] = c[i]
      <4>1. i + 1 \in 1..l /\ (i + 1) - 1 = i
        BY <1>1
      <4>2. IF About(out[i + 1], s, o)
            THEN /\ f[i + 1] = out[i + 1].on
                 /\ c[i + 1] = c[(i + 1) - 1] + (IF f[(i + 1) - 1] = out[i + 1].on THEN 2 ELSE 1)
            ELSE f[i + 1] = f[(i + 1) - 1] /\ c[i + 1] = c[(i + 1) - 1]
        BY <1>4, <4>1
      <4> QED BY <4>1, <4>2
    <3>0. /\ q[i] = out[i + 1] /\ f2[i] = f[i + 1] /\ f2[i - 1] = f[i]
          /\ c2[i] = c[i + 1] - c[1] /\ c2[i - 1] = c[i] - c[1]
          /\ c[i] \in Nat /\ c[i + 1] \in Nat /\ c[1] \in Nat
      BY <1>5, <1>9
    <3>2. CASE About(out[i + 1], s, o)
      <4>1. CASE f[i] = out[i + 1].on
        <5>1. c2[i] = c2[i - 1] + 2
          BY <3>0, <3>1, <3>2, <4>1
        <5> QED BY <3>0, <3>1, <3>2, <4>1, <5>1
      <4>2. CASE f[i] # out[i + 1].on
        <5>1. c2[i] = c2[i - 1] + 1
          BY <3>0, <3>1, <3>2, <4>2
        <5> QED BY <3>0, <3>1, <3>2, <4>2, <5>1
      <4> QED BY <4>1, <4>2
    <3>3. CASE ~About(out[i + 1], s, o)
      BY <3>0, <3>1, <3>3
    <3> QED BY <3>2, <3>3
  <2> QED BY <1>1, <1>6, <1>7, <1>8, <2>1 DEF Follows
<1>11. \A i \in 1..l - 1 :
          About(q[i], s, o) /\ f2[i - 1] = q[i].on =>
              /\ q[i].on = rep /\ resp >= (c2[i] + c[1]) - 1
              /\ c2[i] >= 2
  <2> TAKE i \in 1..l - 1
  <2> HAVE About(q[i], s, o) /\ f2[i - 1] = q[i].on
  <2>0. /\ q[i] = out[i + 1] /\ f2[i - 1] = f[i] /\ c2[i] = c[i + 1] - c[1]
        /\ c[i] \in Nat /\ c[1] <= c[i] /\ c[1] \in Nat
    BY <1>5, <1>9
  <2>1. i + 1 \in 1..l /\ (i + 1) - 1 = i
    BY <1>1
  <2>2. About(out[i + 1], s, o) /\ f[(i + 1) - 1] = out[i + 1].on
    BY <2>0, <2>1
  <2>3. out[i + 1].on = rep /\ resp >= c[i + 1] - 1
    BY <1>2, <2>1, <2>2
  <2>4. c[i + 1] = c[i] + 2
    BY <1>4, <2>1, <2>2
  <2> QED BY <2>0, <2>3, <2>4
<1>12. ASSUME NEW less \in Nat, less + c[1] >= resp
       PROVE  Line(q, s, o, f[1], want, less, n - c[1], rep)
  <2>1. \A i \in 1..l - 1 :
          About(q[i], s, o) /\ f2[i - 1] = q[i].on =>
              q[i].on = rep /\ less >= c2[i] - 1
    <3> TAKE i \in 1..l - 1
    <3> HAVE About(q[i], s, o) /\ f2[i - 1] = q[i].on
    <3>1. c2[i] \in Nat
      BY <1>1, <1>6
    <3> QED BY <1>5, <1>11, <1>12, <3>1
  <2>2. \/ f2[l - 1] = want /\ n - c[1] = c2[l - 1]
        \/ rep /\ f2[l - 1] /\ ~want /\ n - c[1] = c2[l - 1] + 1 /\ less >= n - c[1]
    <3>1. CASE f[l] = want /\ n = c[l]
      BY <1>7, <3>1
    <3>2. CASE rep /\ f[l] /\ ~want /\ n = c[l] + 1 /\ resp >= n
      <4>1. c[l] \in Nat
        BY <1>1, <1>3
      <4>2. n - c[1] = (c[l] - c[1]) + 1 /\ less >= n - c[1]
        BY <1>5, <1>12, <3>2, <4>1
      <4> QED BY <1>7, <3>2, <4>2
    <3> QED BY <1>2, <3>1, <3>2
  <2> QED BY <1>1, <1>10, <2>1, <2>2 DEF Line
<1>13. CASE ~About(h, s, o)
  <2>1. f[1] = st /\ c[1] = 0
    BY <1>1, <1>3, <1>4, <1>13
  <2>2. Line(q, s, o, st, want, resp, n, rep)
    BY <1>12, <2>1
  <2> QED BY <1>13, <2>2 DEF h, q
<1>14. CASE About(h, s, o)
  <2> DEFINE d == IF h.on = st THEN 2 ELSE 1
  <2>1. f[1] = h.on /\ c[1] = d
    BY <1>1, <1>3, <1>4, <1>14
  <2>2. n >= d
    <3>1. c[l] \in Nat
      BY <1>1, <1>3
    <3> QED BY <1>2, <1>5, <2>1, <3>1
  <2>3. h.on = st => h.on = rep /\ resp >= 1
    <3>1. 1 \in 1..l /\ 1 - 1 = 0
      BY <1>1
    <3> QED BY <1>1, <1>2, <1>3, <1>14, <2>1, <3>1
  <2>4. \A less \in Nat : less + d >= resp =>
           Line(q, s, o, h.on, want, less, n - d, rep)
    BY <1>12, <2>1
  <2> HIDE DEF d
  <2>5. /\ n >= d /\ (h.on = st => h.on = rep /\ resp >= 1)
        /\ \A less \in Nat : less + d >= resp =>
              Line(q, s, o, h.on, want, less, n - d, rep)
    BY <2>2, <2>3, <2>4
  <2> QED BY <1>14, <2>5 DEF h, q, d
<1> QED BY <1>13, <1>14

\* The reader takes a message about something else.
LEMMA LineSkips ==
    ASSUME NEW out \in Seq(Message), out # <<>>, NEW s, NEW o,
           NEW st \in BOOLEAN, NEW want \in BOOLEAN, NEW resp \in Nat, NEW n \in Nat,
           NEW rep \in BOOLEAN, ~About(Head(out), s, o),
           Line(out, s, o, st, want, resp, n, rep)
    PROVE  Line(Tail(out), s, o, st, want, resp, n, rep)
BY LineReads

\* The reader takes a message about the option.
LEMMA LineTakes ==
    ASSUME NEW out \in Seq(Message), out # <<>>, NEW s, NEW o,
           NEW st \in BOOLEAN, NEW want \in BOOLEAN, NEW resp \in Nat, NEW n \in Nat,
           NEW rep \in BOOLEAN, About(Head(out), s, o),
           Line(out, s, o, st, want, resp, n, rep),
           NEW on, on = Head(out).on, NEW d, d = IF on = st THEN 2 ELSE 1
    PROVE  /\ n >= d /\ (on = st => on = rep /\ resp >= 1)
           /\ \A less \in Nat : less + d >= resp =>
                 Line(Tail(out), s, o, on, want, less, n - d, rep)
BY LineReads

\* With nothing to read the reader has the state the writer wants, or it waits
\* for the one change that was not written.
LEMMA LineEmpty ==
    ASSUME NEW s, NEW o, NEW st \in BOOLEAN, NEW want \in BOOLEAN, NEW resp \in Nat,
           NEW n \in Nat, NEW rep \in BOOLEAN,
           Line(<<>>, s, o, st, want, resp, n, rep)
    PROVE  \/ st = want /\ n = 0
           \/ rep /\ st /\ ~want /\ n = 1 /\ resp >= 1
<1>1. Len(<<>>) = 0
  OBVIOUS
<1> QED BY <1>1 DEF Line, Follows

\* Two peers that have not begun.
LEMMA LineInit ==
    ASSUME NEW s, NEW o, NEW st \in BOOLEAN, NEW resp \in Nat, NEW rep \in BOOLEAN
    PROVE  Line(<<>>, s, o, st, st, resp, 0, rep)
<1> DEFINE c == [i \in 0..0 |-> 0]
           f == [i \in 0..0 |-> st]
<1>1. Len(<<>>) = 0
  OBVIOUS
<1>2. /\ c \in [0..0 -> Nat] /\ f \in [0..0 -> BOOLEAN] /\ c[0] = 0 /\ f[0] = st
      /\ \A i, j \in 0..0 : i <= j => c[i] <= c[j]
  OBVIOUS
<1> HIDE DEF c, f
<1>3. Follows(c, f, <<>>, s, o, st)
  BY <1>1, <1>2 DEF Follows
<1> QED BY <1>1, <1>2, <1>3 DEF Line

-----------------------------------------------------------------------------
(* Both directions: a peer that accepts the option (a) and one that may      *)
(* refuse it (b).                                                            *)

\* A machine is where it wants to be when it has asked for an even number of
\* changes that are not yet answered.
Balanced(m) == m.resp % 2 = 0 <=> m.want = m.state

\* What the two wait for is what the two have still to read.
Pair(ma, oa, sa, mb, ob, sb, o) ==
    \E x, y \in Nat :
        /\ Line(oa, sa, o, mb.state, ma.want, mb.resp, x, Accepting)
        /\ Line(ob, sb, o, ma.state, mb.want, ma.resp, y, Refusing)
        /\ ma.resp + mb.resp = x + y
        /\ Balanced(ma) /\ Balanced(mb)

\* The counter of a machine that has taken a message for an answer.
Counted(m, on) ==
    LET r == IF m.resp > 0 THEN m.resp - 1 ELSE 0
    IN  IF r > 0 /\ m.state = on THEN r - 1 ELSE r

\* A message is handled: m becomes n, and out2 is what is then on its way.
Takes(m, n, out, out2, s, o, on, yes) ==
    IF Counted(m, on) = 0 /\ m.want # on
    THEN /\ n = [state |-> on, want |-> on /\ yes,
                 resp |-> IF on /\ ~yes THEN 1 ELSE 0]
         /\ IF on \/ m.state THEN Says(out, out2, s, o, on /\ yes)
                             ELSE Grows(out, out2, s, o)
    ELSE /\ n = [state |-> on, want |-> m.want, resp |-> Counted(m, on)]
         /\ Grows(out, out2, s, o)

\* A machine is left alone, or asks for a change.
Asks(m, n, out, out2, s, o) ==
    \/ n = m /\ Grows(out, out2, s, o)
    \/ \E on \in BOOLEAN :
          /\ m.want # on /\ ~(m.resp = 0 /\ m.state = on)
          /\ n = [state |-> m.state, want |-> on, resp |-> m.resp + 1]
          /\ Says(out, out2, s, o, on)

\* The fields of a machine, and when it wants what it has.
LEMMA MachineFields ==
    ASSUME NEW m \in Machine
    PROVE  /\ m.state \in BOOLEAN /\ m.want \in BOOLEAN /\ m.resp \in Nat
           /\ m = [state |-> m.state, want |-> m.want, resp |-> m.resp]
BY DEF Machine

\* The two roles are Booleans.
LEMMA Roles == Accepting \in BOOLEAN /\ Refusing \in BOOLEAN
BY DEF Accepting, Refusing

\* Messages about other options leave a pair as it is.
LEMMA PairGrows ==
    ASSUME NEW ma \in Machine, NEW mb \in Machine, NEW sa, NEW sb, NEW o,
           NEW oa \in Seq(Message), NEW oa2 \in Seq(Message), Grows(oa, oa2, sa, o),
           NEW ob \in Seq(Message), NEW ob2 \in Seq(Message), Grows(ob, ob2, sb, o),
           Pair(ma, oa, sa, mb, ob, sb, o)
    PROVE  Pair(ma, oa2, sa, mb, ob2, sb, o)
<1>1. PICK x \in Nat, y \in Nat :
        /\ Line(oa, sa, o, mb.state, ma.want, mb.resp, x, Accepting)
        /\ Line(ob, sb, o, ma.state, mb.want, ma.resp, y, Refusing)
        /\ ma.resp + mb.resp = x + y
        /\ Balanced(ma) /\ Balanced(mb)
  BY DEF Pair
<1>2. Line(oa2, sa, o, mb.state, ma.want, mb.resp, x, Accepting)
  BY <1>1, LineGrows, Roles, MachineFields
<1>3. Line(ob2, sb, o, ma.state, mb.want, ma.resp, y, Refusing)
  BY <1>1, LineGrows, Roles, MachineFields
<1> QED BY <1>1, <1>2, <1>3 DEF Pair

\* A message about another option may be read on either line.
LEMMA PairSkips ==
    ASSUME NEW ma \in Machine, NEW mb \in Machine, NEW sa, NEW sb, NEW o,
           NEW oa \in Seq(Message), NEW ob \in Seq(Message),
           Pair(ma, oa, sa, mb, ob, sb, o)
    PROVE  /\ oa # <<>> /\ ~About(Head(oa), sa, o) => Pair(ma, Tail(oa), sa, mb, ob, sb, o)
           /\ ob # <<>> /\ ~About(Head(ob), sb, o) => Pair(ma, oa, sa, mb, Tail(ob), sb, o)
<1>1. PICK x \in Nat, y \in Nat :
        /\ Line(oa, sa, o, mb.state, ma.want, mb.resp, x, Accepting)
        /\ Line(ob, sb, o, ma.state, mb.want, ma.resp, y, Refusing)
        /\ ma.resp + mb.resp = x + y
        /\ Balanced(ma) /\ Balanced(mb)
  BY DEF Pair
<1>2. ASSUME oa # <<>>, ~About(Head(oa), sa, o) PROVE Pair(ma, Tail(oa), sa, mb, ob, sb, o)
  <2>1. Line(Tail(oa), sa, o, mb.state, ma.want, mb.resp, x, Accepting)
    BY <1>1, <1>2, LineSkips, Roles, MachineFields
  <2> QED BY <1>1, <2>1 DEF Pair
<1>3. ASSUME ob # <<>>, ~About(Head(ob), sb, o) PROVE Pair(ma, oa, sa, mb, Tail(ob), sb, o)
  <2>1. Line(Tail(ob), sb, o, ma.state, mb.want, ma.resp, y, Refusing)
    BY <1>1, <1>3, LineSkips, Roles, MachineFields
  <2> QED BY <1>1, <2>1 DEF Pair
<1> QED BY <1>2, <1>3

\* A request keeps the machine balanced.
LEMMA AskBalanced ==
    ASSUME NEW m \in Machine, NEW on \in BOOLEAN, m.want # on, Balanced(m)
    PROVE  LET n == [state |-> m.state, want |-> on, resp |-> m.resp + 1]
           IN  Balanced(n) /\ n \in Machine
<1> DEFINE n == [state |-> m.state, want |-> on, resp |-> m.resp + 1]
<1>1. m.state \in BOOLEAN /\ m.want \in BOOLEAN /\ m.resp \in Nat
  BY MachineFields
<1>2. n \in Machine /\ n.resp = m.resp + 1 /\ n.want = on /\ n.state = m.state
  BY <1>1 DEF Machine
<1> HIDE DEF n
<1>3. (m.resp + 1) % 2 = 0 <=> ~(m.resp % 2 = 0)
  BY <1>1
<1>4. on = m.state <=> ~(m.want = m.state)
  BY <1>1
<1>5. Balanced(n)
  BY <1>2, <1>3, <1>4 DEF Balanced
<1> QED BY <1>2, <1>5 DEF n

\* Either of a pair may ask for a change: it waits for one answer more, and the
\* other has one message more to read.
LEMMA PairAsks ==
    ASSUME NEW ma \in Machine, NEW mb \in Machine, NEW sa, NEW sb, NEW o,
           NEW oa \in Seq(Message), NEW ob \in Seq(Message),
           Pair(ma, oa, sa, mb, ob, sb, o), NEW n, NEW out2 \in Seq(Message)
    PROVE  /\ Asks(ma, n, oa, out2, sa, o) => Pair(n, out2, sa, mb, ob, sb, o)
           /\ Asks(mb, n, ob, out2, sb, o) => Pair(ma, oa, sa, n, out2, sb, o)
<1>1. PICK x \in Nat, y \in Nat :
        /\ Line(oa, sa, o, mb.state, ma.want, mb.resp, x, Accepting)
        /\ Line(ob, sb, o, ma.state, mb.want, ma.resp, y, Refusing)
        /\ ma.resp + mb.resp = x + y
        /\ Balanced(ma) /\ Balanced(mb)
  BY DEF Pair
<1>0. /\ ma.state \in BOOLEAN /\ ma.want \in BOOLEAN /\ ma.resp \in Nat
      /\ mb.state \in BOOLEAN /\ mb.want \in BOOLEAN /\ mb.resp \in Nat
  BY MachineFields
<1>9. ma.resp + mb.resp = x + y
  BY <1>1
<1>2. ASSUME NEW on \in BOOLEAN, ma.want # on,
             n = [state |-> ma.state, want |-> on, resp |-> ma.resp + 1],
             Says(oa, out2, sa, o, on)
      PROVE  Pair(n, out2, sa, mb, ob, sb, o)
  <2>1. Balanced(n) /\ n.state = ma.state /\ n.want = on /\ n.resp = ma.resp + 1
    BY <1>1, <1>2, AskBalanced
  <2>2. Line(out2, sa, o, mb.state, n.want, mb.resp, x + 1, Accepting)
    BY <1>0, <1>1, <1>2, <2>1, LineSays, Roles
  <2>3. Line(ob, sb, o, n.state, mb.want, n.resp, y, Refusing)
    BY <1>0, <1>1, <2>1, LineRaise, Roles
  <2>4. x + 1 \in Nat /\ n.resp + mb.resp = (x + 1) + y
    <3>1. n.resp = ma.resp + 1 /\ n.resp \in Nat /\ ma.resp \in Nat /\ mb.resp \in Nat
      BY <1>0, <2>1
    <3>2. PICK a \in Nat, b \in Nat : a = ma.resp /\ b = mb.resp
      BY <3>1
    <3>3. a + b = x + y
      BY <1>9, <3>2
    <3>4. (a + 1) + b = (x + 1) + y
      BY <3>3
    <3> QED BY <3>1, <3>2, <3>4
  <2> QED BY <1>1, <2>1, <2>2, <2>3, <2>4 DEF Pair
<1>3. ASSUME NEW on \in BOOLEAN, mb.want # on,
             n = [state |-> mb.state, want |-> on, resp |-> mb.resp + 1],
             Says(ob, out2, sb, o, on)
      PROVE  Pair(ma, oa, sa, n, out2, sb, o)
  <2>1. Balanced(n) /\ n.state = mb.state /\ n.want = on /\ n.resp = mb.resp + 1
    BY <1>1, <1>3, AskBalanced
  <2>2. Line(out2, sb, o, ma.state, n.want, ma.resp, y + 1, Refusing)
    BY <1>0, <1>1, <1>3, <2>1, LineSays, Roles
  <2>3. Line(oa, sa, o, n.state, ma.want, n.resp, x, Accepting)
    BY <1>0, <1>1, <2>1, LineRaise, Roles
  <2>4. y + 1 \in Nat /\ ma.resp + n.resp = x + (y + 1)
    <3>1. n.resp = mb.resp + 1 /\ n.resp \in Nat /\ ma.resp \in Nat /\ mb.resp \in Nat
      BY <1>0, <2>1
    <3> QED BY <1>9, <3>1
  <2> QED BY <1>1, <2>1, <2>2, <2>3, <2>4 DEF Pair
<1>4. Grows(oa, oa, sa, o) /\ Grows(ob, ob, sb, o)
  BY DEF Grows
<1>5. ASSUME Asks(ma, n, oa, out2, sa, o) PROVE Pair(n, out2, sa, mb, ob, sb, o)
  <2>1. CASE n = ma /\ Grows(oa, out2, sa, o)
    BY <1>4, <2>1, PairGrows
  <2> QED BY <1>2, <1>5, <2>1 DEF Asks
<1>6. ASSUME Asks(mb, n, ob, out2, sb, o) PROVE Pair(ma, oa, sa, n, out2, sb, o)
  <2>1. CASE n = mb /\ Grows(ob, out2, sb, o)
    BY <1>4, <2>1, PairGrows
  <2> QED BY <1>3, <1>6, <2>1 DEF Asks
<1> QED BY <1>5, <1>6

\* What taking a message does to the counter of a balanced machine: a message
\* that changes the state is one answer, one that repeats it is two.  What is
\* not an answer is a request, and gets one.
LEMMA TakesCases ==
    ASSUME NEW m \in Machine, NEW on \in BOOLEAN, Balanced(m),
           m.state = on => m.resp >= 1
    PROVE  LET d == IF on = m.state THEN 2 ELSE 1
               c == Counted(m, on)
           IN  \/ m.resp >= d /\ c = m.resp - d /\ ~(c = 0 /\ m.want # on)
               \/ m.resp = d - 1 /\ c = 0 /\ m.want # on
<1>1. m.state \in BOOLEAN /\ m.want \in BOOLEAN /\ m.resp \in Nat
  BY MachineFields
<1>2. CASE on # m.state
  <2>1. CASE m.resp = 0
    BY <1>1, <1>2, <2>1 DEF Counted, Balanced
  <2>2. CASE m.resp = 1
    <3>1. m.want # m.state
      BY <1>1, <2>2 DEF Balanced
    <3>2. Counted(m, on) = 0
      BY <1>2, <2>2 DEF Counted
    <3> QED BY <1>1, <1>2, <2>2, <3>1, <3>2
  <2>3. CASE m.resp > 1
    <3>1. Counted(m, on) = m.resp - 1
      BY <1>1, <1>2, <2>3 DEF Counted
    <3> QED BY <1>1, <1>2, <2>3, <3>1
  <2> QED BY <1>1, <2>1, <2>2, <2>3
<1>3. CASE on = m.state
  <2>1. CASE m.resp = 1
    <3>1. m.want # m.state
      BY <1>1, <2>1 DEF Balanced
    <3>2. Counted(m, on) = 0
      BY <1>3, <2>1 DEF Counted
    <3> QED BY <1>1, <1>3, <2>1, <3>1, <3>2
  <2>2. CASE m.resp = 2
    <3>1. m.want = m.state
      BY <1>1, <2>2 DEF Balanced
    <3>2. Counted(m, on) = 0
      BY <1>3, <2>2 DEF Counted
    <3> QED BY <1>1, <1>3, <2>2, <3>1, <3>2
  <2>3. CASE m.resp > 2
    <3>1. Counted(m, on) = m.resp - 2
      BY <1>1, <1>3, <2>3 DEF Counted
    <3> QED BY <1>1, <1>3, <2>3, <3>1
  <2> QED BY <1>1, <1>3, <2>1, <2>2, <2>3
<1> QED BY <1>2, <1>3

\* An answer keeps the machine balanced.
LEMMA AnswerBalanced ==
    ASSUME NEW m \in Machine, NEW on \in BOOLEAN, Balanced(m), NEW d \in {1, 2},
           d = IF on = m.state THEN 2 ELSE 1, m.resp >= d
    PROVE  LET n == [state |-> on, want |-> m.want, resp |-> m.resp - d]
           IN  Balanced(n)
<1> DEFINE n == [state |-> on, want |-> m.want, resp |-> m.resp - d]
<1>1. m.state \in BOOLEAN /\ m.want \in BOOLEAN /\ m.resp \in Nat
  BY MachineFields
<1>2. n.resp = m.resp - d /\ n.want = m.want /\ n.state = on
  OBVIOUS
<1> HIDE DEF n
<1>3. CASE on = m.state
  <2>1. (m.resp - 2) % 2 = 0 <=> m.resp % 2 = 0
    BY <1>1
  <2> QED BY <1>2, <1>3, <2>1 DEF Balanced, n
<1>4. CASE on # m.state
  <2>1. (m.resp - 1) % 2 = 0 <=> ~(m.resp % 2 = 0)
    BY <1>1
  <2>2. m.want = on <=> ~(m.want = m.state)
    BY <1>1, <1>4
  <2> QED BY <1>2, <1>4, <2>1, <2>2 DEF Balanced, n
<1> QED BY <1>3, <1>4

\* The peer that may refuse takes a message of the other one.
LEMMA PairTakesB ==
    ASSUME NEW ma \in Machine, NEW mb \in Machine, NEW sa, NEW sb, NEW o,
           NEW oa \in Seq(Message), NEW ob \in Seq(Message),
           Pair(ma, oa, sa, mb, ob, sb, o), oa # <<>>, About(Head(oa), sa, o),
           NEW n, NEW out2 \in Seq(Message), NEW yes \in BOOLEAN,
           Takes(mb, n, ob, out2, sb, o, Head(oa).on, yes)
    PROVE  Pair(ma, Tail(oa), sa, n, out2, sb, o)
<1>1. PICK x \in Nat, y \in Nat :
        /\ Line(oa, sa, o, mb.state, ma.want, mb.resp, x, Accepting)
        /\ Line(ob, sb, o, ma.state, mb.want, ma.resp, y, Refusing)
        /\ ma.resp + mb.resp = x + y
        /\ Balanced(ma) /\ Balanced(mb)
  BY DEF Pair
<1>0. /\ ma.state \in BOOLEAN /\ ma.want \in BOOLEAN /\ ma.resp \in Nat
      /\ mb.state \in BOOLEAN /\ mb.want \in BOOLEAN /\ mb.resp \in Nat
  BY MachineFields
<1>9. ma.resp + mb.resp = x + y
  BY <1>1
<1>2. PICK on \in BOOLEAN : on = Head(oa).on
  <2>1. Head(oa) \in Message
    OBVIOUS
  <2> QED BY <2>1 DEF Message
<1>6. PICK d \in {1, 2} : d = IF on = mb.state THEN 2 ELSE 1
  OBVIOUS
<1>3. /\ x >= d /\ (on = mb.state => on = Accepting /\ mb.resp >= 1)
      /\ \A less \in Nat : less + d >= mb.resp =>
            Line(Tail(oa), sa, o, on, ma.want, less, x - d, Accepting)
  <2>1. Line(oa, sa, o, mb.state, ma.want, mb.resp, x, Accepting)
    BY <1>1
  <2>2. PICK st \in BOOLEAN, want \in BOOLEAN, resp \in Nat, rep \in BOOLEAN :
          st = mb.state /\ want = ma.want /\ resp = mb.resp /\ rep = Accepting
    BY <1>0, Roles
  <2>3. Line(oa, sa, o, st, want, resp, x, rep) /\ d = IF on = st THEN 2 ELSE 1
    BY <1>6, <2>1, <2>2
  <2>4. /\ x >= d /\ (on = st => on = rep /\ resp >= 1)
        /\ \A less \in Nat : less + d >= resp =>
              Line(Tail(oa), sa, o, on, want, less, x - d, rep)
    BY <1>2, <2>3, LineTakes
  <2> QED BY <2>2, <2>4
<1>10. x >= d
  BY <1>3
<1>4. Takes(mb, n, ob, out2, sb, o, on, yes)
  BY <1>2
<1>5. \/ mb.resp >= d /\ Counted(mb, on) = mb.resp - d /\ ~(Counted(mb, on) = 0 /\ mb.want # on)
      \/ mb.resp = d - 1 /\ Counted(mb, on) = 0 /\ mb.want # on
  BY <1>1, <1>2, <1>3, <1>6, TakesCases
<1>7. CASE mb.resp >= d /\ Counted(mb, on) = mb.resp - d /\ ~(Counted(mb, on) = 0 /\ mb.want # on)
  <2>1. /\ n = [state |-> on, want |-> mb.want, resp |-> mb.resp - d]
        /\ Grows(ob, out2, sb, o)
    BY <1>4, <1>7 DEF Takes
  <2>2. Balanced(n)
    BY <1>1, <1>2, <1>6, <1>7, <2>1, AnswerBalanced
  <2>3. n.state = on /\ n.want = mb.want /\ n.resp = mb.resp - d /\ mb.resp - d \in Nat
    BY <1>0, <1>6, <1>7, <2>1
  <2>4. Line(Tail(oa), sa, o, n.state, ma.want, n.resp, x - d, Accepting)
    BY <1>0, <1>3, <1>6, <2>3
  <2>5. Line(out2, sb, o, ma.state, n.want, ma.resp, y, Refusing)
    <3>1. Line(ob, sb, o, ma.state, mb.want, ma.resp, y, Refusing)
      BY <1>1
    <3>2. Line(out2, sb, o, ma.state, mb.want, ma.resp, y, Refusing)
      BY <1>0, <2>1, <3>1, LineGrows, Roles
    <3> QED BY <2>3, <3>2
  <2>6. ma.resp + n.resp = (x - d) + y /\ x - d \in Nat
    <3>1. n.resp = mb.resp - d /\ ma.resp \in Nat /\ mb.resp \in Nat
      BY <1>0, <2>3
    <3> QED BY <1>6, <1>9, <1>10, <3>1
  <2> QED BY <1>1, <2>2, <2>4, <2>5, <2>6 DEF Pair
<1>8. CASE mb.resp = d - 1 /\ Counted(mb, on) = 0 /\ mb.want # on
  <2>0. /\ n = [state |-> on, want |-> on /\ yes, resp |-> IF on /\ ~yes THEN 1 ELSE 0]
        /\ IF on \/ mb.state THEN Says(ob, out2, sb, o, on /\ yes)
                             ELSE Grows(ob, out2, sb, o)
    BY <1>4, <1>8 DEF Takes
  <2>1. on \/ mb.state
    BY <1>0, <1>2, <1>3 DEF Accepting
  <2>2. Says(ob, out2, sb, o, on /\ yes)
    BY <2>0, <2>1
  <2>3. n.resp \in Nat /\ n.resp + d >= mb.resp /\ n.state = on
    BY <1>6, <1>8, <2>0
  <2>4. Line(Tail(oa), sa, o, n.state, ma.want, n.resp, x - d, Accepting)
    BY <1>3, <2>3
  <2>5. x - d \in Nat
    BY <1>3, <1>6
  <2>6. PICK w \in BOOLEAN : w = (on /\ yes)
    OBVIOUS
  <2>7. n.want = w /\ Says(ob, out2, sb, o, w)
    BY <2>0, <2>2, <2>6
  <2>8. CASE on /\ ~yes
    <3>1. n.resp = 1 /\ ~w /\ ~mb.want
      BY <1>0, <1>8, <2>0, <2>6, <2>8
    <3>2. ma.resp >= y + 1
      BY <1>0, <1>9, <1>10, <1>6, <1>8
    <3>3. Line(out2, sb, o, ma.state, w, ma.resp, y + 2, Refusing)
      <4>1. mb.want = w /\ w = Refusing
        BY <1>0, <3>1, Roles DEF Refusing
      <4>2. Line(ob, sb, o, ma.state, Refusing, ma.resp, y, Refusing)
        BY <1>1, <4>1
      <4>3. Says(ob, out2, sb, o, Refusing)
        BY <2>7, <4>1
      <4>4. Line(out2, sb, o, ma.state, Refusing, ma.resp, y + 2, Refusing)
        BY <1>0, <3>2, <4>2, <4>3, LineRefuses, Roles
      <4> QED BY <4>1, <4>4
    <3>4. y + 2 \in Nat /\ ma.resp + n.resp = (x - d) + (y + 2)
      BY <1>0, <1>9, <1>10, <1>6, <1>8, <3>1
    <3>5. Balanced(n)
      <4>1. n.resp = 1 /\ n.want # n.state
        BY <1>2, <2>3, <2>7, <2>8, <3>1
      <4> QED BY <4>1 DEF Balanced
    <3> QED BY <1>1, <2>4, <2>5, <2>7, <3>3, <3>4, <3>5 DEF Pair
  <2>9. CASE ~(on /\ ~yes)
    <3>1. n.resp = 0 /\ w = on /\ mb.want # w
      BY <1>0, <1>2, <1>8, <2>0, <2>6, <2>9
    <3>2. Line(out2, sb, o, ma.state, w, ma.resp, y + 1, Refusing)
      BY <1>0, <1>1, <2>7, <3>1, LineSays, Roles
    <3>3. y + 1 \in Nat /\ ma.resp + n.resp = (x - d) + (y + 1)
      BY <1>0, <1>9, <1>10, <1>6, <1>8, <3>1
    <3>4. Balanced(n)
      BY <2>3, <2>7, <3>1 DEF Balanced
    <3> QED BY <1>1, <2>4, <2>5, <2>7, <3>2, <3>3, <3>4 DEF Pair
  <2> QED BY <2>8, <2>9
<1> QED BY <1>5, <1>7, <1>8

\* The peer that accepts takes a message of the other one.
LEMMA PairTakesA ==
    ASSUME NEW ma \in Machine, NEW mb \in Machine, NEW sa, NEW sb, NEW o,
           NEW oa \in Seq(Message), NEW ob \in Seq(Message),
           Pair(ma, oa, sa, mb, ob, sb, o), ob # <<>>, About(Head(ob), sb, o),
           NEW n, NEW out2 \in Seq(Message), NEW yes \in BOOLEAN, Head(ob).on => yes,
           Takes(ma, n, oa, out2, sa, o, Head(ob).on, yes)
    PROVE  Pair(n, out2, sa, mb, Tail(ob), sb, o)
<1>1. PICK x \in Nat, y \in Nat :
        /\ Line(oa, sa, o, mb.state, ma.want, mb.resp, x, Accepting)
        /\ Line(ob, sb, o, ma.state, mb.want, ma.resp, y, Refusing)
        /\ ma.resp + mb.resp = x + y
        /\ Balanced(ma) /\ Balanced(mb)
  BY DEF Pair
<1>0. /\ ma.state \in BOOLEAN /\ ma.want \in BOOLEAN /\ ma.resp \in Nat
      /\ mb.state \in BOOLEAN /\ mb.want \in BOOLEAN /\ mb.resp \in Nat
  BY MachineFields
<1>9. ma.resp + mb.resp = x + y
  BY <1>1
<1>2. PICK on \in BOOLEAN : on = Head(ob).on
  <2>1. Head(ob) \in Message
    OBVIOUS
  <2> QED BY <2>1 DEF Message
<1>6. PICK d \in {1, 2} : d = IF on = ma.state THEN 2 ELSE 1
  OBVIOUS
<1>3. /\ y >= d /\ (on = ma.state => on = Refusing /\ ma.resp >= 1)
      /\ \A less \in Nat : less + d >= ma.resp =>
            Line(Tail(ob), sb, o, on, mb.want, less, y - d, Refusing)
  <2>1. Line(ob, sb, o, ma.state, mb.want, ma.resp, y, Refusing)
    BY <1>1
  <2>2. PICK st \in BOOLEAN, want \in BOOLEAN, resp \in Nat, rep \in BOOLEAN :
          st = ma.state /\ want = mb.want /\ resp = ma.resp /\ rep = Refusing
    BY <1>0, Roles
  <2>3. Line(ob, sb, o, st, want, resp, y, rep) /\ d = IF on = st THEN 2 ELSE 1
    BY <1>6, <2>1, <2>2
  <2>4. /\ y >= d /\ (on = st => on = rep /\ resp >= 1)
        /\ \A less \in Nat : less + d >= resp =>
              Line(Tail(ob), sb, o, on, want, less, y - d, rep)
    BY <1>2, <2>3, LineTakes
  <2> QED BY <2>2, <2>4
<1>10. y >= d
  BY <1>3
<1>4. Takes(ma, n, oa, out2, sa, o, on, yes) /\ (on => yes)
  BY <1>2
<1>5. \/ ma.resp >= d /\ Counted(ma, on) = ma.resp - d /\ ~(Counted(ma, on) = 0 /\ ma.want # on)
      \/ ma.resp = d - 1 /\ Counted(ma, on) = 0 /\ ma.want # on
  BY <1>1, <1>2, <1>3, <1>6, TakesCases
<1>7. CASE ma.resp >= d /\ Counted(ma, on) = ma.resp - d /\ ~(Counted(ma, on) = 0 /\ ma.want # on)
  <2>1. /\ n = [state |-> on, want |-> ma.want, resp |-> ma.resp - d]
        /\ Grows(oa, out2, sa, o)
    BY <1>4, <1>7 DEF Takes
  <2>2. Balanced(n)
    BY <1>1, <1>2, <1>6, <1>7, <2>1, AnswerBalanced
  <2>3. n.state = on /\ n.want = ma.want /\ n.resp = ma.resp - d /\ ma.resp - d \in Nat
    BY <1>0, <1>6, <1>7, <2>1
  <2>4. Line(Tail(ob), sb, o, n.state, mb.want, n.resp, y - d, Refusing)
    BY <1>0, <1>3, <1>6, <2>3
  <2>5. Line(out2, sa, o, mb.state, n.want, mb.resp, x, Accepting)
    <3>1. Line(oa, sa, o, mb.state, ma.want, mb.resp, x, Accepting)
      BY <1>1
    <3>2. Line(out2, sa, o, mb.state, ma.want, mb.resp, x, Accepting)
      BY <1>0, <2>1, <3>1, LineGrows, Roles
    <3> QED BY <2>3, <3>2
  <2>6. n.resp + mb.resp = x + (y - d) /\ y - d \in Nat
    <3>1. n.resp = ma.resp - d /\ ma.resp \in Nat /\ mb.resp \in Nat
      BY <1>0, <2>3
    <3> QED BY <1>6, <1>9, <1>10, <3>1
  <2> QED BY <1>1, <2>2, <2>4, <2>5, <2>6 DEF Pair
<1>8. CASE ma.resp = d - 1 /\ Counted(ma, on) = 0 /\ ma.want # on
  <2>0. /\ n = [state |-> on, want |-> on /\ yes, resp |-> IF on /\ ~yes THEN 1 ELSE 0]
        /\ IF on \/ ma.state THEN Says(oa, out2, sa, o, on /\ yes)
                             ELSE Grows(oa, out2, sa, o)
    BY <1>4, <1>8 DEF Takes
  <2>1. n.state = on /\ n.want = on /\ n.resp = 0 /\ (on /\ yes) = on
    BY <1>2, <1>4, <2>0
  <2>2. Balanced(n)
    BY <2>1 DEF Balanced
  <2>3. n.resp \in Nat /\ n.resp + d >= ma.resp
    BY <1>6, <1>8, <2>1
  <2>4. Line(Tail(ob), sb, o, n.state, mb.want, n.resp, y - d, Refusing)
    BY <1>3, <2>1, <2>3
  <2>5. y - d \in Nat
    BY <1>3, <1>6
  <2>6. CASE on \/ ma.state
    <3>1. Says(oa, out2, sa, o, on)
      BY <2>0, <2>1, <2>6
    <3>2. Line(out2, sa, o, mb.state, on, mb.resp, x + 1, Accepting)
      BY <1>0, <1>1, <1>2, <1>8, <3>1, LineSays, Roles
    <3>3. x + 1 \in Nat /\ n.resp + mb.resp = (x + 1) + (y - d)
      <4>1. PICK a \in Nat, b \in Nat : a = ma.resp /\ b = mb.resp
        BY <1>0
      <4>2. a + b = x + y /\ a = d - 1 /\ d \in Nat
        BY <1>6, <1>8, <1>9, <4>1
      <4>3. b = (x + 1) + (y - d)
        BY <1>10, <4>2
      <4> QED BY <2>1, <4>1, <4>3
    <3> QED BY <1>1, <2>1, <2>2, <2>4, <2>5, <3>2, <3>3 DEF Pair
  <2>7. CASE ~on /\ ~ma.state
    <3>1. Grows(oa, out2, sa, o) /\ ma.want /\ d = 2
      BY <1>0, <1>2, <1>6, <1>8, <2>0, <2>7
    <3>2. /\ x + 1 \in Nat /\ mb.resp >= x + 1
          /\ n.resp + mb.resp = (x + 1) + (y - d)
      <4>1. PICK a \in Nat, b \in Nat : a = ma.resp /\ b = mb.resp
        BY <1>0
      <4>2. a + b = x + y /\ a = 1 /\ d = 2 /\ y >= 2
        BY <1>8, <1>9, <1>10, <3>1, <4>1
      <4>3. b >= x + 1 /\ b = (x + 1) + (y - d)
        BY <4>2
      <4> QED BY <2>1, <4>1, <4>3
    <3>3. Line(oa, sa, o, mb.state, on, mb.resp, x + 1, Accepting)
      <4>1. Accepting /\ Accepting # on /\ ma.want = Accepting
        BY <1>0, <1>2, <2>7, <3>1 DEF Accepting
      <4>2. Line(oa, sa, o, mb.state, Accepting, mb.resp, x, Accepting)
        BY <1>1, <4>1
      <4>3. mb.resp >= x + 1 /\ mb.resp \in Nat
        BY <1>0, <3>2
      <4> QED BY <1>2, <4>1, <4>2, <4>3, LineGivesIn, Roles
    <3>4. Line(out2, sa, o, mb.state, on, mb.resp, x + 1, Accepting)
      BY <1>0, <1>2, <3>1, <3>2, <3>3, LineGrows, Roles
    <3> QED BY <1>1, <2>1, <2>2, <2>4, <2>5, <3>2, <3>4 DEF Pair
  <2> QED BY <1>0, <1>2, <2>6, <2>7
<1> QED BY <1>5, <1>7, <1>8

\* With nothing to read the two agree.
LEMMA PairQuiet ==
    ASSUME NEW ma \in Machine, NEW mb \in Machine, NEW sa, NEW sb, NEW o,
           Pair(ma, <<>>, sa, mb, <<>>, sb, o)
    PROVE  ma.want = mb.want /\ (ma.want => ma.state /\ mb.state)
<1>1. PICK x \in Nat, y \in Nat :
        /\ Line(<<>>, sa, o, mb.state, ma.want, mb.resp, x, Accepting)
        /\ Line(<<>>, sb, o, ma.state, mb.want, ma.resp, y, Refusing)
        /\ ma.resp + mb.resp = x + y
        /\ Balanced(ma) /\ Balanced(mb)
  BY DEF Pair
<1>0. /\ ma.state \in BOOLEAN /\ ma.want \in BOOLEAN /\ ma.resp \in Nat
      /\ mb.state \in BOOLEAN /\ mb.want \in BOOLEAN /\ mb.resp \in Nat
  BY MachineFields
<1>9. ma.resp + mb.resp = x + y
  BY <1>1
<1>2. ma.state = mb.want /\ y = 0
  <2>1. ~Refusing
    BY DEF Refusing
  <2> QED BY <1>0, <1>1, <2>1, LineEmpty, Roles
<1>3. \/ mb.state = ma.want /\ x = 0
      \/ mb.state = TRUE /\ ma.want = FALSE /\ x = 1 /\ mb.resp >= 1
  BY <1>0, <1>1, LineEmpty, Roles
<1>4. CASE mb.state = ma.want /\ x = 0
  <2>1. ma.resp = 0
    BY <1>0, <1>1, <1>2, <1>4
  <2>2. ma.want = ma.state
    BY <2>1, <1>1 DEF Balanced
  <2> QED BY <1>0, <1>2, <1>4, <2>2
<1>5. CASE mb.state = TRUE /\ ma.want = FALSE /\ x = 1 /\ mb.resp >= 1
  <2>1. ma.resp = 0 /\ mb.resp = 1
    BY <1>0, <1>1, <1>2, <1>5
  <2>2. ma.want = ma.state
    BY <2>1, <1>1 DEF Balanced
  <2>3. mb.want # mb.state
    BY <2>1, <1>1 DEF Balanced
  <2> QED BY <1>0, <1>2, <1>5, <2>2, <2>3
<1> QED BY <1>3, <1>4, <1>5

\* A pair starts with nothing asked for and nothing on its way.
LEMMA PairInit ==
    ASSUME NEW sa, NEW sb, NEW o
    PROVE  Pair(Default, <<>>, sa, Default, <<>>, sb, o)
<1> DEFINE m == Default
<1>1. m.state \in BOOLEAN /\ m.resp \in Nat /\ m.want = m.state /\ m.resp = 0
  BY DEF Default
<1> HIDE DEF m
<1>2. /\ Line(<<>>, sa, o, m.state, m.want, m.resp, 0, Accepting)
      /\ Line(<<>>, sb, o, m.state, m.want, m.resp, 0, Refusing)
  BY <1>1, LineInit, Roles
<1>3. Balanced(m) /\ m.resp + m.resp = 0 + 0 /\ 0 \in Nat
  BY <1>1 DEF Balanced
<1>4. Pair(m, <<>>, sa, m, <<>>, sb, o)
  BY <1>2, <1>3 DEF Pair
<1> QED BY <1>4 DEF m

-----------------------------------------------------------------------------
(* What an update of a peer does to one option, and to the others.         *)

\* Nothing has happened to this option.
Same(p, q, t, x) == q.opt[t][x] = p.opt[t][x] /\ Grows(p.out, q.out, t, x)

\* Nothing has happened to what the agreement speaks of, but to this option.
Only(p, q, s, o) ==
    /\ Typed(p, q) /\ q.todo = p.todo
    /\ p \in Server =>
          /\ q.phase \in {p.phase, "exit"}
          /\ ~(s = "do" /\ o = "BINARY") => q.istrip = p.istrip
    /\ \A t \in Sides, x \in Options : ~(t = s /\ x = o) => Same(p, q, t, x)

\* To write nothing is to write nothing about the option.
LEMMA GrowsItself ==
    ASSUME NEW out \in Seq(Message), NEW s, NEW o
    PROVE  Grows(out, out, s, o)
BY DEF Grows

\* Nothing about the option, twice.
LEMMA GrowsTrans ==
    ASSUME NEW a \in Seq(Message), NEW b \in Seq(Message), NEW c \in Seq(Message),
           NEW s, NEW o, Grows(a, b, s, o), Grows(b, c, s, o)
    PROVE  Grows(a, c, s, o)
<1>1. Len(a) \in Nat /\ Len(b) \in Nat /\ Len(c) \in Nat
  OBVIOUS
<1>2. Len(a) <= Len(b) /\ Len(b) <= Len(c)
  BY DEF Grows
<1>3. \A i \in 1..Len(a) : c[i] = a[i]
  BY <1>1, <1>2 DEF Grows
<1>4. \A i \in 1..Len(c) : i > Len(a) => ~About(c[i], s, o)
  <2> TAKE i \in 1..Len(c)
  <2> HAVE i > Len(a)
  <2>1. CASE i > Len(b)
    BY <2>1 DEF Grows
  <2>2. CASE i <= Len(b)
    <3>1. i \in 1..Len(b) /\ b[i] = c[i]
      BY <1>1, <2>2 DEF Grows
    <3> QED BY <3>1 DEF Grows
  <2> QED BY <1>1, <2>1, <2>2
<1> QED BY <1>1, <1>2, <1>3, <1>4 DEF Grows

\* A message about the option and then others.
LEMMA SaysGrows ==
    ASSUME NEW a \in Seq(Message), NEW b \in Seq(Message), NEW c \in Seq(Message),
           NEW s, NEW o, NEW on, Says(a, b, s, o, on), Grows(b, c, s, o)
    PROVE  Says(a, c, s, o, on)
<1>1. Len(a) \in Nat /\ Len(b) \in Nat /\ Len(c) \in Nat
  OBVIOUS
<1>2. Len(a) <= Len(b) /\ Len(b) <= Len(c)
  BY DEF Grows, Says
<1>3. \A i \in 1..Len(a) : c[i] = a[i]
  BY <1>1, <1>2 DEF Grows, Says
<1>4. PICK k \in 1..Len(b) :
          /\ k > Len(a) /\ About(b[k], s, o) /\ b[k].on = on
          /\ \A i \in 1..Len(b) : i > Len(a) /\ About(b[i], s, o) => i = k
  BY DEF Says
<1>5. k \in 1..Len(c) /\ c[k] = b[k]
  BY <1>1, <1>2 DEF Grows
<1>6. \A i \in 1..Len(c) : i > Len(a) /\ About(c[i], s, o) => i = k
  <2> TAKE i \in 1..Len(c)
  <2> HAVE i > Len(a) /\ About(c[i], s, o)
  <2>1. i <= Len(b)
    BY <1>1 DEF Grows
  <2>2. i \in 1..Len(b) /\ b[i] = c[i]
    BY <1>1, <2>1 DEF Grows
  <2> QED BY <1>4, <2>2
<1> QED BY <1>1, <1>2, <1>3, <1>4, <1>5, <1>6 DEF Says

\* Other messages and then one about the option.
LEMMA GrowsSays ==
    ASSUME NEW a \in Seq(Message), NEW b \in Seq(Message), NEW c \in Seq(Message),
           NEW s, NEW o, NEW on, Grows(a, b, s, o), Says(b, c, s, o, on)
    PROVE  Says(a, c, s, o, on)
<1>1. Len(a) \in Nat /\ Len(b) \in Nat /\ Len(c) \in Nat
  OBVIOUS
<1>2. Len(a) <= Len(b) /\ Len(b) <= Len(c)
  BY DEF Grows, Says
<1>3. \A i \in 1..Len(a) : c[i] = a[i]
  BY <1>1, <1>2 DEF Grows, Says
<1>4. PICK k \in 1..Len(c) :
          /\ k > Len(b) /\ About(c[k], s, o) /\ c[k].on = on
          /\ \A i \in 1..Len(c) : i > Len(b) /\ About(c[i], s, o) => i = k
  BY DEF Says
<1>6. \A i \in 1..Len(c) : i > Len(a) /\ About(c[i], s, o) => i = k
  <2> TAKE i \in 1..Len(c)
  <2> HAVE i > Len(a) /\ About(c[i], s, o)
  <2>1. CASE i <= Len(b)
    <3>1. i \in 1..Len(b) /\ b[i] = c[i]
      BY <1>1, <2>1 DEF Says
    <3> QED BY <3>1 DEF Grows
  <2>2. CASE i > Len(b)
    BY <1>4, <2>2
  <2> QED BY <1>1, <2>1, <2>2
<1> QED BY <1>1, <1>2, <1>3, <1>4, <1>6 DEF Says

\* A message at the end.
LEMMA AppendSays ==
    ASSUME NEW out \in Seq(Message), NEW m \in Message, NEW s, NEW o
    PROVE  /\ ~About(m, s, o) => Grows(out, Append(out, m), s, o)
           /\ About(m, s, o) => Says(out, Append(out, m), s, o, m.on)
<1> DEFINE q == Append(out, m)
<1>1. /\ Len(out) \in Nat /\ Len(q) = Len(out) + 1 /\ q[Len(out) + 1] = m
      /\ \A i \in 1..Len(out) : q[i] = out[i]
  OBVIOUS
<1> HIDE DEF q
<1>2. \A i \in 1..Len(q) : i > Len(out) => i = Len(out) + 1
  BY <1>1
<1>3. ~About(m, s, o) => Grows(out, q, s, o)
  BY <1>1, <1>2 DEF Grows
<1>4. ASSUME About(m, s, o) PROVE Says(out, q, s, o, m.on)
  <2>1. Len(out) + 1 \in 1..Len(q)
    BY <1>1
  <2> QED BY <1>1, <1>2, <1>4, <2>1 DEF Says
<1> QED BY <1>3, <1>4 DEF q

\* What a peer has on its way is a sequence of messages.
LEMMA OutType ==
    ASSUME NEW p \in Peer PROVE p.out \in Seq(Message)
BY DEF Peer, Client, Server

\* A peer left alone is the same for every option.
LEMMA SameItself ==
    ASSUME NEW p \in Peer, NEW t, NEW x PROVE Same(p, p, t, x)
BY OutType, GrowsItself DEF Same

\* An option that two updates leave alone is left alone by both together.
LEMMA SameTrans ==
    ASSUME NEW p \in Peer, NEW q \in Peer, NEW r \in Peer, NEW t, NEW x,
           Same(p, q, t, x), Same(q, r, t, x)
    PROVE  Same(p, r, t, x)
<1>1. p.out \in Seq(Message) /\ q.out \in Seq(Message) /\ r.out \in Seq(Message)
  BY OutType
<1>2. Grows(p.out, r.out, t, x)
  BY <1>1, GrowsTrans DEF Same
<1> QED BY <1>2 DEF Same

\* A peer left alone has had nothing done but to this option.
LEMMA OnlyItself ==
    ASSUME NEW p \in Peer, NEW s, NEW o PROVE Only(p, p, s, o)
BY SameItself DEF Only, Typed

\* Two updates of the same option.
LEMMA OnlyTrans ==
    ASSUME NEW p \in Peer, NEW q, NEW r, NEW s, NEW o, Only(p, q, s, o), Only(q, r, s, o)
    PROVE  Only(p, r, s, o)
<1>1. Typed(p, r) /\ q \in Peer /\ r \in Peer
  BY DEF Only, Typed, Peer
<1>2. r.todo = p.todo
  BY DEF Only
<1>3. ASSUME p \in Server
      PROVE  /\ r.phase \in {p.phase, "exit"}
             /\ ~(s = "do" /\ o = "BINARY") => r.istrip = p.istrip
  <2>1. q \in Server
    BY <1>3 DEF Only, Typed
  <2> QED BY <1>3, <2>1 DEF Only
<1>4. ASSUME NEW t \in Sides, NEW x \in Options, ~(t = s /\ x = o)
      PROVE  Same(p, r, t, x)
  BY <1>1, <1>4, SameTrans DEF Only
<1> QED BY <1>1, <1>2, <1>3, <1>4 DEF Only

\* The fields that the options do not depend on.
LEMMA FieldOnly ==
    ASSUME NEW p \in Peer, NEW q, Typed(p, q), q.opt = p.opt, q.out = p.out,
           q.todo = p.todo, NEW s, NEW o,
           p \in Server => q.phase \in {p.phase, "exit"},
           p \in Server /\ ~(s = "do" /\ o = "BINARY") => q.istrip = p.istrip
    PROVE  Only(p, q, s, o) /\ \A t, x : Same(p, q, t, x)
<1>1. \A t, x : Same(p, q, t, x)
  BY OutType, GrowsItself DEF Same
<1> QED BY <1>1 DEF Only

\* To put a machine is to change this option only, and to write nothing.
LEMMA PutOnly ==
    ASSUME NEW p \in Peer, NEW s \in Sides, NEW o \in Options, NEW m \in Machine
    PROVE  LET q == Put(p, s, o, m)
           IN  Only(p, q, s, o) /\ q.opt[s][o] = m /\ q.out = p.out /\ q \in Peer
<1> DEFINE q == Put(p, s, o, m)
<1>1. Typed(p, q) /\ q.out = p.out /\ q \in Peer
  BY PutType DEF Typed
<1>2. q.opt[s][o] = m
  BY PutMachine
<1>3. q.todo = p.todo /\ (p \in Server => q.phase = p.phase /\ q.istrip = p.istrip)
  BY DEF Put, Peer, Client, Server
<1>4. ASSUME NEW t \in Sides, NEW x \in Options, ~(t = s /\ x = o)
      PROVE  Same(p, q, t, x)
  <2>1. q.opt[t][x] = p.opt[t][x]
    BY <1>4, PutMachine
  <2> QED BY <1>1, <2>1, OutType, GrowsItself DEF Same
<1> HIDE DEF q
<1>5. Only(p, q, s, o)
  BY <1>1, <1>3, <1>4 DEF Only
<1> QED BY <1>1, <1>2, <1>5 DEF q

\* To write a message about an option changes no machine.
LEMMA WriteOnly ==
    ASSUME NEW p \in Peer, NEW s \in Sides, NEW o \in Options, NEW on \in BOOLEAN
    PROVE  LET q == Write(p, s, o, on)
           IN  /\ Only(p, q, s, o) /\ q.opt = p.opt /\ q \in Peer
               /\ Says(p.out, q.out, s, o, on)
<1> DEFINE q == Write(p, s, o, on)
           m == Msg(s, o, on)
<1>1. Typed(p, q) /\ q \in Peer /\ q.out = Append(p.out, m) /\ q.opt = p.opt
  BY WriteType DEF Typed
<1>2. m \in Message /\ m.on = on /\ m.side = s /\ m.opt = o
  BY DEF Msg, Message
<1>3. q.todo = p.todo /\ (p \in Server => q.phase = p.phase /\ q.istrip = p.istrip)
  BY DEF Write, Peer, Client, Server
<1> HIDE DEF q, m
<1>4. p.out \in Seq(Message)
  BY OutType
<1>5. Says(p.out, q.out, s, o, on)
  <2>1. About(m, s, o)
    BY <1>2 DEF About
  <2> QED BY <1>1, <1>2, <1>4, <2>1, AppendSays
<1>6. ASSUME NEW t \in Sides, NEW x \in Options, ~(t = s /\ x = o)
      PROVE  Same(p, q, t, x)
  <2>1. ~About(m, t, x)
    BY <1>2, <1>6 DEF About
  <2> QED BY <1>1, <1>2, <1>4, <2>1, AppendSays DEF Same
<1>7. Only(p, q, s, o)
  BY <1>1, <1>3, <1>6 DEF Only
<1> QED BY <1>1, <1>5, <1>7 DEF q

\* A subnegotiation is about no option.
LEMMA SubOnly ==
    ASSUME NEW p \in Peer, NEW x \in Options, NEW s, NEW o
    PROVE  LET q == Sub(p, x)
           IN  /\ Only(p, q, s, o)
               /\ q \in Peer
               /\ \A t \in Sides, y \in Options : Same(p, q, t, y)
<1> DEFINE q == Sub(p, x)
           m == Msg("sub", x, TRUE)
<1>1. Typed(p, q) /\ q \in Peer /\ q.out = Append(p.out, m) /\ q.opt = p.opt
  <2>1. q = Write(p, "sub", x, TRUE)
    BY DEF Sub, Write
  <2>2. "sub" \in Sides \cup {"sub"} /\ TRUE \in BOOLEAN
    OBVIOUS
  <2> HIDE DEF q
  <2> QED BY <2>1, <2>2, WriteType DEF Typed
<1>2. m \in Message /\ m.side = "sub"
  BY DEF Msg, Message
<1>3. q.todo = p.todo /\ (p \in Server => q.phase = p.phase /\ q.istrip = p.istrip)
  BY DEF Sub, Peer, Client, Server
<1> HIDE DEF q, m
<1>4. p.out \in Seq(Message)
  BY OutType
<1>6. ASSUME NEW t \in Sides, NEW y
      PROVE  Same(p, q, t, y)
  <2>1. ~About(m, t, y)
    BY <1>2 DEF About, Sides
  <2> QED BY <1>1, <1>2, <1>4, <2>1, AppendSays DEF Same
<1>7. Only(p, q, s, o)
  BY <1>1, <1>3, <1>6 DEF Only
<1> QED BY <1>1, <1>6, <1>7 DEF q

-----------------------------------------------------------------------------
(* The operators the handlers are built from.                              *)

\* set_my_state_do() and its like set the state of the one machine.
LEMMA SetStateOnly ==
    ASSUME NEW p \in Peer, NEW s \in Sides, NEW o \in Options, NEW on \in BOOLEAN
    PROVE  LET q == SetState(p, s, o, on)
           IN  /\ Only(p, q, s, o) /\ q \in Peer /\ q.out = p.out
               /\ q.opt[s][o] = [state |-> on, want |-> p.opt[s][o].want,
                                 resp |-> p.opt[s][o].resp]
<1> DEFINE m == [p.opt[s][o] EXCEPT !.state = on]
<1>1. m \in Machine
  BY MachineType DEF Machine
<1> HIDE DEF m
<1>2. LET q == Put(p, s, o, m)
      IN  Only(p, q, s, o) /\ q.opt[s][o] = m /\ q.out = p.out /\ q \in Peer
  BY <1>1, PutOnly
<1>3. m = [state |-> on, want |-> p.opt[s][o].want, resp |-> p.opt[s][o].resp]
  BY MachineType DEF m, Machine
<1> QED BY <1>2, <1>3 DEF SetState, m

\* set_my_want_state_do() and its like set the wish of the one machine.
LEMMA SetWantOnly ==
    ASSUME NEW p \in Peer, NEW s \in Sides, NEW o \in Options, NEW on \in BOOLEAN
    PROVE  LET q == SetWant(p, s, o, on)
           IN  /\ Only(p, q, s, o) /\ q \in Peer /\ q.out = p.out
               /\ q.opt[s][o] = [state |-> p.opt[s][o].state, want |-> on,
                                 resp |-> p.opt[s][o].resp]
<1> DEFINE m == [p.opt[s][o] EXCEPT !.want = on]
<1>1. m \in Machine
  BY MachineType DEF Machine
<1> HIDE DEF m
<1>2. LET q == Put(p, s, o, m)
      IN  Only(p, q, s, o) /\ q.opt[s][o] = m /\ q.out = p.out /\ q \in Peer
  BY <1>1, PutOnly
<1>3. m = [state |-> p.opt[s][o].state, want |-> on, resp |-> p.opt[s][o].resp]
  BY MachineType DEF m, Machine
<1> QED BY <1>2, <1>3 DEF SetWant, m

\* To set do_dont_resp or will_wont_resp leaves state and wish as they are.
LEMMA SetRespOnly ==
    ASSUME NEW p \in Peer, NEW s \in Sides, NEW o \in Options, NEW r \in Nat
    PROVE  LET q == SetResp(p, s, o, r)
           IN  /\ Only(p, q, s, o) /\ q \in Peer /\ q.out = p.out
               /\ q.opt[s][o] = [state |-> p.opt[s][o].state, want |-> p.opt[s][o].want,
                                 resp |-> r]
<1> DEFINE m == [p.opt[s][o] EXCEPT !.resp = r]
<1>1. m \in Machine
  BY MachineType DEF Machine
<1> HIDE DEF m
<1>2. LET q == Put(p, s, o, m)
      IN  Only(p, q, s, o) /\ q.opt[s][o] = m /\ q.out = p.out /\ q \in Peer
  BY <1>1, PutOnly
<1>3. m = [state |-> p.opt[s][o].state, want |-> p.opt[s][o].want, resp |-> r]
  BY MachineType DEF m, Machine
<1> QED BY <1>2, <1>3 DEF SetResp, m

\* A request counts one more answer to come.
LEMMA ExpectOnly ==
    ASSUME NEW p \in Peer, NEW s \in Sides, NEW o \in Options
    PROVE  LET q == Expect(p, s, o)
           IN  /\ Only(p, q, s, o) /\ q \in Peer /\ q.out = p.out
               /\ q.opt[s][o] = [state |-> p.opt[s][o].state, want |-> p.opt[s][o].want,
                                 resp |-> p.opt[s][o].resp + 1]
<1>1. p.opt[s][o].resp + 1 \in Nat
  BY MachineType DEF Machine
<1> QED BY <1>1, SetRespOnly DEF Expect

\* A message counts as one answer, or as two: Counted says how many are left.
LEMMA AnsweredOnly ==
    ASSUME NEW p \in Peer, NEW s \in Sides, NEW o \in Options, NEW on \in BOOLEAN
    PROVE  LET q == Answered(p, s, o, on)
           IN  /\ Only(p, q, s, o) /\ q \in Peer /\ q.out = p.out
               /\ q.opt[s][o] = [state |-> p.opt[s][o].state, want |-> p.opt[s][o].want,
                                 resp |-> Counted(p.opt[s][o], on)]
<1>1. Counted(p.opt[s][o], on) \in Nat
  BY MachineType DEF Machine, Counted
<1>2. Answered(p, s, o, on) = SetResp(p, s, o, Counted(p.opt[s][o], on))
  BY DEF Answered, Counted
<1> QED BY <1>1, <1>2, SetRespOnly

\* To accept is to want the option and to say so.
LEMMA AcceptOnly ==
    ASSUME NEW p \in Peer, NEW s \in Sides, NEW o \in Options
    PROVE  LET q == Accept(p, s, o)
           IN  /\ Only(p, q, s, o) /\ q \in Peer
               /\ q.opt[s][o] = [state |-> p.opt[s][o].state, want |-> TRUE,
                                 resp |-> p.opt[s][o].resp]
               /\ Says(p.out, q.out, s, o, TRUE)
<1> DEFINE w == SetWant(p, s, o, TRUE)
           q == Write(w, s, o, TRUE)
<1>1. /\ Only(p, w, s, o) /\ w \in Peer /\ w.out = p.out
      /\ w.opt[s][o] = [state |-> p.opt[s][o].state, want |-> TRUE,
                        resp |-> p.opt[s][o].resp]
  BY SetWantOnly
<1> HIDE DEF w
<1>2. /\ Only(w, q, s, o) /\ q.opt = w.opt /\ q \in Peer
      /\ Says(w.out, q.out, s, o, TRUE)
  BY <1>1, WriteOnly
<1>3. Accept(p, s, o) = q
  BY DEF Accept, w
<1> HIDE DEF q
<1>4. Only(p, q, s, o)
  BY <1>1, <1>2, OnlyTrans
<1> QED BY <1>1, <1>2, <1>3, <1>4

\* To refuse is to wait for one answer more and to say no.
LEMMA RefuseOnly ==
    ASSUME NEW p \in Peer, NEW s \in Sides, NEW o \in Options
    PROVE  LET q == Refuse(p, s, o)
           IN  /\ Only(p, q, s, o) /\ q \in Peer
               /\ q.opt[s][o] = [state |-> p.opt[s][o].state, want |-> p.opt[s][o].want,
                                 resp |-> p.opt[s][o].resp + 1]
               /\ Says(p.out, q.out, s, o, FALSE)
<1> DEFINE w == Expect(p, s, o)
           q == Write(w, s, o, FALSE)
<1>1. /\ Only(p, w, s, o) /\ w \in Peer /\ w.out = p.out
      /\ w.opt[s][o] = [state |-> p.opt[s][o].state, want |-> p.opt[s][o].want,
                        resp |-> p.opt[s][o].resp + 1]
  BY ExpectOnly
<1> HIDE DEF w
<1>2. /\ Only(w, q, s, o) /\ q.opt = w.opt /\ q \in Peer
      /\ Says(w.out, q.out, s, o, FALSE)
  BY <1>1, WriteOnly
<1>3. Refuse(p, s, o) = q
  BY DEF Refuse, w
<1> HIDE DEF q
<1>4. Only(p, q, s, o)
  BY <1>1, <1>2, OnlyTrans
<1> QED BY <1>1, <1>2, <1>3, <1>4

\* To give in is to want the option no more, and to say so if it was on.
LEMMA ConcedeOnly ==
    ASSUME NEW p \in Peer, NEW s \in Sides, NEW o \in Options
    PROVE  LET q == Concede(p, s, o)
           IN  /\ Only(p, q, s, o) /\ q \in Peer
               /\ q.opt[s][o] = [state |-> p.opt[s][o].state, want |-> FALSE,
                                 resp |-> p.opt[s][o].resp]
               /\ IF p.opt[s][o].state THEN Says(p.out, q.out, s, o, FALSE)
                                       ELSE q.out = p.out
<1> DEFINE w == SetWant(p, s, o, FALSE)
           q == Write(w, s, o, FALSE)
<1>1. /\ Only(p, w, s, o) /\ w \in Peer /\ w.out = p.out
      /\ w.opt[s][o] = [state |-> p.opt[s][o].state, want |-> FALSE,
                        resp |-> p.opt[s][o].resp]
  BY SetWantOnly
<1>3. Concede(p, s, o) = IF p.opt[s][o].state THEN q ELSE w
  BY DEF Concede
<1> HIDE DEF w
<1>2. /\ Only(w, q, s, o) /\ q.opt = w.opt /\ q \in Peer
      /\ Says(w.out, q.out, s, o, FALSE)
  BY <1>1, WriteOnly
<1> HIDE DEF q
<1>4. Only(p, q, s, o)
  BY <1>1, <1>2, OnlyTrans
<1> QED BY <1>1, <1>2, <1>3, <1>4

\* Asks, of two peers.
Wishes(p, q, s, o) == Asks(p.opt[s][o], q.opt[s][o], p.out, q.out, s, o)

\* send_do(), send_dont(), send_will() and send_wont() with their init argument ask
\* for the one change.
LEMMA RequestAsks ==
    ASSUME NEW p \in Peer, NEW s \in Sides, NEW o \in Options, NEW on \in BOOLEAN
    PROVE  LET q == Request(p, s, o, on)
           IN  Only(p, q, s, o) /\ q \in Peer /\ Wishes(p, q, s, o)
<1> DEFINE w == SetWant(p, s, o, on)
           e == Expect(w, s, o)
           q == Write(e, s, o, on)
           m == p.opt[s][o]
<1>1. /\ Only(p, w, s, o) /\ w \in Peer /\ w.out = p.out
      /\ w.opt[s][o] = [state |-> m.state, want |-> on, resp |-> m.resp]
  BY SetWantOnly
<1>2. Request(p, s, o, on) = IF \/ m.resp = 0 /\ m.state = on
                                \/ m.want = on
                             THEN p ELSE q
  BY DEF Request
<1> HIDE DEF w
<1>3. /\ Only(w, e, s, o) /\ e \in Peer /\ e.out = w.out
      /\ e.opt[s][o] = [state |-> w.opt[s][o].state, want |-> w.opt[s][o].want,
                        resp |-> w.opt[s][o].resp + 1]
  BY <1>1, ExpectOnly
<1> HIDE DEF e
<1>4. /\ Only(e, q, s, o) /\ q.opt = e.opt /\ q \in Peer
      /\ Says(e.out, q.out, s, o, on)
  BY <1>3, WriteOnly
<1> HIDE DEF q
<1>5. Only(p, q, s, o)
  BY <1>1, <1>3, <1>4, OnlyTrans
<1>6. m \in Machine
  BY MachineType
<1> HIDE DEF m
<1>7. q.opt[s][o] = [state |-> m.state, want |-> on, resp |-> m.resp + 1]
  BY <1>1, <1>3, <1>4, <1>6 DEF Machine
<1>8. CASE (m.resp = 0 /\ m.state = on) \/ m.want = on
  <2>1. Asks(m, m, p.out, p.out, s, o)
    BY OutType, GrowsItself DEF Asks
  <2> QED BY <1>2, <1>8, <2>1, OnlyItself DEF m, Wishes
<1>9. CASE ~((m.resp = 0 /\ m.state = on) \/ m.want = on)
  <2>1. Says(p.out, q.out, s, o, on)
    BY <1>1, <1>3, <1>4
  <2>2. Asks(m, q.opt[s][o], p.out, q.out, s, o)
    BY <1>7, <1>9, <2>1 DEF Asks
  <2> QED BY <1>2, <1>4, <1>5, <1>9, <2>2 DEF m, Wishes
<1> QED BY <1>8, <1>9

-----------------------------------------------------------------------------
(* How a message is handled.                                               *)

\* Takes, of two peers.
Taken(p, q, s, o, on, yes) ==
    Takes(p.opt[s][o], q.opt[s][o], p.out, q.out, s, o, on, yes)

\* The middle of a handler: a request is accepted or refused, and put on record.
Replies(p, q, s, o, on, yes) ==
    LET m == p.opt[s][o]
    IN  IF Asked(p, s, o, on)
        THEN /\ q.opt[s][o] = [state |-> m.state, want |-> on /\ yes,
                               resp |-> IF on /\ ~yes THEN m.resp + 1 ELSE m.resp]
             /\ IF on \/ m.state THEN Says(p.out, q.out, s, o, on /\ yes)
                                 ELSE Grows(p.out, q.out, s, o)
        ELSE Same(p, q, s, o)

\* The last assignment of a handler puts the new state on record: with the reply
\* before it a message is taken.
LEMMA RepliesTakes ==
    ASSUME NEW p0 \in Peer, NEW s \in Sides, NEW o \in Options, NEW on \in BOOLEAN,
           NEW yes \in BOOLEAN, NEW q \in Peer,
           Replies(Answered(p0, s, o, on), q, s, o, on, yes)
    PROVE  LET r == SetState(q, s, o, on)
           IN  Only(q, r, s, o) /\ r \in Peer /\ Taken(p0, r, s, o, on, yes)
<1> DEFINE p == Answered(p0, s, o, on)
           r == SetState(q, s, o, on)
           m == p0.opt[s][o]
           c == Counted(m, on)
<1>1. /\ Only(p0, p, s, o) /\ p \in Peer /\ p.out = p0.out
      /\ p.opt[s][o] = [state |-> m.state, want |-> m.want, resp |-> c]
  BY AnsweredOnly
<1>2. m \in Machine /\ c \in Nat
  BY MachineType DEF Machine, Counted
<1>3. Replies(p, q, s, o, on, yes)
  OBVIOUS
<1> HIDE DEF p
<1>5. /\ Only(q, r, s, o) /\ r \in Peer /\ r.out = q.out
      /\ r.opt[s][o] = [state |-> on, want |-> q.opt[s][o].want,
                        resp |-> q.opt[s][o].resp]
  BY SetStateOnly
<1> HIDE DEF r
<1> HIDE DEF m, c
<1>7. p.opt[s][o] = [state |-> m.state, want |-> m.want, resp |-> c]
  BY <1>1, <1>2 DEF Machine
<1>8. Asked(p, s, o, on) <=> c = 0 /\ m.want # on
  BY <1>7 DEF Asked
<1>9. CASE c = 0 /\ m.want # on
  <2>1. /\ q.opt[s][o] = [state |-> m.state, want |-> on /\ yes,
                          resp |-> IF on /\ ~yes THEN 1 ELSE 0]
        /\ IF on \/ m.state THEN Says(p0.out, q.out, s, o, on /\ yes)
                            ELSE Grows(p0.out, q.out, s, o)
    BY <1>1, <1>3, <1>7, <1>8, <1>9 DEF Replies
  <2>2. r.opt[s][o] = [state |-> on, want |-> on /\ yes,
                       resp |-> IF on /\ ~yes THEN 1 ELSE 0]
    BY <1>5, <2>1
  <2> QED BY <1>5, <1>9, <2>1, <2>2 DEF Taken, Takes, m, c, r
<1>10. CASE ~(c = 0 /\ m.want # on)
  <2>1. q.opt[s][o] = p.opt[s][o] /\ Grows(p0.out, q.out, s, o)
    BY <1>1, <1>3, <1>8, <1>10 DEF Replies, Same
  <2>2. r.opt[s][o] = [state |-> on, want |-> m.want, resp |-> c]
    BY <1>5, <1>7, <2>1
  <2> QED BY <1>5, <1>10, <2>1, <2>2 DEF Taken, Takes, m, c, r
<1> QED BY <1>9, <1>10

\* The same, of a reply that did nothing but to this option.
LEMMA RepliesTaken ==
    ASSUME NEW p0 \in Peer, NEW s \in Sides, NEW o \in Options, NEW on \in BOOLEAN,
           NEW yes \in BOOLEAN, NEW q, Only(Answered(p0, s, o, on), q, s, o),
           Replies(Answered(p0, s, o, on), q, s, o, on, yes)
    PROVE  LET r == SetState(q, s, o, on)
           IN  Only(p0, r, s, o) /\ r \in Peer /\ Taken(p0, r, s, o, on, yes)
<1> DEFINE p == Answered(p0, s, o, on)
           r == SetState(q, s, o, on)
<1>1. Only(p0, p, s, o) /\ p \in Peer
  BY AnsweredOnly
<1>2. q \in Peer /\ Only(p, q, s, o)
  BY DEF Only, Typed
<1>3. Only(q, r, s, o) /\ r \in Peer /\ Taken(p0, r, s, o, on, yes)
  BY <1>2, RepliesTakes
<1> HIDE DEF p, r
<1>4. Only(p0, r, s, o)
  BY <1>1, <1>2, <1>3, OnlyTrans
<1> QED BY <1>3, <1>4 DEF r

\* What is done afterwards to other options does not count.
LEMMA TakenSame ==
    ASSUME NEW p \in Peer, NEW q \in Peer, NEW r \in Peer, NEW s, NEW o,
           NEW on, NEW yes, Taken(p, q, s, o, on, yes), Same(q, r, s, o)
    PROVE  Taken(p, r, s, o, on, yes)
<1>1. p.out \in Seq(Message) /\ q.out \in Seq(Message) /\ r.out \in Seq(Message)
  BY OutType
<1>2. r.opt[s][o] = q.opt[s][o] /\ Grows(q.out, r.out, s, o)
  BY DEF Same
<1>3. PICK w : w = (on /\ yes)
  OBVIOUS
<1>4. Grows(p.out, q.out, s, o) => Grows(p.out, r.out, s, o)
  BY <1>1, <1>2, GrowsTrans
<1>5. Says(p.out, q.out, s, o, w) => Says(p.out, r.out, s, o, w)
  BY <1>1, <1>2, SaysGrows
<1> QED BY <1>2, <1>3, <1>4, <1>5 DEF Taken, Takes

\* The four ways to reply.
LEMMA AcceptTells ==
    ASSUME NEW p \in Peer, NEW s \in Sides, NEW o \in Options, NEW on \in BOOLEAN,
           NEW yes \in BOOLEAN, on, yes, Asked(p, s, o, on),
           NEW e \in Peer, Same(p, e, s, o)
    PROVE  Replies(p, Accept(e, s, o), s, o, on, yes)
<1> DEFINE q == Accept(e, s, o)
           m == p.opt[s][o]
<1>1. /\ Only(e, q, s, o) /\ q \in Peer
      /\ q.opt[s][o] = [state |-> e.opt[s][o].state, want |-> TRUE,
                        resp |-> e.opt[s][o].resp]
      /\ Says(e.out, q.out, s, o, TRUE)
  BY AcceptOnly
<1> HIDE DEF q
<1>3. p.out \in Seq(Message) /\ e.out \in Seq(Message) /\ q.out \in Seq(Message)
  BY <1>1, OutType
<1>4. e.opt[s][o] = m /\ Grows(p.out, e.out, s, o) /\ m \in Machine
  BY MachineType DEF Same
<1>5. PICK w : w = TRUE
  OBVIOUS
<1>6. Says(p.out, q.out, s, o, w)
  BY <1>1, <1>3, <1>4, <1>5, GrowsSays
<1>7. q.opt[s][o] = [state |-> m.state, want |-> TRUE, resp |-> m.resp]
  BY <1>1, <1>4 DEF Machine
<1>8. Replies(p, q, s, o, on, yes)
  <2>1. (on /\ yes) = w /\ on = TRUE /\ yes = TRUE
    BY <1>5
  <2> QED BY <1>6, <1>7, <2>1 DEF Replies
<1> QED BY <1>8 DEF q

\* To accept an offer is one of the replies.
LEMMA AcceptReplies ==
    ASSUME NEW p \in Peer, NEW s \in Sides, NEW o \in Options, NEW on \in BOOLEAN,
           NEW yes \in BOOLEAN, on, yes, Asked(p, s, o, on),
           NEW e \in Peer, Only(p, e, s, o), Same(p, e, s, o)
    PROVE  Only(p, Accept(e, s, o), s, o) /\ Replies(p, Accept(e, s, o), s, o, on, yes)
<1> DEFINE q == Accept(e, s, o)
<1>1. Only(e, q, s, o)
  BY AcceptOnly
<1>2. Replies(p, q, s, o, on, yes)
  BY AcceptTells
<1> HIDE DEF q
<1>3. Only(p, q, s, o)
  BY <1>1, OnlyTrans
<1> QED BY <1>2, <1>3 DEF q

\* To refuse an offer is one of the replies.
LEMMA RefuseReplies ==
    ASSUME NEW p \in Peer, NEW s \in Sides, NEW o \in Options, NEW on \in BOOLEAN,
           NEW yes \in BOOLEAN, on, ~yes, Asked(p, s, o, on)
    PROVE  Only(p, Refuse(p, s, o), s, o) /\ Replies(p, Refuse(p, s, o), s, o, on, yes)
<1> DEFINE q == Refuse(p, s, o)
           m == p.opt[s][o]
<1>1. /\ Only(p, q, s, o) /\ q \in Peer
      /\ q.opt[s][o] = [state |-> m.state, want |-> m.want, resp |-> m.resp + 1]
      /\ Says(p.out, q.out, s, o, FALSE)
  BY RefuseOnly
<1> HIDE DEF q
<1>4. m \in Machine /\ m.want = FALSE
  BY MachineType DEF Asked, Machine
<1>7. q.opt[s][o] = [state |-> m.state, want |-> FALSE, resp |-> m.resp + 1]
  BY <1>1, <1>4 DEF Machine
<1>8. Replies(p, q, s, o, on, yes)
  <2>1. (on /\ yes) = FALSE /\ on = TRUE /\ yes = FALSE
    OBVIOUS
  <2> QED BY <1>1, <1>7, <2>1 DEF Replies
<1> QED BY <1>1, <1>8 DEF q

\* To give in when told that the option is off is one of the replies.
LEMMA ConcedeTells ==
    ASSUME NEW p \in Peer, NEW s \in Sides, NEW o \in Options, NEW on \in BOOLEAN,
           NEW yes \in BOOLEAN, ~on, Asked(p, s, o, on),
           NEW e \in Peer, Same(p, e, s, o)
    PROVE  Replies(p, Concede(e, s, o), s, o, on, yes)
<1> DEFINE q == Concede(e, s, o)
           m == p.opt[s][o]
<1>1. /\ Only(e, q, s, o) /\ q \in Peer
      /\ q.opt[s][o] = [state |-> e.opt[s][o].state, want |-> FALSE,
                        resp |-> e.opt[s][o].resp]
      /\ IF e.opt[s][o].state THEN Says(e.out, q.out, s, o, FALSE)
                              ELSE q.out = e.out
  BY ConcedeOnly
<1> HIDE DEF q
<1>3. p.out \in Seq(Message) /\ e.out \in Seq(Message) /\ q.out \in Seq(Message)
  BY <1>1, OutType
<1>4. e.opt[s][o] = m /\ Grows(p.out, e.out, s, o) /\ m \in Machine
  BY MachineType DEF Same
<1>5. PICK w : w = FALSE
  OBVIOUS
<1>6. IF m.state THEN Says(p.out, q.out, s, o, w) ELSE Grows(p.out, q.out, s, o)
  BY <1>1, <1>3, <1>4, <1>5, GrowsSays
<1>7. q.opt[s][o] = [state |-> m.state, want |-> FALSE, resp |-> m.resp]
  BY <1>1, <1>4 DEF Machine
<1>8. Replies(p, q, s, o, on, yes)
  <2>1. (on /\ yes) = w /\ on = FALSE
    BY <1>5
  <2> QED BY <1>5, <1>6, <1>7, <2>1 DEF Replies
<1> QED BY <1>8 DEF q

\* The same, with nothing done to other options.
LEMMA ConcedeReplies ==
    ASSUME NEW p \in Peer, NEW s \in Sides, NEW o \in Options, NEW on \in BOOLEAN,
           NEW yes \in BOOLEAN, ~on, Asked(p, s, o, on),
           NEW e \in Peer, Only(p, e, s, o), Same(p, e, s, o)
    PROVE  Only(p, Concede(e, s, o), s, o) /\ Replies(p, Concede(e, s, o), s, o, on, yes)
<1> DEFINE q == Concede(e, s, o)
<1>1. Only(e, q, s, o)
  BY ConcedeOnly
<1>2. Replies(p, q, s, o, on, yes)
  BY ConcedeTells
<1> HIDE DEF q
<1>3. Only(p, q, s, o)
  BY <1>1, OnlyTrans
<1> QED BY <1>2, <1>3 DEF q

\* A message that is only an answer is not replied to.
LEMMA QuietReplies ==
    ASSUME NEW p \in Peer, NEW s \in Sides, NEW o \in Options, NEW on \in BOOLEAN,
           NEW yes \in BOOLEAN, ~Asked(p, s, o, on)
    PROVE  Only(p, p, s, o) /\ Replies(p, p, s, o, on, yes)
BY OnlyItself, SameItself DEF Replies

-----------------------------------------------------------------------------
(* The server's handlers.                                                  *)

\* An update of one option keeps the type of a peer.
LEMMA OnlyPeer ==
    ASSUME NEW p, NEW q, NEW s, NEW o, Only(p, q, s, o)
    PROVE  q \in Peer /\ (p \in Client => q \in Client) /\ (p \in Server => q \in Server)
BY DEF Only, Typed

\* The list of encryption types is about no option: it is a subnegotiation.
LEMMA SendSupportOnly ==
    ASSUME NEW p \in Peer, "ENCRYPT" \in Options, NEW s, NEW o
    PROVE  LET q == SendSupport(p)
           IN  /\ Only(p, q, s, o)
               /\ q \in Peer
               /\ \A t \in Sides, x \in Options : Same(p, q, t, x)
<1> DEFINE e == [p EXCEPT !.supported = FALSE]
           q == Sub(e, "ENCRYPT")
<1>0. /\ e.opt = p.opt /\ e.out = p.out /\ e.todo = p.todo
      /\ p \in Client => e \in Client
      /\ p \in Server => e \in Server /\ e.phase = p.phase /\ e.istrip = p.istrip
  BY DEF Client, Server, Peer
<1> HIDE DEF e
<1>1. Only(p, e, s, o) /\ \A t, x : Same(p, e, t, x)
  BY <1>0, FieldOnly DEF Typed, Peer
<1>2. e \in Peer
  BY <1>1, OnlyPeer
<1>3. Only(e, q, s, o) /\ q \in Peer /\ \A t \in Sides, y \in Options : Same(e, q, t, y)
  BY <1>2, SubOnly
<1>4. SendSupport(p) = IF p.supported THEN q ELSE p
  BY DEF SendSupport, e
<1> HIDE DEF q
<1>5. Only(p, q, s, o) /\ \A t \in Sides, y \in Options : Same(p, q, t, y)
  BY <1>1, <1>2, <1>3, OnlyTrans, SameTrans
<1> QED BY <1>3, <1>4, <1>5, OnlyItself, SameItself

\* A field of the server's that concerns this option only.
LEMMA ServerFieldOnly ==
    ASSUME NEW p \in Server, NEW q \in Server, q.opt = p.opt, q.out = p.out,
           q.todo = p.todo, NEW s, NEW o, q.phase \in {p.phase, "exit"},
           ~(s = "do" /\ o = "BINARY") => q.istrip = p.istrip
    PROVE  Only(p, q, s, o) /\ \A t, x : Same(p, q, t, x)
BY Kinds, FieldOnly DEF Typed, Peer

\* The input modes of the pty are changed with no message and no machine.
LEMMA PtyInOnly ==
    ASSUME NEW p \in Server, NEW o
    PROVE  LET q == PtyIn(p, o)
           IN  q \in Server /\ Only(p, q, "do", o) /\ Same(p, q, "do", o)
<1> DEFINE q == PtyIn(p, o)
<1>1. /\ q \in Server /\ q.opt = p.opt /\ q.out = p.out /\ q.todo = p.todo
      /\ q.phase = p.phase /\ (o # "BINARY" => q.istrip = p.istrip)
  BY DEF PtyIn, Server
<1> HIDE DEF q
<1> QED BY <1>1, ServerFieldOnly DEF q

\* Nor does what the server does when the client has turned an option off.
LEMMA TurnedOffOnly ==
    ASSUME NEW p \in Server, NEW o
    PROVE  LET q == TurnedOff(p, o)
           IN  q \in Server /\ Only(p, q, "do", o) /\ Same(p, q, "do", o)
<1> DEFINE q == TurnedOff(p, o)
<1>1. /\ q \in Server /\ q.opt = p.opt /\ q.out = p.out /\ q.todo = p.todo
      /\ q.phase = p.phase /\ (o # "BINARY" => q.istrip = p.istrip)
  <2>1. CASE o \in SubOptions
    <3>1. q = [p EXCEPT !.got = p.got \cup {o}]
      BY <2>1 DEF TurnedOff, SubOptions
    <3>2. p.got \cup {o} \in SUBSET SubOptions
      BY <2>1 DEF Server
    <3> QED BY <3>1, <3>2 DEF Server
  <2>2. CASE o \notin SubOptions
    BY <2>2 DEF TurnedOff, Server
  <2> QED BY <2>1, <2>2
<1> HIDE DEF q
<1> QED BY <1>1, ServerFieldOnly DEF q

\* The output modes of the pty are changed with no message and no machine.
LEMMA PtyOutOnly ==
    ASSUME NEW p \in Server, NEW o, NEW on \in BOOLEAN
    PROVE  LET q == PtyOut(p, o, on)
           IN  q \in Server /\ Only(p, q, "will", o) /\ Same(p, q, "will", o)
<1> DEFINE q == PtyOut(p, o, on)
<1>1. /\ q \in Server /\ q.opt = p.opt /\ q.out = p.out /\ q.todo = p.todo
      /\ q.phase = p.phase /\ q.istrip = p.istrip
  BY DEF PtyOut, Server
<1> HIDE DEF q
<1> QED BY <1>1, ServerFieldOnly DEF q

\* The server's willoption() takes a WILL.
LEMMA SrvWillTaken ==
    ASSUME NEW p0 \in Server, NEW o \in Options
    PROVE  LET z == SrvWillOption(p0, o)
           IN  /\ Only(p0, z, "do", o)
               /\ o \notin {"TM", "ECHO"} => Taken(p0, z, "do", o, TRUE, o \in SrvWillOk)
<1> DEFINE p == Answered(p0, "do", o, TRUE)
           q == CASE Asked(p, "do", o, TRUE) /\ o \in SrvWillOk ->
                         Accept(PtyIn(p, o), "do", o)
                  [] Asked(p, "do", o, TRUE) /\ o \notin SrvWillOk ->
                         Refuse(p, "do", o)
                  [] Confirmed(p, "do", o, TRUE) /\ o = "ECHO" ->
                         Request(p, "do", o, FALSE)
                  [] OTHER -> p
           r == SetState(q, "do", o, TRUE)
           z == SrvWillOption(p0, o)
           yes == o \in SrvWillOk
<1> "do" \in Sides BY DEF Sides
<1>0. p0 \in Peer /\ yes \in BOOLEAN /\ TRUE \in BOOLEAN
  BY DEF Peer
<1>1. Only(p0, p, "do", o) /\ p \in Peer /\ p \in Server
  BY <1>0, AnsweredOnly, OnlyPeer
<1>2. z = CASE Asked(p, "do", o, TRUE) /\ o = "TM" -> p
            [] p.opt["do"][o].resp = 0 /\ o = "ECHO" -> [r EXCEPT !.not42 = FALSE]
            [] p.opt["do"][o].resp = 0 /\ o = "AUTHENTICATION" -> Sub(r, o)
            [] p.opt["do"][o].resp = 0 /\ o = "ENCRYPT" -> SendSupport(r)
            [] Confirmed(p, "do", o, TRUE) /\ o = "LFLOW" -> Sub(r, o)
            [] OTHER -> r
  BY DEF SrvWillOption
<1>3. Only(p, q, "do", o) /\ (o # "ECHO" => Replies(p, q, "do", o, TRUE, yes))
  <2> HIDE DEF p
  <2>0. ~(Asked(p, "do", o, TRUE) /\ Confirmed(p, "do", o, TRUE))
    BY DEF Asked, Confirmed
  <2>1. CASE Asked(p, "do", o, TRUE) /\ o \in SrvWillOk
    <3>1. /\ PtyIn(p, o) \in Server
          /\ Only(p, PtyIn(p, o), "do", o)
          /\ Same(p, PtyIn(p, o), "do", o)
      BY <1>1, PtyInOnly
    <3>2. PtyIn(p, o) \in Peer
      BY <3>1 DEF Peer
    <3>3. q = Accept(PtyIn(p, o), "do", o)
      BY <2>0, <2>1
    <3>4. yes
      BY <2>1
    <3> HIDE DEF q, yes
    <3>5. /\ Only(p, Accept(PtyIn(p, o), "do", o), "do", o)
          /\ Replies(p, Accept(PtyIn(p, o), "do", o), "do", o, TRUE, yes)
      BY <1>0, <1>1, <2>1, <3>1, <3>2, <3>4, AcceptReplies
    <3> QED BY <3>3, <3>5
  <2>2. CASE Asked(p, "do", o, TRUE) /\ o \notin SrvWillOk
    <3>1. q = Refuse(p, "do", o) /\ ~yes
      BY <2>0, <2>2
    <3> HIDE DEF q, yes
    <3>2. /\ Only(p, Refuse(p, "do", o), "do", o)
          /\ Replies(p, Refuse(p, "do", o), "do", o, TRUE, yes)
      BY <1>0, <1>1, <2>2, <3>1, RefuseReplies
    <3> QED BY <3>1, <3>2
  <2>3. CASE ~Asked(p, "do", o, TRUE) /\ Confirmed(p, "do", o, TRUE) /\ o = "ECHO"
    <3>1. q = Request(p, "do", o, FALSE)
      BY <2>3
    <3>2. FALSE \in BOOLEAN
      OBVIOUS
    <3> HIDE DEF q
    <3> QED BY <1>1, <2>3, <3>1, <3>2, RequestAsks
  <2>4. CASE ~Asked(p, "do", o, TRUE) /\ ~(Confirmed(p, "do", o, TRUE) /\ o = "ECHO")
    <3>1. q = p
      BY <2>4
    <3> HIDE DEF q, yes
    <3> QED BY <1>0, <1>1, <2>4, <3>1, QuietReplies
  <2> QED BY <2>1, <2>2, <2>3, <2>4
<1> HIDE DEF q
<1>4. q \in Peer /\ q \in Server
  BY <1>1, <1>3, OnlyPeer
<1>5. Only(p0, r, "do", o) /\ r \in Peer /\ r \in Server
  <2>1. Only(q, r, "do", o)
    BY <1>0, <1>4, SetStateOnly
  <2> HIDE DEF r
  <2>2. Only(p0, r, "do", o)
    BY <1>0, <1>1, <1>3, <1>4, <2>1, OnlyTrans
  <2> QED BY <2>2, OnlyPeer
<1>6. o \notin {"TM", "ECHO"} => Taken(p0, r, "do", o, TRUE, yes)
  <2> HIDE DEF yes
  <2> QED BY <1>0, <1>3, RepliesTaken
<1> HIDE DEF p, r
<1> HIDE DEF z, yes
<1>7. /\ Only(p0, z, "do", o)
      /\ o \notin {"TM", "ECHO"} => Taken(p0, z, "do", o, TRUE, yes)
  <2>1. CASE Asked(p, "do", o, TRUE) /\ o = "TM"
    BY <1>1, <1>2, <2>1
  <2>2. CASE z = r
    BY <1>5, <1>6, <2>2
  <2>3. CASE o = "ECHO" /\ z = [r EXCEPT !.not42 = FALSE]
    <3>1. z \in Server /\ z.opt = r.opt /\ z.out = r.out /\ z.todo = r.todo
          /\ z.phase = r.phase /\ z.istrip = r.istrip
      BY <1>5, <2>3 DEF Server
    <3>2. Only(r, z, "do", o)
      BY <1>5, <3>1, ServerFieldOnly
    <3> QED BY <1>0, <1>5, <2>3, <3>2, OnlyTrans
  <2>4. CASE z = Sub(r, o) \/ (o = "ENCRYPT" /\ z = SendSupport(r))
    <3>1. /\ Only(r, z, "do", o)
          /\ z \in Peer
          /\ \A t \in Sides, x \in Options : Same(r, z, t, x)
      BY <1>5, <2>4, SubOnly, SendSupportOnly
    <3>2. Only(p0, z, "do", o)
      BY <1>0, <1>5, <3>1, OnlyTrans
    <3>3. Taken(p0, r, "do", o, TRUE, yes) => Taken(p0, z, "do", o, TRUE, yes)
      BY <1>0, <1>5, <3>1, TakenSame
    <3> QED BY <1>6, <3>2, <3>3
  <2>5. \/ Asked(p, "do", o, TRUE) /\ o = "TM"
        \/ z = r
        \/ o = "ECHO" /\ z = [r EXCEPT !.not42 = FALSE]
        \/ z = Sub(r, o)
        \/ o = "ENCRYPT" /\ z = SendSupport(r)
    BY <1>2
  <2> QED BY <2>1, <2>2, <2>3, <2>4, <2>5
<1> QED BY <1>7 DEF z, yes

\* The server's wontoption() takes a WONT.
LEMMA SrvWontTaken ==
    ASSUME NEW p0 \in Server, NEW o \in Options, NEW yes \in BOOLEAN
    PROVE  LET z == SrvWontOption(p0, o)
           IN  /\ Only(p0, z, "do", o)
               /\ o # "TM" => Taken(p0, z, "do", o, FALSE, yes)
<1> DEFINE p == Answered(p0, "do", o, FALSE)
           a == Asked(p, "do", o, FALSE)
           t == TurnedOff(p, o)
           q == IF a THEN Concede(t, "do", o) ELSE p
           r == SetState(q, "do", o, FALSE)
           w == SetWant(p, "do", o, FALSE)
           z == SrvWontOption(p0, o)
<1> "do" \in Sides BY DEF Sides
<1>0. p0 \in Peer /\ FALSE \in BOOLEAN
  BY DEF Peer
<1>1. Only(p0, p, "do", o) /\ p \in Peer /\ p \in Server
  BY <1>0, AnsweredOnly, OnlyPeer
<1>2. z = IF o = "TM" /\ a THEN w ELSE r
  BY DEF SrvWontOption
<1>3. Only(p, q, "do", o) /\ Replies(p, q, "do", o, FALSE, yes)
  <2> HIDE DEF p
  <2>1. CASE a
    <3>1. t \in Server /\ Only(p, t, "do", o) /\ Same(p, t, "do", o)
      BY <1>1, TurnedOffOnly
    <3>2. t \in Peer
      BY <3>1 DEF Peer
    <3> HIDE DEF t
    <3>3. /\ Only(p, Concede(t, "do", o), "do", o)
          /\ Replies(p, Concede(t, "do", o), "do", o, FALSE, yes)
      BY <1>0, <1>1, <2>1, <3>1, <3>2, ConcedeReplies
    <3> QED BY <2>1, <3>3
  <2>2. CASE ~a
    BY <1>0, <1>1, <2>2, QuietReplies
  <2> QED BY <2>1, <2>2
<1>4. Only(p0, r, "do", o) /\ Taken(p0, r, "do", o, FALSE, yes)
  <2> HIDE DEF q
  <2> QED BY <1>0, <1>3, RepliesTaken
<1> HIDE DEF p, q, r
<1>5. Only(p0, w, "do", o)
  BY <1>0, <1>1, SetWantOnly, OnlyTrans
<1> HIDE DEF w, a, z
<1>6. Only(p0, z, "do", o) /\ (o # "TM" => Taken(p0, z, "do", o, FALSE, yes))
  BY <1>2, <1>4, <1>5
<1> QED BY <1>6 DEF z

\* TM is put back, whichever side it is on.
LEMMA MarkOnly ==
    ASSUME NEW p \in Peer, NEW s \in Sides, NEW o \in Options
    PROVE  Only(p, Mark(p, s, o), s, o)
<1> DEFINE w == SetWant(p, s, o, FALSE)
           z == SetState(w, s, o, FALSE)
<1>1. Only(p, w, s, o) /\ w \in Peer
  BY SetWantOnly
<1> HIDE DEF w
<1>2. Only(w, z, s, o)
  BY <1>1, SetStateOnly
<1> HIDE DEF z
<1>3. Only(p, z, s, o)
  BY <1>1, <1>2, OnlyTrans
<1> QED BY <1>3 DEF Mark, w, z

\* TM is answered and left off, which is about TM only.
LEMMA WriteMarkOnly ==
    ASSUME NEW p \in Peer, NEW s \in Sides, NEW o \in Options, NEW on \in BOOLEAN
    PROVE  Only(p, Mark(Write(p, s, o, on), s, o), s, o)
<1> DEFINE w == Write(p, s, o, on)
<1>1. Only(p, w, s, o) /\ w \in Peer
  BY WriteOnly
<1> HIDE DEF w
<1>2. Only(p, Mark(w, s, o), s, o)
  BY <1>1, MarkOnly, OnlyTrans
<1> QED BY <1>2 DEF w

\* The server's dooption() takes a DO.
LEMMA SrvDoTaken ==
    ASSUME NEW p0 \in Server, NEW o \in Options
    PROVE  LET z == SrvDoOption(p0, o)
           IN  /\ Only(p0, z, "will", o)
               /\ o # "TM" => Taken(p0, z, "will", o, TRUE, o \in SrvDoOk \cup {"LOGOUT"})
<1> DEFINE p == Answered(p0, "will", o, TRUE)
           a == Asked(p, "will", o, TRUE)
           e == [p EXCEPT !.phase = "exit"]
           q == CASE a /\ o = "LOGOUT" -> Accept(e, "will", o)
                  [] a /\ o \in SrvDoOk -> Accept(PtyOut(p, o, TRUE), "will", o)
                  [] a /\ o \notin SrvDoOk \cup {"LOGOUT"} -> Refuse(p, "will", o)
                  [] OTHER -> p
           r == SetState(q, "will", o, TRUE)
           m == Mark(Write(p, "will", o, TRUE), "will", o)
           z == SrvDoOption(p0, o)
           yes == o \in SrvDoOk \cup {"LOGOUT"}
<1> "will" \in Sides BY DEF Sides
<1>0. p0 \in Peer /\ yes \in BOOLEAN /\ TRUE \in BOOLEAN
  BY DEF Peer
<1>1. Only(p0, p, "will", o) /\ p \in Peer /\ p \in Server
  BY <1>0, AnsweredOnly, OnlyPeer
<1>2. z = IF a /\ o = "TM" THEN m ELSE r
  BY DEF SrvDoOption
<1>3. Only(p, q, "will", o) /\ Replies(p, q, "will", o, TRUE, yes)
  <2> HIDE DEF p
  <2>0. "LOGOUT" \notin SrvDoOk
    BY DEF SrvDoOk
  <2>1. CASE a /\ o = "LOGOUT"
    <3>1. e \in Server /\ e.opt = p.opt /\ e.out = p.out /\ e.todo = p.todo
          /\ e.phase = "exit" /\ e.istrip = p.istrip
      BY <1>1 DEF Server, Phases
    <3> HIDE DEF e
    <3>2. e \in Peer /\ Only(p, e, "will", o) /\ Same(p, e, "will", o)
      BY <1>1, <3>1, ServerFieldOnly DEF Peer
    <3>3. q = Accept(e, "will", o) /\ yes
      BY <2>0, <2>1
    <3> HIDE DEF q, yes
    <3>4. /\ Only(p, Accept(e, "will", o), "will", o)
          /\ Replies(p, Accept(e, "will", o), "will", o, TRUE, yes)
      BY <1>0, <1>1, <2>1, <3>2, <3>3, AcceptReplies
    <3> QED BY <3>3, <3>4
  <2>2. CASE a /\ o \in SrvDoOk
    <3> DEFINE f == PtyOut(p, o, TRUE)
    <3>1. f \in Server /\ Only(p, f, "will", o) /\ Same(p, f, "will", o)
      BY <1>0, <1>1, PtyOutOnly
    <3>3. q = Accept(f, "will", o) /\ yes
      BY <2>0, <2>2
    <3> HIDE DEF q, f, yes
    <3>2. f \in Peer
      BY <3>1 DEF Peer
    <3>4. /\ Only(p, Accept(f, "will", o), "will", o)
          /\ Replies(p, Accept(f, "will", o), "will", o, TRUE, yes)
      BY <1>0, <1>1, <2>2, <3>1, <3>2, <3>3, AcceptReplies
    <3> QED BY <3>3, <3>4
  <2>3. CASE a /\ o \notin SrvDoOk \cup {"LOGOUT"}
    <3>1. q = Refuse(p, "will", o) /\ ~yes
      BY <2>3
    <3> HIDE DEF q, yes
    <3>2. /\ Only(p, Refuse(p, "will", o), "will", o)
          /\ Replies(p, Refuse(p, "will", o), "will", o, TRUE, yes)
      BY <1>0, <1>1, <2>3, <3>1, RefuseReplies
    <3> QED BY <3>1, <3>2
  <2>4. CASE ~a
    <3>1. q = p
      BY <2>4
    <3> HIDE DEF q, yes
    <3> QED BY <1>0, <1>1, <2>4, <3>1, QuietReplies
  <2> QED BY <2>1, <2>2, <2>3, <2>4
<1>4. Only(p0, r, "will", o) /\ Taken(p0, r, "will", o, TRUE, yes)
  <2> HIDE DEF q, yes
  <2> QED BY <1>0, <1>3, RepliesTaken
<1> HIDE DEF p, q, r
<1>5. Only(p0, m, "will", o)
  BY <1>0, <1>1, WriteMarkOnly, OnlyTrans
<1> HIDE DEF m, a, z, yes
<1>6. Only(p0, z, "will", o) /\ (o # "TM" => Taken(p0, z, "will", o, TRUE, yes))
  BY <1>2, <1>4, <1>5
<1> QED BY <1>6 DEF z, yes

\* The server's dontoption() takes a DONT, and may ask for SGA again.
LEMMA SrvDontTaken ==
    ASSUME NEW p0 \in Server, NEW o \in Options, NEW yes \in BOOLEAN
    PROVE  LET z == SrvDontOption(p0, o)
           IN  /\ Only(p0, z, "will", o)
               /\ \E r \in Server :
                     /\ Taken(p0, r, "will", o, FALSE, yes)
                     /\ IF o = "SGA" THEN Wishes(r, z, "will", o) ELSE z = r
<1> DEFINE p == Answered(p0, "will", o, FALSE)
           a == Asked(p, "will", o, FALSE)
           t == PtyOut(p, o, FALSE)
           q == IF a THEN Concede(t, "will", o) ELSE p
           r == SetState(q, "will", o, FALSE)
           b == o = "SGA" /\ a /\ ~p.turnOnSga
           z == SrvDontOption(p0, o)
<1> "will" \in Sides BY DEF Sides
<1>0. p0 \in Peer /\ FALSE \in BOOLEAN /\ TRUE \in BOOLEAN
  BY DEF Peer
<1>1. Only(p0, p, "will", o) /\ p \in Peer /\ p \in Server
  BY <1>0, AnsweredOnly, OnlyPeer
<1>2. z = IF b THEN Request(r, "will", o, TRUE) ELSE r
  BY DEF SrvDontOption
<1>3. Only(p, q, "will", o) /\ Replies(p, q, "will", o, FALSE, yes)
  <2> HIDE DEF p
  <2>1. CASE a
    <3>1. t \in Server /\ Only(p, t, "will", o) /\ Same(p, t, "will", o)
      BY <1>0, <1>1, PtyOutOnly
    <3>2. t \in Peer
      BY <3>1 DEF Peer
    <3> HIDE DEF t
    <3>3. /\ Only(p, Concede(t, "will", o), "will", o)
          /\ Replies(p, Concede(t, "will", o), "will", o, FALSE, yes)
      BY <1>0, <1>1, <2>1, <3>1, <3>2, ConcedeReplies
    <3> QED BY <2>1, <3>3
  <2>2. CASE ~a
    BY <1>0, <1>1, <2>2, QuietReplies
  <2> QED BY <2>1, <2>2
<1>4. Only(p0, r, "will", o) /\ Taken(p0, r, "will", o, FALSE, yes)
  <2> HIDE DEF q
  <2> QED BY <1>0, <1>3, RepliesTaken
<1> HIDE DEF p, q, r, a
<1>5. r \in Server /\ r \in Peer
  BY <1>4, OnlyPeer
<1>6. LET n == Request(r, "will", o, TRUE)
      IN  Only(r, n, "will", o) /\ Wishes(r, n, "will", o)
  BY <1>0, <1>5, RequestAsks
<1>7. Only(p0, Request(r, "will", o, TRUE), "will", o)
  BY <1>0, <1>4, <1>5, <1>6, OnlyTrans
<1>8. Wishes(r, r, "will", o)
  BY <1>5, OutType, GrowsItself DEF Wishes, Asks
<1>9. b => o = "SGA"
  OBVIOUS
<1> HIDE DEF z, b
<1>10. /\ Only(p0, z, "will", o)
       /\ IF o = "SGA" THEN Wishes(r, z, "will", o) ELSE z = r
  BY <1>2, <1>4, <1>6, <1>7, <1>8, <1>9
<1> QED BY <1>4, <1>5, <1>10 DEF z

\* The server's suboption() says nothing.
LEMMA SrvSubOnly ==
    ASSUME NEW p \in Server, NEW o \in Options, NEW s, NEW x
    PROVE  LET z == SrvSubOption(p, o)
           IN  Only(p, z, s, x) /\ \A t, y : Same(p, z, t, y)
<1> DEFINE z == SrvSubOption(p, o)
           e == [p EXCEPT !.phase = "exit"]
           g == [p EXCEPT !.got = p.got \cup {o}]
<1>1. z = p \/ z = e \/ (o \in SubOptions /\ z = g)
  BY DEF SrvSubOption
<1>2. e \in Server /\ e.opt = p.opt /\ e.out = p.out /\ e.todo = p.todo
      /\ e.phase = "exit" /\ e.istrip = p.istrip
  BY DEF Server, Phases
<1>3. o \in SubOptions =>
      g \in Server /\ g.opt = p.opt /\ g.out = p.out /\ g.todo = p.todo
      /\ g.phase = p.phase /\ g.istrip = p.istrip
  <2> SUFFICES ASSUME o \in SubOptions PROVE
      g \in Server /\ g.opt = p.opt /\ g.out = p.out /\ g.todo = p.todo
      /\ g.phase = p.phase /\ g.istrip = p.istrip
    OBVIOUS
  <2>1. p.got \cup {o} \in SUBSET SubOptions
    BY DEF Server
  <2> QED BY <2>1 DEF Server
<1> HIDE DEF e, g, z
<1>4. Only(p, z, s, x) /\ \A t, y : Same(p, z, t, y)
  BY <1>1, <1>2, <1>3, ServerFieldOnly
<1> QED BY <1>4 DEF z

-----------------------------------------------------------------------------
(* The client's handlers.                                                  *)

\* To leave an option alone is to ask for nothing, and may come before or after.
LEMMA WishesSame ==
    ASSUME NEW p \in Peer, NEW q \in Peer, NEW r \in Peer, NEW s, NEW o
    PROVE  /\ Same(p, q, s, o) => Wishes(p, q, s, o)
           /\ Same(p, q, s, o) /\ Wishes(q, r, s, o) => Wishes(p, r, s, o)
           /\ Wishes(p, q, s, o) /\ Same(q, r, s, o) => Wishes(p, r, s, o)
<1>1. p.out \in Seq(Message) /\ q.out \in Seq(Message) /\ r.out \in Seq(Message)
  BY OutType
<1>2. Same(p, q, s, o) => Wishes(p, q, s, o)
  BY DEF Same, Wishes, Asks
<1>3. ASSUME Same(p, q, s, o), Wishes(q, r, s, o) PROVE Wishes(p, r, s, o)
  <2>1. q.opt[s][o] = p.opt[s][o] /\ Grows(p.out, q.out, s, o)
    BY <1>3 DEF Same
  <2>2. Asks(p.opt[s][o], r.opt[s][o], q.out, r.out, s, o)
    BY <1>3, <2>1 DEF Wishes
  <2>3. Grows(q.out, r.out, s, o) => Grows(p.out, r.out, s, o)
    BY <1>1, <2>1, GrowsTrans
  <2>4. \A on \in BOOLEAN : Says(q.out, r.out, s, o, on) => Says(p.out, r.out, s, o, on)
    BY <1>1, <2>1, GrowsSays
  <2> QED BY <2>2, <2>3, <2>4 DEF Asks, Wishes
<1>4. ASSUME Wishes(p, q, s, o), Same(q, r, s, o) PROVE Wishes(p, r, s, o)
  <2>1. q.opt[s][o] = r.opt[s][o] /\ Grows(q.out, r.out, s, o)
    BY <1>4 DEF Same
  <2>2. Asks(p.opt[s][o], r.opt[s][o], p.out, q.out, s, o)
    BY <1>4, <2>1 DEF Wishes
  <2>3. Grows(p.out, q.out, s, o) => Grows(p.out, r.out, s, o)
    BY <1>1, <2>1, GrowsTrans
  <2>4. \A on \in BOOLEAN : Says(p.out, q.out, s, o, on) => Says(p.out, r.out, s, o, on)
    BY <1>1, <2>1, SaysGrows
  <2> QED BY <2>2, <2>3, <2>4 DEF Asks, Wishes
<1> QED BY <1>2, <1>3, <1>4

\* Only, but OLD_ENVIRON may be asked for as well.
Along(p, q, s, o) ==
    /\ Typed(p, q) /\ q.todo = p.todo
    /\ \A t \in Sides, x \in Options : ~(t = s /\ x = o) =>
          /\ Wishes(p, q, t, x)
          /\ ~(t = "will" /\ x = "OLD_ENVIRON") => Same(p, q, t, x)

\* An update of one option only does not ask for OLD_ENVIRON.
LEMMA OnlyAlong ==
    ASSUME NEW p \in Peer, NEW q, NEW s, NEW o, Only(p, q, s, o)
    PROVE  Along(p, q, s, o)
<1>1. q \in Peer
  BY OnlyPeer
<1> QED BY <1>1, WishesSame DEF Only, Along

\* An update of one option, a request about OLD_ENVIRON, and the rest of the update.
LEMMA EnvironAlong ==
    ASSUME NEW p \in Peer, NEW q, NEW r, NEW z, NEW s, NEW o, o # "OLD_ENVIRON",
           Only(p, q, s, o), Only(q, r, "will", "OLD_ENVIRON"),
           Wishes(q, r, "will", "OLD_ENVIRON"), Only(r, z, s, o)
    PROVE  Along(p, z, s, o)
<1>1. q \in Peer /\ r \in Peer /\ z \in Peer
  BY OnlyPeer
<1>2. Typed(p, z) /\ z.todo = p.todo
  BY <1>1 DEF Only, Typed, Peer
<1>3. ASSUME NEW t \in Sides, NEW x \in Options, ~(t = s /\ x = o)
      PROVE  /\ Wishes(p, z, t, x)
             /\ ~(t = "will" /\ x = "OLD_ENVIRON") => Same(p, z, t, x)
  <2>1. Same(p, q, t, x) /\ Same(r, z, t, x)
    BY <1>3 DEF Only
  <2>2. ~(t = "will" /\ x = "OLD_ENVIRON") => Same(q, r, t, x)
    BY <1>3 DEF Only
  <2>3. ~(t = "will" /\ x = "OLD_ENVIRON") => Same(p, z, t, x)
    BY <1>1, <2>1, <2>2, SameTrans
  <2>4. Wishes(q, r, t, x)
    BY <1>1, <2>2, WishesSame
  <2>5. Wishes(p, z, t, x)
    BY <1>1, <2>1, <2>4, WishesSame
  <2> QED BY <2>3, <2>5
<1> QED BY <1>2, <1>3 DEF Along

\* A field of the client's.
LEMMA ClientFieldOnly ==
    ASSUME NEW p \in Client, NEW q \in Client, q.opt = p.opt, q.out = p.out,
           q.todo = p.todo, NEW s, NEW o
    PROVE  Only(p, q, s, o) /\ \A t, x : Same(p, q, t, x)
BY Kinds, FieldOnly DEF Typed, Peer

\* Choosing the environment option's name, and showing output again.
LEMMA EnvironOnly ==
    ASSUME NEW p \in Client, NEW e \in {"NEW_ENVIRON", "OLD_ENVIRON"}, NEW s, NEW o
    PROVE  LET q == [p EXCEPT !.environ = e]
           IN  q \in Client /\ Only(p, q, s, o) /\ \A t, x : Same(p, q, t, x)
<1> DEFINE q == [p EXCEPT !.environ = e]
<1>1. q \in Client /\ q.opt = p.opt /\ q.out = p.out /\ q.todo = p.todo
  BY DEF Client
<1> HIDE DEF q
<1> QED BY <1>1, ClientFieldOnly DEF q

\* To stop flushing is about no option.
LEMMA StopFlushingOnly ==
    ASSUME NEW p \in Client, NEW s, NEW o
    PROVE  LET q == StopFlushing(p)
           IN  q \in Client /\ Only(p, q, s, o) /\ \A t, x : Same(p, q, t, x)
<1> DEFINE q == StopFlushing(p)
<1>1. q \in Client /\ q.opt = p.opt /\ q.out = p.out /\ q.todo = p.todo
  BY DEF Client, StopFlushing
<1> HIDE DEF q
<1> QED BY <1>1, ClientFieldOnly DEF q

\* The client's willoption() takes a WILL.
LEMMA CliWillTaken ==
    ASSUME NEW p0 \in Client, NEW o \in Options
    PROVE  LET z == CliWillOption(p0, o)
           IN  /\ Only(p0, z, "do", o)
               /\ o # "TM" => Taken(p0, z, "do", o, TRUE, o \in CliWillOk)
<1> DEFINE p == Answered(p0, "do", o, TRUE)
           a == Asked(p, "do", o, TRUE)
           q == CASE ~a -> p
                  [] a /\ o \in CliWillOk -> Accept(p, "do", o)
                  [] OTHER -> Refuse(p, "do", o)
           r == SetState(q, "do", o, TRUE)
           f == StopFlushing(p)
           m == Mark(f, "do", o)
           z == CliWillOption(p0, o)
           yes == o \in CliWillOk
<1> "do" \in Sides BY DEF Sides
<1>0. p0 \in Peer /\ yes \in BOOLEAN /\ TRUE \in BOOLEAN
  BY DEF Peer
<1>1. Only(p0, p, "do", o) /\ p \in Peer /\ p \in Client
  BY <1>0, AnsweredOnly, OnlyPeer
<1>2. z = CASE a /\ o = "TM" -> m
            [] o = "ENCRYPT" -> SendSupport(r)
            [] OTHER -> r
  BY DEF CliWillOption
<1>3. Only(p, q, "do", o) /\ Replies(p, q, "do", o, TRUE, yes)
  <2> HIDE DEF p
  <2>1. CASE a /\ o \in CliWillOk
    <3>1. q = Accept(p, "do", o) /\ yes
      BY <2>1
    <3>2. Only(p, p, "do", o) /\ Same(p, p, "do", o)
      BY <1>1, OnlyItself, SameItself
    <3> HIDE DEF q, yes
    <3>3. /\ Only(p, Accept(p, "do", o), "do", o)
          /\ Replies(p, Accept(p, "do", o), "do", o, TRUE, yes)
      BY <1>0, <1>1, <2>1, <3>1, <3>2, AcceptReplies
    <3> QED BY <3>1, <3>3
  <2>2. CASE a /\ o \notin CliWillOk
    <3>1. q = Refuse(p, "do", o) /\ ~yes
      BY <2>2
    <3> HIDE DEF q, yes
    <3>2. /\ Only(p, Refuse(p, "do", o), "do", o)
          /\ Replies(p, Refuse(p, "do", o), "do", o, TRUE, yes)
      BY <1>0, <1>1, <2>2, <3>1, RefuseReplies
    <3> QED BY <3>1, <3>2
  <2>3. CASE ~a
    <3>1. q = p
      BY <2>3
    <3> HIDE DEF q, yes
    <3> QED BY <1>0, <1>1, <2>3, <3>1, QuietReplies
  <2> QED BY <2>1, <2>2, <2>3
<1>4. Only(p0, r, "do", o) /\ r \in Peer /\ Taken(p0, r, "do", o, TRUE, yes)
  <2> HIDE DEF q, yes
  <2> QED BY <1>0, <1>3, RepliesTaken
<1> HIDE DEF p, q, r
<1>5. Only(p0, m, "do", o)
  <2>1. Only(p, f, "do", o) /\ f \in Peer
    BY <1>1, StopFlushingOnly DEF Peer
  <2> HIDE DEF f
  <2>2. Only(f, m, "do", o)
    BY <2>1, MarkOnly
  <2> HIDE DEF m
  <2> QED BY <1>0, <1>1, <2>1, <2>2, OnlyTrans
<1>6. o = "ENCRYPT" => LET n == SendSupport(r)
                       IN  Only(p0, n, "do", o) /\ Taken(p0, n, "do", o, TRUE, yes)
  <2> SUFFICES ASSUME o = "ENCRYPT" PROVE LET n == SendSupport(r)
                       IN  Only(p0, n, "do", o) /\ Taken(p0, n, "do", o, TRUE, yes)
    OBVIOUS
  <2> DEFINE n == SendSupport(r)
  <2>1. Only(r, n, "do", o) /\ n \in Peer /\ Same(r, n, "do", o)
    BY <1>4, SendSupportOnly
  <2> HIDE DEF n, yes
  <2>2. Only(p0, n, "do", o) /\ Taken(p0, n, "do", o, TRUE, yes)
    BY <1>0, <1>4, <2>1, OnlyTrans, TakenSame
  <2> QED BY <2>2 DEF n
<1> HIDE DEF m, a, z, yes
<1>7. Only(p0, z, "do", o) /\ (o # "TM" => Taken(p0, z, "do", o, TRUE, yes))
  <2>1. \/ o = "TM" /\ z = m
        \/ o = "ENCRYPT" /\ z = SendSupport(r)
        \/ z = r
    BY <1>2
  <2> QED BY <1>4, <1>5, <1>6, <2>1
<1> QED BY <1>7 DEF z, yes

\* The client's wontoption() takes a WONT.
LEMMA CliWontTaken ==
    ASSUME NEW p0 \in Client, NEW o \in Options, NEW yes \in BOOLEAN
    PROVE  LET z == CliWontOption(p0, o)
           IN  /\ Only(p0, z, "do", o)
               /\ o # "TM" => Taken(p0, z, "do", o, FALSE, yes)
<1> DEFINE p == Answered(p0, "do", o, FALSE)
           a == Asked(p, "do", o, FALSE)
           f == StopFlushing(p)
           w == SetWant(f, "do", o, FALSE)
           q == CASE o = "TM" -> w
                  [] o # "TM" /\ a -> Concede(p, "do", o)
                  [] OTHER -> p
           z == CliWontOption(p0, o)
<1> "do" \in Sides BY DEF Sides
<1>0. p0 \in Peer /\ FALSE \in BOOLEAN
  BY DEF Peer
<1>1. Only(p0, p, "do", o) /\ p \in Peer /\ p \in Client
  BY <1>0, AnsweredOnly, OnlyPeer
<1>2. z = SetState(q, "do", o, FALSE)
  BY DEF CliWontOption
<1>3. Only(p, q, "do", o) /\ (o # "TM" => Replies(p, q, "do", o, FALSE, yes))
  <2> HIDE DEF p
  <2>1. CASE o = "TM"
    <3>1. q = w
      BY <2>1
    <3>2. Only(p, f, "do", o) /\ f \in Peer
      BY <1>1, StopFlushingOnly DEF Peer
    <3> HIDE DEF f, q
    <3>3. Only(f, w, "do", o)
      BY <1>0, <3>2, SetWantOnly
    <3> HIDE DEF w
    <3> QED BY <1>1, <2>1, <3>1, <3>2, <3>3, OnlyTrans
  <2>2. CASE o # "TM" /\ a
    <3>1. q = Concede(p, "do", o)
      BY <2>2
    <3>2. Only(p, p, "do", o) /\ Same(p, p, "do", o)
      BY <1>1, OnlyItself, SameItself
    <3> HIDE DEF q
    <3>3. /\ Only(p, Concede(p, "do", o), "do", o)
          /\ Replies(p, Concede(p, "do", o), "do", o, FALSE, yes)
      BY <1>0, <1>1, <2>2, <3>2, ConcedeReplies
    <3> QED BY <3>1, <3>3
  <2>3. CASE o # "TM" /\ ~a
    <3>1. q = p
      BY <2>3
    <3> HIDE DEF q
    <3> QED BY <1>0, <1>1, <2>3, <3>1, QuietReplies
  <2> QED BY <2>1, <2>2, <2>3
<1> HIDE DEF q
<1>4. Only(p0, SetState(q, "do", o, FALSE), "do", o)
  <2>1. q \in Peer
    BY <1>3, OnlyPeer
  <2>2. Only(q, SetState(q, "do", o, FALSE), "do", o)
    BY <1>0, <2>1, SetStateOnly
  <2> HIDE DEF p
  <2> QED BY <1>0, <1>1, <1>3, <2>1, <2>2, OnlyTrans
<1>5. o # "TM" => Taken(p0, SetState(q, "do", o, FALSE), "do", o, FALSE, yes)
  BY <1>0, <1>3, RepliesTaken
<1> QED BY <1>2, <1>4, <1>5

\* Accepting an environment option, or refusing it.
LEMMA AcceptOldEnvironReplies ==
    ASSUME NEW p \in Client, NEW o \in Options, o = "OLD_ENVIRON",
           NEW on \in BOOLEAN, on, Asked(p, "will", o, on)
    PROVE  LET q == AcceptOldEnviron(p)
           IN  /\ Only(p, q, "will", o)
               /\ \E yes \in BOOLEAN : Replies(p, q, "will", o, on, yes)
<1> DEFINE e == [p EXCEPT !.environ = "OLD_ENVIRON"]
           n == p.opt["will"]["NEW_ENVIRON"].state
<1>0. "will" \in Sides /\ p \in Peer /\ TRUE \in BOOLEAN /\ FALSE \in BOOLEAN
  BY DEF Sides, Peer
<1>1. e \in Client /\ Only(p, e, "will", o) /\ Same(p, e, "will", o)
  BY EnvironOnly
<1>2. AcceptOldEnviron(p) = IF n THEN Refuse(p, "will", o) ELSE Accept(e, "will", o)
  BY DEF AcceptOldEnviron
<1> HIDE DEF e, n
<1>3. e \in Peer
  BY <1>1 DEF Peer
<1>4. PICK y \in BOOLEAN : y
  BY <1>0
<1>5. PICK no \in BOOLEAN : ~no
  BY <1>0
<1>6. /\ Only(p, Accept(e, "will", o), "will", o)
      /\ Replies(p, Accept(e, "will", o), "will", o, on, y)
  BY <1>0, <1>1, <1>3, <1>4, AcceptReplies
<1>7. /\ Only(p, Refuse(p, "will", o), "will", o)
      /\ Replies(p, Refuse(p, "will", o), "will", o, on, no)
  BY <1>0, <1>5, RefuseReplies
<1> QED BY <1>2, <1>6, <1>7

\* Accepting NEW_ENVIRON takes back OLD_ENVIRON in between.
LEMMA AcceptNewEnvironReplies ==
    ASSUME NEW p \in Client, NEW o \in Options, o = "NEW_ENVIRON",
           NEW on \in BOOLEAN, on, Asked(p, "will", o, on), NEW yes \in BOOLEAN, yes
    PROVE  LET z == AcceptNewEnviron(p)
           IN  /\ Replies(p, z, "will", o, on, yes)
               /\ \E r : /\ Only(p, r, "will", "OLD_ENVIRON")
                         /\ Wishes(p, r, "will", "OLD_ENVIRON")
                         /\ Only(r, z, "will", o)
<1> DEFINE n == Request(p, "will", "OLD_ENVIRON", FALSE)
           r == IF p.opt["will"]["OLD_ENVIRON"].state THEN n ELSE p
           e == [r EXCEPT !.environ = "NEW_ENVIRON"]
           z == Accept(e, "will", o)
<1>0. "will" \in Sides /\ "OLD_ENVIRON" \in Options /\ p \in Peer /\ FALSE \in BOOLEAN
  BY OptionsAssumption DEF Sides, OptionsAssumption, Peer
<1>1. /\ Only(p, n, "will", "OLD_ENVIRON")
      /\ n \in Peer
      /\ Wishes(p, n, "will", "OLD_ENVIRON")
  BY <1>0, RequestAsks
<1>2. AcceptNewEnviron(p) = z
  BY DEF AcceptNewEnviron
<1> HIDE DEF n
<1>3. /\ Only(p, r, "will", "OLD_ENVIRON")
      /\ Wishes(p, r, "will", "OLD_ENVIRON")
      /\ r \in Client
  <2>1. Only(p, p, "will", "OLD_ENVIRON") /\ Wishes(p, p, "will", "OLD_ENVIRON")
    BY <1>0, OnlyItself, SameItself, WishesSame
  <2>2. n \in Client
    BY <1>1, OnlyPeer
  <2> QED BY <1>1, <2>1, <2>2
<1> HIDE DEF r
<1>4. e \in Client /\ Only(r, e, "will", o) /\ Same(r, e, "will", o)
  BY <1>3, EnvironOnly
<1> HIDE DEF e
<1>5. e \in Peer /\ r \in Peer
  BY <1>3, <1>4 DEF Peer
<1>6. Same(p, r, "will", o)
  BY <1>0, <1>3 DEF Only
<1>7. Same(p, e, "will", o)
  BY <1>0, <1>4, <1>5, <1>6, SameTrans
<1>8. Replies(p, z, "will", o, on, yes)
  BY <1>0, <1>5, <1>7, AcceptTells
<1>9. Only(e, z, "will", o)
  BY <1>0, <1>5, AcceptOnly
<1> HIDE DEF z
<1>10. Only(r, z, "will", o)
  BY <1>4, <1>5, <1>9, OnlyTrans
<1> QED BY <1>2, <1>3, <1>8, <1>10

\* The client's dooption() takes a DO.
LEMMA CliDoTaken ==
    ASSUME NEW p0 \in Client, NEW o \in Options, o # "LINEMODE"
    PROVE  LET z == CliDoOption(p0, o)
           IN  /\ Along(p0, z, "will", o)
               /\ o # "TM" => \E yes \in BOOLEAN : Taken(p0, z, "will", o, TRUE, yes)
<1> DEFINE p == Answered(p0, "will", o, TRUE)
           a == Asked(p, "will", o, TRUE)
           q == CASE o = "NEW_ENVIRON" -> AcceptNewEnviron(p)
                  [] o = "OLD_ENVIRON" -> AcceptOldEnviron(p)
                  [] o \in CliDoOk -> Accept(p, "will", o)
                  [] OTHER -> Refuse(p, "will", o)
           m == Mark(Write(p, "will", o, TRUE), "will", o)
           z == CliDoOption(p0, o)
<1> "will" \in Sides BY DEF Sides
<1>0. p0 \in Peer /\ TRUE \in BOOLEAN /\ FALSE \in BOOLEAN
  BY DEF Peer
<1>1. Only(p0, p, "will", o) /\ p \in Peer /\ p \in Client
  BY <1>0, AnsweredOnly, OnlyPeer
<1>2. z = CASE a /\ o = "TM" -> m
            [] a /\ o # "TM" -> SetState(q, "will", o, TRUE)
            [] OTHER -> SetState(p, "will", o, TRUE)
  BY DEF CliDoOption
<1>3. q = CASE o = "NEW_ENVIRON" -> AcceptNewEnviron(p)
            [] o = "OLD_ENVIRON" -> AcceptOldEnviron(p)
            [] o \in CliDoOk -> Accept(p, "will", o)
            [] OTHER -> Refuse(p, "will", o)
  OBVIOUS
<1>4. "NEW_ENVIRON" \notin CliDoOk /\ "OLD_ENVIRON" \notin CliDoOk
  BY DEF CliDoOk
<1> HIDE DEF z, q
<1>5. CASE a /\ o = "TM"
  <2>1. Only(p, m, "will", o)
    BY <1>0, <1>1, WriteMarkOnly
  <2>2. z = m
    BY <1>2, <1>5
  <2> HIDE DEF p, m
  <2>3. Only(p0, m, "will", o)
    BY <1>0, <1>1, <2>1, OnlyTrans
  <2> QED BY <1>0, <1>5, <2>2, <2>3, OnlyAlong DEF z
<1>6. ASSUME NEW f, z = SetState(f, "will", o, TRUE), Only(p, f, "will", o),
             NEW yes \in BOOLEAN, Replies(p, f, "will", o, TRUE, yes)
      PROVE  Along(p0, z, "will", o) /\ Taken(p0, z, "will", o, TRUE, yes)
  <2>1. Only(p0, z, "will", o) /\ Taken(p0, z, "will", o, TRUE, yes)
    BY <1>0, <1>6, RepliesTaken
  <2> QED BY <1>0, <2>1, OnlyAlong
<1>7. CASE ~a
  <2>1. z = SetState(p, "will", o, TRUE)
    BY <1>2, <1>7
  <2>2. Only(p, p, "will", o) /\ Replies(p, p, "will", o, TRUE, TRUE)
    BY <1>0, <1>1, <1>7, QuietReplies
  <2> HIDE DEF p
  <2>3. Along(p0, z, "will", o) /\ Taken(p0, z, "will", o, TRUE, TRUE)
    BY <1>0, <1>6, <2>1, <2>2
  <2> QED BY <2>3 DEF z
<1>8. CASE a /\ o \notin {"TM", "NEW_ENVIRON"}
  <2>1. z = SetState(q, "will", o, TRUE)
    BY <1>2, <1>8
  <2> HIDE DEF p
  <2>2. CASE o = "OLD_ENVIRON"
    <3>1. q = AcceptOldEnviron(p)
      BY <1>3, <1>4, <2>2
    <3>2. /\ Only(p, q, "will", o)
          /\ \E yes \in BOOLEAN : Replies(p, q, "will", o, TRUE, yes)
      BY <1>0, <1>1, <1>8, <2>2, <3>1, AcceptOldEnvironReplies
    <3>3. PICK yes \in BOOLEAN : Replies(p, q, "will", o, TRUE, yes)
      BY <3>2
    <3>4. Along(p0, z, "will", o) /\ Taken(p0, z, "will", o, TRUE, yes)
      BY <1>6, <2>1, <3>2, <3>3
    <3> QED BY <3>4 DEF z
  <2>3. CASE o # "OLD_ENVIRON" /\ o \in CliDoOk
    <3>1. q = Accept(p, "will", o)
      BY <1>3, <1>8, <2>3
    <3>2. Only(p, p, "will", o) /\ Same(p, p, "will", o)
      BY <1>1, OnlyItself, SameItself
    <3>3. Only(p, q, "will", o) /\ Replies(p, q, "will", o, TRUE, TRUE)
      BY <1>0, <1>1, <1>8, <3>1, <3>2, AcceptReplies
    <3>4. Along(p0, z, "will", o) /\ Taken(p0, z, "will", o, TRUE, TRUE)
      BY <1>0, <1>6, <2>1, <3>3
    <3> QED BY <3>4 DEF z
  <2>4. CASE o # "OLD_ENVIRON" /\ o \notin CliDoOk
    <3>1. q = Refuse(p, "will", o)
      BY <1>3, <1>8, <2>4
    <3>3. Only(p, q, "will", o) /\ Replies(p, q, "will", o, TRUE, FALSE)
      BY <1>0, <1>1, <1>8, <3>1, RefuseReplies
    <3>4. Along(p0, z, "will", o) /\ Taken(p0, z, "will", o, TRUE, FALSE)
      BY <1>0, <1>6, <2>1, <3>3
    <3> QED BY <3>4 DEF z
  <2> QED BY <2>2, <2>3, <2>4
<1>9. CASE a /\ o = "NEW_ENVIRON"
  <2>1. z = SetState(q, "will", o, TRUE) /\ q = AcceptNewEnviron(p)
    BY <1>2, <1>3, <1>4, <1>9
  <2>2. PICK yes \in BOOLEAN : yes
    BY <1>0
  <2>3. /\ Replies(p, q, "will", o, TRUE, yes)
        /\ \E r : /\ Only(p, r, "will", "OLD_ENVIRON")
                  /\ Wishes(p, r, "will", "OLD_ENVIRON")
                  /\ Only(r, q, "will", o)
    <3> HIDE DEF p
    <3> QED BY <1>0, <1>1, <1>9, <2>1, <2>2, AcceptNewEnvironReplies
  <2>4. PICK r : /\ Only(p, r, "will", "OLD_ENVIRON")
                 /\ Wishes(p, r, "will", "OLD_ENVIRON")
                 /\ Only(r, q, "will", o)
    BY <2>3
  <2>5. r \in Peer /\ q \in Peer
    BY <2>4, OnlyPeer
  <2>6. Only(q, z, "will", o) /\ Taken(p0, z, "will", o, TRUE, yes)
    BY <1>0, <2>1, <2>3, <2>5, RepliesTakes
  <2> HIDE DEF p
  <2>7. Only(r, z, "will", o)
    BY <2>4, <2>5, <2>6, OnlyTrans
  <2>8. Along(p0, z, "will", o)
    BY <1>0, <1>1, <1>9, <2>4, <2>7, EnvironAlong
  <2> QED BY <2>6, <2>8 DEF z
<1> QED BY <1>5, <1>7, <1>8, <1>9

\* The client's dontoption() takes a DONT.
LEMMA CliDontTaken ==
    ASSUME NEW p0 \in Client, NEW o \in Options, NEW yes \in BOOLEAN
    PROVE  LET z == CliDontOption(p0, o)
           IN  Along(p0, z, "will", o) /\ Taken(p0, z, "will", o, FALSE, yes)
<1> DEFINE p == Answered(p0, "will", o, FALSE)
           a == Asked(p, "will", o, FALSE)
           n == Request(p, "will", "OLD_ENVIRON", TRUE)
           e == [n EXCEPT !.environ = "OLD_ENVIRON"]
           q == IF o = "NEW_ENVIRON" THEN e ELSE p
           c == Concede(q, "will", o)
           z == CliDontOption(p0, o)
<1> "will" \in Sides BY DEF Sides
<1>0. p0 \in Peer /\ TRUE \in BOOLEAN /\ FALSE \in BOOLEAN
  BY DEF Peer
<1>1. Only(p0, p, "will", o) /\ p \in Peer /\ p \in Client
  BY <1>0, AnsweredOnly, OnlyPeer
<1>2. z = SetState(IF a THEN c ELSE p, "will", o, FALSE)
  BY DEF CliDontOption
<1> HIDE DEF z
<1>3. CASE ~a
  <2>1. z = SetState(p, "will", o, FALSE)
    BY <1>2, <1>3
  <2>2. Only(p, p, "will", o) /\ Replies(p, p, "will", o, FALSE, yes)
    BY <1>0, <1>1, <1>3, QuietReplies
  <2>3. Only(p0, z, "will", o) /\ Taken(p0, z, "will", o, FALSE, yes)
    BY <1>0, <2>1, <2>2, RepliesTaken
  <2> HIDE DEF p
  <2>4. Along(p0, z, "will", o)
    BY <1>0, <2>3, OnlyAlong
  <2> QED BY <2>3, <2>4 DEF z
<1>4. CASE a /\ o # "NEW_ENVIRON"
  <2>1. z = SetState(Concede(p, "will", o), "will", o, FALSE)
    BY <1>2, <1>4
  <2>2. Only(p, p, "will", o) /\ Same(p, p, "will", o)
    BY <1>1, OnlyItself, SameItself
  <2>3. /\ Only(p, Concede(p, "will", o), "will", o)
        /\ Replies(p, Concede(p, "will", o), "will", o, FALSE, yes)
    BY <1>0, <1>1, <1>4, <2>2, ConcedeReplies
  <2>4. Only(p0, z, "will", o) /\ Taken(p0, z, "will", o, FALSE, yes)
    BY <1>0, <2>1, <2>3, RepliesTaken
  <2> HIDE DEF p
  <2>5. Along(p0, z, "will", o)
    BY <1>0, <2>4, OnlyAlong
  <2> QED BY <2>4, <2>5 DEF z
<1>5. CASE a /\ o = "NEW_ENVIRON"
  <2>1. z = SetState(Concede(e, "will", o), "will", o, FALSE) /\ "OLD_ENVIRON" \in Options
    BY <1>2, <1>5, OptionsAssumption DEF OptionsAssumption
  <2>2. /\ Only(p, n, "will", "OLD_ENVIRON")
        /\ n \in Peer
        /\ Wishes(p, n, "will", "OLD_ENVIRON")
    <3> HIDE DEF p
    <3> QED BY <1>0, <1>1, <2>1, RequestAsks
  <2>3. n \in Client
    <3> HIDE DEF p, n
    <3> QED BY <1>1, <2>2, OnlyPeer
  <2>4. e \in Client /\ Only(n, e, "will", o) /\ Same(n, e, "will", o)
    <3> HIDE DEF n
    <3> QED BY <2>3, EnvironOnly
  <2>5. e \in Peer
    BY <2>4 DEF Peer
  <2>6. Same(p, e, "will", o)
    <3>1. Same(p, n, "will", o)
      BY <1>5, <2>2 DEF Only
    <3> HIDE DEF p, n, e
    <3> QED BY <1>1, <2>2, <2>4, <2>5, <3>1, SameTrans
  <2> DEFINE d == Concede(e, "will", o)
  <2>7. Replies(p, d, "will", o, FALSE, yes) /\ Only(e, d, "will", o) /\ d \in Peer
    <3> HIDE DEF p, e
    <3>1. Replies(p, d, "will", o, FALSE, yes)
      BY <1>0, <1>1, <1>5, <2>5, <2>6, ConcedeTells
    <3> QED BY <2>5, <3>1, ConcedeOnly
  <2>8. Only(d, z, "will", o) /\ Taken(p0, z, "will", o, FALSE, yes)
    <3> HIDE DEF d
    <3> QED BY <1>0, <2>1, <2>7, RepliesTakes DEF d
  <2> HIDE DEF p, n, e, d
  <2>9. Only(n, z, "will", o)
    BY <2>2, <2>4, <2>5, <2>7, <2>8, OnlyTrans
  <2>10. Along(p0, z, "will", o)
    BY <1>0, <1>1, <1>5, <2>2, <2>9, EnvironAlong
  <2> QED BY <2>8, <2>10 DEF z
<1> QED BY <1>3, <1>4, <1>5

\* The client's suboption() may say that it has no display.
LEMMA CliSubOnly ==
    ASSUME NEW p \in Client, NEW o \in Options
    PROVE  LET z == CliSubOption(p, o)
           IN  /\ Only(p, z, "will", o) /\ Wishes(p, z, "will", o)
               /\ o # "XDISPLOC" => \A t \in Sides, x \in Options : Same(p, z, t, x)
<1> DEFINE z == CliSubOption(p, o)
           n == Request(p, "will", o, FALSE)
<1>0. p \in Peer /\ "will" \in Sides /\ FALSE \in BOOLEAN
  BY DEF Peer, Sides
<1>1. \/ z = p
      \/ o = "XDISPLOC" /\ z = n
      \/ o \in {"NEW_ENVIRON", "OLD_ENVIRON"} /\ z = Sub(p, p.environ)
      \/ z = Sub(p, o)
  <2>1. CASE o \notin SubOptions \/ ~p.opt["will"][o].want
    BY <2>1 DEF CliSubOption, SubOptions
  <2>2. CASE o = "XDISPLOC" /\ p.opt["will"][o].want
    BY <2>2 DEF CliSubOption, SubOptions
  <2>3. CASE o \in {"NEW_ENVIRON", "OLD_ENVIRON"} /\ p.opt["will"][o].want
    BY <2>3 DEF CliSubOption, SubOptions
  <2>4. CASE o \in {"TSPEED", "TTYPE"} /\ p.opt["will"][o].want
    BY <2>4 DEF CliSubOption, SubOptions
  <2> QED BY <2>1, <2>2, <2>3, <2>4 DEF SubOptions
<1>2. Only(p, n, "will", o) /\ Wishes(p, n, "will", o)
  BY <1>0, RequestAsks
<1> HIDE DEF z, n
<1>3. ASSUME NEW x \in Options, z = Sub(p, x)
      PROVE  /\ Only(p, z, "will", o)
             /\ z \in Peer
             /\ \A t \in Sides, y \in Options : Same(p, z, t, y)
  BY <1>0, <1>3, SubOnly
<1>4. ASSUME Only(p, z, "will", o), z \in Peer, \A t \in Sides, y \in Options : Same(p, z, t, y)
      PROVE  Wishes(p, z, "will", o)
  BY <1>0, <1>4, WishesSame
<1>5. o \in {"NEW_ENVIRON", "OLD_ENVIRON"} => p.environ \in Options
  BY OptionsAssumption DEF Client, OptionsAssumption
<1>6. CASE z = p
  BY <1>0, <1>4, <1>6, OnlyItself, SameItself DEF z
<1>7. CASE o = "XDISPLOC" /\ z = n
  BY <1>2, <1>7 DEF z
<1>8. CASE z = Sub(p, o) \/ (o \in {"NEW_ENVIRON", "OLD_ENVIRON"} /\ z = Sub(p, p.environ))
  <2>1. /\ Only(p, z, "will", o)
        /\ z \in Peer
        /\ \A t \in Sides, y \in Options : Same(p, z, t, y)
    BY <1>3, <1>5, <1>8
  <2> QED BY <1>4, <2>1 DEF z
<1> QED BY <1>1, <1>6, <1>7, <1>8

-----------------------------------------------------------------------------
(* The two machines of an option, of which the client's is on side s.      *)

\* The server accepts what the client offers or asks for; of the other options
\* it is the client that accepts what the server offers.
ServerAccepts(s, o) == IF s = "will" THEN o \in SrvWillOk ELSE o = "LOGOUT"

\* The server never wants these, and never says that it does.
Mute(s, o) == IF s = "will" THEN o \notin SrvWillOk \cup {"ECHO", "TM"}
                            ELSE o \notin CliWillOk \cup {"LOGOUT", "TM"}

Silent(d, t, o) ==
    /\ ~d.opt[t][o].want
    /\ \A i \in 1..Len(d.out) : About(d.out[i], t, o) => ~d.out[i].on

Joined(c, d, s, o) ==
    /\ IF ServerAccepts(s, o)
       THEN Pair(d.opt[Other(s)][o], d.out, Other(s), c.opt[s][o], c.out, s, o)
       ELSE Pair(c.opt[s][o], c.out, s, d.opt[Other(s)][o], d.out, Other(s), o)
    /\ Mute(s, o) => Silent(d, Other(s), o)

\* The head of out has been read.
Read(p) == [p EXCEPT !.out = Tail(@)]

\* To take a message off the line leaves the machines as they are.
LEMMA ReadType ==
    ASSUME NEW p \in Peer, p.out # <<>>
    PROVE  /\ Read(p) \in Peer /\ (p \in Client => Read(p) \in Client)
           /\ (p \in Server => Read(p) \in Server)
           /\ Read(p).opt = p.opt /\ Read(p).out = Tail(p.out)
           /\ Read(p).todo = p.todo
           /\ p \in Server => Read(p).phase = p.phase /\ Read(p).istrip = p.istrip
           /\ Head(p.out) \in Message
<1>1. p.out \in Seq(Message)
  BY OutType
<1>2. Tail(p.out) \in Seq(Message) /\ Head(p.out) \in Message
  BY <1>1
<1>3. p \in Client => Read(p) \in Client
  BY <1>2 DEF Read, Client
<1>4. p \in Server => Read(p) \in Server
  BY <1>2 DEF Read, Server
<1>5. /\ Read(p).opt = p.opt /\ Read(p).out = Tail(p.out) /\ Read(p).todo = p.todo
      /\ p \in Server => Read(p).phase = p.phase /\ Read(p).istrip = p.istrip
  BY DEF Read, Peer, Client, Server
<1> QED BY <1>2, <1>3, <1>4, <1>5 DEF Peer

\* A server that offers nothing, by what it says.
LEMMA SilentGrows ==
    ASSUME NEW d \in Peer, NEW e \in Peer, NEW t \in Sides, NEW o, Silent(d, t, o),
           ~e.opt[t][o].want,
           Grows(d.out, e.out, t, o) \/ Says(d.out, e.out, t, o, FALSE)
    PROVE  Silent(e, t, o)
<1>1. d.out \in Seq(Message) /\ e.out \in Seq(Message)
  BY OutType
<1>2. ASSUME NEW i \in 1..Len(e.out), About(e.out[i], t, o) PROVE ~e.out[i].on
  <2>1. CASE i <= Len(d.out)
    <3>1. i \in 1..Len(d.out) /\ e.out[i] = d.out[i]
      BY <1>1, <2>1 DEF Grows, Says
    <3> QED BY <3>1, <1>2 DEF Silent
  <2>2. CASE i > Len(d.out)
    <3>1. ~Grows(d.out, e.out, t, o)
      BY <1>2, <2>2 DEF Grows
    <3> QED BY <1>2, <2>2, <3>1 DEF Says
  <2> QED BY <1>1, <2>1, <2>2
<1> QED BY <1>2 DEF Silent

\* A server that has never said that it wants an option has not yet said so when
\* the client has read on.
LEMMA SilentReads ==
    ASSUME NEW d \in Peer, NEW t \in Sides, NEW o, Silent(d, t, o), d.out # <<>>
    PROVE  /\ Silent(Read(d), t, o)
           /\ About(Head(d.out), t, o) => ~Head(d.out).on
<1>1. d.out \in Seq(Message)
  BY OutType
<1>2. /\ Len(Tail(d.out)) = Len(d.out) - 1 /\ Len(d.out) \in Nat /\ Len(d.out) >= 1
      /\ \A i \in 1..Len(Tail(d.out)) : Tail(d.out)[i] = d.out[i + 1]
      /\ Head(d.out) = d.out[1]
  BY <1>1
<1>3. Read(d).opt = d.opt /\ Read(d).out = Tail(d.out)
  BY ReadType
<1> QED BY <1>2, <1>3 DEF Silent

\* What is one program's WILL is the other's DO.
LEMMA OtherSide ==
    ASSUME NEW s \in Sides
    PROVE  Other(s) \in Sides /\ Other(Other(s)) = s /\ Other(s) # s
BY DEF Sides, Other

\* The client does nothing about the option, or asks for a change.
LEMMA ClientWishes ==
    ASSUME NEW c \in Client, NEW c2 \in Client, NEW d \in Server, NEW s \in Sides,
           NEW o \in Options, Wishes(c, c2, s, o), Joined(c, d, s, o)
    PROVE  Joined(c2, d, s, o)
<1>0. c \in Peer /\ c2 \in Peer /\ d \in Peer /\ Other(s) \in Sides
  BY OtherSide DEF Peer
<1>1. /\ c.opt[s][o] \in Machine /\ d.opt[Other(s)][o] \in Machine
      /\ c.out \in Seq(Message) /\ d.out \in Seq(Message) /\ c2.out \in Seq(Message)
  BY <1>0, MachineType, OutType
<1>2. CASE ServerAccepts(s, o)
  BY <1>1, <1>2, PairAsks DEF Joined, Wishes
<1>3. CASE ~ServerAccepts(s, o)
  BY <1>1, <1>3, PairAsks DEF Joined, Wishes
<1> QED BY <1>2, <1>3

\* So does the server.
LEMMA ServerWishes ==
    ASSUME NEW c \in Client, NEW d \in Server, NEW d2 \in Server, NEW s \in Sides,
           NEW o \in Options, Joined(c, d, s, o),
           \/ Same(d, d2, Other(s), o)
           \/ ~Mute(s, o) /\ Wishes(d, d2, Other(s), o)
    PROVE  Joined(c, d2, s, o)
<1>0. c \in Peer /\ d2 \in Peer /\ d \in Peer /\ Other(s) \in Sides
  BY OtherSide DEF Peer
<1>1. /\ c.opt[s][o] \in Machine /\ d.opt[Other(s)][o] \in Machine
      /\ c.out \in Seq(Message) /\ d.out \in Seq(Message) /\ d2.out \in Seq(Message)
  BY <1>0, MachineType, OutType
<1>2. Wishes(d, d2, Other(s), o)
  BY <1>0, WishesSame
<1>3. Mute(s, o) => Silent(d2, Other(s), o)
  BY <1>0, SilentGrows DEF Joined, Same, Silent
<1>4. CASE ServerAccepts(s, o)
  BY <1>1, <1>2, <1>3, <1>4, PairAsks DEF Joined, Wishes
<1>5. CASE ~ServerAccepts(s, o)
  BY <1>1, <1>2, <1>3, <1>5, PairAsks DEF Joined, Wishes
<1> QED BY <1>4, <1>5

\* The client takes a message of the server's.
LEMMA ClientTakes ==
    ASSUME NEW c \in Client, NEW c2 \in Client, NEW d \in Server, NEW s \in Sides,
           NEW o \in Options, Joined(c, d, s, o), d.out # <<>>,
           About(Head(d.out), Other(s), o), NEW yes \in BOOLEAN,
           Taken(c, c2, s, o, Head(d.out).on, yes),
           ~ServerAccepts(s, o) /\ ~Mute(s, o) /\ Head(d.out).on => yes
    PROVE  Joined(c2, Read(d), s, o)
<1>0. c \in Peer /\ c2 \in Peer /\ d \in Peer /\ Other(s) \in Sides
  BY OtherSide DEF Peer
<1>1. /\ c.opt[s][o] \in Machine /\ d.opt[Other(s)][o] \in Machine
      /\ c.out \in Seq(Message) /\ d.out \in Seq(Message) /\ c2.out \in Seq(Message)
  BY <1>0, MachineType, OutType
<1>2. Read(d).opt = d.opt /\ Read(d).out = Tail(d.out)
  BY <1>0, ReadType
<1>3. /\ Mute(s, o) => Silent(Read(d), Other(s), o)
      /\ Mute(s, o) => ~Head(d.out).on
  BY <1>0, SilentReads DEF Joined
<1>4. CASE ServerAccepts(s, o)
  <2>1. Pair(d.opt[Other(s)][o], d.out, Other(s), c.opt[s][o], c.out, s, o)
    BY <1>4 DEF Joined
  <2>2. Pair(d.opt[Other(s)][o], Tail(d.out), Other(s), c2.opt[s][o], c2.out, s, o)
    BY <1>1, <2>1, PairTakesB DEF Taken
  <2> QED BY <1>2, <1>3, <1>4, <2>2 DEF Joined
<1>5. CASE ~ServerAccepts(s, o)
  <2>1. Pair(c.opt[s][o], c.out, s, d.opt[Other(s)][o], d.out, Other(s), o)
    BY <1>5 DEF Joined
  <2>2. Head(d.out).on => yes
    BY <1>3, <1>5
  <2>3. Pair(c2.opt[s][o], c2.out, s, d.opt[Other(s)][o], Tail(d.out), Other(s), o)
    BY <1>1, <2>1, <2>2, PairTakesA DEF Taken
  <2> QED BY <1>2, <1>3, <1>5, <2>3 DEF Joined
<1> QED BY <1>4, <1>5

\* The server takes a message of the client's.
LEMMA ServerTakes ==
    ASSUME NEW c \in Client, NEW d \in Server, NEW d2 \in Server, NEW s \in Sides,
           NEW o \in Options, Joined(c, d, s, o), c.out # <<>>,
           About(Head(c.out), s, o), NEW yes \in BOOLEAN,
           Taken(d, d2, Other(s), o, Head(c.out).on, yes),
           ServerAccepts(s, o) /\ Head(c.out).on => yes,
           Mute(s, o) /\ Head(c.out).on => ~yes
    PROVE  Joined(Read(c), d2, s, o)
<1>0. c \in Peer /\ d2 \in Peer /\ d \in Peer /\ Other(s) \in Sides
  BY OtherSide DEF Peer
<1>1. /\ c.opt[s][o] \in Machine /\ d.opt[Other(s)][o] \in Machine
      /\ c.out \in Seq(Message) /\ d.out \in Seq(Message) /\ d2.out \in Seq(Message)
  BY <1>0, MachineType, OutType
<1>2. Read(c).opt = c.opt /\ Read(c).out = Tail(c.out) /\ Head(c.out) \in Message
  BY <1>0, ReadType
<1>3. ASSUME Mute(s, o) PROVE Silent(d2, Other(s), o)
  <2>1. Silent(d, Other(s), o) /\ ~d.opt[Other(s)][o].want
    BY <1>3 DEF Joined, Silent
  <2>2. (Head(c.out).on /\ yes) = FALSE
    BY <1>3, <1>2 DEF Message
  <2>3. \/ Grows(d.out, d2.out, Other(s), o)
        \/ Says(d.out, d2.out, Other(s), o, FALSE)
    BY <2>2 DEF Taken, Takes
  <2>4. ~d2.opt[Other(s)][o].want
    <3> DEFINE m == d.opt[Other(s)][o]
               n == d2.opt[Other(s)][o]
               b == Head(c.out).on /\ yes
    <3>1. ~b /\ ~m.want
      BY <2>1, <2>2
    <3>2. \/ \E x, r : n = [state |-> x, want |-> b, resp |-> r]
          \/ \E x, r : n = [state |-> x, want |-> m.want, resp |-> r]
      BY DEF Taken, Takes
    <3> HIDE DEF m, n, b
    <3>3. ~n.want
      BY <3>1, <3>2
    <3> QED BY <3>3 DEF n
  <2> QED BY <1>0, <2>1, <2>3, <2>4, SilentGrows
<1>4. CASE ServerAccepts(s, o)
  <2>1. Pair(d.opt[Other(s)][o], d.out, Other(s), c.opt[s][o], c.out, s, o)
    BY <1>4 DEF Joined
  <2>2. Pair(d2.opt[Other(s)][o], d2.out, Other(s), c.opt[s][o], Tail(c.out), s, o)
    BY <1>1, <1>4, <2>1, PairTakesA DEF Taken
  <2> QED BY <1>2, <1>3, <1>4, <2>2 DEF Joined
<1>5. CASE ~ServerAccepts(s, o)
  <2>1. Pair(c.opt[s][o], c.out, s, d.opt[Other(s)][o], d.out, Other(s), o)
    BY <1>5 DEF Joined
  <2>2. Pair(c.opt[s][o], Tail(c.out), s, d2.opt[Other(s)][o], d2.out, Other(s), o)
    BY <1>1, <2>1, PairTakesB DEF Taken
  <2> QED BY <1>2, <1>3, <1>5, <2>2 DEF Joined
<1> QED BY <1>4, <1>5

\* A message about something else is read.
LEMMA JoinedSkips ==
    ASSUME NEW c \in Client, NEW d \in Server, NEW s \in Sides, NEW o \in Options,
           Joined(c, d, s, o)
    PROVE  /\ c.out # <<>> /\ ~About(Head(c.out), s, o) => Joined(Read(c), d, s, o)
           /\ d.out # <<>> /\ ~About(Head(d.out), Other(s), o) => Joined(c, Read(d), s, o)
<1>0. c \in Peer /\ d \in Peer /\ Other(s) \in Sides
  BY OtherSide DEF Peer
<1>1. /\ c.opt[s][o] \in Machine /\ d.opt[Other(s)][o] \in Machine
      /\ c.out \in Seq(Message) /\ d.out \in Seq(Message)
  BY <1>0, MachineType, OutType
<1>2. /\ c.out # <<>> => Read(c).opt = c.opt /\ Read(c).out = Tail(c.out)
      /\ d.out # <<>> => Read(d).opt = d.opt /\ Read(d).out = Tail(d.out)
      /\ d.out # <<>> /\ Silent(d, Other(s), o) => Silent(Read(d), Other(s), o)
  BY <1>0, ReadType, SilentReads
<1>3. CASE ServerAccepts(s, o)
  <2>1. Pair(d.opt[Other(s)][o], d.out, Other(s), c.opt[s][o], c.out, s, o)
    BY <1>3 DEF Joined
  <2>2. /\ c.out # <<>> /\ ~About(Head(c.out), s, o) =>
              Pair(d.opt[Other(s)][o], d.out, Other(s), c.opt[s][o], Tail(c.out), s, o)
        /\ d.out # <<>> /\ ~About(Head(d.out), Other(s), o) =>
              Pair(d.opt[Other(s)][o], Tail(d.out), Other(s), c.opt[s][o], c.out, s, o)
    BY <1>1, <2>1, PairSkips
  <2> QED BY <1>2, <1>3, <2>2 DEF Joined
<1>4. CASE ~ServerAccepts(s, o)
  <2>1. Pair(c.opt[s][o], c.out, s, d.opt[Other(s)][o], d.out, Other(s), o)
    BY <1>4 DEF Joined
  <2>2. /\ c.out # <<>> /\ ~About(Head(c.out), s, o) =>
              Pair(c.opt[s][o], Tail(c.out), s, d.opt[Other(s)][o], d.out, Other(s), o)
        /\ d.out # <<>> /\ ~About(Head(d.out), Other(s), o) =>
              Pair(c.opt[s][o], c.out, s, d.opt[Other(s)][o], Tail(d.out), Other(s), o)
    BY <1>1, <2>1, PairSkips
  <2> QED BY <1>2, <1>4, <2>2 DEF Joined
<1> QED BY <1>3, <1>4

-----------------------------------------------------------------------------
(* A message is read.                                                      *)

\* What the client does with a message, other than DO LINEMODE.
LEMMA CliReceiveTakes ==
    ASSUME NEW c \in Client, NEW m \in Message,
           ~(m.side = "do" /\ m.opt = "LINEMODE" /\ m.on)
    PROVE  LET z == CliReceive(c, m)
           IN  /\ z \in Client /\ z.todo = c.todo
               /\ \A t \in Sides, x \in Options : ~About(m, Other(t), x) =>
                     /\ Wishes(c, z, t, x)
                     /\ ~(t = "will" /\ x \in {"OLD_ENVIRON", "XDISPLOC"}) =>
                           Same(c, z, t, x)
               /\ m.side \in Sides /\ m.opt # "TM" =>
                     \E yes \in BOOLEAN :
                        /\ Taken(c, z, Other(m.side), m.opt, m.on, yes)
                        /\ m.side = "will" /\ m.opt \in CliWillOk => yes
<1> DEFINE z == CliReceive(c, m)
           o == m.opt
<1>0. c \in Peer /\ o \in Options /\ m.on \in BOOLEAN /\ m.side \in {"will", "do", "sub"}
  BY DEF Message, Peer, Sides
<1>1. CASE m.side = "will"
  <2>1. /\ Only(c, z, "do", o)
        /\ o # "TM" => \E yes \in BOOLEAN :
              Taken(c, z, "do", o, m.on, yes) /\ (o \in CliWillOk => yes)
    <3>1. CASE m.on
      <4>1. z = CliWillOption(c, o) /\ m.on = TRUE
        BY <1>0, <1>1, <3>1 DEF CliReceive
      <4>2. (o \in CliWillOk) \in BOOLEAN
        OBVIOUS
      <4> HIDE DEF z, o
      <4> QED BY <1>0, <4>1, <4>2, CliWillTaken
    <3>2. CASE ~m.on
      <4>1. z = CliWontOption(c, o) /\ m.on = FALSE
        BY <1>0, <1>1, <3>2 DEF CliReceive
      <4> HIDE DEF z, o
      <4>2. /\ Only(c, z, "do", o)
            /\ o # "TM" => Taken(c, z, "do", o, FALSE, TRUE)
        BY <1>0, <4>1, CliWontTaken
      <4> QED BY <4>1, <4>2
    <3> QED BY <3>1, <3>2
  <2> HIDE DEF z
  <2>2. z \in Client /\ z \in Peer /\ z.todo = c.todo
    BY <2>1, OnlyPeer DEF Only
  <2>3. ASSUME NEW t \in Sides, NEW x \in Options, ~About(m, Other(t), x)
        PROVE  Wishes(c, z, t, x) /\ Same(c, z, t, x)
    <3>1. ~(t = "do" /\ x = o)
      BY <1>1, <2>3 DEF About, Other
    <3>2. Same(c, z, t, x)
      BY <2>1, <3>1 DEF Only
    <3> QED BY <1>0, <2>2, <3>2, WishesSame
  <2>4. Other(m.side) = "do"
    BY <1>1 DEF Other
  <2> QED BY <2>1, <2>2, <2>3, <2>4 DEF z, o
<1>2. CASE m.side = "do"
  <2>1. /\ Along(c, z, "will", o)
        /\ o # "TM" => \E yes \in BOOLEAN : Taken(c, z, "will", o, m.on, yes)
    <3>1. CASE m.on
      <4> DEFINE w == CliDoOption(c, o)
      <4>1. m.on = TRUE /\ o # "LINEMODE"
        BY <1>0, <1>2, <3>1
      <4>2. /\ Along(c, w, "will", o)
            /\ o # "TM" => \E yes \in BOOLEAN : Taken(c, w, "will", o, m.on, yes)
        BY <1>0, <4>1, CliDoTaken
      <4>3. z = IF o = "NAWS" THEN Sub(w, o) ELSE w
        BY <1>2, <3>1 DEF CliReceive
      <4> HIDE DEF w, z
      <4>4. w \in Peer /\ w.todo = c.todo
        BY <4>2 DEF Along, Typed
      <4>5. /\ z \in Peer
            /\ Only(w, z, "will", o)
            /\ \A t \in Sides, x \in Options : Same(w, z, t, x)
        BY <1>0, <4>3, <4>4, SubOnly, OnlyItself, SameItself DEF Sides
      <4>6. Along(c, z, "will", o)
        <5>1. Typed(c, z) /\ z.todo = c.todo
          BY <4>2, <4>5 DEF Along, Only, Typed, Peer
        <5>2. \A t \in Sides, x \in Options : Wishes(c, w, t, x) => Wishes(c, z, t, x)
          BY <1>0, <4>4, <4>5, WishesSame
        <5>3. \A t \in Sides, x \in Options : Same(c, w, t, x) => Same(c, z, t, x)
          BY <1>0, <4>4, <4>5, SameTrans
        <5> QED BY <4>2, <5>1, <5>2, <5>3 DEF Along
      <4>7. ASSUME NEW yes \in BOOLEAN, Taken(c, w, "will", o, m.on, yes)
            PROVE  Taken(c, z, "will", o, m.on, yes)
        BY <1>0, <4>4, <4>5, <4>7, TakenSame DEF Sides
      <4> QED BY <4>2, <4>6, <4>7
    <3>2. CASE ~m.on
      <4>1. z = CliDontOption(c, o) /\ m.on = FALSE
        BY <1>0, <1>2, <3>2 DEF CliReceive
      <4> HIDE DEF z, o
      <4>2. Along(c, z, "will", o) /\ Taken(c, z, "will", o, FALSE, TRUE)
        BY <1>0, <4>1, CliDontTaken
      <4> QED BY <4>1, <4>2
    <3> QED BY <3>1, <3>2
  <2> HIDE DEF z
  <2>2. z \in Client /\ z.todo = c.todo
    BY <2>1 DEF Along, Typed
  <2>3. ASSUME NEW t \in Sides, NEW x \in Options, ~About(m, Other(t), x)
        PROVE  /\ Wishes(c, z, t, x)
               /\ ~(t = "will" /\ x = "OLD_ENVIRON") => Same(c, z, t, x)
    <3>1. ~(t = "will" /\ x = o)
      BY <1>2, <2>3 DEF About, Other
    <3> QED BY <2>1, <3>1 DEF Along
  <2>4. Other(m.side) = "will" /\ m.side # "will"
    BY <1>2 DEF Other
  <2> QED BY <2>1, <2>2, <2>3, <2>4 DEF z, o
<1>3. CASE m.side = "sub"
  <2>1. z = CliSubOption(c, o)
    BY <1>3 DEF CliReceive
  <2> HIDE DEF z
  <2>2. /\ Only(c, z, "will", o) /\ Wishes(c, z, "will", o)
        /\ o # "XDISPLOC" => \A t \in Sides, x \in Options : Same(c, z, t, x)
    BY <1>0, <2>1, CliSubOnly
  <2>3. z \in Client /\ z \in Peer /\ z.todo = c.todo
    BY <2>2, OnlyPeer DEF Only
  <2>4. ASSUME NEW t \in Sides, NEW x \in Options
        PROVE  /\ Wishes(c, z, t, x)
               /\ ~(t = "will" /\ x = "XDISPLOC") => Same(c, z, t, x)
    <3>1. CASE t = "will" /\ x = o
      BY <2>2, <3>1
    <3>2. CASE ~(t = "will" /\ x = o)
      <4>1. Same(c, z, t, x)
        BY <2>2, <3>2 DEF Only
      <4> QED BY <1>0, <2>3, <4>1, WishesSame
    <3> QED BY <3>1, <3>2
  <2>5. m.side \notin Sides
    BY <1>3 DEF Sides
  <2> QED BY <2>3, <2>4, <2>5 DEF z
<1> QED BY <1>0, <1>1, <1>2, <1>3

\* What the server does with a message.
LEMMA SrvReceiveTakes ==
    ASSUME NEW d \in Server, NEW m \in Message
    PROVE  LET z == SrvReceive(d, m)
           IN  /\ z \in Server /\ z.todo = d.todo /\ z.phase \in {d.phase, "exit"}
               /\ m.side = "will" => Only(d, z, "do", m.opt)
               /\ \A t \in Sides, x \in Options : ~About(m, Other(t), x) =>
                     Same(d, z, t, x)
               /\ m.side = "will" /\ m.opt \notin {"TM", "ECHO"} =>
                     Taken(d, z, "do", m.opt, m.on, m.opt \in SrvWillOk)
               /\ m.side = "do" /\ m.opt # "TM" =>
                     \E r \in Server, yes \in BOOLEAN :
                        /\ Taken(d, r, "will", m.opt, m.on, yes)
                        /\ m.on => yes = (m.opt \in SrvDoOk \cup {"LOGOUT"})
                        /\ IF m.opt = "SGA" THEN Wishes(r, z, "will", m.opt) ELSE z = r
<1> DEFINE z == SrvReceive(d, m)
           o == m.opt
<1>0. d \in Peer /\ o \in Options /\ m.on \in BOOLEAN /\ m.side \in {"will", "do", "sub"}
  BY DEF Message, Peer, Sides
<1>1. CASE m.side = "will"
  <2>1. /\ Only(d, z, "do", o)
        /\ o \notin {"TM", "ECHO"} => Taken(d, z, "do", o, m.on, o \in SrvWillOk)
    <3>1. CASE m.on
      <4>1. z = SrvWillOption(d, o) /\ m.on = TRUE
        BY <1>0, <1>1, <3>1 DEF SrvReceive
      <4> HIDE DEF z, o
      <4> QED BY <1>0, <4>1, SrvWillTaken
    <3>2. CASE ~m.on
      <4>1. z = SrvWontOption(d, o) /\ m.on = FALSE
        BY <1>0, <1>1, <3>2 DEF SrvReceive
      <4> DEFINE yes == o \in SrvWillOk
      <4>2. yes \in BOOLEAN
        OBVIOUS
      <4> HIDE DEF z, o, yes
      <4>3. /\ Only(d, z, "do", o)
            /\ o # "TM" => Taken(d, z, "do", o, FALSE, yes)
        BY <1>0, <4>1, <4>2, SrvWontTaken
      <4> QED BY <4>1, <4>3 DEF yes
    <3> QED BY <3>1, <3>2
  <2> HIDE DEF z
  <2>2. z \in Server /\ z.todo = d.todo /\ z.phase \in {d.phase, "exit"}
    BY <2>1, OnlyPeer DEF Only
  <2>3. ASSUME NEW t \in Sides, NEW x \in Options, ~About(m, Other(t), x)
        PROVE  Same(d, z, t, x)
    <3>1. ~(t = "do" /\ x = o)
      BY <1>1, <2>3 DEF About, Other
    <3> QED BY <2>1, <3>1 DEF Only
  <2>4. m.side # "do"
    BY <1>1
  <2> QED BY <2>1, <2>2, <2>3, <2>4 DEF z, o
<1>2. CASE m.side = "do"
  <2>1. /\ Only(d, z, "will", o)
        /\ o # "TM" => \E r \in Server, yes \in BOOLEAN :
              /\ Taken(d, r, "will", o, m.on, yes)
              /\ m.on => yes = (o \in SrvDoOk \cup {"LOGOUT"})
              /\ IF o = "SGA" THEN Wishes(r, z, "will", o) ELSE z = r
    <3>1. CASE m.on
      <4> DEFINE yes == o \in SrvDoOk \cup {"LOGOUT"}
      <4>1. z = SrvDoOption(d, o) /\ m.on = TRUE
        BY <1>0, <1>2, <3>1 DEF SrvReceive
      <4>2. yes \in BOOLEAN
        OBVIOUS
      <4> HIDE DEF z, o
      <4>3. /\ Only(d, z, "will", o)
            /\ o # "TM" => Taken(d, z, "will", o, TRUE, yes)
        BY <1>0, <4>1, SrvDoTaken
      <4> HIDE DEF yes
      <4>4. z \in Server /\ z \in Peer
        BY <4>3, OnlyPeer
      <4>5. Wishes(z, z, "will", o)
        BY <4>4, SameItself, WishesSame
      <4>6. yes = (o \in SrvDoOk \cup {"LOGOUT"})
        BY DEF yes
      <4> QED BY <4>1, <4>2, <4>3, <4>4, <4>5, <4>6
    <3>2. CASE ~m.on
      <4>1. z = SrvDontOption(d, o) /\ m.on = FALSE
        BY <1>0, <1>2, <3>2 DEF SrvReceive
      <4> HIDE DEF z, o
      <4>2. /\ Only(d, z, "will", o)
            /\ \E r \in Server :
                  /\ Taken(d, r, "will", o, FALSE, FALSE)
                  /\ IF o = "SGA" THEN Wishes(r, z, "will", o) ELSE z = r
        BY <1>0, <4>1, SrvDontTaken
      <4> QED BY <4>1, <4>2
    <3> QED BY <3>1, <3>2
  <2> HIDE DEF z
  <2>2. z \in Server /\ z.todo = d.todo /\ z.phase \in {d.phase, "exit"}
    BY <2>1, OnlyPeer DEF Only
  <2>3. ASSUME NEW t \in Sides, NEW x \in Options, ~About(m, Other(t), x)
        PROVE  Same(d, z, t, x)
    <3>1. ~(t = "will" /\ x = o)
      BY <1>2, <2>3 DEF About, Other
    <3> QED BY <2>1, <3>1 DEF Only
  <2>4. m.side # "will"
    BY <1>2
  <2> QED BY <2>1, <2>2, <2>3, <2>4 DEF z, o
<1>3. CASE m.side = "sub"
  <2>1. z = SrvSubOption(d, o)
    BY <1>3 DEF SrvReceive
  <2> HIDE DEF z
  <2>2. Only(d, z, "will", o) /\ \A t, y : Same(d, z, t, y)
    BY <1>0, <2>1, SrvSubOnly
  <2>3. z \in Server /\ z.todo = d.todo /\ z.phase \in {d.phase, "exit"}
    BY <2>2, OnlyPeer DEF Only
  <2> QED BY <1>3, <2>2, <2>3 DEF z
<1> QED BY <1>0, <1>1, <1>2, <1>3

\* TM is no option, and the client's echo is another matter.
Excepted(s, o) == o = "TM" \/ (s = "will" /\ o = "ECHO")

Paired(c, d) ==
    \A s \in Sides, o \in Options : ~Excepted(s, o) => Joined(c, d, s, o)

\* The server never says DO LINEMODE.
LEMMA NoLinemode ==
    ASSUME NEW c \in Client, NEW d \in Server, Paired(c, d), d.out # <<>>
    PROVE  ~(Head(d.out).side = "do" /\ Head(d.out).opt = "LINEMODE" /\ Head(d.out).on)
<1> DEFINE m == Head(d.out)
<1>0. d \in Peer /\ m \in Message
  BY ReadType DEF Peer
<1> SUFFICES ASSUME m.side = "do", m.opt = "LINEMODE" PROVE ~m.on
  OBVIOUS
<1>1. "LINEMODE" \in Options
  BY <1>0 DEF Message
<1>2. Mute("will", "LINEMODE") /\ ~Excepted("will", "LINEMODE")
  BY DEF Mute, SrvWillOk, Excepted
<1>3. Joined(c, d, "will", "LINEMODE")
  BY <1>1, <1>2 DEF Paired, Sides
<1>4. Silent(d, "do", "LINEMODE")
  BY <1>2, <1>3 DEF Joined, Other
<1>5. About(m, "do", "LINEMODE")
  BY DEF About
<1> QED BY <1>0, <1>4, <1>5, SilentReads DEF Sides

\* The client reads.
LEMMA CliRecvPaired ==
    ASSUME NEW c \in Client, NEW d \in Server, Paired(c, d), d.out # <<>>
    PROVE  Paired(CliReceive(c, Head(d.out)), Read(d))
<1> DEFINE m == Head(d.out)
           z == CliReceive(c, m)
<1>0. d \in Peer /\ c \in Peer /\ m \in Message /\ Read(d) \in Server
  BY ReadType DEF Peer
<1>1. ~(m.side = "do" /\ m.opt = "LINEMODE" /\ m.on)
  BY NoLinemode
<1>2. /\ z \in Client
      /\ \A t \in Sides, x \in Options : ~About(m, Other(t), x) => Wishes(c, z, t, x)
      /\ m.side \in Sides /\ m.opt # "TM" =>
            \E yes \in BOOLEAN :
               /\ Taken(c, z, Other(m.side), m.opt, m.on, yes)
               /\ m.side = "will" /\ m.opt \in CliWillOk => yes
  BY <1>0, <1>1, CliReceiveTakes
<1> HIDE DEF z
<1>3. ASSUME NEW s \in Sides, NEW o \in Options, ~Excepted(s, o)
      PROVE  Joined(z, Read(d), s, o)
  <2>0. Joined(c, d, s, o) /\ Other(s) \in Sides /\ Other(Other(s)) = s
    BY <1>3, OtherSide DEF Paired
  <2>1. CASE ~About(m, Other(s), o)
    <3>1. Wishes(c, z, s, o)
      BY <1>2, <2>1
    <3>2. Joined(c, Read(d), s, o)
      BY <2>0, <2>1, JoinedSkips
    <3> QED BY <1>0, <1>2, <3>1, <3>2, ClientWishes
  <2>2. CASE About(m, Other(s), o)
    <3>1. m.side = Other(s) /\ m.opt = o /\ Other(m.side) = s /\ o # "TM"
      BY <2>0, <2>2, <1>3 DEF About, Excepted
    <3>2. PICK yes \in BOOLEAN : /\ Taken(c, z, s, o, m.on, yes)
                                 /\ m.side = "will" /\ o \in CliWillOk => yes
      BY <1>2, <2>0, <3>1
    <3>3. ~ServerAccepts(s, o) /\ ~Mute(s, o) => m.side = "will" /\ o \in CliWillOk
      BY <1>3, <3>1 DEF ServerAccepts, Mute, Excepted, Sides, Other
    <3> QED BY <1>2, <2>0, <2>2, <3>2, <3>3, ClientTakes
  <2> QED BY <2>1, <2>2
<1> QED BY <1>3 DEF Paired, z

\* The server reads.
LEMMA SrvRecvPaired ==
    ASSUME NEW c \in Client, NEW d \in Server, Paired(c, d), c.out # <<>>
    PROVE  Paired(Read(c), SrvReceive(d, Head(c.out)))
<1> DEFINE m == Head(c.out)
           z == SrvReceive(d, m)
<1>0. d \in Peer /\ c \in Peer /\ m \in Message /\ Read(c) \in Client
  BY ReadType DEF Peer
<1>2. /\ z \in Server
      /\ \A t \in Sides, x \in Options : ~About(m, Other(t), x) => Same(d, z, t, x)
      /\ m.side = "will" /\ m.opt \notin {"TM", "ECHO"} =>
            Taken(d, z, "do", m.opt, m.on, m.opt \in SrvWillOk)
      /\ m.side = "do" /\ m.opt # "TM" =>
            \E r \in Server, yes \in BOOLEAN :
               /\ Taken(d, r, "will", m.opt, m.on, yes)
               /\ m.on => yes = (m.opt \in SrvDoOk \cup {"LOGOUT"})
               /\ IF m.opt = "SGA" THEN Wishes(r, z, "will", m.opt) ELSE z = r
  BY <1>0, SrvReceiveTakes
<1> HIDE DEF z
<1>3. ASSUME NEW s \in Sides, NEW o \in Options, ~Excepted(s, o)
      PROVE  Joined(Read(c), z, s, o)
  <2>0. Joined(c, d, s, o) /\ Other(s) \in Sides /\ Other(Other(s)) = s
    BY <1>3, OtherSide DEF Paired
  <2>1. CASE ~About(m, s, o)
    <3>1. Same(d, z, Other(s), o)
      BY <1>2, <2>0, <2>1
    <3>2. Joined(Read(c), d, s, o)
      BY <2>0, <2>1, JoinedSkips
    <3> QED BY <1>0, <1>2, <3>1, <3>2, ServerWishes
  <2>2. CASE About(m, s, o) /\ s = "will"
    <3>1. m.side = "will" /\ m.opt = o /\ Other(s) = "do" /\ o \notin {"TM", "ECHO"}
      BY <2>2, <1>3 DEF About, Excepted, Other
    <3> DEFINE yes == o \in SrvWillOk
    <3>2. yes \in BOOLEAN
      OBVIOUS
    <3>3. Taken(d, z, Other(s), o, m.on, yes)
      BY <1>2, <3>1
    <3>4. (ServerAccepts(s, o) => yes) /\ (Mute(s, o) => ~yes)
      BY <2>2 DEF ServerAccepts, Mute
    <3> HIDE DEF yes
    <3> QED BY <1>2, <2>0, <2>2, <3>2, <3>3, <3>4, ServerTakes
  <2>3. CASE About(m, s, o) /\ s = "do"
    <3>1. m.side = "do" /\ m.opt = o /\ Other(s) = "will" /\ o # "TM"
      BY <2>3, <1>3 DEF About, Excepted, Other
    <3>2. PICK r \in Server, yes \in BOOLEAN :
             /\ Taken(d, r, "will", o, m.on, yes)
             /\ m.on => yes = (o \in SrvDoOk \cup {"LOGOUT"})
             /\ IF o = "SGA" THEN Wishes(r, z, "will", o) ELSE z = r
      BY <1>2, <3>1
    <3>3. /\ ServerAccepts(s, o) => o \in SrvDoOk \cup {"LOGOUT"}
          /\ Mute(s, o) => o \notin SrvDoOk \cup {"LOGOUT"}
      BY <2>3 DEF ServerAccepts, Mute, SrvDoOk, CliWillOk
    <3>4. /\ ServerAccepts(s, o) /\ m.on => yes
          /\ Mute(s, o) /\ m.on => ~yes
      BY <3>2, <3>3
    <3>5. Taken(d, r, Other(s), o, m.on, yes)
      BY <3>1, <3>2
    <3>6. Joined(Read(c), r, s, o)
      BY <2>0, <2>3, <3>4, <3>5, ServerTakes
    <3>7. CASE o = "SGA"
      <4>1. ~Mute(s, o) /\ Wishes(r, z, Other(s), o)
        BY <2>3, <3>1, <3>2, <3>7 DEF Mute, CliWillOk
      <4> QED BY <1>0, <1>2, <3>6, <4>1, ServerWishes
    <3>8. CASE o # "SGA"
      BY <3>2, <3>6, <3>8
    <3> QED BY <3>7, <3>8
  <2> QED BY <2>1, <2>2, <2>3 DEF Sides
<1> QED BY <1>3 DEF Paired, z

\* The client asks for something.
LEMMA CliRequestPaired ==
    ASSUME NEW c \in Client, NEW d \in Server, Paired(c, d),
           NEW s \in Sides, NEW o \in Options, NEW on \in BOOLEAN
    PROVE  LET z == Request(c, s, o, on)
           IN  z \in Client /\ Paired(z, d) /\ Only(c, z, s, o)
<1> DEFINE z == Request(c, s, o, on)
<1>1. c \in Peer
  BY DEF Peer
<1>2. Only(c, z, s, o) /\ z \in Peer /\ Wishes(c, z, s, o)
  BY <1>1, RequestAsks
<1> HIDE DEF z
<1>3. z \in Client
  BY <1>2, OnlyPeer
<1>4. ASSUME NEW t \in Sides, NEW x \in Options PROVE Wishes(c, z, t, x)
  <2>1. CASE t = s /\ x = o
    BY <1>2, <2>1
  <2>2. CASE ~(t = s /\ x = o)
    BY <1>1, <1>2, <2>2, WishesSame DEF Only
  <2> QED BY <2>1, <2>2
<1> QED BY <1>2, <1>3, <1>4, ClientWishes DEF Paired, z

\* The client does something that is not about any option but TM.
LEMMA CliSamePaired ==
    ASSUME NEW c \in Client, NEW z \in Client, NEW d \in Server, Paired(c, d),
           \A t \in Sides, x \in Options : x # "TM" => Same(c, z, t, x)
    PROVE  Paired(z, d)
<1>1. c \in Peer /\ z \in Peer
  BY DEF Peer
<1>2. ASSUME NEW t \in Sides, NEW x \in Options, x # "TM" PROVE Wishes(c, z, t, x)
  BY <1>1, <1>2, WishesSame
<1> QED BY <1>2, ClientWishes DEF Paired, Excepted

\* Every option is still a pair when the server has left it alone or has asked for
\* a change of it.
LEMMA SrvSamePaired ==
    ASSUME NEW c \in Client, NEW z \in Server, NEW d \in Server, Paired(c, d),
           \A t \in Sides, x \in Options :
              ~Excepted(Other(t), x) =>
                 \/ Same(d, z, t, x)
                 \/ ~Mute(Other(t), x) /\ Wishes(d, z, t, x)
    PROVE  Paired(c, z)
<1>1. ASSUME NEW s \in Sides, NEW o \in Options, ~Excepted(s, o)
      PROVE  Joined(c, z, s, o)
  <2>1. Other(s) \in Sides /\ Other(Other(s)) = s
    BY OtherSide
  <2> QED BY <1>1, <2>1, ServerWishes DEF Paired
<1> QED BY <1>1 DEF Paired

-----------------------------------------------------------------------------
(* The client's echo, when the user cannot offer it.                       *)

\* The messages about an option that are on their way: none, one, or a negative
\* one with a positive one behind it.
NoneOf(out, s, o) == \A i \in 1..Len(out) : ~About(out[i], s, o)

OneOf(out, s, o, on) ==
    \E k \in 1..Len(out) :
        /\ About(out[k], s, o) /\ out[k].on = on
        /\ \A i \in 1..Len(out) : About(out[i], s, o) => i = k

TwoOf(out, s, o) ==
    \E k, l \in 1..Len(out) :
        /\ k < l /\ About(out[k], s, o) /\ About(out[l], s, o)
        /\ out[k].on = FALSE /\ out[l].on = TRUE
        /\ \A i \in 1..Len(out) : About(out[i], s, o) => i = k \/ i = l

\* Nothing new about the option.
LEMMA FewGrow ==
    ASSUME NEW out \in Seq(Message), NEW out2 \in Seq(Message), NEW s, NEW o,
           Grows(out, out2, s, o)
    PROVE  /\ NoneOf(out, s, o) => NoneOf(out2, s, o)
           /\ \A on : OneOf(out, s, o, on) => OneOf(out2, s, o, on)
           /\ TwoOf(out, s, o) => TwoOf(out2, s, o)
<1>1. /\ Len(out) \in Nat /\ Len(out2) \in Nat /\ Len(out) <= Len(out2)
      /\ \A i \in 1..Len(out) : i \in 1..Len(out2) /\ out2[i] = out[i]
      /\ \A i \in 1..Len(out2) : About(out2[i], s, o) =>
            i \in 1..Len(out) /\ out2[i] = out[i]
  BY DEF Grows
<1>2. NoneOf(out, s, o) => NoneOf(out2, s, o)
  BY <1>1 DEF NoneOf
<1>3. ASSUME NEW on, OneOf(out, s, o, on) PROVE OneOf(out2, s, o, on)
  BY <1>1, <1>3 DEF OneOf
<1>4. TwoOf(out, s, o) => TwoOf(out2, s, o)
  <2> SUFFICES ASSUME TwoOf(out, s, o) PROVE TwoOf(out2, s, o)
    OBVIOUS
  <2>1. PICK k, l \in 1..Len(out) :
           /\ k < l /\ About(out[k], s, o) /\ About(out[l], s, o)
           /\ out[k].on = FALSE /\ out[l].on = TRUE
           /\ \A i \in 1..Len(out) : About(out[i], s, o) => i = k \/ i = l
    BY DEF TwoOf
  <2> QED BY <1>1, <2>1 DEF TwoOf
<1> QED BY <1>2, <1>3, <1>4

\* One more message about the option.
LEMMA FewSay ==
    ASSUME NEW out \in Seq(Message), NEW out2 \in Seq(Message), NEW s, NEW o,
           NEW on, Says(out, out2, s, o, on)
    PROVE  /\ NoneOf(out, s, o) => OneOf(out2, s, o, on)
           /\ OneOf(out, s, o, FALSE) /\ on = TRUE => TwoOf(out2, s, o)
<1>1. /\ Len(out) \in Nat /\ Len(out2) \in Nat /\ Len(out) <= Len(out2)
      /\ \A i \in 1..Len(out) : i \in 1..Len(out2) /\ out2[i] = out[i]
  BY DEF Says
<1>2. PICK l \in 1..Len(out2) :
         /\ l > Len(out) /\ About(out2[l], s, o) /\ out2[l].on = on
         /\ \A i \in 1..Len(out2) : i > Len(out) /\ About(out2[i], s, o) => i = l
  BY DEF Says
<1>3. \A i \in 1..Len(out2) : i <= Len(out) => i \in 1..Len(out)
  BY <1>1
<1>4. NoneOf(out, s, o) => OneOf(out2, s, o, on)
  BY <1>1, <1>2, <1>3 DEF NoneOf, OneOf
<1>5. OneOf(out, s, o, FALSE) /\ on = TRUE => TwoOf(out2, s, o)
  <2> SUFFICES ASSUME OneOf(out, s, o, FALSE), on = TRUE PROVE TwoOf(out2, s, o)
    OBVIOUS
  <2>1. PICK k \in 1..Len(out) :
           /\ About(out[k], s, o) /\ out[k].on = FALSE
           /\ \A i \in 1..Len(out) : About(out[i], s, o) => i = k
    BY DEF OneOf
  <2>2. k \in 1..Len(out2) /\ k < l /\ About(out2[k], s, o) /\ out2[k].on = FALSE
    BY <1>1, <1>2, <2>1
  <2>3. \A i \in 1..Len(out2) : About(out2[i], s, o) => i = k \/ i = l
    BY <1>1, <1>2, <1>3, <2>1
  <2> QED BY <1>2, <2>2, <2>3 DEF TwoOf
<1> QED BY <1>4, <1>5

\* The first message is read.
LEMMA FewRead ==
    ASSUME NEW out \in Seq(Message), out # <<>>, NEW s, NEW o
    PROVE  /\ ~About(Head(out), s, o) =>
                 /\ NoneOf(out, s, o) => NoneOf(Tail(out), s, o)
                 /\ \A on : OneOf(out, s, o, on) => OneOf(Tail(out), s, o, on)
                 /\ TwoOf(out, s, o) => TwoOf(Tail(out), s, o)
           /\ About(Head(out), s, o) =>
                 /\ ~NoneOf(out, s, o)
                 /\ \A on : OneOf(out, s, o, on) =>
                       Head(out).on = on /\ NoneOf(Tail(out), s, o)
                 /\ TwoOf(out, s, o) =>
                       Head(out).on = FALSE /\ OneOf(Tail(out), s, o, TRUE)
<1> DEFINE t == Tail(out)
           h == Head(out)
<1>1. /\ Len(out) \in Nat /\ Len(out) >= 1 /\ Len(t) = Len(out) - 1
      /\ h = out[1] /\ \A i \in 1..Len(t) : t[i] = out[i + 1]
  OBVIOUS
<1> HIDE DEF t, h
<1>2. /\ \A i \in 1..Len(t) : i + 1 \in 1..Len(out) /\ t[i] = out[i + 1] /\ i + 1 # 1
      /\ \A i \in 1..Len(out) : i # 1 => i - 1 \in 1..Len(t) /\ t[i - 1] = out[i]
      /\ 1 \in 1..Len(out)
  BY <1>1
<1>3. NoneOf(out, s, o) => NoneOf(t, s, o) /\ ~About(h, s, o)
  BY <1>1, <1>2 DEF NoneOf
<1>4. ASSUME NEW on, OneOf(out, s, o, on)
      PROVE  /\ ~About(h, s, o) => OneOf(t, s, o, on)
             /\ About(h, s, o) => h.on = on /\ NoneOf(t, s, o)
  <2>1. PICK k \in 1..Len(out) :
           /\ About(out[k], s, o) /\ out[k].on = on
           /\ \A i \in 1..Len(out) : About(out[i], s, o) => i = k
    BY <1>4 DEF OneOf
  <2>2. ASSUME k = 1 PROVE About(h, s, o) /\ h.on = on /\ NoneOf(t, s, o)
    BY <1>1, <1>2, <2>1, <2>2 DEF NoneOf
  <2>3. ASSUME k # 1 PROVE ~About(h, s, o) /\ OneOf(t, s, o, on)
    <3>1. ~About(h, s, o)
      BY <1>1, <1>2, <2>1, <2>3
    <3>2. k - 1 \in 1..Len(t) /\ About(t[k - 1], s, o) /\ t[k - 1].on = on
      BY <1>2, <2>1, <2>3
    <3>3. \A i \in 1..Len(t) : About(t[i], s, o) => i = k - 1
      BY <1>2, <2>1
    <3> QED BY <3>1, <3>2, <3>3 DEF OneOf
  <2> QED BY <2>2, <2>3
<1>5. ASSUME TwoOf(out, s, o)
      PROVE  /\ ~About(h, s, o) => TwoOf(t, s, o)
             /\ About(h, s, o) => h.on = FALSE /\ OneOf(t, s, o, TRUE)
  <2>1. PICK k, l \in 1..Len(out) :
           /\ k < l /\ About(out[k], s, o) /\ About(out[l], s, o)
           /\ out[k].on = FALSE /\ out[l].on = TRUE
           /\ \A i \in 1..Len(out) : About(out[i], s, o) => i = k \/ i = l
    BY <1>5 DEF TwoOf
  <2>0. l # 1 /\ k \in Nat /\ l \in Nat
    BY <2>1
  <2>2. l - 1 \in 1..Len(t) /\ About(t[l - 1], s, o) /\ t[l - 1].on = TRUE
    BY <1>2, <2>0, <2>1
  <2>3. ASSUME k = 1 PROVE About(h, s, o) /\ h.on = FALSE /\ OneOf(t, s, o, TRUE)
    <3>1. \A i \in 1..Len(t) : About(t[i], s, o) => i = l - 1
      BY <1>2, <2>0, <2>1, <2>3
    <3> QED BY <1>1, <2>1, <2>2, <2>3, <3>1 DEF OneOf
  <2>4. ASSUME k # 1 PROVE ~About(h, s, o) /\ TwoOf(t, s, o)
    <3>1. ~About(h, s, o)
      BY <1>1, <1>2, <2>0, <2>1, <2>4
    <3>2. k - 1 \in 1..Len(t) /\ About(t[k - 1], s, o) /\ t[k - 1].on = FALSE
      BY <1>2, <2>1, <2>4
    <3>3. \A i \in 1..Len(t) : About(t[i], s, o) => i = k - 1 \/ i = l - 1
      BY <1>2, <2>0, <2>1
    <3>4. k - 1 < l - 1
      BY <2>0, <2>1
    <3> QED BY <2>2, <3>1, <3>2, <3>3, <3>4 DEF TwoOf
  <2> QED BY <2>3, <2>4
<1> QED BY <1>3, <1>4, <1>5 DEF t, h

\* The client's machine after it has refused a DO, and the server's while it
\* wants the client's echo, before and after it has gone on without an answer.
Declined == [state |-> TRUE, want |-> FALSE, resp |-> 1]
Wanted   == [state |-> FALSE, want |-> TRUE, resp |-> 1]
Granted  == [state |-> TRUE, want |-> TRUE, resp |-> 0]

\* One request at a time is on its way to the client, or its refusal on the way
\* back, or the server's answer to the refusal on its way to the client.
EchoRound(c, d) ==
    LET k    == c.opt["will"]["ECHO"]
        m    == d.opt["do"]["ECHO"]
        up   == c.out
        down == d.out
    IN  /\ k \in {Default, Declined}
        /\ m = Granted => d.phase \in {"main", "exit"}
        /\ \/ /\ m = Default /\ NoneOf(up, "will", "ECHO")
              /\ \/ NoneOf(down, "do", "ECHO")
                 \/ OneOf(down, "do", "ECHO", FALSE) /\ k = Declined
           \/ /\ m \in {Wanted, Granted} /\ NoneOf(up, "will", "ECHO")
              /\ \/ OneOf(down, "do", "ECHO", TRUE)
                 \/ TwoOf(down, "do", "ECHO") /\ k = Declined
           \/ /\ m \in {Wanted, Granted} /\ OneOf(up, "will", "ECHO", FALSE)
              /\ NoneOf(down, "do", "ECHO") /\ k = Declined

\* Nothing about the echo.
LEMMA EchoSame ==
    ASSUME NEW c \in Client, NEW z \in Client, NEW d \in Server, NEW e \in Server,
           Same(c, z, "will", "ECHO"), Same(d, e, "do", "ECHO"),
           d.phase \in {"main", "exit"} => e.phase \in {"main", "exit"},
           EchoRound(c, d)
    PROVE  EchoRound(z, e)
<1>1. /\ c.out \in Seq(Message) /\ z.out \in Seq(Message)
      /\ d.out \in Seq(Message) /\ e.out \in Seq(Message)
  BY OutType DEF Peer
<1>2. z.opt["will"]["ECHO"] = c.opt["will"]["ECHO"] /\ Grows(c.out, z.out, "will", "ECHO")
  BY DEF Same
<1>3. e.opt["do"]["ECHO"] = d.opt["do"]["ECHO"] /\ Grows(d.out, e.out, "do", "ECHO")
  BY DEF Same
<1>4. /\ NoneOf(c.out, "will", "ECHO") => NoneOf(z.out, "will", "ECHO")
      /\ OneOf(c.out, "will", "ECHO", FALSE) => OneOf(z.out, "will", "ECHO", FALSE)
  BY <1>1, <1>2, FewGrow
<1>5. /\ NoneOf(d.out, "do", "ECHO") => NoneOf(e.out, "do", "ECHO")
      /\ \A on : OneOf(d.out, "do", "ECHO", on) => OneOf(e.out, "do", "ECHO", on)
      /\ TwoOf(d.out, "do", "ECHO") => TwoOf(e.out, "do", "ECHO")
  BY <1>1, <1>3, FewGrow
<1> QED BY <1>2, <1>3, <1>4, <1>5 DEF EchoRound

\* A message about something else is read.
LEMMA EchoSkips ==
    ASSUME NEW c \in Client, NEW d \in Server, EchoRound(c, d)
    PROVE  /\ c.out # <<>> /\ ~About(Head(c.out), "will", "ECHO") => EchoRound(Read(c), d)
           /\ d.out # <<>> /\ ~About(Head(d.out), "do", "ECHO") => EchoRound(c, Read(d))
<1>1. c.out \in Seq(Message) /\ d.out \in Seq(Message) /\ c \in Peer /\ d \in Peer
  BY OutType DEF Peer
<1>2. ASSUME c.out # <<>>, ~About(Head(c.out), "will", "ECHO")
      PROVE  EchoRound(Read(c), d)
  <2>1. Read(c).opt = c.opt /\ Read(c).out = Tail(c.out)
    BY <1>1, <1>2, ReadType
  <2>2. /\ NoneOf(c.out, "will", "ECHO") => NoneOf(Tail(c.out), "will", "ECHO")
        /\ OneOf(c.out, "will", "ECHO", FALSE) => OneOf(Tail(c.out), "will", "ECHO", FALSE)
    BY <1>1, <1>2, FewRead
  <2> QED BY <2>1, <2>2 DEF EchoRound
<1>3. ASSUME d.out # <<>>, ~About(Head(d.out), "do", "ECHO")
      PROVE  EchoRound(c, Read(d))
  <2>1. Read(d).opt = d.opt /\ Read(d).out = Tail(d.out) /\ Read(d).phase = d.phase
    BY <1>1, <1>3, ReadType
  <2>2. /\ NoneOf(d.out, "do", "ECHO") => NoneOf(Tail(d.out), "do", "ECHO")
        /\ \A on : OneOf(d.out, "do", "ECHO", on) => OneOf(Tail(d.out), "do", "ECHO", on)
        /\ TwoOf(d.out, "do", "ECHO") => TwoOf(Tail(d.out), "do", "ECHO")
    BY <1>1, <1>3, FewRead
  <2> QED BY <2>1, <2>2 DEF EchoRound
<1> QED BY <1>2, <1>3

\* The client refuses its echo.
LEMMA CliDoEchoTaken ==
    ASSUME NEW p0 \in Client, "ECHO" \in Options, NEW yes \in BOOLEAN, ~yes
    PROVE  Taken(p0, CliDoOption(p0, "ECHO"), "will", "ECHO", TRUE, yes)
<1> DEFINE p == Answered(p0, "will", "ECHO", TRUE)
           z == CliDoOption(p0, "ECHO")
           on == TRUE
<1>0. p0 \in Peer /\ "will" \in Sides /\ on \in BOOLEAN
  BY DEF Peer, Sides
<1>1. p \in Peer
  BY <1>0, AnsweredOnly
<1>2. z = SetState(IF Asked(p, "will", "ECHO", TRUE) THEN Refuse(p, "will", "ECHO") ELSE p,
                   "will", "ECHO", TRUE)
  <2>1. "ECHO" \notin CliDoOk
    BY DEF CliDoOk
  <2>2. ~(Asked(p, "will", "ECHO", TRUE) /\ Confirmed(p, "will", "ECHO", TRUE))
    BY DEF Asked, Confirmed
  <2> HIDE DEF p
  <2>3. CASE Asked(p, "will", "ECHO", TRUE)
    BY <2>1, <2>2, <2>3 DEF CliDoOption, p
  <2>4. CASE ~Asked(p, "will", "ECHO", TRUE)
    BY <2>1, <2>2, <2>4 DEF CliDoOption, p
  <2> QED BY <2>3, <2>4
<1> HIDE DEF z, p
<1>3. CASE Asked(p, "will", "ECHO", on)
  <2>1. Only(p, Refuse(p, "will", "ECHO"), "will", "ECHO")
        /\ Replies(p, Refuse(p, "will", "ECHO"), "will", "ECHO", on, yes)
    BY <1>0, <1>1, <1>3, RefuseReplies
  <2> QED BY <1>0, <1>2, <1>3, <2>1, RepliesTaken DEF p, z
<1>4. CASE ~Asked(p, "will", "ECHO", on)
  <2>1. Only(p, p, "will", "ECHO") /\ Replies(p, p, "will", "ECHO", on, yes)
    BY <1>0, <1>1, <1>4, QuietReplies
  <2> QED BY <1>0, <1>2, <1>4, <2>1, RepliesTaken DEF p, z
<1> QED BY <1>3, <1>4

\* What the four machines make of the messages of the round.
LEMMA EchoMachines ==
    ASSUME NEW n, NEW out, NEW out2, NEW s, NEW o, NEW on \in BOOLEAN, NEW yes \in BOOLEAN, ~yes
    PROVE  /\ on /\ Takes(Default, n, out, out2, s, o, on, yes) =>
                 n = Declined /\ Says(out, out2, s, o, FALSE)
           /\ on /\ Takes(Declined, n, out, out2, s, o, on, yes) =>
                 n = Declined /\ Says(out, out2, s, o, FALSE)
           /\ ~on /\ Takes(Declined, n, out, out2, s, o, on, yes) =>
                 n = Default /\ Grows(out, out2, s, o)
           /\ ~on /\ Takes(Wanted, n, out, out2, s, o, on, yes) =>
                 n = Default /\ Grows(out, out2, s, o)
           /\ ~on /\ Takes(Granted, n, out, out2, s, o, on, yes) =>
                 n = Default /\ Says(out, out2, s, o, FALSE)
<1>1. /\ Counted(Default, on) = 0 /\ Counted(Declined, on) = 0
      /\ Counted(Wanted, on) = 0 /\ Counted(Granted, on) = 0
  BY DEF Counted, Default, Declined, Wanted, Granted
<1>2. /\ Default.want = FALSE /\ Declined.want = FALSE /\ Wanted.want = TRUE
      /\ Granted.want = TRUE /\ Wanted.state = FALSE /\ Granted.state = TRUE
  BY DEF Default, Declined, Wanted, Granted
<1>3. (on /\ yes) = FALSE
  OBVIOUS
<1>4. ASSUME on, NEW m, Counted(m, on) = 0, m.want = FALSE,
             Takes(m, n, out, out2, s, o, on, yes)
      PROVE  n = Declined /\ Says(out, out2, s, o, FALSE)
  BY <1>3, <1>4 DEF Takes, Declined
<1>5. ASSUME ~on, NEW m, Counted(m, on) = 0, m.want = FALSE,
             Takes(m, n, out, out2, s, o, on, yes)
      PROVE  n = Default /\ Grows(out, out2, s, o)
  BY <1>3, <1>5 DEF Takes, Default
<1>6. ASSUME ~on, NEW m, Counted(m, on) = 0, m.want = TRUE,
             Takes(m, n, out, out2, s, o, on, yes)
      PROVE  /\ n = Default
             /\ IF m.state THEN Says(out, out2, s, o, FALSE) ELSE Grows(out, out2, s, o)
  BY <1>3, <1>6 DEF Takes, Default
<1> QED BY <1>1, <1>2, <1>4, <1>5, <1>6

\* The client takes a message about its echo.
LEMMA CliEchoTakes ==
    ASSUME NEW c \in Client, NEW z \in Client, NEW d \in Server, EchoRound(c, d),
           d.out # <<>>, About(Head(d.out), "do", "ECHO"), NEW yes \in BOOLEAN, ~yes,
           Taken(c, z, "will", "ECHO", Head(d.out).on, yes)
    PROVE  EchoRound(z, Read(d))
<1> DEFINE k == c.opt["will"]["ECHO"]
           n == z.opt["will"]["ECHO"]
           on == Head(d.out).on
<1>0. c \in Peer /\ z \in Peer /\ d \in Peer
  BY DEF Peer
<1>1. /\ c.out \in Seq(Message) /\ z.out \in Seq(Message) /\ d.out \in Seq(Message)
      /\ Read(d).opt = d.opt /\ Read(d).out = Tail(d.out) /\ Read(d).phase = d.phase
      /\ on \in BOOLEAN
  BY <1>0, OutType, ReadType DEF Message
<1>2. Takes(k, n, c.out, z.out, "will", "ECHO", on, yes)
  BY DEF Taken
<1>3. /\ ~NoneOf(d.out, "do", "ECHO")
      /\ \A b : OneOf(d.out, "do", "ECHO", b) => on = b /\ NoneOf(Tail(d.out), "do", "ECHO")
      /\ TwoOf(d.out, "do", "ECHO") => on = FALSE /\ OneOf(Tail(d.out), "do", "ECHO", TRUE)
  BY <1>1, FewRead
<1>4. /\ on /\ k \in {Default, Declined} => n = Declined /\ Says(c.out, z.out, "will", "ECHO", FALSE)
      /\ ~on /\ k = Declined => n = Default /\ Grows(c.out, z.out, "will", "ECHO")
  BY <1>1, <1>2, EchoMachines
<1>5. /\ NoneOf(c.out, "will", "ECHO") /\ Grows(c.out, z.out, "will", "ECHO") =>
            NoneOf(z.out, "will", "ECHO")
      /\ NoneOf(c.out, "will", "ECHO") /\ Says(c.out, z.out, "will", "ECHO", FALSE) =>
            OneOf(z.out, "will", "ECHO", FALSE)
  BY <1>1, FewGrow, FewSay
<1> HIDE DEF k, n, on
<1>6. /\ k \in {Default, Declined}
      /\ d.opt["do"]["ECHO"] = Granted => d.phase \in {"main", "exit"}
      /\ NoneOf(c.out, "will", "ECHO")
      /\ \/ d.opt["do"]["ECHO"] = Default /\ OneOf(d.out, "do", "ECHO", FALSE) /\ k = Declined
         \/ /\ d.opt["do"]["ECHO"] \in {Wanted, Granted}
            /\ OneOf(d.out, "do", "ECHO", TRUE)
         \/ /\ d.opt["do"]["ECHO"] \in {Wanted, Granted}
            /\ TwoOf(d.out, "do", "ECHO") /\ k = Declined
  BY <1>3 DEF EchoRound, k
<1>7. CASE d.opt["do"]["ECHO"] = Default /\ OneOf(d.out, "do", "ECHO", FALSE) /\ k = Declined
  <2>1. ~on /\ NoneOf(Tail(d.out), "do", "ECHO")
    BY <1>3, <1>7
  <2>2. n = Default /\ NoneOf(z.out, "will", "ECHO")
    BY <1>4, <1>5, <1>6, <1>7, <2>1
  <2> QED BY <1>1, <1>6, <1>7, <2>1, <2>2 DEF EchoRound, n
<1>8. CASE /\ d.opt["do"]["ECHO"] \in {Wanted, Granted}
           /\ OneOf(d.out, "do", "ECHO", TRUE)
  <2>1. on = TRUE /\ NoneOf(Tail(d.out), "do", "ECHO")
    BY <1>3, <1>8
  <2>2. n = Declined /\ OneOf(z.out, "will", "ECHO", FALSE)
    BY <1>4, <1>5, <1>6, <2>1
  <2> QED BY <1>1, <1>6, <1>8, <2>1, <2>2 DEF EchoRound, n
<1>9. CASE /\ d.opt["do"]["ECHO"] \in {Wanted, Granted}
           /\ TwoOf(d.out, "do", "ECHO") /\ k = Declined
  <2>1. ~on /\ OneOf(Tail(d.out), "do", "ECHO", TRUE)
    BY <1>3, <1>9
  <2>2. n = Default /\ NoneOf(z.out, "will", "ECHO")
    BY <1>4, <1>5, <1>6, <1>9, <2>1
  <2> QED BY <1>1, <1>6, <1>9, <2>1, <2>2 DEF EchoRound, n
<1> QED BY <1>6, <1>7, <1>8, <1>9

\* The server takes the refusal.
LEMMA SrvEchoTakes ==
    ASSUME NEW c \in Client, NEW d \in Server, NEW z \in Server, EchoRound(c, d),
           c.out # <<>>, About(Head(c.out), "will", "ECHO"), NEW yes \in BOOLEAN, ~yes,
           Head(c.out).on = FALSE => Taken(d, z, "do", "ECHO", Head(c.out).on, yes)
    PROVE  EchoRound(Read(c), z)
<1> DEFINE m == d.opt["do"]["ECHO"]
           n == z.opt["do"]["ECHO"]
           on == Head(c.out).on
<1>0. c \in Peer /\ z \in Peer /\ d \in Peer
  BY DEF Peer
<1>1. /\ c.out \in Seq(Message) /\ z.out \in Seq(Message) /\ d.out \in Seq(Message)
      /\ Read(c).opt = c.opt /\ Read(c).out = Tail(c.out) /\ on \in BOOLEAN
  BY <1>0, OutType, ReadType DEF Message
<1>2. /\ ~NoneOf(c.out, "will", "ECHO")
      /\ OneOf(c.out, "will", "ECHO", FALSE) => on = FALSE /\ NoneOf(Tail(c.out), "will", "ECHO")
  BY <1>1, FewRead
<1>3. /\ m \in {Wanted, Granted} /\ OneOf(c.out, "will", "ECHO", FALSE)
      /\ NoneOf(d.out, "do", "ECHO") /\ c.opt["will"]["ECHO"] = Declined
  BY <1>2 DEF EchoRound
<1>4. on = FALSE /\ NoneOf(Tail(c.out), "will", "ECHO")
  BY <1>2, <1>3
<1>5. Takes(m, n, d.out, z.out, "do", "ECHO", on, yes)
  BY <1>4 DEF Taken
<1>6. /\ n = Default
      /\ Grows(d.out, z.out, "do", "ECHO") \/ Says(d.out, z.out, "do", "ECHO", FALSE)
  <2>1. ~on /\ on \in BOOLEAN
    BY <1>4
  <2> HIDE DEF m, n, on
  <2>2. CASE m = Wanted
    BY <1>5, <2>1, <2>2, EchoMachines
  <2>3. CASE m = Granted
    BY <1>5, <2>1, <2>3, EchoMachines
  <2> QED BY <1>3, <2>2, <2>3
<1>7. NoneOf(z.out, "do", "ECHO") \/ OneOf(z.out, "do", "ECHO", FALSE)
  BY <1>1, <1>3, <1>6, FewGrow, FewSay
<1>8. Default # Granted
  BY DEF Default, Granted
<1> HIDE DEF m, on
<1> QED BY <1>1, <1>3, <1>4, <1>6, <1>7, <1>8 DEF EchoRound

\* The server asks for the client's echo.
LEMMA SrvEchoAsks ==
    ASSUME NEW c \in Client, NEW d \in Server, EchoRound(c, d), "ECHO" \in Options
    PROVE  EchoRound(c, Request(d, "do", "ECHO", TRUE))
<1> DEFINE z == Request(d, "do", "ECHO", TRUE)
           m == d.opt["do"]["ECHO"]
           n == z.opt["do"]["ECHO"]
<1>0. d \in Peer /\ "do" \in Sides /\ TRUE \in BOOLEAN
  BY DEF Peer, Sides
<1>1. Only(d, z, "do", "ECHO") /\ z \in Peer /\ Wishes(d, z, "do", "ECHO")
  BY <1>0, RequestAsks
<1>2. m.want = TRUE => z = d
  BY DEF Request
<1> HIDE DEF z
<1>3. z \in Server /\ (d.phase \in {"main", "exit"} => z.phase \in {"main", "exit"})
  BY <1>1, OnlyPeer DEF Only
<1>4. d.out \in Seq(Message) /\ z.out \in Seq(Message)
  BY <1>0, <1>1, OutType
<1>5. CASE m \in {Wanted, Granted}
  <2>1. m.want = TRUE
    BY <1>5 DEF Wanted, Granted
  <2>2. z = d
    BY <1>2, <2>1
  <2> QED BY <2>2 DEF z
<1>6. CASE m = Default
  <2>1. m.want = FALSE /\ m.state = FALSE /\ m.resp = 0
    BY <1>6 DEF Default
  <2>2. \/ n = m /\ Grows(d.out, z.out, "do", "ECHO")
        \/ n = Wanted /\ Says(d.out, z.out, "do", "ECHO", TRUE)
    <3>1. Asks(m, n, d.out, z.out, "do", "ECHO")
      BY <1>1 DEF Wishes
    <3> HIDE DEF m, n
    <3>2. CASE n = m /\ Grows(d.out, z.out, "do", "ECHO")
      BY <3>2
    <3>3. ASSUME NEW on \in BOOLEAN, m.want # on,
                 n = [state |-> m.state, want |-> on, resp |-> m.resp + 1],
                 Says(d.out, z.out, "do", "ECHO", on)
          PROVE  n = Wanted /\ Says(d.out, z.out, "do", "ECHO", TRUE)
      <4>1. on = TRUE
        BY <2>1, <3>3
      <4>2. m.resp + 1 = 1
        BY <2>1
      <4>3. n = [state |-> FALSE, want |-> TRUE, resp |-> 1]
        BY <2>1, <3>3, <4>1, <4>2, Zenon
      <4>4. Says(d.out, z.out, "do", "ECHO", TRUE)
        BY <3>3, <4>1, Zenon
      <4> QED BY <4>3, <4>4 DEF Wanted
    <3> QED BY <3>1, <3>2, <3>3 DEF Asks
  <2>3. CASE n = m /\ Grows(d.out, z.out, "do", "ECHO")
    <3>1. Same(d, z, "do", "ECHO") /\ Same(c, c, "will", "ECHO")
      BY <2>3, SameItself DEF Same, Peer
    <3> QED BY <1>3, <3>1, EchoSame DEF z
  <2>4. CASE n = Wanted /\ Says(d.out, z.out, "do", "ECHO", TRUE)
    <3>1. /\ c.opt["will"]["ECHO"] \in {Default, Declined}
          /\ NoneOf(c.out, "will", "ECHO")
          /\ \/ NoneOf(d.out, "do", "ECHO")
             \/ OneOf(d.out, "do", "ECHO", FALSE) /\ c.opt["will"]["ECHO"] = Declined
      <4>1. Default # Wanted /\ Default # Granted
        BY DEF Default, Wanted, Granted
      <4> QED BY <1>6, <4>1 DEF EchoRound
    <3>2. \/ OneOf(z.out, "do", "ECHO", TRUE)
          \/ TwoOf(z.out, "do", "ECHO") /\ c.opt["will"]["ECHO"] = Declined
      BY <1>4, <2>4, <3>1, FewSay
    <3>3. Wanted # Granted
      BY DEF Wanted, Granted
    <3>4. EchoRound(c, z)
      BY <2>4, <3>1, <3>2, <3>3 DEF EchoRound
    <3> QED BY <3>4 DEF z
  <2> QED BY <2>2, <2>3, <2>4
<1> QED BY <1>5, <1>6 DEF EchoRound

\* The server goes on as if the client had agreed to echo.
LEMMA EchoFaked ==
    ASSUME NEW d \in Server, "ECHO" \in Options, d.opt["do"]["ECHO"] = Wanted
    PROVE  LET z == SrvWillOption(d, "ECHO")
           IN  z.opt["do"]["ECHO"] = Granted /\ z.out = d.out
<1> DEFINE p == Answered(d, "do", "ECHO", TRUE)
           r == SetState(p, "do", "ECHO", TRUE)
           z == SrvWillOption(d, "ECHO")
<1>0. d \in Peer /\ "do" \in Sides /\ TRUE \in BOOLEAN
  BY DEF Peer, Sides
<1>1. /\ p \in Peer /\ p.out = d.out
      /\ p.opt["do"]["ECHO"] = [state |-> d.opt["do"]["ECHO"].state,
                                want |-> d.opt["do"]["ECHO"].want,
                                resp |-> Counted(d.opt["do"]["ECHO"], TRUE)]
  BY <1>0, AnsweredOnly
<1>2. Counted(Wanted, TRUE) = 0 /\ Wanted.state = FALSE /\ Wanted.want = TRUE
  BY DEF Counted, Wanted
<1>3. p.opt["do"]["ECHO"] = [state |-> FALSE, want |-> TRUE, resp |-> 0]
  BY <1>1, <1>2
<1>3a. /\ p.opt["do"]["ECHO"].want = TRUE /\ p.opt["do"]["ECHO"].resp = 0
       /\ p.opt["do"]["ECHO"].state = FALSE
  <2> DEFINE n == p.opt["do"]["ECHO"]
  <2>1. n = [state |-> FALSE, want |-> TRUE, resp |-> 0]
    BY <1>3
  <2> HIDE DEF n
  <2>2. n.want = TRUE /\ n.resp = 0 /\ n.state = FALSE
    BY <2>1
  <2> QED BY <2>2 DEF n
<1> DEFINE q == Request(p, "do", "ECHO", FALSE)
<1>4. q = p
  BY <1>3a DEF Request
<1>5. /\ ~Asked(p, "do", "ECHO", TRUE) /\ Confirmed(p, "do", "ECHO", TRUE)
  BY <1>3a DEF Asked, Confirmed
<1>6. z = [r EXCEPT !.not42 = FALSE]
  <2> HIDE DEF p
  <2> QED BY <1>3a, <1>4, <1>5 DEF SrvWillOption, p
<1> HIDE DEF p
<1>7. /\ r \in Peer /\ r.out = p.out
      /\ r.opt["do"]["ECHO"] = [state |-> TRUE, want |-> p.opt["do"]["ECHO"].want,
                                resp |-> p.opt["do"]["ECHO"].resp]
  BY <1>0, <1>1, SetStateOnly
<1> HIDE DEF r
<1>8. z.opt = r.opt /\ z.out = r.out
  BY <1>6, <1>7 DEF Peer, Client, Server
<1> HIDE DEF z
<1> QED BY <1>1, <1>3a, <1>7, <1>8 DEF Granted, z

\* The server goes on as if the client had agreed to echo: nothing more is said
\* until the answer comes.
LEMMA EchoGranted ==
    ASSUME NEW c \in Client, NEW d \in Server, NEW z \in Server, EchoRound(c, d),
           d.opt["do"]["ECHO"] = Wanted, z.opt["do"]["ECHO"] = Granted,
           Grows(d.out, z.out, "do", "ECHO"), z.phase = "main"
    PROVE  EchoRound(c, z)
<1>1. d.out \in Seq(Message) /\ z.out \in Seq(Message)
  BY OutType DEF Peer
<1>2. Wanted # Default /\ Granted # Default
  BY DEF Wanted, Default, Granted
<1>3. /\ NoneOf(d.out, "do", "ECHO") => NoneOf(z.out, "do", "ECHO")
      /\ \A on : OneOf(d.out, "do", "ECHO", on) => OneOf(z.out, "do", "ECHO", on)
      /\ TwoOf(d.out, "do", "ECHO") => TwoOf(z.out, "do", "ECHO")
  BY <1>1, FewGrow
<1> QED BY <1>2, <1>3 DEF EchoRound

-----------------------------------------------------------------------------
(* The invariant the agreement follows from.                               *)

\* What the two programs ask for in a row.
CliAsks == (Sides \X AllOptions) \ {<<"will", "ECHO">>}

SrvAsks == {<<"do", x>> : x \in (SrvWillOk \ {"BINARY"}) \cup {"ECHO"}}
             \cup {<<"will", x>> : x \in SrvDoOk}

\* The client's echo is negotiated, and the user cannot offer it.
EchoKnown == "ECHO" \in Options /\ <<"will", "ECHO">> \notin Commands

EightBit(d) == d.opt["do"]["BINARY"].want => ~d.istrip

Agreed(c, d) ==
    /\ Paired(c, d)
    /\ c.todo \in Seq(CliAsks)
    /\ d.todo \in Seq(SrvAsks)
    /\ EchoKnown => EchoRound(c, d)
    /\ "BINARY" \in Options => EightBit(d)

\* The modes of the pty are set only where BINARY is accepted or given up.
LEMMA IstripStays ==
    ASSUME NEW d \in Server, NEW s \in Sides, NEW o \in Options, NEW on \in BOOLEAN
    PROVE  /\ SetState(d, s, o, on).istrip = d.istrip
           /\ Answered(d, s, o, on).istrip = d.istrip
           /\ Accept(d, s, o).istrip = d.istrip
<1>1. \A m : Put(d, s, o, m).istrip = d.istrip
  BY DEF Put, Server
<1>2. SetState(d, s, o, on).istrip = d.istrip /\ Answered(d, s, o, on).istrip = d.istrip
  BY <1>1 DEF SetState, Answered, SetResp
<1>3. SetWant(d, s, o, TRUE) \in Server /\ SetWant(d, s, o, TRUE).istrip = d.istrip
  <2>1. d \in Peer /\ TRUE \in BOOLEAN
    BY DEF Peer
  <2>2. Only(d, SetWant(d, s, o, TRUE), s, o)
    BY <2>1, SetWantOnly
  <2> QED BY <1>1, <2>2, OnlyPeer DEF SetWant
<1>4. \A w \in Server : Write(w, s, o, TRUE).istrip = w.istrip
  BY DEF Write, Server
<1> QED BY <1>2, <1>3, <1>4 DEF Accept

\* The server stops stripping the eighth bit when it accepts BINARY.
LEMMA SrvBinaryWill ==
    ASSUME NEW d \in Server, "BINARY" \in Options, EightBit(d)
    PROVE  EightBit(SrvWillOption(d, "BINARY"))
<1> DEFINE o == "BINARY"
           on == TRUE
           p == Answered(d, "do", o, on)
           i == PtyIn(p, o)
           q == IF Asked(p, "do", o, on) THEN Accept(i, "do", o) ELSE p
           z == SetState(q, "do", o, on)
<1>0. d \in Peer /\ "do" \in Sides /\ o \in Options /\ on \in BOOLEAN
  BY DEF Peer, Sides
<1>1a. /\ Only(d, p, "do", o) /\ p \in Peer
       /\ p.opt["do"][o] = [state |-> d.opt["do"][o].state, want |-> d.opt["do"][o].want,
                            resp |-> Counted(d.opt["do"][o], on)]
  <2> HIDE DEF on
  <2> QED BY <1>0, AnsweredOnly
<1>1. /\ Only(d, p, "do", o) /\ p \in Peer /\ p.opt["do"][o].want = d.opt["do"][o].want
  <2> HIDE DEF p
  <2> QED BY <1>1a
<1>2. p \in Server /\ p.istrip = d.istrip
  BY <1>0, <1>1, OnlyPeer, IstripStays
<1>3. SrvWillOption(d, o) = z
  <2>1. "BINARY" \in SrvWillOk
    BY DEF SrvWillOk
  <2>2. ~(Asked(p, "do", o, on) /\ Confirmed(p, "do", o, on))
    BY DEF Asked, Confirmed
  <2> HIDE DEF p
  <2> QED BY <2>1, <2>2 DEF SrvWillOption, p
<1> HIDE DEF p, on
<1>4. i \in Server /\ i.istrip = FALSE
  BY <1>2 DEF PtyIn, Server
<1> HIDE DEF i
<1>5. Asked(p, "do", o, on) => q \in Server /\ q.istrip = FALSE
  <2>1. i \in Peer
    BY <1>4 DEF Peer
  <2>2. Only(i, Accept(i, "do", o), "do", o) /\ Accept(i, "do", o).istrip = FALSE
    BY <1>0, <1>4, <2>1, AcceptOnly, IstripStays
  <2>3. Accept(i, "do", o) \in Server
    BY <1>4, <2>2, OnlyPeer
  <2> QED BY <2>2, <2>3
<1>6. ~Asked(p, "do", o, on) => q = p
  OBVIOUS
<1>7. q \in Server /\ q \in Peer
  BY <1>2, <1>5, <1>6 DEF Peer
<1> HIDE DEF q
<1>8. z.istrip = q.istrip
  BY <1>0, <1>7, IstripStays
<1>8a. z.opt["do"][o] = [state |-> on, want |-> q.opt["do"][o].want,
                        resp |-> q.opt["do"][o].resp]
  BY <1>0, <1>7, SetStateOnly
<1> HIDE DEF z
<1>9. z.opt["do"][o].want = q.opt["do"][o].want
  BY <1>8a
<1>10. EightBit(z)
  BY <1>1, <1>2, <1>5, <1>6, <1>8, <1>9 DEF EightBit
<1> QED BY <1>3, <1>10

\* The server may strip it again when BINARY is off.
LEMMA SrvBinaryWont ==
    ASSUME NEW d \in Server, "BINARY" \in Options, EightBit(d)
    PROVE  EightBit(SrvWontOption(d, "BINARY"))
<1> DEFINE o == "BINARY"
           on == FALSE
           p == Answered(d, "do", o, on)
           i == TurnedOff(p, o)
           q == IF Asked(p, "do", o, on) THEN Concede(i, "do", o) ELSE p
           z == SetState(q, "do", o, on)
<1>0. d \in Peer /\ "do" \in Sides /\ o \in Options /\ on \in BOOLEAN
  BY DEF Peer, Sides
<1>1a. /\ Only(d, p, "do", o) /\ p \in Peer
       /\ p.opt["do"][o] = [state |-> d.opt["do"][o].state, want |-> d.opt["do"][o].want,
                            resp |-> Counted(d.opt["do"][o], on)]
  <2> HIDE DEF on
  <2> QED BY <1>0, AnsweredOnly
<1>1. /\ Only(d, p, "do", o) /\ p \in Peer /\ p.opt["do"][o].want = d.opt["do"][o].want
  <2> HIDE DEF p
  <2> QED BY <1>1a
<1>2. p \in Server /\ p.istrip = d.istrip
  BY <1>0, <1>1, OnlyPeer, IstripStays
<1>3. SrvWontOption(d, o) = z
  BY DEF SrvWontOption
<1> HIDE DEF p, on
<1>4. i \in Server
  BY <1>2, TurnedOffOnly
<1> HIDE DEF i
<1>5. Asked(p, "do", o, on) => q \in Server /\ q.opt["do"][o].want = FALSE
  <2>1. i \in Peer
    BY <1>4 DEF Peer
  <2> DEFINE e == Concede(i, "do", o)
  <2>2a. /\ Only(i, e, "do", o)
         /\ e.opt["do"][o] = [state |-> i.opt["do"][o].state, want |-> FALSE,
                              resp |-> i.opt["do"][o].resp]
    BY <1>0, <2>1, ConcedeOnly
  <2> HIDE DEF e
  <2>2b. Only(i, e, "do", o) /\ e.opt["do"][o].want = FALSE
    BY <2>2a
  <2>2. /\ Only(i, Concede(i, "do", o), "do", o)
        /\ Concede(i, "do", o).opt["do"][o].want = FALSE
    BY <2>2b DEF e
  <2>3. Concede(i, "do", o) \in Server
    BY <1>4, <2>2, OnlyPeer
  <2> QED BY <2>2, <2>3
<1>6. ~Asked(p, "do", o, on) => q = p
  OBVIOUS
<1>7. q \in Server /\ q \in Peer
  BY <1>2, <1>5, <1>6 DEF Peer
<1> HIDE DEF q
<1>8. z.istrip = q.istrip
  BY <1>0, <1>7, IstripStays
<1>8a. z.opt["do"][o] = [state |-> on, want |-> q.opt["do"][o].want,
                        resp |-> q.opt["do"][o].resp]
  BY <1>0, <1>7, SetStateOnly
<1> HIDE DEF z
<1>9. z.opt["do"][o].want = q.opt["do"][o].want
  BY <1>8a
<1>10. EightBit(z)
  BY <1>1, <1>2, <1>5, <1>6, <1>8, <1>9 DEF EightBit
<1> QED BY <1>3, <1>10

-----------------------------------------------------------------------------
(* The client's side.                                                      *)

\* The client's half of Agreed: its machines are still pairs, and the echo has not
\* been touched.
LEMMA CliAgreed ==
    ASSUME NEW c \in Client, NEW z \in Client, NEW d \in Server, Agreed(c, d),
           Paired(z, d), z.todo \in Seq(CliAsks), EchoKnown => Same(c, z, "will", "ECHO")
    PROVE  Agreed(z, d)
<1>1. Same(d, d, "do", "ECHO")
  BY SameItself DEF Peer
<1>2. EchoKnown => EchoRound(z, d)
  BY <1>1, EchoSame DEF Agreed
<1> QED BY <1>2 DEF Agreed

\* The client asks for a change the user may ask for.
LEMMA CliRequestAgreed ==
    ASSUME NEW c \in Client, NEW d \in Server, Agreed(c, d),
           NEW s \in Sides, NEW o \in Options, NEW on \in BOOLEAN,
           ~(s = "will" /\ o = "ECHO") \/ <<"will", "ECHO">> \in Commands
    PROVE  Request(c, s, o, on) \in Client /\ Agreed(Request(c, s, o, on), d)
<1> DEFINE z == Request(c, s, o, on)
<1>1. z \in Client /\ Paired(z, d) /\ Only(c, z, s, o)
  BY CliRequestPaired DEF Agreed
<1> HIDE DEF z
<1>2. z.todo = c.todo
  BY <1>1 DEF Only
<1>3. EchoKnown => Same(c, z, "will", "ECHO")
  BY <1>1 DEF EchoKnown, Only, Sides
<1>4. Agreed(z, d)
  BY <1>1, <1>2, <1>3, CliAgreed DEF Agreed
<1> QED BY <1>1, <1>4 DEF z

\* A field of the client's, or the requests it has still to make.
LEMMA CliFieldAgreed ==
    ASSUME NEW c \in Client, NEW z \in Client, NEW d \in Server, Agreed(c, d),
           z.opt = c.opt, z.out = c.out, z.todo \in Seq(CliAsks)
    PROVE  Agreed(z, d)
<1>1. c.out \in Seq(Message)
  BY OutType DEF Peer
<1>2. \A t, x : Same(c, z, t, x)
  BY <1>1, GrowsItself DEF Same
<1>3. Paired(z, d)
  BY <1>2, CliSamePaired DEF Agreed
<1> QED BY <1>2, <1>3, CliAgreed

\* A DO TM that is not counted.
LEMMA FlushAgreed ==
    ASSUME NEW c \in Client, NEW d \in Server, Agreed(c, d), "TM" \in Options
    PROVE  Agreed(Write(c, "do", "TM", TRUE), d)
<1> DEFINE z == Write(c, "do", "TM", TRUE)
<1>0. c \in Peer /\ "do" \in Sides /\ TRUE \in BOOLEAN
  BY DEF Peer, Sides
<1>1. Only(c, z, "do", "TM")
  BY <1>0, WriteOnly
<1> HIDE DEF z
<1>2. z \in Client /\ z.todo = c.todo
  BY <1>1, OnlyPeer DEF Only
<1>3. \A t \in Sides, x \in Options : x # "TM" => Same(c, z, t, x)
  BY <1>1 DEF Only
<1>4. Paired(z, d)
  BY <1>2, <1>3, CliSamePaired DEF Agreed
<1>5. EchoKnown => Same(c, z, "will", "ECHO")
  BY <1>3 DEF EchoKnown, Sides
<1>6. Agreed(z, d)
  BY <1>2, <1>4, <1>5, CliAgreed DEF Agreed
<1> QED BY <1>6 DEF z

\* telrcv() in the client.
LEMMA CliRecvAgreed ==
    ASSUME NEW c \in Client, NEW d \in Server, Agreed(c, d), d.out # <<>>
    PROVE  Agreed(CliReceive(c, Head(d.out)), Read(d))
<1> DEFINE m == Head(d.out)
           z == CliReceive(c, m)
<1>0. d \in Peer /\ c \in Peer /\ m \in Message
  BY ReadType DEF Peer
<1>1. ~(m.side = "do" /\ m.opt = "LINEMODE" /\ m.on)
  BY NoLinemode DEF Agreed
<1>2. /\ z \in Client /\ z.todo = c.todo
      /\ \A t \in Sides, x \in Options :
            /\ ~About(m, Other(t), x)
            /\ ~(t = "will" /\ x \in {"OLD_ENVIRON", "XDISPLOC"})
            => Same(c, z, t, x)
      /\ m.side \in Sides /\ m.opt # "TM" =>
            \E yes \in BOOLEAN : Taken(c, z, Other(m.side), m.opt, m.on, yes)
  BY <1>0, <1>1, CliReceiveTakes
<1>3. Paired(z, Read(d))
  BY CliRecvPaired DEF Agreed
<1>4. /\ Read(d) \in Server /\ Read(d).opt = d.opt /\ Read(d).todo = d.todo
      /\ Read(d).istrip = d.istrip
  BY <1>0, ReadType
<1>5. ASSUME EchoKnown PROVE EchoRound(z, Read(d))
  <2>0. EchoRound(c, d) /\ "ECHO" \in Options
    BY <1>5 DEF Agreed, EchoKnown
  <2>1. CASE ~About(m, "do", "ECHO")
    <3>1. Same(c, z, "will", "ECHO")
      BY <1>2, <2>0, <2>1 DEF Sides, Other
    <3>2. EchoRound(c, Read(d))
      BY <2>0, <2>1, EchoSkips
    <3>3. Same(Read(d), Read(d), "do", "ECHO")
      BY <1>4, SameItself DEF Peer
    <3> QED BY <1>2, <1>4, <3>1, <3>2, <3>3, EchoSame
  <2>2. CASE About(m, "do", "ECHO")
    <3>1. Taken(c, z, "will", "ECHO", m.on, FALSE)
      <4>1. m.side = "do" /\ m.opt = "ECHO"
        BY <2>2 DEF About
      <4>2. CASE m.on
        <5>1. z = CliDoOption(c, "ECHO") /\ m.on = TRUE
          BY <1>0, <4>1, <4>2 DEF CliReceive, Message
        <5> HIDE DEF z
        <5>2. Taken(c, z, "will", "ECHO", TRUE, FALSE)
          BY <2>0, <5>1, CliDoEchoTaken
        <5> QED BY <5>1, <5>2
      <4>3. CASE ~m.on
        <5>1. z = CliDontOption(c, "ECHO") /\ m.on = FALSE
          BY <1>0, <4>1, <4>3 DEF CliReceive, Message
        <5> HIDE DEF z
        <5>2. Taken(c, z, "will", "ECHO", FALSE, FALSE)
          BY <2>0, <5>1, CliDontTaken
        <5> QED BY <5>1, <5>2
      <4> QED BY <4>2, <4>3
    <3> HIDE DEF z
    <3> QED BY <1>2, <2>0, <2>2, <3>1, CliEchoTakes
  <2> QED BY <2>1, <2>2
<1> HIDE DEF z
<1>6. Agreed(z, Read(d))
  BY <1>2, <1>3, <1>4, <1>5 DEF Agreed, EightBit
<1> QED BY <1>6 DEF z

-----------------------------------------------------------------------------
(* The server's side.                                                      *)

\* Nothing about the client's echo, and nothing about BINARY.
LEMMA SrvAgreed ==
    ASSUME NEW c \in Client, NEW d \in Server, NEW z \in Server, Agreed(c, d),
           Paired(c, z), z.todo \in Seq(SrvAsks), EchoKnown => EchoRound(c, z),
           "BINARY" \in Options => Same(d, z, "do", "BINARY") /\ z.istrip = d.istrip
    PROVE  Agreed(c, z)
BY DEF Agreed, EightBit, Same

\* A step that changes what one option is, or none.
LEMMA SrvOnlyAgreed ==
    ASSUME NEW c \in Client, NEW d \in Server, NEW z \in Server, Agreed(c, d),
           NEW s \in Sides, NEW o \in Options, Only(d, z, s, o),
           ~(s = "do" /\ o = "BINARY"), ~Excepted(Other(s), o) => ~Mute(Other(s), o),
           Wishes(d, z, s, o),
           s = "do" /\ o = "ECHO" /\ EchoKnown => EchoRound(c, z)
    PROVE  Agreed(c, z)
<1>1. Paired(c, z)
  <2>1. ASSUME NEW t \in Sides, NEW x \in Options, ~Excepted(Other(t), x)
        PROVE  \/ Same(d, z, t, x)
               \/ ~Mute(Other(t), x) /\ Wishes(d, z, t, x)
    BY <2>1 DEF Only
  <2> QED BY <2>1, SrvSamePaired DEF Agreed
<1>2. z.todo \in Seq(SrvAsks)
  BY DEF Only, Agreed
<1>3. ASSUME EchoKnown PROVE EchoRound(c, z)
  <2>1. CASE s = "do" /\ o = "ECHO"
    BY <1>3, <2>1
  <2>2. CASE ~(s = "do" /\ o = "ECHO")
    <3>1. Same(d, z, "do", "ECHO")
      BY <1>3, <2>2 DEF Only, EchoKnown, Sides
    <3>2. d.phase \in {"main", "exit"} => z.phase \in {"main", "exit"}
      BY DEF Only
    <3>3. Same(c, c, "will", "ECHO")
      BY SameItself DEF Peer
    <3> QED BY <1>3, <3>1, <3>2, <3>3, EchoSame DEF Agreed
  <2> QED BY <2>1, <2>2
<1>4. "BINARY" \in Options => Same(d, z, "do", "BINARY") /\ z.istrip = d.istrip
  BY DEF Only, Sides
<1> QED BY <1>1, <1>2, <1>3, <1>4, SrvAgreed

\* Fields of the server that the agreement does not speak of.
LEMMA SrvFieldAgreed ==
    ASSUME NEW c \in Client, NEW d \in Server, NEW z \in Server, Agreed(c, d),
           z.opt = d.opt, z.out = d.out, z.istrip = d.istrip, z.todo \in Seq(SrvAsks),
           d.phase \in {"main", "exit"} => z.phase \in {"main", "exit"}
    PROVE  Agreed(c, z)
<1>1. d.out \in Seq(Message)
  BY OutType DEF Peer
<1>2. \A t, x : Same(d, z, t, x)
  BY <1>1, GrowsItself DEF Same
<1>3. Paired(c, z)
  BY <1>2, SrvSamePaired DEF Agreed
<1>4. Same(c, c, "will", "ECHO")
  BY SameItself DEF Peer
<1>5. EchoKnown => EchoRound(c, z)
  BY <1>2, <1>4, EchoSame DEF Agreed
<1> QED BY <1>2, <1>3, <1>5, SrvAgreed

\* Asking for one value, and for all of them.
LEMMA AskIfAgreed ==
    ASSUME NEW c \in Client, NEW d \in Server, Agreed(c, d), NEW o,
           NEW asking \in SUBSET Options
    PROVE  LET z == AskIf(d, o, asking)
           IN  z \in Server /\ Agreed(c, z) /\ z.phase = d.phase
<1> DEFINE z == AskIf(d, o, asking)
<1>1. CASE o \notin asking
  BY <1>1 DEF AskIf
<1>2. CASE o \in asking
  <2> DEFINE w == Sub(d, o)
  <2>0. d \in Peer /\ o \in Options /\ "will" \in Sides
    BY <1>2 DEF Peer, Sides
  <2>1. Only(d, w, "will", o) /\ \A t \in Sides, x \in Options : Same(d, w, t, x)
    BY <2>0, SubOnly
  <2>2. w.istrip = d.istrip /\ w.phase = d.phase
    BY DEF Sub, Server
  <2> HIDE DEF w
  <2>3. w \in Server /\ w.todo = d.todo
    BY <2>1, OnlyPeer DEF Only
  <2>4. Paired(c, w)
    BY <2>1, <2>3, SrvSamePaired DEF Agreed
  <2>5. Same(c, c, "will", "ECHO")
    BY SameItself DEF Peer
  <2>6. EchoKnown => EchoRound(c, w)
    BY <2>1, <2>2, <2>3, <2>5, EchoSame DEF Agreed, EchoKnown, Sides
  <2>7. Agreed(c, w)
    BY <2>1, <2>2, <2>3, <2>4, <2>6, SrvAgreed DEF Agreed, Sides
  <2>8. z = w
    BY <1>2 DEF AskIf, w
  <2> QED BY <2>2, <2>3, <2>7, <2>8
<1> QED BY <1>1, <1>2

\* The questions about terminal type and speed are about no option.
LEMMA AskValuesAgreed ==
    ASSUME NEW c \in Client, NEW p \in Server, Agreed(c, p), p.phase \notin {"main", "exit"}
    PROVE  AskValues(p) \in Server /\ Agreed(c, AskValues(p))
<1> DEFINE s == Asking(p)
           a == AskIf(p, "TSPEED", s)
           b == AskIf(a, "XDISPLOC", s)
           g == AskIf(b, "NEW_ENVIRON", s)
           d == AskIf(g, "OLD_ENVIRON", s)
           e == AskIf(d, "TTYPE", s)
           f == [e EXCEPT !.phase = "values"]
<1>1. AskValues(p) = f
  BY DEF AskValues
<1>2. s \in SUBSET Options
  BY DEF Asking, Willing
<1> HIDE DEF s
<1>3. a \in Server /\ Agreed(c, a) /\ a.phase = p.phase
  BY <1>2, AskIfAgreed
<1> HIDE DEF a
<1>4. b \in Server /\ Agreed(c, b) /\ b.phase = a.phase
  BY <1>2, <1>3, AskIfAgreed
<1> HIDE DEF b
<1>5. g \in Server /\ Agreed(c, g) /\ g.phase = b.phase
  BY <1>2, <1>4, AskIfAgreed
<1> HIDE DEF g
<1>6. d \in Server /\ Agreed(c, d) /\ d.phase = g.phase
  BY <1>2, <1>5, AskIfAgreed
<1> HIDE DEF d
<1>7. e \in Server /\ Agreed(c, e) /\ e.phase = d.phase
  BY <1>2, <1>6, AskIfAgreed
<1> HIDE DEF e
<1>8. /\ f \in Server /\ f.opt = e.opt /\ f.out = e.out /\ f.istrip = e.istrip
      /\ f.todo = e.todo
  BY <1>7 DEF Server, Phases
<1> HIDE DEF f
<1>9. e.phase \notin {"main", "exit"} /\ f.todo \in Seq(SrvAsks)
  BY <1>3, <1>4, <1>5, <1>6, <1>7, <1>8 DEF Agreed
<1>10. Agreed(c, f)
  BY <1>7, <1>8, <1>9, SrvFieldAgreed
<1> QED BY <1>1, <1>8, <1>10

\* A request that getterminaltype() or telnet() makes.
LEMMA SrvRequestAgreed ==
    ASSUME NEW c \in Client, NEW d \in Server, Agreed(c, d), NEW s \in Sides,
           NEW o \in Options, <<s, o>> \in SrvAsks
    PROVE  Agreed(c, SrvRequest(d, s, o))
<1> DEFINE z == Request(d, s, o, TRUE)
<1>0. d \in Peer /\ TRUE \in BOOLEAN
  BY DEF Peer
<1>1. \/ s = "do" /\ o \in (SrvWillOk \ {"BINARY"}) \cup {"ECHO"}
      \/ s = "will" /\ o \in SrvDoOk
  BY DEF SrvAsks
<1>2. SrvRequest(d, s, o) = z
  <2>1. s = "do" => o # "TM"
    BY <1>1 DEF SrvWillOk
  <2> QED BY <2>1 DEF SrvRequest, SrvRequestDo
<1>3. Only(d, z, s, o) /\ Wishes(d, z, s, o)
  BY <1>0, RequestAsks
<1>4. s = "do" /\ o = "ECHO" /\ EchoKnown => EchoRound(c, z)
  BY SrvEchoAsks DEF Agreed, EchoKnown
<1> HIDE DEF z
<1>5. z \in Server
  BY <1>3, OnlyPeer
<1>6. ~(s = "do" /\ o = "BINARY") /\ ~Mute(Other(s), o)
  <2>1. CASE s = "do" /\ o \in (SrvWillOk \ {"BINARY"}) \cup {"ECHO"}
    BY <2>1 DEF Mute, Other
  <2>2. CASE s = "will" /\ o \in SrvDoOk
    BY <2>2 DEF Mute, Other, SrvDoOk, CliWillOk
  <2> QED BY <1>1, <2>1, <2>2
<1>7. Agreed(c, z)
  BY <1>3, <1>4, <1>5, <1>6, SrvOnlyAgreed
<1> QED BY <1>2, <1>7

\* The end of the start up.
LEMMA EchoSettledAgreed ==
    ASSUME NEW c \in Client, NEW d \in Server, Agreed(c, d),
           d.phase \notin {"main", "exit"}
    PROVE  Agreed(c, EchoSettled(d))
<1> DEFINE w == SrvWillOption(d, "ECHO")
           q == IF d.opt["do"]["ECHO"].want THEN w ELSE d
           r == IF q.opt["will"]["ECHO"].state THEN q
                ELSE Request(q, "will", "ECHO", TRUE)
           x == IF "ECHO" \in Options THEN r ELSE d
           e == [x EXCEPT !.phase = "main"]
<1>0. /\ EchoSettled(d) = e
      /\ d \in Peer
      /\ "will" \in Sides
      /\ "do" \in Sides
      /\ TRUE \in BOOLEAN
  BY DEF EchoSettled, Peer, Sides
<1>1. CASE "ECHO" \notin Options
  <2>1. x = d
    BY <1>1
  <2> HIDE DEF x
  <2>2. /\ e \in Server /\ e.opt = d.opt /\ e.out = d.out /\ e.istrip = d.istrip
        /\ e.todo = d.todo /\ e.phase = "main"
    BY <2>1 DEF Server, Phases
  <2> HIDE DEF e
  <2> QED BY <1>0, <2>2, SrvFieldAgreed DEF Agreed
<1>2. CASE "ECHO" \in Options
  <2>1. Only(d, w, "do", "ECHO")
    BY <1>2, SrvWillTaken
  <2>2. Only(d, d, "do", "ECHO")
    BY <1>0, OnlyItself
  <2>3. /\ EchoKnown /\ d.opt["do"]["ECHO"].want =>
              /\ d.opt["do"]["ECHO"] = Wanted
              /\ w.opt["do"]["ECHO"] = Granted /\ w.out = d.out
    <3> SUFFICES ASSUME EchoKnown, d.opt["do"]["ECHO"].want
                 PROVE  /\ d.opt["do"]["ECHO"] = Wanted
                        /\ w.opt["do"]["ECHO"] = Granted /\ w.out = d.out
      OBVIOUS
    <3>1. EchoRound(c, d) /\ ~Default.want
      BY DEF Agreed, Default
    <3>2. d.opt["do"]["ECHO"] = Wanted
      BY <3>1 DEF EchoRound
    <3> QED BY <1>2, <3>2, EchoFaked
  <2> HIDE DEF w
  <2>4. Only(d, q, "do", "ECHO")
    BY <2>1, <2>2
  <2>5. /\ ~d.opt["do"]["ECHO"].want => q = d
        /\ d.opt["do"]["ECHO"].want => q = w
    OBVIOUS
  <2> HIDE DEF q
  <2>6. q \in Server /\ q \in Peer
    BY <2>4, OnlyPeer
  <2>7. Only(q, r, "will", "ECHO") /\ Wishes(q, r, "will", "ECHO")
    <3>1. Only(q, q, "will", "ECHO") /\ Wishes(q, q, "will", "ECHO")
      BY <2>6, OnlyItself, SameItself, WishesSame
    <3>2. LET z == Request(q, "will", "ECHO", TRUE)
          IN  Only(q, z, "will", "ECHO") /\ Wishes(q, z, "will", "ECHO")
      BY <1>0, <1>2, <2>6, RequestAsks
    <3> QED BY <3>1, <3>2
  <2>8. x = r
    BY <1>2
  <2> HIDE DEF r, x
  <2>9. r \in Server /\ r \in Peer
    BY <2>6, <2>7, OnlyPeer
  <2>10. /\ e \in Server /\ e.opt = r.opt /\ e.out = r.out /\ e.istrip = r.istrip
         /\ e.todo = r.todo /\ e.phase = "main"
    BY <2>8, <2>9 DEF Server, Phases
  <2> HIDE DEF e
  <2>11. \A t, y : Same(r, e, t, y)
    BY <2>9, <2>10, OutType, GrowsItself DEF Same
  <2>11a. e \in Peer
    BY <2>10 DEF Peer
  <2>12. e.istrip = d.istrip /\ e.todo \in Seq(SrvAsks)
    BY <2>4, <2>6, <2>7, <2>10 DEF Only, Agreed
  <2>13. ASSUME NEW t \in Sides, NEW y \in Options, ~(t = "do" /\ y = "ECHO")
         PROVE  /\ ~(t = "will" /\ y = "ECHO") => Same(d, e, t, y)
                /\ Wishes(d, e, t, y)
    <3>1. Same(d, q, t, y)
      BY <2>4, <2>13 DEF Only
    <3>2. ~(t = "will" /\ y = "ECHO") => Same(q, r, t, y)
      BY <2>7 DEF Only
    <3>3. Same(q, r, t, y) => Same(d, e, t, y)
      BY <1>0, <2>6, <2>9, <2>11, <2>11a, <3>1, SameTrans
    <3>4. Wishes(q, r, t, y) => Wishes(d, e, t, y)
      BY <1>0, <2>6, <2>9, <2>11, <2>11a, <3>1, WishesSame
    <3>5. t = "will" /\ y = "ECHO" => Wishes(d, e, t, y)
      BY <2>7, <3>4
    <3> QED BY <1>0, <2>11a, <3>2, <3>3, <3>5, WishesSame
  <2>14. Paired(c, e)
    <3>1. ASSUME NEW t \in Sides, NEW y \in Options, ~Excepted(Other(t), y)
          PROVE  \/ Same(d, e, t, y)
                 \/ ~Mute(Other(t), y) /\ Wishes(d, e, t, y)
      <4>1. ~(t = "do" /\ y = "ECHO")
        BY <3>1 DEF Excepted, Other
      <4>2. t = "will" /\ y = "ECHO" => ~Mute(Other(t), y)
        BY DEF Mute, Other, CliWillOk
      <4> QED BY <2>13, <4>1, <4>2
    <3> QED BY <2>10, <3>1, SrvSamePaired DEF Agreed
  <2>15. Same(q, e, "do", "ECHO")
    <3>1. Same(q, r, "do", "ECHO")
      BY <1>0, <1>2, <2>7 DEF Only
    <3> QED BY <2>6, <2>9, <2>11, <2>11a, <3>1, SameTrans
  <2>16. ASSUME EchoKnown PROVE EchoRound(c, e)
    <3>1. EchoRound(c, d) /\ Same(c, c, "will", "ECHO")
      BY <2>16, SameItself DEF Agreed, Peer
    <3>2. CASE ~d.opt["do"]["ECHO"].want
      <4>1. Same(d, e, "do", "ECHO")
        BY <2>5, <2>15, <3>2
      <4> QED BY <2>10, <3>1, <4>1, EchoSame
    <3>3. CASE d.opt["do"]["ECHO"].want
      <4>1. d.opt["do"]["ECHO"] = Wanted /\ q.opt["do"]["ECHO"] = Granted /\ q.out = d.out
        BY <2>3, <2>5, <2>16, <3>3
      <4>2. e.opt["do"]["ECHO"] = Granted /\ Grows(d.out, e.out, "do", "ECHO")
        BY <2>15, <4>1 DEF Same
      <4> QED BY <2>10, <3>1, <4>1, <4>2, EchoGranted
    <3> QED BY <3>2, <3>3
  <2>17. "BINARY" \in Options => Same(d, e, "do", "BINARY")
    BY <1>0, <2>13
  <2>18. Agreed(c, e)
    BY <2>10, <2>12, <2>14, <2>16, <2>17, SrvAgreed
  <2> QED BY <1>0, <2>18
<1> QED BY <1>1, <1>2

\* Only WILL BINARY and WONT BINARY set the pty's input mode.
LEMMA SrvIstrip ==
    ASSUME NEW d \in Server, NEW m \in Message, ~(m.side = "will" /\ m.opt = "BINARY")
    PROVE  SrvReceive(d, m).istrip = d.istrip
<1> DEFINE z == SrvReceive(d, m)
           o == m.opt
<1>0. o \in Options /\ m.on \in BOOLEAN /\ m.side \in {"will", "do", "sub"}
  BY DEF Message, Sides
<1>1. CASE m.side = "will"
  <2>1. z = IF m.on THEN SrvWillOption(d, o) ELSE SrvWontOption(d, o)
    BY <1>0, <1>1 DEF SrvReceive
  <2>2. o # "BINARY"
    BY <1>1
  <2> HIDE DEF z, o
  <2>3. Only(d, SrvWillOption(d, o), "do", o) /\ Only(d, SrvWontOption(d, o), "do", o)
    BY <1>0, SrvWillTaken, SrvWontTaken
  <2>4. z.istrip = d.istrip
    BY <2>1, <2>2, <2>3 DEF Only
  <2> QED BY <2>4 DEF z
<1>2. CASE m.side = "do"
  <2>1. z = IF m.on THEN SrvDoOption(d, o) ELSE SrvDontOption(d, o)
    BY <1>0, <1>2 DEF SrvReceive
  <2> HIDE DEF z, o
  <2>3. Only(d, SrvDoOption(d, o), "will", o) /\ Only(d, SrvDontOption(d, o), "will", o)
    BY <1>0, SrvDoTaken, SrvDontTaken
  <2>4. z.istrip = d.istrip
    BY <2>1, <2>3 DEF Only
  <2> QED BY <2>4 DEF z
<1>3. CASE m.side = "sub"
  <2>1. z = SrvSubOption(d, o)
    BY <1>3 DEF SrvReceive
  <2> HIDE DEF z, o
  <2>2. Only(d, z, "will", o)
    BY <1>0, <2>1, SrvSubOnly
  <2>3. z.istrip = d.istrip
    BY <2>2 DEF Only
  <2> QED BY <2>3 DEF z
<1> QED BY <1>0, <1>1, <1>2, <1>3

\* telrcv() in the server.
LEMMA SrvRecvAgreed ==
    ASSUME NEW c \in Client, NEW d \in Server, Agreed(c, d), c.out # <<>>
    PROVE  Agreed(Read(c), SrvReceive(d, Head(c.out)))
<1> DEFINE m == Head(c.out)
           z == SrvReceive(d, m)
<1>0. d \in Peer /\ c \in Peer /\ m \in Message
  BY ReadType DEF Peer
<1>1. /\ z \in Server /\ z.todo = d.todo /\ z.phase \in {d.phase, "exit"}
      /\ m.side = "will" => Only(d, z, "do", m.opt)
      /\ \A t \in Sides, x \in Options : ~About(m, Other(t), x) => Same(d, z, t, x)
  BY <1>0, SrvReceiveTakes
<1>2. Paired(Read(c), z)
  BY SrvRecvPaired DEF Agreed
<1>3. Read(c) \in Client /\ Read(c).todo = c.todo
  BY <1>0, ReadType
<1>4. ASSUME EchoKnown PROVE EchoRound(Read(c), z)
  <2>0. EchoRound(c, d) /\ "ECHO" \in Options
    BY <1>4 DEF Agreed, EchoKnown
  <2>1. CASE ~About(m, "will", "ECHO")
    <3>1. Same(d, z, "do", "ECHO")
      BY <1>1, <2>0, <2>1 DEF Sides, Other
    <3>2. EchoRound(Read(c), d)
      BY <2>0, <2>1, EchoSkips
    <3>3. Same(Read(c), Read(c), "will", "ECHO")
      BY <1>3, SameItself DEF Peer
    <3>4. d.phase \in {"main", "exit"} => z.phase \in {"main", "exit"}
      BY <1>1
    <3> QED BY <1>1, <1>3, <3>1, <3>2, <3>3, <3>4, EchoSame
  <2>2. CASE About(m, "will", "ECHO")
    <3>1. m.on = FALSE => Taken(d, z, "do", "ECHO", m.on, FALSE)
      <4> SUFFICES ASSUME m.on = FALSE PROVE Taken(d, z, "do", "ECHO", m.on, FALSE)
        OBVIOUS
      <4>1. z = SrvWontOption(d, "ECHO")
        BY <2>2 DEF SrvReceive, About
      <4> HIDE DEF z
      <4>2. Taken(d, z, "do", "ECHO", FALSE, FALSE)
        BY <2>0, <4>1, SrvWontTaken
      <4> QED BY <4>2
    <3> HIDE DEF z
    <3> QED BY <1>1, <2>0, <2>2, <3>1, SrvEchoTakes
  <2> QED BY <2>1, <2>2
<1>5. ASSUME "BINARY" \in Options PROVE EightBit(z)
  <2>0. EightBit(d)
    BY <1>5 DEF Agreed
  <2>1. CASE m.side = "will" /\ m.opt = "BINARY"
    <3>1. z = IF m.on THEN SrvWillOption(d, "BINARY") ELSE SrvWontOption(d, "BINARY")
      BY <1>0, <2>1 DEF SrvReceive, Message
    <3> HIDE DEF z
    <3> QED BY <1>5, <2>0, <3>1, SrvBinaryWill, SrvBinaryWont
  <2>2. CASE ~(m.side = "will" /\ m.opt = "BINARY")
    <3>1. Same(d, z, "do", "BINARY")
      BY <1>1, <1>5, <2>2 DEF About, Sides, Other
    <3>2. z.istrip = d.istrip
      BY <1>0, <1>1, <2>2, SrvIstrip
    <3> QED BY <2>0, <3>1, <3>2 DEF EightBit, Same
  <2> QED BY <2>1, <2>2
<1> HIDE DEF z
<1>6. Agreed(Read(c), z)
  BY <1>1, <1>2, <1>3, <1>4, <1>5 DEF Agreed
<1> QED BY <1>6 DEF z

-----------------------------------------------------------------------------
(* Every step keeps it.                                                    *)

Settled == Inv /\ Agreed(cli, srv)

\* Going on to a later request, of the client's or of the server's.
LEMMA CliRestAgreed ==
    ASSUME NEW c \in Client, NEW d \in Server, Agreed(c, d), NEW i \in Mine(c.todo)
    PROVE  /\ Rest(c, i) \in Client /\ Agreed(Rest(c, i), d)
           /\ c.todo[i][1] \in Sides /\ c.todo[i][2] \in Options
           /\ ~(c.todo[i][1] = "will" /\ c.todo[i][2] = "ECHO")
<1>1. c.todo \in Seq(CliAsks) /\ i \in 1..Len(c.todo) /\ c.todo[i][2] \in Options
  BY DEF Agreed, Mine
<1>2. c.todo[i] \in CliAsks /\ SubSeq(c.todo, i + 1, Len(c.todo)) \in Seq(CliAsks)
  BY <1>1
<1>3. c.todo[i][1] \in Sides /\ ~(c.todo[i][1] = "will" /\ c.todo[i][2] = "ECHO")
  BY <1>2 DEF CliAsks
<1>4. Rest(c, i) \in Client
  BY RestKeeps, KeepsPeer DEF Peer
<1>5. /\ Rest(c, i).opt = c.opt /\ Rest(c, i).out = c.out
      /\ Rest(c, i).todo = SubSeq(c.todo, i + 1, Len(c.todo))
  BY DEF Rest, Client
<1> QED BY <1>1, <1>2, <1>3, <1>4, <1>5, CliFieldAgreed

\* The server's requests are requests.
LEMMA SrvAsksAsk == SrvAsks \subseteq Sides \X AllOptions
BY DEF SrvAsks, Sides, AllOptions, SrvDoOk, SrvWillOk

\* A request of the server's list is made and the rest left.
LEMMA SrvRestAgreed ==
    ASSUME NEW c \in Client, NEW d \in Server, Agreed(c, d), NEW i \in Mine(d.todo)
    PROVE  /\ Rest(d, i) \in Server /\ Agreed(c, Rest(d, i))
           /\ d.todo[i][1] \in Sides /\ d.todo[i][2] \in Options
           /\ <<d.todo[i][1], d.todo[i][2]>> \in SrvAsks
<1>1. d.todo \in Seq(SrvAsks) /\ i \in 1..Len(d.todo) /\ d.todo[i][2] \in Options
  BY DEF Agreed, Mine
<1>2. d.todo[i] \in SrvAsks /\ SubSeq(d.todo, i + 1, Len(d.todo)) \in Seq(SrvAsks)
  BY <1>1
<1>3. d.todo[i][1] \in Sides /\ <<d.todo[i][1], d.todo[i][2]>> \in SrvAsks
  <2> DEFINE e == d.todo[i]
  <2>1. e \in SrvAsks
    BY <1>2
  <2> HIDE DEF e
  <2>2. e \in Sides \X AllOptions
    BY <2>1, SrvAsksAsk
  <2>3. e[1] \in Sides /\ e = <<e[1], e[2]>>
    BY <2>2
  <2>4. <<e[1], e[2]>> \in SrvAsks
    BY <2>1, <2>3
  <2> QED BY <2>3, <2>4 DEF e
<1>4. Rest(d, i) \in Server
  BY RestKeeps, KeepsPeer DEF Peer
<1>5. /\ Rest(d, i).opt = d.opt /\ Rest(d, i).out = d.out
      /\ Rest(d, i).todo = SubSeq(d.todo, i + 1, Len(d.todo))
      /\ Rest(d, i).phase = d.phase /\ Rest(d, i).istrip = d.istrip
  BY DEF Rest, Server
<1> QED BY <1>1, <1>2, <1>3, <1>4, <1>5, SrvFieldAgreed

\* The requests of telnet() do not offer the client's echo.
LEMMA CliRequestsAsk == CliRequests \in Seq(CliAsks)
<1> DEFINE a == IF Autologin THEN << <<"will", "AUTHENTICATION">> >> ELSE <<>>
           b == << <<"do", "ENCRYPT">>, <<"will", "ENCRYPT">>, <<"do", "SGA">>,
                  <<"will", "TTYPE">>, <<"will", "NAWS">>, <<"will", "TSPEED">>,
                  <<"will", "LFLOW">>, <<"will", "LINEMODE">>,
                  <<"will", "NEW_ENVIRON">>, <<"do", "STATUS">> >>
           c == IF HasDisplay THEN << <<"will", "XDISPLOC">> >> ELSE <<>>
           d == IF "do" \in Eight THEN << <<"do", "BINARY">> >> ELSE <<>>
           e == IF "will" \in Eight THEN << <<"will", "BINARY">> >> ELSE <<>>
<1>1. a \in Seq(CliAsks)
  BY DEF CliAsks, Sides, AllOptions
<1>2. b \in Seq(CliAsks)
  BY DEF CliAsks, Sides, AllOptions
<1>3. c \in Seq(CliAsks)
  BY DEF CliAsks, Sides, AllOptions
<1>4. d \in Seq(CliAsks)
  BY DEF CliAsks, Sides, AllOptions
<1>5. e \in Seq(CliAsks)
  BY DEF CliAsks, Sides, AllOptions
<1>6. CliRequests = a \o (IF TelnetPort THEN b \o c \o d \o e ELSE <<>>)
  BY DEF CliRequests
<1> HIDE DEF a, b, c, d, e
<1>7. b \o c \in Seq(CliAsks)
  BY <1>2, <1>3
<1>8. b \o c \o d \in Seq(CliAsks)
  BY <1>4, <1>7
<1>9. b \o c \o d \o e \in Seq(CliAsks)
  BY <1>5, <1>8
<1> QED BY <1>1, <1>6, <1>9

\* Nothing has been asked for at the start.
LEMMA InitSettled == Init => Settled
<1> SUFFICES ASSUME Init PROVE Agreed(cli, srv)
  BY InitInv DEF Settled
<1>1. /\ cli.out = <<>> /\ srv.out = <<>> /\ cli.todo = CliRequests /\ srv.todo = <<>>
      /\ \A s \in Sides, o \in Options :
            cli.opt[s][o] = Default /\ srv.opt[s][o] = Default
  BY DEF Init, CliInit, SrvInit
<1>2. Paired(cli, srv)
  <2>1. ASSUME NEW s \in Sides, NEW o \in Options PROVE Joined(cli, srv, s, o)
    <3>1. Other(s) \in Sides /\ ~Default.want
      BY OtherSide DEF Default
    <3>2. Silent(srv, Other(s), o)
      BY <1>1, <3>1 DEF Silent
    <3> QED BY <1>1, <3>1, <3>2, PairInit DEF Joined
  <2> QED BY <2>1 DEF Paired
<1>3. EchoKnown => EchoRound(cli, srv)
  <2>1. Default # Granted /\ Default # Wanted
    BY DEF Default, Granted, Wanted
  <2>2. NoneOf(<<>>, "will", "ECHO") /\ NoneOf(<<>>, "do", "ECHO")
    BY DEF NoneOf
  <2> QED BY <1>1, <2>1, <2>2 DEF EchoRound, EchoKnown, Sides
<1>4. "BINARY" \in Options => EightBit(srv)
  BY <1>1 DEF EightBit, Sides, Default
<1>5. <<>> \in Seq(SrvAsks)
  OBVIOUS
<1> QED BY <1>1, <1>2, <1>3, <1>4, <1>5, CliRequestsAsk DEF Agreed

\* Every action keeps the two programs on the way to agreement.
LEMMA NextAgreed == Settled /\ [Next]_vars => Agreed(cli, srv)'
<1> SUFFICES ASSUME Settled, [Next]_vars PROVE Agreed(cli', srv')
  OBVIOUS
<1>0. /\ cli \in Client /\ srv \in Server /\ commands \in Nat
      /\ cli \in Peer /\ srv \in Peer /\ Agreed(cli, srv)
  BY DEF Settled, Inv, TypeOK, Peer
<1>00. "will" \in Sides /\ "do" \in Sides /\ TRUE \in BOOLEAN /\ FALSE \in BOOLEAN
       /\ "LINEMODE" # "ECHO" /\ "do" # "will"
  BY DEF Sides
<1>1. CASE CliStart
  <2>0. srv' = srv
    BY <1>1 DEF CliStart
  <2>1. CASE cli' = [cli EXCEPT !.todo = <<>>]
    <3>1. <<>> \in Seq(CliAsks) /\ <<>> \in Seq(Sides \X AllOptions)
      OBVIOUS
    <3>2. /\ cli' \in Client /\ cli'.opt = cli.opt /\ cli'.out = cli.out
          /\ cli'.todo \in Seq(CliAsks)
      BY <1>0, <2>1, <3>1 DEF Client
    <3> QED BY <1>0, <2>0, <3>2, CliFieldAgreed
  <2>2. ASSUME NEW i \in Mine(cli.todo),
               cli' = Request(Rest(cli, i), cli.todo[i][1], cli.todo[i][2], TRUE)
        PROVE  Agreed(cli', srv')
    <3>1. /\ Rest(cli, i) \in Client /\ Agreed(Rest(cli, i), srv)
          /\ cli.todo[i][1] \in Sides /\ cli.todo[i][2] \in Options
          /\ ~(cli.todo[i][1] = "will" /\ cli.todo[i][2] = "ECHO")
      BY <1>0, CliRestAgreed
    <3>2. Agreed(Request(Rest(cli, i), cli.todo[i][1], cli.todo[i][2], TRUE), srv)
      BY <1>0, <1>00, <3>1, CliRequestAgreed
    <3> QED BY <2>0, <2>2, <3>2
  <2> QED BY <1>1, <2>1, <2>2 DEF CliStart
<1>2. CASE CliRecv
  BY <1>0, <1>2, CliRecvAgreed DEF CliRecv, Read
<1>3. CASE SendOption
  <2>1. PICK c \in Commands, on \in BOOLEAN :
            Command(Request(cli, c[1], c[2], on))
    BY <1>3 DEF SendOption
  <2>2. c[1] \in Sides /\ c[2] \in Options /\ c = <<c[1], c[2]>>
    BY NegotiationAssumption DEF NegotiationAssumption
  <2>3. ~(c[1] = "will" /\ c[2] = "ECHO") \/ <<"will", "ECHO">> \in Commands
    BY <2>2
  <2>4. Agreed(Request(cli, c[1], c[2], on), srv)
    BY <1>0, <2>2, <2>3, CliRequestAgreed
  <2> QED BY <2>1, <2>4 DEF Command
<1>4. CASE DoCharMode
  <2> DEFINE q == IF cli.kludgelinemode
                  THEN Request(cli, "do", "SGA", TRUE)
                  ELSE Request(cli, "will", "LINEMODE", FALSE)
  <2>1. "ECHO" \in Options /\ "SGA" \in Options /\ "LINEMODE" \in Options
    BY <1>4, ModeOptions DEF DoCharMode
  <2>2. Command(Request(q, "do", "ECHO", TRUE))
    BY <1>4 DEF DoCharMode
  <2>3. q \in Client /\ Agreed(q, srv)
    BY <1>0, <1>00, <2>1, CliRequestAgreed
  <2> HIDE DEF q
  <2>4. Agreed(Request(q, "do", "ECHO", TRUE), srv)
    BY <1>0, <1>00, <2>1, <2>3, CliRequestAgreed
  <2> QED BY <2>2, <2>4 DEF Command
<1>5. CASE DoLineMode
  <2> DEFINE q == IF cli.kludgelinemode
                  THEN Request(cli, "do", "SGA", FALSE) ELSE cli
             r == Request(q, "will", "LINEMODE", TRUE)
  <2>1. "ECHO" \in Options /\ "SGA" \in Options /\ "LINEMODE" \in Options
    BY <1>5, ModeOptions DEF DoLineMode
  <2>2. Command(Request(r, "do", "ECHO", FALSE))
    BY <1>5 DEF DoLineMode
  <2>3. q \in Client /\ Agreed(q, srv)
    BY <1>0, <1>00, <2>1, CliRequestAgreed
  <2> HIDE DEF q
  <2>4. r \in Client /\ Agreed(r, srv)
    BY <1>0, <1>00, <2>1, <2>3, CliRequestAgreed
  <2> HIDE DEF r
  <2>5. Agreed(Request(r, "do", "ECHO", FALSE), srv)
    BY <1>0, <1>00, <2>1, <2>4, CliRequestAgreed
  <2> QED BY <2>2, <2>5 DEF Command
<1>6. CASE DoKludgeMode
  <2> DEFINE k == [cli EXCEPT !.kludgelinemode = TRUE]
             q == Request(k, "will", "LINEMODE", FALSE)
             r == Request(q, "do", "SGA", FALSE)
  <2>1. "ECHO" \in Options /\ "SGA" \in Options /\ "LINEMODE" \in Options
    BY <1>6, ModeOptions DEF DoKludgeMode
  <2>2. Command(Request(r, "do", "ECHO", FALSE))
    BY <1>6 DEF DoKludgeMode
  <2>3. k \in Client /\ k.opt = cli.opt /\ k.out = cli.out /\ k.todo = cli.todo
    BY <1>0 DEF Client
  <2> HIDE DEF k
  <2>4. Agreed(k, srv)
    BY <1>0, <2>3, CliFieldAgreed DEF Agreed
  <2>5. q \in Client /\ Agreed(q, srv)
    BY <1>0, <1>00, <2>1, <2>3, <2>4, CliRequestAgreed
  <2> HIDE DEF q
  <2>6. r \in Client /\ Agreed(r, srv)
    BY <1>0, <1>00, <2>1, <2>5, CliRequestAgreed
  <2> HIDE DEF r
  <2>7. Agreed(Request(r, "do", "ECHO", FALSE), srv)
    BY <1>0, <1>00, <2>1, <2>6, CliRequestAgreed
  <2> QED BY <2>2, <2>7 DEF Command
<1>7. CASE DoFlush
  <2> DEFINE k == [cli EXCEPT !.flushout = TRUE]
  <2>1. "TM" \in Options /\ Command(Write(k, "do", "TM", TRUE))
    BY <1>7 DEF DoFlush
  <2>2. k \in Client /\ k.opt = cli.opt /\ k.out = cli.out /\ k.todo = cli.todo
    BY <1>0 DEF Client
  <2> HIDE DEF k
  <2>3. Agreed(k, srv)
    BY <1>0, <2>2, CliFieldAgreed DEF Agreed
  <2>4. Agreed(Write(k, "do", "TM", TRUE), srv)
    BY <1>0, <2>1, <2>2, <2>3, FlushAgreed
  <2> QED BY <2>1, <2>4 DEF Command
<1>8. CASE SrvRequests
  <2>0. cli' = cli
    BY <1>8 DEF SrvRequests
  <2>1. CASE srv' = [srv EXCEPT !.todo = <<>>]
    <3>1. <<>> \in Seq(SrvAsks) /\ <<>> \in Seq(Sides \X AllOptions)
      OBVIOUS
    <3>2. /\ srv' \in Server /\ srv'.opt = srv.opt /\ srv'.out = srv.out
          /\ srv'.todo \in Seq(SrvAsks) /\ srv'.phase = srv.phase
          /\ srv'.istrip = srv.istrip
      BY <1>0, <2>1, <3>1 DEF Server
    <3> QED BY <1>0, <2>0, <3>2, SrvFieldAgreed
  <2>2. ASSUME NEW i \in Mine(srv.todo),
               srv' = SrvRequest(Rest(srv, i), srv.todo[i][1], srv.todo[i][2])
        PROVE  Agreed(cli', srv')
    <3>1. /\ Rest(srv, i) \in Server /\ Agreed(cli, Rest(srv, i))
          /\ srv.todo[i][1] \in Sides /\ srv.todo[i][2] \in Options
          /\ <<srv.todo[i][1], srv.todo[i][2]>> \in SrvAsks
      BY <1>0, SrvRestAgreed
    <3>2. Agreed(cli, SrvRequest(Rest(srv, i), srv.todo[i][1], srv.todo[i][2]))
      BY <1>0, <3>1, SrvRequestAgreed
    <3> QED BY <2>0, <2>2, <3>2
  <2> QED BY <1>8, <2>1, <2>2 DEF SrvRequests
<1>9. CASE SrvStart
  <2> DEFINE t == << <<"do", "AUTHENTICATION">> >>
             q == [srv EXCEPT !.phase = "auth", !.todo = t]
  <2>1. srv' = q /\ cli' = cli /\ srv.phase = "start"
    BY <1>9 DEF SrvStart, SrvStep
  <2>2. t \in Seq(Sides \X AllOptions) /\ t \in Seq(SrvAsks)
    BY DEF Sides, AllOptions, SrvAsks, SrvWillOk
  <2> HIDE DEF t
  <2>3. /\ q \in Server /\ q.opt = srv.opt /\ q.out = srv.out /\ q.todo = t
        /\ q.istrip = srv.istrip
    BY <1>0, <2>2 DEF Server, Phases
  <2> HIDE DEF q
  <2> QED BY <1>0, <2>1, <2>2, <2>3, SrvFieldAgreed
<1>10. CASE SrvOptions
  <2> DEFINE t == << <<"will", "ENCRYPT">>, <<"do", "ENCRYPT">>,
                     <<"do", "TTYPE">>, <<"do", "TSPEED">>, <<"do", "XDISPLOC">>,
                     <<"do", "NEW_ENVIRON">>, <<"do", "OLD_ENVIRON">> >>
             q == [srv EXCEPT !.phase = "options", !.todo = t]
  <2>1. srv' = q /\ cli' = cli /\ srv.phase = "auth"
    BY <1>10 DEF SrvOptions, SrvStep
  <2>2. t \in Seq(Sides \X AllOptions) /\ t \in Seq(SrvAsks)
    BY DEF Sides, AllOptions, SrvAsks, SrvWillOk, SrvDoOk
  <2> HIDE DEF t
  <2>3. /\ q \in Server /\ q.opt = srv.opt /\ q.out = srv.out /\ q.todo = t
        /\ q.istrip = srv.istrip
    BY <1>0, <2>2 DEF Server, Phases
  <2> HIDE DEF q
  <2> QED BY <1>0, <2>1, <2>2, <2>3, SrvFieldAgreed
<1>11. CASE SrvAskValues
  <2> DEFINE a == AuthComplete(srv)
             b == AskValues(a)
             c == Spin(b, 1)
  <2>1. srv' = c /\ cli' = cli /\ srv.phase = "options"
    BY <1>11 DEF SrvAskValues, SrvStep
  <2>2. /\ a \in Server /\ a.opt = srv.opt /\ a.out = srv.out /\ a.todo = srv.todo
        /\ a.istrip = srv.istrip /\ a.phase = srv.phase
    BY <1>0 DEF Server, AuthComplete
  <2> HIDE DEF a
  <2>3. Agreed(cli, a)
    BY <1>0, <2>2, SrvFieldAgreed DEF Agreed
  <2>4. b \in Server /\ Agreed(cli, b)
    BY <1>0, <2>1, <2>2, <2>3, AskValuesAgreed
  <2> HIDE DEF b
  <2>5. 1 \in 1..6
    OBVIOUS
  <2>6. c \in Server
    BY <2>4, <2>5, SpinKeeps
  <2>7. /\ c.opt = b.opt /\ c.out = b.out /\ c.todo = b.todo
        /\ c.istrip = b.istrip /\ c.phase = b.phase
    BY <2>4 DEF Spin, Server
  <2> HIDE DEF c
  <2> QED BY <1>0, <2>1, <2>4, <2>6, <2>7, SrvFieldAgreed DEF Agreed
<1>12. CASE SrvValue
  <2> DEFINE c == Spin(srv, srv.spin + 1)
  <2>1. srv' = c /\ cli' = cli
    BY <1>12 DEF SrvValue, SrvStep
  <2>2. srv.spin \in 0..5
    BY <1>0 DEF Server
  <2>3. srv.spin + 1 \in 1..6
    BY <2>2
  <2>4. c \in Server
    BY <1>0, <2>3, SpinKeeps
  <2>5. /\ c.opt = srv.opt /\ c.out = srv.out /\ c.todo = srv.todo
        /\ c.istrip = srv.istrip /\ c.phase = srv.phase
    BY <1>0 DEF Spin, Server
  <2> HIDE DEF c
  <2> QED BY <1>0, <2>1, <2>4, <2>5, SrvFieldAgreed DEF Agreed
<1>13. CASE SrvTelnet
  <2> DEFINE s == IF "SGA" \in Options /\ srv.opt["will"]["SGA"].state
                  THEN <<>> ELSE << <<"will", "SGA">> >>
             t == << <<"do", "ECHO">>, <<"do", "NAWS">>,
                     <<"will", "STATUS">>, <<"do", "LFLOW">> >>
             q == [srv EXCEPT !.phase = "naws", !.echo = TRUE, !.opost = TRUE,
                              !.todo = s \o t]
  <2>1. srv' = q /\ cli' = cli /\ srv.phase = "values"
    BY <1>13 DEF SrvTelnet, SrvStep
  <2>2. s \in Seq(Sides \X AllOptions) /\ s \in Seq(SrvAsks)
    <3>1. <<"will", "SGA">> \in SrvAsks
      BY DEF SrvAsks, SrvDoOk
    <3>2. << <<"will", "SGA">> >> \in Seq(SrvAsks)
      BY <3>1
    <3>3. s \in Seq(SrvAsks)
      BY <3>2
    <3> QED BY <3>3, SrvAsksAsk
  <2>3. t \in Seq(Sides \X AllOptions) /\ t \in Seq(SrvAsks)
    BY DEF Sides, AllOptions, SrvAsks, SrvDoOk, SrvWillOk
  <2> HIDE DEF s, t
  <2>4. s \o t \in Seq(Sides \X AllOptions) /\ s \o t \in Seq(SrvAsks)
    BY <2>2, <2>3
  <2>5. /\ q \in Server /\ q.opt = srv.opt /\ q.out = srv.out /\ q.todo = s \o t
        /\ q.istrip = srv.istrip
    BY <1>0, <2>4 DEF Server, Phases
  <2> HIDE DEF q
  <2> QED BY <1>0, <2>1, <2>4, <2>5, SrvFieldAgreed
<1>14. CASE SrvNaws
  <2> DEFINE e == [srv EXCEPT !.phase = "echo"]
  <2>1. /\ e \in Server /\ e.opt = srv.opt /\ e.out = srv.out
        /\ e.todo = srv.todo /\ e.istrip = srv.istrip
    BY <1>0 DEF Server, Phases
  <2>2. /\ cli' = cli /\ srv.phase = "naws"
        /\ srv' = e \/ srv' = EchoSettled(srv)
    BY <1>14 DEF SrvNaws, SrvStep
  <2> HIDE DEF e
  <2>3. Agreed(cli, e) /\ Agreed(cli, EchoSettled(srv))
    BY <1>0, <2>1, <2>2, SrvFieldAgreed, EchoSettledAgreed DEF Agreed
  <2> QED BY <2>2, <2>3
<1>15. CASE SrvEcho
  BY <1>0, <1>15, EchoSettledAgreed DEF SrvEcho, SrvStep
<1>16. CASE SrvRecv
  BY <1>0, <1>16, SrvRecvAgreed DEF SrvRecv, Read
<1>17. CASE UNCHANGED vars
  BY <1>0, <1>17 DEF vars
<1> QED
  BY <1>1, <1>2, <1>3, <1>4, <1>5, <1>6, <1>7, <1>8, <1>9, <1>10, <1>11, <1>12,
     <1>13, <1>14, <1>15, <1>16, <1>17 DEF Next, User, SrvStartup

\* When nothing is in flight the pairs have agreed.
LEMMA SettledAgrees == Settled => Agreement
<1> SUFFICES ASSUME Settled, Quiet PROVE
        /\ \A side \in Sides, o \in Options \ {"TM"} :
              AgreeOn(cli, srv, side, o) \/ Offered(side, o)
        /\ "BINARY" \in Options => EightBitInput
  BY DEF Agreement
<1>0. /\ cli \in Client /\ srv \in Server /\ cli \in Peer /\ srv \in Peer
      /\ Agreed(cli, srv) /\ cli.out = <<>> /\ srv.out = <<>>
  BY DEF Settled, Inv, TypeOK, Peer, Quiet
<1>1. ASSUME NEW s \in Sides, NEW o \in Options, ~Excepted(s, o)
      PROVE  AgreeOn(cli, srv, s, o)
  <2>1. Joined(cli, srv, s, o) /\ Other(s) \in Sides
    BY <1>0, <1>1, OtherSide DEF Agreed, Paired
  <2>2. cli.opt[s][o] \in Machine /\ srv.opt[Other(s)][o] \in Machine
    BY <1>0, <2>1, MachineType
  <2>3. CASE ServerAccepts(s, o)
    BY <1>0, <2>1, <2>2, <2>3, PairQuiet DEF Joined, AgreeOn
  <2>4. CASE ~ServerAccepts(s, o)
    BY <1>0, <2>1, <2>2, <2>4, PairQuiet DEF Joined, AgreeOn
  <2> QED BY <2>3, <2>4
<1>2. ASSUME "ECHO" \in Options
      PROVE  AgreeOn(cli, srv, "will", "ECHO") \/ Offered("will", "ECHO")
  <2>1. CASE <<"will", "ECHO">> \in Commands
    BY <2>1 DEF Offered
  <2>2. CASE <<"will", "ECHO">> \notin Commands
    <3>1. EchoRound(cli, srv)
      BY <1>0, <1>2, <2>2 DEF Agreed, EchoKnown
    <3>2. /\ ~\E k \in 1..Len(<<>>) : TRUE
          /\ Default.want = FALSE /\ Declined.want = FALSE
      BY DEF Default, Declined
    <3>3. /\ srv.opt["do"]["ECHO"] = Default
          /\ cli.opt["will"]["ECHO"] \in {Default, Declined}
      BY <1>0, <3>1, <3>2 DEF EchoRound, OneOf, TwoOf
    <3> QED BY <3>2, <3>3 DEF AgreeOn, Other
  <2> QED BY <2>1, <2>2
<1>3. "BINARY" \in Options => EightBitInput
  BY <1>0 DEF Agreed, EightBit, EightBitInput
<1> QED BY <1>1, <1>2, <1>3 DEF Excepted, Sides

\* When the negotiation is quiet the two programs agree on every option, and the
\* pty keeps the eighth bit of input agreed to be BINARY.
THEOREM AgreementHolds == Spec => []Agreement
<1>1. Init => Settled
  BY InitSettled
<1>2. Settled /\ [Next]_vars => Settled'
  <2>1. Settled /\ [Next]_vars => Inv'
    BY NextInv DEF Settled
  <2>2. Settled /\ [Next]_vars => Agreed(cli, srv)'
    BY NextAgreed
  <2> QED BY <2>1, <2>2 DEF Settled
<1> QED BY <1>1, <1>2, SettledAgrees, PTL DEF Spec
=============================================================================
