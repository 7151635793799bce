------------------------- MODULE TelnetStart_proofs -------------------------
(* Two safety properties of the start of a telnet session for every list of *)
(* mechanisms, every set of terminals and every bound: client and server    *)
(* come to the same conclusion and the same key (Agree), and forwarded      *)
(* credentials reach the server while it listens (Forwarded).               *)
(*                                                                          *)
(* Agree rests on the turns of the two sides (OneSpeaks): of the messages   *)
(* that carry an attempt on there is one on its way, or a response with its *)
(* acceptance behind it; and on what each of them means for the state of    *)
(* both sides (Meaning).  Forwarded rests on the order of the rest          *)
(* (OptionsLast): as long as no alarm went off, the options are asked after *)
(* the acceptance, so that what the client sends for it is read first.      *)
EXTENDS TelnetStart, FiniteSetTheorems, TLAPS

Ways == {"encrypt", "mutual", "oneway"}
Keys == Nat \X {"none", "subkey", "session"}
Conclusions == {None, Reject} \union (Ways \X Nat)
Options == [autologin : BOOLEAN, x : BOOLEAN, forward : BOOLEAN,
            subkey : {"des", "other"}, session : {"des", "other"}]
Clients ==
  [list : Seq(Ways), way : Ways \union {"none"}, tried : Nat, ctx : Nat, key : Keys,
   crypt : Keys, done : Conclusions, gave : Nat, mutual : BOOLEAN, stale : BOOLEAN]
Servers ==
  [at : {"start", "waiting", "asking", "done"}, auth : Conclusions, ctx : Nat, crypt : Keys,
   reading : BOOLEAN, asked : BOOLEAN, creds : Nat, ignored : BOOLEAN, struck : BOOLEAN,
   late : BOOLEAN]
Requests == [m : {"auth", "forward"}, way : Ways, att : Nat]
Ups == Requests \union [m : {"will", "wont", "other", "null", "option"}, way : {"none"}, att : {0}]
Attempts == [m : {"reject", "response", "accept"}, way : Ways, att : Nat]
Downs == Attempts \union [m : {"send", "do", "forwarded"}, way : {"none"}, att : {0}]
Bounds == [fails : Nat, alarms : Nat, opens : Nat]

TypeOK ==
  /\ opts \in Options
  /\ cli \in Clients
  /\ srv \in Servers
  /\ up \in Seq(Ups) /\ down \in Seq(Downs)
  /\ left \in Bounds
----------------------------------------------------------------------------
(* The messages that carry an attempt on.                                   *)
Says == {"will", "wont", "auth", "null"}
Answers == {"send", "reject", "response", "accept"}
Silent ==
  /\ \A i \in DOMAIN up : up[i].m \notin Says
  /\ \A j \in DOMAIN down : down[j].m \notin Answers

OneSpeaks ==
  /\ \A i, j \in DOMAIN up : up[i].m \in Says /\ up[j].m \in Says => i = j
  /\ \A i \in DOMAIN up, j \in DOMAIN down : up[i].m \notin Says \/ down[j].m \notin Answers
  /\ \A i, j \in DOMAIN down :
       i < j /\ down[i].m \in Answers /\ down[j].m \in Answers
       => down[i].m = "response" /\ down[j].m = "accept"
  /\ \A i \in DOMAIN down :
       down[i].m = "response"
       => /\ i + 1 \in DOMAIN down
          /\ down[i + 1] = [m |-> "accept", way |-> down[i].way, att |-> down[i].att]

(* Before an acceptance, and while the client does not know of it.          *)
NoKey == <<0, "none">>
NothingGiven == cli.gave = 0 /\ srv.creds = 0
Open0 ==
  /\ srv.auth \in {None, Reject} /\ (srv.auth = Reject => srv.late)
  /\ srv.crypt = NoKey /\ cli.crypt = NoKey
  /\ cli.mutual = cli.stale
  /\ NothingGiven
Unsettled == cli.done = None /\ Open0
KeyMade == opts.subkey = "des" => cli.key = <<cli.ctx, "subkey">>
Accepting ==
  /\ cli.done = None /\ srv.auth # None /\ srv.at # "start"
  /\ cli.ctx = srv.ctx /\ cli.ctx # 0 /\ KeyMade
  /\ srv.crypt = <<srv.ctx, "subkey">>
  /\ NothingGiven

(* After it, or after the last failure.                                     *)
Settling ==
  /\ srv.at # "start" /\ srv.auth # None
  /\ ~srv.struck => \/ cli.done = srv.auth
                    \/ cli.done \in {None, Reject} /\ srv.auth = Reject
  /\ KeyKnown => cli.crypt = srv.crypt
  /\ cli.gave # 0 => cli.gave = srv.ctx

Meaning ==
  /\ srv.at \in {"asking", "done"} => srv.auth # None
  /\ \A i \in DOMAIN up :
       /\ up[i].m \in {"will", "wont"} => Unsettled /\ srv.at = "start"
       /\ up[i].m = "auth" => /\ Unsettled /\ srv.at # "start"
                              /\ KeyMade /\ cli.ctx # 0 /\ up[i].att = cli.ctx
       /\ up[i].m = "null" => Open0 /\ cli.done = Reject /\ srv.at # "start"
  /\ \A i \in DOMAIN down :
       /\ down[i].m \in {"send", "reject"} => Unsettled /\ srv.at # "start"
       /\ down[i].m \in {"response", "accept"} =>
            /\ Accepting /\ down[i].att = cli.ctx
            /\ ~srv.struck => srv.auth = <<down[i].way, down[i].att>>
       /\ down[i].m = "response" => cli.crypt = NoKey /\ cli.mutual = cli.stale /\ Mutual(down[i].way)
       /\ down[i].m = "accept" /\ ~Mutual(down[i].way) => cli.crypt = NoKey /\ cli.mutual = cli.stale
       /\ down[i].m = "accept" /\ Mutual(down[i].way) =>
            \/ \E j \in DOMAIN down : down[j].m = "response"
            \/ cli.mutual /\ (opts.subkey = "des" => cli.crypt = <<cli.ctx, "subkey">>)
  /\ Silent => Settling
----------------------------------------------------------------------------
(* The options are asked after the acceptance and answered after what the   *)
(* client sends for it.                                                     *)
Listens == srv.at \in {"waiting", "asking"} /\ ~srv.asked
Asks == (srv.at = "done" => srv.asked) /\ (srv.ignored => srv.late)
AskedLast ==
  ~srv.late /\ srv.auth = None
  => /\ srv.at \in {"start", "waiting"} /\ ~srv.asked
     /\ \A i \in DOMAIN up : up[i].m # "option"
     /\ \A i \in DOMAIN down : down[i].m # "do"
AcceptFirst ==
  ~srv.late =>
    \A i \in DOMAIN down :
      down[i].m = "accept"
      => /\ Listens
         /\ \A j \in DOMAIN down : down[j].m = "do" => i < j
         /\ \A j \in DOMAIN up : up[j].m # "option"
ForwardFirst ==
  ~srv.late =>
    \A i \in DOMAIN up :
      up[i].m = "forward" => Listens /\ \A j \in DOMAIN up : up[j].m = "option" => i < j
Carried == \A i \in DOMAIN up : up[i].m = "forward" => cli.gave # 0 /\ up[i].att = cli.gave
Reaches ==
  cli.gave # 0 /\ ~srv.late =>
    \/ srv.creds = cli.gave
    \/ \E i \in DOMAIN up : up[i].m = "forward"
OptionsLast == Asks /\ AskedLast /\ AcceptFirst /\ ForwardFirst /\ Carried /\ Reaches
----------------------------------------------------------------------------
(* What is put at the end of the messages to the server.                    *)
LEMMA UpPut ==
  ASSUME up \in Seq(Ups), NEW u \in Ups, up' = Append(up, u)
  PROVE  /\ up' \in Seq(Ups)
         /\ \A i \in DOMAIN up' : \/ i \in DOMAIN up /\ up'[i] = up[i]
                                  \/ i = Len(up) + 1 /\ up'[i] = u
         /\ \A i \in DOMAIN up : i \in DOMAIN up' /\ up'[i] = up[i] /\ i < Len(up) + 1
         /\ Len(up) + 1 \in DOMAIN up' /\ up'[Len(up) + 1] = u
OBVIOUS
(* The same for those to the client.                                        *)
LEMMA DownPut ==
  ASSUME down \in Seq(Downs), NEW d \in Downs, down' = Append(down, d)
  PROVE  /\ down' \in Seq(Downs)
         /\ \A i \in DOMAIN down' : \/ i \in DOMAIN down /\ down'[i] = down[i]
                                    \/ i = Len(down) + 1 /\ down'[i] = d
         /\ \A i \in DOMAIN down : i \in DOMAIN down' /\ down'[i] = down[i] /\ i < Len(down) + 1
         /\ Len(down) + 1 \in DOMAIN down' /\ down'[Len(down) + 1] = d
OBVIOUS
(* A response comes with its acceptance behind it.                          *)
LEMMA DownPutTwo ==
  ASSUME down \in Seq(Downs), NEW d \in Downs, NEW e \in Downs, down' = down \o <<d, e>>
  PROVE  /\ down' \in Seq(Downs)
         /\ \A i \in DOMAIN down' : \/ i \in DOMAIN down /\ down'[i] = down[i]
                                    \/ i = Len(down) + 1 /\ down'[i] = d
                                    \/ i = Len(down) + 2 /\ down'[i] = e
         /\ \A i \in DOMAIN down : i \in DOMAIN down' /\ down'[i] = down[i] /\ i < Len(down) + 1
         /\ Len(down) + 1 \in DOMAIN down' /\ down'[Len(down) + 1] = d
         /\ Len(down) + 2 \in DOMAIN down' /\ down'[Len(down) + 2] = e
<1>1. <<d, e>> \in Seq(Downs)
  OBVIOUS
<1> QED BY <1>1
(* What is taken is the first; the others move up by one.                   *)
LEMMA UpTaken ==
  ASSUME up \in Seq(Ups), up # <<>>, up' = Tail(up)
  PROVE  /\ up' \in Seq(Ups) /\ 1 \in DOMAIN up /\ Head(up) = up[1] /\ up[1] \in Ups
         /\ \A i \in DOMAIN up' : i + 1 \in DOMAIN up /\ up'[i] = up[i + 1] /\ i + 1 # 1
         /\ \A i \in DOMAIN up : i # 1 => i - 1 \in DOMAIN up' /\ up'[i - 1] = up[i]
<1>1. /\ Len(up) \in Nat /\ Len(up) > 0 /\ DOMAIN up = 1 .. Len(up) /\ Head(up) = up[1]
      /\ up[1] \in Ups
  OBVIOUS
<1>2. /\ up' \in Seq(Ups) /\ Len(up') = Len(up) - 1 /\ DOMAIN up' = 1 .. (Len(up) - 1)
      /\ \A i \in 1 .. (Len(up) - 1) : up'[i] = up[i + 1]
  BY <1>1
<1> QED BY <1>1, <1>2
(* The same for the client.                                                 *)
LEMMA DownTaken ==
  ASSUME down \in Seq(Downs), down # <<>>, down' = Tail(down)
  PROVE  /\ down' \in Seq(Downs) /\ 1 \in DOMAIN down /\ Head(down) = down[1] /\ down[1] \in Downs
         /\ \A i \in DOMAIN down' : i + 1 \in DOMAIN down /\ down'[i] = down[i + 1] /\ i + 1 # 1
         /\ \A i \in DOMAIN down : i # 1 => i - 1 \in DOMAIN down' /\ down'[i - 1] = down[i]
<1>1. /\ Len(down) \in Nat /\ Len(down) > 0 /\ DOMAIN down = 1 .. Len(down) /\ Head(down) = down[1]
      /\ down[1] \in Downs
  OBVIOUS
<1>2. /\ down' \in Seq(Downs) /\ Len(down') = Len(down) - 1 /\ DOMAIN down' = 1 .. (Len(down) - 1)
      /\ \A i \in 1 .. (Len(down) - 1) : down'[i] = down[i + 1]
  BY <1>1
<1> QED BY <1>1, <1>2
(* Positions are numbers.                                                   *)
LEMMA Positions ==
  ASSUME up \in Seq(Ups), down \in Seq(Downs)
  PROVE  /\ DOMAIN up = 1..Len(up) /\ Len(up) \in Nat /\ \A i \in DOMAIN up : i \in Nat /\ up[i] \in Ups
         /\ DOMAIN down = 1..Len(down) /\ Len(down) \in Nat
         /\ \A i \in DOMAIN down : i \in Nat /\ down[i] \in Downs
OBVIOUS

(* The key that goes with an attempt.                                       *)
LEMMA SendKeyType ==
  ASSUME opts \in Options, NEW n \in Nat
  PROVE  /\ SendKey(n) \in Keys
         /\ opts.subkey = "des" => SendKey(n) = <<n, "subkey">>
BY DEF SendKey, Options, Keys

(* A client that goes on to its next mechanism, or has none left.           *)
LEMMA ClientUpdates ==
  ASSUME NEW c \in Clients
  PROVE  /\ \A l \in Seq(Ways), w \in Ways, t \in Nat, k \in Keys :
              [c EXCEPT !.list = l, !.tried = t, !.ctx = t, !.key = k, !.way = w] \in Clients
         /\ \A n \in Nat, k \in Keys : [c EXCEPT !.ctx = n, !.key = k] \in Clients
         /\ [c EXCEPT !.list = <<>>, !.done = Reject] \in Clients
         /\ \A k \in Keys : [c EXCEPT !.crypt = k, !.mutual = TRUE] \in Clients
         /\ \A d \in Conclusions, k \in Keys : [c EXCEPT !.done = d, !.crypt = k] \in Clients
         /\ \A n \in Nat : [c EXCEPT !.gave = n] \in Clients
         /\ c.list \in Seq(Ways) /\ c.tried \in Nat /\ c.ctx \in Nat /\ c.key \in Keys
         /\ c.crypt \in Keys /\ c.done \in Conclusions /\ c.mutual \in BOOLEAN
<1>1. <<>> \in Seq(Ways) /\ Reject \in Conclusions
  BY DEF Conclusions
<1> QED BY <1>1 DEF Clients

(* The failures of one retry are counted.                                   *)
LEMMA FailedCount ==
  ASSUME NEW k \in Nat, NEW failed \in SUBSET (1 .. k)
  PROVE  Cardinality(failed) \in Nat
<1>1. IsFiniteSet(1 .. k)
  BY FS_Interval
<1>2. IsFiniteSet(failed)
  BY <1>1, FS_Subset
<1> QED BY <1>2, FS_CardinalityType

(* auth_send_retry() sends the next attempt, with a context and a key of    *)
(* its own, or says that there is none; it leaves the rest of the client.   *)
LEMMA RetryOutcome ==
  ASSUME opts \in Options, left \in Bounds, up \in Seq(Ups), NEW c \in Clients, Retry(c),
         UNCHANGED opts
  PROVE  /\ cli' \in Clients /\ left' \in Bounds
         /\ cli'.crypt = c.crypt /\ cli'.gave = c.gave
         /\ cli'.mutual = c.mutual /\ cli'.stale = c.stale
         /\ \E u \in Ups :
              /\ up' = Append(up, u)
              /\ \/ /\ u.m = "auth" /\ u.way \in Ways /\ u.att = cli'.ctx /\ cli'.ctx # 0
                    /\ KeyMade' /\ cli'.done = c.done
                 \/ u.m = "null" /\ cli'.done = Reject
<1>0. /\ c.list \in Seq(Ways) /\ c.tried \in Nat /\ c.ctx \in Nat /\ c.key \in Keys
  BY DEF Clients
<1>1. c.tried + 1 \in Nat /\ c.tried + 1 # 0 /\ Len(c.list) \in Nat
  BY <1>0
<1>2. PICK k \in 0 .. Len(c.list) :
        LET failed == {i \in 1 .. k : CanUse(c, i)}
        IN /\ left.fails >= Cardinality(failed)
           /\ left' = [left EXCEPT !.fails = @ - Cardinality(failed)]
           /\ \E d \in IF failed = {} THEN {c} ELSE Lost(c) :
                \/ /\ k < Len(c.list) /\ CanUse(c, k + 1)
                   /\ cli' = [Sent(d, k + 1) EXCEPT !.way = c.list[k + 1]]
                   /\ up' = Append(up, [m |-> "auth", way |-> c.list[k + 1], att |-> c.tried + 1])
                \/ /\ k = Len(c.list)
                   /\ cli' = NoneLeft(d)
                   /\ up' = Append(up, [m |-> "null", way |-> "none", att |-> 0])
  BY DEF Retry
<1> DEFINE failed == {i \in 1 .. k : CanUse(c, i)}
           w == c.list[k + 1]
<1>3. Cardinality(failed) \in Nat
  <2>1. k \in Nat /\ failed \in SUBSET (1 .. k)
    BY <1>1
  <2> QED BY <2>1, FailedCount
<1>4. left' \in Bounds
  <2> HIDE DEF failed
  <2>1. left.fails - Cardinality(failed) \in Nat
    BY <1>2, <1>3 DEF Bounds, failed
  <2>2. left' = [left EXCEPT !.fails = left.fails - Cardinality(failed)]
    BY <1>2 DEF failed
  <2> QED BY <2>1, <2>2 DEF Bounds
<1>5. PICK d \in {c} \union Lost(c) :
        \/ /\ k < Len(c.list)
           /\ cli' = [Sent(d, k + 1) EXCEPT !.way = w]
           /\ up' = Append(up, [m |-> "auth", way |-> w, att |-> c.tried + 1])
        \/ /\ cli' = NoneLeft(d)
           /\ up' = Append(up, [m |-> "null", way |-> "none", att |-> 0])
  BY <1>2
<1>6. /\ d \in Clients /\ d.tried = c.tried /\ d.list = c.list /\ d.done = c.done
      /\ d.crypt = c.crypt /\ d.gave = c.gave /\ d.mutual = c.mutual /\ d.stale = c.stale
  <2>1. CASE d = c
    BY <2>1
  <2>2. CASE d \in Lost(c)
    <3>1. NoKey \in Keys /\ 0 \in Nat
      BY DEF NoKey, Keys
    <3>2. d = c \/ d = [c EXCEPT !.ctx = 0, !.key = NoKey]
      BY <2>2 DEF Lost, NoKey
    <3>3. [c EXCEPT !.ctx = 0, !.key = NoKey] \in Clients
      BY <3>1, ClientUpdates
    <3> HIDE DEF NoKey
    <3> QED BY <3>2, <3>3 DEF Clients
  <2> QED BY <2>1, <2>2
<1> HIDE DEF failed, w
<1>7. CASE /\ k < Len(c.list)
           /\ cli' = [Sent(d, k + 1) EXCEPT !.way = w]
           /\ up' = Append(up, [m |-> "auth", way |-> w, att |-> c.tried + 1])
  <2> DEFINE t == c.tried + 1
             l == SubSeq(d.list, (k + 1) + 1, Len(d.list))
             kk == SendKey(t)
             u == [m |-> "auth", way |-> w, att |-> t]
  <2>1. w \in Ways /\ k + 1 \in 1 .. Len(c.list)
    BY <1>0, <1>1, <1>7 DEF w
  <2>2. l \in Seq(Ways)
    BY <1>0, <1>1, <1>6, <2>1
  <2>3. t \in Nat /\ t # 0 /\ kk \in Keys /\ (opts.subkey = "des" => kk = <<t, "subkey">>)
    BY <1>1, SendKeyType
  <2>4. cli' = [d EXCEPT !.list = l, !.tried = t, !.ctx = t, !.key = kk, !.way = w]
    <3>1. Sent(d, k + 1) = [d EXCEPT !.list = l, !.tried = t, !.ctx = t, !.key = kk]
      BY <1>6 DEF Sent
    <3> HIDE DEF l, t, kk
    <3> QED BY <1>7, <3>1
  <2>5. u \in Ups /\ u.m = "auth" /\ u.way = w /\ u.att = t /\ up' = Append(up, u)
    BY <1>7, <2>1, <2>3 DEF Ups, Requests
  <2> HIDE DEF t, l, kk, u
  <2>6. cli' \in Clients
    BY <1>6, <2>1, <2>2, <2>3, <2>4, ClientUpdates
  <2>7. /\ cli'.ctx = t /\ cli'.key = kk /\ cli'.done = d.done /\ cli'.crypt = d.crypt
        /\ cli'.gave = d.gave /\ cli'.mutual = d.mutual /\ cli'.stale = d.stale
    BY <1>6, <2>4 DEF Clients
  <2>8. KeyMade'
    BY <2>3, <2>7 DEF KeyMade
  <2> QED BY <1>4, <1>6, <2>1, <2>3, <2>5, <2>6, <2>7, <2>8
<1>8. CASE /\ cli' = NoneLeft(d)
           /\ up' = Append(up, [m |-> "null", way |-> "none", att |-> 0])
  <2> DEFINE u == [m |-> "null", way |-> "none", att |-> 0]
  <2>1. cli' = [d EXCEPT !.list = <<>>, !.done = Reject]
    BY <1>8 DEF NoneLeft
  <2>2. cli' \in Clients
    BY <1>6, <2>1, ClientUpdates
  <2>3. /\ cli'.done = Reject /\ cli'.crypt = d.crypt
        /\ cli'.gave = d.gave /\ cli'.mutual = d.mutual /\ cli'.stale = d.stale
    BY <1>6, <2>1 DEF Clients
  <2>4. u \in Ups /\ u.m = "null" /\ up' = Append(up, u)
    BY <1>8 DEF Ups, Requests
  <2> QED BY <1>4, <1>6, <2>2, <2>3, <2>4
<1> QED BY <1>5, <1>7, <1>8----------------------------------------------------------------------------
(* What the server changes leaves its type.                                 *)
LEMMA ServerUpdates ==
  ASSUME NEW s \in Servers
  PROVE  /\ [s EXCEPT !.reading = FALSE] \in Servers
         /\ [s EXCEPT !.reading = TRUE] \in Servers
         /\ [s EXCEPT !.at = "waiting"] \in Servers
         /\ [s EXCEPT !.at = "asking"] \in Servers
         /\ [s EXCEPT !.at = "done"] \in Servers
         /\ [s EXCEPT !.at = "asking", !.auth = Reject] \in Servers
         /\ [s EXCEPT !.auth = Reject] \in Servers
         /\ \A b \in BOOLEAN :
              [s EXCEPT !.auth = Reject, !.struck = b, !.late = TRUE] \in Servers
         /\ \A d \in Conclusions, n \in Nat, k \in Keys :
              [s EXCEPT !.auth = d, !.ctx = n, !.crypt = k] \in Servers
         /\ \A n \in Nat : [s EXCEPT !.ctx = n] \in Servers
         /\ \A n \in Nat : [s EXCEPT !.creds = n] \in Servers
         /\ [s EXCEPT !.ignored = TRUE] \in Servers
         /\ [s EXCEPT !.asked = TRUE] \in Servers
         /\ s.ctx \in Nat /\ s.creds \in Nat /\ s.struck \in BOOLEAN
<1>1. Reject \in Conclusions
  BY DEF Conclusions
<1> QED BY <1>1 DEF Servers
(* The bounds count down.                                                   *)
LEMMA BoundUpdates ==
  ASSUME NEW b \in Bounds
  PROVE  /\ b.fails > 0 => [b EXCEPT !.fails = @ - 1] \in Bounds
         /\ b.alarms > 0 => [b EXCEPT !.alarms = @ - 1] \in Bounds
         /\ b.opens > 0 => [b EXCEPT !.opens = @ - 1] \in Bounds
BY DEF Bounds

(* A connection starts with an idle server and what the client opens with.  *)
LEMMA StartType ==
  ASSUME NEW b \in BOOLEAN, opts \in Options
  PROVE  Fresh(b) \in Clients /\ Idle \in Servers /\ Opening \in Seq(Ups)
<1>1. <<>> \in Seq(Ways) /\ <<0, "none">> \in Keys /\ None \in Conclusions
  BY DEF Keys, Conclusions
<1>2. Fresh(b) \in Clients
  BY <1>1 DEF Fresh, Clients
<1>3. Idle \in Servers
  BY <1>1 DEF Idle, Servers
<1>4. \A x \in {"will", "wont", "other"} : [m |-> x, way |-> "none", att |-> 0] \in Ups
  BY DEF Ups, Requests
<1>5. Opening \in Seq(Ups)
  BY <1>4 DEF Opening
<1> QED BY <1>2, <1>3, <1>5

(* The first message to the client, and what hearing it leaves.             *)
LEMMA Heard ==
  ASSUME TypeOK, NEW k, Hear(k)
  PROVE  /\ down # <<>> /\ down' = Tail(down) /\ Head(down).m = k /\ Head(down) \in Downs
         /\ down' \in Seq(Downs) /\ Head(down) = down[1] /\ 1 \in DOMAIN down
         /\ UNCHANGED <<opts, srv>>
         /\ k \in {"reject", "response", "accept"} =>
              Head(down).way \in Ways /\ Head(down).att \in Nat
<1>1. /\ down # <<>> /\ down' = Tail(down) /\ Head(down).m = k /\ down \in Seq(Downs)
      /\ UNCHANGED <<opts, srv>>
  BY DEF Hear, TypeOK
<1>2. /\ down' \in Seq(Downs) /\ Head(down) = down[1] /\ 1 \in DOMAIN down /\ Head(down) \in Downs
  BY <1>1, DownTaken
<1> QED BY <1>1, <1>2 DEF Downs, Attempts

(* The same for the server.                                                 *)
LEMMA Got ==
  ASSUME TypeOK, NEW k, Get(k)
  PROVE  /\ up # <<>> /\ up' = Tail(up) /\ Head(up).m = k /\ Head(up) \in Ups
         /\ up' \in Seq(Ups) /\ Head(up) = up[1] /\ 1 \in DOMAIN up
         /\ UNCHANGED <<opts, cli>>
         /\ Head(up).att \in Nat
         /\ k \in {"auth", "forward"} => Head(up).way \in Ways
         /\ Handling \in Servers /\ Handling.at = srv.at
<1>1. /\ up # <<>> /\ up' = Tail(up) /\ Head(up).m = k /\ up \in Seq(Ups)
      /\ UNCHANGED <<opts, cli>> /\ srv \in Servers
  BY DEF Get, TypeOK
<1>2. /\ up' \in Seq(Ups) /\ Head(up) = up[1] /\ 1 \in DOMAIN up /\ Head(up) \in Ups
  BY <1>1, UpTaken
<1>3. Handling \in Servers /\ Handling.at = srv.at
  <2>1. Handling \in Servers
    BY <1>1, ServerUpdates DEF Handling
  <2>2. Handling.at = srv.at
    BY <1>1 DEF Handling, Servers
  <2> QED BY <2>1, <2>2
<1> QED BY <1>1, <1>2, <1>3 DEF Ups, Requests

(* The variables have their types at the start and keep them.               *)
LEMMA TypeInit == Init => TypeOK
<1> SUFFICES ASSUME Init PROVE TypeOK
  OBVIOUS
<1>1. opts \in Options
  BY DEF Init, Options
<1>2. left \in Bounds
  BY AuthAssumption DEF Init, Bounds
<1>3. cli \in Clients /\ srv \in Servers /\ up \in Seq(Ups) /\ down \in Seq(Downs)
  <2>1. Fresh(FALSE) \in Clients /\ Idle \in Servers /\ Opening \in Seq(Ups)
    BY <1>1, StartType
  <2>2. <<>> \in Seq(Downs)
    OBVIOUS
  <2> QED BY <2>1, <2>2 DEF Init
<1> QED BY <1>1, <1>2, <1>3 DEF TypeOK

(* The client's conclusion is an attempt that was accepted.                 *)
LEMMA ConcludedType ==
  ASSUME cli \in Clients, NEW d \in Conclusions
  PROVE  /\ Concluded(cli, d) \in Clients
         /\ \E k \in Keys : Concluded(cli, d) = [cli EXCEPT !.done = d, !.crypt = k]
<1> DEFINE k == IF ~cli.mutual /\ cli.key[1] # 0 THEN cli.key ELSE cli.crypt
<1>1. k \in Keys
  BY DEF Clients
<1>2. Concluded(cli, d) = [cli EXCEPT !.done = d, !.crypt = k]
  BY DEF Concluded, Clients
<1> HIDE DEF k
<1>3. [cli EXCEPT !.done = d, !.crypt = k] \in Clients
  BY <1>1, ClientUpdates
<1> QED BY <1>1, <1>2, <1>3

(* The client keeps the types.                                              *)
LEMMA TypeClient ==
  ASSUME TypeOK, ClientStep
  PROVE  TypeOK'
<1>0. /\ opts \in Options /\ cli \in Clients /\ srv \in Servers /\ left \in Bounds
      /\ up \in Seq(Ups)
  BY DEF TypeOK
<1>1. /\ UNCHANGED <<opts, srv>> /\ down' \in Seq(Downs)
  BY Heard DEF ClientStep, AuthSend, ReplyReject, ReplyResponse, ReplyAccept, ReplyOption,
               ReplyForward
<1>2. ASSUME NEW c \in Clients, Retry(c)
      PROVE  cli' \in Clients /\ left' \in Bounds /\ up' \in Seq(Ups)
  <2>1. /\ cli' \in Clients /\ left' \in Bounds
        /\ \E u \in Ups : up' = Append(up, u)
    BY <1>0, <1>1, <1>2, RetryOutcome
  <2> QED BY <1>0, <2>1, UpPut
<1>3. CASE AuthSend
  <2>1. [cli EXCEPT !.list = Mechanisms] \in Clients
    BY <1>0, AuthAssumption DEF Clients, Ways
  <2> QED BY <1>0, <1>1, <1>2, <1>3, <2>1 DEF AuthSend, TypeOK
<1>4. CASE ReplyReject
  BY <1>0, <1>1, <1>2, <1>4 DEF ReplyReject, TypeOK
<1>5. CASE ReplyResponse
  <2>1. CASE UNCHANGED <<cli, up, left>>
    BY <1>0, <1>1, <2>1 DEF TypeOK
  <2>2. CASE Retry(cli)
    BY <1>0, <1>1, <1>2, <2>2 DEF TypeOK
  <2>3. CASE /\ cli' = [cli EXCEPT !.crypt = IF cli.key[1] = 0 THEN @ ELSE cli.key, !.mutual = TRUE]
             /\ Quiet
    <3> DEFINE k == IF cli.key[1] = 0 THEN cli.crypt ELSE cli.key
    <3>1. k \in Keys
      BY <1>0 DEF Clients
    <3>2. cli' = [cli EXCEPT !.crypt = k, !.mutual = TRUE]
      BY <1>0, <2>3 DEF Clients
    <3> HIDE DEF k
    <3>3. cli' \in Clients
      BY <1>0, <3>1, <3>2, ClientUpdates
    <3> QED BY <1>0, <1>1, <2>3, <3>3 DEF TypeOK, Quiet
  <2> QED BY <1>5, <2>1, <2>2, <2>3 DEF ReplyResponse, Quiet
<1>6. CASE ReplyAccept
  <2> DEFINE d == <<Head(down).way, Head(down).att>>
             u == [m |-> "forward", way |-> Head(down).way, att |-> cli.ctx]
             c == Concluded(cli, d)
  <2>1. Hear("accept")
    BY <1>6 DEF ReplyAccept
  <2>2. Head(down).way \in Ways /\ Head(down).att \in Nat
    BY <2>1, Heard
  <2>3. d \in Conclusions
    BY <2>2 DEF Conclusions
  <2>4. c \in Clients
    BY <1>0, <2>3, ConcludedType
  <2>5. cli.ctx \in Nat
    BY <1>0 DEF Clients
  <2>6. u \in Ups
    BY <2>2, <2>5 DEF Ups, Requests
  <2>7. \/ Retry(cli)
        \/ cli' = [c EXCEPT !.gave = cli.ctx] /\ up' = Append(up, u) /\ UNCHANGED left
        \/ cli' = c /\ UNCHANGED up /\ (left' = left \/ (left.fails > 0 /\ left' = [left EXCEPT !.fails = @ - 1]))
    <3>1. CASE opts.forward
      BY <1>6, <3>1, Zenon DEF ReplyAccept
    <3>2. CASE ~opts.forward
      BY <1>6, <3>2, Zenon DEF ReplyAccept
    <3> QED BY <3>1, <3>2
  <2> HIDE DEF c, u, d
  <2>8. CASE Retry(cli)
    BY <1>0, <1>1, <1>2, <2>8 DEF TypeOK
  <2>9. CASE cli' = [c EXCEPT !.gave = cli.ctx] /\ up' = Append(up, u) /\ UNCHANGED left
    <3>1. cli' \in Clients
      BY <2>4, <2>5, <2>9, ClientUpdates
    <3>2. up' \in Seq(Ups)
      BY <1>0, <2>6, <2>9, UpPut
    <3> QED BY <1>0, <1>1, <2>9, <3>1, <3>2 DEF TypeOK
  <2>10. CASE /\ cli' = c /\ UNCHANGED up
              /\ left' = left \/ (left.fails > 0 /\ left' = [left EXCEPT !.fails = @ - 1])
    BY <1>0, <1>1, <2>4, <2>10, BoundUpdates DEF TypeOK
  <2> QED BY <2>7, <2>8, <2>9, <2>10
<1>7. CASE ReplyOption
  <2> DEFINE u == [m |-> "option", way |-> "none", att |-> 0]
  <2>1. up' = Append(up, u) /\ UNCHANGED <<cli, left>> /\ u \in Ups
    BY <1>7 DEF ReplyOption, Ups, Requests
  <2>2. up' \in Seq(Ups)
    BY <1>0, <2>1, UpPut
  <2> QED BY <1>0, <1>1, <2>1, <2>2 DEF TypeOK
<1>8. CASE ReplyForward
  BY <1>0, <1>1, <1>8 DEF ReplyForward, Quiet, TypeOK
<1> QED BY <1>3, <1>4, <1>5, <1>6, <1>7, <1>8 DEF ClientStep
(* The answers of the server.                                               *)
LEMMA AnswerType ==
  ASSUME NEW way \in Ways, NEW att \in Nat
  PROVE  /\ Tell("reject", way, att) \in Downs /\ Tell("response", way, att) \in Downs
         /\ Tell("accept", way, att) \in Downs
BY DEF Tell, Downs, Attempts
(* The other messages of the server.                                        *)
LEMMA RequestType ==
  Tell("send", "none", 0) \in Downs /\ Tell("do", "none", 0) \in Downs
  /\ Tell("forwarded", "none", 0) \in Downs
BY DEF Tell, Downs

(* What the server does with a request: nothing once it is done, else it    *)
(* accepts or rejects it.                                                   *)
LEMMA SrvAuthCases ==
  ASSUME SrvAuth
  PROVE  \/ srv.at = "done" /\ srv' = Handling /\ UNCHANGED <<down, left>>
         \/ /\ srv.at # "done" /\ UNCHANGED left
            /\ srv' = [Handling EXCEPT !.auth = <<Head(up).way, Head(up).att>>, !.ctx = Head(up).att,
                                       !.crypt = <<Head(up).att, "subkey">>]
            /\ \/ /\ Mutual(Head(up).way)
                  /\ down' = down \o <<Tell("response", Head(up).way, Head(up).att),
                                       Tell("accept", Head(up).way, Head(up).att)>>
               \/ /\ ~Mutual(Head(up).way)
                  /\ down' = Append(down, Tell("accept", Head(up).way, Head(up).att))
         \/ /\ srv.at # "done" /\ left.fails > 0 /\ left' = [left EXCEPT !.fails = @ - 1]
            /\ srv' = [Handling EXCEPT !.ctx = 0]
            /\ down' = Append(down, Tell("reject", Head(up).way, Head(up).att))
BY DEF SrvAuth, Answer
(* The server keeps the types.                                              *)
LEMMA TypeServer ==
  ASSUME TypeOK, ServerStep
  PROVE  TypeOK'
<1>0. /\ opts \in Options /\ cli \in Clients /\ srv \in Servers /\ left \in Bounds
      /\ up \in Seq(Ups) /\ down \in Seq(Downs)
  BY DEF TypeOK
<1>1. ASSUME NEW d \in Downs, down' = Append(down, d)
      PROVE  down' \in Seq(Downs)
  BY <1>0, <1>1, DownPut
<1>2. \A s \in Servers :
        /\ [s EXCEPT !.reading = TRUE] \in Servers
        /\ [s EXCEPT !.at = "waiting"] \in Servers
        /\ [s EXCEPT !.at = "asking"] \in Servers
        /\ [s EXCEPT !.at = "done"] \in Servers
        /\ [s EXCEPT !.at = "asking", !.auth = Reject] \in Servers
        /\ [s EXCEPT !.auth = Reject] \in Servers
        /\ [s EXCEPT !.ignored = TRUE] \in Servers
        /\ [s EXCEPT !.asked = TRUE] \in Servers
  BY ServerUpdates
<1>3. CASE SrvWill
  <2>1. Get("will")
    BY <1>3 DEF SrvWill
  <2> QED BY <1>0, <1>1, <1>2, <1>3, <2>1, Got, RequestType DEF SrvWill, TypeOK
<1>4. CASE SrvWont
  <2>1. Get("wont")
    BY <1>4 DEF SrvWont
  <2> QED BY <1>0, <1>1, <1>2, <1>4, <2>1, Got, RequestType DEF SrvWont, TypeOK
<1>5. CASE SrvOther
  <2>1. Get("other")
    BY <1>5 DEF SrvOther
  <2> QED BY <1>0, <1>5, <2>1, Got DEF SrvOther, TypeOK
<1>6. CASE SrvAuth
  <2> DEFINE way == Head(up).way
             att == Head(up).att
             d == <<way, att>>
             k == <<att, "subkey">>
  <2>1. Get("auth")
    BY <1>6 DEF SrvAuth
  <2>2. /\ way \in Ways /\ att \in Nat /\ Handling \in Servers
        /\ UNCHANGED <<opts, cli>> /\ up' \in Seq(Ups)
    BY <2>1, Got
  <2>3. d \in Conclusions /\ k \in Keys
    BY <2>2 DEF Conclusions, Keys
  <2>4. \/ srv.at = "done" /\ srv' = Handling /\ UNCHANGED <<down, left>>
        \/ /\ srv.at # "done" /\ UNCHANGED left
           /\ srv' = [Handling EXCEPT !.auth = d, !.ctx = att, !.crypt = k]
           /\ \/ down' = down \o <<Tell("response", way, att), Tell("accept", way, att)>>
              \/ down' = Append(down, Tell("accept", way, att))
        \/ /\ srv.at # "done" /\ left.fails > 0 /\ left' = [left EXCEPT !.fails = @ - 1]
           /\ srv' = [Handling EXCEPT !.ctx = 0]
           /\ down' = Append(down, Tell("reject", way, att))
    BY <1>6, SrvAuthCases
  <2> HIDE DEF way, att, d, k
  <2>5. /\ Tell("reject", way, att) \in Downs /\ Tell("response", way, att) \in Downs
        /\ Tell("accept", way, att) \in Downs
    BY <2>2, AnswerType
  <2>6. down' \in Seq(Downs)
    <3>1. CASE down' = down \o <<Tell("response", way, att), Tell("accept", way, att)>>
      BY <1>0, <2>5, <3>1, DownPutTwo
    <3> QED BY <1>0, <1>1, <2>4, <2>5, <3>1
  <2>7. srv' \in Servers
    <3>1. [Handling EXCEPT !.auth = d, !.ctx = att, !.crypt = k] \in Servers
      BY <2>2, <2>3, ServerUpdates
    <3>2. [Handling EXCEPT !.ctx = 0] \in Servers
      BY <2>2, ServerUpdates
    <3> QED BY <2>2, <2>4, <3>1, <3>2
  <2>8. left' \in Bounds
    BY <1>0, <2>4, BoundUpdates
  <2> QED BY <1>0, <2>2, <2>6, <2>7, <2>8 DEF TypeOK
<1>7. CASE SrvNull
  <2>1. Get("null")
    BY <1>7 DEF SrvNull
  <2> QED BY <1>0, <1>2, <1>7, <2>1, Got DEF SrvNull, Null, TypeOK
<1>8. CASE SrvForward
  <2> DEFINE n == IF srv.ctx = Head(up).att THEN srv.ctx ELSE Handling.creds
  <2>1. Get("forward")
    BY <1>8 DEF SrvForward
  <2>2. Handling \in Servers /\ UNCHANGED <<opts, cli>> /\ up' \in Seq(Ups)
    BY <2>1, Got
  <2>3. n \in Nat
    BY <1>0, <2>2, ServerUpdates
  <2>4. \/ srv' = [Handling EXCEPT !.ignored = TRUE] /\ UNCHANGED <<down, left>>
        \/ /\ srv' = [Handling EXCEPT !.creds = n] /\ UNCHANGED left
           /\ down' = Append(down, Tell("forwarded", "none", 0))
    BY <1>8, <2>2 DEF SrvForward, Servers
  <2> HIDE DEF n
  <2>5. srv' \in Servers /\ down' \in Seq(Downs)
    <3>1. [Handling EXCEPT !.creds = n] \in Servers
      BY <2>2, <2>3, ServerUpdates
    <3> QED BY <1>0, <1>1, <1>2, <2>2, <2>4, <3>1, RequestType
  <2> QED BY <1>0, <2>2, <2>4, <2>5 DEF TypeOK
<1>9. CASE SrvOption
  <2>1. Get("option")
    BY <1>9 DEF SrvOption
  <2> QED BY <1>0, <1>2, <1>9, <2>1, Got DEF SrvOption, TypeOK
<1>10. CASE Test
  BY <1>0, <1>1, <1>2, <1>10, RequestType DEF Test, TypeOK
<1>11. CASE Negotiated
  BY <1>0, <1>2, <1>11 DEF Negotiated, TypeOK
<1> QED BY <1>3, <1>4, <1>5, <1>6, <1>7, <1>8, <1>9, <1>10, <1>11 DEF ServerStep

(* Every step keeps the types.                                              *)
LEMMA TypeStep == TypeOK /\ [StartNext]_startVars => TypeOK'
<1> SUFFICES ASSUME TypeOK, [StartNext]_startVars PROVE TypeOK'
  OBVIOUS
<1>0. /\ opts \in Options /\ cli \in Clients /\ srv \in Servers /\ left \in Bounds
  BY DEF TypeOK
<1>1. CASE UNCHANGED vars
  BY <1>1 DEF vars, TypeOK
<1>2. CASE Alarm
  <2>1. /\ left' = [left EXCEPT !.alarms = @ - 1] /\ left.alarms > 0
        /\ srv' = [srv EXCEPT !.auth = Reject, !.struck = srv.struck \/ srv.auth # None, !.late = TRUE]
    BY <1>0, <1>2 DEF Alarm, Servers
  <2>2. srv' \in Servers /\ left' \in Bounds
    BY <1>0, <2>1, ServerUpdates, BoundUpdates
  <2> QED BY <1>2, <2>2 DEF Alarm, TypeOK
<1>3. CASE Open
  <2>1. left' = [left EXCEPT !.opens = @ - 1] /\ left.opens > 0 /\ cli.mutual \in BOOLEAN
    BY <1>0, <1>3 DEF Open, Clients
  <2>2. left' \in Bounds
    BY <1>0, <2>1, BoundUpdates
  <2>3. Fresh(cli.mutual) \in Clients /\ Idle \in Servers /\ Opening \in Seq(Ups)
    BY <1>0, <2>1, StartType
  <2> QED BY <1>3, <2>2, <2>3 DEF Open, TypeOK
<1> QED BY <1>1, <1>2, <1>3, TypeClient, TypeServer DEF StartNext, Authenticate, AskType, Reopen, startVars
(* The variables have their types in every state of a start.                *)
THEOREM TypeCorrect == StartSpec => []TypeOK
<1>1. StartInit => TypeOK
  BY TypeInit DEF StartInit
<1> QED BY <1>1, TypeStep, PTL DEF StartSpec
----------------------------------------------------------------------------
(* An end without a message that carries on.                                *)
LEMMA Ends ==
  ASSUME Silent', Settling'
  PROVE  OneSpeaks' /\ Meaning'
<1>1. \A i \in DOMAIN up' : up'[i].m \notin Says
  BY DEF Silent
<1>2. \A i \in DOMAIN down' : down'[i].m \notin Answers
  BY DEF Silent
<1>3. OneSpeaks'
  BY <1>1, <1>2 DEF OneSpeaks, Answers
<1>4. Meaning'
  BY <1>1, <1>2 DEF Meaning, Says, Answers, Settling
<1> QED BY <1>3, <1>4

(* The client speaks, and nothing else carries on.                          *)
LEMMA UpSpeaks ==
  ASSUME up \in Seq(Ups), \A i \in DOMAIN up : up[i].m \notin Says,
         \A j \in DOMAIN down' : down'[j].m \notin Answers,
         NEW u \in Ups, up' = Append(up, u), u.m \in {"auth", "null"},
         srv'.at # "start", srv'.at \in {"asking", "done"} => srv'.auth # None,
         u.m = "auth" => Unsettled' /\ KeyMade' /\ cli'.ctx # 0 /\ u.att = cli'.ctx,
         u.m = "null" => Open0' /\ cli'.done = Reject
  PROVE  OneSpeaks' /\ Meaning'
<1>1. /\ \A i \in DOMAIN up' : \/ i \in DOMAIN up /\ up'[i] = up[i]
                               \/ i = Len(up) + 1 /\ up'[i] = u
      /\ Len(up) + 1 \in DOMAIN up' /\ up'[Len(up) + 1] = u
  BY UpPut
<1>2. \A i \in DOMAIN up' : up'[i].m \in Says => i = Len(up) + 1 /\ up'[i] = u
  BY <1>1
<1>3. ~Silent'
  BY <1>1 DEF Silent, Says
<1>4. OneSpeaks'
  BY <1>2 DEF OneSpeaks, Answers
<1>5. Meaning'
  BY <1>2, <1>3 DEF Meaning, Says, Answers
<1> QED BY <1>4, <1>5

(* The server speaks without accepting.                                     *)
LEMMA DownSpeaks ==
  ASSUME down \in Seq(Downs), \A j \in DOMAIN down : down[j].m \notin Answers,
         \A i \in DOMAIN up' : up'[i].m \notin Says,
         NEW d \in Downs, down' = Append(down, d), d.m \in {"send", "reject"},
         srv'.at # "start", srv'.at \in {"asking", "done"} => srv'.auth # None,
         Unsettled'
  PROVE  OneSpeaks' /\ Meaning'
<1>1. /\ \A i \in DOMAIN down' : \/ i \in DOMAIN down /\ down'[i] = down[i]
                                 \/ i = Len(down) + 1 /\ down'[i] = d
      /\ Len(down) + 1 \in DOMAIN down' /\ down'[Len(down) + 1] = d
      /\ Len(down) \in Nat
  BY DownPut
<1>2. \A i \in DOMAIN down' : down'[i].m \in Answers => i = Len(down) + 1 /\ down'[i] = d
  BY <1>1
<1>3. ~Silent'
  BY <1>1 DEF Silent, Answers
<1>4. OneSpeaks'
  BY <1>1, <1>2 DEF OneSpeaks, Answers
<1>5. Meaning'
  BY <1>2, <1>3 DEF Meaning, Says, Answers
<1> QED BY <1>4, <1>5

(* The server accepts, with a response before it if the way is mutual.      *)
LEMMA DownAccepts ==
  ASSUME down \in Seq(Downs), \A j \in DOMAIN down : down[j].m \notin Answers,
         \A i \in DOMAIN up' : up'[i].m \notin Says,
         NEW way \in Ways, NEW att \in Nat,
         \/ /\ Mutual(way)
            /\ down' = down \o <<Tell("response", way, att), Tell("accept", way, att)>>
         \/ ~Mutual(way) /\ down' = Append(down, Tell("accept", way, att)),
         Accepting', att = cli'.ctx, srv'.auth = <<way, att>>,
         cli'.crypt = NoKey, cli'.mutual = cli'.stale
  PROVE  OneSpeaks' /\ Meaning'
<1> DEFINE d == Tell("response", way, att)
           e == Tell("accept", way, att)
           n == Len(down)
<1>1. d \in Downs /\ e \in Downs
  BY AnswerType
<1>2. /\ d.m = "response" /\ d.way = way /\ d.att = att
      /\ e.m = "accept" /\ e.way = way /\ e.att = att
      /\ e = [m |-> "accept", way |-> way, att |-> att]
  BY DEF Tell
<1> HIDE DEF d, e
<1>3. n \in Nat
  OBVIOUS
<1>4. CASE Mutual(way) /\ down' = down \o <<d, e>>
  <2>1. /\ \A i \in DOMAIN down' : \/ i \in DOMAIN down /\ down'[i] = down[i]
                                   \/ i = n + 1 /\ down'[i] = d
                                   \/ i = n + 2 /\ down'[i] = e
        /\ n + 1 \in DOMAIN down' /\ down'[n + 1] = d
        /\ n + 2 \in DOMAIN down' /\ down'[n + 2] = e
    BY <1>1, <1>4, DownPutTwo
  <2>2. \A i \in DOMAIN down' :
          down'[i].m \in Answers => (i = n + 1 /\ down'[i] = d) \/ (i = n + 2 /\ down'[i] = e)
    BY <2>1
  <2>3. ~Silent'
    BY <1>2, <2>1 DEF Silent, Answers
  <2>4. OneSpeaks'
    <3>1. ASSUME NEW i \in DOMAIN down', NEW j \in DOMAIN down', i < j,
                 down'[i].m \in Answers, down'[j].m \in Answers
          PROVE  down'[i].m = "response" /\ down'[j].m = "accept"
      BY <1>2, <1>3, <2>2, <3>1
    <3>2. ASSUME NEW i \in DOMAIN down', down'[i].m = "response"
          PROVE  /\ i + 1 \in DOMAIN down'
                 /\ down'[i + 1] = [m |-> "accept", way |-> down'[i].way, att |-> down'[i].att]
      <4>1. i = n + 1 /\ down'[i] = d
        BY <1>2, <2>2, <3>2 DEF Answers
      <4> QED BY <1>2, <1>3, <2>1, <4>1
    <3> QED BY <3>1, <3>2 DEF OneSpeaks
  <2>5. Meaning'
    <3>1. ASSUME NEW i \in DOMAIN down', down'[i].m \in Answers
          PROVE  /\ down'[i].m \in {"response", "accept"} /\ down'[i].att = att /\ down'[i].way = way
      BY <1>2, <2>2, <3>1
    <3>2. \E j \in DOMAIN down' : down'[j].m = "response"
      BY <1>2, <2>1
    <3> QED BY <1>4, <2>3, <3>1, <3>2 DEF Meaning, Says, Answers, Accepting
  <2> QED BY <2>4, <2>5
<1>5. CASE ~Mutual(way) /\ down' = Append(down, e)
  <2>1. /\ \A i \in DOMAIN down' : \/ i \in DOMAIN down /\ down'[i] = down[i]
                                   \/ i = n + 1 /\ down'[i] = e
        /\ n + 1 \in DOMAIN down' /\ down'[n + 1] = e
    BY <1>1, <1>5, DownPut
  <2>2. \A i \in DOMAIN down' : down'[i].m \in Answers => i = n + 1 /\ down'[i] = e
    BY <2>1
  <2>3. ~Silent'
    BY <1>2, <2>1 DEF Silent, Answers
  <2>4. OneSpeaks'
    BY <1>2, <1>3, <2>2 DEF OneSpeaks, Answers
  <2>5. Meaning'
    BY <1>2, <1>5, <2>2, <2>3 DEF Meaning, Says, Answers, Accepting
  <2> QED BY <2>4, <2>5
<1> QED BY <1>4, <1>5 DEF d, e

(* A step that takes and puts only messages that do not carry on, and       *)
(* leaves what those that do mean: the rest has moved up by a and by b.     *)
LEMMA Rest ==
  ASSUME up \in Seq(Ups), down \in Seq(Downs), up' \in Seq(Ups), down' \in Seq(Downs),
         OneSpeaks, Meaning,
         NEW a \in {0, 1}, NEW b \in {0, 1},
         \A i \in DOMAIN up' :
           up'[i].m \in Says => i + a \in DOMAIN up /\ up'[i] = up[i + a],
         \A i \in DOMAIN up :
           up[i].m \in Says => i - a \in DOMAIN up' /\ up'[i - a] = up[i],
         \A i \in DOMAIN down' :
           down'[i].m \in Answers => i + b \in DOMAIN down /\ down'[i] = down[i + b],
         \A i \in DOMAIN down :
           down[i].m \in Answers => i - b \in DOMAIN down' /\ down'[i - b] = down[i],
         Unsettled => Unsettled', Open0 => Open0', Accepting => Accepting',
         Settling => Settling', KeyMade => KeyMade',
         UNCHANGED <<opts, cli>>,
         srv.at # "start" => srv'.at # "start", srv.at = "start" => srv'.at = "start",
         srv'.at \in {"asking", "done"} => srv'.auth # None,
         \/ UNCHANGED <<srv.struck, srv.auth>>
         \/ srv.auth # None => srv'.struck
  PROVE  OneSpeaks' /\ Meaning'
<1>1. OneSpeaks'
  <2>1. \A i \in DOMAIN up' : i \in Int
    BY Positions
  <2>2. /\ \A i, j \in DOMAIN up' : up'[i].m \in Says /\ up'[j].m \in Says => i = j
        /\ \A i \in DOMAIN up', j \in DOMAIN down' : up'[i].m \notin Says \/ down'[j].m \notin Answers
    <3>1. ASSUME NEW i \in DOMAIN up', NEW j \in DOMAIN up', up'[i].m \in Says, up'[j].m \in Says
          PROVE  i = j
      <4>1. i + a = j + a
        BY <3>1 DEF OneSpeaks
      <4> QED BY <2>1, <4>1
    <3>2. ASSUME NEW i \in DOMAIN up', NEW j \in DOMAIN down'
          PROVE  up'[i].m \notin Says \/ down'[j].m \notin Answers
      BY DEF OneSpeaks
    <3> QED BY <3>1, <3>2
  <2>3. \A i \in DOMAIN down' : i \in Int
    OBVIOUS
  <2>4. ASSUME NEW i \in DOMAIN down', NEW j \in DOMAIN down', i < j,
               down'[i].m \in Answers, down'[j].m \in Answers
        PROVE  down'[i].m = "response" /\ down'[j].m = "accept"
    <3>1. i + b < j + b
      BY <2>3, <2>4
    <3> QED BY <2>4, <3>1 DEF OneSpeaks
  <2>5. ASSUME NEW i \in DOMAIN down', down'[i].m = "response"
        PROVE  /\ i + 1 \in DOMAIN down'
               /\ down'[i + 1] = [m |-> "accept", way |-> down'[i].way, att |-> down'[i].att]
    <3>1. i + b \in DOMAIN down /\ down'[i] = down[i + b]
      BY <2>5 DEF Answers
    <3>2. /\ (i + b) + 1 \in DOMAIN down
          /\ down[(i + b) + 1] = [m |-> "accept", way |-> down[i + b].way, att |-> down[i + b].att]
      BY <2>5, <3>1 DEF OneSpeaks
    <3>3. down[(i + b) + 1].m \in Answers
      BY <3>2 DEF Answers
    <3>4. ((i + b) + 1) - b \in DOMAIN down' /\ down'[((i + b) + 1) - b] = down[(i + b) + 1]
      BY <3>2, <3>3
    <3>5. ((i + b) + 1) - b = i + 1
      BY <2>3
    <3> QED BY <3>1, <3>2, <3>4, <3>5
  <2> QED BY <2>2, <2>4, <2>5 DEF OneSpeaks
<1>2. Meaning'
  <2>1. Silent' => Silent
    BY DEF Silent
  <2>2. Mutual("oneway") = FALSE
    BY DEF Mutual
  <2>3. ASSUME NEW i \in DOMAIN up'
        PROVE  /\ up'[i].m \in {"will", "wont"} => Unsettled' /\ srv'.at = "start"
               /\ up'[i].m = "auth" => /\ Unsettled' /\ srv'.at # "start"
                                       /\ KeyMade' /\ cli'.ctx # 0 /\ up'[i].att = cli'.ctx
               /\ up'[i].m = "null" => Open0' /\ cli'.done = Reject /\ srv'.at # "start"
    <3>1. CASE up'[i].m \in Says
      <4>1. i + a \in DOMAIN up /\ up'[i] = up[i + a]
        BY <3>1
      <4> QED BY <4>1 DEF Meaning
    <3>2. CASE up'[i].m \notin Says
      BY <3>2 DEF Says
    <3> QED BY <3>1, <3>2
  <2>4. ASSUME NEW i \in DOMAIN down', down'[i].m \in Answers
        PROVE  /\ down'[i].m \in {"send", "reject"} => Unsettled' /\ srv'.at # "start"
               /\ down'[i].m \in {"response", "accept"} =>
                    /\ Accepting' /\ down'[i].att = cli'.ctx
                    /\ ~srv'.struck => srv'.auth = <<down'[i].way, down'[i].att>>
               /\ down'[i].m = "response" =>
                    cli'.crypt = NoKey /\ cli'.mutual = cli'.stale /\ Mutual(down'[i].way)
               /\ down'[i].m = "accept" /\ ~Mutual(down'[i].way) =>
                    cli'.crypt = NoKey /\ cli'.mutual = cli'.stale
               /\ down'[i].m = "accept" /\ Mutual(down'[i].way) =>
                    \/ \E j \in DOMAIN down' : down'[j].m = "response"
                    \/ cli'.mutual /\ (opts'.subkey = "des" => cli'.crypt = <<cli'.ctx, "subkey">>)
    <3>1. i + b \in DOMAIN down /\ down'[i] = down[i + b]
      BY <2>4
    <3>2. /\ down[i + b].m \in {"send", "reject"} => Unsettled /\ srv.at # "start"
          /\ down[i + b].m \in {"response", "accept"} =>
               /\ Accepting /\ down[i + b].att = cli.ctx
               /\ ~srv.struck => srv.auth = <<down[i + b].way, down[i + b].att>>
          /\ down[i + b].m = "response" =>
               cli.crypt = NoKey /\ cli.mutual = cli.stale /\ Mutual(down[i + b].way)
          /\ down[i + b].m = "accept" /\ ~Mutual(down[i + b].way) =>
               cli.crypt = NoKey /\ cli.mutual = cli.stale
          /\ down[i + b].m = "accept" /\ Mutual(down[i + b].way) =>
               \/ \E j \in DOMAIN down : down[j].m = "response"
               \/ cli.mutual /\ (opts.subkey = "des" => cli.crypt = <<cli.ctx, "subkey">>)
      BY <3>1 DEF Meaning
    <3>3. (\E j \in DOMAIN down : down[j].m = "response")
          => \E j \in DOMAIN down' : down'[j].m = "response"
      BY DEF Answers
    <3> QED BY <3>1, <3>2, <3>3 DEF Accepting
  <2>5. srv'.at \in {"asking", "done"} => srv'.auth # None
    OBVIOUS
  <2>6. Silent' => Settling'
    BY <2>1 DEF Meaning
  <2> QED BY <2>3, <2>4, <2>5, <2>6 DEF Meaning, Answers
<1> QED BY <1>1, <1>2
----------------------------------------------------------------------------
(* When the client hears what carries on, that was all there was; but for   *)
(* the acceptance that comes behind a response.                             *)
LEMMA HeardTurn ==
  ASSUME TypeOK, OneSpeaks, NEW k \in Answers, Hear(k)
  PROVE  /\ \A i \in DOMAIN up : up[i].m \notin Says
         /\ k # "response" => \A j \in DOMAIN down' : down'[j].m \notin Answers
         /\ k = "response" =>
              /\ \A j \in DOMAIN down' : down'[j].m \in Answers => j = 1
              /\ 1 \in DOMAIN down'
              /\ down'[1] = [m |-> "accept", way |-> down[1].way, att |-> down[1].att]
<1>1. /\ down \in Seq(Downs) /\ down # <<>> /\ down' = Tail(down) /\ down[1].m = k
      /\ 1 \in DOMAIN down
  BY Heard DEF TypeOK
<1>2. \A i \in DOMAIN up : up[i].m \notin Says
  BY <1>1 DEF OneSpeaks
<1>3. ASSUME NEW j \in DOMAIN down', down'[j].m \in Answers
      PROVE  k = "response" /\ j = 1
  <2>1. j + 1 \in DOMAIN down /\ down'[j] = down[j + 1] /\ 1 < j + 1
    <3>1. j + 1 \in DOMAIN down /\ down'[j] = down[j + 1] /\ j + 1 # 1 /\ DOMAIN down = 1 .. Len(down)
      BY <1>1, <1>3, DownTaken
    <3> QED BY <1>1, <3>1
  <2>2. down[1].m = "response" /\ down[j + 1].m = "accept"
    BY <1>1, <1>3, <2>1 DEF OneSpeaks
  <2>3. 2 \in DOMAIN down /\ down[2].m = "accept"
    <3>1. /\ 1 + 1 \in DOMAIN down
          /\ down[1 + 1] = [m |-> "accept", way |-> down[1].way, att |-> down[1].att]
      BY <1>1, <2>2 DEF OneSpeaks
    <3> QED BY <3>1
  <2>4. j = 1
    <3>1. j \in Int
      BY <1>1, <1>3
    <3>2. CASE 2 < j + 1
      <4>1. down[2].m = "response"
        BY <2>1, <2>2, <2>3, <3>2 DEF OneSpeaks, Answers
      <4> QED BY <2>3, <4>1
    <3> QED BY <2>1, <3>1, <3>2
  <2> QED BY <1>1, <2>2, <2>4
<1>4. ASSUME k = "response"
      PROVE  /\ 1 \in DOMAIN down'
             /\ down'[1] = [m |-> "accept", way |-> down[1].way, att |-> down[1].att]
  <2>1. /\ 1 + 1 \in DOMAIN down
        /\ down[1 + 1] = [m |-> "accept", way |-> down[1].way, att |-> down[1].att]
    BY <1>1, <1>4 DEF OneSpeaks
  <2>2. 2 - 1 \in DOMAIN down' /\ down'[2 - 1] = down[2]
    BY <1>1, <2>1, DownTaken
  <2> QED BY <2>1, <2>2
<1> QED BY <1>2, <1>3, <1>4

(* When the server gets what carries on, that was all there was.            *)
LEMMA GotTurn ==
  ASSUME TypeOK, OneSpeaks, NEW k \in Says, Get(k)
  PROVE  /\ \A i \in DOMAIN up' : up'[i].m \notin Says
         /\ \A j \in DOMAIN down : down[j].m \notin Answers
<1>1. /\ up \in Seq(Ups) /\ up # <<>> /\ up' = Tail(up) /\ up[1].m = k /\ 1 \in DOMAIN up
  BY Got DEF TypeOK
<1>2. ASSUME NEW i \in DOMAIN up', up'[i].m \in Says
      PROVE  FALSE
  <2>1. i + 1 \in DOMAIN up /\ up'[i] = up[i + 1] /\ i + 1 # 1
    BY <1>1, <1>2, UpTaken
  <2> QED BY <1>1, <1>2, <2>1 DEF OneSpeaks
<1>3. \A j \in DOMAIN down : down[j].m \notin Answers
  BY <1>1 DEF OneSpeaks
<1> QED BY <1>2, <1>3

(* The client's next attempt, or its giving up, from an unsettled state.    *)
LEMMA RetryTurn ==
  ASSUME TypeOK, Unsettled, srv.at # "start", UNCHANGED <<opts, srv>>,
         srv.at \in {"asking", "done"} => srv.auth # None,
         \A i \in DOMAIN up : up[i].m \notin Says,
         \A j \in DOMAIN down' : down'[j].m \notin Answers,
         NEW c \in Clients, Retry(c),
         c.done = cli.done, c.crypt = cli.crypt, c.gave = cli.gave,
         c.mutual = cli.mutual, c.stale = cli.stale
  PROVE  OneSpeaks' /\ Meaning'
<1>0. opts \in Options /\ left \in Bounds /\ up \in Seq(Ups)
  BY DEF TypeOK
<1>1. /\ cli'.crypt = c.crypt /\ cli'.gave = c.gave /\ cli'.mutual = c.mutual /\ cli'.stale = c.stale
      /\ \E u \in Ups :
           /\ up' = Append(up, u)
           /\ \/ /\ u.m = "auth" /\ u.way \in Ways /\ u.att = cli'.ctx /\ cli'.ctx # 0
                 /\ KeyMade' /\ cli'.done = c.done
              \/ u.m = "null" /\ cli'.done = Reject
  BY <1>0, RetryOutcome
<1>2. PICK u \in Ups :
        /\ up' = Append(up, u)
        /\ \/ /\ u.m = "auth" /\ u.way \in Ways /\ u.att = cli'.ctx /\ cli'.ctx # 0
              /\ KeyMade' /\ cli'.done = c.done
           \/ u.m = "null" /\ cli'.done = Reject
  BY <1>1
<1>3. Open0'
  BY <1>1 DEF Unsettled, Open0, NothingGiven
<1>4. u.m = "auth" => Unsettled' /\ KeyMade' /\ cli'.ctx # 0 /\ u.att = cli'.ctx
  BY <1>2, <1>3 DEF Unsettled
<1>5. u.m \in {"auth", "null"} /\ (u.m = "null" => Open0' /\ cli'.done = Reject)
  BY <1>2, <1>3
<1> QED BY <1>0, <1>2, <1>4, <1>5, UpSpeaks

(* The client hears an offer, a rejection or an acceptance.                 *)
LEMMA TurnSend ==
  ASSUME TypeOK, OneSpeaks, Meaning, AuthSend \/ ReplyReject
  PROVE  OneSpeaks' /\ Meaning'
<1>0. cli \in Clients
  BY DEF TypeOK
<1>1. PICK k \in {"send", "reject"} : Hear(k)
  BY DEF AuthSend, ReplyReject
<1>2. k \in Answers /\ k # "response"
  BY DEF Answers
<1>3. /\ down[1].m = k /\ 1 \in DOMAIN down /\ UNCHANGED <<opts, srv>>
  BY <1>1, Heard
<1>4. /\ Unsettled /\ srv.at # "start"
      /\ srv.at \in {"asking", "done"} => srv.auth # None
  BY <1>3 DEF Meaning
<1>5. /\ \A i \in DOMAIN up : up[i].m \notin Says
      /\ \A j \in DOMAIN down' : down'[j].m \notin Answers
  BY <1>1, <1>2, HeardTurn
<1>6. CASE AuthSend
  <2> DEFINE c == [cli EXCEPT !.list = Mechanisms]
  <2>1. /\ c \in Clients /\ c.done = cli.done /\ c.crypt = cli.crypt /\ c.gave = cli.gave
        /\ c.mutual = cli.mutual /\ c.stale = cli.stale
    BY <1>0, AuthAssumption DEF Clients, Ways
  <2>2. Retry(c)
    BY <1>6 DEF AuthSend
  <2> HIDE DEF c
  <2> QED BY <1>3, <1>4, <1>5, <2>1, <2>2, RetryTurn
<1>7. CASE ReplyReject
  <2>1. Retry(cli)
    BY <1>7 DEF ReplyReject
  <2> QED BY <1>0, <1>3, <1>4, <1>5, <2>1, RetryTurn
<1> QED BY <1>6, <1>7

(* The response is to the attempt the client has made, so that it takes the *)
(* key of that attempt.                                                     *)
LEMMA TurnResponse ==
  ASSUME TypeOK, OneSpeaks, Meaning, ReplyResponse
  PROVE  OneSpeaks' /\ Meaning'
<1>0. cli \in Clients
  BY DEF TypeOK
<1>1. Hear("response") /\ "response" \in Answers
  BY DEF ReplyResponse, Answers
<1>2. /\ down[1].m = "response" /\ 1 \in DOMAIN down /\ UNCHANGED <<opts, srv>>
      /\ Head(down) = down[1]
  BY <1>1, Heard
<1>3. /\ Accepting /\ down[1].att = cli.ctx /\ Mutual(down[1].way)
      /\ ~srv.struck => srv.auth = <<down[1].way, down[1].att>>
  BY <1>2 DEF Meaning
<1>4. /\ \A i \in DOMAIN up : up[i].m \notin Says
      /\ \A j \in DOMAIN down' : down'[j].m \in Answers => j = 1
      /\ 1 \in DOMAIN down'
      /\ down'[1] = [m |-> "accept", way |-> down[1].way, att |-> down[1].att]
  BY <1>1, HeardTurn
<1>5. /\ cli' = [cli EXCEPT !.crypt = IF cli.key[1] = 0 THEN @ ELSE cli.key, !.mutual = TRUE]
      /\ UNCHANGED up
  BY <1>2, <1>3 DEF ReplyResponse, Quiet
<1>6. /\ cli'.done = cli.done /\ cli'.ctx = cli.ctx /\ cli'.gave = cli.gave /\ cli'.key = cli.key
      /\ cli'.mutual = TRUE
      /\ cli'.crypt = IF cli.key[1] = 0 THEN cli.crypt ELSE cli.key
  BY <1>0, <1>5 DEF Clients
<1>7. Accepting'
  BY <1>2, <1>3, <1>6 DEF Accepting, KeyMade, NothingGiven
<1>8. opts'.subkey = "des" => cli'.crypt = <<cli'.ctx, "subkey">>
  BY <1>2, <1>3, <1>6 DEF Accepting, KeyMade
<1>9. ~Silent'
  BY <1>4 DEF Silent, Answers
<1>10. OneSpeaks'
  BY <1>4, <1>5 DEF OneSpeaks, Answers
<1>11. Meaning'
  <2>1. ASSUME NEW i \in DOMAIN down', down'[i].m \in Answers
        PROVE  /\ down'[i].m = "accept" /\ down'[i].att = cli'.ctx /\ Mutual(down'[i].way)
               /\ ~srv'.struck => srv'.auth = <<down'[i].way, down'[i].att>>
    BY <1>2, <1>3, <1>4, <1>6, <2>1
  <2>2. srv'.at \in {"asking", "done"} => srv'.auth # None
    BY <1>2 DEF Meaning
  <2> QED BY <1>4, <1>5, <1>6, <1>7, <1>8, <1>9, <2>1, <2>2 DEF Meaning, Says, Answers
<1> QED BY <1>10, <1>11

(* The acceptance is of the attempt the client has made, and a mutual one   *)
(* has had its response: the client comes to the server's conclusion.       *)
LEMMA TurnAccept ==
  ASSUME TypeOK, OneSpeaks, Meaning, ReplyAccept
  PROVE  OneSpeaks' /\ Meaning'
<1>0. cli \in Clients /\ srv \in Servers
  BY DEF TypeOK
<1>1. Hear("accept") /\ "accept" \in Answers
  BY DEF ReplyAccept, Answers
<1> DEFINE way == Head(down).way
           att == Head(down).att
           d == <<way, att>>
           k == IF ~cli.mutual /\ cli.key[1] # 0 THEN cli.key ELSE cli.crypt
<1>2. /\ down[1].m = "accept" /\ 1 \in DOMAIN down /\ UNCHANGED <<opts, srv>>
      /\ Head(down) = down[1] /\ way \in Ways /\ att \in Nat /\ down # <<>> /\ down' = Tail(down)
  BY <1>1, Heard
<1>3. /\ \A i \in DOMAIN up : up[i].m \notin Says
      /\ \A j \in DOMAIN down' : down'[j].m \notin Answers
  BY <1>1, HeardTurn
<1>4. \A j \in DOMAIN down : down[j].m # "response"
  <2>1. ASSUME NEW j \in DOMAIN down, down[j].m = "response"
        PROVE  FALSE
    <3>1. j # 1
      BY <1>2, <2>1
    <3>2. j - 1 \in DOMAIN down' /\ down'[j - 1] = down[j]
      BY <1>2, <2>1, <3>1, DownTaken DEF TypeOK
    <3> QED BY <1>3, <2>1, <3>2 DEF Answers
  <2> QED BY <2>1
<1>5. /\ Accepting /\ att = cli.ctx /\ (~srv.struck => srv.auth = d)
      /\ ~Mutual(way) => cli.crypt = NoKey /\ cli.mutual = cli.stale
      /\ Mutual(way) => cli.mutual /\ (opts.subkey = "des" => cli.crypt = <<cli.ctx, "subkey">>)
  BY <1>2, <1>4 DEF Meaning
<1>6. Mutual(way) => cli.mutual
  BY <1>5
<1>7. /\ \/ cli' = Concluded(cli, d)
         \/ cli' = [Concluded(cli, d) EXCEPT !.gave = cli.ctx]
      /\ up' = up \/ up' = Append(up, [m |-> "forward", way |-> way, att |-> cli.ctx])
  <2>1. ~(~cli.mutual /\ Mutual(Head(down).way))
    BY <1>6
  <2> QED BY <2>1, Zenon DEF ReplyAccept
<1>8. Concluded(cli, d) = [cli EXCEPT !.done = d, !.crypt = k]
  BY <1>0 DEF Concluded, Clients
<1> HIDE DEF way, att, k, d
<1>9. /\ cli'.done = d /\ cli'.crypt = k /\ cli'.gave \in {cli.gave, cli.ctx}
      /\ cli'.stale = cli.stale
  <2> DEFINE c == [cli EXCEPT !.done = d, !.crypt = k]
  <2>1. /\ c.done = d /\ c.crypt = k /\ c.gave = cli.gave /\ c.stale = cli.stale
        /\ LET e == [c EXCEPT !.gave = cli.ctx]
           IN e.done = d /\ e.crypt = k /\ e.gave = cli.ctx /\ e.stale = cli.stale
    BY <1>0 DEF Clients
  <2> HIDE DEF c
  <2>2. cli' = c \/ cli' = [c EXCEPT !.gave = cli.ctx]
    BY <1>7, <1>8 DEF c
  <2> QED BY <2>1, <2>2
<1>10. Silent'
  <2>1. \A i \in DOMAIN up' : up'[i].m \notin Says
    <3> DEFINE u == [m |-> "forward", way |-> way, att |-> cli.ctx]
    <3>1. u \in Ups /\ u.m \notin Says
      BY <1>0, <1>2 DEF Ups, Requests, Says, Clients
    <3> HIDE DEF u
    <3>2. CASE up' = Append(up, u)
      BY <1>3, <3>1, <3>2, UpPut DEF TypeOK
    <3> QED BY <1>3, <1>7, <3>2 DEF u
  <2> QED BY <1>3, <2>1 DEF Silent
<1>11. KeyKnown' => cli'.crypt = srv'.crypt
  <2> SUFFICES ASSUME KeyKnown' PROVE cli'.crypt = srv'.crypt
    OBVIOUS
  <2>1. opts.subkey = "des" /\ ~(cli.stale /\ way = "oneway")
    BY <1>2, <1>9 DEF KeyKnown, d
  <2>2. cli.key = <<cli.ctx, "subkey">> /\ cli.key[1] # 0 /\ srv.crypt = <<cli.ctx, "subkey">>
    BY <1>5, <2>1 DEF Accepting, KeyMade
  <2>3. k = <<cli.ctx, "subkey">>
    <3>1. CASE Mutual(way)
      BY <1>5, <2>1, <3>1 DEF k
    <3>2. CASE ~Mutual(way)
      <4>1. ~cli.stale
        BY <1>2, <2>1, <3>2 DEF Mutual, Ways
      <4> QED BY <1>5, <2>2, <3>2, <4>1 DEF k
    <3> QED BY <3>1, <3>2
  <2> QED BY <1>2, <1>9, <2>2, <2>3
<1>12. Settling'
  <2>1. srv'.at # "start" /\ srv'.auth # None /\ cli.gave = 0 /\ cli.ctx = srv'.ctx
    BY <1>2, <1>5 DEF Accepting, NothingGiven
  <2>2. ~srv'.struck => cli'.done = srv'.auth
    BY <1>2, <1>5, <1>9
  <2>3. cli'.gave # 0 => cli'.gave = srv'.ctx
    BY <1>9, <2>1
  <2> QED BY <1>11, <2>1, <2>2, <2>3 DEF Settling
<1> QED BY <1>10, <1>12, Ends
(* An option and the answer to credentials say nothing of an attempt.       *)
LEMMA TurnOption ==
  ASSUME TypeOK, TypeOK', OneSpeaks, Meaning, ReplyOption \/ ReplyForward
  PROVE  OneSpeaks' /\ Meaning'
<1>0. /\ up \in Seq(Ups) /\ down \in Seq(Downs) /\ up' \in Seq(Ups) /\ down' \in Seq(Downs)
  BY DEF TypeOK
<1>1. PICK k \in {"do", "forwarded"} : Hear(k)
  BY DEF ReplyOption, ReplyForward
<1>2. /\ down[1].m = k /\ UNCHANGED <<opts, srv>> /\ down # <<>> /\ down' = Tail(down)
      /\ UNCHANGED cli
  BY <1>1, Heard DEF ReplyOption, ReplyForward
<1>3. /\ \A i \in DOMAIN down' :
           down'[i].m \in Answers => i + 1 \in DOMAIN down /\ down'[i] = down[i + 1]
      /\ \A i \in DOMAIN down :
           down[i].m \in Answers => i - 1 \in DOMAIN down' /\ down'[i - 1] = down[i]
  BY <1>0, <1>2, DownTaken DEF Answers
<1>4. /\ \A i \in DOMAIN up' :
           up'[i].m \in Says => i + 0 \in DOMAIN up /\ up'[i] = up[i + 0]
      /\ \A i \in DOMAIN up :
           up[i].m \in Says => i - 0 \in DOMAIN up' /\ up'[i - 0] = up[i]
  <2> DEFINE u == [m |-> "option", way |-> "none", att |-> 0]
  <2>1. u \in Ups /\ u.m \notin Says
    BY DEF Ups, Requests, Says
  <2>2. up' = up \/ up' = Append(up, u)
    BY DEF ReplyOption, ReplyForward, Quiet
  <2> HIDE DEF u
  <2>3. \A i \in DOMAIN up : i + 0 = i /\ i - 0 = i
    BY <1>0
  <2>4. \A i \in DOMAIN up' : i + 0 = i
    BY <1>0
  <2>5. CASE up' = Append(up, u)
    BY <1>0, <2>1, <2>3, <2>4, <2>5, UpPut
  <2> QED BY <2>2, <2>3, <2>5
<1>5. /\ Unsettled => Unsettled'
      /\ Open0 => Open0'
      /\ Accepting => Accepting'
      /\ Settling => Settling'
      /\ KeyMade => KeyMade'
  BY <1>2 DEF Unsettled, Open0, Accepting, Settling, KeyMade, KeyKnown, NothingGiven
<1>6. /\ srv.at # "start" => srv'.at # "start"
      /\ srv.at = "start" => srv'.at = "start"
      /\ srv'.at \in {"asking", "done"} => srv'.auth # None
  BY <1>2 DEF Meaning
<1>7. UNCHANGED <<srv.struck, srv.auth>>
  BY <1>2
<1> QED BY <1>0, <1>2, <1>3, <1>4, <1>5, <1>6, <1>7, Rest

(* Each step of the client keeps the turns and what they mean.              *)
LEMMA TurnClient ==
  ASSUME TypeOK, TypeOK', OneSpeaks, Meaning, ClientStep
  PROVE  OneSpeaks' /\ Meaning'
BY TurnSend, TurnResponse, TurnAccept, TurnOption DEF ClientStep

(* What the server does about the option, an attempt and the end of them.   *)
LEMMA TurnServer ==
  ASSUME TypeOK, OneSpeaks, Meaning, SrvWill \/ SrvWont \/ SrvAuth \/ SrvNull
  PROVE  OneSpeaks' /\ Meaning'
<1>0. cli \in Clients /\ srv \in Servers /\ down \in Seq(Downs)
  BY DEF TypeOK
<1>1. PICK k \in Says :
        /\ Get(k)
        /\ SrvWill => k = "will"
        /\ SrvWont => k = "wont"
        /\ SrvAuth => k = "auth"
        /\ SrvNull => k = "null"
  <2>1. CASE SrvWill
    BY <2>1 DEF SrvWill, SrvWont, SrvAuth, SrvNull, Says, Get
  <2>2. CASE SrvWont
    BY <2>2 DEF SrvWill, SrvWont, SrvAuth, SrvNull, Says, Get
  <2>3. CASE SrvAuth
    BY <2>3 DEF SrvWill, SrvWont, SrvAuth, SrvNull, Says, Get
  <2>4. CASE SrvNull
    BY <2>4 DEF SrvWill, SrvWont, SrvAuth, SrvNull, Says, Get
  <2> QED BY <2>1, <2>2, <2>3, <2>4
<1>2. /\ up[1].m = k /\ 1 \in DOMAIN up /\ UNCHANGED <<opts, cli>> /\ Head(up) = up[1]
      /\ Handling \in Servers /\ up[1].att \in Nat /\ (k = "auth" => up[1].way \in Ways)
  BY <1>1, Got
<1>3. /\ \A i \in DOMAIN up' : up'[i].m \notin Says
      /\ \A j \in DOMAIN down : down[j].m \notin Answers
  BY <1>1, GotTurn
<1>4. /\ Handling.at = srv.at /\ Handling.auth = srv.auth /\ Handling.crypt = srv.crypt
      /\ Handling.creds = srv.creds /\ Handling.struck = srv.struck /\ Handling.late = srv.late
      /\ Handling.ctx = srv.ctx
  BY <1>0 DEF Handling, Servers
<1>5. k # "null" => Unsettled
  BY <1>2 DEF Meaning, Says
<1>6. Open0
  BY <1>2, <1>5 DEF Meaning, Unsettled
<1>7. KeyKnown' = KeyKnown
  BY <1>2 DEF KeyKnown
<1>8. None # Reject
  BY DEF None, Reject
<1>9. CASE SrvWill
  <2> DEFINE d == Tell("send", "none", 0)
  <2>1. srv' = [Handling EXCEPT !.at = "waiting"] /\ down' = Append(down, d) /\ k = "will"
    BY <1>1, <1>9 DEF SrvWill
  <2>2. d \in Downs /\ d.m = "send"
    BY RequestType DEF Tell
  <2> HIDE DEF d
  <2>3. /\ srv'.at = "waiting" /\ srv'.auth = srv.auth /\ srv'.crypt = srv.crypt
        /\ srv'.creds = srv.creds /\ srv'.late = srv.late
    BY <1>2, <1>4, <2>1 DEF Servers
  <2>4. Unsettled'
    BY <1>2, <1>5, <2>1, <2>3 DEF Unsettled, Open0, NothingGiven
  <2> QED BY <1>0, <1>3, <2>1, <2>2, <2>3, <2>4, DownSpeaks
<1>10. CASE SrvWont
  <2> DEFINE d == Tell("do", "none", 0)
  <2>1. srv' = [Handling EXCEPT !.at = "asking", !.auth = Reject] /\ down' = Append(down, d) /\ k = "wont"
    BY <1>1, <1>10 DEF SrvWont
  <2>2. d \in Downs /\ d.m \notin Answers
    BY RequestType DEF Tell, Answers
  <2> HIDE DEF d
  <2>3. /\ srv'.at = "asking" /\ srv'.auth = Reject /\ srv'.crypt = srv.crypt
    BY <1>2, <1>4, <2>1 DEF Servers
  <2>4. Settling'
    BY <1>2, <1>5, <1>8, <2>1, <2>3 DEF Settling, Unsettled, Open0, NothingGiven
  <2>5. Silent'
    BY <1>0, <1>3, <2>1, <2>2, DownPut DEF Silent
  <2> QED BY <2>4, <2>5, Ends
<1>11. CASE SrvNull
  <2>1. /\ srv' = IF srv.at = "done" THEN Handling ELSE [Handling EXCEPT !.auth = Reject]
        /\ UNCHANGED down /\ k = "null"
    BY <1>1, <1>11 DEF SrvNull, Null
  <2>2. cli.done = Reject /\ srv.at # "start" /\ (srv.at = "done" => srv.auth # None)
    BY <1>2, <2>1 DEF Meaning
  <2>3. /\ srv'.at = srv.at /\ srv'.auth = Reject /\ srv'.crypt = srv.crypt
    BY <1>2, <1>4, <1>6, <2>1, <2>2 DEF Servers, Open0
  <2>4. Settling'
    BY <1>2, <1>6, <1>8, <2>2, <2>3 DEF Settling, Open0, NothingGiven
  <2>5. Silent'
    BY <1>3, <2>1 DEF Silent
  <2> QED BY <2>4, <2>5, Ends
<1>12. CASE SrvAuth
  <2> DEFINE way == up[1].way
             att == up[1].att
             d == Tell("reject", way, att)
  <2>0. k = "auth" /\ way \in Ways /\ att \in Nat
    BY <1>1, <1>2, <1>12
  <2>1. /\ Unsettled /\ srv.at # "start" /\ KeyMade /\ cli.ctx # 0 /\ att = cli.ctx
    BY <1>2, <2>0 DEF Meaning
  <2>2. /\ srv.at \in {"asking", "done"} => srv.auth # None
    BY DEF Meaning
  <2>3. \/ srv.at = "done" /\ srv' = Handling /\ UNCHANGED <<down, left>>
        \/ /\ srv.at # "done" /\ UNCHANGED left
           /\ srv' = [Handling EXCEPT !.auth = <<way, att>>, !.ctx = att, !.crypt = <<att, "subkey">>]
           /\ \/ /\ Mutual(way)
                 /\ down' = down \o <<Tell("response", way, att), Tell("accept", way, att)>>
              \/ /\ ~Mutual(way) /\ down' = Append(down, Tell("accept", way, att))
        \/ /\ srv.at # "done" /\ left.fails > 0 /\ left' = [left EXCEPT !.fails = @ - 1]
           /\ srv' = [Handling EXCEPT !.ctx = 0]
           /\ down' = Append(down, Tell("reject", way, att))
    BY <1>2, <1>12, SrvAuthCases
  <2> HIDE DEF way, att
  <2>4. CASE srv.at = "done" /\ srv' = Handling /\ UNCHANGED <<down, left>>
    <3>1. srv.auth = Reject /\ srv'.auth = Reject /\ srv'.at = "done" /\ srv'.crypt = srv.crypt
      BY <1>4, <2>1, <2>2, <2>4 DEF Unsettled, Open0
    <3>2. Settling'
      BY <1>2, <1>8, <2>1, <3>1 DEF Settling, Unsettled, Open0, NothingGiven
    <3>3. Silent'
      BY <1>3, <2>4 DEF Silent
    <3> QED BY <3>2, <3>3, Ends
  <2>5. CASE /\ srv' = [Handling EXCEPT !.auth = <<way, att>>, !.ctx = att, !.crypt = <<att, "subkey">>]
             /\ \/ /\ Mutual(way)
                   /\ down' = down \o <<Tell("response", way, att), Tell("accept", way, att)>>
                \/ /\ ~Mutual(way) /\ down' = Append(down, Tell("accept", way, att))
    <3>1. /\ srv'.at = srv.at /\ srv'.auth = <<way, att>> /\ srv'.ctx = att
          /\ srv'.crypt = <<att, "subkey">> /\ srv'.creds = srv.creds
      BY <1>2, <1>4, <2>5 DEF Servers
    <3>2. <<way, att>> # None
      BY <2>0 DEF None, Ways
    <3>3. Accepting'
      BY <1>2, <2>1, <3>1, <3>2 DEF Accepting, KeyMade, Unsettled, Open0, NothingGiven
    <3>4. att = cli'.ctx /\ cli'.crypt = NoKey /\ cli'.mutual = cli'.stale
      BY <1>2, <2>1 DEF Unsettled, Open0
    <3> QED BY <1>0, <1>3, <2>0, <2>5, <3>1, <3>3, <3>4, DownAccepts
  <2>6. CASE /\ srv' = [Handling EXCEPT !.ctx = 0]
             /\ down' = Append(down, d)
    <3>1. /\ srv'.at = srv.at /\ srv'.auth = srv.auth /\ srv'.late = srv.late
          /\ srv'.crypt = srv.crypt /\ srv'.creds = srv.creds
      BY <1>2, <1>4, <2>6 DEF Servers
    <3>2. Unsettled'
      BY <1>2, <2>1, <3>1 DEF Unsettled, Open0, NothingGiven
    <3>3. d \in Downs /\ d.m = "reject"
      BY <2>0, AnswerType DEF Tell
    <3> HIDE DEF d
    <3> QED BY <1>0, <1>3, <2>1, <2>2, <2>6, <3>1, <3>2, <3>3, DownSpeaks
  <2> QED BY <2>3, <2>4, <2>5, <2>6
<1> QED BY <1>9, <1>10, <1>11, <1>12

(* The server reads what says nothing of an attempt.                        *)
LEMMA TurnOther ==
  ASSUME TypeOK, TypeOK', OneSpeaks, Meaning, OptionsLast, SrvOther \/ SrvForward \/ SrvOption
  PROVE  OneSpeaks' /\ Meaning'
<1>0. /\ up \in Seq(Ups) /\ down \in Seq(Downs) /\ up' \in Seq(Ups) /\ down' \in Seq(Downs)
      /\ srv \in Servers
  BY DEF TypeOK
<1>1. PICK k \in {"other", "forward", "option"} : Get(k) /\ (SrvForward => k = "forward")
  <2>1. CASE SrvForward
    BY <2>1 DEF SrvForward
  <2> QED BY <2>1 DEF SrvOther, SrvOption
<1>2. /\ up[1].m = k /\ 1 \in DOMAIN up /\ UNCHANGED <<opts, cli>> /\ up # <<>> /\ up' = Tail(up)
  BY <1>1, Got
<1>3. /\ \A i \in DOMAIN up' :
           up'[i].m \in Says => i + 1 \in DOMAIN up /\ up'[i] = up[i + 1]
      /\ \A i \in DOMAIN up :
           up[i].m \in Says => i - 1 \in DOMAIN up' /\ up'[i - 1] = up[i]
  BY <1>0, <1>2, UpTaken DEF Says
<1>4. /\ \A i \in DOMAIN down' :
           down'[i].m \in Answers => i + 0 \in DOMAIN down /\ down'[i] = down[i + 0]
      /\ \A i \in DOMAIN down :
           down[i].m \in Answers => i - 0 \in DOMAIN down' /\ down'[i - 0] = down[i]
  <2> DEFINE d == Tell("forwarded", "none", 0)
  <2>1. d \in Downs /\ d.m \notin Answers
    BY RequestType DEF Tell, Answers
  <2>2. down' = down \/ down' = Append(down, d)
    BY DEF SrvOther, SrvForward, SrvOption
  <2> HIDE DEF d
  <2>3. \A i \in DOMAIN down : i + 0 = i /\ i - 0 = i
    BY <1>0
  <2>4. \A i \in DOMAIN down' : i + 0 = i
    BY <1>0
  <2>5. CASE down' = Append(down, d)
    BY <1>0, <2>1, <2>3, <2>4, <2>5, DownPut
  <2> QED BY <2>2, <2>3, <2>5
<1>5. /\ srv'.at = srv.at /\ srv'.auth = srv.auth /\ srv'.crypt = srv.crypt /\ srv'.ctx = srv.ctx
      /\ srv'.struck = srv.struck /\ srv'.late = srv.late
      /\ srv'.creds = srv.creds \/ SrvForward
  BY <1>0 DEF SrvOther, SrvForward, SrvOption, Handling, Servers
<1>6. SrvForward => cli.gave # 0
  BY <1>1, <1>2 DEF OptionsLast, Carried
<1>7. /\ Unsettled => Unsettled'
      /\ Open0 => Open0'
      /\ Accepting => Accepting'
      /\ Settling => Settling'
      /\ KeyMade => KeyMade'
  BY <1>2, <1>5, <1>6 DEF Unsettled, Open0, Accepting, Settling, KeyMade, KeyKnown, NothingGiven
<1>8. /\ srv.at # "start" => srv'.at # "start"
      /\ srv.at = "start" => srv'.at = "start"
      /\ srv'.at \in {"asking", "done"} => srv'.auth # None
  BY <1>5 DEF Meaning
<1>9. UNCHANGED <<srv.struck, srv.auth>>
  BY <1>5
<1> QED BY <1>0, <1>2, <1>3, <1>4, <1>7, <1>8, <1>9, Rest

(* The end of a wait, of the options, and an alarm: the messages stay.      *)
LEMMA TurnWait ==
  ASSUME TypeOK, TypeOK', OneSpeaks, Meaning, Test \/ Negotiated \/ Alarm
  PROVE  OneSpeaks' /\ Meaning'
<1>0. /\ up \in Seq(Ups) /\ down \in Seq(Downs) /\ up' \in Seq(Ups) /\ down' \in Seq(Downs)
      /\ srv \in Servers
  BY DEF TypeOK
<1>1. UNCHANGED <<opts, cli, up>>
  BY DEF Test, Negotiated, Alarm
<1>2. \A i \in DOMAIN up : i + 0 = i /\ i - 0 = i
  BY <1>0
<1>3. /\ \A i \in DOMAIN up' :
           up'[i].m \in Says => i + 0 \in DOMAIN up /\ up'[i] = up[i + 0]
      /\ \A i \in DOMAIN up :
           up[i].m \in Says => i - 0 \in DOMAIN up' /\ up'[i - 0] = up[i]
  BY <1>1, <1>2
<1>4. /\ \A i \in DOMAIN down' :
           down'[i].m \in Answers => i + 0 \in DOMAIN down /\ down'[i] = down[i + 0]
      /\ \A i \in DOMAIN down :
           down[i].m \in Answers => i - 0 \in DOMAIN down' /\ down'[i - 0] = down[i]
  <2> DEFINE d == Tell("do", "none", 0)
  <2>1. d \in Downs /\ d.m \notin Answers
    BY RequestType DEF Tell, Answers
  <2>2. down' = down \/ down' = Append(down, d)
    BY DEF Test, Negotiated, Alarm
  <2> HIDE DEF d
  <2>3. \A i \in DOMAIN down : i + 0 = i /\ i - 0 = i
    BY <1>0
  <2>4. \A i \in DOMAIN down' : i + 0 = i
    BY <1>0
  <2>5. CASE down' = Append(down, d)
    BY <1>0, <2>1, <2>3, <2>4, <2>5, DownPut
  <2> QED BY <2>2, <2>3, <2>5
<1>5. /\ srv.at # "start" /\ srv'.at # "start" /\ srv'.crypt = srv.crypt /\ srv'.ctx = srv.ctx
      /\ srv'.creds = srv.creds
      /\ srv'.at \in {"asking", "done"} => srv'.auth # None
      /\ \/ srv'.auth = srv.auth /\ srv'.struck = srv.struck /\ srv'.late = srv.late
         \/ /\ srv'.auth = Reject /\ srv'.struck = (srv.struck \/ srv.auth # None)
            /\ srv'.late = TRUE
  <2>1. CASE Test \/ Negotiated
    BY <1>0, <2>1 DEF Test, Negotiated, Servers, Meaning
  <2>2. CASE Alarm
    BY <1>0, <2>2 DEF Alarm, Servers, Meaning
  <2> QED BY <2>1, <2>2
<1>6. None # Reject
  BY DEF None, Reject
<1>7. \/ UNCHANGED <<srv.struck, srv.auth>>
      \/ srv.auth # None => srv'.struck
  BY <1>5
<1>8. /\ Unsettled => Unsettled'
      /\ Open0 => Open0'
      /\ Accepting => Accepting'
      /\ Settling => Settling'
      /\ KeyMade => KeyMade'
  <2>1. KeyKnown' = KeyKnown
    BY <1>1 DEF KeyKnown
  <2>2. Open0 => Open0'
    BY <1>1, <1>5 DEF Open0, NothingGiven
  <2>3. Settling => Settling'
    BY <1>1, <1>5, <1>6, <2>1 DEF Settling
  <2> QED BY <1>1, <1>5, <1>6, <2>2, <2>3 DEF Unsettled, Accepting, KeyMade, NothingGiven
<1>9. /\ srv.at # "start" => srv'.at # "start"
      /\ srv.at = "start" => srv'.at = "start"
      /\ srv'.at \in {"asking", "done"} => srv'.auth # None
  BY <1>5
<1> QED BY <1>0, <1>1, <1>3, <1>4, <1>7, <1>8, <1>9, Rest

(* A connection begins with the option in the client's hands.               *)
Begins == (\E b \in BOOLEAN : cli = Fresh(b)) /\ srv = Idle /\ up = Opening /\ down = <<>>
InOrder == OneSpeaks /\ Meaning /\ OptionsLast

(* A client and a server that begin are in order.                           *)
LEMMA TurnBegin == Begins => InOrder
<1> SUFFICES ASSUME Begins PROVE OneSpeaks /\ Meaning /\ OptionsLast
  BY DEF InOrder
<1>0. PICK b \in BOOLEAN : cli = Fresh(b)
  BY DEF Begins
<1>1. /\ cli.done = None /\ cli.crypt = NoKey /\ cli.mutual = cli.stale /\ cli.gave = 0
  BY <1>0 DEF Fresh, NoKey
<1>2. /\ srv.at = "start" /\ srv.auth = None /\ srv.crypt = NoKey /\ srv.creds = 0
      /\ srv.asked = FALSE /\ srv.ignored = FALSE /\ srv.late = FALSE
  BY DEF Begins, Idle, NoKey
<1>3. None # Reject
  BY DEF None, Reject
<1>4. Unsettled
  BY <1>1, <1>2, <1>3 DEF Unsettled, Open0, NothingGiven
<1>5. /\ DOMAIN up = {1, 2} /\ up[1].m \in {"will", "wont"} /\ up[2].m = "other"
      /\ DOMAIN down = {}
  BY DEF Begins, Opening
<1>6. ~Silent
  BY <1>5 DEF Silent, Says
<1>7. OneSpeaks
  BY <1>5 DEF OneSpeaks, Says
<1>8. Meaning
  BY <1>2, <1>4, <1>5, <1>6 DEF Meaning
<1>9. OptionsLast
  BY <1>1, <1>2, <1>5 DEF OptionsLast, Asks, AskedLast, AcceptFirst, ForwardFirst, Carried, Reaches
<1> QED BY <1>7, <1>8, <1>9----------------------------------------------------------------------------
(* While an attempt is carried on no credentials have been given.           *)
LEMMA GivenSilent ==
  ASSUME Meaning
  PROVE  /\ cli.gave # 0 => Silent
         /\ ~Silent => cli.gave = 0
<1>1. ASSUME NEW i \in DOMAIN up, up[i].m \in Says
      PROVE  cli.gave = 0
  BY <1>1 DEF Meaning, Says, Unsettled, Open0, NothingGiven
<1>2. ASSUME NEW i \in DOMAIN down, down[i].m \in Answers
      PROVE  cli.gave = 0
  BY <1>2 DEF Meaning, Answers, Unsettled, Open0, Accepting, NothingGiven
<1> QED BY <1>1, <1>2 DEF Silent

(* What the client hears and what it puts on its way keeps the order, if it *)
(* is neither an option nor credentials.                                    *)
LEMMA OrderClient ==
  ASSUME up \in Seq(Ups), down \in Seq(Downs), down # <<>>, down' = Tail(down), UNCHANGED srv,
         cli'.gave = cli.gave, OptionsLast,
         \/ up' = up
         \/ \E u \in Ups : up' = Append(up, u) /\ u.m \notin {"option", "forward"}
  PROVE  OptionsLast'
<1>1. /\ \A i \in DOMAIN up' : \/ i \in DOMAIN up /\ up'[i] = up[i]
                               \/ up'[i].m \notin {"option", "forward"}
      /\ \A i \in DOMAIN up : i \in DOMAIN up' /\ up'[i] = up[i]
  <2>1. CASE \E u \in Ups : up' = Append(up, u) /\ u.m \notin {"option", "forward"}
    BY <2>1, UpPut
  <2> QED BY <2>1
<1>2. \A i \in DOMAIN down' : i + 1 \in DOMAIN down /\ down'[i] = down[i + 1]
  BY DownTaken
<1>3. \A i \in DOMAIN down' : i \in Int
  BY DownTaken
<1>4. Asks' /\ Listens' = Listens
  BY DEF OptionsLast, Asks, Listens
<1>5. AskedLast'
  BY <1>1, <1>2 DEF OptionsLast, AskedLast
<1>6. AcceptFirst'
  <2> SUFFICES ASSUME ~srv.late, NEW i \in DOMAIN down', down'[i].m = "accept"
               PROVE  /\ Listens'
                      /\ \A j \in DOMAIN down' : down'[j].m = "do" => i < j
                      /\ \A j \in DOMAIN up' : up'[j].m # "option"
    BY DEF AcceptFirst
  <2>1. /\ Listens
        /\ \A j \in DOMAIN down : down[j].m = "do" => i + 1 < j
        /\ \A j \in DOMAIN up : up[j].m # "option"
    BY <1>2 DEF OptionsLast, AcceptFirst
  <2>2. ASSUME NEW j \in DOMAIN down', down'[j].m = "do"
        PROVE  i < j
    <3>1. i + 1 < j + 1
      BY <1>2, <2>1, <2>2
    <3> QED BY <1>3, <3>1
  <2> QED BY <1>1, <1>4, <2>1, <2>2
<1>7. ForwardFirst'
  BY <1>1, <1>4 DEF OptionsLast, ForwardFirst
<1>8. Carried' /\ Reaches'
  BY <1>1 DEF OptionsLast, Carried, Reaches
<1> QED BY <1>4, <1>5, <1>6, <1>7, <1>8 DEF OptionsLast

(* A further attempt and what comes before it keep the order.               *)
LEMMA OrderRetry ==
  ASSUME TypeOK, Meaning, OptionsLast,
         AuthSend \/ ReplyReject \/ ReplyResponse \/ ReplyForward
  PROVE  OptionsLast'
<1>0. /\ opts \in Options /\ cli \in Clients /\ left \in Bounds
      /\ up \in Seq(Ups) /\ down \in Seq(Downs)
  BY DEF TypeOK
<1>1. down # <<>> /\ down' = Tail(down) /\ UNCHANGED <<opts, srv>>
  BY Heard DEF AuthSend, ReplyReject, ReplyResponse, ReplyForward
<1>2. \/ UNCHANGED up /\ cli'.gave = cli.gave
      \/ \E c \in Clients : Retry(c) /\ c.gave = cli.gave
  <2>1. CASE AuthSend
    <3> DEFINE c == [cli EXCEPT !.list = Mechanisms]
    <3>1. c \in Clients /\ c.gave = cli.gave
      BY <1>0, AuthAssumption DEF Clients, Ways
    <3>2. Retry(c)
      BY <2>1 DEF AuthSend
    <3> HIDE DEF c
    <3> QED BY <3>1, <3>2
  <2>2. CASE ReplyReject
    BY <1>0, <2>2 DEF ReplyReject
  <2>3. CASE ReplyResponse
    BY <1>0, <2>3 DEF ReplyResponse, Quiet, Clients
  <2>4. CASE ReplyForward
    BY <2>4 DEF ReplyForward, Quiet
  <2> QED BY <2>1, <2>2, <2>3, <2>4
<1>3. CASE UNCHANGED up /\ cli'.gave = cli.gave
  BY <1>0, <1>1, <1>3, OrderClient
<1>4. CASE \E c \in Clients : Retry(c) /\ c.gave = cli.gave
  <2>1. PICK c \in Clients : Retry(c) /\ c.gave = cli.gave
    BY <1>4
  <2>2. /\ cli'.gave = c.gave
        /\ \E u \in Ups : up' = Append(up, u) /\ u.m \in {"auth", "null"}
    BY <1>0, <1>1, <2>1, RetryOutcome
  <2> QED BY <1>0, <1>1, <2>1, <2>2, OrderClient
<1> QED BY <1>2, <1>3, <1>4

(* The acceptance is heard before an option is answered: what the client    *)
(* sends for it is ahead of every answer.                                   *)
LEMMA OrderAccept ==
  ASSUME TypeOK, OneSpeaks, Meaning, OptionsLast, ReplyAccept
  PROVE  OptionsLast'
<1>0. /\ opts \in Options /\ cli \in Clients /\ left \in Bounds
      /\ up \in Seq(Ups) /\ down \in Seq(Downs)
  BY DEF TypeOK
<1>1. Hear("accept") /\ "accept" \in Answers
  BY DEF ReplyAccept, Answers
<1>2. /\ down # <<>> /\ down' = Tail(down) /\ UNCHANGED <<opts, srv>>
      /\ down[1].m = "accept" /\ 1 \in DOMAIN down /\ Head(down).way \in Ways
  BY <1>1, Heard
<1>3. Accepting /\ cli.gave = 0 /\ cli.ctx # 0
  BY <1>2 DEF Meaning, Accepting, NothingGiven
<1>4. \A j \in DOMAIN down' : down'[j].m \notin Answers
  BY <1>1, HeardTurn
<1> DEFINE u == [m |-> "forward", way |-> Head(down).way, att |-> cli.ctx]
           d == <<Head(down).way, Head(down).att>>
<1>5. \/ Retry(cli)
      \/ cli' = [Concluded(cli, d) EXCEPT !.gave = cli.ctx] /\ up' = Append(up, u)
      \/ cli' = Concluded(cli, d) /\ UNCHANGED up
  BY Zenon DEF ReplyAccept
<1>6. LET c == Concluded(cli, d)
      IN c.gave = cli.gave /\ [c EXCEPT !.gave = cli.ctx].gave = cli.ctx
  BY <1>0 DEF Concluded, Clients
<1> HIDE DEF d
<1>7. CASE Retry(cli)
  <2>1. /\ cli'.gave = cli.gave
        /\ \E v \in Ups : up' = Append(up, v) /\ v.m \in {"auth", "null"}
    BY <1>0, <1>2, <1>7, RetryOutcome
  <2> QED BY <1>0, <1>2, <2>1, OrderClient
<1>8. CASE cli' = Concluded(cli, d) /\ UNCHANGED up
  BY <1>0, <1>2, <1>6, <1>8, OrderClient
<1>9. CASE cli' = [Concluded(cli, d) EXCEPT !.gave = cli.ctx] /\ up' = Append(up, u)
  <2>1. u \in Ups /\ u.m = "forward" /\ u.att = cli.ctx
    BY <1>0, <1>2 DEF Ups, Requests, Clients
  <2> HIDE DEF u
  <2>2. cli'.gave = cli.ctx
    BY <1>6, <1>9
  <2>3. \A i \in DOMAIN up : up[i].m # "forward"
    BY <1>3 DEF OptionsLast, Carried
  <2>4. /\ \A i \in DOMAIN up' : \/ i \in DOMAIN up /\ up'[i] = up[i]
                                 \/ i = Len(up) + 1 /\ up'[i] = u
        /\ Len(up) + 1 \in DOMAIN up' /\ up'[Len(up) + 1] = u
    BY <1>0, <1>9, <2>1, UpPut
  <2>5. ~srv.late => Listens /\ \A j \in DOMAIN up : up[j].m # "option"
    BY <1>2 DEF OptionsLast, AcceptFirst
  <2>6. Asks' /\ Listens' = Listens
    BY <1>2 DEF OptionsLast, Asks, Listens
  <2>7. AskedLast'
    BY <1>2, <1>3 DEF AskedLast, Accepting
  <2>8. AcceptFirst'
    BY <1>4 DEF AcceptFirst, Answers
  <2>9. ForwardFirst'
    BY <1>2, <2>1, <2>4, <2>5, <2>6 DEF ForwardFirst
  <2>10. Carried' /\ Reaches'
    BY <1>2, <1>3, <2>1, <2>2, <2>3, <2>4 DEF Carried, Reaches
  <2> QED BY <2>6, <2>7, <2>8, <2>9, <2>10 DEF OptionsLast
<1> QED BY <1>5, <1>7, <1>8, <1>9

(* The answer to an option goes behind everything, and no acceptance is     *)
(* left to hear.                                                            *)
LEMMA OrderOption ==
  ASSUME TypeOK, OptionsLast, ReplyOption
  PROVE  OptionsLast'
<1>0. up \in Seq(Ups) /\ down \in Seq(Downs)
  BY DEF TypeOK
<1> DEFINE u == [m |-> "option", way |-> "none", att |-> 0]
<1>1. Hear("do") /\ up' = Append(up, u) /\ UNCHANGED cli
  BY DEF ReplyOption
<1>2. down # <<>> /\ down' = Tail(down) /\ UNCHANGED srv /\ down[1].m = "do" /\ 1 \in DOMAIN down
  BY <1>1, Heard
<1>3. u \in Ups /\ u.m = "option"
  BY DEF Ups
<1> HIDE DEF u
<1>4. /\ \A i \in DOMAIN up' : \/ i \in DOMAIN up /\ up'[i] = up[i]
                               \/ i = Len(up) + 1 /\ up'[i] = u
      /\ \A i \in DOMAIN up : i \in DOMAIN up' /\ up'[i] = up[i] /\ i < Len(up) + 1
  BY <1>0, <1>1, <1>3, UpPut
<1>5. \A i \in DOMAIN down' : i + 1 \in DOMAIN down /\ down'[i] = down[i + 1]
  BY <1>0, <1>2, DownTaken
<1>6. ~srv.late => srv.auth # None
  BY <1>2 DEF OptionsLast, AskedLast
<1>7. ~srv.late => \A i \in DOMAIN down : down[i].m # "accept"
  <2>1. ASSUME ~srv.late, NEW i \in DOMAIN down, down[i].m = "accept"
        PROVE  FALSE
    <3>1. i < 1
      BY <1>2, <2>1 DEF OptionsLast, AcceptFirst
    <3>2. i \in 1 .. Len(down)
      BY <1>0, <2>1
    <3> QED BY <1>0, <3>1, <3>2
  <2> QED BY <2>1
<1>8. Asks' /\ Listens' = Listens
  BY <1>2 DEF OptionsLast, Asks, Listens
<1>9. AskedLast' /\ AcceptFirst'
  BY <1>2, <1>5, <1>6, <1>7 DEF AskedLast, AcceptFirst
<1>10. ForwardFirst'
  BY <1>2, <1>3, <1>4, <1>8 DEF OptionsLast, ForwardFirst
<1>11. Carried' /\ Reaches'
  BY <1>1, <1>2, <1>3, <1>4 DEF OptionsLast, Carried, Reaches
<1> QED BY <1>8, <1>9, <1>10, <1>11 DEF OptionsLast
(* What the server reads keeps the order of the rest.                       *)
LEMMA UpOrder ==
  ASSUME up \in Seq(Ups), up # <<>>, up' = Tail(up), OptionsLast, Listens' = Listens,
         srv'.late = srv.late, UNCHANGED cli
  PROVE  ForwardFirst' /\ Carried'
<1>1. \A i \in DOMAIN up' : i + 1 \in DOMAIN up /\ up'[i] = up[i + 1] /\ i \in Int
  BY UpTaken
<1>2. ForwardFirst'
  <2> SUFFICES ASSUME ~srv.late, NEW i \in DOMAIN up', up'[i].m = "forward"
               PROVE  Listens' /\ \A j \in DOMAIN up' : up'[j].m = "option" => i < j
    BY DEF ForwardFirst
  <2>1. Listens /\ \A j \in DOMAIN up : up[j].m = "option" => i + 1 < j
    BY <1>1 DEF OptionsLast, ForwardFirst
  <2>2. ASSUME NEW j \in DOMAIN up', up'[j].m = "option"
        PROVE  i < j
    <3>1. i + 1 < j + 1
      BY <1>1, <2>1, <2>2
    <3> QED BY <1>1, <3>1
  <2> QED BY <2>1, <2>2
<1>3. Carried'
  BY <1>1 DEF OptionsLast, Carried
<1> QED BY <1>2, <1>3

(* What carries an attempt on comes when no credentials have been given, so *)
(* that what the server says to it is the first it says of them.            *)
LEMMA OrderTurn ==
  ASSUME TypeOK, OneSpeaks, Meaning, OptionsLast, SrvWill \/ SrvWont \/ SrvAuth \/ SrvNull
  PROVE  OptionsLast'
<1>0. cli \in Clients /\ srv \in Servers /\ up \in Seq(Ups) /\ down \in Seq(Downs)
  BY DEF TypeOK
<1>1. PICK k \in Says :
        /\ Get(k)
        /\ k # "null" \/ SrvNull
  BY DEF SrvWill, SrvWont, SrvAuth, SrvNull, Says
<1>2. /\ up[1].m = k /\ 1 \in DOMAIN up /\ UNCHANGED <<opts, cli>> /\ Head(up) = up[1]
      /\ up # <<>> /\ up' = Tail(up)
      /\ Handling \in Servers /\ up[1].att \in Nat /\ (k = "auth" => up[1].way \in Ways)
  BY <1>1, Got
<1>3. \A j \in DOMAIN down : down[j].m \notin Answers
  BY <1>1, GotTurn
<1>4. /\ Handling.at = srv.at /\ Handling.auth = srv.auth /\ Handling.creds = srv.creds
      /\ Handling.late = srv.late /\ Handling.asked = srv.asked /\ Handling.ignored = srv.ignored
  BY <1>0 DEF Handling, Servers
<1>5. Open0 /\ cli.gave = 0 /\ (~srv.late => srv.auth = None)
  BY <1>2 DEF Meaning, Says, Unsettled, Open0, NothingGiven
<1>6. \A i \in DOMAIN up' : i + 1 \in DOMAIN up /\ up'[i] = up[i + 1]
  BY <1>0, <1>2, UpTaken
<1>7. /\ \A i \in DOMAIN up' : up'[i].m # "forward"
      /\ ~srv.late => /\ \A i \in DOMAIN up' : up'[i].m # "option"
                      /\ srv.at \in {"start", "waiting"} /\ ~srv.asked
                      /\ \A i \in DOMAIN down : down[i].m # "do"
  BY <1>5, <1>6 DEF OptionsLast, Carried, AskedLast
<1>8. ForwardFirst' /\ Carried' /\ Reaches'
  BY <1>2, <1>5, <1>7 DEF ForwardFirst, Carried, Reaches
<1>9. CASE SrvWill \/ SrvWont
  <2>1. PICK d \in Downs : down' = Append(down, d) /\ d.m # "accept" /\ (SrvWill => d.m # "do")
    <3>1. CASE SrvWill
      <4>1. Tell("send", "none", 0).m = "send"
        BY DEF Tell
      <4> QED BY <3>1, <4>1, RequestType DEF SrvWill
    <3>2. CASE SrvWont
      <4>1. Tell("do", "none", 0).m = "do"
        BY DEF Tell
      <4>2. ~SrvWill
        BY <3>2 DEF SrvWont, SrvWill, Get
      <4> QED BY <3>2, <4>1, <4>2, RequestType DEF SrvWont
    <3> QED BY <1>9, <3>1, <3>2
  <2>2. \A i \in DOMAIN down' : (i \in DOMAIN down /\ down'[i] = down[i]) \/ down'[i] = d
    BY <1>0, <2>1, DownPut
  <2>3. /\ srv'.asked = srv.asked /\ srv'.late = srv.late /\ srv'.ignored = srv.ignored
        /\ \/ SrvWill /\ srv'.at = "waiting" /\ srv'.auth = srv.auth
           \/ SrvWont /\ srv'.at = "asking" /\ srv'.auth = Reject
    BY <1>2, <1>4, <1>9 DEF SrvWill, SrvWont, Servers
  <2>4. Reject # None
    BY DEF Reject, None
  <2>5. Asks'
    BY <2>3 DEF OptionsLast, Asks
  <2>6. AskedLast'
    BY <1>7, <2>1, <2>2, <2>3, <2>4 DEF AskedLast
  <2>7. AcceptFirst'
    BY <1>3, <2>1, <2>2 DEF AcceptFirst, Answers
  <2> QED BY <1>8, <2>5, <2>6, <2>7 DEF OptionsLast
<1>10. CASE SrvNull
  <2>1. /\ srv' = IF srv.at = "done" THEN Handling ELSE [Handling EXCEPT !.auth = Reject]
        /\ UNCHANGED down
    BY <1>10 DEF SrvNull, Null
  <2>2. /\ srv'.asked = srv.asked /\ srv'.late = srv.late /\ srv'.ignored = srv.ignored
        /\ srv'.at = srv.at
    BY <1>2, <1>4, <2>1 DEF Servers
  <2>3. Asks'
    BY <2>2 DEF OptionsLast, Asks
  <2>4. AskedLast'
    BY <1>7, <2>1, <2>2 DEF AskedLast
  <2>5. AcceptFirst'
    BY <1>3, <2>1 DEF AcceptFirst, Answers
  <2> QED BY <1>8, <2>3, <2>4, <2>5 DEF OptionsLast
<1>11. CASE SrvAuth
  <2> DEFINE way == up[1].way
             att == up[1].att
  <2>0. way \in Ways /\ att \in Nat
    BY <1>11, Got DEF SrvAuth, TypeOK
  <2>1. srv.at # "start"
    <3>1. up[1].m = "auth"
      BY <1>2, <1>11 DEF SrvAuth, Get
    <3> QED BY <1>2, <3>1 DEF Meaning
  <2>2. \/ srv' = Handling
        \/ srv' = [Handling EXCEPT !.auth = <<way, att>>, !.ctx = att, !.crypt = <<att, "subkey">>]
        \/ srv' = [Handling EXCEPT !.ctx = 0]
    BY <1>2, <1>11, SrvAuthCases
  <2>3. \/ down' = down
        \/ down' = down \o <<Tell("response", way, att), Tell("accept", way, att)>>
        \/ down' = Append(down, Tell("accept", way, att))
        \/ down' = Append(down, Tell("reject", way, att))
    BY <1>2, <1>11, SrvAuthCases
  <2> HIDE DEF way, att
  <2>4. /\ srv'.asked = srv.asked /\ srv'.late = srv.late /\ srv'.ignored = srv.ignored
        /\ srv'.at = srv.at
    BY <1>2, <1>4, <2>2 DEF Servers
  <2>5. /\ Tell("reject", way, att) \in Downs /\ Tell("response", way, att) \in Downs
        /\ Tell("accept", way, att) \in Downs
    BY <2>0, AnswerType
  <2>6. /\ Tell("reject", way, att).m = "reject" /\ Tell("response", way, att).m = "response"
        /\ Tell("accept", way, att).m = "accept"
    BY DEF Tell
  <2>7. \A i \in DOMAIN down' :
          (i \in DOMAIN down /\ down'[i] = down[i]) \/ down'[i].m \in {"reject", "response", "accept"}
    <3>1. CASE down' = down \o <<Tell("response", way, att), Tell("accept", way, att)>>
      BY <1>0, <2>5, <2>6, <3>1, DownPutTwo
    <3>2. ASSUME NEW d \in Downs, down' = Append(down, d), d.m \in {"reject", "response", "accept"}
          PROVE  \A i \in DOMAIN down' :
                   \/ i \in DOMAIN down /\ down'[i] = down[i]
                   \/ down'[i].m \in {"reject", "response", "accept"}
      BY <1>0, <3>2, DownPut
    <3> QED BY <2>3, <2>5, <2>6, <3>1, <3>2
  <2>8. ~srv.late => \A i \in DOMAIN down' : down'[i].m # "do"
    BY <1>7, <2>7
  <2>9. ~srv.late => Listens'
    BY <1>7, <2>1, <2>4 DEF Listens
  <2>10. Asks'
    BY <2>4 DEF OptionsLast, Asks
  <2>11. AskedLast'
    BY <1>7, <2>4, <2>8 DEF AskedLast
  <2>12. AcceptFirst'
    BY <1>7, <2>4, <2>8, <2>9 DEF AcceptFirst
  <2> QED BY <1>8, <2>10, <2>11, <2>12 DEF OptionsLast
<1> QED BY <1>9, <1>10, <1>11

(* The server reads credentials with the context they were made for, and    *)
(* when it is not late it still listens; an option ends that only when none *)
(* are behind it.                                                           *)
LEMMA OrderOther ==
  ASSUME TypeOK, Meaning, OptionsLast, SrvOther \/ SrvForward \/ SrvOption
  PROVE  OptionsLast'
<1>0. cli \in Clients /\ srv \in Servers /\ up \in Seq(Ups) /\ down \in Seq(Downs)
  BY DEF TypeOK
<1>1. PICK k \in {"other", "forward", "option"} :
        Get(k) /\ (SrvForward => k = "forward") /\ (SrvOther => k = "other")
        /\ (SrvOption => k = "option")
  <2>1. CASE SrvForward
    BY <2>1 DEF SrvForward, SrvOther, SrvOption, Get
  <2>2. CASE SrvOther
    BY <2>2 DEF SrvForward, SrvOther, SrvOption, Get
  <2>3. CASE SrvOption
    BY <2>3 DEF SrvForward, SrvOther, SrvOption, Get
  <2> QED BY <2>1, <2>2, <2>3
<1>2. /\ up[1].m = k /\ 1 \in DOMAIN up /\ UNCHANGED <<opts, cli>> /\ up # <<>> /\ up' = Tail(up)
      /\ Head(up) = up[1] /\ Handling \in Servers
  BY <1>1, Got
<1>3. /\ Handling.at = srv.at /\ Handling.auth = srv.auth /\ Handling.creds = srv.creds
      /\ Handling.late = srv.late /\ Handling.asked = srv.asked /\ Handling.ignored = srv.ignored
  BY <1>0 DEF Handling, Servers
<1>4. /\ \A i \in DOMAIN up' : i + 1 \in DOMAIN up /\ up'[i] = up[i + 1]
      /\ \A i \in DOMAIN up : i # 1 => i - 1 \in DOMAIN up' /\ up'[i - 1] = up[i]
  BY <1>0, <1>2, UpTaken
<1>5. CASE SrvOther
  <2>1. srv' = Handling /\ UNCHANGED down
    BY <1>5 DEF SrvOther
  <2>2. Listens' = Listens /\ Asks'
    BY <1>3, <2>1 DEF OptionsLast, Asks, Listens
  <2>3. ForwardFirst' /\ Carried'
    BY <1>0, <1>2, <1>3, <2>1, <2>2, UpOrder
  <2>4. AskedLast' /\ AcceptFirst'
    BY <1>3, <1>4, <2>1, <2>2 DEF OptionsLast, AskedLast, AcceptFirst
  <2>5. Reaches'
    <3>1. (\E i \in DOMAIN up : up[i].m = "forward") => \E i \in DOMAIN up' : up'[i].m = "forward"
      BY <1>1, <1>2, <1>4, <1>5
    <3> QED BY <1>2, <1>3, <2>1, <3>1 DEF OptionsLast, Reaches
  <2> QED BY <2>2, <2>3, <2>4, <2>5 DEF OptionsLast
<1>6. CASE SrvForward
  <2>1. /\ cli.gave # 0 /\ up[1].att = cli.gave /\ (~srv.late => Listens)
    BY <1>1, <1>2, <1>6 DEF OptionsLast, Carried, ForwardFirst
  <2>2. Silent /\ cli.gave = srv.ctx
    BY <2>1, GivenSilent DEF Meaning, Settling
  <2>3. \/ srv.at = "done" /\ srv' = [Handling EXCEPT !.ignored = TRUE] /\ UNCHANGED down
        \/ /\ srv.at # "done" /\ down' = Append(down, Tell("forwarded", "none", 0))
           /\ srv' = [Handling EXCEPT !.creds = srv.ctx]
    BY <1>2, <1>6, <2>1, <2>2 DEF SrvForward
  <2>4. /\ srv'.at = srv.at /\ srv'.auth = srv.auth /\ srv'.late = srv.late /\ srv'.asked = srv.asked
        /\ \/ srv.at = "done"
           \/ srv.at # "done" /\ srv'.ignored = srv.ignored /\ srv'.creds = srv.ctx
    BY <1>2, <1>3, <2>3 DEF Servers
  <2>5. Listens' = Listens
    BY <2>4 DEF Listens
  <2>6. ForwardFirst' /\ Carried'
    BY <1>0, <1>2, <2>4, <2>5, UpOrder
  <2>7. srv.at = "done" => srv.late
    BY <2>1 DEF Listens
  <2>8. Asks'
    BY <2>4, <2>7 DEF OptionsLast, Asks
  <2>9. \A i \in DOMAIN down' : (i \in DOMAIN down /\ down'[i] = down[i]) \/ down'[i].m = "forwarded"
    <3>1. CASE down' = Append(down, Tell("forwarded", "none", 0))
      <4>1. Tell("forwarded", "none", 0).m = "forwarded"
        BY DEF Tell
      <4> QED BY <1>0, <3>1, <4>1, DownPut, RequestType
    <3> QED BY <2>3, <3>1
  <2>10. AskedLast' /\ AcceptFirst'
    BY <1>4, <2>4, <2>5, <2>9 DEF OptionsLast, AskedLast, AcceptFirst
  <2>11. Reaches'
    BY <1>2, <2>2, <2>4, <2>7 DEF Reaches
  <2> QED BY <2>6, <2>8, <2>10, <2>11 DEF OptionsLast
<1>7. CASE SrvOption
  <2>1. srv' = [Handling EXCEPT !.asked = TRUE] /\ UNCHANGED down /\ k = "option"
    BY <1>1, <1>7 DEF SrvOption
  <2>2. /\ srv'.at = srv.at /\ srv'.auth = srv.auth /\ srv'.late = srv.late /\ srv'.asked = TRUE
        /\ srv'.ignored = srv.ignored /\ srv'.creds = srv.creds
    BY <1>2, <1>3, <2>1 DEF Servers
  <2>3. ~srv.late => \A i \in DOMAIN up : up[i].m # "forward"
    <3>1. ASSUME ~srv.late, NEW i \in DOMAIN up, up[i].m = "forward"
          PROVE  FALSE
      <4>1. i < 1
        BY <1>2, <2>1, <3>1 DEF OptionsLast, ForwardFirst
      <4>2. i \in 1 .. Len(up)
        BY <1>0, <3>1
      <4> QED BY <1>0, <4>1, <4>2
    <3> QED BY <3>1
  <2>4. ~srv.late => srv.auth # None /\ \A i \in DOMAIN down : down[i].m # "accept"
    BY <1>2, <2>1 DEF OptionsLast, AskedLast, AcceptFirst
  <2>5. Asks'
    BY <2>2 DEF OptionsLast, Asks
  <2>6. AskedLast' /\ AcceptFirst'
    BY <2>1, <2>2, <2>4 DEF AskedLast, AcceptFirst
  <2>7. ForwardFirst'
    BY <1>4, <2>2, <2>3 DEF ForwardFirst
  <2>8. Carried'
    BY <1>2, <1>4 DEF OptionsLast, Carried
  <2>9. Reaches'
    BY <1>2, <2>2, <2>3 DEF OptionsLast, Reaches
  <2> QED BY <2>5, <2>6, <2>7, <2>8, <2>9 DEF OptionsLast
<1> QED BY <1>5, <1>6, <1>7

(* The options are asked behind the acceptance, their end comes when they   *)
(* have been answered, and an alarm excuses everything.                     *)
LEMMA OrderWait ==
  ASSUME TypeOK, OptionsLast, Test \/ Negotiated \/ Alarm
  PROVE  OptionsLast'
<1>0. srv \in Servers /\ down \in Seq(Downs)
  BY DEF TypeOK
<1>1. UNCHANGED <<cli, up>>
  BY DEF Test, Negotiated, Alarm
<1>2. CASE Alarm
  <2>1. /\ srv'.late = TRUE /\ srv'.at = "waiting" /\ srv'.ignored = srv.ignored
    BY <1>0, <1>2 DEF Alarm, Servers
  <2> QED BY <1>1, <2>1 DEF OptionsLast, Asks, AskedLast, AcceptFirst, ForwardFirst, Carried, Reaches
<1>3. CASE Negotiated
  <2>1. /\ srv'.at = "done" /\ srv'.auth = srv.auth /\ srv'.late = srv.late /\ srv.asked
        /\ srv'.asked = srv.asked /\ srv'.ignored = srv.ignored /\ srv'.creds = srv.creds
        /\ UNCHANGED down
    BY <1>0, <1>3 DEF Negotiated, Answered, Servers
  <2>2. ~Listens
    BY <2>1 DEF Listens
  <2> QED BY <1>1, <2>1, <2>2
      DEF OptionsLast, Asks, AskedLast, AcceptFirst, ForwardFirst, Carried, Reaches
<1>4. CASE Test
  <2> DEFINE d == Tell("do", "none", 0)
  <2>1. /\ srv.at = "waiting" /\ srv'.auth = srv.auth /\ srv'.late = srv.late
        /\ srv'.asked = srv.asked /\ srv'.ignored = srv.ignored /\ srv'.creds = srv.creds
        /\ \/ srv'.at = "waiting" /\ UNCHANGED down
           \/ srv.auth # None /\ srv'.at = "asking" /\ down' = Append(down, d)
    BY <1>0, <1>4 DEF Test, Servers
  <2>2. Listens' = Listens /\ Asks'
    BY <2>1 DEF OptionsLast, Asks, Listens
  <2>3. ForwardFirst' /\ Carried' /\ Reaches'
    BY <1>1, <2>1, <2>2 DEF OptionsLast, ForwardFirst, Carried, Reaches
  <2>4. CASE UNCHANGED down /\ srv'.at = "waiting"
    BY <1>1, <2>1, <2>2, <2>3, <2>4 DEF OptionsLast, AskedLast, AcceptFirst
  <2>5. CASE srv.auth # None /\ down' = Append(down, d)
    <3>1. d \in Downs /\ d.m = "do"
      BY RequestType DEF Tell
    <3> HIDE DEF d
    <3>2. /\ \A i \in DOMAIN down' : \/ i \in DOMAIN down /\ down'[i] = down[i]
                                     \/ i = Len(down) + 1 /\ down'[i] = d
          /\ \A i \in DOMAIN down : i \in DOMAIN down' /\ down'[i] = down[i] /\ i < Len(down) + 1
      BY <1>0, <2>5, <3>1, DownPut
    <3>3. AskedLast'
      BY <2>1, <2>5 DEF AskedLast
    <3>4. AcceptFirst'
      BY <1>1, <2>1, <2>2, <3>1, <3>2 DEF OptionsLast, AcceptFirst
    <3> QED BY <2>2, <2>3, <3>3, <3>4 DEF OptionsLast
  <2> QED BY <2>1, <2>4, <2>5
<1> QED BY <1>2, <1>3, <1>4
----------------------------------------------------------------------------
(* The three parts hold together, from one connection to the next.          *)
LEMMA OrderInit == Init => InOrder
BY TurnBegin DEF Init, Begins

(* Each step keeps them; a new connection begins them again.                *)
LEMMA OrderStep == TypeOK /\ InOrder /\ [StartNext]_startVars => InOrder'
<1> SUFFICES ASSUME TypeOK, InOrder, [StartNext]_startVars PROVE InOrder'
  OBVIOUS
<1>0. TypeOK' /\ OneSpeaks /\ Meaning /\ OptionsLast
  BY TypeStep DEF InOrder
<1>1. CASE UNCHANGED vars
  <2>1. UNCHANGED <<opts, cli, srv, up, down>>
    BY <1>1 DEF vars
  <2>2. OneSpeaks'
    BY <1>0, <2>1 DEF OneSpeaks
  <2>3. Meaning'
    BY <1>0, <2>1 DEF Meaning, Unsettled, Open0, NothingGiven, KeyMade, Accepting, Silent,
                      Settling, KeyKnown
  <2>4. OptionsLast'
    BY <1>0, <2>1 DEF OptionsLast, Asks, AskedLast, AcceptFirst, ForwardFirst, Carried, Reaches,
                      Listens
  <2> QED BY <2>2, <2>3, <2>4 DEF InOrder
<1>2. CASE ClientStep
  <2>1. OneSpeaks' /\ Meaning'
    BY <1>0, <1>2, TurnClient
  <2>2. OptionsLast'
    BY <1>0, <1>2, OrderRetry, OrderAccept, OrderOption DEF ClientStep
  <2> QED BY <2>1, <2>2 DEF InOrder
<1>3. CASE ServerStep
  <2>1. OneSpeaks' /\ Meaning'
    BY <1>0, <1>3, TurnServer, TurnOther, TurnWait DEF ServerStep
  <2>2. OptionsLast'
    BY <1>0, <1>3, OrderTurn, OrderOther, OrderWait DEF ServerStep
  <2> QED BY <2>1, <2>2 DEF InOrder
<1>4. CASE Alarm
  BY <1>0, <1>4, TurnWait, OrderWait DEF InOrder
<1>5. CASE Open
  <2>1. cli.mutual \in BOOLEAN
    BY DEF TypeOK, Clients
  <2>2. Opening' = Opening /\ Idle' = Idle
    BY <1>5 DEF Open, Opening, Idle
  <2>3. Begins'
    BY <1>5, <2>1, <2>2 DEF Begins, Open, Settled, Fresh
  <2>4. Begins' => InOrder'
    BY TurnBegin, PTL
  <2> QED BY <2>3, <2>4
<1> QED BY <1>1, <1>2, <1>3, <1>4, <1>5 DEF StartNext, Authenticate, AskType, Reopen, startVars

(* They hold in every state of a start.                                     *)
LEMMA InOrderHolds == StartSpec => [](TypeOK /\ InOrder)
<1>1. StartInit => TypeOK /\ InOrder
  BY TypeInit, OrderInit DEF StartInit
<1>2. (TypeOK /\ InOrder) /\ [StartNext]_startVars => (TypeOK /\ InOrder)'
  BY TypeStep, OrderStep
<1> QED BY <1>1, <1>2, PTL DEF StartSpec

(* When a start-up is over nothing carries on, and so the conclusions and   *)
(* the keys are the same: however many mechanisms failed and whenever the   *)
(* alarm went off, but for the exceptions Agree names.                      *)
THEOREM AgreeHolds == StartSpec => []Agree
<1>1. TypeOK /\ InOrder => Agree
  <2> SUFFICES ASSUME TypeOK, InOrder, Settled, ~srv.struck
               PROVE  /\ Accepted(cli.done) \/ Accepted(srv.auth) => cli.done = srv.auth
                      /\ KeyKnown => cli.crypt = srv.crypt
    BY DEF Agree
  <2>1. Silent
    BY DEF Settled, Silent
  <2>2. Settling
    BY <2>1 DEF InOrder, Meaning
  <2>3. ~Accepted(None) /\ ~Accepted(Reject)
    BY DEF Accepted, None, Reject
  <2> QED BY <2>2, <2>3 DEF Settling
<1> QED BY <1>1, InOrderHolds, PTL

(* Credentials that are forwarded are read while the server listens and     *)
(* with the context they were made for, unless an alarm went off.           *)
THEOREM ForwardedHolds == StartSpec => []Forwarded
<1>1. TypeOK /\ InOrder => Forwarded
  <2> SUFFICES ASSUME TypeOK, InOrder
               PROVE  /\ srv.ignored => srv.late
                      /\ Settled /\ cli.gave # 0 /\ ~srv.late => srv.creds = cli.gave
    BY DEF Forwarded
  <2>1. srv.ignored => srv.late
    BY DEF InOrder, OptionsLast, Asks
  <2>2. Settled /\ cli.gave # 0 /\ ~srv.late => srv.creds = cli.gave
    BY DEF InOrder, OptionsLast, Reaches, Settled
  <2> QED BY <2>1, <2>2
<1> QED BY <1>1, InOrderHolds, PTL
=============================================================================
