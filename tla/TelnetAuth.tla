----------------------------- MODULE TelnetAuth -----------------------------
(* Authentication at the start of a telnet session.  The server offers its  *)
(* mechanisms, the client tries them in turn, the server accepts or rejects *)
(* each, and then asks its options; it hears of credentials and of further  *)
(* attempts until they are answered.  An alarm interrupts its wait.  One    *)
(* client process may open one connection after the other.                  *)
EXTENDS Naturals, Sequences, FiniteSets

CONSTANTS
  Mechanisms,     \* what the server offers, in its order
  MaxFails,       \* bound: calls of the Kerberos library that fail
  MaxAlarms,      \* bound: alarms of auth_wait() that go off
  MaxConnections  \* bound: connections the client opens

ASSUME AuthAssumption ==
  /\ Mechanisms \in Seq({"encrypt", "mutual", "oneway"})
  /\ MaxFails \in Nat /\ MaxAlarms \in Nat /\ MaxConnections \in Nat \ {0}

VARIABLES
  opts,         \* autologin, -x and -f, the enctypes of the keys: fixed
  cli,          \* the client's list, context, key and conclusion
  srv,          \* the server: where getterminaltype() is, and its conclusion
  up, down,     \* messages to the server and to the client
  left          \* bounds

vars == <<opts, cli, srv, up, down, left>>

None == <<"none", 0>>
Reject == <<"reject", 0>>
Accepted(conclusion) == conclusion[1] \in {"encrypt", "mutual", "oneway"}
Mutual(way) == way # "oneway"
----------------------------------------------------------------------------
(* kerberos5_send(): without credentials nothing has happened yet; when the *)
(* request cannot be made the context and the key are gone.  The key for    *)
(* the encryption is the subkey if it is a DES key, else the ticket's.      *)
SendKey(att) ==
  CASE opts.subkey = "des" -> <<att, "subkey">>
    [] opts.subkey # "des" /\ opts.session = "des" -> <<att, "session">>
    [] OTHER -> <<0, "none">>
Sent(c, k) ==
  [c EXCEPT !.list = SubSeq(@, k + 1, Len(@)), !.tried = @ + 1, !.ctx = c.tried + 1,
            !.key = SendKey(c.tried + 1)]
NoneLeft(c) == [c EXCEPT !.list = <<>>, !.done = Reject]

(* auth_send_retry(): the next mechanism of the list that this client has,  *)
(* wants and can use; the rest of the list is kept.  AUTHTYPE_NULL if none. *)
CanUse(c, k) == c.list[k] # "encrypt" \/ opts.x
Lost(c) == {c, [c EXCEPT !.ctx = 0, !.key = <<0, "none">>]}
Retry(c) ==
  \E k \in 0 .. Len(c.list) :
    LET failed == {i \in 1 .. k : CanUse(c, i)}
    IN /\ left.fails >= Cardinality(failed)
       /\ left' = [left EXCEPT !.fails = @ - Cardinality(failed)]
       /\ \E d \in IF failed = {} THEN {c} ELSE Lost(c) :
            \/ /\ k < Len(c.list) /\ CanUse(c, k + 1)
               /\ cli' = [Sent(d, k + 1) EXCEPT !.way = c.list[k + 1]]
               /\ up' = Append(up, [m |-> "auth", way |-> c.list[k + 1], att |-> c.tried + 1])
            \/ /\ k = Len(c.list)
               /\ cli' = NoneLeft(d)
               /\ up' = Append(up, [m |-> "null", way |-> "none", att |-> 0])

Hear(m) == down # <<>> /\ Head(down).m = m /\ down' = Tail(down) /\ UNCHANGED <<opts, srv>>
Quiet == UNCHANGED <<up, left>>
(* auth_send(): a new list replaces what is left of an earlier one.         *)
AuthSend == Hear("send") /\ Retry([cli EXCEPT !.list = Mechanisms])
(* kerberos5_reply().  mutual_complete is static: it outlives the attempt   *)
(* and the connection.                                                      *)
ReplyReject == Hear("reject") /\ Retry(cli)
ReplyResponse ==
  /\ Hear("response")
  /\ \/ ~Mutual(Head(down).way) /\ UNCHANGED cli /\ Quiet
     \/ /\ Mutual(Head(down).way) /\ cli.ctx = Head(down).att
        /\ cli' = [cli EXCEPT !.crypt = IF cli.key[1] = 0 THEN @ ELSE cli.key, !.mutual = TRUE] /\ Quiet
     \/ Mutual(Head(down).way) /\ cli.ctx # Head(down).att /\ Retry(cli)
Concluded(c, a) ==
  [c EXCEPT !.done = a, !.crypt = IF ~c.mutual /\ c.key[1] # 0 THEN c.key ELSE @]
ReplyAccept ==
  /\ Hear("accept")
  /\ \/ ~cli.mutual /\ Mutual(Head(down).way) /\ Retry(cli)
     \/ /\ cli.mutual \/ ~Mutual(Head(down).way)
        /\ \/ /\ opts.forward
              /\ cli' = [Concluded(cli, <<Head(down).way, Head(down).att>>) EXCEPT !.gave = cli.ctx]
              /\ up' = Append(up, [m |-> "forward", way |-> Head(down).way, att |-> cli.ctx])
              /\ UNCHANGED left
           \/ /\ opts.forward => left.fails > 0
              /\ cli' = Concluded(cli, <<Head(down).way, Head(down).att>>)
              /\ left' = IF opts.forward THEN [left EXCEPT !.fails = @ - 1] ELSE left
              /\ UNCHANGED up
(* DO OLD-ENVIRON, which every client answers after what came before it,    *)
(* and the answers to forwarded credentials.                                *)
ReplyOption ==
  /\ Hear("do") /\ up' = Append(up, [m |-> "option", way |-> "none", att |-> 0])
  /\ UNCHANGED <<cli, left>>
ReplyForward == Hear("forwarded") /\ UNCHANGED cli /\ Quiet
(* telnet() again, from the command "open": auth_encrypt_init().            *)
Fresh(static) ==
  [list |-> <<>>, way |-> "none", tried |-> 0, ctx |-> 0, key |-> <<0, "none">>,
   crypt |-> <<0, "none">>, done |-> None, gave |-> 0,
   mutual |-> static, stale |-> static]
Opening == <<[m |-> IF opts.autologin THEN "will" ELSE "wont", way |-> "none", att |-> 0],
             [m |-> "other", way |-> "none", att |-> 0]>>
Idle ==
  [at |-> "start", auth |-> None, ctx |-> 0, crypt |-> <<0, "none">>, reading |-> FALSE,
   asked |-> FALSE, creds |-> 0, ignored |-> FALSE, struck |-> FALSE, late |-> FALSE]
Settled == srv.at = "done" /\ up = <<>> /\ down = <<>>
Open ==
  /\ Settled /\ left.opens > 0 /\ left' = [left EXCEPT !.opens = @ - 1]
  /\ cli' = Fresh(cli.mutual) /\ srv' = Idle /\ up' = Opening
  /\ UNCHANGED <<opts, down>>
----------------------------------------------------------------------------
(* The server handles what one read brought, then tests the condition it    *)
(* waits for, and reads again.                                              *)
Get(m) == up # <<>> /\ Head(up).m = m /\ up' = Tail(up) /\ UNCHANGED <<opts, cli>>
Handling == [srv EXCEPT !.reading = FALSE]
Tell(m, way, att) == [m |-> m, way |-> way, att |-> att]

(* The option is agreed, and auth_request() offers what there is; or it is  *)
(* refused, which is a rejection.                                           *)
SrvWill ==
  /\ Get("will") /\ srv.at = "start"
  /\ srv' = [Handling EXCEPT !.at = "waiting"]
  /\ down' = Append(down, Tell("send", "none", 0)) /\ UNCHANGED left
SrvWont ==
  /\ Get("wont") /\ srv.at = "start"
  /\ srv' = [Handling EXCEPT !.at = "asking", !.auth = Reject]
  /\ down' = Append(down, Tell("do", "none", 0)) /\ UNCHANGED left
SrvOther == Get("other") /\ srv' = Handling /\ UNCHANGED <<down, left>>

BugAnswer(way, att) == <<Tell("accept", way, att)>> \o IF Mutual(way) THEN <<Tell("response", way, att)>> ELSE <<>>
Answer(way, att) == (IF Mutual(way) THEN <<Tell("response", way, att)>> ELSE <<>>) \o <<Tell("accept", way, att)>>
(* kerberos5_is(): the request is read, checked and answered; nothing of it *)
(* counts once auth_negotiated is set.                                      *)
SrvAuth ==
  /\ Get("auth")
  /\ \/ srv.at = "done" /\ srv' = Handling /\ UNCHANGED <<down, left>>
     \/ /\ srv.at # "done" /\ UNCHANGED left
        /\ srv' = [Handling EXCEPT !.auth = <<Head(up).way, Head(up).att>>, !.ctx = Head(up).att,
                                   !.crypt = <<Head(up).att, "subkey">>]
        /\ down' = down \o Answer(Head(up).way, Head(up).att)
     \/ /\ srv.at # "done" /\ left.fails > 0 /\ left' = [left EXCEPT !.fails = @ - 1]
        /\ srv' = [Handling EXCEPT !.ctx = 0]
        /\ down' = Append(down, Tell("reject", Head(up).way, Head(up).att))
Null(s) == [s EXCEPT !.auth = Reject]
SrvNull ==
  /\ Get("null") /\ srv' = IF srv.at = "done" THEN Handling ELSE Null(Handling)
  /\ UNCHANGED <<down, left>>
(* The credentials are decrypted with the context of the last request.      *)
SrvForward ==
  /\ Get("forward") /\ UNCHANGED left
  /\ \/ /\ srv.at = "done" /\ srv' = [Handling EXCEPT !.ignored = TRUE] /\ UNCHANGED down
     \/ /\ srv.at # "done" /\ down' = Append(down, Tell("forwarded", "none", 0))
        /\ srv' = [Handling EXCEPT !.creds = IF srv.ctx = Head(up).att THEN srv.ctx ELSE @]
SrvOption ==
  /\ Get("option") /\ srv' = [Handling EXCEPT !.asked = TRUE] /\ UNCHANGED <<down, left>>

(* auth_wait(): the alarm rejects, whatever has been said; the read that it *)
(* interrupts is repeated, so that the wait goes on until something comes.  *)
Alarm ==
  /\ srv.at = "waiting" /\ left.alarms > 0 /\ left' = [left EXCEPT !.alarms = @ - 1]
  /\ srv' = [srv EXCEPT !.auth = Reject, !.struck = @ \/ srv.auth # None, !.late = TRUE]
  /\ UNCHANGED <<opts, cli, up, down>>
Test ==
  /\ srv.at = "waiting" /\ ~srv.reading /\ UNCHANGED <<opts, cli, up, left>>
  /\ \/ srv.auth = None /\ srv' = [srv EXCEPT !.reading = TRUE] /\ UNCHANGED down
     \/ /\ srv.auth # None /\ srv' = [srv EXCEPT !.at = "asking"]
        /\ down' = Append(down, Tell("do", "none", 0))
(* All options are answered: auth_negotiated, and auth_check().             *)
BugAnswered == TRUE
Answered == srv.asked
Negotiated ==
  /\ srv.at = "asking" /\ Answered
  /\ srv' = [srv EXCEPT !.at = "done"]
  /\ UNCHANGED <<opts, cli, up, down, left>>

Init ==
  /\ opts \in [autologin : BOOLEAN, x : BOOLEAN, forward : BOOLEAN,
               subkey : {"des", "other"}, session : {"des", "other"}]
  /\ opts.subkey = "des" => opts.session = "des"
  /\ cli = Fresh(FALSE) /\ srv = Idle /\ up = Opening /\ down = <<>>
  /\ left = [fails |-> MaxFails, alarms |-> MaxAlarms, opens |-> MaxConnections - 1]

ClientStep == AuthSend \/ ReplyReject \/ ReplyResponse \/ ReplyAccept \/ ReplyOption \/ ReplyForward
ServerStep ==
  \/ SrvWill \/ SrvWont \/ SrvOther \/ SrvAuth \/ SrvNull \/ SrvForward \/ SrvOption
  \/ Test \/ Negotiated
----------------------------------------------------------------------------
(* When a start-up is over client and server have come to the same          *)
(* conclusion, and have given the same key to the encryption, however many  *)
(* mechanisms failed before and whenever the alarm went off.  Except: the   *)
(* alarm goes off between the acceptance and the end of auth_wait(); and    *)
(* for the key, a subkey that is not DES (the client then takes the ticket's*)
(* key, the server the subkey) and a one-way mechanism in a process that    *)
(* has completed a mutual one before (it installs no key).                  *)
KeyKnown == opts.subkey = "des" /\ ~(cli.stale /\ cli.done[1] = "oneway")
Agree ==
  Settled /\ ~srv.struck =>
    /\ Accepted(cli.done) \/ Accepted(srv.auth) => cli.done = srv.auth
    /\ KeyKnown => cli.crypt = srv.crypt

(* Credentials the client forwards reach the server while it still listens  *)
(* and while it holds the context they were made for: the client sends them *)
(* before its answer to the last option.  Except after an alarm, when the   *)
(* options may be asked before the request is read.                         *)
Forwarded ==
  /\ srv.ignored => srv.late
  /\ Settled /\ cli.gave # 0 /\ ~srv.late => srv.creds = cli.gave

=============================================================================
