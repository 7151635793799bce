----------------------------- MODULE Rsh_proofs -----------------------------
(* Two safety properties of rsh for every set of requests and commands,     *)
(* every size of pipe and every bound: both sides of kcmd() mean the same   *)
(* session once they are through the set up (Agree), and an rsh that ends   *)
(* by itself has shown all that the command wrote (OutputWhole).            *)
(*                                                                          *)
(* Agree rests on what is under way on the first connection (Meaning): each *)
(* message says what the request and the ticket make it say, so the server  *)
(* can only take over what the client has chosen.                           *)
(*                                                                          *)
(* OutputWhole rests on a balance (Balanced): what the command has written  *)
(* is in its pipe, on the connection, or shown; and on the order in which   *)
(* the three places run dry (Drained, Heard): krshd gives up a pipe only    *)
(* when it is empty and the command has ended, and rsh a connection only    *)
(* when it is empty and krshd has given up the pipe behind it.              *)
EXTENDS Rsh, TLAPS

(* The messages of the set up, as the request and the ticket make them.     *)
Port == [m |-> "port", port |-> HasStderr]
Auth == [m |-> "auth", proto |-> Protocol, subkey |-> (Protocol = "new")]
Creds == [m |-> "creds", forward |-> req.forward]
Messages == {Port, Auth, Strings, Creds}
Answers == {"aprep", "aperror", "ok", "error"}

ClientPlaces == {"start", "secondary", "tickets", "auth", "reply", "up", "exit", "normal", "dead"}
ServerPlaces == {"port", "auth", "refused", "strings", "creds", "up", "gone"}
Protocols == {"none", "old", "new"}
Keys == {"none", "session", "subkey"}

Clients ==
  [at : ClientPlaces, proto : Protocols, key : Keys, x : BOOLEAN, open : SUBSET {"rem", "rfd2"},
   writer : {"none", "run", "done"}, shown : [out : Nat, err : Nat], ended : BOOLEAN]
Servers ==
  [at : ServerPlaces, proto : Protocols, sub : BOOLEAN, key : Keys, x : BOOLEAN,
   from : SUBSET {"f", "s", "pv", "pw"}, shut : [f : BOOLEAN, s : BOOLEAN],
   writing : BOOLEAN, closed : BOOLEAN]
Seconds == [at : {"none", "listen", "open"}, data : Nat, out : Nat, err : Nat, sig : Nat]
Children ==
  [at : {"none", "forked", "run", "ended"}, cmd : Commands, px : Nat, pw : Nat, pv : Nat,
   owes : Nat, wrote : [out : Nat, err : Nat], missed : BOOLEAN]
Bounds == [input : Nat, signals : Nat, deaths : Nat]

TypeOK ==
  /\ req \in Requests
  /\ cli \in Clients
  /\ srv \in Servers
  /\ up \in Seq(Messages) /\ down \in Seq(Answers)
  /\ sec \in Seconds
  /\ child \in Children
  /\ left \in Bounds
----------------------------------------------------------------------------
(* A request has one of four clients and one of three protocols.            *)
LEMMA RequestType ==
  ASSUME req \in Requests
  PROVE  /\ req.client \in {"rsh", "rlogin", "rcp_to", "rcp_from"}
         /\ req.x \in BOOLEAN /\ req.des \in BOOLEAN /\ req.forward \in BOOLEAN
         /\ req.proto \in {"old", "new", "compat"}
         /\ Protocol \in {"old", "new"}
         /\ HasStderr \in BOOLEAN
<1>1. req \in [client : {"rsh", "rlogin", "rcp_to", "rcp_from"}, x : BOOLEAN,
               proto : {"old", "new", "compat"}, forward : BOOLEAN, des : BOOLEAN]
  BY RequestsAssumption
<1> QED BY <1>1 DEF Protocol, HasStderr

(* A failure of kcmd() ends the client or runs the program without Kerberos.*)
LEMMA FallbackType ==
  ASSUME req \in Requests
  PROVE  Fallback \in {"exit", "normal"}
BY RequestType DEF Fallback

(* Nothing but the request determines the messages.                         *)
LEMMA MessagesFixed ==
  ASSUME UNCHANGED req
  PROVE  Messages' = Messages
BY DEF Messages, Port, Auth, Strings, Creds, Protocol, HasStderr

(* What the server takes from the connection is the message it waits for.   *)
LEMMA Taken ==
  ASSUME up \in Seq(Messages), req \in Requests, NEW k, Take(k)
  PROVE  /\ up' \in Seq(Messages) /\ up # <<>>
         /\ k = "port" => Head(up) = Port
         /\ k = "auth" => Head(up) = Auth
         /\ k = "strings" => Head(up) = Strings
         /\ k = "creds" => Head(up) = Creds
<1>1. up # <<>> /\ Head(up).m = k /\ up' = Tail(up)
  BY DEF Take
<1>2. Head(up) \in Messages /\ up' \in Seq(Messages)
  BY <1>1
<1> QED BY <1>1, <1>2 DEF Messages, Port, Auth, Strings, Creds

(* What is put at the end of a connection is on it.                         *)
LEMMA Put ==
  ASSUME up \in Seq(Messages), NEW a \in Messages, NEW b \in Messages
  PROVE  /\ Append(up, a) \in Seq(Messages) /\ <<a>> \in Seq(Messages)
         /\ up \o <<a, b>> \in Seq(Messages)
<1>1. <<a, b>> \in Seq(Messages)
  OBVIOUS
<1> QED BY <1>1

(* A count that is put in the place of another leaves the types.            *)
LEMMA ChildCounts ==
  ASSUME NEW c \in Children
  PROVE  /\ \A n \in Nat : [c EXCEPT !.px = n] \in Children
         /\ \A n \in Nat : [c EXCEPT !.pw = n] \in Children
         /\ \A n \in Nat : [c EXCEPT !.pv = n] \in Children
         /\ c.px \in Nat /\ c.pw \in Nat /\ c.pv \in Nat /\ c.owes \in Nat
         /\ c.wrote.out \in Nat /\ c.wrote.err \in Nat
BY DEF Children

(* The same for what the command reads and writes.                          *)
LEMMA ChildWork ==
  ASSUME NEW c \in Children, NEW n \in Nat, NEW k \in Nat, NEW w \in Nat
  PROVE  /\ [c EXCEPT !.px = n, !.owes = k] \in Children
         /\ [c EXCEPT !.pw = n, !.owes = k, !.wrote.out = w] \in Children
         /\ [c EXCEPT !.pv = n, !.owes = k, !.wrote.err = w] \in Children
BY DEF Children

(* The server goes on to another place of the set up, with what the message *)
(* it has read tells it.                                                    *)
LEMMA ServerMoves ==
  ASSUME NEW s \in Servers, NEW a \in ServerPlaces
  PROVE  [s EXCEPT !.at = a] \in Servers
BY DEF Servers

LEMMA ServerLearns ==
  ASSUME NEW s \in Servers, NEW p \in Protocols, NEW b \in BOOLEAN, NEW k \in Keys
  PROVE  /\ [s EXCEPT !.at = "strings", !.proto = p, !.sub = b] \in Servers
         /\ [s EXCEPT !.at = "creds", !.x = b, !.key = k] \in Servers
<1>1. [s EXCEPT !.at = "strings", !.proto = p, !.sub = b] \in Servers
  BY DEF Servers, ServerPlaces
<1>2. [s EXCEPT !.at = "creds", !.x = b, !.key = k] \in Servers
  BY DEF Servers, ServerPlaces
<1> QED BY <1>1, <1>2

(* What changes of the server's record in the select loop, and what stays.  *)
LEMMA ServerKeeps ==
  ASSUME NEW s \in Servers, NEW from \in SUBSET {"f", "s", "pv", "pw"}, NEW b \in BOOLEAN
  PROVE  /\ [s EXCEPT !.from = from] \in Servers
         /\ [s EXCEPT !.from = from].at = s.at
         /\ [s EXCEPT !.from = from].shut = s.shut
         /\ [s EXCEPT !.from = from].from = from
         /\ [s EXCEPT !.writing = b] \in Servers
         /\ [s EXCEPT !.writing = b].at = s.at
         /\ [s EXCEPT !.writing = b].shut = s.shut
         /\ [s EXCEPT !.writing = b].from = s.from
<1>1. /\ [s EXCEPT !.from = from] \in Servers
      /\ [s EXCEPT !.from = from].at = s.at
      /\ [s EXCEPT !.from = from].shut = s.shut
      /\ [s EXCEPT !.from = from].from = from
  BY DEF Servers
<1>2. /\ [s EXCEPT !.writing = b] \in Servers
      /\ [s EXCEPT !.writing = b].at = s.at
      /\ [s EXCEPT !.writing = b].shut = s.shut
      /\ [s EXCEPT !.writing = b].from = s.from
  BY DEF Servers
<1> QED BY <1>1, <1>2

LEMMA ServerCloses ==
  ASSUME NEW s \in Servers
  PROVE  /\ NoInput(s) \in Servers
         /\ NoInput(s).at = s.at
         /\ NoInput(s).shut = s.shut
         /\ NoInput(s).from = s.from \ {"f"}
<1>1. s.from \ {"f"} \in SUBSET {"f", "s", "pv", "pw"}
  BY DEF Servers
<1> QED BY <1>1 DEF Servers, NoInput

(* Beyond the pipes the server only gives up what it reads from the client  *)
(* and turns to the command.                                                *)
Turned(s, t) ==
  /\ t \in Servers /\ t.at = s.at /\ t.shut = s.shut
  /\ t.from \in {s.from, s.from \ {"s"}, s.from \ {"f"}}
LEMMA LoopTurns ==
  ASSUME srv \in Servers, FromSec \/ FromNet \/ ToChild
  PROVE  Turned(srv, srv')
<1>1. \/ UNCHANGED srv
      \/ srv' = [srv EXCEPT !.from = srv.from \ {"s"}]
      \/ srv' = [srv EXCEPT !.writing = TRUE]
      \/ srv' = [srv EXCEPT !.writing = FALSE]
      \/ srv' = NoInput(srv)
      \/ srv' = [NoInput(srv) EXCEPT !.writing = FALSE]
  <2>1. CASE FromSec
    BY <2>1, Zenon DEF FromSec
  <2>2. CASE FromNet
    BY <2>2, Zenon DEF FromNet
  <2>3. CASE ToChild
    BY <2>3, Zenon DEF ToChild
  <2> QED BY <2>1, <2>2, <2>3
<1>2. srv.from \in SUBSET {"f", "s", "pv", "pw"} /\ srv.from \ {"s"} \in SUBSET {"f", "s", "pv", "pw"}
  BY DEF Servers
<1>3. CASE UNCHANGED srv
  BY <1>3, Zenon DEF Turned
<1>4. CASE srv' = [srv EXCEPT !.from = srv.from \ {"s"}]
  BY <1>2, <1>4, ServerKeeps, Zenon DEF Turned
<1>5. CASE srv' = [srv EXCEPT !.writing = TRUE]
  BY <1>2, <1>5, ServerKeeps, Zenon DEF Turned
<1>6. CASE srv' = [srv EXCEPT !.writing = FALSE]
  BY <1>2, <1>6, ServerKeeps, Zenon DEF Turned
<1>7. CASE srv' = NoInput(srv)
  BY <1>7, ServerCloses, Zenon DEF Turned
<1>8. CASE srv' = [NoInput(srv) EXCEPT !.writing = FALSE]
  <2>1. /\ NoInput(srv) \in Servers /\ NoInput(srv).at = srv.at
        /\ NoInput(srv).shut = srv.shut /\ NoInput(srv).from = srv.from \ {"f"}
    BY ServerCloses
  <2>2. FALSE \in BOOLEAN
    OBVIOUS
  <2> QED BY <1>2, <1>8, <2>1, <2>2, ServerKeeps, Zenon DEF Turned
<1> QED BY <1>1, <1>3, <1>4, <1>5, <1>6, <1>7, <1>8

(* The server gives up a pipe and ends the connection behind it.            *)
LEMMA ServerGivesUp ==
  ASSUME NEW s \in Servers
  PROVE  /\ [s EXCEPT !.from = @ \ {"pv"}, !.shut.s = TRUE] \in Servers
         /\ [s EXCEPT !.from = @ \ {"pw"}, !.shut.f = TRUE] \in Servers
<1>1. s.shut \in [f : BOOLEAN, s : BOOLEAN] /\ s.from \in SUBSET {"f", "s", "pv", "pw"}
  BY DEF Servers
<1>2. /\ s.from \ {"pv"} \in SUBSET {"f", "s", "pv", "pw"}
      /\ s.from \ {"pw"} \in SUBSET {"f", "s", "pv", "pw"}
  BY <1>1
<1>3. /\ [s.shut EXCEPT !.s = TRUE] \in [f : BOOLEAN, s : BOOLEAN]
      /\ [s.shut EXCEPT !.f = TRUE] \in [f : BOOLEAN, s : BOOLEAN]
  BY <1>1
<1>4. \A d \in SUBSET {"f", "s", "pv", "pw"}, h \in [f : BOOLEAN, s : BOOLEAN] :
        [s EXCEPT !.from = d, !.shut = h] \in Servers
  BY DEF Servers
<1>5. /\ [s EXCEPT !.from = @ \ {"pv"}, !.shut.s = TRUE]
           = [s EXCEPT !.from = s.from \ {"pv"}, !.shut = [s.shut EXCEPT !.s = TRUE]]
      /\ [s EXCEPT !.from = @ \ {"pw"}, !.shut.f = TRUE]
           = [s EXCEPT !.from = s.from \ {"pw"}, !.shut = [s.shut EXCEPT !.f = TRUE]]
  BY DEF Servers
<1> QED BY <1>2, <1>3, <1>4, <1>5

(* The same for the second connection.                                      *)
LEMMA SecondCounts ==
  ASSUME NEW s \in Seconds, NEW n \in Nat
  PROVE  /\ [s EXCEPT !.data = n] \in Seconds /\ [s EXCEPT !.out = n] \in Seconds
         /\ [s EXCEPT !.err = n] \in Seconds /\ [s EXCEPT !.sig = n] \in Seconds
         /\ s.data \in Nat /\ s.out \in Nat /\ s.err \in Nat /\ s.sig \in Nat
BY DEF Seconds
(* The same for what the client has shown.                                  *)
LEMMA ClientCounts ==
  ASSUME NEW c \in Clients, NEW n \in Nat
  PROVE  /\ [c EXCEPT !.shown.out = n] \in Clients /\ [c EXCEPT !.shown.err = n] \in Clients
         /\ c.shown.out \in Nat /\ c.shown.err \in Nat
BY DEF Clients
(* The client goes on to another place, and joins the session.              *)
LEMMA ClientMoves ==
  ASSUME NEW c \in Clients, NEW a \in ClientPlaces
  PROVE  [c EXCEPT !.at = a] \in Clients
BY DEF Clients
LEMMA ClientJoins ==
  ASSUME NEW c \in Clients, NEW k \in Keys, NEW x \in BOOLEAN, NEW open \in SUBSET {"rem", "rfd2"},
         NEW writer \in {"none", "run", "done"}
  PROVE  [c EXCEPT !.at = "up", !.key = k, !.x = x, !.open = open, !.writer = writer] \in Clients
BY DEF Clients, ClientPlaces
(* The same for the bounds.                                                 *)
LEMMA BoundCounts ==
  ASSUME NEW b \in Bounds, NEW n \in Nat
  PROVE  /\ [b EXCEPT !.input = n] \in Bounds /\ [b EXCEPT !.signals = n] \in Bounds
         /\ [b EXCEPT !.deaths = n] \in Bounds
         /\ b.input \in Nat /\ b.signals \in Nat /\ b.deaths \in Nat
BY DEF Bounds
(* The next number, and the one before a positive one, are numbers.         *)
LEMMA NatStep == \A n \in Nat : n + 1 \in Nat /\ (n > 0 => n - 1 \in Nat)
OBVIOUS

(* The keys are named.                                                      *)
LEMMA KeyType ==
  ClientKey \in {"session", "subkey"} /\ ServerKey \in {"session", "subkey"}
BY DEF ClientKey, ServerKey
----------------------------------------------------------------------------
(* The variables keep their types.                                          *)
LEMMA TypeInit == Init => TypeOK
<1> SUFFICES ASSUME Init PROVE TypeOK
  OBVIOUS
<1>1. req \in Requests /\ cli \in Clients
  BY DEF Init, Clients, ClientPlaces, Protocols, Keys
<1>2. srv \in Servers
  BY DEF Init, Servers, ServerPlaces, Protocols, Keys
<1>3. up \in Seq(Messages) /\ down \in Seq(Answers)
  BY DEF Init
<1>4. sec \in Seconds /\ left \in Bounds
  BY BoundsAssumption DEF Init, Seconds, Bounds
<1>5. child \in Children
  BY DEF Init, Children
<1> QED BY <1>1, <1>2, <1>3, <1>4, <1>5 DEF TypeOK

(* The steps of the client within kcmd().                                   *)
LEMMA TypeKcmd ==
  ASSUME TypeOK,
         KcmdConnect \/ SetupSecondary \/ Sendauth \/ Forwarded \/ KcmdReply
  PROVE  TypeOK'
<1>0. /\ req \in Requests /\ cli \in Clients /\ srv \in Servers
      /\ up \in Seq(Messages) /\ down \in Seq(Answers)
      /\ sec \in Seconds /\ child \in Children /\ left \in Bounds
  BY DEF TypeOK
<1>1. /\ HasStderr \in BOOLEAN /\ req.x \in BOOLEAN /\ Protocol \in {"old", "new"}
      /\ Fallback \in {"exit", "normal"} /\ ClientKey \in {"session", "subkey"}
  BY <1>0, RequestType, FallbackType, KeyType
<1>2. Port \in Messages /\ Auth \in Messages /\ Strings \in Messages /\ Creds \in Messages
  BY DEF Messages
<1>3. UNCHANGED <<req, srv, child, left>>
  BY DEF KcmdConnect, SetupSecondary, Sendauth, Forwarded, KcmdReply
<1>4. Messages' = Messages
  BY <1>3, MessagesFixed
<1>5. CASE KcmdConnect
  <2>1. cli' \in Clients
    BY <1>0, <1>1, <1>5 DEF KcmdConnect, Fail, Clients, ClientPlaces, Protocols, Keys
  <2>2. up' = up \/ up' = <<Port>>
    BY <1>5 DEF KcmdConnect, Port
  <2>4. up' \in Seq(Messages) /\ UNCHANGED down
    BY <1>0, <1>2, <1>5, <2>2, Put DEF KcmdConnect
  <2>3. sec' \in Seconds
    BY <1>0, <1>1, <1>5 DEF KcmdConnect, Seconds
  <2> QED BY <1>0, <1>3, <1>4, <2>1, <2>3, <2>4 DEF TypeOK
<1>6. CASE SetupSecondary
  <2>1. cli' \in Clients /\ UNCHANGED <<up, down, sec>>
    BY <1>0, <1>1, <1>6 DEF SetupSecondary, Fail, Clients, ClientPlaces, Protocols, Keys
  <2> QED BY <1>0, <1>3, <1>4, <2>1 DEF TypeOK
<1>7. CASE Sendauth
  <2>1. cli' \in Clients /\ UNCHANGED <<down, sec>>
    BY <1>0, <1>1, <1>7 DEF Sendauth, Fail, Clients, ClientPlaces, Protocols, Keys
  <2>2. up' = up \/ up' = Append(up, Auth)
    BY <1>7 DEF Sendauth, Auth
  <2>3. up' \in Seq(Messages)
    BY <1>0, <1>2, <2>2
  <2> QED BY <1>0, <1>3, <1>4, <2>1, <2>3 DEF TypeOK
<1>8. CASE Forwarded
  <2>1. cli' \in Clients /\ UNCHANGED sec
    BY <1>0, <1>1, <1>8 DEF Forwarded, Fail, Clients, ClientPlaces, Protocols, Keys
  <2>2. up' = up \/ up' = Append(up, Strings) \/ up' = up \o <<Strings, Creds>>
    BY <1>8 DEF Forwarded, Creds
  <2>4. up' \in Seq(Messages)
    BY <1>0, <1>2, <2>2, Put
  <2>3. down' = down \/ (down # <<>> /\ down' = Tail(down))
    BY <1>8 DEF Forwarded
  <2>5. down' \in Seq(Answers)
    BY <1>0, <2>3
  <2> QED BY <1>0, <1>3, <1>4, <2>1, <2>4, <2>5 DEF TypeOK
<1>9. CASE KcmdReply
  <2>1. cli' \in Clients /\ UNCHANGED <<up, sec>>
    <3> DEFINE open == IF HasStderr THEN {"rem", "rfd2"} ELSE {}
               writer == IF HasStderr THEN "run" ELSE "done"
    <3>1. \/ cli' = [cli EXCEPT !.at = Fallback]
          \/ cli' = [cli EXCEPT !.at = "up", !.key = ClientKey, !.x = req.x,
                               !.open = open, !.writer = writer]
      BY <1>9, Zenon DEF KcmdReply, Fail
    <3>2. /\ Fallback \in ClientPlaces /\ "up" \in ClientPlaces /\ ClientKey \in Keys
          /\ req.x \in BOOLEAN
          /\ open \in SUBSET {"rem", "rfd2"} /\ writer \in {"none", "run", "done"}
      BY <1>1 DEF ClientPlaces, Keys
    <3> HIDE DEF open, writer, Fallback, ClientKey
    <3>3. UNCHANGED <<up, sec>>
      BY <1>9, Zenon DEF KcmdReply
    <3>4. CASE cli' = [cli EXCEPT !.at = Fallback]
      BY <1>0, <3>2, <3>3, <3>4, ClientMoves
    <3>5. CASE cli' = [cli EXCEPT !.at = "up", !.key = ClientKey, !.x = req.x,
                                  !.open = open, !.writer = writer]
      BY <1>0, <3>2, <3>3, <3>5, ClientJoins
    <3> QED BY <3>1, <3>4, <3>5
  <2>2. down' \in Seq(Answers)
    BY <1>0, <1>9 DEF KcmdReply
  <2> QED BY <1>0, <1>3, <1>4, <2>1, <2>2 DEF TypeOK
<1> QED BY <1>5, <1>6, <1>7, <1>8, <1>9

(* The steps of the client once it is joined to the command, and its death. *)
LEMMA TypeClient ==
  ASSUME TypeOK, CliRead \/ CliEnd \/ CliWrite \/ Dies \/ Sendsig
  PROVE  TypeOK'
<1>0. /\ req \in Requests /\ cli \in Clients /\ srv \in Servers
      /\ up \in Seq(Messages) /\ down \in Seq(Answers)
      /\ sec \in Seconds /\ child \in Children /\ left \in Bounds
  BY DEF TypeOK
<1>1. UNCHANGED <<req, srv, up, down, child>>
  BY DEF CliRead, CliEnd, CliWrite, Dies, Sendsig
<1>2. Messages' = Messages
  BY <1>1, MessagesFixed
<1>c. /\ sec.data \in Nat /\ sec.out \in Nat /\ sec.err \in Nat /\ sec.sig \in Nat
      /\ cli.shown.out \in Nat /\ cli.shown.err \in Nat
      /\ left.input \in Nat /\ left.signals \in Nat /\ left.deaths \in Nat
  BY <1>0, SecondCounts, ClientCounts, BoundCounts
<1>3. CASE CliRead
  <2>1. UNCHANGED left
    BY <1>3 DEF CliRead
  <2>2. cli' \in Clients
    <3>1. \/ cli' = [cli EXCEPT !.shown.out = cli.shown.out + 1]
          \/ cli' = [cli EXCEPT !.shown.err = cli.shown.err + 1]
          \/ cli' = [cli EXCEPT !.open = @ \ {"rem"}]
          \/ cli' = [cli EXCEPT !.open = @ \ {"rfd2"}]
      BY <1>3 DEF CliRead
    <3>2. cli.shown.out + 1 \in Nat /\ cli.shown.err + 1 \in Nat
      BY <1>c, NatStep
    <3>3. CASE cli' = [cli EXCEPT !.open = @ \ {"rem"}] \/ cli' = [cli EXCEPT !.open = @ \ {"rfd2"}]
      BY <1>0, <3>3 DEF Clients
    <3>4. \A n \in Nat : /\ [cli EXCEPT !.shown.out = n] \in Clients
                        /\ [cli EXCEPT !.shown.err = n] \in Clients
      BY <1>0, ClientCounts
    <3> QED BY <3>1, <3>2, <3>3, <3>4, Zenon
  <2>3. sec' \in Seconds
    <3>1. \/ UNCHANGED sec
          \/ sec.out > 0 /\ sec' = [sec EXCEPT !.out = sec.out - 1]
          \/ sec.err > 0 /\ sec' = [sec EXCEPT !.err = sec.err - 1]
      BY <1>3 DEF CliRead
    <3> QED BY <1>0, <1>c, <3>1, SecondCounts, NatStep
  <2> QED BY <1>0, <1>1, <1>2, <2>1, <2>2, <2>3 DEF TypeOK
<1>4. CASE CliEnd
  BY <1>0, <1>1, <1>2, <1>4 DEF CliEnd, TypeOK, Clients, ClientPlaces
<1>5. CASE CliWrite
  <2>1. cli' \in Clients
    BY <1>0, <1>5 DEF CliWrite, Clients
  <2>2. \/ UNCHANGED <<sec, left>>
        \/ /\ left.input > 0 /\ left' = [left EXCEPT !.input = left.input - 1]
           /\ sec' = [sec EXCEPT !.data = sec.data + 1]
    BY <1>5 DEF CliWrite
  <2>3. sec' \in Seconds /\ left' \in Bounds
    <3>1. sec.data + 1 \in Nat /\ (left.input > 0 => left.input - 1 \in Nat)
      BY <1>c, NatStep
    <3>2. [sec EXCEPT !.data = sec.data + 1] \in Seconds
      BY <1>0, <3>1, SecondCounts
    <3>3. left.input > 0 => [left EXCEPT !.input = left.input - 1] \in Bounds
      BY <1>0, <3>1, BoundCounts
    <3> QED BY <1>0, <2>2, <3>2, <3>3, Zenon
  <2> QED BY <1>0, <1>1, <1>2, <2>1, <2>3 DEF TypeOK
<1>6. CASE Dies
  <2>1. cli' \in Clients /\ UNCHANGED sec
    BY <1>0, <1>6 DEF Dies, Clients, ClientPlaces
  <2>2. left.deaths > 0 /\ left' = [left EXCEPT !.deaths = left.deaths - 1]
    BY <1>6 DEF Dies
  <2>3. left' \in Bounds
    BY <1>0, <1>c, <2>2, BoundCounts, NatStep
  <2> QED BY <1>0, <1>1, <1>2, <2>1, <2>3 DEF TypeOK
<1>7. CASE Sendsig
  <2>1. /\ left.signals > 0 /\ left' = [left EXCEPT !.signals = left.signals - 1]
        /\ sec' = [sec EXCEPT !.sig = sec.sig + 1] /\ UNCHANGED cli
    BY <1>7 DEF Sendsig
  <2>2. sec' \in Seconds /\ left' \in Bounds
    BY <1>0, <1>c, <2>1, SecondCounts, BoundCounts, NatStep
  <2> QED BY <1>0, <1>1, <1>2, <2>1, <2>2 DEF TypeOK
<1> QED BY <1>3, <1>4, <1>5, <1>6, <1>7

(* The steps of the server within the set up.                               *)
LEMMA TypeSetup ==
  ASSUME TypeOK, SrvEof \/ ReadPort \/ Recvauth \/ ReadStrings \/ Authorize
  PROVE  TypeOK'
<1>0. /\ req \in Requests /\ cli \in Clients /\ srv \in Servers
      /\ up \in Seq(Messages) /\ down \in Seq(Answers)
      /\ sec \in Seconds /\ child \in Children /\ left \in Bounds
  BY DEF TypeOK
<1>1. UNCHANGED <<req, cli, left>>
  BY DEF SrvEof, ReadPort, Recvauth, ReadStrings, Authorize
<1>2. Messages' = Messages
  BY <1>1, MessagesFixed
<1>3. /\ HasStderr \in BOOLEAN /\ req.x \in BOOLEAN /\ Protocol \in {"old", "new"}
      /\ ServerKey \in {"session", "subkey"}
  BY <1>0, RequestType, KeyType
<1>4. CASE SrvEof
  BY <1>0, <1>1, <1>2, <1>4 DEF SrvEof, Gone, TypeOK, Servers, ServerPlaces
<1>5. CASE ReadPort
  <2>1. srv' \in Servers /\ UNCHANGED <<down, child>>
    BY <1>0, <1>5 DEF ReadPort, Gone, Servers, ServerPlaces, Protocols, Keys
  <2>2. up' \in Seq(Messages)
    BY <1>0, <1>5, Taken DEF ReadPort
  <2>3. sec' \in Seconds
    BY <1>0, <1>5 DEF ReadPort, Seconds
  <2> QED BY <1>0, <1>1, <1>2, <2>1, <2>2, <2>3 DEF TypeOK
<1>6. CASE Recvauth
  <2>1. Take("auth") /\ UNCHANGED <<sec, child>>
    BY <1>6 DEF Recvauth
  <2>2. up' \in Seq(Messages) /\ Head(up) = Auth
    BY <1>0, <2>1, Taken
  <2>3. Head(up).proto = Protocol /\ Head(up).subkey \in BOOLEAN
    <3>1. Auth.proto = Protocol /\ Auth.subkey = (Protocol = "new")
      BY Zenon DEF Auth
    <3> QED BY <2>2, <3>1, Zenon
  <2>4. \/ srv' = [srv EXCEPT !.at = "strings", !.proto = Head(up).proto, !.sub = Head(up).subkey]
        \/ srv' = [srv EXCEPT !.at = "refused"]
    BY <1>6 DEF Recvauth
  <2>5. srv' \in Servers
    <3>1. Head(up).proto \in Protocols /\ Head(up).subkey \in BOOLEAN /\ "refused" \in ServerPlaces
      BY <1>3, <2>3 DEF Protocols, ServerPlaces
    <3>2. "none" \in Keys
      BY DEF Keys
    <3>3. CASE srv' = [srv EXCEPT !.at = "strings", !.proto = Head(up).proto, !.sub = Head(up).subkey]
      BY <1>0, <3>1, <3>2, <3>3, ServerLearns
    <3>4. CASE srv' = [srv EXCEPT !.at = "refused"]
      BY <1>0, <3>1, <3>4, ServerMoves
    <3> QED BY <2>4, <3>3, <3>4
  <2>6. \E a \in Answers : down' = Append(down, a)
    BY <1>6 DEF Recvauth, Answers
  <2>7. down' \in Seq(Answers)
    BY <1>0, <2>6
  <2> QED BY <1>0, <1>1, <1>2, <2>1, <2>2, <2>5, <2>7 DEF TypeOK
<1>7. CASE ReadStrings
  <2>1. Take("strings") /\ UNCHANGED <<sec, child>>
    BY <1>7 DEF ReadStrings
  <2>2. up' \in Seq(Messages) /\ Head(up) = Strings
    BY <1>0, <2>1, Taken
  <2>3. \/ srv' = [srv EXCEPT !.at = "gone"]
        \/ srv' = [srv EXCEPT !.at = "creds", !.x = req.x, !.key = ServerKey]
    <3>1. Head(up).x = req.x
      BY <2>2 DEF Strings
    <3> QED BY <1>7, <3>1 DEF ReadStrings, Error, Gone
  <2>4. srv' \in Servers
    <3>1. "none" \in Protocols /\ ServerKey \in Keys /\ "gone" \in ServerPlaces
      BY <1>3 DEF Protocols, Keys, ServerPlaces
    <3>2. CASE srv' = [srv EXCEPT !.at = "gone"]
      BY <1>0, <3>1, <3>2, ServerMoves
    <3>3. CASE srv' = [srv EXCEPT !.at = "creds", !.x = req.x, !.key = ServerKey]
      <4> HIDE DEF ServerKey
      <4> QED BY <1>0, <1>3, <3>1, <3>3, ServerLearns
    <3> QED BY <2>3, <3>2, <3>3
  <2>5. down' = down \/ down' = Append(down, "error")
    BY <1>7 DEF ReadStrings, Error
  <2>6. "error" \in Answers
    BY DEF Answers
  <2>7. down' \in Seq(Answers)
    BY <1>0, <2>5, <2>6
  <2> QED BY <1>0, <1>1, <1>2, <2>1, <2>2, <2>4, <2>7 DEF TypeOK
<1>8. CASE Authorize
  <2>1. Take("creds") /\ UNCHANGED sec
    BY <1>8 DEF Authorize
  <2>2. up' \in Seq(Messages)
    BY <1>0, <2>1, Taken
  <2>3. srv' \in Servers
    <3> DEFINE from == IF HasStderr THEN {"f", "s", "pv", "pw"} ELSE {}
    <3>1. \/ srv' = [srv EXCEPT !.at = "gone"]
          \/ srv' = [srv EXCEPT !.at = "up", !.from = from]
      BY <1>8, Zenon DEF Authorize, Error, Gone
    <3>2. "gone" \in ServerPlaces /\ "up" \in ServerPlaces /\ from \in SUBSET {"f", "s", "pv", "pw"}
      BY DEF ServerPlaces
    <3> HIDE DEF from
    <3>3. [srv EXCEPT !.at = "up", !.from = from] \in Servers
      BY <1>0, <3>2 DEF Servers
    <3> QED BY <1>0, <3>1, <3>2, <3>3, ServerMoves, Zenon
  <2>6. \E a \in Answers : down' = Append(down, a)
    BY <1>8 DEF Authorize, Error, Answers
  <2>4. down' \in Seq(Answers)
    BY <1>0, <2>6
  <2>5. child' \in Children
    BY <1>0, <1>3, <1>8 DEF Authorize, Children
  <2> QED BY <1>0, <1>1, <1>2, <2>1, <2>2, <2>3, <2>4, <2>5 DEF TypeOK
<1> QED BY <1>4, <1>5, <1>6, <1>7, <1>8

(* The select loop of the server.                                           *)
LEMMA TypeLoop ==
  ASSUME TypeOK, FromErr \/ FromOut \/ FromSec \/ FromNet \/ ToChild \/ SrvEnd
  PROVE  TypeOK'
<1>0. /\ req \in Requests /\ cli \in Clients /\ srv \in Servers
      /\ up \in Seq(Messages) /\ down \in Seq(Answers)
      /\ sec \in Seconds /\ child \in Children /\ left \in Bounds
  BY DEF TypeOK
<1>1. UNCHANGED <<req, cli, up, down, left>>
  BY DEF FromErr, FromOut, FromSec, FromNet, ToChild, SrvEnd
<1>2. Messages' = Messages
  BY <1>1, MessagesFixed
<1>c. /\ sec.data \in Nat /\ sec.out \in Nat /\ sec.err \in Nat /\ sec.sig \in Nat
      /\ child.px \in Nat /\ child.pw \in Nat /\ child.pv \in Nat
  BY <1>0, SecondCounts, ChildCounts
<1>3. CASE FromErr
  <2>1. srv' \in Servers
    <3>1. UNCHANGED srv \/ srv' = [srv EXCEPT !.from = @ \ {"pv"}, !.shut.s = TRUE]
      BY <1>3 DEF FromErr
    <3> QED BY <1>0, <3>1, ServerGivesUp
  <2>2. \/ UNCHANGED <<child, sec>>
        \/ /\ child.pv > 0 /\ child' = [child EXCEPT !.pv = child.pv - 1]
           /\ sec' = [sec EXCEPT !.err = sec.err + 1]
    BY <1>3 DEF FromErr
  <2>3. child' \in Children /\ sec' \in Seconds
    BY <1>0, <1>c, <2>2, SecondCounts, ChildCounts, NatStep
  <2> QED BY <1>0, <1>1, <1>2, <2>1, <2>3 DEF TypeOK
<1>4. CASE FromOut
  <2>1. srv' \in Servers
    <3>1. UNCHANGED srv \/ srv' = [srv EXCEPT !.from = @ \ {"pw"}, !.shut.f = TRUE]
      BY <1>4 DEF FromOut, Finished
    <3> QED BY <1>0, <3>1, ServerGivesUp
  <2>2. \/ UNCHANGED <<child, sec>>
        \/ /\ child.pw > 0 /\ child' = [child EXCEPT !.pw = child.pw - 1]
           /\ sec' = [sec EXCEPT !.out = sec.out + 1]
    BY <1>4 DEF FromOut
  <2>3. child' \in Children /\ sec' \in Seconds
    BY <1>0, <1>c, <2>2, SecondCounts, ChildCounts, NatStep
  <2> QED BY <1>0, <1>1, <1>2, <2>1, <2>3 DEF TypeOK
<1>5. CASE FromSec
  <2>1. srv' \in Servers
    BY <1>0, <1>5, LoopTurns, Zenon DEF Turned
  <2>2. \/ UNCHANGED <<child, sec>>
        \/ /\ sec.sig > 0 /\ sec' = [sec EXCEPT !.sig = sec.sig - 1]
           /\ child' = Killed(child)
    BY <1>5 DEF FromSec
  <2>3. Killed(child) \in Children
    BY <1>0 DEF Killed, Children
  <2>4. child' \in Children /\ sec' \in Seconds
    BY <1>0, <1>c, <2>2, <2>3, SecondCounts, NatStep
  <2> QED BY <1>0, <1>1, <1>2, <2>1, <2>4 DEF TypeOK
<1>6. CASE FromNet
  <2>1. srv' \in Servers /\ UNCHANGED child
    <3>1. srv' \in Servers
      BY <1>0, <1>6, LoopTurns, Zenon DEF Turned
    <3> QED BY <1>6, <3>1, Zenon DEF FromNet
  <2>2. \/ UNCHANGED sec
        \/ sec.data > 0 /\ sec' = [sec EXCEPT !.data = sec.data - 1]
    BY <1>6 DEF FromNet
  <2>3. sec' \in Seconds
    BY <1>0, <1>c, <2>2, SecondCounts, NatStep
  <2> QED BY <1>0, <1>1, <1>2, <2>1, <2>3 DEF TypeOK
<1>7. CASE ToChild
  <2>1. srv' \in Servers /\ UNCHANGED sec
    <3>1. srv' \in Servers
      BY <1>0, <1>7, LoopTurns, Zenon DEF Turned
    <3> QED BY <1>7, <3>1, Zenon DEF ToChild
  <2>2. UNCHANGED child \/ child' = [child EXCEPT !.px = child.px + 1]
    BY <1>7 DEF ToChild
  <2>3. child' \in Children
    BY <1>0, <1>c, <2>2, ChildCounts, NatStep
  <2> QED BY <1>0, <1>1, <1>2, <2>1, <2>3 DEF TypeOK
<1>8. CASE SrvEnd
  BY <1>0, <1>1, <1>2, <1>8 DEF SrvEnd, Gone, Servers, ServerPlaces, TypeOK
<1> QED BY <1>3, <1>4, <1>5, <1>6, <1>7, <1>8

(* The command.                                                             *)
LEMMA TypeChild ==
  ASSUME TypeOK, Setsid \/ ChildReads \/ ChildWrites \/ ChildExits
  PROVE  TypeOK'
<1>0. /\ req \in Requests /\ cli \in Clients /\ srv \in Servers
      /\ up \in Seq(Messages) /\ down \in Seq(Answers)
      /\ sec \in Seconds /\ child \in Children /\ left \in Bounds
  BY DEF TypeOK
<1>1. UNCHANGED <<req, cli, srv, up, down, sec, left>>
  BY DEF Setsid, ChildReads, ChildWrites, ChildExits
<1>2. Messages' = Messages
  BY <1>1, MessagesFixed
<1>3. child.cmd.gain \in Nat
  BY <1>0, CommandsAssumption DEF Children
<1>4. child' \in Children
  <2>1. CASE Setsid
    BY <1>0, <2>1 DEF Setsid, Children
  <2>2. CASE ChildReads
    <3>1. \/ child.px > 0 /\ child' = [child EXCEPT !.px = child.px - 1, !.owes = child.cmd.gain]
          \/ child' = [child EXCEPT !.at = "ended"]
      BY <2>2 DEF ChildReads
    <3>2. [child EXCEPT !.at = "ended"] \in Children
      BY <1>0 DEF Children
    <3>3. CASE child.px > 0 /\ child' = [child EXCEPT !.px = child.px - 1, !.owes = child.cmd.gain]
      <4>1. child.px - 1 \in Nat
        BY <1>0, <3>3, ChildCounts, NatStep
      <4> QED BY <1>0, <1>3, <3>3, <4>1, ChildWork
    <3> QED BY <3>1, <3>2, <3>3
  <2>3. CASE ChildWrites
    <3>1. /\ child.owes > 0
          /\ \/ child' = [child EXCEPT !.pw = child.pw + 1, !.owes = child.owes - 1,
                                       !.wrote.out = child.wrote.out + 1]
             \/ child' = [child EXCEPT !.pv = child.pv + 1, !.owes = child.owes - 1,
                                       !.wrote.err = child.wrote.err + 1]
      BY <2>3 DEF ChildWrites
    <3>2. /\ child.pw + 1 \in Nat /\ child.pv + 1 \in Nat /\ child.owes - 1 \in Nat
          /\ child.wrote.out + 1 \in Nat /\ child.wrote.err + 1 \in Nat
      BY <1>0, <3>1, ChildCounts, NatStep
    <3>3. CASE child' = [child EXCEPT !.pw = child.pw + 1, !.owes = child.owes - 1,
                                      !.wrote.out = child.wrote.out + 1]
      BY <1>0, <3>2, <3>3, ChildWork
    <3>4. CASE child' = [child EXCEPT !.pv = child.pv + 1, !.owes = child.owes - 1,
                                      !.wrote.err = child.wrote.err + 1]
      BY <1>0, <3>2, <3>4, ChildWork
    <3> QED BY <3>1, <3>3, <3>4
  <2>4. CASE ChildExits
    BY <1>0, <2>4 DEF ChildExits, Children
  <2> QED BY <2>1, <2>2, <2>3, <2>4
<1> QED BY <1>0, <1>1, <1>2, <1>4 DEF TypeOK

(* The steps of Next that belong to the set up, and those of a session.     *)
LEMMA NextSteps ==
  ASSUME Next
  PROVE  \/ KcmdConnect \/ SetupSecondary \/ Sendauth \/ Forwarded \/ KcmdReply
         \/ CliRead \/ CliEnd \/ CliWrite \/ Dies \/ Sendsig
         \/ SrvEof \/ ReadPort \/ Recvauth \/ ReadStrings \/ Authorize
         \/ FromErr \/ FromOut \/ FromSec \/ FromNet \/ ToChild \/ SrvEnd
         \/ Setsid \/ ChildReads \/ ChildWrites \/ ChildExits
BY DEF Next, ClientStep, ServerStep, ChildStep

(* The variables keep their types in every step.                            *)
LEMMA TypeStep == TypeOK /\ [Next]_vars => TypeOK'
<1> SUFFICES ASSUME TypeOK, [Next]_vars PROVE TypeOK'
  OBVIOUS
<1>1. CASE Next
  BY <1>1, NextSteps, TypeKcmd, TypeClient, TypeSetup, TypeLoop, TypeChild
<1>2. CASE UNCHANGED vars
  <2>1. UNCHANGED <<req, cli, srv, up, down, sec, child, left>>
    BY <1>2 DEF vars
  <2> QED BY <2>1, MessagesFixed DEF TypeOK
<1> QED BY <1>1, <1>2

(* In every reachable state the two programs, both connections, the command *)
(* and what is left have the types of the code's variables, and the first   *)
(* connection carries the messages of this request and no other.            *)
THEOREM TypeCorrect == Spec => []TypeOK
BY TypeInit, TypeStep, PTL DEF Spec
----------------------------------------------------------------------------
(* What each side has settled by the time it is where it is.                *)
ClientMeans ==
  /\ cli.at = "start" => up = <<>> /\ srv.at = "port"
  /\ cli.at \in {"auth", "reply", "up"} => cli.proto = Protocol
  /\ cli.at = "up" => cli.x = req.x /\ cli.key = ClientKey
ServerMeans ==
  /\ srv.at \in {"strings", "creds", "up"} => srv.proto = Protocol /\ srv.sub = (Protocol = "new")
  /\ srv.at \in {"creds", "up"} => srv.x = req.x /\ srv.key = ServerKey
Second ==
  /\ HasStderr /\ srv.at \in {"auth", "refused", "strings", "creds", "up"} => sec.at = "open"
  /\ ~HasStderr => sec.at = "none"
Meaning == ClientMeans /\ ServerMeans /\ Second

(* The keys differ for rcp to a remote host with -PN and a DES ticket only. *)
LEMMA SameKey ==
  ASSUME req \in Requests, cli.proto = Protocol, srv.sub = (Protocol = "new")
  PROVE  ClientKey = ServerKey \/ RcpKey
<1>1. /\ req.client \in {"rsh", "rlogin", "rcp_to", "rcp_from"}
      /\ req.des \in BOOLEAN /\ req.proto \in {"old", "new", "compat"}
  BY RequestType
<1>2. ServerKey = IF Protocol = "new" THEN "subkey" ELSE "session"
  BY DEF ServerKey
<1>3. Protocol = "new" /\ req.des => req.proto = "new"
  BY <1>1 DEF Protocol
<1> QED BY <1>1, <1>2, <1>3 DEF ClientKey, RcpKey

(* The initial state has settled nothing.                                   *)
LEMMA MeaningInit == Init => Meaning
BY DEF Init, Meaning, ClientMeans, ServerMeans, Second

(* A step that moves neither side of the set up, nor its messages.          *)
LEMMA MeaningApart ==
  ASSUME Meaning, UNCHANGED <<req, up, sec.at>>,
         UNCHANGED <<cli.at, cli.proto, cli.x, cli.key>>,
         UNCHANGED <<srv.at, srv.proto, srv.sub, srv.x, srv.key>>
  PROVE  Meaning'
<1>1. Protocol' = Protocol /\ HasStderr' = HasStderr /\ ClientKey' = ClientKey /\ ServerKey' = ServerKey
  BY DEF Protocol, HasStderr, ClientKey, ServerKey
<1> QED BY <1>1 DEF Meaning, ClientMeans, ServerMeans, Second

(* The client takes the request's protocol, then its encryption and key.    *)
LEMMA MeaningClient ==
  ASSUME TypeOK, Meaning,
         KcmdConnect \/ SetupSecondary \/ Sendauth \/ Forwarded \/ KcmdReply
  PROVE  Meaning'
<1>0. /\ req \in Requests /\ cli \in Clients /\ sec \in Seconds
  BY DEF TypeOK
<1>1. /\ Protocol' = Protocol /\ HasStderr' = HasStderr /\ ServerKey' = ServerKey
      /\ UNCHANGED <<req, srv>>
  BY DEF Protocol, HasStderr, ServerKey,
         KcmdConnect, SetupSecondary, Sendauth, Forwarded, KcmdReply
<1>2. Fail => cli'.at \in {"exit", "normal"}
  BY <1>0, FallbackType DEF Fail, Clients
<1>3. ServerMeans'
  BY <1>1 DEF Meaning, ServerMeans
<1>4. ClientMeans'
  <2>1. CASE Fail
    BY <1>2, <2>1 DEF ClientMeans
  <2>2. CASE KcmdConnect /\ ~Fail
    <3>1. cli'.at \in {"secondary", "tickets"}
      BY <1>0, <2>2 DEF KcmdConnect, Clients
    <3> QED BY <3>1 DEF ClientMeans
  <2>3. CASE SetupSecondary /\ ~Fail
    <3>1. cli'.at = "tickets"
      BY <1>0, <2>3 DEF SetupSecondary, Clients
    <3> QED BY <3>1 DEF ClientMeans
  <2>4. CASE Sendauth /\ ~Fail
    <3>1. cli'.at = "auth" /\ cli'.proto = Protocol
      BY <1>0, <2>4 DEF Sendauth, Clients
    <3> QED BY <1>1, <3>1 DEF ClientMeans
  <2>5. CASE Forwarded /\ ~Fail
    <3>1. cli.at = "auth" /\ cli'.at = "reply" /\ cli'.proto = cli.proto
      BY <1>0, <2>5 DEF Forwarded, Clients
    <3> QED BY <1>1, <3>1 DEF Meaning, ClientMeans
  <2>6. CASE KcmdReply /\ ~Fail
    <3>1. /\ cli.at = "reply" /\ cli'.at = "up" /\ cli'.proto = cli.proto
          /\ cli'.x = req.x /\ cli'.key = ClientKey
      BY <1>0, <2>6 DEF KcmdReply, Clients
    <3>2. ClientKey' = ClientKey
      BY <1>1, <3>1 DEF ClientKey
    <3> QED BY <1>1, <3>1, <3>2 DEF Meaning, ClientMeans
  <2> QED BY <2>1, <2>2, <2>3, <2>4, <2>5, <2>6
<1>5. Second'
  <2>1. CASE UNCHANGED sec
    BY <1>1, <2>1 DEF Meaning, Second
  <2>2. CASE KcmdConnect
    <3>1. srv.at = "port"
      BY <2>2 DEF KcmdConnect, Meaning, ClientMeans
    <3>2. ~HasStderr => sec'.at = "none"
      BY <1>0, <2>2 DEF KcmdConnect, Seconds, Meaning, Second
    <3> QED BY <1>1, <3>1, <3>2 DEF Second
  <2> QED BY <2>1, <2>2 DEF SetupSecondary, Sendauth, Forwarded, KcmdReply
<1> QED BY <1>3, <1>4, <1>5 DEF Meaning

(* The server takes protocol and subkey from the authenticator, encryption  *)
(* from the strings, and connects back as the port says.                    *)
LEMMA MeaningServer ==
  ASSUME TypeOK, Meaning, SrvEof \/ ReadPort \/ Recvauth \/ ReadStrings \/ Authorize \/ SrvEnd
  PROVE  Meaning'
<1>0. /\ req \in Requests /\ srv \in Servers /\ sec \in Seconds /\ up \in Seq(Messages)
  BY DEF TypeOK
<1>1. /\ Protocol' = Protocol /\ HasStderr' = HasStderr /\ ClientKey' = ClientKey
      /\ UNCHANGED <<req, cli>>
  BY DEF Protocol, HasStderr, ClientKey,
         SrvEof, ReadPort, Recvauth, ReadStrings, Authorize, SrvEnd
<1>2. ClientMeans'
  <2>1. cli.at # "start"
    BY DEF SrvEof, ReadPort, Recvauth, ReadStrings, Authorize, SrvEnd, Loop, Take, Closed,
           Meaning, ClientMeans
  <2> QED BY <1>1, <2>1 DEF Meaning, ClientMeans
<1>3. Gone => srv'.at = "gone"
  BY <1>0 DEF Gone, Servers
<1>4. CASE Gone
  <2>1. sec' = sec
    BY <1>0, <1>3, <1>4 DEF SrvEof, ReadPort, Recvauth, ReadStrings, Authorize, SrvEnd, Servers
  <2> QED BY <1>1, <1>2, <1>3, <1>4, <2>1 DEF Meaning, ServerMeans, Second
<1>5. CASE ReadPort /\ ~Gone
  <2>1. Take("port") /\ srv' = [srv EXCEPT !.at = "auth"]
    BY <1>5 DEF ReadPort
  <2>2. sec' = IF Head(up).port THEN [sec EXCEPT !.at = "open"] ELSE sec
    BY <1>5 DEF ReadPort
  <2>3. Head(up).port = HasStderr
    <3>1. Port.port = HasStderr
      BY Zenon DEF Port
    <3> QED BY <1>0, <2>1, <3>1, Taken, Zenon
  <2>4. srv'.at = "auth"
    BY <1>0, <2>1 DEF Servers
  <2>5. HasStderr => sec'.at = "open"
    BY <1>0, <2>2, <2>3 DEF Seconds
  <2>6. ~HasStderr => sec'.at = "none"
    BY <2>2, <2>3 DEF Meaning, Second
  <2> QED BY <1>1, <1>2, <2>4, <2>5, <2>6 DEF Meaning, ServerMeans, Second
<1>6. CASE Recvauth /\ ~Gone
  <2>1. Take("auth") /\ UNCHANGED sec /\ srv.at = "auth"
    BY <1>6 DEF Recvauth
  <2>2. Head(up).proto = Protocol /\ Head(up).subkey = (Protocol = "new")
    <3>1. Auth.proto = Protocol /\ Auth.subkey = (Protocol = "new")
      BY Zenon DEF Auth
    <3> QED BY <1>0, <2>1, <3>1, Taken, Zenon
  <2>3. \/ srv'.at = "refused"
        \/ srv'.at = "strings" /\ srv'.proto = Head(up).proto /\ srv'.sub = Head(up).subkey
    BY <1>0, <1>6 DEF Recvauth, Servers
  <2> QED BY <1>1, <1>2, <2>1, <2>2, <2>3 DEF Meaning, ServerMeans, Second
<1>7. CASE ReadStrings /\ ~Gone
  <2>1. Take("strings") /\ UNCHANGED sec /\ srv.at = "strings"
    BY <1>7 DEF ReadStrings, Error
  <2>2. srv' = [srv EXCEPT !.at = "creds", !.x = Head(up).x, !.key = ServerKey]
    BY <1>7 DEF ReadStrings, Error
  <2>3. Head(up).x = req.x
    BY <1>0, <2>1, Taken DEF Strings
  <2>4. /\ srv'.at = "creds" /\ srv'.x = req.x /\ srv'.key = ServerKey
        /\ srv'.proto = srv.proto /\ srv'.sub = srv.sub
    BY <1>0, <2>2, <2>3 DEF Servers
  <2>5. ServerKey' = ServerKey
    BY <2>4 DEF ServerKey
  <2> QED BY <1>1, <1>2, <2>1, <2>4, <2>5 DEF Meaning, ServerMeans, Second
<1>8. CASE Authorize /\ ~Gone
  <2>1. UNCHANGED sec /\ srv.at = "creds"
    BY <1>8 DEF Authorize
  <2>2. /\ srv'.at = "up" /\ srv'.x = srv.x /\ srv'.key = srv.key
        /\ srv'.proto = srv.proto /\ srv'.sub = srv.sub
    BY <1>0, <1>8 DEF Authorize, Error, Servers
  <2>3. ServerKey' = ServerKey
    BY <2>2 DEF ServerKey
  <2> QED BY <1>1, <1>2, <2>1, <2>2, <2>3 DEF Meaning, ServerMeans, Second
<1> QED BY <1>4, <1>5, <1>6, <1>7, <1>8 DEF SrvEof, SrvEnd

(* The rest of a session leaves the meaning alone; a death ends it.         *)
LEMMA MeaningSession ==
  ASSUME TypeOK, Meaning,
         \/ CliRead \/ CliEnd \/ CliWrite \/ Dies \/ Sendsig
         \/ FromErr \/ FromOut \/ FromSec \/ FromNet \/ ToChild
         \/ Setsid \/ ChildReads \/ ChildWrites \/ ChildExits
  PROVE  Meaning'
<1>0. cli \in Clients /\ srv \in Servers /\ sec \in Seconds
  BY DEF TypeOK
<1>1. UNCHANGED <<req, up>>
  BY DEF CliRead, CliEnd, CliWrite, Dies, Sendsig, FromErr, FromOut, FromSec, FromNet, ToChild,
         Setsid, ChildReads, ChildWrites, ChildExits
<1>2. sec'.at = sec.at
  BY <1>0 DEF CliRead, CliEnd, CliWrite, Dies, Sendsig, FromErr, FromOut, FromSec, FromNet,
              ToChild, Setsid, ChildReads, ChildWrites, ChildExits, Seconds
<1>3. UNCHANGED <<srv.at, srv.proto, srv.sub, srv.x, srv.key>>
  BY <1>0 DEF CliRead, CliEnd, CliWrite, Dies, Sendsig, FromErr, FromOut, FromSec, FromNet,
              ToChild, Setsid, ChildReads, ChildWrites, ChildExits, Servers, Finished, NoInput
<1>4. CASE CliEnd \/ Dies
  <2>1. cli'.at \in {"exit", "dead"} /\ srv' = srv
    BY <1>0, <1>4 DEF CliEnd, Dies, Clients
  <2>2. Protocol' = Protocol /\ HasStderr' = HasStderr /\ ServerKey' = ServerKey
    BY <1>1, <2>1 DEF Protocol, HasStderr, ServerKey
  <2> QED BY <1>1, <1>2, <2>1, <2>2 DEF Meaning, ClientMeans, ServerMeans, Second
<1>5. CASE ~(CliEnd \/ Dies)
  <2>1. UNCHANGED <<cli.at, cli.proto, cli.x, cli.key>>
    BY <1>0, <1>5 DEF CliRead, CliWrite, Sendsig, FromErr, FromOut, FromSec, FromNet,
              ToChild, Setsid, ChildReads, ChildWrites, ChildExits, Clients
  <2> QED BY <1>1, <1>2, <1>3, <2>1, MeaningApart
<1> QED BY <1>4, <1>5

(* Each step keeps what the two sides mean.                                 *)
LEMMA MeaningStep == TypeOK /\ Meaning /\ [Next]_vars => Meaning'
<1> SUFFICES ASSUME TypeOK, Meaning, [Next]_vars PROVE Meaning'
  OBVIOUS
<1>1. CASE Next
  BY <1>1, NextSteps, MeaningClient, MeaningServer, MeaningSession
<1>2. CASE UNCHANGED vars
  BY <1>2, MeaningApart DEF vars
<1> QED BY <1>1, <1>2

(* The two sides have settled the same session.                             *)
LEMMA MeaningAgrees == TypeOK /\ Meaning => Agree
<1> SUFFICES ASSUME TypeOK, Meaning, cli.at = "up", srv.at = "up"
             PROVE  /\ cli.proto = srv.proto /\ cli.x = srv.x
                    /\ cli.key = srv.key \/ RcpKey
                    /\ (sec.at = "open") = HasStderr
  BY DEF Agree
<1>0. req \in Requests /\ HasStderr \in BOOLEAN
  BY RequestType DEF TypeOK
<1>1. /\ cli.proto = Protocol /\ cli.x = req.x /\ cli.key = ClientKey
      /\ srv.proto = Protocol /\ srv.sub = (Protocol = "new") /\ srv.x = req.x /\ srv.key = ServerKey
  BY DEF Meaning, ClientMeans, ServerMeans
<1>2. (sec.at = "open") = HasStderr
  BY <1>0 DEF Meaning, Second
<1> QED BY <1>0, <1>1, <1>2, SameKey

(* When kcmd() and the server are through the set up, whatever the request, *)
(* whoever failed and in whatever order their steps came, they have the     *)
(* same protocol, encryption, key (but for the case RcpKey) and the second  *)
(* connection if and only if the client reads it.                           *)
THEOREM AgreeHolds == Spec => []Agree
<1>1. Spec => [](TypeOK /\ Meaning)
  BY TypeInit, TypeStep, MeaningInit, MeaningStep, PTL DEF Spec
<1> QED BY <1>1, MeaningAgrees, PTL
----------------------------------------------------------------------------
(* What the command has written is in its pipe, on the connection, or shown.*)
Balanced ==
  /\ child.wrote.out = child.pw + sec.out + cli.shown.out
  /\ child.wrote.err = child.pv + sec.err + cli.shown.err

(* No more comes out of a pipe: it is empty, and the command has ended or   *)
(* the server went before it had one.                                       *)
Over == child.at = "ended" \/ (child.at = "none" /\ srv.at = "gone")
OutDry == child.pw = 0 /\ Over
ErrDry == child.pv = 0 /\ Over

(* The server is through with a pipe only when it is dry.                   *)
Drained ==
  /\ child.at = "none" => child.pw = 0 /\ child.pv = 0
  /\ child.at # "none" => srv.at \in {"up", "gone"}
  /\ srv.shut.f \/ srv.at = "gone" => OutDry
  /\ srv.shut.s \/ srv.at = "gone" => ErrDry
  /\ srv.at = "up" /\ HasStderr /\ "pw" \notin srv.from => srv.shut.f
  /\ srv.at = "up" /\ HasStderr /\ "pv" \notin srv.from => srv.shut.s

(* The client is through with a connection only when it and the pipe behind *)
(* it are dry, and it ends by itself only when it is through with both.     *)
Hears == cli.at = "up" /\ HasStderr
Heard ==
  /\ cli.ended => cli.open = {} /\ cli.at = "exit"
  /\ (Hears \/ cli.ended) /\ "rem" \notin cli.open => sec.out = 0 /\ OutDry
  /\ (Hears \/ cli.ended) /\ "rfd2" \notin cli.open => sec.err = 0 /\ ErrDry

Whole == Balanced /\ Drained /\ Heard

(* Before the session nothing is written and nothing is shown.              *)
LEMMA WholeInit == Init => Whole
BY DEF Init, Whole, Balanced, Drained, Heard, Hears

(* The counts of the three places are numbers.                              *)
LEMMA Counts ==
  ASSUME TypeOK
  PROVE  /\ child.pw \in Nat /\ child.pv \in Nat /\ child.owes \in Nat
         /\ child.wrote.out \in Nat /\ child.wrote.err \in Nat
         /\ sec.out \in Nat /\ sec.err \in Nat
         /\ cli.shown.out \in Nat /\ cli.shown.err \in Nat
BY SecondCounts, ChildCounts, ClientCounts DEF TypeOK

(* A step that changes neither the counts, nor what the command and the     *)
(* server are about, nor what the client is through with.                   *)
LEMMA WholeApart ==
  ASSUME Whole,
         UNCHANGED <<child.pw, child.pv, child.wrote, sec.out, sec.err, cli.shown>>,
         UNCHANGED <<req, srv.shut>>,
         "pw" \in srv.from => "pw" \in srv'.from, "pv" \in srv.from => "pv" \in srv'.from,
         \/ UNCHANGED <<child.at, srv.at>>
         \/ /\ child.at # "none" /\ child'.at \in {"run", "ended"} /\ UNCHANGED srv.at
            /\ child.at # "ended" \/ child'.at = "ended"
         \/ child.at = "none" /\ UNCHANGED child.at /\ srv.at \notin {"up", "gone"} /\ srv'.at # "up",
         UNCHANGED <<cli.at, cli.open, cli.ended>>
         \/ (~cli'.ended /\ ~Hears')
  PROVE  Whole'
<1>1. Balanced'
  BY DEF Whole, Balanced
<1>2. HasStderr' = HasStderr
  BY DEF HasStderr
<1>3. (OutDry => OutDry') /\ (ErrDry => ErrDry')
  BY DEF Whole, Drained, OutDry, ErrDry, Over
<1>4. Drained'
  BY <1>2, <1>3 DEF Whole, Drained, OutDry, ErrDry, Over
<1>5. Heard'
  BY <1>2, <1>3 DEF Whole, Heard, Hears
<1> QED BY <1>1, <1>4, <1>5 DEF Whole

(* kcmd(), up to the byte 0 after which the client reads both connections.  *)
LEMMA WholeKcmd ==
  ASSUME TypeOK, Whole,
         KcmdConnect \/ SetupSecondary \/ Sendauth \/ Forwarded \/ KcmdReply \/ Dies
  PROVE  Whole'
<1>0. req \in Requests /\ cli \in Clients /\ sec \in Seconds
  BY DEF TypeOK
<1>1. UNCHANGED <<req, srv, child>>
  BY DEF KcmdConnect, SetupSecondary, Sendauth, Forwarded, KcmdReply, Dies
<1>2. UNCHANGED <<sec.out, sec.err, cli.shown>>
  BY <1>0 DEF KcmdConnect, SetupSecondary, Sendauth, Forwarded, KcmdReply, Dies, Fail,
              Clients, Seconds
<1>3. ~cli.ended /\ cli'.ended = cli.ended
  BY <1>0 DEF KcmdConnect, SetupSecondary, Sendauth, Forwarded, KcmdReply, Dies, Fail, Closed,
              Clients, Whole, Heard
<1>4. CASE Hears'
  <2>1. KcmdReply /\ cli'.at = "up"
    BY <1>0, <1>4, FallbackType DEF KcmdConnect, SetupSecondary, Sendauth, Forwarded, Dies, Fail,
              KcmdReply, Clients, Hears
  <2>2. HasStderr
    BY <1>1, <1>4 DEF Hears, HasStderr
  <2>3. cli'.open = {"rem", "rfd2"}
    BY <1>0, <2>1, <2>2, FallbackType DEF KcmdReply, Fail, Clients
  <2>4. Heard'
    BY <1>3, <2>3 DEF Heard
  <2>5. Balanced'
    BY <1>1, <1>2 DEF Whole, Balanced
  <2>6. Drained'
    BY <1>1 DEF Whole, Drained, OutDry, ErrDry, Over, HasStderr
  <2> QED BY <2>4, <2>5, <2>6 DEF Whole
<1>5. CASE ~Hears'
  BY <1>1, <1>2, <1>3, <1>5, WholeApart
<1> QED BY <1>4, <1>5

(* The client shows a unit, or is through with a connection that is dry.    *)
LEMMA WholeRead ==
  ASSUME TypeOK, Whole, CliRead
  PROVE  Whole'
<1>0. cli \in Clients /\ sec \in Seconds
  BY DEF TypeOK
<1>1. UNCHANGED <<req, srv, child>> /\ Joined
  BY DEF CliRead
<1>2. cli'.at = cli.at /\ cli'.ended = cli.ended
  BY <1>0 DEF CliRead, Clients
<1>3. HasStderr' = HasStderr
  BY <1>1 DEF HasStderr
<1>4. OutDry' = OutDry /\ ErrDry' = ErrDry
  BY <1>1 DEF OutDry, ErrDry, Over
<1>5. Drained'
  BY <1>1, <1>3, <1>4 DEF Whole, Drained
<1>6. Balanced'
  BY <1>0, <1>1, Counts DEF CliRead, Whole, Balanced, Clients, Seconds
<1>7. Hears /\ ~cli.ended
  BY <1>1 DEF Joined, Hears, Whole, Heard
<1>8. "rem" \notin cli'.open => sec'.out = 0 /\ OutDry
  <2>1. CASE "rem" \notin cli.open
    <3>1. sec.out = 0 /\ OutDry
      BY <1>7, <2>1 DEF Whole, Heard
    <3>2. sec'.out = sec.out
      BY <1>0, <2>1, <3>1 DEF CliRead, Seconds
    <3> QED BY <3>1, <3>2
  <2>2. CASE "rem" \in cli.open /\ "rem" \notin cli'.open
    <3>1. sec.out = 0 /\ (srv.shut.f \/ Closed(srv.at)) /\ UNCHANGED sec
      BY <1>0, <2>2 DEF CliRead, Clients
    <3>2. srv.shut.f \/ srv.at = "gone"
      BY <3>1 DEF Closed, TypeOK, Servers, ServerPlaces
    <3> QED BY <3>1, <3>2 DEF Whole, Drained
  <2> QED BY <2>1, <2>2
<1>9. "rfd2" \notin cli'.open => sec'.err = 0 /\ ErrDry
  <2>1. CASE "rfd2" \notin cli.open
    <3>1. sec.err = 0 /\ ErrDry
      BY <1>7, <2>1 DEF Whole, Heard
    <3>2. sec'.err = sec.err
      BY <1>0, <2>1, <3>1 DEF CliRead, Seconds
    <3> QED BY <3>1, <3>2
  <2>2. CASE "rfd2" \in cli.open /\ "rfd2" \notin cli'.open
    <3>1. sec.err = 0 /\ (srv.shut.s \/ Closed(srv.at)) /\ UNCHANGED sec
      BY <1>0, <2>2 DEF CliRead, Clients
    <3>2. srv.shut.s \/ srv.at = "gone"
      BY <3>1 DEF Closed, TypeOK, Servers, ServerPlaces
    <3> QED BY <3>1, <3>2 DEF Whole, Drained
  <2> QED BY <2>1, <2>2
<1>10. Heard'
  BY <1>2, <1>4, <1>7, <1>8, <1>9 DEF Heard
<1> QED BY <1>5, <1>6, <1>10 DEF Whole

(* The client ends when it is through with both.                            *)
LEMMA WholeEnd ==
  ASSUME TypeOK, Whole, CliEnd
  PROVE  Whole'
<1>0. cli \in Clients
  BY DEF TypeOK
<1>1. UNCHANGED <<req, srv, sec, child>> /\ Hears /\ cli.open = {}
  BY DEF CliEnd, Joined, Hears
<1>2. cli'.at = "exit" /\ cli'.open = {} /\ cli'.shown = cli.shown
  BY <1>0, <1>1 DEF CliEnd, Clients
<1>3. OutDry' = OutDry /\ ErrDry' = ErrDry /\ HasStderr' = HasStderr
  BY <1>1 DEF OutDry, ErrDry, Over, HasStderr
<1> QED BY <1>1, <1>2, <1>3 DEF Whole, Balanced, Drained, Heard

(* The client's input and the user's interrupts.                            *)
LEMMA WholeInput ==
  ASSUME TypeOK, Whole, CliWrite \/ Sendsig
  PROVE  Whole'
<1>0. cli \in Clients /\ sec \in Seconds
  BY DEF TypeOK
<1>1. /\ UNCHANGED <<req, srv, child, sec.out, sec.err>>
      /\ UNCHANGED <<cli.at, cli.open, cli.ended, cli.shown>>
  BY <1>0 DEF CliWrite, Sendsig, Clients, Seconds
<1> QED BY <1>1, WholeApart

(* The server's set up, before there is a command.                          *)
LEMMA WholeSetup ==
  ASSUME TypeOK, Whole, SrvEof \/ ReadPort \/ Recvauth \/ ReadStrings \/ Authorize
  PROVE  Whole'
<1>0. srv \in Servers /\ sec \in Seconds /\ child \in Children
  BY DEF TypeOK
<1>1. UNCHANGED <<req, cli>>
  BY DEF SrvEof, ReadPort, Recvauth, ReadStrings, Authorize
<1>2. UNCHANGED <<sec.out, sec.err>>
  BY <1>0 DEF SrvEof, ReadPort, Recvauth, ReadStrings, Authorize, Seconds
<1>3. srv.at \notin {"up", "gone"} /\ child.at = "none"
  BY <1>0 DEF SrvEof, ReadPort, Recvauth, ReadStrings, Authorize, Whole, Drained, Servers
<1>4. CASE Authorize /\ ~Error
  <2>1. /\ srv'.at = "up" /\ srv'.shut = srv.shut
        /\ srv'.from = IF HasStderr THEN {"f", "s", "pv", "pw"} ELSE {}
    BY <1>0, <1>4 DEF Authorize, Servers
  <2>2. UNCHANGED <<child.pw, child.pv, child.wrote>>
    BY <1>0, <1>4 DEF Authorize, Children
  <2>3. ~Over /\ ~srv.shut.f /\ ~srv.shut.s
    BY <1>3 DEF Over, Whole, Drained, OutDry, ErrDry
  <2>4. HasStderr' = HasStderr
    BY <1>1 DEF HasStderr
  <2>5. Balanced'
    BY <1>1, <1>2, <2>2 DEF Whole, Balanced
  <2>6. Drained'
    BY <1>3, <2>1, <2>2, <2>3, <2>4 DEF Whole, Drained
  <2>7. Heard'
    BY <1>1, <2>3, <2>4 DEF Whole, Heard, Hears, OutDry, ErrDry
  <2> QED BY <2>5, <2>6, <2>7 DEF Whole
<1>5. CASE ~(Authorize /\ ~Error)
  <2>1. UNCHANGED child /\ srv'.at # "up" /\ UNCHANGED <<srv.shut, srv.from>>
    BY <1>0, <1>5 DEF SrvEof, ReadPort, Recvauth, ReadStrings, Authorize, Gone, Error, Servers
  <2> QED BY <1>1, <1>2, <1>3, <2>1, WholeApart
<1> QED BY <1>4, <1>5

(* krshd moves a unit from a pipe to the connection behind it, or gives a   *)
(* dry pipe up.                                                             *)
LEMMA WholeErr ==
  ASSUME TypeOK, Whole, FromErr
  PROVE  Whole'
<1>0. /\ srv \in Servers /\ sec \in Seconds /\ child \in Children
      /\ child.pv \in Nat
  BY Counts DEF TypeOK
<1>1. UNCHANGED <<req, cli>> /\ srv.at = "up" /\ HasStderr
  BY DEF FromErr, Loop
<1>2. HasStderr' = HasStderr
  BY <1>1 DEF HasStderr
<1>3. CASE child.pv > 0 /\ UNCHANGED srv /\ child' = [child EXCEPT !.pv = @ - 1]
           /\ sec' = [sec EXCEPT !.err = @ + 1]
  <2>1. /\ child'.at = child.at /\ child'.pw = child.pw /\ child'.pv = child.pv - 1
        /\ child'.wrote = child.wrote /\ sec'.out = sec.out /\ sec'.err = sec.err + 1
    BY <1>0, <1>3 DEF Children, Seconds
  <2>2. ~ErrDry
    BY <1>0, <1>3 DEF ErrDry
  <2>3. OutDry' = OutDry
    BY <1>3, <2>1 DEF OutDry, Over
  <2>4. Balanced'
    BY <1>1, <2>1, Counts DEF Whole, Balanced
  <2>5. Drained'
    BY <1>2, <1>3, <2>1, <2>2, <2>3 DEF Whole, Drained
  <2>6. Heard'
    BY <1>1, <1>2, <2>1, <2>2, <2>3 DEF Whole, Heard, Hears
  <2> QED BY <2>4, <2>5, <2>6 DEF Whole
<1>4. CASE child.pv = 0 /\ Eop /\ UNCHANGED <<child, sec>>
           /\ srv' = [srv EXCEPT !.from = @ \ {"pv"}, !.shut.s = TRUE]
  <2>1. /\ srv'.at = srv.at /\ srv'.shut.f = srv.shut.f /\ srv'.from = srv.from \ {"pv"}
        /\ srv'.shut.s
    BY <1>0, <1>4 DEF Servers
  <2>2. ErrDry /\ ErrDry' /\ OutDry' = OutDry
    BY <1>4, <2>1 DEF ErrDry, OutDry, Over, Eop
  <2>3. Drained'
    BY <1>0, <1>2, <1>4, <2>1, <2>2 DEF Whole, Drained
  <2>4. Heard' /\ Balanced'
    BY <1>1, <1>2, <1>4, <2>2 DEF Whole, Heard, Hears, Balanced
  <2> QED BY <2>3, <2>4 DEF Whole
<1> QED BY <1>3, <1>4 DEF FromErr

(* The same for the other pipe, which it may give up first.                 *)
LEMMA WholeOut ==
  ASSUME TypeOK, Whole, FromOut
  PROVE  Whole'
<1>0. /\ srv \in Servers /\ sec \in Seconds /\ child \in Children
      /\ child.pw \in Nat
  BY Counts DEF TypeOK
<1>1. UNCHANGED <<req, cli>> /\ srv.at = "up" /\ HasStderr
  BY DEF FromOut, Loop
<1>2. HasStderr' = HasStderr
  BY <1>1 DEF HasStderr
<1>3. CASE child.pw > 0 /\ UNCHANGED srv /\ child' = [child EXCEPT !.pw = @ - 1]
           /\ sec' = [sec EXCEPT !.out = @ + 1]
  <2>1. /\ child'.at = child.at /\ child'.pv = child.pv /\ child'.pw = child.pw - 1
        /\ child'.wrote = child.wrote /\ sec'.err = sec.err /\ sec'.out = sec.out + 1
    BY <1>0, <1>3 DEF Children, Seconds
  <2>2. ~OutDry
    BY <1>0, <1>3 DEF OutDry
  <2>3. ErrDry' = ErrDry
    BY <1>3, <2>1 DEF ErrDry, Over
  <2>4. Balanced'
    BY <1>1, <2>1, Counts DEF Whole, Balanced
  <2>5. Drained'
    BY <1>2, <1>3, <2>1, <2>2, <2>3 DEF Whole, Drained
  <2>6. Heard'
    BY <1>1, <1>2, <2>1, <2>2, <2>3 DEF Whole, Heard, Hears
  <2> QED BY <2>4, <2>5, <2>6 DEF Whole
<1>4. CASE child.pw = 0 /\ Eop /\ UNCHANGED <<child, sec>>
           /\ srv' = [srv EXCEPT !.from = @ \ {"pw"}, !.shut.f = TRUE]
  <2>1. /\ srv'.at = srv.at /\ srv'.shut.s = srv.shut.s /\ srv'.from = srv.from \ {"pw"}
        /\ srv'.shut.f
    BY <1>0, <1>4 DEF Servers
  <2>2. OutDry /\ OutDry' /\ ErrDry' = ErrDry
    BY <1>4, <2>1 DEF OutDry, ErrDry, Over, Eop
  <2>3. Drained'
    BY <1>0, <1>2, <1>4, <2>1, <2>2 DEF Whole, Drained
  <2>4. Heard' /\ Balanced'
    BY <1>1, <1>2, <1>4, <2>2 DEF Whole, Heard, Hears, Balanced
  <2> QED BY <2>3, <2>4 DEF Whole
<1> QED BY <1>3, <1>4 DEF FromOut, Finished

(* The rest of the select loop touches neither pipe, and only the command   *)
(* itself or a signal ends the command.                                     *)
LEMMA WholeLoop ==
  ASSUME TypeOK, Whole, FromSec \/ FromNet \/ ToChild
  PROVE  Whole'
<1>0. srv \in Servers /\ sec \in Seconds /\ child \in Children
  BY DEF TypeOK
<1>1. UNCHANGED <<req, cli>>
  BY DEF FromSec, FromNet, ToChild
<1>2. UNCHANGED <<sec.out, sec.err>>
  BY <1>0 DEF FromSec, FromNet, ToChild, Seconds
<1>3. /\ srv'.at = srv.at /\ srv'.shut = srv.shut
      /\ "pw" \in srv.from => "pw" \in srv'.from
      /\ "pv" \in srv.from => "pv" \in srv'.from
  <2>1. Turned(srv, srv')
    BY <1>0, LoopTurns
  <2> QED BY <2>1 DEF Turned
<1>4. UNCHANGED <<child.pw, child.pv, child.wrote>>
  BY <1>0 DEF FromSec, FromNet, ToChild, Killed, Children
<1>5. child'.at = child.at \/ (child.at = "run" /\ child'.at = "ended")
  BY <1>0 DEF FromSec, FromNet, ToChild, Killed, Children
<1> QED BY <1>1, <1>2, <1>3, <1>4, <1>5, WholeApart

(* The server ends when it is through with everything.                      *)
LEMMA WholeGone ==
  ASSUME TypeOK, Whole, SrvEnd
  PROVE  Whole'
<1>0. srv \in Servers
  BY DEF TypeOK
<1>1. /\ UNCHANGED <<req, cli, sec, child>> /\ srv.at = "up" /\ HasStderr /\ srv.from = {}
      /\ srv'.at = "gone" /\ srv'.shut = srv.shut
  BY <1>0 DEF SrvEnd, Loop, Gone, Servers
<1>2. OutDry /\ ErrDry
  BY <1>1 DEF Whole, Drained
<1>3. OutDry' /\ ErrDry' /\ HasStderr' = HasStderr
  BY <1>1, <1>2 DEF OutDry, ErrDry, Over, HasStderr
<1>4. Drained'
  BY <1>1, <1>3 DEF Whole, Drained
<1> QED BY <1>1, <1>2, <1>3, <1>4 DEF Whole, Balanced, Heard, Hears

(* The command writes into its pipes while it runs, and only then.          *)
LEMMA WholeChild ==
  ASSUME TypeOK, Whole, Setsid \/ ChildReads \/ ChildWrites \/ ChildExits
  PROVE  Whole'
<1>0. child \in Children
  BY DEF TypeOK
<1>1. UNCHANGED <<req, cli, srv, sec>>
  BY DEF Setsid, ChildReads, ChildWrites, ChildExits
<1>2. CASE Setsid \/ ChildReads \/ ChildExits
  <2>1. UNCHANGED <<child.pw, child.pv, child.wrote>>
    BY <1>0, <1>2 DEF Setsid, ChildReads, ChildExits, Children
  <2>2. child.at \in {"forked", "run"} /\ child'.at \in {"run", "ended"}
    BY <1>0, <1>2 DEF Setsid, ChildReads, ChildExits, Children
  <2> QED BY <1>1, <2>1, <2>2, WholeApart
<1>3. CASE ChildWrites
  <2>1. child.at = "run" /\ child'.at = "run"
    BY <1>0, <1>3 DEF ChildWrites, Children
  <2>2. ~Over /\ ~Over'
    BY <2>1 DEF Over
  <2>3. Balanced'
    <3>1. \/ /\ child'.pw = child.pw + 1 /\ child'.wrote.out = child.wrote.out + 1
             /\ child'.pv = child.pv /\ child'.wrote.err = child.wrote.err
          \/ /\ child'.pv = child.pv + 1 /\ child'.wrote.err = child.wrote.err + 1
             /\ child'.pw = child.pw /\ child'.wrote.out = child.wrote.out
      <4>1. \/ child' = [child EXCEPT !.pw = @ + 1, !.owes = @ - 1, !.wrote.out = @ + 1]
            \/ child' = [child EXCEPT !.pv = @ + 1, !.owes = @ - 1, !.wrote.err = @ + 1]
        BY <1>3 DEF ChildWrites
      <4>2. CASE child' = [child EXCEPT !.pw = @ + 1, !.owes = @ - 1, !.wrote.out = @ + 1]
        BY <1>0, <4>2 DEF Children
      <4>3. CASE child' = [child EXCEPT !.pv = @ + 1, !.owes = @ - 1, !.wrote.err = @ + 1]
        BY <1>0, <4>3 DEF Children
      <4> QED BY <4>1, <4>2, <4>3
    <3> QED BY <1>1, <3>1, Counts DEF Whole, Balanced
  <2>4. HasStderr' = HasStderr
    BY <1>1 DEF HasStderr
  <2>5. Drained' /\ Heard'
    BY <1>1, <2>1, <2>2, <2>4 DEF Whole, Drained, Heard, Hears, OutDry, ErrDry
  <2> QED BY <2>3, <2>5 DEF Whole
<1> QED BY <1>2, <1>3

(* Each step keeps the balance and the order in which the places run dry.   *)
LEMMA WholeStep == TypeOK /\ Whole /\ [Next]_vars => Whole'
<1> SUFFICES ASSUME TypeOK, Whole, [Next]_vars PROVE Whole'
  OBVIOUS
<1>1. CASE Next
  BY <1>1, NextSteps, WholeKcmd, WholeRead, WholeEnd, WholeInput, WholeSetup, WholeErr, WholeOut,
     WholeLoop, WholeGone, WholeChild
<1>2. CASE UNCHANGED vars
  BY <1>2, WholeApart DEF vars
<1> QED BY <1>1, <1>2

(* A client that has ended by itself is through with two dry connections.   *)
LEMMA WholeShown == TypeOK /\ Whole => OutputWhole
<1> SUFFICES ASSUME TypeOK, Whole, cli.ended PROVE cli.shown = child.wrote
  BY DEF OutputWhole
<1>1. sec.out = 0 /\ sec.err = 0 /\ child.pw = 0 /\ child.pv = 0
  BY DEF Whole, Heard, OutDry, ErrDry
<1>2. cli.shown.out = child.wrote.out /\ cli.shown.err = child.wrote.err
  BY <1>1, Counts DEF Whole, Balanced
<1>3. cli.shown \in [out : Nat, err : Nat] /\ child.wrote \in [out : Nat, err : Nat]
  BY DEF TypeOK, Clients, Children
<1> QED BY <1>2, <1>3

(* An rsh that ends by itself has shown every unit that the command wrote,  *)
(* on both outputs, whichever of them krshd gave up first, whatever the     *)
(* user had typed or interrupted and however full the pipes were.           *)
THEOREM OutputWholeHolds == Spec => []OutputWhole
<1>1. Spec => [](TypeOK /\ Whole)
  BY TypeInit, TypeStep, WholeInit, WholeStep, PTL DEF Spec
<1> QED BY <1>1, WholeShown, PTL
=============================================================================
