-------------------------------- MODULE Rsh ---------------------------------
(* rsh, rlogin and rcp set up a session with krshd or klogind by kcmd(),    *)
(* and rsh then joins the user to a command: two processes in the client,   *)
(* the select loop in the server, the command behind three pipes, and a     *)
(* second connection for standard error in one direction and signals in the *)
(* other.  Data are counted; the Kerberos library is a choice of outcomes.  *)
EXTENDS Naturals, Sequences, FiniteSets

CONSTANTS
  Requests,     \* what the user asks for: [client, x, proto, forward], and
                \* whether the ticket has a DES enctype: des
  Commands,     \* what the command does: [kind, gain]
  Pipe,         \* how many units a pipe holds
  MaxInput,     \* bound: units on the user's standard input
  MaxSignals    \* bound: interrupts of the user

ASSUME PipeAssumption == Pipe \in Nat \ {0}
ASSUME BoundsAssumption == MaxInput \in Nat /\ MaxSignals \in Nat
ASSUME RequestsAssumption ==
  Requests \subseteq [client : {"rsh", "rlogin", "rcp_to", "rcp_from"}, x : BOOLEAN,
                      proto : {"old", "new", "compat"}, forward : BOOLEAN, des : BOOLEAN]
ASSUME CommandsAssumption ==
  Commands \subseteq [kind : {"filter", "sleeper"}, gain : Nat]

VARIABLES
  req,          \* the request, fixed
  cli,          \* the client: where kcmd() or main() is, what it has agreed to
  srv,          \* the server: where doit() is, what it has agreed to, its fd_set
  up, down,     \* the first connection: messages of the set up, then counts
  sec,          \* the second connection, and what is on its way on either
  child,        \* the command, its pipes and what it has written
  left          \* bounds

vars == <<req, cli, srv, up, down, sec, child, left>>

HasStderr == req.client = "rsh"
Closed(at) == at \in {"exit", "normal", "dead", "gone"}
----------------------------------------------------------------------------
(* The client's side of kcmd().  A failure closes the sockets; the caller   *)
(* then gives up or runs the program without Kerberos.                      *)
Fallback ==
  CASE req.x -> "exit"
    [] ~req.x /\ req.proto = "new" /\ req.client # "rlogin" -> "exit"
    [] OTHER -> "normal"
Fail == cli' = [cli EXCEPT !.at = Fallback]
Eof == down = <<>> /\ Closed(srv.at)

KcmdConnect ==
  /\ cli.at = "start"
  /\ \/ Fail /\ UNCHANGED <<up, sec>>
     \/ /\ cli' = [cli EXCEPT !.at = IF HasStderr THEN "secondary" ELSE "tickets"]
        /\ up' = <<[m |-> "port", port |-> HasStderr]>>
        /\ sec' = [sec EXCEPT !.at = IF HasStderr THEN "listen" ELSE "none"]
  /\ UNCHANGED <<req, srv, down, child, left>>

(* setup_secondary_channel(): anything on the first connection, its end, or *)
(* ten minutes are a failure.                                               *)
SetupSecondary ==
  /\ cli.at = "secondary"
  /\ \/ /\ sec.at = "open" /\ down = <<>> /\ ~Closed(srv.at)
        /\ cli' = [cli EXCEPT !.at = "tickets"]
     \/ /\ down # <<>> \/ Closed(srv.at) \/ sec.at = "listen"
        /\ Fail
  /\ UNCHANGED <<req, srv, up, down, sec, child, left>>

(* The protocol follows the ticket unless the user has chosen; only the new *)
(* one has a subkey.                                                        *)
Protocol == IF req.proto = "compat" THEN IF req.des THEN "old" ELSE "new" ELSE req.proto
Sendauth ==
  /\ cli.at = "tickets"
  /\ \/ Fail /\ UNCHANGED up
     \/ /\ cli' = [cli EXCEPT !.at = "auth", !.proto = Protocol]
        /\ up' = Append(up, [m |-> "auth", proto |-> Protocol, subkey |-> Protocol = "new"])
  /\ UNCHANGED <<req, srv, down, sec, child, left>>

(* Mutual authentication, then the strings and the forwarded credentials or *)
(* an empty message in their place.  -x is told by the command's prefix.    *)
Strings == [m |-> "strings", x |-> req.x]
Forwarded ==
  /\ cli.at = "auth"
  /\ \/ /\ down # <<>> /\ Head(down) = "aprep"
        /\ \/ /\ cli' = [cli EXCEPT !.at = "reply"]
              /\ up' = up \o <<Strings, [m |-> "creds", forward |-> req.forward]>>
           \/ req.forward /\ Fail /\ up' = Append(up, Strings)
        /\ down' = Tail(down)
     \/ /\ Eof \/ (down # <<>> /\ Head(down) # "aprep")
        /\ Fail /\ UNCHANGED <<up, down>>
  /\ UNCHANGED <<req, srv, sec, child, left>>

(* The key the caller gives rcmd_stream_init_krb5(): of rcp's two branches  *)
(* one goes by the protocol and one by the enctype of the ticket.           *)
BugClientKey == IF cli.proto = "new" /\ ~req.des THEN "subkey" ELSE "session"
ClientKey ==
  IF req.client = "rcp_to"
  THEN IF cli.proto = "new" /\ ~req.des THEN "subkey" ELSE "session"
  ELSE IF cli.proto = "new" THEN "subkey" ELSE "session"
KcmdReply ==
  /\ cli.at = "reply"
  /\ \/ /\ down # <<>> /\ Head(down) = "ok"
        /\ cli' = [cli EXCEPT !.at = "up", !.key = ClientKey, !.x = req.x,
                              !.open = IF HasStderr THEN {"rem", "rfd2"} ELSE {},
                              !.writer = IF HasStderr THEN "run" ELSE "done"]
        /\ down' = Tail(down)
     \/ /\ Eof \/ (down # <<>> /\ Head(down) = "error")
        /\ Fail /\ UNCHANGED down
  /\ UNCHANGED <<req, srv, up, sec, child, left>>
(* A signal ends the client while kcmd() runs, a hangup at any time.        *)
Dies ==
  /\ ~Closed(cli.at) /\ cli.at # "start" /\ left.deaths > 0
  /\ cli' = [cli EXCEPT !.at = "dead", !.writer = "done"]
  /\ left' = [left EXCEPT !.deaths = @ - 1]
  /\ UNCHANGED <<req, srv, up, down, sec, child>>
----------------------------------------------------------------------------
(* The server's side of the set up.  SrvEof is a read that finds the        *)
(* client's end; error() and fatal() write and exit.                        *)
Gone == srv' = [srv EXCEPT !.at = "gone"]
Error == Gone /\ down' = Append(down, "error")
Take(m) == up # <<>> /\ Head(up).m = m /\ up' = Tail(up)
SrvEof ==
  /\ srv.at \in {"port", "auth", "refused", "strings", "creds"} /\ up = <<>> /\ Closed(cli.at)
  /\ Gone
  /\ UNCHANGED <<req, cli, up, down, sec, child, left>>
(* The port, which has one minute to come, and the connection back to it.   *)
ReadPort ==
  /\ srv.at = "port"
  /\ \/ up = <<>> /\ cli.at # "start" /\ Gone /\ UNCHANGED <<up, sec>>
     \/ /\ Take("port")
        /\ \/ /\ srv' = [srv EXCEPT !.at = "auth"]
              /\ sec' = IF Head(up).port THEN [sec EXCEPT !.at = "open"] ELSE sec
           \/ Head(up).port /\ Gone /\ UNCHANGED sec
        /\ ~(Head(up).port /\ Closed(cli.at) /\ srv'.at = "auth")
  /\ UNCHANGED <<req, cli, down, child, left>>
(* krb5_recvauth_version(): after a refusal the strings are read all the    *)
(* same, but none come: the client has given up.                            *)
Recvauth ==
  /\ srv.at = "auth" /\ Take("auth")
  /\ \/ /\ srv' = [srv EXCEPT !.at = "strings", !.proto = Head(up).proto, !.sub = Head(up).subkey]
        /\ down' = Append(down, "aprep")
     \/ srv' = [srv EXCEPT !.at = "refused"] /\ down' = Append(down, "aperror")
  /\ UNCHANGED <<req, cli, sec, child, left>>
(* krshd encrypts for a command that begins with -x; klogind was started    *)
(* for the port that encrypts.  A subkey must and may come with the new     *)
(* protocol only.                                                           *)
ServerKey == IF srv.sub THEN "subkey" ELSE "session"
ReadStrings ==
  /\ srv.at = "strings" /\ Take("strings")
  /\ IF (~srv.sub /\ Head(up).x /\ srv.proto = "new") \/ (srv.sub /\ srv.proto = "old")
     THEN Error
     ELSE /\ srv' = [srv EXCEPT !.at = "creds", !.x = Head(up).x, !.key = ServerKey]
          /\ UNCHANGED down
  /\ UNCHANGED <<req, cli, sec, child, left>>
(* read_message(), the account, krb5_kuserok() and the demands of the       *)
(* configuration; then the byte 0, the pipes and the command.               *)
Authorize ==
  /\ srv.at = "creds" /\ Take("creds")
  /\ \/ Error /\ UNCHANGED child
     \/ /\ down' = Append(down, "ok")
        /\ srv' = [srv EXCEPT !.at = "up", !.from = IF HasStderr THEN {"f", "s", "pv", "pw"} ELSE {}]
        /\ child' = [child EXCEPT !.at = IF HasStderr THEN "forked" ELSE "none"]
  /\ UNCHANGED <<req, cli, sec, left>>
----------------------------------------------------------------------------
(* The client of rsh.  The process that writes ends with end of file, the   *)
(* other one when both connections have ended, and it kills the first.      *)
Joined == cli.at = "up" /\ HasStderr
CliWrite ==
  /\ cli.writer = "run"
  /\ \/ /\ left.input > 0
        /\ left' = [left EXCEPT !.input = @ - 1]
        /\ sec' = [sec EXCEPT !.data = @ + 1] /\ UNCHANGED cli
     \/ cli' = [cli EXCEPT !.writer = "done"] /\ UNCHANGED <<sec, left>>
  /\ UNCHANGED <<req, srv, up, down, child>>
CliRead ==
  /\ Joined
  /\ \/ /\ "rem" \in cli.open
        /\ \/ /\ sec.out > 0 /\ sec' = [sec EXCEPT !.out = @ - 1]
              /\ cli' = [cli EXCEPT !.shown.out = @ + 1]
           \/ /\ sec.out = 0 /\ (srv.shut.f \/ Closed(srv.at)) /\ UNCHANGED sec
              /\ cli' = [cli EXCEPT !.open = @ \ {"rem"}]
     \/ /\ "rfd2" \in cli.open
        /\ \/ /\ sec.err > 0 /\ sec' = [sec EXCEPT !.err = @ - 1]
              /\ cli' = [cli EXCEPT !.shown.err = @ + 1]
           \/ /\ sec.err = 0 /\ (srv.shut.s \/ Closed(srv.at)) /\ UNCHANGED sec
              /\ cli' = [cli EXCEPT !.open = @ \ {"rfd2"}]
  /\ UNCHANGED <<req, srv, up, down, child, left>>
CliEnd ==
  /\ Joined /\ cli.open = {}
  /\ cli' = [cli EXCEPT !.at = "exit", !.writer = "done", !.ended = TRUE]
  /\ UNCHANGED <<req, srv, up, down, sec, child, left>>
(* sendsig(): the process that reads has the handler, the one that writes   *)
(* keeps the signals blocked.                                               *)
Sendsig ==
  /\ Joined /\ left.signals > 0
  /\ left' = [left EXCEPT !.signals = @ - 1]
  /\ sec' = [sec EXCEPT !.sig = @ + 1]
  /\ UNCHANGED <<req, cli, srv, up, down, child>>
----------------------------------------------------------------------------
(* The select loop of krshd, one ready descriptor at a time; while it       *)
(* writes to the command it does nothing else.                              *)
Loop == srv.at = "up" /\ HasStderr /\ ~srv.writing
Eop == child.at = "ended"
FromErr ==
  /\ Loop /\ "pv" \in srv.from
  /\ \/ /\ child.pv > 0
        /\ child' = [child EXCEPT !.pv = @ - 1] /\ sec' = [sec EXCEPT !.err = @ + 1]
        /\ UNCHANGED srv
     \/ /\ child.pv = 0 /\ Eop
        /\ srv' = [srv EXCEPT !.from = @ \ {"pv"}, !.shut.s = TRUE]
        /\ UNCHANGED <<child, sec>>
  /\ UNCHANGED <<req, cli, up, down, left>>
BugFinished(s) == [s EXCEPT !.from = {}, !.shut = [f |-> TRUE, s |-> TRUE]]
Finished(s) == [s EXCEPT !.from = @ \ {"pw"}, !.shut.f = TRUE]
FromOut ==
  /\ Loop /\ "pw" \in srv.from
  /\ \/ /\ child.pw > 0
        /\ child' = [child EXCEPT !.pw = @ - 1] /\ sec' = [sec EXCEPT !.out = @ + 1]
        /\ UNCHANGED srv
     \/ /\ child.pw = 0 /\ Eop
        /\ srv' = Finished(srv)
        /\ UNCHANGED <<child, sec>>
  /\ UNCHANGED <<req, cli, up, down, left>>
(* kill(-pid): there is no such group before the command's setsid().        *)
Killed(c) == IF c.at = "run" THEN [c EXCEPT !.at = "ended"] ELSE [c EXCEPT !.missed = @ \/ c.at = "forked"]
FromSec ==
  /\ Loop /\ "s" \in srv.from
  /\ \/ /\ sec.sig > 0
        /\ sec' = [sec EXCEPT !.sig = @ - 1] /\ child' = Killed(child) /\ UNCHANGED srv
     \/ /\ sec.sig = 0 /\ (srv.shut.s \/ Closed(cli.at))
        /\ srv' = [srv EXCEPT !.from = @ \ {"s"}] /\ UNCHANGED <<sec, child>>
  /\ UNCHANGED <<req, cli, up, down, left>>
(* The command's standard input is closed when the client's has ended or    *)
(* when the command reads no more.                                          *)
BugNoInput(s) == [s EXCEPT !.from = @ \ {"f"}]
NoInput(s) == [s EXCEPT !.from = @ \ {"f"}, !.closed = TRUE]
FromNet ==
  /\ Loop /\ "f" \in srv.from
  /\ \/ /\ sec.data > 0
        /\ sec' = [sec EXCEPT !.data = @ - 1]
        /\ srv' = [srv EXCEPT !.writing = TRUE]
     \/ /\ sec.data = 0 /\ (cli.writer = "done" \/ srv.shut.f)
        /\ srv' = NoInput(srv) /\ UNCHANGED sec
  /\ UNCHANGED <<req, cli, up, down, child, left>>
ToChild ==
  /\ srv.writing
  /\ \/ /\ Eop
        /\ srv' = [NoInput(srv) EXCEPT !.writing = FALSE] /\ UNCHANGED child
     \/ /\ ~Eop /\ child.px < Pipe
        /\ child' = [child EXCEPT !.px = @ + 1] /\ srv' = [srv EXCEPT !.writing = FALSE]
  /\ UNCHANGED <<req, cli, up, down, sec, left>>
SrvEnd ==
  /\ Loop /\ srv.from = {} /\ Gone
  /\ UNCHANGED <<req, cli, up, down, sec, child, left>>
----------------------------------------------------------------------------
(* The command.  A filter writes gain units for each it reads and ends with *)
(* its input, or earlier; a sleeper has to be interrupted.                  *)
Setsid ==
  /\ child.at = "forked" /\ child' = [child EXCEPT !.at = "run"]
  /\ UNCHANGED <<req, cli, srv, up, down, sec, left>>
ChildReads ==
  /\ child.at = "run" /\ child.cmd.kind = "filter" /\ child.owes = 0
  /\ \/ child.px > 0 /\ child' = [child EXCEPT !.px = @ - 1, !.owes = child.cmd.gain]
     \/ child.px = 0 /\ srv.closed /\ child' = [child EXCEPT !.at = "ended"]
  /\ UNCHANGED <<req, cli, srv, up, down, sec, left>>
ChildWrites ==
  /\ child.at = "run" /\ child.owes > 0
  /\ \/ child.pw < Pipe /\ child' = [child EXCEPT !.pw = @ + 1, !.owes = @ - 1, !.wrote.out = @ + 1]
     \/ child.pv < Pipe /\ child' = [child EXCEPT !.pv = @ + 1, !.owes = @ - 1, !.wrote.err = @ + 1]
  /\ UNCHANGED <<req, cli, srv, up, down, sec, left>>
ChildExits ==
  /\ child.at = "run" /\ child.cmd.kind = "filter" /\ child' = [child EXCEPT !.at = "ended"]
  /\ UNCHANGED <<req, cli, srv, up, down, sec, left>>

Init ==
  /\ req \in Requests
  /\ cli = [at |-> "start", proto |-> "none", key |-> "none", x |-> FALSE, open |-> {}, writer |-> "none",
            shown |-> [out |-> 0, err |-> 0], ended |-> FALSE]
  /\ srv = [at |-> "port", proto |-> "none", sub |-> FALSE, key |-> "none", x |-> FALSE, from |-> {},
            shut |-> [f |-> FALSE, s |-> FALSE], writing |-> FALSE, closed |-> FALSE]
  /\ up = <<>> /\ down = <<>>
  /\ sec = [at |-> "none", data |-> 0, out |-> 0, err |-> 0, sig |-> 0]
  /\ \E c \in Commands :
     child = [at |-> "none", cmd |-> c, px |-> 0, pw |-> 0, pv |-> 0, owes |-> 0,
              wrote |-> [out |-> 0, err |-> 0], missed |-> FALSE]
  /\ left = [input |-> MaxInput, signals |-> MaxSignals, deaths |-> 1]

ClientStep ==
  \/ KcmdConnect \/ SetupSecondary \/ Sendauth \/ Forwarded \/ KcmdReply
  \/ CliRead \/ CliEnd
ServerStep ==
  \/ SrvEof \/ ReadPort \/ Recvauth \/ ReadStrings \/ Authorize
  \/ ToChild \/ SrvEnd
ChildStep == Setsid \/ ChildReads \/ ChildWrites
Next ==
  \/ ClientStep \/ CliWrite \/ Dies \/ Sendsig
  \/ ServerStep \/ FromErr \/ FromOut \/ FromSec \/ FromNet
  \/ ChildStep \/ ChildExits

(* select() offers every ready descriptor in turn, so none of the four      *)
(* waits for ever; the client's input ends, and a command that reads ends.  *)
Spec ==
  /\ Init /\ [][Next]_vars
  /\ WF_vars(ClientStep) /\ WF_vars(CliWrite) /\ WF_vars(ServerStep) /\ WF_vars(ChildStep)
  /\ WF_vars(FromErr) /\ WF_vars(FromOut) /\ WF_vars(FromSec) /\ WF_vars(FromNet)
----------------------------------------------------------------------------
(* When both sides are through the set up they mean the same session: the   *)
(* same protocol, encryption, key and second connection.  Except rcp to a   *)
(* remote host with -PN and a DES ticket: it takes the session key, krshd   *)
(* the subkey (krcp.c 407-425).                                             *)
RcpKey == req.client = "rcp_to" /\ req.proto = "new" /\ req.des
Agree ==
  cli.at = "up" /\ srv.at = "up" =>
    /\ cli.proto = srv.proto /\ cli.x = srv.x
    /\ cli.key = srv.key \/ RcpKey
    /\ (sec.at = "open") = HasStderr

(* When rsh ends by itself it has shown all that the command wrote, on      *)
(* either output, whichever output ended first and whoever was interrupted. *)
OutputWhole == cli.ended => cli.shown = child.wrote

(* Set up and session end on both sides, also when one side fails, dies or  *)
(* goes silent at any point, or the user interrupts a command that would    *)
(* not end.  Except: krshd blocks in its write to a command that reads no   *)
(* more, or that writes more than it reads into full pipes, and then reads  *)
(* neither the pipes nor the signals; and a signal that comes before the    *)
(* command's setsid() is lost.  A session without a second connection is    *)
(* rlogin's, which goes on in module Rlogin.                                *)
Final == Closed(cli.at) /\ Closed(srv.at)
Session == (cli.at = "up" \/ Closed(cli.at)) /\ srv.at = "up" /\ ~HasStderr
Stalled ==
  /\ srv.writing /\ child.px = Pipe
  /\ \/ child.cmd.kind = "sleeper"
     \/ child.owes > 0 /\ child.cmd.gain > 1 /\ (child.pw = Pipe \/ child.pv = Pipe)
Sleeping == child.cmd.kind = "sleeper" /\ (left.signals = MaxSignals \/ child.missed \/ cli.at = "dead")
Ends == <>[](Final \/ Session \/ Stalled \/ (srv.at = "up" /\ Sleeping))
=============================================================================
