----------------------------- MODULE FtpTransfer -----------------------------
(* One file or listing after another between ftp (ftp.c, cmds.c) and ftpd   *)
(* (ftpd.c, ftpcmd.y), over the data channel of secure.c: choosing the      *)
(* type, agreeing on an address, restarting, sending, aborting with ^C, and *)
(* local errors on either side.  A file is a short sequence of characters;  *)
(* in a protected transfer they travel in blocks of Queue characters ended  *)
(* by an empty block, in a clear one they travel one by one.  PORT is never *)
(* refused: the client's port is a free one.                                *)
EXTENDS Naturals, Sequences

CONSTANTS
  Persons,      \* who is at the client: what passive and sendport are, the contents
                \* of the files that are sent, the restart points that are given (0 for
                \* none), what the patterns of mget, mput, mls and mdir stand for (at
                \* most two files), and the bound turns: commands and interrupts
  Queue,        \* characters of a protected block (smaxqueue)
  Window        \* bound: messages on a data connection that nobody has read

ASSUME QueueAssumption == Queue \in Nat \ {0} /\ Window \in Nat \ {0}

VARIABLES
  person,       \* bound: the one of Persons who is there
  private,      \* the data level of both ends is not clear
  cli, srv,     \* the state of ftp and of ftpd
  c2s, s2c,     \* the control connection: commands and replies not read yet
  urgent,       \* SIGURG is on its way to the server
  dc,           \* the data connection
  done,         \* the last transfer both ends called complete: what was meant, what is there
  tainted,      \* history: a transfer began with something left by an earlier one
  cut,          \* history: a TYPE was interrupted, and its effect on the client lost
  turns         \* bound: what the person may still do

vars == <<person, private, cli, srv, c2s, s2c, urgent, dc, done, tainted, cut, turns>>
history == <<done, tainted, cut, turns>>

(* The ASCII conversions of sendrequest(), send_data(), recvrequest() and   *)
(* receive_data(): a newline is sent as CR LF; CR LF becomes a newline and  *)
(* CR NUL a CR.                                                             *)
Encode(f, type) ==
  LET e[i \in 0..Len(f)] ==
        IF i = 0 THEN <<>>
        ELSE e[i - 1] \o (IF f[i] = "nl" THEN <<"cr", "nl">> ELSE <<f[i]>>)
  IN IF type = "A" THEN e[Len(f)] ELSE f
Decode(w, type) ==
  LET d[i \in 0..Len(w)] ==
        IF i = 0 THEN <<>>
        ELSE IF w[i] = "cr" /\ i < Len(w) /\ w[i + 1] = "nl" THEN d[i - 1]
        ELSE IF w[i] = "nul" /\ i > 1 /\ w[i - 1] = "cr" THEN d[i - 1]
        ELSE Append(d[i - 1], w[i])
  IN IF type = "A" THEN d[Len(w)] ELSE w

(* Where a restart point of n bytes is in a file: in ASCII a newline counts *)
(* for two.                                                                 *)
Skip(f, n, type) ==
  LET s[i \in 0..Len(f)] ==
        IF i = 0 THEN 0 ELSE s[i - 1] + (IF f[i] = "nl" THEN 2 ELSE 1)
      Past == {i \in 0..Len(f) : s[i] >= n}
  IN IF type # "A" THEN n
     ELSE IF Past = {} THEN Len(f) + 1
     ELSE CHOOSE i \in Past : \A j \in Past : i <= j
From(f, p) == SubSeq(f, p + 1, Len(f))
Prefix(f, n) == SubSeq(f, 1, IF n < Len(f) THEN n ELSE Len(f))
Overwrite(old, p, new) == Prefix(old, p) \o new \o From(old, p + Len(new))

(* The data connection: what is in flight, that its writer has closed it,   *)
(* that its reader has.  waiting is the port of PASV at which a connection  *)
(* of the client waits to be accepted.                                      *)
Closed == [up |-> FALSE, flow |-> <<>>, eof |-> FALSE, gone |-> FALSE, waiting |-> 0]
Opened == [Closed EXCEPT !.up = TRUE]
Dead == [Opened EXCEPT !.eof = TRUE, !.gone = TRUE]

(* secure.c, one copy in each program: out is what secure_putbyte() has     *)
(* queued, in what secure_getbyte() has not handed out, eof the end that    *)
(* secure_read() still has to report.  None of it is reset by a transfer.   *)
Buffers == [out |-> <<>>, in |-> <<>>, eof |-> FALSE]
Left(b) == b # Buffers

NoOp == [cmd |-> "none", file |-> <<>>, restart |-> 0]
(* A command on several files: next is the one to come, 0 the listing mget  *)
(* begins with; go tells whether mflag is still set ("go"), has been        *)
(* cleared, so that the person is asked whether to go on ("ask"), or has    *)
(* been where nobody asks ("stop").                                         *)
NoBatch == [cmd |-> "none", files |-> <<>>, next |-> 0, go |-> "go"]
Idle == [at |-> "prompt", type |-> "A", curtype |-> "A", sendport |-> TRUE, passive |-> FALSE,
         data |-> 0, din |-> FALSE, op |-> NoOp, todo |-> <<>>, got |-> <<>>, abrt |-> FALSE,
         failed |-> FALSE, buf |-> Buffers, batch |-> NoBatch]
(* kept names those of data and pdata that hold the connection of an NLST   *)
(* that was aborted; mute: a transfer has ended without a reply.            *)
Listening == [at |-> "idle", type |-> "A", usedefault |-> TRUE, dest |-> 0, pdata |-> 0,
              kept |-> {}, mute |-> FALSE, restart |-> 0, op |-> NoOp, todo |-> <<>>, got |-> <<>>, stored |-> <<>>,
              buf |-> Buffers]
DefaultPort == 1
Listings == {"LIST", "NLST"}
----------------------------------------------------------------------------
(* The client: from the prompt to the command of the transfer.              *)
Ask(c, at, cmd, arg) ==
  /\ cli' = [c EXCEPT !.at = at, !.abrt = FALSE]
  /\ c2s' = Append(c2s, [cmd |-> cmd, arg |-> arg])
ToPrompt(c) == [c EXCEPT !.at = "prompt", !.batch = NoBatch]
Rest(c) ==
  LET d == [c EXCEPT !.op = NoOp, !.todo = <<>>, !.got = <<>>, !.din = FALSE,
                     !.abrt = FALSE, !.failed = FALSE] IN
  /\ cli' = CASE c.batch.cmd = "none" \/ c.batch.go = "stop" -> ToPrompt(d)
              [] c.batch.cmd # "none" /\ c.batch.go = "go" -> [d EXCEPT !.at = "between"]
              [] c.batch.cmd # "none" /\ c.batch.go = "ask" -> [d EXCEPT !.at = "asked"]
  /\ UNCHANGED c2s
(* mabort(), abortrecv() and abortsend(), whichever the transfer has left   *)
(* the signal to.  The first goes back to the start of the loop, which is   *)
(* the first file again but for mget; in the listing of mget the others     *)
(* clear mflag and nobody asks.                                             *)
First(b) == IF b.cmd = "mget" THEN 0 ELSE 1
Interrupted(c) ==
  LET b == c.batch
      mabort == c.at = IF c.op.cmd = "STOR" THEN "type" ELSE "final" IN
  [c EXCEPT !.batch =
     CASE b.go # "go" \/ (b.cmd = "mget" /\ c.op.cmd = "NLST" /\ ~mabort) -> [b EXCEPT !.go = "stop"]
       [] b.go = "go" /\ mabort ->
            [b EXCEPT !.go = "ask", !.next = IF c.op.cmd = "RETR" THEN @ ELSE First(b)]
       [] OTHER -> [b EXCEPT !.go = "ask"]]
(* A port that no earlier transfer has used.                                *)
Fresh(c) ==
  12 * (turns + 1) + 3 * (IF c.batch.cmd = "none" THEN 0 ELSE c.batch.next)
    + (CASE c.at = "prompt" -> 0 [] c.at = "type" -> 1 [] OTHER -> 2)

AskTransfer(c) == Ask(c, "cmd", c.op.cmd, c.op.file)
AskRestart(c) ==
  IF c.op.restart > 0 /\ c.op.cmd \notin Listings THEN Ask(c, "rest", "REST", c.op.restart)
  ELSE AskTransfer(c)
(* initconn(): what is still open from an earlier one is closed.            *)
Initconn(c) ==
  CASE c.passive -> Ask(c, "port", "PASV", Fresh(c))
    [] ~c.passive /\ c.sendport -> Ask([c EXCEPT !.data = Fresh(c)], "port", "PORT", Fresh(c))
    [] ~c.passive /\ ~c.sendport -> AskRestart([c EXCEPT !.data = DefaultPort])
Changetype(c) ==
  LET wanted == IF c.op.cmd \in Listings THEN "A" ELSE c.type IN
  IF wanted # c.curtype THEN Ask(c, "type", "TYPE", wanted) ELSE Initconn(c)

(* What a reply is followed by; n is its first digit.  A restart point that *)
(* is refused ends the command.                                             *)
OnType(c, n) ==
  LET wanted == IF c.op.cmd \in Listings THEN "A" ELSE c.type IN
  Initconn([c EXCEPT !.curtype = IF n = 2 THEN wanted ELSE @])
OnSettype(c, n, wanted) ==
  Rest([c EXCEPT !.type = IF n = 2 THEN wanted ELSE @, !.curtype = IF n = 2 THEN wanted ELSE @])
OnPort(c, n, addr) ==
  CASE c.passive /\ n = 2 -> AskRestart([c EXCEPT !.data = addr])
    [] c.passive /\ n # 2 -> Initconn([c EXCEPT !.passive = FALSE])
    [] ~c.passive -> IF n = 2 THEN AskRestart(c) ELSE Rest(c)
OnRest(c, n) == IF n = 3 THEN AskTransfer(c) ELSE Rest(c)

(* dataconn() and the start of the copying loop.  The client stays in       *)
(* accept() where the server uses another connection, and goes astray where *)
(* it returns because the local file has no such restart point.             *)
Local(c) == IF c.op.cmd = "RETR" THEN Prefix(c.op.file, c.op.restart) ELSE <<>>
CannotSeek(c) ==
  \/ c.op.cmd \in Listings /\ c.op.restart > 0
  \/ c.op.cmd = "RETR" /\ Skip(Local(c), c.op.restart, c.curtype) > Len(Local(c))
                       /\ c.curtype = "A" /\ c.op.restart > 0
Start(c) ==
  /\ cli' = CASE dc.gone -> [c EXCEPT !.at = "accepting"]
              [] ~dc.gone /\ c.op.cmd = "STOR" ->
                   [c EXCEPT !.at = "sending",
                             !.todo = Encode(From(c.op.file, c.op.restart), c.curtype)]
              [] ~dc.gone /\ c.op.cmd # "STOR" ->
                   [c EXCEPT !.at = IF CannotSeek(c) THEN "astray" ELSE "receiving", !.din = TRUE]
  /\ UNCHANGED c2s

CloseData(c) == [c EXCEPT !.data = 0]
HangUp(d, writer) == IF writer THEN [d EXCEPT !.eof = TRUE] ELSE [d EXCEPT !.gone = TRUE]

(* abortrecv() and abort_remote(): an urgent ABOR.  abortsend() just closes *)
(* the connection.                                                          *)
AbortRemote(c) ==
  /\ Ask(c, "abort", "ABOR", 0)
  /\ urgent' = TRUE /\ UNCHANGED dc
AbortSend(c) ==
  /\ cli' = [CloseData(c) EXCEPT !.at = "final", !.failed = TRUE, !.abrt = FALSE]
  /\ dc' = HangUp(dc, TRUE)
  /\ UNCHANGED <<c2s, urgent>>
Abort(c) == IF c.op.cmd = "STOR" THEN AbortSend(c) ELSE AbortRemote(c)

BugOnCommand(c, n) ==
  IF c.abrt THEN Abort(c)
  ELSE IF n = 1 THEN Start(c) /\ UNCHANGED <<dc, urgent>> ELSE Rest(c) /\ UNCHANGED <<dc, urgent>>
OnCommand(c, n) ==
  CASE n = 1 /\ ~c.abrt -> Start(c) /\ UNCHANGED <<dc, urgent>>
    [] n = 1 /\ c.abrt -> Abort(Interrupted(c))
    [] n # 1 -> Rest(IF c.abrt THEN Interrupted(c) ELSE c) /\ UNCHANGED <<dc, urgent>>

Complete(c, have) ==
  done' = IF c.failed \/ c.op.cmd \in Listings THEN done ELSE
          [cmd |-> c.op.cmd, want |-> c.op.file, have |-> have,
           exact |-> c.op.cmd = "RETR" \/ Skip(c.op.file, c.op.restart, c.curtype) = c.op.restart]
Have(c) ==
  IF c.op.cmd = "STOR" THEN srv.stored
  ELSE Overwrite(Local(c), Skip(Local(c), c.op.restart, c.curtype), Decode(c.got, c.curtype))

(* Two replies are read after an ABOR.                                      *)
OnAnswer(c) == cli' = [c EXCEPT !.at = "answer2"] /\ UNCHANGED c2s

(* getreply() and what command() and its callers do then.  An interrupt     *)
(* during a wait acts once the reply has been read.                         *)
Follow(c, n, arg) ==
  CASE c.at \in {"settype", "rest"} /\ c.abrt -> Rest(Interrupted(c))
    [] c.at \in {"type", "port"} /\ c.abrt -> Rest(CloseData(Interrupted(c)))
    [] c.at = "type" /\ ~c.abrt -> OnType(c, n)
    [] c.at = "settype" /\ ~c.abrt -> OnSettype(c, n, arg)
    [] c.at = "port" /\ ~c.abrt -> OnPort(c, n, arg)
    [] c.at = "rest" /\ ~c.abrt -> OnRest(c, n)
    [] c.at = "final" -> Rest(IF c.abrt THEN Interrupted(c) ELSE c)
    [] c.at = "answer" -> OnAnswer(c)
    [] c.at = "answer2" -> Rest(CloseData(c))
(* In passive mode the client connects as soon as it knows the port.        *)
Connect(c, n, addr) ==
  IF c.at = "port" /\ c.passive /\ n = 2 /\ ~c.abrt THEN [dc EXCEPT !.waiting = addr] ELSE dc
Waits == {"type", "settype", "port", "rest", "cmd", "final", "answer", "answer2"}
Getreply ==
  /\ cli.at \in Waits /\ s2c # <<>>
  /\ s2c' = Tail(s2c)
  /\ LET r == Head(s2c)
         n == r.code \div 100 IN
     /\ IF cli.at = "cmd" THEN OnCommand(cli, n)
        ELSE /\ Follow(cli, n, r.arg)
             /\ dc' = IF cli.at = "answer2" THEN HangUp(dc, FALSE) ELSE Connect(cli, n, r.arg)
             /\ UNCHANGED urgent
     /\ IF cli.at = "final" /\ n = 2 /\ ~cli.abrt THEN Complete(cli, Have(cli)) ELSE UNCHANGED done
     /\ cut' = (cut \/ (cli.at \in {"type", "settype"} /\ cli.abrt))
  /\ UNCHANGED <<person, private, srv, tainted, turns>>
(* The server has ended: 421.                                               *)
GetreplyEof ==
  /\ cli.at \in Waits /\ s2c = <<>> /\ srv.at = "exited"
  /\ cli' = [cli EXCEPT !.at = "lost"]
  /\ UNCHANGED <<person, private, srv, c2s, s2c, urgent, dc, history>>
----------------------------------------------------------------------------
(* secure_putbyte(), secure_flush(), secure_getbyte() and secure_read(), for *)
(* the program whose buffers are b.                                         *)
Full(b) == Len(b.out) + 1 = Queue
Queued(b, c) == [b EXCEPT !.out = IF ~private \/ Full(b) THEN <<>> ELSE Append(@, c)]
Messages(b, c) ==
  IF ~private THEN <<<<c>>>> ELSE IF Full(b) THEN <<Append(b.out, c)>> ELSE <<>>
LastMessages(b) ==
  IF ~private THEN <<>> ELSE (IF b.out # <<>> THEN <<b.out>> ELSE <<>>) \o <<<<>>>>
Flushed(b) == [b EXCEPT !.out = <<>>]
Room == Len(dc.flow) < Window
Emit(ms) == [dc EXCEPT !.flow = IF dc.gone THEN @ ELSE @ \o ms]

Input(b, type) ==
  CASE private /\ type = "I" /\ b.eof -> "end"
    [] ~(private /\ type = "I" /\ b.eof) /\ b.in # <<>> -> "char"
    [] ~(private /\ type = "I" /\ b.eof) /\ b.in = <<>> /\ dc.flow # <<>> ->
         IF Head(dc.flow) = <<>> THEN "end" ELSE "char"
    [] OTHER -> IF ~dc.eof THEN "wait" ELSE IF private THEN "error" ELSE "end"
Char(b) == IF b.in # <<>> THEN Head(b.in) ELSE Head(Head(dc.flow))
Taken(b) == IF b.in # <<>> THEN [b EXCEPT !.in = Tail(@)] ELSE [b EXCEPT !.in = Tail(Head(dc.flow))]
AtMessage(b) == b.in = <<>> /\ dc.flow # <<>>
Remaining(b) == [dc EXCEPT !.flow = IF AtMessage(b) THEN Tail(@) ELSE @]
(* secure_read() has the last characters and the end at once: if they       *)
(* cannot be written the end is reported to the next transfer.              *)
Ended(b, type, got, ok) == [b EXCEPT !.eof = private /\ type = "I" /\ got # <<>> /\ ~@ /\ ~ok]
----------------------------------------------------------------------------
(* The client in a transfer.                                                *)
ClientSend ==
  /\ cli.at = "sending" /\ Room
  /\ IF cli.todo # <<>>
     THEN /\ cli' = [cli EXCEPT !.todo = Tail(@), !.buf = Queued(@, Head(cli.todo))]
          /\ dc' = Emit(Messages(cli.buf, Head(cli.todo)))
     ELSE /\ cli' = [CloseData(cli) EXCEPT !.at = "final", !.buf = Flushed(@)]
          /\ dc' = HangUp(Emit(LastMessages(cli.buf)), TRUE)
  /\ UNCHANGED <<person, private, srv, c2s, s2c, urgent, history>>
(* "netout": the server has closed the connection.                          *)
ClientSendFails ==
  /\ cli.at = "sending" /\ dc.gone
  /\ cli' = [CloseData(cli) EXCEPT !.at = "final", !.failed = TRUE]
  /\ dc' = HangUp(dc, TRUE)
  /\ UNCHANGED <<person, private, srv, c2s, s2c, urgent, history>>
ClientReceive(ok) ==
  /\ cli.at = "receiving"
  /\ LET in == Input(cli.buf, cli.curtype) IN
     CASE in = "char" /\ ok ->
            /\ cli' = [cli EXCEPT !.buf = Taken(@), !.got = Append(@, Char(cli.buf))]
            /\ dc' = Remaining(cli.buf)
       [] in = "char" /\ ~ok ->
            /\ cli.curtype = "I" /\ cli.got # <<>>
            /\ cli' = [CloseData(cli) EXCEPT !.at = "final", !.failed = TRUE]
            /\ dc' = HangUp(dc, FALSE)
       [] in \in {"end", "error"} ->
            /\ ok \/ cli.got # <<>>
            /\ cli' = [CloseData(cli) EXCEPT !.at = "final", !.failed = ~ok \/ in = "error",
                                             !.buf = Ended(@, cli.curtype, cli.got, ok)]
            /\ dc' = HangUp(Remaining(cli.buf), FALSE)
       [] in = "wait" -> FALSE
  /\ UNCHANGED <<person, private, srv, c2s, s2c, urgent, history>>

(* ^C.  A wait goes on; a transfer, or the wait for its connection, jumps   *)
(* to the abort.  SIGINT is ignored while a receive is being aborted.       *)
Interrupt ==
  /\ turns > 0 /\ turns' = turns - 1
  /\ \/ /\ cli.at \in Waits \ {"answer", "answer2"} /\ ~cli.abrt
        /\ cli' = [cli EXCEPT !.abrt = TRUE]
        /\ UNCHANGED <<c2s, urgent, dc>>
     \/ cli.at \in {"accepting", "sending", "receiving"} /\ Abort(Interrupted(cli))
  /\ UNCHANGED <<person, private, srv, s2c, done, tainted, cut>>

(* abort_remote() waits ten seconds for an answer or for data, which it     *)
(* throws away up to the end; without either it gives up the connection.    *)
AbortAnswered ==
  /\ cli.at = "abort"
  /\ \/ cli.din /\ (dc.flow # <<>> \/ dc.eof) /\ cli' = [cli EXCEPT !.at = "draining"]
     \/ (~cli.din \/ (dc.flow = <<>> /\ ~dc.eof)) /\ s2c # <<>> /\ cli' = [cli EXCEPT !.at = "answer"]
  /\ UNCHANGED <<person, private, srv, c2s, s2c, urgent, dc, history>>
Drain ==
  /\ cli.at = "draining"
  /\ IF dc.flow # <<>> THEN dc' = [dc EXCEPT !.flow = Tail(@)] /\ UNCHANGED cli
     ELSE dc.eof /\ cli' = [cli EXCEPT !.at = "answer"] /\ UNCHANGED dc
  /\ UNCHANGED <<person, private, srv, c2s, s2c, urgent, history>>
AbortTimeout ==
  /\ cli.at = "abort" /\ s2c = <<>> /\ ~(cli.din /\ (dc.flow # <<>> \/ dc.eof))
  /\ cli' = [cli EXCEPT !.at = "lost"]
  /\ UNCHANGED <<person, private, srv, c2s, s2c, urgent, dc, history>>
----------------------------------------------------------------------------
(* The server: a command other than a transfer, and the start of one.       *)
Reply(code, arg) == s2c' = Append(s2c, [code |-> code, arg |-> arg])
BugForget(s) == s
Forget(s) == [s EXCEPT !.restart = 0]
Type(t) == srv' = [Forget(srv) EXCEPT !.type = t] /\ Reply(200, t)
Port(addr) ==
  /\ srv' = [Forget(srv) EXCEPT !.dest = addr, !.usedefault = FALSE,
                                !.pdata = 0, !.kept = @ \ {"pdata"}]
  /\ Reply(200, addr)
Passive(addr, ok) ==
  /\ srv' = [Forget(srv) EXCEPT !.pdata = IF ok THEN addr ELSE 0, !.kept = @ \ {"pdata"}]
  /\ Reply(IF ok THEN 227 ELSE 425, addr)
Restart(n) == srv' = [srv EXCEPT !.restart = n] /\ Reply(350, n)

(* dataconn().  With a PASV before it the server accepts before it replies: *)
(* for ever if the client has not connected there, which it does only at    *)
(* once; not at all if pdata is the connection of an aborted NLST.          *)
(* Otherwise it uses the connection such an NLST has left, which the client *)
(* has closed by then, or connects to the address of PORT or the default    *)
(* one, which is reached if the client still listens there.                 *)
Address == IF srv.usedefault THEN DefaultPort ELSE srv.dest
Starting(todo, c) ==
  [Forget(srv) EXCEPT !.at = "opened", !.todo = todo, !.got = <<>>,
                      !.op = [cmd |-> c.cmd, file |-> c.arg, restart |-> srv.restart]]
Accept(todo, c) ==
  CASE "pdata" \in srv.kept ->
         /\ Reply(425, 0) /\ UNCHANGED dc
         /\ srv' = [Forget(srv) EXCEPT !.pdata = 0, !.kept = @ \ {"pdata"}]
    [] "pdata" \notin srv.kept /\ dc.waiting = srv.pdata ->
         /\ Reply(150, 0) /\ srv' = Starting(todo, c)
         /\ dc' = IF srv.pdata = cli.data THEN Opened ELSE Dead
    [] "pdata" \notin srv.kept /\ dc.waiting # srv.pdata ->
         srv' = [Starting(todo, c) EXCEPT !.at = "accepting"] /\ UNCHANGED <<s2c, dc>>
Dataconn(todo, c) ==
  CASE srv.pdata # 0 -> Accept(todo, c)
    [] srv.pdata = 0 /\ "data" \in srv.kept ->
         /\ Reply(125, 0) /\ dc' = Dead
         /\ srv' = [Starting(todo, c) EXCEPT !.usedefault = TRUE]
    [] srv.pdata = 0 /\ "data" \notin srv.kept /\ Address = cli.data ->
         /\ Reply(150, 0) /\ dc' = Opened
         /\ srv' = [Starting(todo, c) EXCEPT !.usedefault = TRUE]
    [] srv.pdata = 0 /\ "data" \notin srv.kept /\ Address # cli.data ->
         Reply(425, 0) /\ srv' = [Forget(srv) EXCEPT !.usedefault = TRUE] /\ UNCHANGED dc
Refuse(code) == Reply(code, 0) /\ srv' = Forget(srv) /\ UNCHANGED dc

(* retrieve(), with or without ls, store_file() and send_file_list().  The  *)
(* last connects when it has found a first name, and hands an option of ls  *)
(* to retrieve(); without any name it forgets the addresses too.            *)
Existing(file) == Prefix(file, srv.restart)
Retrieve(c, exists) ==
  LET p == Skip(c.arg, srv.restart, srv.type) IN
  IF ~exists \/ p > Len(c.arg) THEN Refuse(550)
  ELSE Dataconn(Encode(From(c.arg, p), srv.type), c)
StoreFile(c, writable) ==
  IF ~writable THEN Refuse(553)
  ELSE IF Skip(Existing(c.arg), srv.restart, srv.type) > Len(Existing(c.arg)) /\ srv.restart > 0
          /\ srv.type = "A" THEN Refuse(550)
  ELSE Dataconn(<<>>, c)
NoFilesFound ==
  /\ Reply(550, 0) /\ UNCHANGED dc
  /\ srv' = [Forget(srv) EXCEPT !.pdata = 0, !.kept = {}]
SendFileList(c, found) ==
  \/ found /\ Dataconn(Encode(c.arg, srv.type), c)
  \/ found /\ Retrieve([c EXCEPT !.cmd = "LIST"], TRUE)
  \/ ~found /\ Refuse(550)
  \/ ~found /\ NoFilesFound

Serve(ok) ==
  /\ srv.at = "idle" /\ c2s # <<>> /\ ~urgent
  /\ c2s' = Tail(c2s)
  /\ LET c == Head(c2s) IN
     \/ c.cmd = "TYPE" /\ ok /\ Type(c.arg) /\ UNCHANGED dc
     \/ c.cmd = "PORT" /\ ok /\ Port(c.arg) /\ UNCHANGED dc
     \/ c.cmd = "PASV" /\ Passive(c.arg, ok) /\ UNCHANGED dc
     \/ c.cmd = "REST" /\ ok /\ Restart(c.arg) /\ UNCHANGED dc
     \/ c.cmd \in {"RETR", "LIST"} /\ Retrieve(c, ok)
     \/ c.cmd = "NLST" /\ SendFileList(c, ok)
     \/ c.cmd = "STOR" /\ StoreFile(c, ok)
     \/ c.cmd = "ABOR" /\ ok /\ Refuse(225)
  /\ UNCHANGED <<person, private, cli, urgent, history>>
----------------------------------------------------------------------------
(* The server in a transfer.  From transflag on SIGURG reaches it.          *)
Transferring == {"sending", "receiving"}
Begin ==
  /\ srv.at = "opened"
  /\ srv' = [srv EXCEPT !.at = IF srv.op.cmd = "STOR" THEN "receiving" ELSE "sending"]
  /\ UNCHANGED <<person, private, cli, c2s, s2c, urgent, dc, history>>
EndTransfer(s) == [s EXCEPT !.at = "idle", !.pdata = 0, !.kept = {}, !.todo = <<>>, !.got = <<>>]
Finish(s, code, d) == srv' = EndTransfer(s) /\ Reply(code, 0) /\ dc' = d

Send(ok) ==
  /\ srv.at = "sending" /\ Room
  /\ \/ /\ ok /\ srv.todo # <<>>
        /\ srv' = [srv EXCEPT !.todo = Tail(@), !.buf = Queued(@, Head(srv.todo))]
        /\ dc' = Emit(Messages(srv.buf, Head(srv.todo)))
        /\ UNCHANGED s2c
     \/ /\ ok /\ srv.todo = <<>>
        /\ Finish([srv EXCEPT !.buf = Flushed(@)], 226, HangUp(Emit(LastMessages(srv.buf)), TRUE))
     \/ ~ok /\ srv.todo # <<>> /\ srv.op.cmd # "NLST" /\ Finish(srv, 551, HangUp(dc, TRUE))
  /\ UNCHANGED <<person, private, cli, c2s, urgent, history>>
(* A name that cannot be looked at ends an NLST with 550, one that is too   *)
(* long without any reply.                                                  *)
NameFails ==
  /\ srv.at = "sending" /\ srv.op.cmd = "NLST" /\ srv.todo # <<>>
  /\ \/ Finish(srv, 550, HangUp(dc, TRUE))
     \/ /\ srv' = [EndTransfer(srv) EXCEPT !.mute = TRUE]
        /\ dc' = HangUp(dc, TRUE) /\ UNCHANGED s2c
  /\ UNCHANGED <<person, private, cli, c2s, urgent, history>>
(* SIGPIPE: lostconn() ends the session.  An aborted NLST in clear writes   *)
(* nothing more.                                                            *)
StillWrites == srv.at = "sending" \/ (srv.at = "flushing" /\ (private \/ srv.op.cmd # "NLST"))
Lostconn ==
  /\ StillWrites /\ dc.gone
  /\ srv' = [srv EXCEPT !.at = "exited"]
  /\ dc' = HangUp(dc, TRUE)
  /\ UNCHANGED <<person, private, cli, c2s, s2c, urgent, history>>

Store(s) ==
  LET old == Prefix(s.op.file, s.op.restart) IN
  [s EXCEPT !.stored = Overwrite(old, Skip(old, s.op.restart, s.type), Decode(s.got, s.type))]
Receive(ok) ==
  /\ srv.at = "receiving"
  /\ LET in == Input(srv.buf, srv.type) IN
     CASE in = "char" /\ ok ->
            /\ srv' = [srv EXCEPT !.buf = Taken(@), !.got = Append(@, Char(srv.buf))]
            /\ dc' = Remaining(srv.buf) /\ UNCHANGED s2c
       [] in = "char" /\ ~ok ->
            srv.type = "I" /\ srv.got # <<>> /\ Finish(srv, 452, HangUp(dc, FALSE))
       [] in = "end" ->
            /\ ok \/ srv.got # <<>>
            /\ Finish([Store(srv) EXCEPT !.buf = Ended(@, srv.type, srv.got, ok)],
                      IF ok THEN 226 ELSE 452, HangUp(Remaining(srv.buf), FALSE))
       [] in = "error" -> ok /\ Finish(srv, 535, HangUp(dc, FALSE))
       [] in = "wait" -> FALSE
  /\ UNCHANGED <<person, private, cli, c2s, urgent, history>>

(* myoob(): outside a transfer nothing; in one it answers ABOR twice, sends *)
(* what is queued with the end of the data, and closes.                     *)
Myoob ==
  /\ urgent /\ urgent' = FALSE
  /\ IF srv.at \notin Transferring THEN UNCHANGED <<srv, c2s, s2c>>
     ELSE /\ c2s' = Tail(c2s)
          /\ s2c' = s2c \o <<[code |-> 426, arg |-> 0], [code |-> 226, arg |-> 0]>>
          /\ srv' = IF srv.at = "sending" THEN [srv EXCEPT !.at = "flushing"] ELSE EndTransfer(srv)
  /\ UNCHANGED <<person, private, cli, dc, history>>
FlushAborted ==
  /\ srv.at = "flushing" /\ srv.op.cmd # "NLST" /\ Room
  /\ srv' = EndTransfer([srv EXCEPT !.buf = Flushed(@)])
  /\ dc' = HangUp(Emit(LastMessages(srv.buf)), TRUE)
  /\ UNCHANGED <<person, private, cli, c2s, s2c, urgent, history>>
(* send_file_list() sends what is queued and returns: the connection stays  *)
(* open, in data or in pdata.                                               *)
LeaveOpen ==
  /\ srv.at = "flushing" /\ srv.op.cmd = "NLST" /\ (private => Room)
  /\ srv' = [srv EXCEPT !.at = "idle", !.todo = <<>>, !.got = <<>>, !.buf = Flushed(@),
                        !.kept = @ \union {IF srv.pdata = 0 THEN "data" ELSE "pdata"}]
  /\ dc' = Emit(LastMessages(srv.buf))
  /\ UNCHANGED <<person, private, cli, c2s, s2c, urgent, history>>
----------------------------------------------------------------------------
Init ==
  /\ person \in Persons /\ private \in BOOLEAN
  /\ cli = [Idle EXCEPT !.passive = person.passive, !.sendport = person.sendport]
  /\ srv = Listening
  /\ c2s = <<>> /\ s2c = <<>> /\ urgent = FALSE /\ dc = Closed
  /\ done = [cmd |-> "none"] /\ tainted = FALSE /\ cut = FALSE /\ turns = person.turns

AtPrompt == cli.at = "prompt" /\ turns > 0 /\ turns' = turns - 1
Unaffected == UNCHANGED <<person, private, srv, s2c, urgent, dc, done, cut>>
(* Left over: characters in secure.c, or the restart point of an            *)
(* interrupted REST when no PORT or PASV makes the server forget it.        *)
Tainted ==
  tainted' = (tainted \/ Left(cli.buf) \/ Left(srv.buf)
                      \/ (srv.restart # 0 /\ ~cli.passive /\ ~cli.sendport))
Transfer(cmd, file, restart) ==
  /\ AtPrompt
  /\ Changetype([cli EXCEPT !.op = [cmd |-> cmd, file |-> file, restart |-> restart]])
  /\ Tainted /\ Unaffected
Settype(type) == AtPrompt /\ Ask(cli, "settype", "TYPE", type) /\ Unaffected /\ UNCHANGED tainted
Setport == AtPrompt /\ Rest([cli EXCEPT !.sendport = ~@]) /\ Unaffected /\ UNCHANGED tainted
Setpassive == AtPrompt /\ Rest([cli EXCEPT !.passive = ~@]) /\ Unaffected /\ UNCHANGED tainted

(* mget, mput, mls and mdir, prompting turned off.                          *)
Multiple(cmd, files) ==
  /\ AtPrompt
  /\ cli' = [cli EXCEPT !.at = "between", !.batch = [cmd |-> cmd, files |-> files, next |-> First([cmd |-> cmd]), go |-> "go"]]
  /\ UNCHANGED <<c2s, tainted>> /\ Unaffected
OneOf(b) ==
  [cmd |-> CASE b.cmd = "mput" -> "STOR"
             [] b.cmd = "mget" /\ b.next > 0 -> "RETR"
             [] b.cmd = "mls" \/ (b.cmd = "mget" /\ b.next = 0) -> "NLST"
             [] b.cmd = "mdir" -> "LIST",
   file |-> b.files[IF b.next = 0 THEN 1 ELSE b.next], restart |-> 0]
NextFile ==
  /\ cli.at = "between"
  /\ IF cli.batch.next <= Len(cli.batch.files)
     THEN Changetype([cli EXCEPT !.op = OneOf(cli.batch), !.batch.next = @ + 1]) /\ Tainted
     ELSE cli' = ToPrompt(cli) /\ UNCHANGED <<c2s, tainted>>
  /\ Unaffected /\ UNCHANGED turns
(* "Continue with mget?"                                                    *)
Confirm(yes) ==
  /\ cli.at = "asked"
  /\ cli' = IF yes THEN [cli EXCEPT !.at = "between", !.batch.go = "go"] ELSE ToPrompt(cli)
  /\ UNCHANGED <<c2s, tainted, turns>> /\ Unaffected

ClientStep ==
  NextFile \/ Getreply \/ GetreplyEof \/ ClientSend \/ ClientSendFails \/ AbortAnswered \/ Drain \/ AbortTimeout
  \/ (\E ok \in BOOLEAN : ClientReceive(ok))
ServerStep ==
  Begin \/ NameFails \/ Lostconn \/ Myoob \/ FlushAborted \/ LeaveOpen
  \/ (\E ok \in BOOLEAN : Serve(ok) \/ Send(ok) \/ Receive(ok))
Next ==
  \/ \E cmd \in {"RETR", "STOR"} \union Listings, f \in person.files, n \in person.restarts : Transfer(cmd, f, n)
  \/ \E type \in {"A", "I"} : Settype(type)
  \/ \E cmd \in {"mget", "mput", "mls", "mdir"}, fs \in person.batches : Multiple(cmd, fs)
  \/ \E yes \in BOOLEAN : Confirm(yes)
  \/ Setport \/ Setpassive \/ Interrupt
  \/ ClientStep \/ ServerStep

(* Both programs go on with what they are doing as long as they can.        *)
Spec == Init /\ [][Next]_vars /\ WF_vars(ClientStep) /\ WF_vars(ServerStep)
----------------------------------------------------------------------------
(* Whenever the client has done with a transfer, at its prompt or before    *)
(* the next of several files, nothing of that transfer is on                *)
(* its way and the server waits for a command, whatever was refused,        *)
(* interrupted or aborted, in whatever order the urgent ABOR, the data and  *)
(* the replies arrived (ftp.c:1330, 2132; ftpd.c:2011); and after PORT or   *)
(* PASV the server turns to the address the client listens on or has        *)
(* connected to, whatever addresses earlier and refused commands have left  *)
(* (ftpd.c:1318), but for the connection of an aborted NLST that it still   *)
(* has in data (ftpd.c:1324, 2390).                                         *)
Reusing == srv.pdata = 0 /\ "data" \in srv.kept
TurnsTo(addr) ==
  IF srv.pdata # 0 THEN srv.pdata = addr /\ dc.waiting = addr /\ "pdata" \notin srv.kept
  ELSE Address = addr

(* A transfer both ends call complete has put there exactly the file that   *)
(* was meant, restarted or not and whatever was aborted before it; but for  *)
(* what an aborted one leaves in secure.c, a restart point it leaves with   *)
(* the server where neither PORT nor PASV is sent, a type the client has    *)
(* lost track of, and an ASCII put restarted after a newline (ftp.c:855,    *)
(* ftpd.c:1184).                                                            *)
Delivered ==
  done.cmd # "none" /\ ~tainted /\ ~cut /\ done.exact => done.have = done.want

(* Every transfer and every abort ends: at the prompt, or with the          *)
(* connection lost; or astray, where a local restart failed; or in accept() *)
(* until ^C, where the server uses a connection an aborted NLST has left.   *)
(* Not so where the client waits for a server that does not answer: it      *)
(* reads on from the connection of an aborted NLST, which is not closed     *)
(* (ftp.c:2132, ftpd.c:2390); the server accepts where an interrupted PASV  *)
(* has kept the client from connecting (ftpd.c:1304); a name of an NLST was *)
(* too long (ftpd.c:2448).                                                  *)
AtRest == cli.at \in {"prompt", "asked", "lost", "astray", "accepting"}
Undrained == cli.at = "draining" /\ srv.at = "idle" /\ srv.kept # {} /\ dc.flow = <<>> /\ ~dc.eof
Unanswered == Undrained \/ srv.at = "accepting" \/ srv.mute
Ends == ~AtRest ~> AtRest \/ Unanswered
=============================================================================
