---------------------------- MODULE FtpSession ----------------------------
(* The control connection between ftp (ftp.c, cmds.c) and ftpd: connecting, *)
(* authenticating, setting the levels of protection, logging in, and the    *)
(* commands that open no data connection.  The client sends a command and   *)
(* waits for its reply (command(), getreply()); cli.at names the wait it is *)
(* in.  A command may be interrupted: its reply is read all the same, and   *)
(* what would have followed is not done (cmdabort(), intr()).               *)
EXTENDS FtpdSession

CONSTANTS
  Typed,        \* the users a person logs in as
  Quoted,       \* the commands a person may send with quote
  Ordinary,     \* those that a command of ftp stands for and that need no more
  MaxTurns,     \* bound: commands and interrupts of the person, and servers killed
  MaxSlip,      \* bound: replies without a command that the client may go on with
  Setups        \* the options the two programs are started with

(* A person may quote any line.  A PROT with another argument than a level  *)
(* is refused by ftpd and changes nothing (setdlevel(), ftpcmd.y:702); the  *)
(* other commands of ftp send none.                                         *)
ASSUME PersonAssumption ==
  /\ Quoted \subseteq
       {line \in [cmd : STRING, arg : STRING] : line.cmd = "PROT" => line.arg \in Levels}
  /\ Ordinary \subseteq {line \in [cmd : STRING, arg : STRING] : line.cmd # "PROT"}
  /\ Typed \subseteq STRING

VARIABLES
  opt,          \* the options of both programs, fixed when they start
  srv,          \* the session of ftpd
  cli,          \* the state of ftp
  c2s, s2c,     \* the control connection: lines not read yet
  claim,        \* history: who the server has let a peer say it is, and how that was shown
  slip,         \* history: the server has answered one command twice
  cut,          \* history: a PROT was interrupted or quoted, its effect lost on the client
  turns         \* bound: what the person may still do

vars == <<opt, srv, cli, c2s, s2c, claim, slip, cut, turns>>

Disconnected ==
  [at |-> "prompt", connected |-> FALSE, auth_type |-> FALSE, clevel |-> "C", dlevel |-> "C",
   oldclevel |-> "C", auto |-> FALSE, trial |-> 0, user |-> NoName, level |-> "C",
   abrtflag |-> FALSE]

Send(cmd, arg) == [cmd |-> cmd, arg |-> arg]
(* secure_command() and the wait for the reply.                             *)
Ask(c, at, line) ==
  [cli |-> [c EXCEPT !.at = at, !.abrtflag = FALSE],
   out |-> <<[cmd |-> line.cmd, arg |-> line.arg,
              prot |-> IF c.auth_type THEN c.clevel ELSE "C"]>>]
Rest(c) == [cli |-> [c EXCEPT !.at = "prompt", !.auto = FALSE, !.abrtflag = FALSE,
                               !.trial = 0, !.user = NoName, !.level = "C", !.oldclevel = "C"],
            out |-> <<>>]
(* lostpeer()                                                               *)
Lostpeer(c) == Rest([c EXCEPT !.connected = FALSE, !.auth_type = FALSE,
                              !.clevel = "C", !.dlevel = "C"])

(* setpeer() once connected: authentication, then login(), then SYST.       *)
AskSyst(c) == Ask(c, "syst", Send("SYST", ""))
AskUser(c) == Ask(c, "user", Send("USER", c.user))
AutoLogin(c) ==
  AskUser([c EXCEPT !.clevel = IF c.auth_type /\ @ = "C" THEN "S" ELSE @])
AfterLogin(c) == IF c.auto THEN AskSyst(c) ELSE Rest(c)

AskPbsz(c, level) == Ask([c EXCEPT !.level = level], "pbsz", Send("PBSZ", ""))
AfterAuth(c) ==
  IF c.auth_type /\ opt.autoencrypt THEN AskPbsz([c EXCEPT !.clevel = "P"], "P")
  ELSE AutoLogin(c)

(* do_auth(): a trial for each of the two service names for which the GSS   *)
(* library has a token; next is the next of them, 3 when there is none.  A  *)
(* token that is refused is followed by a new AUTH, whose answer does not   *)
(* matter.  With mutual authentication the client has always one token to   *)
(* take after its last ADAT; accepted says whether the library takes it.    *)
AskAdat(c, trial) ==
  IF trial > 2 THEN AfterAuth(c) ELSE Ask([c EXCEPT !.trial = trial], "adat", Send("ADAT", ""))
AfterToken(c, e) ==
  IF e.accepted THEN AfterAuth([c EXCEPT !.auth_type = TRUE]) ELSE AskAdat(c, e.next)
OnAuth(c, n, e) == IF n = 3 THEN AskAdat(c, e.next) ELSE AfterAuth(c)
BugOnAdat(c, n, e) ==
  IF n \in {2, 3} THEN AfterToken(c, e) ELSE Ask(c, "reauth", Send("AUTH", "GSSAPI"))
OnAdat(c, n, e) ==
  CASE n = 2 -> AfterToken(c, e)
    [] n = 3 -> AskAdat(c, IF e.accepted THEN c.trial ELSE e.next)
    [] OTHER -> Ask(c, "reauth", Send("AUTH", "GSSAPI"))

(* setpbsz() gives up the program when it is refused; setdlevel().          *)
OnPbsz(c, n) ==
  IF n = 2 THEN Ask(c, "prot", Send("PROT", c.level))
  ELSE [Lostpeer(c) EXCEPT !.cli.at = "exited"]
OnProt(c, n) ==
  LET d == [c EXCEPT !.dlevel = IF n = 2 THEN c.level ELSE @] IN
  IF c.auto THEN AutoLogin(d) ELSE Rest(d)

(* login() and the command user: a password is sent encrypted if it can be. *)
(* login() finds out with PWD whether a dummy password is wanted, the       *)
(* command user always sends it.                                            *)
AskPassword(c, word) ==
  Ask([c EXCEPT !.oldclevel = c.clevel, !.clevel = IF c.auto \/ @ = "S" THEN "P" ELSE @],
      "pass", Send("PASS", word))
OnUser(c, n, e) ==
  CASE n = 2 /\ c.auto -> Ask(c, "pwdcheck", Send("PWD", ""))
    [] n = 2 /\ ~c.auto -> Ask(c, "dummy", Send("PASS", "dummy"))
    [] n = 3 -> AskPassword(c, e.word)
    [] OTHER -> AfterLogin(c)
OnPwdcheck(c, n) == IF n # 2 THEN Ask(c, "dummy", Send("PASS", "dummy")) ELSE AfterLogin(c)
OnDummy(c, n) ==
  IF n = 3 /\ ~c.auto THEN Ask(c, "last", Send("ACCT", "")) ELSE AfterLogin(c)
OnPass(c, n) ==
  LET d == [c EXCEPT !.clevel = IF @ = "P" THEN c.oldclevel ELSE @] IN
  IF n = 3 THEN Ask(d, "last", Send("ACCT", "")) ELSE AfterLogin(d)

OnGreeting(c, n) ==
  IF n > 2 THEN Lostpeer(c)
  ELSE LET d == [c EXCEPT !.connected = TRUE, !.clevel = "C", !.dlevel = "C"] IN
       IF opt.autoauth THEN Ask(d, "auth", Send("AUTH", "GSSAPI")) ELSE AskSyst(d)

OnCcc(c, n) == Rest([c EXCEPT !.clevel = IF n = 2 THEN "C" ELSE @])
OnRnfr(c, n) == IF n = 3 THEN Ask(c, "other", Send("RNTO", "")) ELSE Rest(c)

(* disconnect() and quit() close the connection whatever the reply is.      *)
OnQuit(c) ==
  LET d == Rest([c EXCEPT !.connected = FALSE, !.auth_type = FALSE, !.dlevel = "C"]) IN
  IF c.at = "quit" THEN [d EXCEPT !.cli.at = "exited"] ELSE d
(* lostpeer(), after which quit() and setpbsz() still exit.                 *)
Gone(c) ==
  IF c.at \in {"quit", "pbsz"} /\ ~c.abrtflag
  THEN [Lostpeer(c) EXCEPT !.cli.at = "exited"] ELSE Lostpeer(c)

(* What follows the reply, n its first digit, e what is decided elsewhere.  *)
Continue(c, n, e) ==
  CASE c.at = "greeting" -> OnGreeting(c, n)
    [] c.at = "auth" -> OnAuth(c, n, e)
    [] c.at = "adat" -> OnAdat(c, n, e)
    [] c.at = "reauth" -> AskAdat(c, e.next)
    [] c.at = "pbsz" -> OnPbsz(c, n)
    [] c.at = "prot" -> OnProt(c, n)
    [] c.at = "user" -> OnUser(c, n, e)
    [] c.at = "pwdcheck" -> OnPwdcheck(c, n)
    [] c.at = "dummy" -> OnDummy(c, n)
    [] c.at = "last" -> AfterLogin(c)
    [] c.at = "pass" -> OnPass(c, n)
    [] c.at = "ccc" -> OnCcc(c, n)
    [] c.at = "rnfr" -> OnRnfr(c, n)
    [] c.at \in {"disconnect", "quit"} -> OnQuit(c)
    [] c.at \in {"syst", "other"} -> Rest(c)

Follow(step) == cli' = step.cli /\ c2s' = c2s \o step.out

----------------------------------------------------------------------------
Init ==
  /\ opt \in Setups
  /\ srv = [Started EXCEPT !.up = FALSE]
  /\ cli = Disconnected
  /\ c2s = <<>> /\ s2c = <<>>
  /\ claim = [name |-> NoName, shown |-> FALSE]
  /\ slip = FALSE /\ cut = FALSE /\ turns = MaxTurns

Turn == turns > 0 /\ turns' = turns - 1
AtPrompt ==
  cli.at = "prompt" /\ cli.connected /\ (srv.up => Len(s2c) <= MaxSlip) /\ Turn
Open(u) ==
  /\ cli.at = "prompt" /\ ~cli.connected /\ Turn
  /\ cli' = [Disconnected EXCEPT !.at = "greeting", !.auto = TRUE, !.user = u]
  /\ srv' = Started
  /\ c2s' = <<>>
  /\ s2c' = <<[code |-> 220, prot |-> "clear"]>>
  /\ claim' = [name |-> NoName, shown |-> FALSE]
  /\ slip' = FALSE /\ cut' = FALSE
  /\ UNCHANGED opt

ClientOnly == UNCHANGED <<opt, srv, s2c, claim, slip, cut>>
LoginAs(u) == AtPrompt /\ Follow(AskUser([cli EXCEPT !.user = u])) /\ ClientOnly
SetDataLevel(level) ==
  /\ AtPrompt /\ cli.auth_type
  /\ Follow(IF level = "C" THEN Ask([cli EXCEPT !.level = level], "prot", Send("PROT", level))
            ELSE AskPbsz(cli, level))
  /\ ClientOnly
SetCommandLevel(level) ==
  /\ AtPrompt /\ cli.auth_type
  /\ Follow(IF level = "C" THEN Ask(cli, "ccc", Send("CCC", ""))
            ELSE Rest([cli EXCEPT !.clevel = level]))
  /\ ClientOnly
Rename == AtPrompt /\ Follow(Ask(cli, "rnfr", Send("RNFR", ""))) /\ ClientOnly
(* quote1() sends the line as it is and makes nothing of its reply.         *)
Quote(q) ==
  /\ AtPrompt /\ Follow(Ask(cli, "other", q))
  /\ cut' = (cut \/ q.cmd = "PROT")
  /\ UNCHANGED <<opt, srv, s2c, claim, slip>>
(* pwd, mkdir, chmod, idle, ...  The second try as XPWD, XMKD and so on     *)
(* follows a 500, which this ftpd answers only to what it does not know.    *)
Simple(line) == AtPrompt /\ Follow(Ask(cli, "other", line)) /\ ClientOnly
Disconnect(at) == AtPrompt /\ Follow(Ask(cli, at, Send("QUIT", ""))) /\ ClientOnly

Waiting == cli.at \notin {"prompt", "exited"}
Interrupt ==
  /\ cli.connected /\ Waiting /\ ~cli.abrtflag /\ Turn
  /\ cli' = [cli EXCEPT !.abrtflag = TRUE]
  /\ UNCHANGED <<opt, srv, c2s, s2c, claim, slip, cut>>

(* The tokens of the GSS library, and the password the person types.        *)
Outcomes ==
  [accepted : IF cli.at = "adat" THEN BOOLEAN ELSE {FALSE},
   next : IF cli.at \in {"auth", "adat", "reauth"} THEN (cli.trial + 1) .. 3 ELSE {3},
   word : IF cli.at = "user" THEN {"right", "wrong"} ELSE {"none"}]
(* getreply(): once authenticated the client passes over what is not        *)
(* protected; before, a protected reply is one whose first digit is 6.      *)
FirstDigit(r) == IF r.prot # "clear" /\ ~cli.auth_type THEN 6 ELSE r.code \div 100
Getreply(e) ==
  /\ Waiting /\ s2c # <<>>
  /\ s2c' = Tail(s2c)
  /\ LET r == Head(s2c)
         n == FirstDigit(r) IN
     IF cli.auth_type /\ r.prot = "clear" THEN UNCHANGED <<cli, c2s, cut>>
     ELSE /\ Follow(CASE n = 4 /\ r.code = 421 -> Gone(cli)
                      [] cli.abrtflag /\ ~(n = 4 /\ r.code = 421) -> Rest(cli)
                      [] OTHER -> Continue(cli, n, e))
          /\ cut' = (cut \/ (cli.abrtflag /\ cli.at = "prot"))
  /\ UNCHANGED <<opt, srv, claim, slip, turns>>
(* The end of the connection: QUIT expects it, to the rest it is lost.      *)
GetreplyEof ==
  /\ Waiting /\ s2c = <<>> /\ ~srv.up
  /\ Follow(CASE cli.at \notin {"disconnect", "quit"} -> Gone(cli)
              [] cli.at \in {"disconnect", "quit"} /\ cli.abrtflag -> Rest(cli)
              [] OTHER -> OnQuit(cli))
  /\ ClientOnly /\ UNCHANGED turns

(* The server reads one command and answers it.                             *)
Environment(s, c) ==
  [ok : BOOLEAN, kdc : IF c.cmd = "PASS" THEN BOOLEAN ELSE {FALSE},
   result : IF c.cmd = "ADAT" THEN TokenResults(s) ELSE {"garbled"}]
Claimed(c, t) ==
  LET last == t.said[Len(t.said)].code IN
  CASE c.cmd = "USER" /\ last \in {331, 232} ->
         [name |-> c.arg, shown |-> srv.auth_type /\ c.arg \in KUserOK]
    [] c.cmd = "PASS" /\ c.arg = "right" /\ last = 230 -> [claim EXCEPT !.shown = TRUE]
    [] OTHER -> claim
Serve ==
  /\ srv.up /\ c2s # <<>>
  /\ \E e \in Environment(srv, Head(c2s)) :
     LET c == Head(c2s)
         t == Getline(opt, srv, c, e) IN
     /\ srv' = [t EXCEPT !.said = <<>>]
     /\ s2c' = s2c \o t.said
     /\ slip' = (slip \/ Len(t.said) > 1)
     /\ claim' = Claimed(c, t)
  /\ c2s' = Tail(c2s)
  /\ UNCHANGED <<opt, cli, cut, turns>>
(* The alarm of yylex(), and the end of a connection the client has left.   *)
Leave(t) ==
  /\ srv' = [t EXCEPT !.said = <<>>]
  /\ s2c' = s2c \o t.said
  /\ UNCHANGED <<opt, cli, c2s, claim, slip, cut, turns>>
Timeout == srv.up /\ c2s = <<>> /\ cli.connected /\ cli.at = "prompt" /\ Leave(Toolong(srv))
Hangup == srv.up /\ c2s = <<>> /\ ~cli.connected /\ cli.at # "greeting" /\ Leave(EndOfInput(srv))
(* The server's process is killed, with or without a command to answer.     *)
Killed ==
  /\ srv.up /\ (cli.connected \/ cli.at = "greeting") /\ Turn
  /\ srv' = [srv EXCEPT !.up = FALSE]
  /\ UNCHANGED <<opt, cli, c2s, s2c, claim, slip, cut>>

Next ==
  \/ \E u \in Typed : Open(u) \/ LoginAs(u)
  \/ \E level \in Levels : SetDataLevel(level) \/ SetCommandLevel(level)
  \/ Rename
  \/ \E q \in Quoted : Quote(q)
  \/ \E line \in Ordinary : Simple(line)
  \/ \E at \in {"disconnect", "quit"} : Disconnect(at)
  \/ Interrupt
  \/ \E e \in Outcomes : Getreply(e)
  \/ GetreplyEof
  \/ Serve \/ Timeout \/ Hangup \/ Killed

Spec == Init /\ [][Next]_vars

----------------------------------------------------------------------------
(* Command and reply stay in step: while the client waits there is one line *)
(* or one reply on the way and it is one the client will take for its       *)
(* answer; while it does not wait there is nothing.  This holds of every    *)
(* command that is answered once, interrupted or not (ftp.c:492, 546).      *)
InStep ==
  srv.up /\ ~slip /\ (cli.connected \/ Waiting) =>
    /\ Len(c2s) + Len(s2c) = IF Waiting THEN 1 ELSE 0
    /\ \A i \in DOMAIN s2c : cli.auth_type => s2c[i].prot # "clear"

(* Whoever is logged in is the user of the last USER the server did not     *)
(* refuse, and has shown it with the password or with Kerberos since then,  *)
(* whatever was tried in between (ftpd.c:665, 928).  RNTO is the one        *)
(* command on files without check_login (ftpcmd.y:371): it relies on the    *)
(* name RNFR left being forgotten before a login can end.                   *)
Identity ==
  /\ srv.logged_in =>
       /\ srv.pw = IF claim.name \in {"ftp", "anonymous"} THEN "ftp" ELSE claim.name
       /\ srv.guest \/ claim.shown
  /\ srv.fromname => srv.logged_in

(* The two programs agree: the client never believes in an authentication   *)
(* the server has not made, and at rest both have the same level for data,  *)
(* unless a PROT was interrupted between its effect here and there, or sent *)
(* with quote.                                                              *)
LevelsAgree ==
  srv.up /\ cli.connected /\ ~slip =>
    /\ cli.auth_type => srv.auth_type
    /\ ~Waiting /\ ~cut => cli.dlevel = srv.dlevel
=============================================================================
