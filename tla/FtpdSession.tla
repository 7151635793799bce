--------------------------- MODULE FtpdSession ---------------------------
(* The session of ftpd as its handlers see it (ftpd.c, ftpcmd.y): who the   *)
(* peer has proved to be, who is logged in, how commands and replies are    *)
(* protected.  Each handler is an operator from the session to the session  *)
(* after it, with the replies it gave appended to said; the module that     *)
(* composes the server with a client owns the variable.  The argument ok    *)
(* of a handler is the outcome of the system calls it makes.  Continuation  *)
(* lines (lreply) are part of the reply that ends them.                     *)
EXTENDS Naturals, Sequences

CONSTANTS
  Names,        \* the user names of the model
  Accounts,     \* those with an entry in the password file ("ftp" is the guest's)
  Denied,       \* those ftpusers denies, or whose shell is not a listed one
  KUserOK,      \* those the Kerberos principal of the client may act as
  MaxRounds     \* bound: GSSAPI tokens the acceptor asks for beyond the first

NoName == "none"
Levels == {"C", "S", "P"}

ASSUME NamesAssumption ==
  /\ NoName \notin Names
  /\ Accounts \subseteq Names
  /\ Denied \subseteq Names
  /\ KUserOK \subseteq Accounts
  /\ MaxRounds \in Nat

Options ==
  [authlevel : {"none", "authenticate", "authorize"},
   want_creds : BOOLEAN, allow_ccc : BOOLEAN]

Started ==
  [up |-> TRUE, auth_type |-> FALSE, temp_auth_type |-> FALSE, rounds |-> 0,
   clevel |-> "C", dlevel |-> "C", maxbuf |-> FALSE, ccc_ok |-> FALSE,
   logged_in |-> FALSE, guest |-> FALSE,
   authorized |-> FALSE, have_creds |-> FALSE, askpasswd |-> FALSE,
   pw |-> NoName, login_attempts |-> 0, fromname |-> FALSE, said |-> <<>>]

(* reply(): sealed once the peer is authenticated, encrypted if the last    *)
(* command was.                                                             *)
Protection(s) ==
  CASE ~s.auth_type -> "clear"
    [] s.auth_type /\ s.clevel = "P" -> "ENC"
    [] OTHER -> "MIC"
Reply(s, code) ==
  [s EXCEPT !.said = Append(@, [code |-> code, prot |-> Protection(s)])]

PerrorReply(s, ok, good, bad) == Reply(s, IF ok THEN good ELSE bad)

Dologout(s) == [s EXCEPT !.up = FALSE]

EndLogin(s) ==
  [s EXCEPT !.have_creds = FALSE, !.pw = NoName, !.logged_in = FALSE, !.guest = FALSE]

Login(s, ok) ==
  IF ~ok THEN EndLogin(Reply(s, 550))
  ELSE LET t == [s EXCEPT !.logged_in = TRUE] IN
       IF s.guest THEN Reply(t, 230)
       ELSE IF s.askpasswd THEN Reply([t EXCEPT !.askpasswd = FALSE], 230)
       ELSE t

GuestUser(s) ==
  IF {"ftp", "anonymous"} \cap Denied # {} \/ "ftp" \notin Accounts THEN Reply(s, 530)
  ELSE Reply([s EXCEPT !.pw = "ftp", !.guest = TRUE, !.askpasswd = TRUE], 331)

(* user() for a peer that has authenticated.  login() has replied already   *)
(* when it fails, or when an earlier USER had asked for a password.         *)
AuthenticatedUser(o, s, name, ok) ==
  LET t == [s EXCEPT !.authorized = name \in KUserOK] IN
  IF ~t.authorized /\ o.authlevel = "authorize" THEN Reply([t EXCEPT !.pw = NoName], 530)
  ELSE IF ~t.authorized \/ (o.want_creds /\ ~t.have_creds)
       THEN Reply([t EXCEPT !.askpasswd = TRUE], 331)
  ELSE Reply(Login(t, ok), 232)

NamedUser(o, s, name, ok) ==
  LET t == [s EXCEPT !.pw = IF name \in Accounts THEN name ELSE NoName] IN
  IF o.authlevel # "none" /\ ~s.auth_type THEN Reply(s, 530)
  ELSE IF name \in Accounts \cap Denied THEN Reply([s EXCEPT !.pw = NoName], 530)
  ELSE IF s.auth_type THEN AuthenticatedUser(o, t, name, ok)
  ELSE Reply([t EXCEPT !.askpasswd = TRUE], 331)

BugUser(o, s, name, ok) ==
  LET t == [s EXCEPT !.authorized = FALSE, !.guest = FALSE] IN
  IF s.logged_in /\ s.guest THEN Reply(s, 530)
  ELSE IF name \in {"ftp", "anonymous"} THEN GuestUser(t) ELSE NamedUser(o, t, name, ok)
User(o, s, name, ok) ==
  IF s.logged_in /\ s.guest THEN Reply(s, 530)
  ELSE LET t == [(IF s.logged_in THEN EndLogin(s) ELSE s)
                   EXCEPT !.authorized = FALSE, !.guest = FALSE] IN
       IF name \in {"ftp", "anonymous"} THEN GuestUser(t) ELSE NamedUser(o, t, name, ok)

(* kpass() and crypt(): a right password gives credentials when the server  *)
(* wants them and the KDC answers, and then does not fall back on the       *)
(* local password.                                                          *)
PasswordHolds(o, s, right, kdc) == right /\ s.pw # NoName /\ (kdc \/ ~o.want_creds)

Pass(o, s, right, kdc, ok) ==
  IF s.authorized /\ ~o.want_creds THEN Reply(s, 202)
  ELSE IF s.logged_in \/ ~s.askpasswd THEN Reply(s, 503)
  ELSE IF s.guest THEN Login([s EXCEPT !.login_attempts = 0], ok)
  ELSE IF PasswordHolds(o, s, right, kdc)
       THEN Login([s EXCEPT !.login_attempts = 0,
                            !.have_creds = @ \/ (kdc /\ o.want_creds)], ok)
  ELSE LET t == [s EXCEPT !.pw = NoName, !.login_attempts = @ + 1] IN
       IF t.login_attempts >= 3 THEN Dologout(Reply(t, 421)) ELSE Reply(t, 530)

Auth(s, known) ==
  IF s.auth_type THEN Reply(s, 534)
  ELSE IF known THEN Reply([s EXCEPT !.temp_auth_type = TRUE], 334)
  ELSE Reply(s, 504)

(* auth_data(): the 235 that carries the token is sent before auth_type is  *)
(* set, and so in the clear.                                                *)
AuthData(o, s, result, deleg) ==
  CASE s.auth_type \/ ~s.temp_auth_type -> Reply(s, 503)
    [] ~s.auth_type /\ s.temp_auth_type /\ result = "garbled" -> Reply(s, 501)
    [] ~s.auth_type /\ s.temp_auth_type /\ result = "error" -> Reply(s, 535)
    [] ~s.auth_type /\ s.temp_auth_type /\ result = "continue" ->
         Reply([s EXCEPT !.rounds = @ + 1], 335)
    [] ~s.auth_type /\ s.temp_auth_type /\ result = "complete" ->
         [Reply(s, 235) EXCEPT !.auth_type = TRUE, !.temp_auth_type = FALSE,
                               !.have_creds = @ \/ (deleg /\ o.want_creds)]
TokenResults(s) ==
  {"garbled", "error", "complete"} \union (IF s.rounds < MaxRounds THEN {"continue"} ELSE {})

Setdlevel(s, level) ==
  IF level = "C" \/ s.auth_type THEN Reply([s EXCEPT !.dlevel = level], 200)
  ELSE Reply(s, 536)
Prot(s, level) == IF s.maxbuf THEN Setdlevel(s, level) ELSE Reply(s, 503)
Pbsz(s) == IF s.auth_type THEN Reply([s EXCEPT !.maxbuf = TRUE], 200) ELSE Reply(s, 503)
Ccc(o, s) ==
  IF ~o.allow_ccc THEN Reply(s, 534)
  ELSE IF s.clevel = "C" /\ ~s.ccc_ok THEN Reply(s, 533)
  ELSE Reply([s EXCEPT !.ccc_ok = TRUE], 200)

(* The commands on files; done is the session after the command.            *)
(* check_login has replied when it refuses; a guest is refused a second     *)
(* time by nonguest.                                                        *)
CheckLogin(s, done) == IF s.logged_in THEN done ELSE Reply(s, 530)
Nonguest(s, done) == IF s.guest THEN Reply(CheckLogin(s, s), 550) ELSE CheckLogin(s, done)

FileCommands == {"CWD", "CDUP", "PWD", "DELE", "SIZE", "MDTM", "LSTAT", "UMASK"}
OwnerCommands == {"MKD", "RMD", "SETUMASK", "CHMOD"}
Unrestricted == [SYST |-> 215, NOOP |-> 200, HELP |-> 214, STAT |-> 211, IDLE |-> 200,
                 ALLO |-> 202, STRU |-> 200, MODE |-> 200, ABOR |-> 225]
Unimplemented == {"ACCT", "REIN", "SMNT", "MAIL"}

OnFile(s, ok) == CheckLogin(s, PerrorReply(s, ok, 250, 550))
OfOwner(s, ok) == Nonguest(s, PerrorReply(s, ok, 250, 550))
Renamefrom(s, ok) == CheckLogin(s, PerrorReply([s EXCEPT !.fromname = ok], ok, 350, 550))
BugRenamecmd(s, ok) == IF s.fromname THEN PerrorReply(s, ok, 250, 550) ELSE s
Renamecmd(s, ok) == IF s.fromname THEN PerrorReply(s, ok, 250, 550) ELSE Reply(s, 503)

(* cmd: what the grammar forgets after each command but RNFR and REST; a    *)
(* line the scanner refuses is no command and forgets nothing.              *)
Forget(s) == [s EXCEPT !.fromname = FALSE]

Quit(s) == Dologout(Reply(s, 221))
Toolong(s) == Dologout(Reply(s, 421))
EndOfInput(s) == Dologout(Reply(s, 221))

(* One command the scanner has accepted.  e is what the environment decides.*)
Command(o, s, c, e) ==
  CASE c.cmd = "USER" -> Forget(User(o, s, c.arg, e.ok))
    [] c.cmd = "PASS" -> Forget(Pass(o, s, c.arg = "right", e.kdc, e.ok))
    [] c.cmd = "AUTH" -> Forget(Auth(s, c.arg = "GSSAPI"))
    [] c.cmd = "ADAT" -> Forget(AuthData(o, s, e.result, e.ok))
    [] c.cmd = "PBSZ" -> Forget(Pbsz(s))
    [] c.cmd = "PROT" -> Forget(Prot(s, c.arg))
    [] c.cmd = "CCC" -> Forget(Ccc(o, s))
    [] c.cmd \in FileCommands -> Forget(OnFile(s, e.ok))
    [] c.cmd \in OwnerCommands -> Forget(OfOwner(s, e.ok))
    [] c.cmd = "RNFR" -> Renamefrom(s, e.ok)
    [] c.cmd = "RNTO" -> Forget(Renamecmd(s, e.ok))
    [] c.cmd \in DOMAIN Unrestricted -> Forget(Reply(s, Unrestricted[c.cmd]))
    [] c.cmd = "QUIT" -> Quit(s)
    [] c.cmd \in Unimplemented -> Reply(s, 502)
    [] OTHER -> Reply(s, 500)

(* ftpd_getline(): the protection of a line, then the command under it.  An *)
(* AUTH in the clear is taken for a protected line and cannot be decoded.   *)
Clear(o, s, c, e) ==
  CASE ~s.auth_type -> Command(o, s, c, e)
    [] s.auth_type /\ c.cmd = "AUTH" -> Reply(s, 501)
    [] s.auth_type /\ c.cmd # "AUTH" /\ s.ccc_ok ->
         Command(o, [s EXCEPT !.clevel = "C"], c, e)
    [] OTHER -> Reply(s, 533)
Protected(o, s, c, e) ==
  LET t == [s EXCEPT !.clevel = c.prot] IN
  IF ~s.auth_type THEN Reply(s, 503)
  ELSE IF o.authlevel # "none" /\ c.prot = "S" /\ c.cmd = "PASS" THEN Reply(t, 530)
  ELSE Command(o, t, c, e)
Getline(o, s, c, e) ==
  IF c.prot = "C" THEN Clear(o, s, c, e) ELSE Protected(o, s, c, e)
=============================================================================
