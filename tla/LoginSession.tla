---------------------------- MODULE LoginSession ----------------------------
(* The sessions of one host: telnetd, klogind or init starts login.krb5 on  *)
(* a terminal and clears up after it.  The two servers take the same steps  *)
(* in orders of their own: klogind authenticates and stores forwarded       *)
(* credentials before it has a pty and catches SIGCHLD before it forks,     *)
(* telnetd has its pty first and catches SIGCHLD when login is running.     *)
EXTENDS Login

CONSTANTS
  Kinds,     \* the sessions: functions from Sessions to [server, asks], the
             \* requests a client may make: [name, pre, forward]
  Lines,     \* the numbers of the ptys
  Console,   \* the line of init's getty
  TicketsOn  \* the values of krb5_get_tickets

\* Two ptys whose numbers end in the same three digits share an entry.
ASSUME LineAssumption ==
  /\ Lines \subseteq Nat \ {0} /\ Console \in Nat \ {0}
  /\ \A a, b \in Lines : IdOf(a) = IdOf(b) => a = b
  /\ Console \notin Lines

\* What a client may ask for: an account, no name or one without an account.
ASSUME RequestAssumption ==
  /\ Kinds \subseteq [Sessions -> [server : {"telnetd", "klogind", "getty", "none"},
                                   asks : SUBSET [name : Accounts \union {"none", "unknown"},
                                                  pre : BOOLEAN, forward : BOOLEAN]]]
  /\ TicketsOn \subseteq BOOLEAN

VARIABLE kind    \* the server and the requests of each session, fixed
vars == <<getTickets, host, srv, log, child, cache, hist, kind>>

Fixed == <<getTickets, kind>>
SrvAt(s, pc) == srv[s].at = pc
SrvTo(s, pc) == srv' = [srv EXCEPT ![s].at = pc]
Active(s) == Alive(log[s]) \/ Alive(child[s]) \/ srv[s].at \notin {"idle", "gone"}
Free(l) == \A s \in Sessions : srv[s].line = l => ~Active(s)

Init ==
  /\ getTickets \in TicketsOn /\ kind \in Kinds
  /\ host = [utmp |-> <<>>, wtmp |-> [l \in Lines \union {Console} |-> <<>>],
             owner |-> [l \in Lines \union {Console} |-> "root"]]
  /\ srv = [s \in Sessions |-> [at |-> "idle", line |-> 0, up |-> TRUE, hung |-> FALSE]]
  /\ log = [s \in Sessions |-> NewLog("none")]
  /\ child = [s \in Sessions |-> NewChild("none")]
  /\ cache = [s \in Sessions |-> NoCache]
  /\ hist = [s \in Sessions |->
       [late |-> FALSE, kept |-> FALSE, abandoned |-> FALSE, missed |-> FALSE, earlier |-> {}]]
----------------------------------------------------------------------------
(* The servers up to the fork.  What ends one of them here ends it without  *)
(* cleanup(), and leaves the credentials a client has forwarded.            *)
Abandon(s) ==
  /\ SrvTo(s, "gone")
  /\ hist' = [hist EXCEPT ![s].abandoned = TRUE]
HasPtyNext(s) == <<kind[s].server, srv[s].at>> \in {<<"telnetd", "idle">>, <<"klogind", "half">>}
AuthNext(s) == <<kind[s].server, srv[s].at>> \in {<<"klogind", "idle">>, <<"telnetd", "half">>}
NextStage(s) == IF SrvAt(s, "idle") THEN "half" ELSE "ready"

GetPty(s) ==
  /\ HasPtyNext(s)
  /\ \/ \E l \in Lines : Free(l) /\ srv' = [srv EXCEPT ![s].at = NextStage(s), ![s].line = l]
        /\ UNCHANGED hist
     \/ (\A l \in Lines : ~Free(l)) /\ Abandon(s)
  /\ UNCHANGED <<host, log, child, cache, Fixed>>

\* The account, whether login need not ask, and the forwarded credentials,
\* which are of the client's principal.
Authenticate(s) ==
  /\ AuthNext(s)
  /\ \E ask \in kind[s].asks :
       /\ cache' = IF ask.forward THEN [cache EXCEPT ![s] = [owner |-> "root", creds |-> "client"]] ELSE cache
       /\ \/ /\ log' = [log EXCEPT ![s].given = ask.name, ![s].pre = ask.pre]
             /\ SrvTo(s, NextStage(s)) /\ UNCHANGED hist
          \/ ask.forward /\ Abandon(s) /\ UNCHANGED log
  /\ UNCHANGED <<host, child, Fixed>>

\* The client goes away before the fork: ttloop() exits, klogind's read fails.
GoesAway(s) ==
  /\ srv[s].at = "half"
  /\ Abandon(s)
  /\ UNCHANGED <<host, log, child, cache, Fixed>>

Fork(s) ==
  /\ SrvAt(s, "ready")
  /\ SrvTo(s, "forked")
  /\ LogTo(s, IF kind[s].server = "telnetd" THEN "record" ELSE "slave")
  /\ UNCHANGED <<host, child, cache, hist, Fixed>>
----------------------------------------------------------------------------
(* The child up to login.  The byte on the pipe says the slave is open; an  *)
(* execv() that fails, a name with a hyphen and a Kerberos library that     *)
(* login cannot initialise are the end of the child.                        *)
RecordLogin(s) ==
  /\ At(s, "record")
  /\ host' = Update(s, "login", "LOGIN")
  /\ LogTo(s, IF kind[s].server = "telnetd" THEN "slave" ELSE "exec")
  /\ Late(s)
  /\ UNCHANGED <<srv, child, cache, Fixed>>
OpenSlave(s) ==
  /\ At(s, "slave")
  /\ \/ /\ host' = [host EXCEPT !.owner[srv[s].line] = "root"]
        /\ srv' = [srv EXCEPT ![s].at = IF @ = "forked" THEN "synced" ELSE @]
        /\ LogTo(s, IF kind[s].server = "telnetd" THEN "exec" ELSE "record")
     \/ LogTo(s, "gone") /\ UNCHANGED <<host, srv>>
  /\ UNCHANGED <<child, cache, hist, Fixed>>
Exec(s) ==
  /\ At(s, "exec")
  /\ LogTo(s, "init") \/ LogTo(s, "gone")
  /\ UNCHANGED <<host, srv, child, cache, hist, Fixed>>
\* The parent reads the byte, or the end of the pipe.
Serve(s) ==
  /\ SrvAt(s, "synced")
  /\ SrvTo(s, "serve")
  /\ UNCHANGED <<host, log, child, cache, hist, Fixed>>
SlaveFailed(s) ==
  /\ SrvAt(s, "forked") /\ At(s, "gone")
  /\ IF kind[s].server = "klogind" THEN SrvTo(s, "utmp") /\ UNCHANGED hist ELSE Abandon(s)
  /\ UNCHANGED <<host, log, child, cache, Fixed>>
----------------------------------------------------------------------------
(* The end: of the connection, or of login, which is a SIGCHLD or the end   *)
(* of what the pty has to say.  Then cleanup().                             *)
NetDown(s) ==
  /\ kind[s].server # "getty" /\ srv[s].up /\ srv[s].at \in {"synced", "serve"}
  /\ srv' = [srv EXCEPT ![s].up = FALSE]
  /\ UNCHANGED <<host, log, child, cache, hist, Fixed>>
StartCleanup(s) ==
  /\ kind[s].server # "getty"
  /\ \/ SrvAt(s, "serve") /\ (~srv[s].up \/ At(s, "gone"))
     \/ SrvAt(s, "synced") /\ At(s, "gone") /\ kind[s].server = "klogind"
  /\ SrvTo(s, "utmp")
  /\ UNCHANGED <<host, log, child, cache, hist, Fixed>>

RecordDead(s) ==
  /\ SrvAt(s, "utmp")
  /\ host' = Update(s, "dead", "")
  /\ SrvTo(s, "tty")
  /\ UNCHANGED <<log, child, cache, hist, Fixed>>
ReturnTty(s) ==
  /\ SrvAt(s, "tty")
  /\ host' = [host EXCEPT !.owner[srv[s].line] = "root"]
  /\ SrvTo(s, "creds")
  /\ UNCHANGED <<log, child, cache, hist, Fixed>>
DestroyForwarded(s) ==
  /\ SrvAt(s, "creds")
  /\ cache' = [cache EXCEPT ![s] = NoCache]
  /\ SrvTo(s, "exit")
  /\ UNCHANGED <<host, log, child, hist, Fixed>>

\* exit() closes the master: SIGHUP for the controlling process, which dies
\* of it unless it is the one that watches with its handler set.
BugHangup(s) ==
  LET l == log[s].at IN
  IF l \in {"ready", "wait"} THEN [log EXCEPT ![s].hup = TRUE]
  ELSE IF l = "none" THEN log ELSE [log EXCEPT ![s] = NewLog("gone")]
Hangup(s) ==
  LET l == log[s].at IN
  IF l \in {"ready", "wait", "destroy"}
  THEN [log EXCEPT ![s].hup = TRUE, ![s].eintr = l = "wait"]
  ELSE IF l = "none" THEN log ELSE [log EXCEPT ![s] = NewLog("gone")]
Exit(s) ==
  /\ SrvAt(s, "exit")
  /\ srv' = [srv EXCEPT ![s].at = "gone", ![s].hung = TRUE]
  /\ log' = Hangup(s)
  /\ child' = IF At(s, "self") THEN [child EXCEPT ![s] = NewChild("gone")] ELSE child
  /\ UNCHANGED <<host, cache, hist, Fixed>>
----------------------------------------------------------------------------
(* init: an entry with an identifier of its own, which login has to find;   *)
(* the next getty only when the last login of the console is gone.          *)
GettyStarts(s) ==
  /\ kind[s].server = "getty" /\ SrvAt(s, "idle") /\ Free(Console)
  /\ srv' = [srv EXCEPT ![s].at = "serve", ![s].line = Console]
  /\ host' = [host EXCEPT !.utmp = PutLine(@, Entry("login", s, <<"getty", Console>>, Console, "LOGIN"))]
  /\ \E ask \in kind[s].asks : log' = [log EXCEPT ![s].at = "init", ![s].given = ask.name,
                                               ![s].pre = ask.pre]
  /\ UNCHANGED <<child, cache, hist, Fixed>>
GettyEnds(s) ==
  /\ kind[s].server = "getty" /\ SrvAt(s, "serve") /\ At(s, "gone")
  /\ host' = [host EXCEPT !.utmp = PutLine(@, Entry("dead", s, <<"getty", Console>>, Console, "")),
                          !.wtmp[Console] = Append(@, [type |-> "dead", pid |-> s])]
  /\ SrvTo(s, "gone")
  /\ UNCHANGED <<log, child, cache, hist, Fixed>>

Server(s) ==
  \/ GetPty(s) \/ Authenticate(s) \/ Fork(s) \/ Serve(s) \/ SlaveFailed(s) \/ StartCleanup(s)
  \/ RecordDead(s) \/ ReturnTty(s) \/ DestroyForwarded(s) \/ Exit(s) \/ GettyStarts(s) \/ GettyEnds(s)
LoginSteps(s) ==
  \/ RecordUser(s) \/ TakeTty(s) \/ DoFork(s) \/ Ready(s) \/ Wait(s) \/ PassHangup(s) \/ Reap(s)
  \/ DestroyTickets(s) \/ LeaveLogin(s) \/ LoginStarts(s)
ChildSteps(s) == Sync(s) \/ OwnGroup(s) \/ BecomeUser(s) \/ StoreTickets(s) \/ ShellReadsEnd(s)
Next ==
  \E s \in Sessions :
    \/ Server(s) \/ RecordLogin(s) \/ OpenSlave(s) \/ Exec(s) \/ GoesAway(s) \/ NetDown(s)
    \/ (Attempt(s) \/ LoginSteps(s) \/ ChildSteps(s) \/ Busy(s) \/ ShellDone(s)) /\ UNCHANGED kind

\* Every process runs; the alarm of login rings; who is at the terminal, the
\* shell and the connection owe nothing.
Fairness ==
  \A s \in Sessions :
    /\ WF_vars(Server(s)) /\ WF_vars(RecordLogin(s) \/ OpenSlave(s) \/ Exec(s))
    /\ WF_vars(LoginSteps(s) /\ UNCHANGED kind) /\ WF_vars(ChildSteps(s) /\ UNCHANGED kind)
Spec == Init /\ [][Next]_vars /\ Fairness
----------------------------------------------------------------------------
Over(s) == srv[s].at = "gone" /\ ~Alive(log[s]) /\ ~Alive(child[s])
EntriesOf(l) == {e \in Range(host.utmp) : Live(e) /\ e.line = l}

(* While a user works in a session its terminal has one live entry, that of *)
(* this session and user, whatever sessions of the terminal came before and *)
(* whoever wrote the first entry (utmp is what who, finger and talk read).  *)
Recorded ==
  \A s \in Sessions :
    child[s].at = "shell" /\ srv[s].at = "serve"
    => \E e \in EntriesOf(srv[s].line) :
         /\ EntriesOf(srv[s].line) = {e}
         /\ e.type = "user" /\ e.pid = s /\ e.user = log[s].user

(* A session that is over has left nothing: no live entry, each login in    *)
(* wtmp followed by its own logout, the terminal root's, no tickets.        *)
(* Excused: a server that ended before cleanup() was its way out, and a     *)
(* login that set something after the server had cleared it, which it does  *)
(* to tickets only when it does not ask for any and none stays to watch.    *)
Cleared ==
  /\ \A s \in Sessions :
       Over(s) /\ ~hist[s].abandoned
       => /\ cache[s] = NoCache \/ hist[s].kept
          /\ hist[s].late \/ \A e \in Range(host.utmp) : Live(e) => e.pid # s
          /\ \/ hist[s].late \/ kind[s].server = "getty"
             \/ \E t \in Sessions \ {s} : srv[t].line = srv[s].line
             \/ host.owner[srv[s].line] = "root"
  /\ \A l \in DOMAIN host.wtmp : \A i \in 1..(Len(host.wtmp[l]) - 1) :
       LET a == host.wtmp[l][i] b == host.wtmp[l][i + 1] IN
       a.type = "user" => hist[a.pid].late \/ (b.type = "dead" /\ b.pid = a.pid)

(* The shell of a user has credentials of this user or of the client the    *)
(* server authenticated, in a file it can read; who was let in for tickets  *)
(* has those.  Excused: tickets that an earlier, failed attempt of the same *)
(* login obtained stay in memory, and root's file of forwarded credentials  *)
(* stays when login has tickets of its own or does not ask for any.         *)
Credentials ==
  \A s \in Sessions :
    child[s].at = "shell" =>
      /\ \/ cache[s] = NoCache
         \/ cache[s].owner = log[s].user
         \/ cache[s] = [owner |-> "root", creds |-> "client"] /\ (log[s].tickets # "none" \/ ~getTickets)
      /\ cache[s].creds \in {"none", log[s].user, "client"} \union hist[s].earlier
      /\ log[s].how = "ticket" => log[s].tickets \in {log[s].user} \union hist[s].earlier
      /\ cache[s] = NoCache /\ log[s].tickets # "none" => srv[s].at \in {"exit", "gone"} \/ srv[s].at = "creds"

(* When the connection is lost every process of the session ends.  Excused: *)
(* a command that does not read its terminal, if the hangup came before the *)
(* process that passes it on could.                                         *)
HangsUp ==
  \A s \in Sessions :
    ~srv[s].up ~> (Over(s) \/ (hist[s].missed /\ child[s].busy))
=============================================================================
