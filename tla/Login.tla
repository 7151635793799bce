------------------------------- MODULE Login --------------------------------
(* login.krb5, for several sessions of one host: the password loop and its  *)
(* tickets, the entry in utmp, the terminal's owner, the process that stays *)
(* behind to destroy the tickets, and the one that becomes the user's       *)
(* shell.  Passwords and the Kerberos library are a choice of outcomes, and *)
(* a hangup comes from the server of LoginSession.                          *)
EXTENDS Utmp, FiniteSets

CONSTANTS
  Sessions,      \* positive numbers, also the process numbers of the logins
  Users,         \* account names besides "root", and the owner of tickets
  MaxAttempts    \* how many logins may fail: 5 in the code

ASSUME LoginAssumption ==
  /\ Sessions \subseteq Nat \ {0}
  /\ {"root", "none", "client"} \cap Users = {}
  /\ MaxAttempts \in Nat \ {0}

VARIABLES
  getTickets,    \* krb5_get_tickets of the configuration, fixed
  host,          \* utmp, and for each line the wtmp and the owner of the slave
  srv,           \* the server of each session: where it is, its line
  log,           \* the login process, first of the server's child
  child,         \* the process after dofork() that becomes the shell
  cache,         \* the credentials file of the session: whose, and of whom
  hist           \* what happened to the session that the properties excuse

NoCache == [owner |-> "none", creds |-> "none"]
Accounts == Users \union {"root"}
Alive(p) == p.at \notin {"none", "gone"}
\* What a process knows goes with it.
NewLog(pc) ==
  [at |-> pc, user |-> "none", given |-> "none", pre |-> FALSE, how |-> "none", fails |-> 0,
   tickets |-> "none", forwarded |-> FALSE, hup |-> FALSE, eintr |-> FALSE]
NewChild(pc) == [at |-> pc, saved |-> "none", busy |-> FALSE]
At(s, pc) == log[s].at = pc
LogTo(s, pc) == log' = [log EXCEPT ![s] = IF pc = "gone" THEN NewLog("gone") ELSE [@ EXCEPT !.at = pc]]
ChildTo(s, pc) ==
  child' = [child EXCEPT ![s] = IF pc = "gone" THEN NewChild("gone") ELSE [@ EXCEPT !.at = pc]]

\* One update of utmp and wtmp for the session's line.
Update(s, type, user) ==
  LET l == srv[s].line IN
  [host EXCEPT !.utmp = UpdateUtmp(@, type, s, user, l),
               !.wtmp[l] = UpdateWtmp(@, host.utmp, type, s, user, l)]
\* The server has already cleared what the session is about to set.
Late(s) == hist' = [hist EXCEPT ![s].late = @ \/ srv[s].at \in {"tty", "creds", "exit", "gone"}]
----------------------------------------------------------------------------
(* The arguments, the terminal, the Kerberos context and the configuration. *)
LoginStarts(s) ==
  /\ At(s, "init")
  /\ LogTo(s, "prompt") \/ LogTo(s, "gone")
  /\ UNCHANGED <<getTickets, host, srv, child, cache, hist>>

(* The password loop.  A name from the command line counts for one attempt, *)
(* and so does its -f.  Only a failed attempt comes back.                   *)
Admit(s, name, how) ==
  log' = [log EXCEPT ![s].at = "accepted", ![s].user = name, ![s].how = how]
Failed(l) ==
  IF l.fails + 1 >= MaxAttempts THEN NewLog("gone")
  ELSE [l EXCEPT !.fails = @ + 1, !.given = "none", !.pre = FALSE]

Preauthenticated(s, name) ==
  /\ log[s].pre /\ name \in Accounts
  /\ Admit(s, name, "server")
  /\ UNCHANGED <<cache, hist>>

\* An account may have an empty password.
Unprotected(s, name) ==
  /\ ~(log[s].pre /\ name \in Accounts)
  /\ name \in Accounts
  /\ Admit(s, name, "open")
  /\ UNCHANGED <<cache, hist>>

\* Tickets are asked for with the password whether or not it is the local
\* one, and kept in memory; tickets alone will do when they can be verified.
\* Without tickets no password is ever compared.
Obtained(s, name, got) == IF got THEN name ELSE log[s].tickets
Destroyed(s, tickets) == IF tickets # "none" THEN [cache EXCEPT ![s] = NoCache] ELSE cache
Password(s, name) ==
  /\ ~(log[s].pre /\ name \in Accounts)
  /\ \E read, local, got, verified \in BOOLEAN :
       LET tried == getTickets /\ read /\ name \in Accounts
           tickets == IF tried /\ name # "root" THEN Obtained(s, name, got) ELSE log[s].tickets
           how == IF ~tried THEN "none"
                  ELSE IF local THEN "password"
                  ELSE IF tickets # "none" /\ verified THEN "ticket" ELSE "none"
       IN  IF how # "none"
           THEN /\ log' = [log EXCEPT ![s].at = "accepted", ![s].user = name, ![s].how = how,
                                      ![s].tickets = tickets]
                /\ UNCHANGED <<cache, hist>>
           ELSE /\ log' = [log EXCEPT ![s] = Failed([@ EXCEPT !.tickets = tickets])]
                /\ cache' = IF getTickets THEN Destroyed(s, tickets) ELSE cache
                /\ hist' = [hist EXCEPT ![s].earlier = @ \union ({tickets} \ {"none"})]

Attempt(s) ==
  /\ At(s, "prompt")
  /\ \E name \in IF log[s].given # "none" THEN {log[s].given} ELSE Accounts \union {"unknown"} :
       Preauthenticated(s, name) \/ Unprotected(s, name) \/ Password(s, name)
  /\ UNCHANGED <<getTickets, host, srv, child>>

\* The alarm, the end of the input, /etc/nologin; root on a terminal that is
\* not secure, unless the server has vouched for him, and a lost directory.
LeaveLogin(s) ==
  /\ \/ At(s, "prompt")
     \/ At(s, "accepted") /\ log[s].user = "root" /\ log[s].how # "server"
  /\ LogTo(s, "gone")
  /\ UNCHANGED <<getTickets, host, srv, child, cache, hist>>
----------------------------------------------------------------------------
(* "Nothing else left to fail": the entry, the terminal, the tickets that   *)
(* the server has left in the file the environment names.                   *)
RecordUser(s) ==
  /\ At(s, "accepted")
  /\ host' = Update(s, "user", log[s].user)
  /\ LogTo(s, "own")
  /\ Late(s)
  /\ UNCHANGED <<getTickets, srv, child, cache>>

TakeTty(s) ==
  /\ At(s, "own")
  /\ host' = [host EXCEPT !.owner[srv[s].line] = log[s].user]
  /\ log' = [log EXCEPT ![s].at = "fork",
                        ![s].forwarded = log[s].tickets = "none" /\ cache[s] # NoCache]
  /\ Late(s)
  /\ UNCHANGED <<getTickets, srv, child, cache>>

DoFork(s) ==
  /\ At(s, "fork")
  /\ IF getTickets THEN LogTo(s, "watch") /\ ChildTo(s, "sync")
                   ELSE LogTo(s, "self") /\ ChildTo(s, "group")
  /\ UNCHANGED <<getTickets, host, srv, cache, hist>>
----------------------------------------------------------------------------
(* The parent that stays: first the handler of SIGHUP, then the byte that   *)
(* lets the child go on, then the wait.  What it has noted of a hangup is   *)
(* looked at only when waitpid() returns.                                   *)
Ready(s) ==
  /\ At(s, "watch")
  /\ LogTo(s, "ready")
  /\ UNCHANGED <<getTickets, host, srv, child, cache, hist>>
Wait(s) ==
  /\ At(s, "ready")
  /\ LogTo(s, "wait")
  /\ hist' = [hist EXCEPT ![s].missed = log[s].hup /\ Alive(child[s])]
  /\ UNCHANGED <<getTickets, host, srv, child, cache>>

\* killpg() finds the child only once it has a process group of its own.
InGroup(s) == child[s].at \in {"setuid", "store", "shell"}
PassHangup(s) ==
  /\ At(s, "wait") /\ log[s].eintr
  /\ log' = [log EXCEPT ![s].eintr = FALSE]
  /\ IF InGroup(s) THEN ChildTo(s, "gone") /\ UNCHANGED hist
     ELSE hist' = [hist EXCEPT ![s].missed = Alive(child[s])] /\ UNCHANGED child
  /\ UNCHANGED <<getTickets, host, srv, cache>>

Reap(s) ==
  /\ At(s, "wait") /\ ~Alive(child[s])
  /\ LogTo(s, "destroy")
  /\ UNCHANGED <<getTickets, host, srv, child, cache, hist>>
BugDestroyTickets(s) ==
  /\ At(s, "destroy")
  /\ cache' = IF log[s].forwarded THEN [cache EXCEPT ![s] = NoCache] ELSE cache
  /\ LogTo(s, "gone")
  /\ UNCHANGED <<getTickets, host, srv, child, hist>>
DestroyTickets(s) ==
  /\ At(s, "destroy")
  /\ cache' = [cache EXCEPT ![s] = NoCache]
  /\ LogTo(s, "gone")
  /\ UNCHANGED <<getTickets, host, srv, child, hist>>
----------------------------------------------------------------------------
(* The child, or login itself without tickets: it waits for the byte of the *)
(* parent, whose death it sees as the end of the pipe; a process group of   *)
(* its own; forwarded tickets read and destroyed as root; the user; tickets *)
(* written as the user, over a file that is not another's.                  *)
Sync(s) ==
  /\ child[s].at = "sync" /\ ~At(s, "watch")
  /\ ChildTo(s, IF Alive(log[s]) THEN "group" ELSE "gone")
  /\ UNCHANGED <<getTickets, host, srv, log, cache, hist>>
OwnGroup(s) ==
  /\ child[s].at = "group"
  /\ ChildTo(s, "setuid")
  /\ UNCHANGED <<getTickets, host, srv, log, cache, hist>>

BugBecomeUser(s) ==
  /\ child[s].at = "setuid"
  /\ child' = [child EXCEPT ![s].at = "store",
                            ![s].saved = IF log[s].forwarded THEN cache[s].creds ELSE "none"]
  /\ UNCHANGED <<getTickets, host, srv, log, cache, hist>>
BecomeUser(s) ==
  /\ child[s].at = "setuid"
  /\ \E saved \in IF log[s].forwarded THEN {"none", cache[s].creds} ELSE {"none"} :
       child' = [child EXCEPT ![s].at = "store", ![s].saved = saved]
  /\ cache' = IF log[s].forwarded /\ getTickets THEN [cache EXCEPT ![s] = NoCache] ELSE cache
  /\ UNCHANGED <<getTickets, host, srv, log, hist>>

ToStore(s) == IF log[s].tickets # "none" THEN log[s].tickets ELSE child[s].saved
Writable(s) == cache[s].owner \in {"none", log[s].user} \/ log[s].user = "root"
StoreTickets(s) ==
  /\ child[s].at = "store"
  /\ cache' = IF ToStore(s) # "none" /\ Writable(s)
              THEN [cache EXCEPT ![s] = [owner |-> log[s].user, creds |-> ToStore(s)]] ELSE cache
  /\ hist' = [hist EXCEPT ![s].kept = srv[s].at = "exit" /\ ~getTickets]
  /\ ChildTo(s, "shell")
  /\ UNCHANGED <<getTickets, host, srv, log>>

\* A command that does not read its terminal need not see the hangup.
Busy(s) ==
  /\ child[s].at = "shell" /\ ~child[s].busy
  /\ child' = [child EXCEPT ![s].busy = TRUE]
  /\ UNCHANGED <<getTickets, host, srv, log, cache, hist>>
ShellDone(s) ==
  /\ child[s].at = "shell"
  /\ ChildTo(s, "gone")
  /\ log' = IF At(s, "self") THEN [log EXCEPT ![s] = NewLog("gone")] ELSE log
  /\ UNCHANGED <<getTickets, host, srv, cache, hist>>
\* The end of the file that a hung up terminal reads as.
ShellReadsEnd(s) == srv[s].hung /\ ~child[s].busy /\ ShellDone(s)
=============================================================================
