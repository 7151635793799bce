------------------------ MODULE LoginSession_proofs -------------------------
(* The sessions of a host for every set of sessions, users, requests and    *)
(* lines: the shell has credentials of its user or of the client the server *)
(* has authenticated, in a file it can read (Credentials); its terminal has *)
(* one live entry, its own (Recorded); and what is over leaves nothing      *)
(* behind (Cleared).                                                        *)
(*                                                                          *)
(* The first rests on where the processes of a session can be together      *)
(* (Paired), on whose tickets the login holds (Holds), and on whose file    *)
(* the environment names in each of these places (Named).  The others rest  *)
(* besides on the books of the host (Booked): the table has one row for a   *)
(* terminal (Table), which belongs to a session that has the terminal (Own) *)
(* and one active session at most does (Alone), so that what an update      *)
(* finds is the row of the session that makes it.                           *)
EXTENDS LoginSession, WellFoundedInduction, TLAPS

SrvPlaces ==
  {"idle", "half", "ready", "forked", "synced", "serve", "utmp", "tty", "creds", "exit", "gone"}
Unforked == {"none", "record", "slave", "exec", "init", "prompt", "accepted", "own", "fork"}
Watching == {"watch", "ready", "wait", "destroy"}
LogPlaces == Unforked \union Watching \union {"self", "gone"}
ChildPlaces == {"none", "sync", "group", "setuid", "store", "shell", "gone"}
Names == Accounts \union {"none", "unknown"}
Hows == {"none", "server", "open", "password", "ticket"}

Servers == [at : SrvPlaces, line : Nat, up : BOOLEAN, hung : BOOLEAN]
Logs ==
  [at : LogPlaces, user : Accounts \union {"none"}, given : Names, pre : BOOLEAN, how : Hows,
   fails : Nat, tickets : Users \union {"none"}, forwarded : BOOLEAN, hup : BOOLEAN,
   eintr : BOOLEAN]
Creds == Accounts \union {"none", "client"}
Children == [at : ChildPlaces, saved : Creds, busy : BOOLEAN]
Caches == [owner : Accounts \union {"none"}, creds : Creds]
Hists ==
  [late : BOOLEAN, kept : BOOLEAN, abandoned : BOOLEAN, missed : BOOLEAN,
   earlier : SUBSET Users]

TypeOK ==
  /\ getTickets \in BOOLEAN
  /\ kind \in Kinds
  /\ srv \in [Sessions -> Servers]
  /\ log \in [Sessions -> Logs]
  /\ child \in [Sessions -> Children]
  /\ cache \in [Sessions -> Caches]
  /\ hist \in [Sessions -> Hists]
----------------------------------------------------------------------------
(* No login before the server has forked, no child before the login has,    *)
(* and none that goes on without the process that watches over it.          *)
Running == {"group", "setuid", "store", "shell"}
Paired(s) ==
  /\ srv[s].at \in {"idle", "half", "ready"} => log[s].at = "none"
  /\ log[s].at \in Unforked => child[s].at = "none"
  /\ child[s].at = "sync" => getTickets /\ log[s].at \in {"watch", "ready", "wait", "gone"}
  /\ child[s].at \in Running => log[s].at \in IF getTickets THEN {"ready", "wait"} ELSE {"self"}

(* Tickets are of the user or of an attempt that failed.                    *)
Admitted == {"accepted", "own", "fork", "self"} \union Watching
Holds(s) ==
  /\ log[s].tickets # "none" => getTickets
  /\ log[s].at \notin Admitted => log[s].tickets \in {"none"} \union hist[s].earlier
  /\ log[s].at \in Admitted =>
       /\ log[s].user # "none"
       /\ log[s].tickets \in {"none", log[s].user} \union hist[s].earlier
       /\ log[s].how = "ticket" => log[s].tickets # "none"

(* The file is root's with the client's credentials until the shell runs;   *)
(* what of it the login has taken notice of is gone when the child is the   *)
(* user, if there are tickets to look after.                                *)
FromClient == [owner |-> "root", creds |-> "client"]
Named(s) ==
  /\ child[s].at \notin {"shell", "gone"} => cache[s] \in {NoCache, FromClient}
  /\ log[s].at \in {"fork", "self"} \union Watching /\ child[s].at \in {"none", "sync", "group", "setuid"}
     => cache[s] = NoCache \/ log[s].forwarded \/ log[s].tickets # "none"
  /\ child[s].at = "store" =>
       /\ child[s].saved \in {"none", "client"}
       /\ cache[s] = NoCache \/ log[s].tickets # "none" \/ ~getTickets
  /\ child[s].at = "shell" =>
       /\ \/ cache[s] = NoCache
          \/ /\ cache[s].owner = log[s].user
             /\ cache[s].creds \in {log[s].user, "client"} \union hist[s].earlier
          \/ cache[s] = FromClient /\ (log[s].tickets # "none" \/ ~getTickets)
       /\ cache[s] = NoCache /\ log[s].tickets # "none" => srv[s].at \in {"exit", "gone"}

Secured(s) == Paired(s) /\ Holds(s) /\ Named(s)
----------------------------------------------------------------------------
(* What a step leaves alone: every session but one, and what never changes. *)
Others(s) ==
  \A t \in Sessions :
    t # s => /\ srv'[t] = srv[t] /\ log'[t] = log[t] /\ child'[t] = child[t]
             /\ cache'[t] = cache[t] /\ hist'[t] = hist[t]

(* The server of a session takes a step.                                    *)
LEMMA SrvTakes ==
  ASSUME TypeOK, NEW s \in Sessions, NEW x \in Servers, srv' = [srv EXCEPT ![s] = x]
  PROVE  /\ srv' \in [Sessions -> Servers] /\ srv'[s] = x
         /\ \A t \in Sessions : t # s => srv'[t] = srv[t]
BY DEF TypeOK
(* The same for its login.                                                  *)
LEMMA LogTakes ==
  ASSUME TypeOK, NEW s \in Sessions, NEW x \in Logs, log' = [log EXCEPT ![s] = x]
  PROVE  /\ log' \in [Sessions -> Logs] /\ log'[s] = x
         /\ \A t \in Sessions : t # s => log'[t] = log[t]
BY DEF TypeOK
(* The same for the login's child.                                          *)
LEMMA ChildTakes ==
  ASSUME TypeOK, NEW s \in Sessions, NEW x \in Children, child' = [child EXCEPT ![s] = x]
  PROVE  /\ child' \in [Sessions -> Children] /\ child'[s] = x
         /\ \A t \in Sessions : t # s => child'[t] = child[t]
BY DEF TypeOK
(* The same for the file of its credentials.                                *)
LEMMA CacheTakes ==
  ASSUME TypeOK, NEW s \in Sessions, NEW x \in Caches, cache' = [cache EXCEPT ![s] = x]
  PROVE  /\ cache' \in [Sessions -> Caches] /\ cache'[s] = x
         /\ \A t \in Sessions : t # s => cache'[t] = cache[t]
BY DEF TypeOK
(* The same for what happened to it.                                        *)
LEMMA HistTakes ==
  ASSUME TypeOK, NEW s \in Sessions, NEW x \in Hists, hist' = [hist EXCEPT ![s] = x]
  PROVE  /\ hist' \in [Sessions -> Hists] /\ hist'[s] = x
         /\ \A t \in Sessions : t # s => hist'[t] = hist[t]
BY DEF TypeOK

(* The members of a session have their types.                               *)
LEMMA Members ==
  ASSUME TypeOK, NEW s \in Sessions
  PROVE  /\ srv[s] \in Servers /\ log[s] \in Logs /\ child[s] \in Children
         /\ cache[s] \in Caches /\ hist[s] \in Hists
BY DEF TypeOK

(* "none", "client" and "root" are no user's name.                          *)
LEMMA NamesApart ==
  /\ "none" \notin Accounts /\ "client" \notin Accounts /\ "root" \in Accounts
  /\ "root" \notin Users /\ Users \subseteq Accounts
BY LoginAssumption DEF Accounts

(* A process that has ended has the types of one.                           *)
LEMMA NewTypes ==
  /\ NewLog("gone") \in Logs /\ NewLog("none") \in Logs
  /\ NewChild("gone") \in Children /\ NewChild("none") \in Children
  /\ NoCache \in Caches /\ FromClient \in Caches
<1>1. NewLog("gone") \in Logs /\ NewLog("none") \in Logs
  BY DEF NewLog, Logs, LogPlaces, Unforked, Names, Hows
<1>2. NewChild("gone") \in Children /\ NewChild("none") \in Children
  BY DEF NewChild, Children, ChildPlaces, Creds
<1>3. NoCache \in Caches /\ FromClient \in Caches
  BY DEF NoCache, FromClient, Caches, Creds, Accounts
<1> QED BY <1>1, <1>2, <1>3

(* A place for the server.                                                  *)
LEMMA SrvPlace ==
  ASSUME TypeOK, NEW s \in Sessions, NEW pc \in SrvPlaces, SrvTo(s, pc)
  PROVE  /\ srv' \in [Sessions -> Servers] /\ srv'[s].at = pc
         /\ \A t \in Sessions : t # s => srv'[t] = srv[t]
<1> DEFINE x == [srv[s] EXCEPT !.at = pc]
<1>1. x \in Servers /\ x.at = pc
  BY Members DEF Servers
<1>2. srv' = [srv EXCEPT ![s] = x]
  BY DEF SrvTo, TypeOK
<1> HIDE DEF x
<1> QED BY <1>1, <1>2, SrvTakes

(* A place for the login; when that is its end it knows nothing more.       *)
LEMMA LogPlace ==
  ASSUME TypeOK, NEW s \in Sessions, NEW pc \in LogPlaces, LogTo(s, pc)
  PROVE  /\ log' \in [Sessions -> Logs] /\ log'[s].at = pc
         /\ pc = "gone" => log'[s].tickets = "none"
         /\ pc # "gone" =>
              /\ log'[s].user = log[s].user /\ log'[s].how = log[s].how
              /\ log'[s].tickets = log[s].tickets /\ log'[s].forwarded = log[s].forwarded
         /\ \A t \in Sessions : t # s => log'[t] = log[t]
<1> DEFINE x == [log[s] EXCEPT !.at = pc]
           y == NewLog("gone")
<1>1. /\ x \in Logs /\ x.at = pc /\ x.user = log[s].user /\ x.how = log[s].how
      /\ x.tickets = log[s].tickets /\ x.forwarded = log[s].forwarded
  BY Members DEF Logs
<1>2. y \in Logs /\ y.at = "gone" /\ y.tickets = "none"
  BY NewTypes DEF NewLog
<1>3. log' = [log EXCEPT ![s] = IF pc = "gone" THEN y ELSE x]
  BY DEF LogTo, TypeOK
<1> HIDE DEF x, y
<1> QED BY <1>1, <1>2, <1>3, LogTakes

(* A place for the child.                                                   *)
LEMMA ChildPlace ==
  ASSUME TypeOK, NEW s \in Sessions, NEW pc \in ChildPlaces, ChildTo(s, pc)
  PROVE  /\ child' \in [Sessions -> Children] /\ child'[s].at = pc
         /\ pc # "gone" => child'[s].saved = child[s].saved
         /\ \A t \in Sessions : t # s => child'[t] = child[t]
<1> DEFINE x == [child[s] EXCEPT !.at = pc]
           y == NewChild("gone")
<1>1. x \in Children /\ x.at = pc /\ x.saved = child[s].saved
  BY Members DEF Children
<1>2. y \in Children /\ y.at = "gone"
  BY NewTypes DEF NewChild
<1>3. child' = [child EXCEPT ![s] = IF pc = "gone" THEN y ELSE x]
  BY DEF ChildTo, TypeOK
<1> HIDE DEF x, y
<1> QED BY <1>1, <1>2, <1>3, ChildTakes

(* What is noted of a session leaves the tickets of earlier attempts.       *)
LEMMA HistNotes ==
  ASSUME TypeOK, NEW s \in Sessions, NEW b \in BOOLEAN,
         \/ hist' = [hist EXCEPT ![s].late = b]
         \/ hist' = [hist EXCEPT ![s].kept = b]
         \/ hist' = [hist EXCEPT ![s].abandoned = b]
         \/ hist' = [hist EXCEPT ![s].missed = b]
         \/ hist' = hist
  PROVE  /\ hist' \in [Sessions -> Hists] /\ hist'[s].earlier = hist[s].earlier
         /\ \A t \in Sessions : t # s => hist'[t] = hist[t]
<1>1. \A x \in {[hist[s] EXCEPT !.late = b], [hist[s] EXCEPT !.kept = b],
               [hist[s] EXCEPT !.abandoned = b], [hist[s] EXCEPT !.missed = b], hist[s]} :
        x \in Hists /\ x.earlier = hist[s].earlier
  BY Members DEF Hists
<1>2. \E x \in {[hist[s] EXCEPT !.late = b], [hist[s] EXCEPT !.kept = b],
               [hist[s] EXCEPT !.abandoned = b], [hist[s] EXCEPT !.missed = b], hist[s]} :
        hist' = [hist EXCEPT ![s] = x]
  BY DEF TypeOK
<1> QED BY <1>1, <1>2, HistTakes
----------------------------------------------------------------------------
(* A session that a step leaves alone stays as it was.                      *)
LEMMA Apart ==
  ASSUME NEW t \in Sessions, Secured(t), UNCHANGED getTickets,
         srv'[t] = srv[t], log'[t] = log[t], child'[t] = child[t],
         cache'[t] = cache[t], hist'[t] = hist[t]
  PROVE  Secured(t)'
BY DEF Secured, Paired, Holds, Named

Begun == {"idle", "half", "ready"}
Ended == {"exit", "gone"}

(* A step of the server alone: it goes neither back to its beginning nor    *)
(* back from its end.                                                       *)
LEMMA SrvStep ==
  ASSUME TypeOK, NEW s \in Sessions, Secured(s),
         UNCHANGED <<getTickets, kind, log, child, cache>>,
         srv' \in [Sessions -> Servers], hist' \in [Sessions -> Hists],
         hist'[s].earlier = hist[s].earlier,
         \A t \in Sessions : t # s => srv'[t] = srv[t] /\ hist'[t] = hist[t],
         srv'[s].at \in Begun => srv[s].at \in Begun,
         srv[s].at \in Ended => srv'[s].at \in Ended
  PROVE  TypeOK' /\ Others(s) /\ Secured(s)'
<1>1. TypeOK' /\ Others(s)
  BY DEF TypeOK, Others
<1>2. Paired(s)' /\ Holds(s)'
  BY DEF Secured, Paired, Holds, Begun
<1>3. Named(s)'
  BY DEF Secured, Named, Ended
<1> QED BY <1>1, <1>2, <1>3 DEF Secured

Kept == {"fork", "self"} \union Watching
(* A step of the login from one place to the next.                          *)
LEMMA LogStep ==
  ASSUME TypeOK, NEW s \in Sessions, Secured(s), NEW pc \in LogPlaces, LogTo(s, pc),
         UNCHANGED <<getTickets, kind, child, cache>>,
         srv' \in [Sessions -> Servers], hist' \in [Sessions -> Hists],
         hist'[s].earlier = hist[s].earlier,
         \A t \in Sessions : t # s => srv'[t] = srv[t] /\ hist'[t] = hist[t],
         srv'[s].at \notin Begun,
         srv[s].at \in Ended => srv'[s].at \in Ended,
         pc \in Unforked => log[s].at \in Unforked,
         child[s].at = "sync" => pc \in {"watch", "ready", "wait", "gone"},
         child[s].at \in Running => pc \in IF getTickets THEN {"ready", "wait"} ELSE {"self"},
         pc # "gone" => (pc \in Admitted <=> log[s].at \in Admitted),
         pc \in Kept => log[s].at \in Kept
  PROVE  TypeOK' /\ Others(s) /\ Secured(s)'
<1>1. /\ log' \in [Sessions -> Logs] /\ log'[s].at = pc
      /\ pc = "gone" => log'[s].tickets = "none"
      /\ pc # "gone" =>
           /\ log'[s].user = log[s].user /\ log'[s].how = log[s].how
           /\ log'[s].tickets = log[s].tickets /\ log'[s].forwarded = log[s].forwarded
      /\ \A t \in Sessions : t # s => log'[t] = log[t]
  BY LogPlace
<1>2. TypeOK' /\ Others(s)
  BY <1>1 DEF TypeOK, Others
<1>3. "gone" \notin Kept /\ "gone" \notin Admitted
  BY DEF Kept, Admitted, Watching
<1>4. Paired(s)'
  BY <1>1 DEF Secured, Paired, Begun
<1>5. Holds(s)'
  BY <1>1, <1>3 DEF Secured, Holds
<1>6. Named(s)'
  <2>1. CASE child[s].at = "shell"
    <3>1. pc # "gone"
      BY <2>1 DEF Running
    <3> QED BY <1>1, <2>1, <3>1 DEF Secured, Named, Ended
  <2>2. CASE child[s].at = "store"
    <3>1. pc # "gone"
      BY <2>2 DEF Running
    <3> QED BY <1>1, <2>2, <3>1 DEF Secured, Named
  <2>3. CASE child[s].at \notin {"shell", "store"}
    BY <1>1, <1>3, <2>3 DEF Secured, Named, Kept
  <2> QED BY <2>1, <2>2, <2>3
<1> QED BY <1>2, <1>4, <1>5, <1>6 DEF Secured

(* The servers' own steps.                                                  *)
LEMMA StepServer ==
  ASSUME TypeOK, NEW s \in Sessions, Secured(s),
         \/ GetPty(s) \/ GoesAway(s) \/ Serve(s) \/ SlaveFailed(s) \/ NetDown(s) \/ StartCleanup(s)
         \/ RecordDead(s) \/ ReturnTty(s) \/ GettyEnds(s)
  PROVE  TypeOK' /\ Others(s) /\ Secured(s)'
<1>1. UNCHANGED <<getTickets, kind, log, child, cache>>
  BY DEF GetPty, GoesAway, Serve, SlaveFailed, NetDown, StartCleanup, RecordDead, ReturnTty,
         GettyEnds, Fixed
<1>2. hist' = hist \/ hist' = [hist EXCEPT ![s].abandoned = TRUE]
  BY DEF GetPty, GoesAway, Serve, SlaveFailed, NetDown, StartCleanup, RecordDead, ReturnTty,
         GettyEnds, Abandon
<1>3. /\ hist' \in [Sessions -> Hists] /\ hist'[s].earlier = hist[s].earlier
      /\ \A t \in Sessions : t # s => hist'[t] = hist[t]
  <2>1. TRUE \in BOOLEAN
    OBVIOUS
  <2> QED BY <1>2, <2>1, HistNotes
<1>4. CASE NetDown(s)
  <2> DEFINE x == [srv[s] EXCEPT !.up = FALSE]
  <2>1. x \in Servers /\ x.at = srv[s].at
    BY Members DEF Servers
  <2>2. srv' = [srv EXCEPT ![s] = x]
    BY <1>4 DEF NetDown, TypeOK
  <2> HIDE DEF x
  <2>3. /\ srv' \in [Sessions -> Servers] /\ srv'[s].at = srv[s].at
        /\ \A t \in Sessions : t # s => srv'[t] = srv[t]
    BY <2>1, <2>2, SrvTakes
  <2> QED BY <1>1, <1>3, <2>3, SrvStep
<1>5. CASE \E l \in Lines : HasPtyNext(s) /\ srv' = [srv EXCEPT ![s].at = NextStage(s), ![s].line = l]
  <2>1. PICK l \in Lines :
          HasPtyNext(s) /\ srv' = [srv EXCEPT ![s].at = NextStage(s), ![s].line = l]
    BY <1>5
  <2> DEFINE x == [srv[s] EXCEPT !.at = NextStage(s), !.line = l]
  <2>2. srv[s].at \in {"idle", "half"}
    BY <2>1 DEF HasPtyNext
  <2>3. NextStage(s) \in {"half", "ready"} /\ l \in Nat
    BY LineAssumption DEF NextStage
  <2>4. x \in Servers /\ x.at \in {"half", "ready"}
    BY <2>3, Members DEF Servers, SrvPlaces
  <2>5. srv' = [srv EXCEPT ![s] = x]
    BY <2>1 DEF TypeOK
  <2> HIDE DEF x
  <2>6. /\ srv' \in [Sessions -> Servers] /\ srv'[s].at \in {"half", "ready"}
        /\ \A t \in Sessions : t # s => srv'[t] = srv[t]
    BY <2>4, <2>5, SrvTakes
  <2> QED BY <1>1, <1>3, <2>2, <2>6, SrvStep DEF Begun, Ended
<1>6. CASE \E pc \in {"serve", "utmp", "tty", "creds", "gone"} :
             SrvTo(s, pc) /\ (pc # "gone" => srv[s].at \notin Ended)
  <2>1. PICK pc \in {"serve", "utmp", "tty", "creds", "gone"} :
          SrvTo(s, pc) /\ (pc # "gone" => srv[s].at \notin Ended)
    BY <1>6
  <2>2. pc \in SrvPlaces /\ pc \notin Begun /\ "gone" \in Ended
    BY DEF SrvPlaces, Begun, Ended
  <2>3. /\ srv' \in [Sessions -> Servers] /\ srv'[s].at = pc
        /\ \A t \in Sessions : t # s => srv'[t] = srv[t]
    BY <2>1, <2>2, SrvPlace
  <2> QED BY <1>1, <1>3, <2>1, <2>2, <2>3, SrvStep
<1>7. CASE GetPty(s)
  BY <1>5, <1>6, <1>7 DEF GetPty, Abandon
<1>8. CASE GoesAway(s)
  BY <1>6, <1>8 DEF GoesAway, Abandon
<1>9. CASE Serve(s)
  BY <1>6, <1>9 DEF Serve, SrvAt, Ended
<1>10. CASE SlaveFailed(s)
  BY <1>6, <1>10 DEF SlaveFailed, SrvAt, Ended, Abandon
<1>11. CASE StartCleanup(s)
  BY <1>6, <1>11 DEF StartCleanup, SrvAt, Ended
<1>12. CASE RecordDead(s)
  BY <1>6, <1>12 DEF RecordDead, SrvAt, Ended
<1>13. CASE ReturnTty(s)
  BY <1>6, <1>13 DEF ReturnTty, SrvAt, Ended
<1>14. CASE GettyEnds(s)
  BY <1>6, <1>14 DEF GettyEnds
<1> QED BY <1>4, <1>7, <1>8, <1>9, <1>10, <1>11, <1>12, <1>13, <1>14

(* The login's steps from one place to the next, up to the fork.            *)
LEMMA StepLogin ==
  ASSUME TypeOK, NEW s \in Sessions, Secured(s),
         \/ Fork(s) \/ RecordLogin(s) \/ OpenSlave(s) \/ Exec(s)
         \/ (LoginStarts(s) \/ LeaveLogin(s) \/ RecordUser(s)) /\ UNCHANGED kind
  PROVE  TypeOK' /\ Others(s) /\ Secured(s)'
<1>0. /\ srv[s] \in Servers
      /\ log[s].at \in Unforked => child[s].at = "none"
  BY Members DEF Secured, Paired
<1>1. UNCHANGED <<getTickets, kind, child, cache>>
  BY DEF Fork, RecordLogin, OpenSlave, Exec, LoginStarts, LeaveLogin, RecordUser, Fixed
<1>2. PICK pc \in {"record", "slave", "exec", "init", "prompt", "own", "gone"} :
        /\ LogTo(s, pc)
        /\ log[s].at \in Unforked
        /\ pc = "own" => log[s].at = "accepted"
        /\ pc \notin {"own", "gone"} => log[s].at \notin {"accepted", "own", "fork"}
        /\ log[s].at = "none" => Fork(s)
  <2>1. CASE Fork(s)
    <3>1. log[s].at = "none"
      BY <2>1 DEF Fork, SrvAt, Secured, Paired
    <3>2. CASE kind[s].server = "telnetd"
      BY <2>1, <3>1, <3>2 DEF Fork, Unforked
    <3>3. CASE kind[s].server # "telnetd"
      BY <2>1, <3>1, <3>3 DEF Fork, Unforked
    <3> QED BY <3>2, <3>3
  <2>2. CASE RecordLogin(s)
    <3>1. CASE kind[s].server = "telnetd"
      BY <2>2, <3>1 DEF RecordLogin, At, Unforked
    <3>2. CASE kind[s].server # "telnetd"
      BY <2>2, <3>2 DEF RecordLogin, At, Unforked
    <3> QED BY <3>1, <3>2
  <2>3. CASE OpenSlave(s)
    <3>1. CASE kind[s].server = "telnetd"
      BY <2>3, <3>1 DEF OpenSlave, At, Unforked
    <3>2. CASE kind[s].server # "telnetd"
      BY <2>3, <3>2 DEF OpenSlave, At, Unforked
    <3> QED BY <3>1, <3>2
  <2>4. CASE Exec(s)
    BY <2>4 DEF Exec, At, Unforked
  <2>5. CASE LoginStarts(s)
    BY <2>5 DEF LoginStarts, At, Unforked
  <2>6. CASE LeaveLogin(s)
    BY <2>6 DEF LeaveLogin, At, Unforked
  <2>7. CASE RecordUser(s)
    BY <2>7 DEF RecordUser, At, Unforked
  <2> QED BY <2>1, <2>2, <2>3, <2>4, <2>5, <2>6, <2>7
<1>3. /\ srv' \in [Sessions -> Servers]
      /\ \A t \in Sessions : t # s => srv'[t] = srv[t]
      /\ srv'[s].at \notin Begun
      /\ srv[s].at \in Ended => srv'[s].at \in Ended
  <2>1. CASE Fork(s)
    BY <2>1, SrvPlace DEF Fork, SrvAt, Begun, Ended, SrvPlaces
  <2>2. CASE ~Fork(s)
    <3>1. srv[s].at \notin Begun
      BY <1>2, <2>2 DEF Secured, Paired, Begun
    <3>2. CASE UNCHANGED srv
      BY <3>1, <3>2 DEF TypeOK
    <3>3. CASE srv' = [srv EXCEPT ![s].at = IF @ = "forked" THEN "synced" ELSE @]
      <4>1. CASE srv[s].at = "forked"
        <5>1. SrvTo(s, "synced")
          BY <3>3, <4>1 DEF SrvTo, TypeOK
        <5> QED BY <5>1, <4>1, SrvPlace DEF SrvPlaces, Begun, Ended
      <4>2. CASE srv[s].at # "forked"
        <5>1. srv' = srv
          BY <1>0, <3>3, <4>2 DEF TypeOK, Servers
        <5> QED BY <5>1, <3>1 DEF TypeOK
      <4> QED BY <4>1, <4>2
    <3> QED BY <2>2, <3>2, <3>3 DEF RecordLogin, OpenSlave, Exec, LoginStarts, LeaveLogin, RecordUser
  <2> QED BY <2>1, <2>2
<1>4. /\ hist' \in [Sessions -> Hists] /\ hist'[s].earlier = hist[s].earlier
      /\ \A t \in Sessions : t # s => hist'[t] = hist[t]
  <2> DEFINE b == hist[s].late \/ srv[s].at \in {"tty", "creds", "exit", "gone"}
  <2>1. b \in BOOLEAN
    OBVIOUS
  <2>2. hist' = hist \/ hist' = [hist EXCEPT ![s].late = b]
    BY DEF Fork, RecordLogin, OpenSlave, Exec, LoginStarts, LeaveLogin, RecordUser, Late, TypeOK
  <2> HIDE DEF b
  <2> QED BY <2>1, <2>2, HistNotes
<1>5. pc \in LogPlaces /\ pc \notin Kept /\ log[s].at \notin {"watch", "ready", "wait", "destroy", "self"}
  BY <1>2 DEF LogPlaces, Kept, Unforked, Watching
<1>6. pc # "gone" => (pc \in Admitted <=> log[s].at \in Admitted)
  BY <1>2, <1>5 DEF Admitted, Watching
<1>7. child[s].at = "none"
  BY <1>0, <1>2
<1> QED BY <1>1, <1>2, <1>3, <1>4, <1>5, <1>6, <1>7, LogStep DEF Running

(* The watching process: ready, waiting, done.                              *)
LEMMA StepWatch ==
  ASSUME TypeOK, NEW s \in Sessions, Secured(s), (Ready(s) \/ Wait(s) \/ Reap(s)) /\ UNCHANGED kind
  PROVE  TypeOK' /\ Others(s) /\ Secured(s)'
<1>1. UNCHANGED <<getTickets, kind, srv, child, cache>>
  BY DEF Ready, Wait, Reap
<1>2. PICK pc \in {"ready", "wait", "destroy"} :
        /\ LogTo(s, pc)
        /\ pc = "ready" => log[s].at = "watch"
        /\ pc = "wait" => log[s].at = "ready"
        /\ pc = "destroy" => log[s].at = "wait" /\ ~Alive(child[s])
  BY DEF Ready, Wait, Reap, At
<1>3. /\ hist' \in [Sessions -> Hists] /\ hist'[s].earlier = hist[s].earlier
      /\ \A t \in Sessions : t # s => hist'[t] = hist[t]
  <2> DEFINE b == log[s].hup /\ Alive(child[s])
  <2>1. b \in BOOLEAN
    OBVIOUS
  <2>2. hist' = hist \/ hist' = [hist EXCEPT ![s].missed = b]
    BY DEF Ready, Wait, Reap
  <2> HIDE DEF b
  <2> QED BY <2>1, <2>2, HistNotes
<1>4. pc \in LogPlaces /\ pc \notin Unforked /\ pc \in Admitted /\ pc \in Kept /\ pc # "gone"
  BY <1>2 DEF LogPlaces, Admitted, Kept, Unforked, Watching
<1>5. log[s].at \in {"watch", "ready", "wait"}
  BY <1>2
<1>6. log[s].at \in Admitted /\ log[s].at \in Kept /\ log[s].at # "none"
  BY <1>5 DEF Admitted, Kept, Watching
<1>7. /\ child[s].at = "sync" => pc \in {"watch", "ready", "wait", "gone"}
      /\ child[s].at \in Running => pc \in IF getTickets THEN {"ready", "wait"} ELSE {"self"}
  BY <1>2 DEF Secured, Paired, Running, Alive
<1>8. srv' \in [Sessions -> Servers] /\ srv'[s].at \notin Begun /\ srv' = srv
  BY <1>1, <1>6 DEF Secured, Paired, Begun, TypeOK
<1> QED BY <1>1, <1>2, <1>3, <1>4, <1>6, <1>7, <1>8, LogStep

(* The request a session has made names an account, or none.                *)
LEMMA Asked ==
  ASSUME TypeOK, NEW s \in Sessions, NEW ask \in kind[s].asks
  PROVE  ask.name \in Names /\ ask.pre \in BOOLEAN
BY RequestAssumption DEF TypeOK, Names

(* The server authenticates the client, and getty reads a name.             *)
LEMMA StepAuthenticate ==
  ASSUME TypeOK, NEW s \in Sessions, Secured(s), Authenticate(s)
  PROVE  TypeOK' /\ Others(s) /\ Secured(s)'
<1>1. UNCHANGED <<getTickets, kind, child>> /\ AuthNext(s)
  BY DEF Authenticate, Fixed
<1>2. srv[s].at \in {"idle", "half"}
  BY <1>1 DEF AuthNext
<1>3. log[s].at = "none" /\ child[s].at = "none"
  BY <1>2 DEF Secured, Paired, Unforked
<1>4. PICK ask \in kind[s].asks :
        /\ cache' = IF ask.forward THEN [cache EXCEPT ![s] = FromClient] ELSE cache
        /\ \/ /\ log' = [log EXCEPT ![s].given = ask.name, ![s].pre = ask.pre]
              /\ SrvTo(s, NextStage(s)) /\ UNCHANGED hist
           \/ ask.forward /\ Abandon(s) /\ UNCHANGED log
  BY DEF Authenticate, FromClient
<1>5. PICK pc \in {"half", "ready", "gone"} : SrvTo(s, pc)
  BY <1>4 DEF NextStage, Abandon
<1>6. /\ srv' \in [Sessions -> Servers] /\ srv'[s].at = pc
      /\ \A t \in Sessions : t # s => srv'[t] = srv[t]
  BY <1>5, SrvPlace DEF SrvPlaces
<1>7. /\ hist' \in [Sessions -> Hists] /\ hist'[s].earlier = hist[s].earlier
      /\ \A t \in Sessions : t # s => hist'[t] = hist[t]
  <2>1. hist' = hist \/ hist' = [hist EXCEPT ![s].abandoned = TRUE]
    BY <1>4 DEF Abandon
  <2>2. TRUE \in BOOLEAN
    OBVIOUS
  <2> QED BY <2>1, <2>2, HistNotes
<1>8. /\ log' \in [Sessions -> Logs] /\ log'[s].at = "none" /\ log'[s].tickets = log[s].tickets
      /\ \A t \in Sessions : t # s => log'[t] = log[t]
  <2> DEFINE x == [log[s] EXCEPT !.given = ask.name, !.pre = ask.pre]
  <2>1. x \in Logs /\ x.at = "none" /\ x.tickets = log[s].tickets
    BY <1>3, Asked, Members DEF Logs
  <2>2. log' = log \/ log' = [log EXCEPT ![s] = x]
    BY <1>4 DEF TypeOK
  <2> HIDE DEF x
  <2>3. CASE log' = log
    BY <1>3, <2>3 DEF TypeOK
  <2>4. CASE log' = [log EXCEPT ![s] = x]
    BY <2>1, <2>4, LogTakes
  <2> QED BY <2>2, <2>3, <2>4
<1>9. /\ cache' \in [Sessions -> Caches] /\ cache'[s] \in {NoCache, FromClient}
      /\ \A t \in Sessions : t # s => cache'[t] = cache[t]
  <2>1. cache[s] \in {NoCache, FromClient}
    BY <1>3 DEF Secured, Named
  <2>2. CASE ask.forward
    BY <1>4, <2>2, NewTypes, CacheTakes
  <2>3. CASE ~ask.forward
    BY <1>4, <2>1, <2>3 DEF TypeOK
  <2> QED BY <2>2, <2>3
<1>10. TypeOK' /\ Others(s)
  BY <1>1, <1>6, <1>7, <1>8, <1>9 DEF TypeOK, Others
<1>11. Paired(s)'
  BY <1>1, <1>3, <1>8 DEF Paired, Running
<1>12. Holds(s)'
  BY <1>1, <1>3, <1>7, <1>8 DEF Secured, Holds, Admitted, Watching
<1>13. Named(s)'
  BY <1>1, <1>3, <1>8, <1>9 DEF Named, Watching
<1> QED BY <1>10, <1>11, <1>12, <1>13 DEF Secured

(* init starts getty, which starts login.                                   *)
LEMMA StepGetty ==
  ASSUME TypeOK, NEW s \in Sessions, Secured(s), GettyStarts(s)
  PROVE  TypeOK' /\ Others(s) /\ Secured(s)'
<1>1. UNCHANGED <<getTickets, kind, child, cache, hist>> /\ srv[s].at = "idle"
  BY DEF GettyStarts, Fixed, SrvAt
<1>2. log[s].at = "none" /\ child[s].at = "none"
  BY <1>1 DEF Secured, Paired, Unforked
<1>3. PICK ask \in kind[s].asks :
        log' = [log EXCEPT ![s].at = "init", ![s].given = ask.name, ![s].pre = ask.pre]
  BY Zenon DEF GettyStarts
<1>4. /\ srv' \in [Sessions -> Servers] /\ srv'[s].at = "serve"
      /\ \A t \in Sessions : t # s => srv'[t] = srv[t]
  <2> DEFINE x == [srv[s] EXCEPT !.at = "serve", !.line = Console]
  <2>1. x \in Servers /\ x.at = "serve"
    BY LineAssumption, Members DEF Servers, SrvPlaces
  <2>2. srv' = [srv EXCEPT ![s] = x]
    BY DEF GettyStarts, TypeOK
  <2> HIDE DEF x
  <2> QED BY <2>1, <2>2, SrvTakes
<1>5. /\ log' \in [Sessions -> Logs] /\ log'[s].at = "init" /\ log'[s].tickets = log[s].tickets
      /\ \A t \in Sessions : t # s => log'[t] = log[t]
  <2> DEFINE x == [log[s] EXCEPT !.at = "init", !.given = ask.name, !.pre = ask.pre]
  <2>1. x \in Logs /\ x.at = "init" /\ x.tickets = log[s].tickets
    BY Asked, Members DEF Logs, LogPlaces, Unforked
  <2>2. log' = [log EXCEPT ![s] = x]
    BY <1>3 DEF TypeOK
  <2> HIDE DEF x
  <2> QED BY <2>1, <2>2, LogTakes
<1>6. TypeOK' /\ Others(s)
  BY <1>1, <1>4, <1>5 DEF TypeOK, Others
<1>7. Paired(s)'
  BY <1>1, <1>2, <1>4, <1>5 DEF Paired, Running
<1>8. Holds(s)'
  BY <1>1, <1>2, <1>5 DEF Secured, Holds, Admitted, Watching
<1>9. Named(s)'
  BY <1>1, <1>2, <1>5 DEF Secured, Named, Watching
<1> QED BY <1>6, <1>7, <1>8, <1>9 DEF Secured

(* cleanup() destroys the forwarded credentials, then the server exits.     *)
LEMMA StepForwarded ==
  ASSUME TypeOK, NEW s \in Sessions, Secured(s), DestroyForwarded(s)
  PROVE  TypeOK' /\ Others(s) /\ Secured(s)'
<1>1. UNCHANGED <<getTickets, kind, log, child, hist>> /\ srv[s].at = "creds"
  BY DEF DestroyForwarded, Fixed, SrvAt
<1>2. /\ srv' \in [Sessions -> Servers] /\ srv'[s].at = "exit"
      /\ \A t \in Sessions : t # s => srv'[t] = srv[t]
  BY SrvPlace DEF DestroyForwarded, SrvPlaces
<1>3. /\ cache' \in [Sessions -> Caches] /\ cache'[s] = NoCache
      /\ \A t \in Sessions : t # s => cache'[t] = cache[t]
  BY NewTypes, CacheTakes DEF DestroyForwarded
<1>4. TypeOK' /\ Others(s)
  BY <1>1, <1>2, <1>3 DEF TypeOK, Others
<1>5. Paired(s)' /\ Holds(s)'
  BY <1>1, <1>2 DEF Secured, Paired, Holds
<1>6. Named(s)'
  BY <1>1, <1>2, <1>3 DEF Secured, Named
<1> QED BY <1>4, <1>5, <1>6 DEF Secured

(* The exit of the server takes with it who does not catch the hangup.      *)
LEMMA StepExit ==
  ASSUME TypeOK, NEW s \in Sessions, Secured(s), Exit(s)
  PROVE  TypeOK' /\ Others(s) /\ Secured(s)'
<1>1. UNCHANGED <<getTickets, kind, cache, hist>> /\ srv[s].at = "exit"
  BY DEF Exit, Fixed, SrvAt
<1>2. /\ srv' \in [Sessions -> Servers] /\ srv'[s].at = "gone"
      /\ \A t \in Sessions : t # s => srv'[t] = srv[t]
  <2> DEFINE x == [srv[s] EXCEPT !.at = "gone", !.hung = TRUE]
  <2>1. x \in Servers /\ x.at = "gone"
    BY Members DEF Servers, SrvPlaces
  <2>2. srv' = [srv EXCEPT ![s] = x]
    BY DEF Exit, TypeOK
  <2> HIDE DEF x
  <2> QED BY <2>1, <2>2, SrvTakes
<1>3. /\ log' \in [Sessions -> Logs]
      /\ \A t \in Sessions : t # s => log'[t] = log[t]
      /\ \/ /\ log'[s].at = log[s].at /\ log'[s].user = log[s].user /\ log'[s].how = log[s].how
            /\ log'[s].tickets = log[s].tickets /\ log'[s].forwarded = log[s].forwarded
            /\ log[s].at \in {"none", "ready", "wait", "destroy"}
         \/ /\ log'[s].at = "gone" /\ log'[s].tickets = "none"
            /\ log[s].at \notin {"none", "ready", "wait", "destroy"}
  <2>1. CASE log[s].at \in {"ready", "wait", "destroy"}
    <3> DEFINE b == log[s].at = "wait"
               x == [log[s] EXCEPT !.hup = TRUE, !.eintr = b]
    <3>1. b \in BOOLEAN
      OBVIOUS
    <3>2. log' = [log EXCEPT ![s] = x]
      BY <2>1 DEF Exit, Hangup, TypeOK
    <3> HIDE DEF b
    <3>3. /\ x \in Logs /\ x.at = log[s].at /\ x.user = log[s].user /\ x.how = log[s].how
          /\ x.tickets = log[s].tickets /\ x.forwarded = log[s].forwarded
      BY <3>1, Members DEF Logs
    <3> HIDE DEF x
    <3> QED BY <2>1, <3>2, <3>3, LogTakes
  <2>2. CASE log[s].at = "none"
    BY <2>2 DEF Exit, Hangup, TypeOK
  <2>3. CASE log[s].at \notin {"none", "ready", "wait", "destroy"}
    <3>1. log' = [log EXCEPT ![s] = NewLog("gone")]
      BY <2>3 DEF Exit, Hangup
    <3>2. NewLog("gone").at = "gone" /\ NewLog("gone").tickets = "none"
      BY DEF NewLog
    <3> QED BY <2>3, <3>1, <3>2, NewTypes, LogTakes
  <2> QED BY <2>1, <2>2, <2>3
<1>4. /\ child' \in [Sessions -> Children]
      /\ \A t \in Sessions : t # s => child'[t] = child[t]
      /\ \/ child'[s] = child[s] /\ log[s].at # "self"
         \/ child'[s].at = "gone" /\ log[s].at = "self"
  <2>1. CASE log[s].at = "self"
    <3>1. child' = [child EXCEPT ![s] = NewChild("gone")]
      BY <2>1 DEF Exit, At
    <3>2. NewChild("gone").at = "gone"
      BY DEF NewChild
    <3> QED BY <2>1, <3>1, <3>2, NewTypes, ChildTakes
  <2>2. CASE log[s].at # "self"
    BY <2>2 DEF Exit, At, TypeOK
  <2> QED BY <2>1, <2>2
<1>5. TypeOK' /\ Others(s)
  BY <1>1, <1>2, <1>3, <1>4 DEF TypeOK, Others
<1>6. Paired(s)'
  <2>1. CASE child'[s].at = "gone" /\ log[s].at = "self"
    <3>1. log'[s].at = "gone"
      BY <1>3, <2>1
    <3> QED BY <1>2, <2>1, <3>1 DEF Paired, Running, Unforked
  <2>2. CASE child'[s] = child[s] /\ log[s].at # "self"
    <3>1. child[s].at \in Running => getTickets /\ log[s].at \in {"ready", "wait"}
      BY <2>2 DEF Secured, Paired
    <3>2. log'[s].at \in Unforked => log'[s].at = log[s].at
      BY <1>3 DEF Unforked
    <3> QED BY <1>1, <1>2, <1>3, <2>2, <3>1, <3>2 DEF Secured, Paired
  <2> QED BY <1>4, <2>1, <2>2
<1>7. Holds(s)'
  BY <1>1, <1>3 DEF Secured, Holds, Admitted, Watching
<1>8. Named(s)'
  <2>1. CASE child'[s].at = "gone"
    BY <2>1 DEF Named
  <2>2. CASE child'[s] = child[s] /\ log[s].at # "self"
    <3>1. CASE child[s].at \in Running
      <4>1. log[s].at \in {"ready", "wait"}
        BY <2>2, <3>1 DEF Secured, Paired
      <4>2. /\ log'[s].at = log[s].at /\ log'[s].user = log[s].user
            /\ log'[s].tickets = log[s].tickets /\ log'[s].forwarded = log[s].forwarded
        BY <1>3, <4>1
      <4> QED BY <1>1, <1>2, <2>2, <4>2 DEF Secured, Named
    <3>2. CASE child[s].at \notin Running
      <4>1. child[s].at \notin {"store", "shell"}
        BY <3>2 DEF Running
      <4>2. "gone" \notin {"fork", "self"} \union Watching
        BY DEF Watching
      <4> QED BY <1>1, <1>3, <2>2, <4>1, <4>2 DEF Secured, Named
    <3> QED BY <3>1, <3>2
  <2> QED BY <1>4, <2>1, <2>2
<1> QED BY <1>5, <1>6, <1>7, <1>8 DEF Secured

(* What a login that is let in, or is not, has become: the conditions on    *)
(* its tickets are all that the session needs.                              *)
LEMMA Attempted ==
  ASSUME TypeOK, NEW s \in Sessions, Secured(s), log[s].at = "prompt",
         UNCHANGED <<getTickets, kind, srv, child>>,
         NEW x \in Logs, log' = [log EXCEPT ![s] = x],
         NEW y \in Hists, hist' = [hist EXCEPT ![s] = y],
         hist[s].earlier \subseteq y.earlier,
         x.at \in {"accepted", "prompt", "gone"},
         x.tickets # "none" => getTickets,
         x.at # "accepted" => x.tickets \in {"none"} \union y.earlier,
         x.at = "accepted" =>
           /\ x.user # "none"
           /\ x.tickets \in {"none", x.user} \union y.earlier
           /\ x.how = "ticket" => x.tickets # "none",
         cache' = cache \/ cache' = [cache EXCEPT ![s] = NoCache]
  PROVE  TypeOK' /\ Others(s) /\ Secured(s)'
<1>1. log' \in [Sessions -> Logs] /\ log'[s] = x /\ \A t \in Sessions : t # s => log'[t] = log[t]
  BY LogTakes
<1>2. hist' \in [Sessions -> Hists] /\ hist'[s] = y /\ \A t \in Sessions : t # s => hist'[t] = hist[t]
  BY HistTakes
<1>3. child[s].at = "none"
  BY DEF Secured, Paired, Unforked
<1>4. /\ cache' \in [Sessions -> Caches] /\ cache'[s] \in {NoCache, FromClient}
      /\ \A t \in Sessions : t # s => cache'[t] = cache[t]
  <2>1. CASE cache' = cache
    BY <1>3, <2>1 DEF Secured, Named, TypeOK
  <2>2. CASE cache' = [cache EXCEPT ![s] = NoCache]
    BY <2>2, NewTypes, CacheTakes
  <2> QED BY <2>1, <2>2
<1>5. TypeOK' /\ Others(s)
  BY <1>1, <1>2, <1>4 DEF TypeOK, Others
<1>6. Paired(s)'
  BY <1>1, <1>3 DEF Secured, Paired, Running
<1>7. Holds(s)'
  BY <1>1, <1>2 DEF Holds, Admitted, Watching
<1>8. Named(s)'
  BY <1>1, <1>3, <1>4 DEF Named, Watching
<1> QED BY <1>5, <1>6, <1>7, <1>8 DEF Secured

(* The password loop: a login is let in, asks again or gives up.            *)
LEMMA StepAttempt ==
  ASSUME TypeOK, NEW s \in Sessions, Secured(s), Attempt(s), UNCHANGED kind
  PROVE  TypeOK' /\ Others(s) /\ Secured(s)'
<1>1. UNCHANGED <<getTickets, kind, srv, child>> /\ log[s].at = "prompt"
  BY DEF Attempt, At
<1>2. log[s] \in Logs /\ hist[s] \in Hists
  BY Members
<1>3. log[s].tickets \in {"none"} \union hist[s].earlier /\ (log[s].tickets # "none" => getTickets)
  BY <1>1 DEF Secured, Holds, Admitted, Watching
<1>4. PICK name \in Names : Preauthenticated(s, name) \/ Unprotected(s, name) \/ Password(s, name)
  <2>1. log[s].given \in Names /\ Accounts \union {"unknown"} \subseteq Names
    BY <1>2 DEF Logs, Names
  <2> QED BY <2>1 DEF Attempt
<1>5. hist = [hist EXCEPT ![s] = hist[s]]
  BY DEF TypeOK
<1>6. ASSUME NEW how \in Hows, NEW tickets \in Users \union {"none"}, name \in Accounts,
             log' = [log EXCEPT ![s].at = "accepted", ![s].user = name, ![s].how = how,
                                ![s].tickets = tickets],
             UNCHANGED <<cache, hist>>,
             tickets # "none" => getTickets,
             tickets \in {"none", name} \union hist[s].earlier,
             how = "ticket" => tickets # "none"
      PROVE  TypeOK' /\ Others(s) /\ Secured(s)'
  <2> DEFINE x == [log[s] EXCEPT !.at = "accepted", !.user = name, !.how = how, !.tickets = tickets]
  <2>1. x \in Logs /\ x.at = "accepted" /\ x.user = name /\ x.how = how /\ x.tickets = tickets
    BY <1>2, <1>6 DEF Logs, LogPlaces, Unforked
  <2>2. log' = [log EXCEPT ![s] = x]
    BY <1>6 DEF TypeOK
  <2>3. name # "none"
    BY <1>6, NamesApart
  <2>4. hist' = [hist EXCEPT ![s] = hist[s]]
    BY <1>5, <1>6
  <2> HIDE DEF x
  <2> QED BY <1>1, <1>2, <1>6, <2>1, <2>2, <2>3, <2>4, Attempted
<1>7. CASE Preauthenticated(s, name) \/ Unprotected(s, name)
  <2>1. PICK how \in {"server", "open"} : Admit(s, name, how) /\ name \in Accounts /\ UNCHANGED <<cache, hist>>
    BY <1>7 DEF Preauthenticated, Unprotected
  <2> DEFINE tickets == log[s].tickets
  <2>2. how \in Hows /\ how # "ticket" /\ tickets \in Users \union {"none"}
    BY <1>2 DEF Hows, Logs
  <2>3. log' = [log EXCEPT ![s].at = "accepted", ![s].user = name, ![s].how = how, ![s].tickets = tickets]
    <3>1. [log[s] EXCEPT !.at = "accepted", !.user = name, !.how = how]
            = [log[s] EXCEPT !.at = "accepted", !.user = name, !.how = how, !.tickets = log[s].tickets]
      BY <1>2 DEF Logs
    <3> QED BY <2>1, <3>1 DEF Admit, TypeOK
  <2> HIDE DEF tickets
  <2>4. tickets = log[s].tickets
    BY DEF tickets
  <2>5. /\ tickets # "none" => getTickets
        /\ tickets \in {"none", name} \union hist[s].earlier
        /\ how = "ticket" => tickets # "none"
    BY <1>3, <2>2, <2>4
  <2> QED BY <1>6, <2>1, <2>2, <2>3, <2>5, Zenon
<1>8. CASE Password(s, name)
  <2>1. PICK read, local, got, verified \in BOOLEAN :
          LET tried == getTickets /\ read /\ name \in Accounts
              tickets == IF tried /\ name # "root" THEN Obtained(s, name, got) ELSE log[s].tickets
              how == IF ~tried THEN "none"
                     ELSE IF local THEN "password"
                     ELSE IF tickets # "none" /\ verified THEN "ticket" ELSE "none"
          IN  IF how # "none"
              THEN /\ log' = [log EXCEPT ![s].at = "accepted", ![s].user = name, ![s].how = how,
                                         ![s].tickets = tickets]
                   /\ UNCHANGED <<cache, hist>>
              ELSE /\ log' = [log EXCEPT ![s] = Failed([@ EXCEPT !.tickets = tickets])]
                   /\ cache' = IF getTickets THEN Destroyed(s, tickets) ELSE cache
                   /\ hist' = [hist EXCEPT ![s].earlier = @ \union ({tickets} \ {"none"})]
    BY <1>8, Zenon DEF Password
  <2> DEFINE tried == getTickets /\ read /\ name \in Accounts
             tickets == IF tried /\ name # "root" THEN Obtained(s, name, got) ELSE log[s].tickets
             how == IF ~tried THEN "none"
                    ELSE IF local THEN "password"
                    ELSE IF tickets # "none" /\ verified THEN "ticket" ELSE "none"
  <2>2. /\ tickets \in Users \union {"none"}
        /\ tickets # "none" => getTickets
        /\ tickets \in {"none", name} \union hist[s].earlier
    BY <1>2, <1>3, NamesApart DEF Obtained, Logs, Accounts
  <2>3. /\ how \in Hows
        /\ how # "none" => name \in Accounts
        /\ how = "ticket" => tickets # "none"
    BY DEF Hows
  <2>4. CASE how # "none"
    <3>1. /\ log' = [log EXCEPT ![s].at = "accepted", ![s].user = name, ![s].how = how,
                                ![s].tickets = tickets]
          /\ UNCHANGED <<cache, hist>>
      BY <2>1, <2>4
    <3> HIDE DEF tried, tickets, how
    <3>2. name \in Accounts
      BY <2>3, <2>4
    <3> QED BY <1>6, <2>2, <2>3, <3>1, <3>2, Zenon
  <2>5. CASE how = "none"
    <3>1. /\ log' = [log EXCEPT ![s] = Failed([@ EXCEPT !.tickets = tickets])]
          /\ cache' = IF getTickets THEN Destroyed(s, tickets) ELSE cache
          /\ hist' = [hist EXCEPT ![s].earlier = @ \union ({tickets} \ {"none"})]
      BY <2>1, <2>5
    <3> HIDE DEF tried, tickets, how
    <3> DEFINE l == [log[s] EXCEPT !.tickets = tickets]
               x == Failed(l)
               y == [hist[s] EXCEPT !.earlier = hist[s].earlier \union ({tickets} \ {"none"})]
    <3>2. l \in Logs /\ l.at = "prompt" /\ l.tickets = tickets /\ l.fails \in Nat
      BY <1>1, <1>2, <2>2 DEF Logs
    <3>3. log' = [log EXCEPT ![s] = x]
      BY <3>1 DEF TypeOK
    <3>4. hist' = [hist EXCEPT ![s] = y]
      BY <3>1 DEF TypeOK
    <3> HIDE DEF l
    <3>5. /\ x \in Logs
          /\ x.at \in {"prompt", "gone"}
          /\ x.tickets \in {"none", tickets}
      <4>1. CASE l.fails + 1 >= MaxAttempts
        BY <4>1, NewTypes DEF Failed, NewLog
      <4>2. CASE ~(l.fails + 1 >= MaxAttempts)
        <5> DEFINE n == l.fails + 1
                   z == [l EXCEPT !.fails = n, !.given = "none", !.pre = FALSE]
        <5>1. n \in Nat
          BY <3>2
        <5>2. x = z
          BY <4>2, <3>2 DEF Failed
        <5> HIDE DEF n, x
        <5>3. z \in Logs /\ z.at = "prompt" /\ z.tickets = tickets
          BY <3>2, <5>1 DEF Logs, Names
        <5> QED BY <5>2, <5>3
      <4> QED BY <4>1, <4>2
    <3> HIDE DEF x
    <3>6. /\ y \in Hists /\ hist[s].earlier \subseteq y.earlier
          /\ tickets \in {"none"} \union y.earlier
      BY <1>2, <2>2 DEF Hists
    <3> HIDE DEF y
    <3>7. cache' = cache \/ cache' = [cache EXCEPT ![s] = NoCache]
      BY <3>1 DEF Destroyed
    <3> QED BY <1>1, <2>2, <3>3, <3>4, <3>5, <3>6, <3>7, Attempted
  <2> HIDE DEF how
  <2> QED BY <2>4, <2>5
<1> QED BY <1>4, <1>7, <1>8

(* The login gives the terminal to the user, and takes note of a file that  *)
(* the server has left.                                                     *)
LEMMA StepTakeTty ==
  ASSUME TypeOK, NEW s \in Sessions, Secured(s), TakeTty(s), UNCHANGED kind
  PROVE  TypeOK' /\ Others(s) /\ Secured(s)'
<1> DEFINE b == log[s].tickets = "none" /\ cache[s] # NoCache
           x == [log[s] EXCEPT !.at = "fork", !.forwarded = b]
<1>1. UNCHANGED <<getTickets, kind, srv, child, cache>> /\ log[s].at = "own"
  BY DEF TakeTty, At
<1>2. child[s].at = "none"
  BY <1>1 DEF Secured, Paired, Unforked
<1>3. b \in BOOLEAN /\ (b \/ cache[s] = NoCache \/ log[s].tickets # "none")
  OBVIOUS
<1>4. log' = [log EXCEPT ![s] = x]
  BY DEF TakeTty, TypeOK
<1> HIDE DEF b
<1>5. /\ x \in Logs /\ x.at = "fork" /\ x.forwarded = b
      /\ x.user = log[s].user /\ x.how = log[s].how /\ x.tickets = log[s].tickets
  BY <1>3, Members DEF Logs, LogPlaces, Unforked
<1> HIDE DEF x
<1>6. log' \in [Sessions -> Logs] /\ log'[s] = x /\ \A t \in Sessions : t # s => log'[t] = log[t]
  BY <1>4, <1>5, LogTakes
<1>7. /\ hist' \in [Sessions -> Hists] /\ hist'[s].earlier = hist[s].earlier
      /\ \A t \in Sessions : t # s => hist'[t] = hist[t]
  <2> DEFINE c == hist[s].late \/ srv[s].at \in {"tty", "creds", "exit", "gone"}
  <2>1. c \in BOOLEAN
    OBVIOUS
  <2>2. hist' = [hist EXCEPT ![s].late = c]
    BY DEF TakeTty, Late, TypeOK
  <2> HIDE DEF c
  <2> QED BY <2>1, <2>2, HistNotes
<1>8. TypeOK' /\ Others(s)
  BY <1>1, <1>6, <1>7 DEF TypeOK, Others
<1>9. Paired(s)'
  <2>1. srv[s].at \notin {"idle", "half", "ready"}
    BY <1>1 DEF Secured, Paired
  <2> QED BY <1>1, <1>2, <1>5, <1>6, <2>1 DEF Paired, Running
<1>10. Holds(s)'
  BY <1>1, <1>5, <1>6, <1>7 DEF Secured, Holds, Admitted, Watching
<1>11. Named(s)'
  <2>1. cache[s] \in {NoCache, FromClient}
    BY <1>2 DEF Secured, Named
  <2> QED BY <1>1, <1>2, <1>3, <1>5, <1>6, <2>1 DEF Named
<1> QED BY <1>8, <1>9, <1>10, <1>11 DEF Secured

(* The fork: the login stays to watch, or is itself the child.              *)
LEMMA StepFork ==
  ASSUME TypeOK, NEW s \in Sessions, Secured(s), DoFork(s), UNCHANGED kind
  PROVE  TypeOK' /\ Others(s) /\ Secured(s)'
<1>1. UNCHANGED <<getTickets, kind, srv, cache, hist>> /\ log[s].at = "fork"
  BY DEF DoFork, At
<1>2. child[s].at = "none"
  BY <1>1 DEF Secured, Paired, Unforked
<1>3. PICK pc \in {"watch", "self"}, to \in {"sync", "group"} :
        /\ LogTo(s, pc) /\ ChildTo(s, to)
        /\ to = "sync" => getTickets /\ pc = "watch"
        /\ to = "group" => ~getTickets /\ pc = "self"
  BY DEF DoFork
<1>4. /\ log' \in [Sessions -> Logs] /\ log'[s].at = pc
      /\ log'[s].user = log[s].user /\ log'[s].how = log[s].how
      /\ log'[s].tickets = log[s].tickets /\ log'[s].forwarded = log[s].forwarded
      /\ \A t \in Sessions : t # s => log'[t] = log[t]
  <2>1. pc \in LogPlaces /\ pc # "gone"
    BY DEF LogPlaces, Watching
  <2> QED BY <1>3, <2>1, LogPlace
<1>5. /\ child' \in [Sessions -> Children] /\ child'[s].at = to
      /\ \A t \in Sessions : t # s => child'[t] = child[t]
  BY <1>3, ChildPlace DEF ChildPlaces
<1>6. TypeOK' /\ Others(s)
  BY <1>1, <1>4, <1>5 DEF TypeOK, Others
<1>7. Paired(s)'
  <2>1. srv[s].at \notin {"idle", "half", "ready"}
    BY <1>1 DEF Secured, Paired
  <2>2. pc \notin Unforked
    BY DEF Unforked
  <2> QED BY <1>1, <1>3, <1>4, <1>5, <2>1, <2>2 DEF Paired, Running
<1>8. Holds(s)'
  BY <1>1, <1>4 DEF Secured, Holds, Admitted, Watching
<1>9. Named(s)'
  BY <1>1, <1>2, <1>4, <1>5 DEF Secured, Named, Watching
<1> QED BY <1>6, <1>7, <1>8, <1>9 DEF Secured

(* The watching process passes a hangup on to the child.                    *)
LEMMA StepPass ==
  ASSUME TypeOK, NEW s \in Sessions, Secured(s), PassHangup(s), UNCHANGED kind
  PROVE  TypeOK' /\ Others(s) /\ Secured(s)'
<1>1. UNCHANGED <<getTickets, kind, srv, cache>> /\ log[s].at = "wait"
  BY DEF PassHangup, At
<1>2. /\ log' \in [Sessions -> Logs] /\ log'[s].at = log[s].at
      /\ log'[s].user = log[s].user /\ log'[s].how = log[s].how
      /\ log'[s].tickets = log[s].tickets /\ log'[s].forwarded = log[s].forwarded
      /\ \A t \in Sessions : t # s => log'[t] = log[t]
  <2> DEFINE x == [log[s] EXCEPT !.eintr = FALSE]
  <2>1. /\ x \in Logs /\ x.at = log[s].at /\ x.user = log[s].user /\ x.how = log[s].how
        /\ x.tickets = log[s].tickets /\ x.forwarded = log[s].forwarded
    BY Members DEF Logs
  <2>2. log' = [log EXCEPT ![s] = x]
    BY DEF PassHangup, TypeOK
  <2> HIDE DEF x
  <2> QED BY <2>1, <2>2, LogTakes
<1>3. /\ child' \in [Sessions -> Children]
      /\ child'[s] = child[s] \/ child'[s].at = "gone"
      /\ \A t \in Sessions : t # s => child'[t] = child[t]
  <2>1. CASE ChildTo(s, "gone")
    BY <2>1, ChildPlace DEF ChildPlaces
  <2>2. CASE child' = child
    BY <2>2 DEF TypeOK
  <2> QED BY <2>1, <2>2 DEF PassHangup
<1>4. /\ hist' \in [Sessions -> Hists] /\ hist'[s].earlier = hist[s].earlier
      /\ \A t \in Sessions : t # s => hist'[t] = hist[t]
  <2> DEFINE b == Alive(child[s])
  <2>1. b \in BOOLEAN
    BY DEF Alive
  <2>2. hist' = hist \/ hist' = [hist EXCEPT ![s].missed = b]
    BY DEF PassHangup
  <2> HIDE DEF b
  <2> QED BY <2>1, <2>2, HistNotes
<1>5. TypeOK' /\ Others(s)
  BY <1>1, <1>2, <1>3, <1>4 DEF TypeOK, Others
<1>6. Paired(s)'
  BY <1>1, <1>2, <1>3 DEF Secured, Paired, Running, Unforked
<1>7. Holds(s)'
  BY <1>1, <1>2, <1>4 DEF Secured, Holds
<1>8. Named(s)'
  BY <1>1, <1>2, <1>3, <1>4 DEF Secured, Named
<1> QED BY <1>5, <1>6, <1>7, <1>8 DEF Secured

(* The watching process destroys the tickets and ends.                      *)
LEMMA StepDestroy ==
  ASSUME TypeOK, NEW s \in Sessions, Secured(s), DestroyTickets(s), UNCHANGED kind
  PROVE  TypeOK' /\ Others(s) /\ Secured(s)'
<1>1. UNCHANGED <<getTickets, kind, srv, child, hist>> /\ log[s].at = "destroy"
  BY DEF DestroyTickets, At
<1>2. /\ log' \in [Sessions -> Logs] /\ log'[s].at = "gone" /\ log'[s].tickets = "none"
      /\ \A t \in Sessions : t # s => log'[t] = log[t]
  BY LogPlace DEF DestroyTickets, LogPlaces
<1>3. /\ cache' \in [Sessions -> Caches] /\ cache'[s] = NoCache
      /\ \A t \in Sessions : t # s => cache'[t] = cache[t]
  BY NewTypes, CacheTakes DEF DestroyTickets
<1>4. child[s].at \notin Running \union {"sync"}
  BY <1>1 DEF Secured, Paired
<1>5. TypeOK' /\ Others(s)
  BY <1>1, <1>2, <1>3 DEF TypeOK, Others
<1>6. Paired(s)'
  BY <1>1, <1>2, <1>4 DEF Secured, Paired, Unforked
<1>7. Holds(s)'
  BY <1>1, <1>2 DEF Holds, Admitted, Watching
<1>8. Named(s)'
  BY <1>1, <1>2, <1>3, <1>4 DEF Named, Running
<1> QED BY <1>5, <1>6, <1>7, <1>8 DEF Secured

(* The child waits for its parent and takes a process group of its own.     *)
LEMMA StepSync ==
  ASSUME TypeOK, NEW s \in Sessions, Secured(s), Sync(s) \/ OwnGroup(s), UNCHANGED kind
  PROVE  TypeOK' /\ Others(s) /\ Secured(s)'
<1>1. UNCHANGED <<getTickets, kind, srv, log, cache, hist>>
  BY DEF Sync, OwnGroup
<1>2. PICK to \in {"group", "setuid", "gone"} :
        /\ ChildTo(s, to)
        /\ child[s].at \in {"sync", "group"}
        /\ to # "gone" => log[s].at \in IF getTickets THEN {"ready", "wait"} ELSE {"self"}
  <2>1. CASE Sync(s)
    <3>1. child[s].at = "sync" /\ getTickets /\ log[s].at \in {"ready", "wait", "gone"}
      BY <2>1 DEF Sync, At, Secured, Paired
    <3>2. CASE Alive(log[s])
      BY <2>1, <3>1, <3>2 DEF Sync, Alive
    <3>3. CASE ~Alive(log[s])
      BY <2>1, <3>1, <3>3 DEF Sync
    <3> QED BY <3>2, <3>3
  <2>2. CASE OwnGroup(s)
    BY <2>2 DEF OwnGroup, Secured, Paired, Running
  <2> QED BY <2>1, <2>2
<1>3. /\ child' \in [Sessions -> Children] /\ child'[s].at = to
      /\ \A t \in Sessions : t # s => child'[t] = child[t]
  BY <1>2, ChildPlace DEF ChildPlaces
<1>4. TypeOK' /\ Others(s)
  BY <1>1, <1>3 DEF TypeOK, Others
<1>5. log[s].at \notin Unforked
  BY <1>2 DEF Secured, Paired
<1>6. Paired(s)' /\ Holds(s)'
  BY <1>1, <1>2, <1>3, <1>5 DEF Secured, Paired, Holds, Running
<1>7. Named(s)'
  BY <1>1, <1>2, <1>3 DEF Secured, Named
<1> QED BY <1>4, <1>6, <1>7 DEF Secured

(* The child reads the forwarded credentials and becomes the user.          *)
LEMMA StepBecome ==
  ASSUME TypeOK, NEW s \in Sessions, Secured(s), BecomeUser(s), UNCHANGED kind
  PROVE  TypeOK' /\ Others(s) /\ Secured(s)'
<1>1. UNCHANGED <<getTickets, kind, srv, log, hist>> /\ child[s].at = "setuid"
  BY DEF BecomeUser
<1>2. log[s].at \in IF getTickets THEN {"ready", "wait"} ELSE {"self"}
  BY <1>1 DEF Secured, Paired, Running
<1>3. /\ cache[s] \in {NoCache, FromClient}
      /\ cache[s] = NoCache \/ log[s].forwarded \/ log[s].tickets # "none"
  BY <1>1, <1>2 DEF Secured, Named, Watching
<1>4. PICK saved \in {"none", cache[s].creds} : child' = [child EXCEPT ![s].at = "store", ![s].saved = saved]
  BY Zenon DEF BecomeUser
<1>5. saved \in {"none", "client"}
  BY <1>3, <1>4 DEF NoCache, FromClient
<1>6. /\ child' \in [Sessions -> Children] /\ child'[s].at = "store" /\ child'[s].saved = saved
      /\ \A t \in Sessions : t # s => child'[t] = child[t]
  <2> DEFINE x == [child[s] EXCEPT !.at = "store", !.saved = saved]
  <2>1. x \in Children /\ x.at = "store" /\ x.saved = saved
    BY <1>5, Members DEF Children, ChildPlaces, Creds
  <2>2. child' = [child EXCEPT ![s] = x]
    BY <1>4 DEF TypeOK
  <2> HIDE DEF x
  <2> QED BY <2>1, <2>2, ChildTakes
<1>7. /\ cache' \in [Sessions -> Caches] /\ cache'[s] \in {NoCache, FromClient}
      /\ cache'[s] = NoCache \/ log[s].tickets # "none" \/ ~getTickets
      /\ \A t \in Sessions : t # s => cache'[t] = cache[t]
  <2>1. CASE log[s].forwarded /\ getTickets
    <3>1. cache' = [cache EXCEPT ![s] = NoCache]
      BY <2>1 DEF BecomeUser
    <3> QED BY <3>1, NewTypes, CacheTakes
  <2>2. CASE ~(log[s].forwarded /\ getTickets)
    <3>1. cache' = cache
      BY <2>2 DEF BecomeUser
    <3> QED BY <1>3, <2>2, <3>1 DEF TypeOK
  <2> QED BY <2>1, <2>2
<1>8. TypeOK' /\ Others(s)
  BY <1>1, <1>6, <1>7 DEF TypeOK, Others
<1>9. Paired(s)' /\ Holds(s)'
  BY <1>1, <1>2, <1>6 DEF Secured, Paired, Holds, Running, Unforked
<1>10. Named(s)'
  BY <1>1, <1>5, <1>6, <1>7 DEF Named
<1> QED BY <1>8, <1>9, <1>10 DEF Secured

(* The child writes the credentials as the user and starts the shell.       *)
LEMMA StepStore ==
  ASSUME TypeOK, NEW s \in Sessions, Secured(s), StoreTickets(s), UNCHANGED kind
  PROVE  TypeOK' /\ Others(s) /\ Secured(s)'
<1>1. UNCHANGED <<getTickets, kind, srv, log>> /\ child[s].at = "store"
  BY DEF StoreTickets
<1>2. log[s].at \in IF getTickets THEN {"ready", "wait"} ELSE {"self"}
  BY <1>1 DEF Secured, Paired, Running
<1>3. /\ log[s].user # "none" /\ log[s].user \in Accounts
      /\ log[s].tickets \in {"none", log[s].user} \union hist[s].earlier
      /\ log[s].tickets \in Users \union {"none"}
  <2>1. log[s].user # "none" /\ log[s].tickets \in {"none", log[s].user} \union hist[s].earlier
    BY <1>2 DEF Secured, Holds, Admitted, Watching
  <2>2. log[s].user \in Accounts \union {"none"} /\ log[s].tickets \in Users \union {"none"}
    BY Members DEF Logs
  <2> QED BY <2>1, <2>2
<1>4. /\ child[s].saved \in {"none", "client"}
      /\ cache[s] = NoCache \/ log[s].tickets # "none" \/ ~getTickets
      /\ cache[s] \in {NoCache, FromClient}
  BY <1>1 DEF Secured, Named
<1> DEFINE new == [owner |-> log[s].user, creds |-> ToStore(s)]
<1>5. /\ cache' \in [Sessions -> Caches]
      /\ \A t \in Sessions : t # s => cache'[t] = cache[t]
      /\ \/ /\ cache'[s].owner = log[s].user /\ cache'[s] # NoCache
            /\ cache'[s].creds \in {log[s].user, "client"} \union hist[s].earlier
         \/ /\ cache'[s] = cache[s]
            /\ cache[s] = NoCache => log[s].tickets = "none"
  <2>1. CASE ToStore(s) # "none" /\ Writable(s)
    <3>1. cache' = [cache EXCEPT ![s] = new]
      BY <2>1 DEF StoreTickets
    <3>2. /\ ToStore(s) \in {log[s].user, "client"} \union hist[s].earlier
          /\ ToStore(s) \in Creds
      BY <1>3, <1>4, <2>1, NamesApart DEF ToStore, Creds
    <3>3. new.owner = log[s].user /\ new.creds = ToStore(s)
      OBVIOUS
    <3>4. new \in Caches /\ new # NoCache
      BY <1>3, <3>2 DEF Caches, NoCache
    <3> HIDE DEF new
    <3> QED BY <3>1, <3>2, <3>3, <3>4, CacheTakes
  <2>2. CASE ~(ToStore(s) # "none" /\ Writable(s))
    <3>1. cache' = cache
      BY <2>2 DEF StoreTickets
    <3>2. cache[s] = NoCache => Writable(s)
      BY DEF Writable, NoCache
    <3>3. cache[s] = NoCache => log[s].tickets = "none"
      BY <2>2, <3>2 DEF ToStore
    <3> QED BY <3>1, <3>3 DEF TypeOK
  <2> QED BY <2>1, <2>2
<1>6. /\ child' \in [Sessions -> Children] /\ child'[s].at = "shell"
      /\ \A t \in Sessions : t # s => child'[t] = child[t]
  BY ChildPlace DEF StoreTickets, ChildPlaces
<1>7. /\ hist' \in [Sessions -> Hists] /\ hist'[s].earlier = hist[s].earlier
      /\ \A t \in Sessions : t # s => hist'[t] = hist[t]
  <2> DEFINE b == srv[s].at = "exit" /\ ~getTickets
  <2>1. b \in BOOLEAN
    OBVIOUS
  <2>2. hist' = [hist EXCEPT ![s].kept = b]
    BY DEF StoreTickets
  <2> HIDE DEF b
  <2> QED BY <2>1, <2>2, HistNotes
<1>8. TypeOK' /\ Others(s)
  BY <1>1, <1>5, <1>6, <1>7 DEF TypeOK, Others
<1>9. Paired(s)' /\ Holds(s)'
  BY <1>1, <1>2, <1>6, <1>7 DEF Secured, Paired, Holds, Running, Unforked
<1>10. Named(s)'
  BY <1>1, <1>4, <1>5, <1>6, <1>7 DEF Named
<1> QED BY <1>8, <1>9, <1>10 DEF Secured

(* The shell is busy, or ends; without a watching process so does login.    *)
LEMMA StepShell ==
  ASSUME TypeOK, NEW s \in Sessions, Secured(s), Busy(s) \/ ShellDone(s), UNCHANGED kind
  PROVE  TypeOK' /\ Others(s) /\ Secured(s)'
<1>1. UNCHANGED <<getTickets, kind, srv, cache, hist>> /\ child[s].at = "shell"
  BY DEF Busy, ShellDone
<1>2. log[s].at \in IF getTickets THEN {"ready", "wait"} ELSE {"self"}
  BY <1>1 DEF Secured, Paired, Running
<1>3. CASE Busy(s)
  <2> DEFINE x == [child[s] EXCEPT !.busy = TRUE]
  <2>1. x \in Children /\ x.at = "shell"
    BY <1>1, Members DEF Children
  <2>2. child' = [child EXCEPT ![s] = x] /\ log' = log
    BY <1>3 DEF Busy, TypeOK
  <2> HIDE DEF x
  <2>3. /\ child' \in [Sessions -> Children] /\ child'[s].at = "shell"
        /\ \A t \in Sessions : t # s => child'[t] = child[t]
    BY <2>1, <2>2, ChildTakes
  <2>4. TypeOK' /\ Others(s)
    BY <1>1, <2>2, <2>3 DEF TypeOK, Others
  <2>5. Paired(s)' /\ Holds(s)'
    BY <1>1, <2>2, <2>3 DEF Secured, Paired, Holds
  <2>6. Named(s)'
    BY <1>1, <2>2, <2>3 DEF Secured, Named
  <2> QED BY <2>4, <2>5, <2>6 DEF Secured
<1>4. CASE ShellDone(s)
  <2>1. /\ child' \in [Sessions -> Children] /\ child'[s].at = "gone"
        /\ \A t \in Sessions : t # s => child'[t] = child[t]
    BY <1>4, ChildPlace DEF ShellDone, ChildPlaces
  <2>2. /\ log' \in [Sessions -> Logs]
        /\ log'[s] = log[s] \/ (log'[s].at = "gone" /\ log'[s].tickets = "none")
        /\ \A t \in Sessions : t # s => log'[t] = log[t]
    <3>1. CASE At(s, "self")
      <4>1. NewLog("gone").at = "gone" /\ NewLog("gone").tickets = "none"
        BY DEF NewLog
      <4> QED BY <1>4, <3>1, <4>1, NewTypes, LogTakes DEF ShellDone
    <3>2. CASE ~At(s, "self")
      BY <1>4, <3>2 DEF ShellDone, TypeOK
    <3> QED BY <3>1, <3>2
  <2>3. TypeOK' /\ Others(s)
    BY <1>1, <2>1, <2>2 DEF TypeOK, Others
  <2>4. Paired(s)'
    BY <1>1, <1>2, <2>1, <2>2 DEF Secured, Paired, Running, Unforked
  <2>5. Holds(s)'
    BY <1>1, <2>2 DEF Secured, Holds, Admitted, Watching
  <2>6. Named(s)'
    BY <2>1 DEF Named
  <2> QED BY <2>3, <2>4, <2>5, <2>6 DEF Secured
<1> QED BY <1>3, <1>4
----------------------------------------------------------------------------
Safe == TypeOK /\ \A s \in Sessions : Secured(s)

(* Initially nobody is logged in and there are no credentials.              *)
LEMMA SafeInit == Init => Safe
<1> SUFFICES ASSUME Init PROVE Safe
  OBVIOUS
<1>1. getTickets \in BOOLEAN /\ kind \in Kinds
  BY RequestAssumption DEF Init
<1>2. srv \in [Sessions -> Servers]
  BY DEF Init, Servers, SrvPlaces
<1>3. /\ log \in [Sessions -> Logs] /\ child \in [Sessions -> Children]
      /\ cache \in [Sessions -> Caches]
  BY NewTypes DEF Init
<1>4. hist \in [Sessions -> Hists]
  BY DEF Init, Hists
<1>5. ASSUME NEW s \in Sessions
      PROVE  Secured(s)
  <2>1. /\ srv[s].at = "idle" /\ log[s].at = "none" /\ log[s].tickets = "none"
        /\ child[s].at = "none" /\ cache[s] = NoCache
    BY DEF Init, NewLog, NewChild
  <2> QED BY <2>1 DEF Secured, Paired, Holds, Named, Running, Admitted, Watching
<1> QED BY <1>1, <1>2, <1>3, <1>4, <1>5 DEF Safe, TypeOK

(* Every step of a session secures it.                                      *)
LEMMA StepSecures ==
  ASSUME Safe, NEW s \in Sessions,
         \/ Server(s) \/ RecordLogin(s) \/ OpenSlave(s) \/ Exec(s) \/ GoesAway(s) \/ NetDown(s)
         \/ (Attempt(s) \/ LoginSteps(s) \/ ChildSteps(s) \/ Busy(s) \/ ShellDone(s)) /\ UNCHANGED kind
  PROVE  TypeOK' /\ Others(s) /\ Secured(s)'
<1>1. TypeOK /\ Secured(s)
  BY DEF Safe
<1>2. CASE Server(s) \/ RecordLogin(s) \/ OpenSlave(s) \/ Exec(s) \/ GoesAway(s) \/ NetDown(s)
  BY <1>1, <1>2, StepServer, StepLogin, StepAuthenticate, StepGetty, StepForwarded, StepExit
     DEF Server
<1>3. CASE (Attempt(s) \/ LoginSteps(s)) /\ UNCHANGED kind
  BY <1>1, <1>3, StepAttempt, StepLogin, StepTakeTty, StepFork, StepWatch, StepPass, StepDestroy
     DEF LoginSteps
<1>4. CASE (ChildSteps(s) \/ Busy(s) \/ ShellDone(s)) /\ UNCHANGED kind
  BY <1>1, <1>4, StepSync, StepBecome, StepStore, StepShell DEF ChildSteps, ShellReadsEnd
<1> QED BY <1>2, <1>3, <1>4

(* What never changes.                                                      *)
LEMMA NextFixed == [Next]_vars => UNCHANGED <<kind, getTickets>>
<1> SUFFICES ASSUME [Next]_vars PROVE UNCHANGED <<kind, getTickets>>
  OBVIOUS
<1>1. CASE UNCHANGED vars
  BY <1>1 DEF vars
<1>2. CASE Next
  <2>1. PICK s \in Sessions :
          \/ Server(s) \/ RecordLogin(s) \/ OpenSlave(s) \/ Exec(s) \/ GoesAway(s) \/ NetDown(s)
          \/ (Attempt(s) \/ LoginSteps(s) \/ ChildSteps(s) \/ Busy(s) \/ ShellDone(s)) /\ UNCHANGED kind
    BY <1>2 DEF Next
  <2>2. CASE Server(s)
    <3>1. CASE GetPty(s) \/ Fork(s) \/ Serve(s) \/ SlaveFailed(s) \/ StartCleanup(s)
      BY <3>1 DEF GetPty, Fork, Serve, SlaveFailed, StartCleanup, Fixed
    <3>2. CASE RecordDead(s) \/ ReturnTty(s) \/ DestroyForwarded(s) \/ Exit(s)
      BY <3>2, Zenon DEF RecordDead, ReturnTty, DestroyForwarded, Exit, Fixed
    <3>3. CASE Authenticate(s) \/ GettyStarts(s) \/ GettyEnds(s)
      BY <3>3, Zenon DEF Authenticate, GettyStarts, GettyEnds, Fixed
    <3> QED BY <2>2, <3>1, <3>2, <3>3 DEF Server
  <2>3. CASE RecordLogin(s) \/ OpenSlave(s) \/ Exec(s) \/ GoesAway(s) \/ NetDown(s)
    BY <2>3 DEF RecordLogin, OpenSlave, Exec, GoesAway, NetDown, Fixed
  <2>4. CASE LoginSteps(s) /\ UNCHANGED kind
    BY <2>4 DEF LoginSteps, RecordUser, TakeTty, DoFork, Ready, Wait, PassHangup, Reap,
       DestroyTickets, LeaveLogin, LoginStarts
  <2>5. CASE (Attempt(s) \/ ChildSteps(s) \/ Busy(s) \/ ShellDone(s)) /\ UNCHANGED kind
    BY <2>5 DEF Attempt, ChildSteps, Busy, ShellDone, Sync, OwnGroup, BecomeUser, StoreTickets,
       ShellReadsEnd
  <2> QED BY <2>1, <2>2, <2>3, <2>4, <2>5
<1> QED BY <1>1, <1>2

(* And leaves every other session as secure as it was.                      *)
LEMMA SafeNext == Safe /\ [Next]_vars => Safe'
<1> SUFFICES ASSUME Safe, [Next]_vars PROVE Safe'
  OBVIOUS
<1>1. CASE Next
  <2>1. PICK s \in Sessions :
          \/ Server(s) \/ RecordLogin(s) \/ OpenSlave(s) \/ Exec(s) \/ GoesAway(s) \/ NetDown(s)
          \/ (Attempt(s) \/ LoginSteps(s) \/ ChildSteps(s) \/ Busy(s) \/ ShellDone(s)) /\ UNCHANGED kind
    BY <1>1 DEF Next
  <2>2. TypeOK' /\ Others(s) /\ Secured(s)'
    BY <2>1, StepSecures
  <2>3. UNCHANGED getTickets
    BY NextFixed
  <2>4. ASSUME NEW t \in Sessions, t # s
        PROVE  Secured(t)'
    BY <2>2, <2>3, <2>4, Apart DEF Safe, Others
  <2> QED BY <2>2, <2>4 DEF Safe
<1>2. CASE UNCHANGED vars
  <2>1. UNCHANGED <<getTickets, srv, log, child, cache, hist, kind>>
    BY <1>2 DEF vars
  <2>2. TypeOK'
    BY <2>1 DEF Safe, TypeOK
  <2>3. ASSUME NEW t \in Sessions
        PROVE  Secured(t)'
    BY <2>1, <2>3, Apart DEF Safe
  <2> QED BY <2>2, <2>3 DEF Safe
<1> QED BY <1>1, <1>2

(* A session whose shell runs has credentials as it should.                 *)
LEMMA SafeCredentials == Safe => Credentials
<1> SUFFICES ASSUME Safe, NEW s \in Sessions, child[s].at = "shell"
             PROVE  /\ \/ cache[s] = NoCache
                       \/ cache[s].owner = log[s].user
                       \/ /\ cache[s] = [owner |-> "root", creds |-> "client"]
                          /\ log[s].tickets # "none" \/ ~getTickets
                    /\ cache[s].creds \in {"none", log[s].user, "client"} \union hist[s].earlier
                    /\ log[s].how = "ticket" => log[s].tickets \in {log[s].user} \union hist[s].earlier
                    /\ cache[s] = NoCache /\ log[s].tickets # "none"
                         => srv[s].at \in {"exit", "gone"} \/ srv[s].at = "creds"
  BY DEF Credentials
<1>1. Paired(s) /\ Holds(s) /\ Named(s)
  BY DEF Safe, Secured
<1>2. log[s].at \in Admitted
  BY <1>1 DEF Paired, Running, Admitted, Watching
<1>3. log[s].how = "ticket" => log[s].tickets \in {log[s].user} \union hist[s].earlier
  BY <1>1, <1>2 DEF Holds
<1>4. cache[s].creds \in {"none", log[s].user, "client"} \union hist[s].earlier
  BY <1>1 DEF Named, NoCache, FromClient
<1> QED BY <1>1, <1>3, <1>4 DEF Named, FromClient

(* The processes of every session, and what they know, have their types.    *)
THEOREM TypeCorrect == Spec => []TypeOK
<1>1. Init => Safe
  BY SafeInit
<1>2. Safe /\ [Next]_vars => Safe'
  BY SafeNext
<1>3. Safe => TypeOK
  BY DEF Safe
<1> QED BY <1>1, <1>2, <1>3, PTL DEF Spec

(* The shell of a user has credentials of this user or of the client the    *)
(* server authenticated, in a file it can read, whatever sessions there are *)
(* and whoever fails, forwards or hangs up on the way.                      *)
THEOREM CredentialsHolds == Spec => []Credentials
<1>1. Init => Safe
  BY SafeInit
<1>2. Safe /\ [Next]_vars => Safe'
  BY SafeNext
<1>3. Safe => Credentials
  BY SafeCredentials
<1> QED BY <1>1, <1>2, <1>3, PTL DEF Spec
----------------------------------------------------------------------------
(* The table of who is logged in has at most one entry for a terminal, with *)
(* the identifier that init or the library gives it.                        *)
Places == Lines \union {Console}
Ident(l) == IF l = Console THEN <<"getty", Console>> ELSE IdOf(l)
Titles == Accounts \union {"LOGIN", ""}
Entries ==
  [type : {"login", "user", "dead"}, pid : Sessions, id : {Ident(l) : l \in Places},
   line : Places, user : Titles]
Table(u) ==
  /\ u \in Seq(Entries)
  /\ \A i \in DOMAIN u : u[i].id = Ident(u[i].line)
  /\ \A i, j \in DOMAIN u : u[i].line = u[j].line => i = j

(* A nonempty set of numbers has a least element.                           *)
LEMMA Least ==
  ASSUME NEW T, T \subseteq Nat, T # {}
  PROVE  \E x \in T : \A y \in T : x <= y
<1> DEFINE Less == {p \in Nat \X Nat : p[1] < p[2]}
<1>1. IsWellFoundedOn(Less, Nat)
  BY NatLessThanWellFounded DEF OpToRel
<1>2. PICK x \in T : \A y \in T : ~(<<y, x>> \in Less)
  BY <1>1, WFMin
<1>3. \A y \in T : x <= y
  <2> TAKE y \in T
  <2>1. x \in Nat /\ y \in Nat
    OBVIOUS
  <2>2. ~(y < x)
    BY <1>2, <2>1
  <2> QED BY <2>1, <2>2
<1> QED BY <1>3

(* Terminals have different identifiers.                                    *)
LEMMA IdentsApart ==
  ASSUME NEW a \in Places, NEW b \in Places, Ident(a) = Ident(b)
  PROVE  a = b
<1>1. \A l : <<"getty", Console>> # IdOf(l)
  BY DEF IdOf
<1>2. CASE a = Console
  BY <1>1, <1>2 DEF Ident
<1>3. CASE b = Console
  BY <1>1, <1>3 DEF Ident
<1>4. CASE a # Console /\ b # Console
  BY <1>4, LineAssumption DEF Ident, Places
<1> QED BY <1>2, <1>3, <1>4

(* pututline() replaces the entry of the terminal or adds one.              *)
LEMMA PutTable ==
  ASSUME NEW u, Table(u), NEW e \in Entries, e.id = Ident(e.line)
  PROVE  /\ Table(PutLine(u, e))
         /\ \A x : x \in Range(PutLine(u, e)) <=> x = e \/ (x \in Range(u) /\ x.line # e.line)
<1> DEFINE same == {i \in DOMAIN u : u[i].id = e.id}
           new == PutLine(u, e)
<1>1. u \in Seq(Entries) /\ e.line \in Places /\ \A i \in DOMAIN u : u[i].line \in Places /\ u[i] \in Entries
  <2>1. u \in Seq(Entries)
    BY DEF Table
  <2>2. e.line \in Places /\ \A x \in Entries : x.line \in Places
    BY DEF Entries
  <2>3. \A i \in DOMAIN u : u[i] \in Entries
    BY <2>1
  <2> QED BY <2>1, <2>2, <2>3
<1>2. \A i \in DOMAIN u : i \in same <=> u[i].line = e.line
  <2> TAKE i \in DOMAIN u
  <2>1. u[i].id = Ident(u[i].line)
    BY DEF Table
  <2> QED BY <1>1, <2>1, IdentsApart
<1>3. DOMAIN u = 1..Len(u) /\ Len(u) \in Nat
  BY <1>1
<1>4. CASE same = {}
  <2>1. new = Append(u, e)
    BY <1>4 DEF PutLine
  <2> DEFINE n == Len(u) + 1
  <2>2. /\ new \in Seq(Entries) /\ DOMAIN new = 1..n /\ new[n] = e
        /\ \A i \in DOMAIN u : i \in DOMAIN new /\ new[i] = u[i]
        /\ n \in DOMAIN new
        /\ \A i \in DOMAIN new : i = n \/ i \in DOMAIN u
    BY <1>1, <1>3, <2>1
  <2>3. \A i \in DOMAIN u : u[i].line # e.line
    BY <1>2, <1>4
  <2> HIDE DEF same, n
  <2>4. Table(new)
    <3> HIDE DEF new
    <3> QED BY <2>2, <2>3 DEF Table
  <2>5. \A x : x \in Range(new) <=> x = e \/ (x \in Range(u) /\ x.line # e.line)
    <3> HIDE DEF new
    <3> QED BY <2>2, <2>3 DEF Range
  <2> QED BY <2>4, <2>5
<1>5. CASE same # {}
  <2>1. PICK k \in DOMAIN u : k \in same
    BY <1>5
  <2>2. \A i \in DOMAIN u : i \in same <=> i = k
    BY <1>2, <2>1 DEF Table
  <2>3. (CHOOSE i \in same : \A j \in same : i <= j) = k
    <3>1. same = {k}
      BY <2>1, <2>2
    <3>2. k <= k
      BY <1>3, <2>1
    <3> HIDE DEF same
    <3> QED BY <3>1, <3>2
  <2>4. new = [u EXCEPT ![k] = e]
    BY <1>5, <2>3 DEF PutLine
  <2>5. u[k].line = e.line
    BY <1>2, <2>1
  <2>6. /\ new \in Seq(Entries) /\ DOMAIN new = DOMAIN u /\ new[k] = e
        /\ \A i \in DOMAIN u : i # k => new[i] = u[i]
    BY <1>1, <1>3, <2>1, <2>4
  <2>7. \A i \in DOMAIN u : u[i].line = e.line <=> i = k
    BY <1>2, <2>2
  <2> HIDE DEF same
  <2>8. Table(new)
    <3> HIDE DEF new
    <3> QED BY <2>6, <2>7 DEF Table
  <2>9. \A x : x \in Range(new) <=> x = e \/ (x \in Range(u) /\ x.line # e.line)
    <3> HIDE DEF new
    <3> QED BY <2>1, <2>6, <2>7 DEF Range
  <2> QED BY <2>8, <2>9
<1> QED BY <1>4, <1>5

(* The best entry of a terminal with one live entry at most: the loop over  *)
(* getutline() comes to it and keeps it.                                    *)
LEMMA BestIsLive ==
  ASSUME NEW u, NEW search, u \in Seq(Entries),
         NEW k \in 1..(Len(u) + 1),
         \A i \in DOMAIN u : Live(u[i]) /\ u[i].line = search.line <=> i = k,
         k \in DOMAIN u => Better(search, u[k], Zero)
  PROVE  BestOnLine(u, search) = IF k \in DOMAIN u THEN u[k] ELSE Zero
<1> DEFINE Better1(n, b) == Live(u[n]) /\ u[n].line = search.line /\ Better(search, u[n], b)
           Step(f) == [n \in 0..Len(u) |-> IF n = 0 THEN Zero
                                           ELSE IF Better1(n, f[n - 1]) THEN u[n] ELSE f[n - 1]]
           F == CHOOSE f : f = Step(f)
           W == [n \in 0..Len(u) |-> IF k <= n THEN u[k] ELSE Zero]
<1>0. Len(u) \in Nat /\ DOMAIN u = 1..Len(u) /\ k \in Nat /\ k >= 1 /\ k <= Len(u) + 1
  OBVIOUS
<1>1. \A n \in 1..Len(u) : W[n] = IF Better1(n, W[n - 1]) THEN u[n] ELSE W[n - 1]
  <2> TAKE n \in 1..Len(u)
  <2>1. n \in DOMAIN u /\ n - 1 \in 0..Len(u) /\ n \in 0..Len(u) /\ n # 0
    BY <1>0
  <2>2. W[n] = (IF k <= n THEN u[k] ELSE Zero) /\ W[n - 1] = IF k <= n - 1 THEN u[k] ELSE Zero
    BY <2>1
  <2>3. CASE n = k
    <3>1. W[n] = u[k] /\ W[n - 1] = Zero
      BY <1>0, <2>2, <2>3
    <3>2. Better1(n, Zero)
      BY <2>1, <2>3
    <3> HIDE DEF W, Better1
    <3> QED BY <3>1, <3>2, <2>3
  <2>4. CASE n # k
    <3>1. W[n] = W[n - 1]
      BY <1>0, <2>1, <2>2, <2>4
    <3>2. \A b : ~Better1(n, b)
      BY <2>1, <2>4
    <3> HIDE DEF W, Better1
    <3> QED BY <3>1, <3>2
  <2> QED BY <2>3, <2>4
<1>2. W[0] = Zero
  BY <1>0
<1>3. W = Step(W)
  <2>1. \A n \in 0..Len(u) : W[n] = IF n = 0 THEN Zero
                                    ELSE IF Better1(n, W[n - 1]) THEN u[n] ELSE W[n - 1]
    <3> TAKE n \in 0..Len(u)
    <3>1. CASE n = 0
      BY <1>2, <3>1
    <3>2. CASE n # 0
      <4>1. n \in 1..Len(u)
        BY <1>0, <3>2
      <4> HIDE DEF W, Better1
      <4> QED BY <1>1, <3>2, <4>1
    <3> QED BY <3>1, <3>2
  <2>2. W = [n \in 0..Len(u) |-> W[n]]
    OBVIOUS
  <2> HIDE DEF W, Better1
  <2> QED BY <2>1, <2>2
<1>4. F = Step(F)
  <2> HIDE DEF W, Step
  <2> QED BY <1>3
<1>5. F[Len(u)] = W[Len(u)]
  <2> DEFINE T == {n \in 0..Len(u) : F[n] # W[n]}
  <2> HIDE DEF F
  <2>1. /\ F[0] = Zero
        /\ \A n \in 1..Len(u) : F[n] = IF Better1(n, F[n - 1]) THEN u[n] ELSE F[n - 1]
    <3> DEFINE G == F
    <3> HIDE DEF Better1
    <3>1. \A n \in 0..Len(u) : Step(F)[n] = IF n = 0 THEN Zero
                                           ELSE IF Better1(n, F[n - 1]) THEN u[n] ELSE F[n - 1]
      OBVIOUS
    <3>2. 0 \in 0..Len(u) /\ \A n \in 1..Len(u) : n \in 0..Len(u) /\ n # 0
      BY <1>0
    <3> HIDE DEF Step
    <3> QED BY <1>4, <3>1, <3>2
  <2> HIDE DEF W, Better1
  <2>2. SUFFICES ASSUME T # {} PROVE FALSE
    BY <1>0
  <2>3. PICK x \in T : \A y \in T : x <= y
    <3>1. T \subseteq Nat
      BY <1>0
    <3> HIDE DEF T
    <3> QED BY <2>2, <3>1, Least
  <2>4. x \in 1..Len(u) /\ x - 1 \in 0..Len(u) /\ F[x] # W[x]
    BY <1>0, <1>2, <2>1
  <2>5. x - 1 \notin T
    <3> HIDE DEF T
    <3> QED BY <1>0, <2>3, <2>4
  <2>6. F[x - 1] = W[x - 1]
    BY <2>4, <2>5
  <2> QED BY <1>1, <2>1, <2>4, <2>6
<1>6. BestOnLine(u, search) = F[Len(u)]
  BY Zenon DEF BestOnLine
<1> HIDE DEF F
<1>7. W[Len(u)] = IF k \in DOMAIN u THEN u[k] ELSE Zero
  BY <1>0
<1> HIDE DEF W
<1> QED BY <1>5, <1>6, <1>7

(* Its rows are entries, one for a terminal.                                *)
LEMMA RowsOf ==
  ASSUME NEW u, Table(u)
  PROVE  /\ \A x \in Range(u) : x \in Entries /\ x.id = Ident(x.line)
         /\ \A x, y \in Range(u) : x.line = y.line => x = y
<1>1. u \in Seq(Entries)
  BY DEF Table
<1>2. \A i \in DOMAIN u : u[i] \in Entries
  BY <1>1
<1>3. \A i \in DOMAIN u : u[i].id = Ident(u[i].line)
  BY DEF Table
<1>4. \A i, j \in DOMAIN u : u[i].line = u[j].line => i = j
  BY DEF Table
<1>5. \A x \in Range(u) : \E i \in DOMAIN u : u[i] = x
  BY DEF Range
<1> QED BY <1>2, <1>3, <1>4, <1>5

(* A process has the row of its terminal only, and the console has that of  *)
(* the process.                                                             *)
OnlyAt(u, p, l) == \A x \in Range(u) : x.pid = p => x.line = l
HasRow(u, p, l) == l = Console => \E x \in Range(u) : Live(x) /\ x.pid = p /\ x.line = l

(* The row that an update continues is the live one of the terminal: that   *)
(* of the process, or found by the terminal.                                *)
LEMMA Continues ==
  ASSUME NEW u, Table(u), NEW type \in {"user", "dead"}, NEW p \in Sessions, NEW l \in Places,
         NEW user, OnlyAt(u, p, l), HasRow(u, p, l)
  PROVE  BestEntry(u, Entry(type, p, IdOf(l), l, user)) = {x \in Range(u) : Live(x) /\ x.line = l}
<1> DEFINE search == Entry(type, p, IdOf(l), l, user)
           own == {i \in DOMAIN u : search.pid # 0 /\ MatchPid(u[i], search)}
           best == BestOnLine(u, search)
           rows == {x \in Range(u) : Live(x) /\ x.line = l}
<1>1. /\ search.pid = p /\ p # 0 /\ search.line = l /\ search.id = IdOf(l) /\ search.type = type
  BY LoginAssumption DEF Entry
<1>2. \A i \in DOMAIN u : i \in own <=> Live(u[i]) /\ u[i].pid = p
  BY <1>1 DEF MatchPid, Range, OnlyAt
<1>3. /\ u \in Seq(Entries) /\ Len(u) \in Nat /\ DOMAIN u = 1..Len(u)
      /\ \A i \in DOMAIN u : u[i].id = Ident(u[i].line)
      /\ \A i, j \in DOMAIN u : u[i].line = u[j].line => i = j
  BY DEF Table
<1>4. BestEntry(u, search) = IF own # {} THEN {u[CHOOSE i \in own : \A j \in own : i <= j]}
                             ELSE IF best = Zero THEN {} ELSE {best}
  BY DEF BestEntry
<1>5. CASE own # {}
  <2>1. PICK k \in DOMAIN u : k \in own
    BY <1>5
  <2>2. Live(u[k]) /\ u[k].line = l
    BY <1>2, <2>1 DEF Range, OnlyAt
  <2>3. \A i \in DOMAIN u : u[i].line = l <=> i = k
    BY <1>3, <2>1, <2>2
  <2>4. \A i \in own : i = k
    BY <1>2, <2>3 DEF Range, OnlyAt
  <2>5. (CHOOSE i \in own : \A j \in own : i <= j) = k
    <3>1. own = {k}
      BY <2>1, <2>4
    <3>2. k <= k
      BY <1>3, <2>1
    <3> HIDE DEF own
    <3> QED BY <3>1, <3>2
  <2>6. rows = {u[k]}
    BY <2>1, <2>2, <2>3 DEF Range
  <2> HIDE DEF own, best, rows, search
  <2> QED BY <1>4, <1>5, <2>5, <2>6 DEF rows, search
<1>6. CASE own = {}
  <2>1. l # Console /\ l \in Lines
    <3>1. ASSUME l = Console
          PROVE  FALSE
      <4>1. PICK x \in Range(u) : Live(x) /\ x.pid = p
        BY <3>1 DEF HasRow
      <4>2. PICK i \in DOMAIN u : u[i] = x
        BY DEF Range
      <4> QED BY <1>2, <1>6, <4>1, <4>2
    <3> QED BY <3>1 DEF Places
  <2>2. Ident(l) = IdOf(l)
    BY <2>1 DEF Ident
  <2> HIDE DEF own
  <2>3. CASE \E k \in DOMAIN u : Live(u[k]) /\ u[k].line = l
    <3>1. PICK k \in DOMAIN u : Live(u[k]) /\ u[k].line = l
      BY <2>3
    <3>2. \A i \in DOMAIN u : Live(u[i]) /\ u[i].line = search.line <=> i = k
      BY <1>1, <1>3, <3>1
    <3>3. k \in 1..(Len(u) + 1)
      BY <1>3
    <3>4. Better(search, u[k], Zero)
      <4>1. search.id = u[k].id
        BY <1>1, <1>3, <2>2, <3>1
      <4>2. search.id # Zero.id
        <5>1. \A x : <<"k0", x>> # <<"", 0>> /\ <<"k", x>> # <<"", 0>>
          OBVIOUS
        <5>2. Zero.id = <<"", 0>>
          BY DEF Zero, Entry
        <5>3. \E x : IdOf(l) = <<"k0", x>> \/ IdOf(l) = <<"k", x>>
          BY DEF IdOf
        <5> HIDE DEF search
        <5> QED BY <1>1, <5>1, <5>2, <5>3
      <4> QED BY <4>1, <4>2 DEF Better
    <3>5. best = u[k]
      <4> HIDE DEF search
      <4> QED BY <1>3, <3>2, <3>3, <3>4, BestIsLive
    <3>6. u[k] # Zero
      <4>1. ~Live(Zero)
        BY DEF Live, Zero, Entry
      <4> QED BY <3>1, <4>1
    <3>7. rows = {u[k]}
      BY <1>1, <3>1, <3>2 DEF Range
    <3> HIDE DEF best, rows, search
    <3> QED BY <1>4, <1>6, <3>5, <3>6, <3>7 DEF rows, search
  <2>4. CASE ~\E k \in DOMAIN u : Live(u[k]) /\ u[k].line = l
    <3> DEFINE k == Len(u) + 1
    <3>1. k \in 1..(Len(u) + 1) /\ k \notin DOMAIN u
      BY <1>3
    <3>2. \A i \in DOMAIN u : Live(u[i]) /\ u[i].line = search.line <=> i = k
      BY <1>1, <2>4, <3>1
    <3>3. best = Zero
      <4> HIDE DEF search, k
      <4> QED BY <1>3, <3>1, <3>2, BestIsLive
    <3>4. rows = {}
      BY <2>4 DEF Range
    <3> HIDE DEF best, rows, search
    <3> QED BY <1>4, <1>6, <3>3, <3>4 DEF rows, search
  <2> QED BY <2>3, <2>4
<1> QED BY <1>5, <1>6

(* The row of a terminal.                                                   *)
LEMMA IsEntry ==
  ASSUME NEW type \in {"login", "user", "dead"}, NEW p \in Sessions, NEW l \in Places,
         NEW user \in Titles, NEW n, n = Entry(type, p, Ident(l), l, user)
  PROVE  /\ n \in Entries /\ n.id = Ident(l) /\ n.type = type /\ n.line = l /\ n.user = user
         /\ n.pid = p
<1> DEFINE ids == {Ident(k) : k \in Places}
<1>1. Ident(l) \in ids
  OBVIOUS
<1> DEFINE id == Ident(l)
<1> HIDE DEF ids, id
<1>2. Entries = [type : {"login", "user", "dead"}, pid : Sessions, id : ids,
                 line : Places, user : Titles]
  BY DEF Entries, ids
<1>3. n = [type |-> type, pid |-> p, id |-> id, line |-> l, user |-> user] /\ id \in ids
  BY <1>1 DEF Entry, id
<1>4. n.id = id /\ n.type = type /\ n.line = l /\ n.user = user /\ n.pid = p
  BY <1>3
<1>5. n \in Entries
  BY <1>2, <1>3
<1> QED BY <1>4, <1>5 DEF id

(* What is written: the row of the terminal, under the process of the row   *)
(* that it continues or else its own.                                       *)
LEMMA WhatIsWritten ==
  ASSUME NEW u, Table(u), NEW type \in {"login", "user", "dead"}, NEW p \in Sessions,
         NEW l \in Places, NEW user \in Titles,
         OnlyAt(u, p, l), type # "login" => HasRow(u, p, l), type = "login" => l # Console,
         NEW n, n = Written(u, type, p, user, l)
  PROVE  /\ n \in Entries /\ n.id = Ident(l) /\ n.type = type /\ n.line = l /\ n.user = user
         /\ \/ n.pid = p
            \/ type # "login" /\ \E x \in Range(u) : Live(x) /\ x.line = l /\ n.pid = x.pid
<1> DEFINE search == Entry(type, p, IdOf(l), l, user)
           rows == {x \in Range(u) : Live(x) /\ x.line = l}
           found == IF type = "login" THEN {} ELSE rows
<1>1. type # "login" => BestEntry(u, search) = rows
  <2> SUFFICES ASSUME type # "login" PROVE BestEntry(u, search) = rows
    OBVIOUS
  <2>1. type \in {"user", "dead"}
    OBVIOUS
  <2>2. HasRow(u, p, l)
    OBVIOUS
  <2> QED BY <2>1, <2>2, Continues
<1>2. \A x \in Range(u) : x \in Entries /\ x.id = Ident(x.line)
  BY RowsOf
<1>3. n = IF found = {} THEN search
          ELSE LET old == CHOOSE e \in found : TRUE IN [search EXCEPT !.id = old.id, !.pid = old.pid]
  <2> HIDE DEF rows
  <2> QED BY <1>1 DEF Written
<1>4. CASE found = {}
  <2>1. l # Console
    BY <1>4 DEF HasRow
  <2>2. Ident(l) = IdOf(l) /\ l \in Lines
    BY <2>1 DEF Ident, Places
  <2>3. n = Entry(type, p, Ident(l), l, user)
    BY <1>3, <1>4, <2>2
  <2> QED BY <2>3, IsEntry
<1>5. CASE found # {}
  <2> DEFINE old == CHOOSE e \in found : TRUE
  <2>1. old \in found
    BY <1>5
  <2>2. found \subseteq rows
    OBVIOUS
  <2> HIDE DEF old, found
  <2>3. old \in Range(u) /\ Live(old) /\ old.line = l
    BY <2>1, <2>2
  <2>4. old.id = Ident(l) /\ old.pid \in Sessions
    BY <1>2, <2>3 DEF Entries
  <2>5. n = Entry(type, old.pid, Ident(l), l, user)
    BY <1>3, <1>5, <2>4 DEF Entry, old
  <2>6. /\ n \in Entries /\ n.id = Ident(l) /\ n.type = type /\ n.line = l /\ n.user = user
        /\ n.pid = old.pid
    BY <2>4, <2>5, IsEntry
  <2>7. type # "login" /\ \E x \in Range(u) : Live(x) /\ x.line = l /\ n.pid = x.pid
    BY <1>5, <2>3, <2>6 DEF found
  <2> QED BY <2>6, <2>7
<1> QED BY <1>4, <1>5
----------------------------------------------------------------------------
(* The host: the table, the logins and logouts of each terminal, its owner. *)
Records == [type : {"user", "dead"}, pid : Sessions]
HostOK ==
  /\ host \in [utmp : Seq(Entries), wtmp : [Places -> Seq(Records)], owner : [Places -> Accounts]]
  /\ Table(host.utmp)

(* A row is put in the table, and noted as a login or a logout.             *)
Puts(n) ==
  /\ n \in Entries
  /\ \A x : x \in Range(host'.utmp) <=> x = n \/ (x \in Range(host.utmp) /\ x.line # n.line)
  /\ host'.owner = host.owner
  /\ n.type = "login" => host'.wtmp = host.wtmp
  /\ n.type # "login" =>
       host'.wtmp = [host.wtmp EXCEPT ![n.line] = Append(@, [type |-> n.type, pid |-> n.pid])]

(* A row with its identifier keeps the table in order.                      *)
LEMMA PutsRow ==
  ASSUME HostOK, NEW n \in Entries, n.id = Ident(n.line), NEW w,
         host' = [host EXCEPT !.utmp = PutLine(host.utmp, n), !.wtmp[n.line] = w],
         w = IF n.type = "login" THEN host.wtmp[n.line]
             ELSE Append(host.wtmp[n.line], [type |-> n.type, pid |-> n.pid])
  PROVE  HostOK' /\ Puts(n)
<1> DEFINE l == n.line
           new == PutLine(host.utmp, n)
<1>1. /\ host.utmp \in Seq(Entries) /\ host.wtmp \in [Places -> Seq(Records)]
      /\ host.owner \in [Places -> Accounts] /\ Table(host.utmp)
  BY DEF HostOK
<1>2. /\ Table(new)
      /\ \A x : x \in Range(new) <=> x = n \/ (x \in Range(host.utmp) /\ x.line # n.line)
  BY <1>1, PutTable
<1>3. new \in Seq(Entries)
  BY <1>2 DEF Table
<1>4. l \in Places /\ n.pid \in Sessions /\ n.type \in {"login", "user", "dead"}
  BY DEF Entries
<1>5. w \in Seq(Records)
  <2>1. n.type # "login" => [type |-> n.type, pid |-> n.pid] \in Records
    BY <1>4 DEF Records
  <2>2. host.wtmp[l] \in Seq(Records)
    BY <1>1, <1>4
  <2> QED BY <2>1, <2>2
<1> HIDE DEF new
<1>6. host' = [host EXCEPT !.utmp = new, !.wtmp[l] = w]
  BY DEF new
<1>7. /\ host'.utmp = new /\ host'.wtmp = [host.wtmp EXCEPT ![l] = w] /\ host'.owner = host.owner
      /\ host' = [utmp |-> host'.utmp, wtmp |-> host'.wtmp, owner |-> host'.owner]
  BY <1>6 DEF HostOK
<1>8. host'.wtmp \in [Places -> Seq(Records)]
  BY <1>1, <1>5, <1>7
<1>9. HostOK'
  BY <1>1, <1>2, <1>3, <1>7, <1>8 DEF HostOK
<1>10. Puts(n)
  <2>1. n.type = "login" => host'.wtmp = host.wtmp
    BY <1>1, <1>7
  <2> QED BY <1>2, <1>7, <2>1 DEF Puts
<1> QED BY <1>9, <1>10

(* A row belongs to a session that has the terminal.                        *)
Own == \A e \in Range(host.utmp) : srv[e.pid].line = e.line

(* One update of pty_update_utmp() and pty_update_wtmp().                   *)
LEMMA Updates ==
  ASSUME HostOK, Own, NEW s \in Sessions, NEW type \in {"login", "user", "dead"},
         NEW user \in Titles, srv[s].line \in Places,
         srv[s].line = Console => /\ type # "login"
                                  /\ \E x \in Range(host.utmp) : Live(x) /\ x.pid = s,
         host' = Update(s, type, user)
  PROVE  HostOK' /\ \E n \in Entries :
           /\ Puts(n) /\ n.type = type /\ n.line = srv[s].line /\ n.user = user
           /\ \/ n.pid = s
              \/ type # "login" /\ \E x \in Range(host.utmp) : Live(x) /\ x.line = srv[s].line /\ n.pid = x.pid
<1> DEFINE l == srv[s].line
           n == Written(host.utmp, type, s, user, l)
           w == UpdateWtmp(host.wtmp[l], host.utmp, type, s, user, l)
<1>1. OnlyAt(host.utmp, s, l)
  BY DEF Own, OnlyAt
<1>2. /\ n \in Entries /\ n.id = Ident(l) /\ n.type = type /\ n.line = l /\ n.user = user
      /\ \/ n.pid = s
         \/ type # "login" /\ \E x \in Range(host.utmp) : Live(x) /\ x.line = l /\ n.pid = x.pid
  <2>1. Table(host.utmp)
    BY DEF HostOK
  <2>2. HasRow(host.utmp, s, l)
    BY <1>1 DEF HasRow, OnlyAt
  <2>3. type = "login" => l # Console
    OBVIOUS
  <2>4. l \in Places
    OBVIOUS
  <2> HIDE DEF l
  <2> QED BY <1>1, <2>1, <2>2, <2>3, <2>4, WhatIsWritten
<1>3. w = IF type = "login" THEN host.wtmp[l]
          ELSE Append(host.wtmp[l], [type |-> type, pid |-> n.pid])
  BY DEF UpdateWtmp
<1>4. host' = [host EXCEPT !.utmp = PutLine(host.utmp, n), !.wtmp[l] = w]
  BY DEF Update, UpdateUtmp
<1> HIDE DEF n, w, l
<1>5. HostOK' /\ Puts(n)
  BY <1>2, <1>3, <1>4, PutsRow
<1> QED BY <1>2, <1>5 DEF l
----------------------------------------------------------------------------
Clearing == {"tty", "creds", "exit", "gone"}
Returning == {"creds", "exit", "gone"}
Serving == {"synced", "serve", "utmp"}
Settled == {"own", "fork", "self"} \union Watching
Listing(s) ==
  {"exec", "init", "prompt", "accepted"} \union Settled \union
  (IF kind[s].server = "telnetd" THEN {"slave"} ELSE {})

(* Where a session sits: on the console if init started it, on a pty if not, *)
(* from the time its server has one.                                        *)
Seat(s) ==
  /\ srv[s].line \in Places \union {0}
  /\ srv[s].at = "idle" => srv[s].line = 0
  /\ srv[s].at = "forked" =>
       \/ log[s].at \in {"slave", "gone"}
       \/ log[s].at = "record" /\ kind[s].server = "telnetd"
  /\ kind[s].server = "none" => srv[s].at = "idle"
  /\ kind[s].server = "getty" =>
       /\ srv[s].at \in {"idle", "serve", "gone"}
       /\ srv[s].at # "idle" => srv[s].line = Console
       /\ srv[s].at = "gone" => log[s].at = "gone"
       /\ log[s].at \notin {"record", "slave", "exec"}
  /\ kind[s].server # "getty" =>
       /\ srv[s].line # Console
       /\ \/ srv[s].at \notin {"idle", "half", "gone"}
          \/ srv[s].at = "gone" /\ ~hist[s].abandoned
          \/ log[s].at # "none"
          => srv[s].line \in Lines
       /\ srv[s].at = "half" => srv[s].line \in IF kind[s].server = "klogind" THEN {0} ELSE Lines
       /\ srv[s].at = "gone" => log[s].at \in {"none", "gone", "ready", "wait", "destroy"}

(* Two sessions are not active on one terminal.                             *)
Alone ==
  \A s, t \in Sessions :
    Active(s) /\ Active(t) /\ srv[s].line = srv[t].line /\ srv[s].line # 0 => s = t

(* The row of its terminal is the session's once login or init has written  *)
(* it: of a login until somebody is let in, then of the user.               *)
Listed(s) ==
  log[s].at \in Listing(s) =>
    \E e \in Range(host.utmp) :
      /\ e.line = srv[s].line /\ e.pid = s
      /\ srv[s].at \notin Clearing =>
           IF log[s].at \in Settled THEN e.type = "user" /\ e.user = log[s].user
           ELSE e.type = "login"

(* Nothing live is left when the server has cleared up.                     *)
Delisted(s) ==
  srv[s].at \in Clearing /\ ~hist[s].abandoned /\ ~hist[s].late
  => \A e \in Range(host.utmp) : Live(e) => e.pid # s
Returned(s) ==
  /\ srv[s].at \in Returning /\ ~hist[s].abandoned /\ ~hist[s].late
  /\ kind[s].server # "getty"
  /\ \A t \in Sessions : t # s => srv[t].line # srv[s].line
  => host.owner[srv[s].line] = "root"

(* A login that is the last of its terminal is of a session that goes on.   *)
Goes(p, l) ==
  /\ srv[p].line = l /\ log[p].at \in Settled \union {"gone"} /\ srv[p].at \in Serving
  /\ \E e \in Range(host.utmp) : e.line = l /\ e.type = "user" /\ e.pid = p
Open(l) ==
  LET w == host.wtmp[l] IN
  Len(w) > 0 /\ w[Len(w)].type = "user" /\ ~hist[w[Len(w)].pid].late => Goes(w[Len(w)].pid, l)
Paid(l) ==
  \A i \in 1..(Len(host.wtmp[l]) - 1) :
    LET a == host.wtmp[l][i] b == host.wtmp[l][i + 1] IN
    a.type = "user" => hist[a.pid].late \/ (b.type = "dead" /\ b.pid = a.pid)

(* When the server is at its end there are no credentials left but those    *)
(* that login has been asked to keep or still looks after.                  *)
Minded(s) == getTickets /\ log[s].at \in {"ready", "wait", "destroy"}
Shut(s) ==
  /\ /\ kind[s].server # "getty" /\ srv[s].at \in {"exit", "gone"} /\ ~hist[s].abandoned
     /\ cache[s] # NoCache
     => hist[s].kept \/ Minded(s)
  /\ kind[s].server = "getty" =>
       /\ cache[s] # NoCache => Minded(s)
       /\ ~log[s].forwarded /\ child[s].saved = "none"

Tidy(s) == Seat(s) /\ Shut(s)
Entered(s) == Listed(s) /\ Delisted(s) /\ Returned(s)
Balanced ==
  /\ HostOK /\ Own /\ Alone
  /\ \A s \in Sessions : Entered(s)
  /\ \A l \in Places : Open(l) /\ Paid(l)
Booked == Balanced /\ \A s \in Sessions : Tidy(s)
----------------------------------------------------------------------------
(* A step that leaves the table alone, and what it may do to the session.   *)
Tends(s) ==
  \/ host' = host
  \/ /\ srv[s].line \in Places
     /\ \E x \in Accounts :
          /\ host' = [host EXCEPT !.owner[srv[s].line] = x]
          /\ x = "root" \/ srv'[s].at \notin Returning \/ hist'[s].late
Quiet(s) ==
  /\ Tends(s)
  /\ srv'[s].line = srv[s].line
  /\ Active(s) \/ srv[s].line = 0
  /\ hist[s].late => hist'[s].late
  /\ log'[s].at \in Listing(s) =>
       /\ log[s].at \in Listing(s)
       /\ log'[s].at \in Settled <=> log[s].at \in Settled
       /\ log[s].at \in Settled => log'[s].user = log[s].user
  /\ srv'[s].at \notin Clearing => srv[s].at \notin Clearing
  /\ srv'[s].at \in Clearing /\ ~hist'[s].abandoned => srv[s].at \in Clearing /\ ~hist[s].abandoned
  /\ srv'[s].at \in Returning /\ ~hist'[s].abandoned
     => srv[s].at \in Returning \/ host'.owner[srv[s].line] = "root"
  /\ log[s].at \in Settled \union {"gone"} => log'[s].at \in Settled \union {"gone"}
  /\ srv[s].at \in Serving => srv'[s].at \in Serving

(* Such a step leaves table and logins and tends one terminal.              *)
LEMMA TendsHost ==
  ASSUME HostOK, NEW s \in Sessions, Tends(s)
  PROVE  /\ HostOK'
         /\ host'.utmp = host.utmp /\ host'.wtmp = host.wtmp
         /\ \A l \in Places : l # srv[s].line => host'.owner[l] = host.owner[l]
         /\ srv[s].line \in Places =>
              \/ host'.owner[srv[s].line] \in {host.owner[srv[s].line], "root"}
              \/ srv'[s].at \notin Returning \/ hist'[s].late
<1>1. CASE host' = host
  BY <1>1 DEF HostOK
<1>2. CASE host' # host
  <2> DEFINE l == srv[s].line
  <2>1. PICK x \in Accounts :
          /\ host' = [host EXCEPT !.owner[l] = x]
          /\ x = "root" \/ srv'[s].at \notin Returning \/ hist'[s].late
    BY <1>2 DEF Tends
  <2>2. l \in Places
    BY <1>2 DEF Tends
  <2> HIDE DEF l
  <2>3. /\ host'.utmp = host.utmp /\ host'.wtmp = host.wtmp
        /\ host'.owner = [host.owner EXCEPT ![l] = x]
        /\ host' = [utmp |-> host'.utmp, wtmp |-> host'.wtmp, owner |-> host'.owner]
    BY <2>1 DEF HostOK
  <2>4. host.owner \in [Places -> Accounts]
    BY DEF HostOK
  <2>5. host'.owner \in [Places -> Accounts]
    BY <2>3, <2>4
  <2>6. HostOK'
    BY <2>3, <2>5 DEF HostOK
  <2>7. host'.owner[l] = x /\ \A k \in Places : k # l => host'.owner[k] = host.owner[k]
    BY <2>2, <2>3, <2>4
  <2> QED BY <2>1, <2>3, <2>6, <2>7 DEF l
<1> QED BY <1>1, <1>2

(* The session of a terminal's last login.                                  *)
LEMMA LastLogin ==
  ASSUME HostOK, NEW l \in Places, Len(host.wtmp[l]) > 0
  PROVE  /\ Len(host.wtmp[l]) \in Nat
         /\ host.wtmp[l][Len(host.wtmp[l])].pid \in Sessions
<1>1. host.wtmp[l] \in Seq(Records)
  BY DEF HostOK
<1> DEFINE w == host.wtmp[l]
<1> HIDE DEF w
<1>2. w \in Seq(Records) /\ Len(w) > 0
  BY <1>1 DEF w
<1>3. w[Len(w)] \in Records
  BY <1>2
<1>4. Len(w) \in Nat
  BY <1>2
<1> QED BY <1>3, <1>4 DEF w, Records

(* The sessions of the logins and logouts before.                           *)
LEMMA Earlier ==
  ASSUME HostOK, NEW l \in Places
  PROVE  \A i \in 1..(Len(host.wtmp[l]) - 1) : host.wtmp[l][i].pid \in Sessions
<1>1. host.wtmp[l] \in Seq(Records)
  BY DEF HostOK
<1> DEFINE w == host.wtmp[l]
<1> HIDE DEF w
<1>2. w \in Seq(Records)
  BY <1>1 DEF w
<1>3. \A i \in 1..(Len(w) - 1) : w[i] \in Records
  BY <1>2
<1> QED BY <1>3 DEF w, Records

(* So the books stay in order.                                              *)
LEMMA QuietKeeps ==
  ASSUME Booked, NEW s \in Sessions, Quiet(s), Others(s), UNCHANGED kind
  PROVE  Balanced'
<1>1. /\ HostOK'
      /\ host'.utmp = host.utmp /\ host'.wtmp = host.wtmp
      /\ \A l \in Places : l # srv[s].line => host'.owner[l] = host.owner[l]
      /\ srv[s].line \in Places =>
           \/ host'.owner[srv[s].line] \in {host.owner[srv[s].line], "root"}
           \/ srv'[s].at \notin Returning \/ hist'[s].late
  BY TendsHost DEF Booked, Balanced, Tidy, Quiet
<1>2. \A t \in Sessions : srv'[t].line = srv[t].line
  BY DEF Quiet, Others
<1>3. \A t \in Sessions : hist[t].late => hist'[t].late
  BY DEF Quiet, Others
<1>4. Own'
  <2>1. \A e \in Range(host.utmp) : e.pid \in Sessions
    BY RowsOf DEF Booked, Balanced, Tidy, HostOK, Entries
  <2> QED BY <1>1, <1>2, <2>1 DEF Booked, Balanced, Tidy, Own
<1>5. Alone'
  <2>1. \A t \in Sessions : Active(t)' /\ srv[t].line # 0 => Active(t)
    BY DEF Quiet, Others, Active, Alive
  <2> QED BY <1>2, <2>1 DEF Booked, Balanced, Tidy, Alone
<1>6. ASSUME NEW t \in Sessions
      PROVE  Listed(t)'
  <2>1. Listed(t)
    BY DEF Booked, Balanced, Tidy, Entered
  <2>2. /\ log'[t].at \in Listing(t) =>
             /\ log[t].at \in Listing(t)
             /\ log'[t].at \in Settled <=> log[t].at \in Settled
             /\ log[t].at \in Settled => log'[t].user = log[t].user
        /\ srv'[t].at \notin Clearing => srv[t].at \notin Clearing
    BY DEF Quiet, Others
  <2>3. Listing(t)' = Listing(t)
    BY DEF Listing
  <2> QED BY <1>1, <1>2, <2>1, <2>2, <2>3 DEF Listed
<1>7. ASSUME NEW t \in Sessions
      PROVE  Delisted(t)'
  <2>1. Delisted(t)
    BY DEF Booked, Balanced, Tidy, Entered
  <2>2. srv'[t].at \in Clearing /\ ~hist'[t].abandoned => srv[t].at \in Clearing /\ ~hist[t].abandoned
    BY DEF Quiet, Others
  <2> QED BY <1>1, <1>3, <2>1, <2>2 DEF Delisted
<1>8. ASSUME NEW t \in Sessions
      PROVE  Returned(t)'
  <2>1. Returned(t) /\ Seat(t)
    BY DEF Booked, Balanced, Tidy, Entered
  <2>2. CASE t = s
    <3> SUFFICES ASSUME srv'[s].at \in Returning, ~hist'[s].abandoned, ~hist'[s].late,
                        kind[s].server # "getty",
                        \A u \in Sessions : u # s => srv[u].line # srv[s].line
                 PROVE  host'.owner[srv[s].line] = "root"
      BY <1>2, <2>2 DEF Returned
    <3>1. srv[s].at \in Returning \/ host'.owner[srv[s].line] = "root"
      BY DEF Quiet
    <3>2. ASSUME srv[s].at \in Returning PROVE ~hist[s].abandoned /\ ~hist[s].late
      BY <1>3 DEF Quiet, Clearing, Returning
    <3>3. srv[s].at \in Returning => host.owner[srv[s].line] = "root"
      BY <2>1, <2>2, <3>2 DEF Returned
    <3>4. CASE srv[s].line \in Places
      BY <1>1, <3>1, <3>3, <3>4
    <3>5. CASE srv[s].line \notin Places
      <4>1. host' = host
        BY <3>5 DEF Quiet, Tends
      <4> QED BY <3>1, <3>3, <4>1
    <3> QED BY <3>4, <3>5
  <2>3. CASE t # s
    <3> SUFFICES ASSUME srv[t].at \in Returning, ~hist[t].abandoned, ~hist[t].late,
                        kind[t].server # "getty",
                        \A u \in Sessions : u # t => srv[u].line # srv[t].line
                 PROVE  host'.owner[srv[t].line] = "root"
      BY <1>2, <2>3 DEF Returned, Others
    <3>1. host.owner[srv[t].line] = "root" /\ srv[s].line # srv[t].line
      BY <2>1, <2>3 DEF Returned
    <3>2. CASE srv[t].line \in Places
      BY <1>1, <3>1, <3>2
    <3>3. CASE srv[t].line \notin Places
      <4>1. CASE host' = host
        BY <3>1, <4>1
      <4>2. CASE host' # host
        <5>1. PICK x \in Accounts : host' = [host EXCEPT !.owner[srv[s].line] = x]
          BY <4>2 DEF Quiet, Tends
        <5>2. host'.owner[srv[t].line] = host.owner[srv[t].line]
          BY <3>1, <5>1 DEF Booked, Balanced, Tidy, HostOK
        <5> QED BY <3>1, <5>2
      <4> QED BY <4>1, <4>2
    <3> QED BY <3>2, <3>3
  <2> QED BY <2>2, <2>3
<1>9. ASSUME NEW l \in Places
      PROVE  Open(l)' /\ Paid(l)'
  <2>1. Open(l) /\ Paid(l) /\ HostOK
    BY DEF Booked, Balanced, Tidy
  <2>2. \A p \in Sessions : Goes(p, l) => Goes(p, l)'
    <3> TAKE p \in Sessions
    <3>1. /\ log[p].at \in Settled \union {"gone"} => log'[p].at \in Settled \union {"gone"}
          /\ srv[p].at \in Serving => srv'[p].at \in Serving
      BY DEF Quiet, Others
    <3> QED BY <1>1, <1>2, <3>1 DEF Goes
  <2>3. Open(l)'
    BY <1>1, <1>3, <2>1, <2>2, LastLogin DEF Open
  <2>4. Paid(l)'
    <3>1. \A i \in 1..(Len(host.wtmp[l]) - 1) : host.wtmp[l][i].pid \in Sessions
      BY <2>1, Earlier
    <3> QED BY <1>1, <1>3, <2>1, <3>1 DEF Paid
  <2> QED BY <2>3, <2>4
<1> QED BY <1>1, <1>4, <1>5, <1>6, <1>7, <1>8, <1>9 DEF Entered, Balanced

(* 0 is no terminal.                                                        *)
LEMMA ZeroApart == 0 \notin Places /\ Lines \subseteq Places /\ Console \in Places /\ Console \notin Lines
BY LineAssumption DEF Places

(* The server of a session takes a pty that is free.                        *)
LEMMA PtyKeeps ==
  ASSUME Booked, NEW s \in Sessions, Others(s), UNCHANGED <<host, kind>>,
         NEW l \in Lines, Free(l), srv'[s].line = l, srv[s].line = 0,
         srv'[s].at \in {"half", "ready"}, log'[s].at = "none", log[s].at = "none",
         hist'[s] = hist[s]
  PROVE  Balanced'
<1>1. HostOK' /\ \A e \in Range(host.utmp) : e.pid \in Sessions /\ e.line \in Places
  BY RowsOf DEF Booked, Balanced, Tidy, HostOK, Entries
<1>2. \A e \in Range(host.utmp) : e.pid # s
  BY <1>1, ZeroApart DEF Booked, Balanced, Tidy, Own
<1>3. Own'
  BY <1>1, <1>2 DEF Booked, Balanced, Tidy, Own, Others
<1>4. Alone'
  <2>1. \A t \in Sessions : t # s => (Active(t)' => Active(t)) /\ srv'[t].line = srv[t].line
    BY DEF Others, Active, Alive
  <2> QED BY <2>1 DEF Booked, Balanced, Tidy, Alone, Free
<1>5. ASSUME NEW t \in Sessions
      PROVE  Listed(t)' /\ Delisted(t)'
  <2>1. Listed(t) /\ Delisted(t)
    BY DEF Booked, Balanced, Tidy, Entered
  <2>2. CASE t = s
    BY <2>2 DEF Listed, Delisted, Listing, Settled, Watching, Clearing
  <2>3. CASE t # s
    <3>1. Listing(t)' = Listing(t)
      BY DEF Listing
    <3>2. Listed(t)'
      BY <2>1, <2>3, <3>1 DEF Listed, Others
    <3>3. Delisted(t)'
      BY <2>1, <2>3 DEF Delisted, Others
    <3> QED BY <3>2, <3>3
  <2> QED BY <2>2, <2>3
<1>6. ASSUME NEW t \in Sessions
      PROVE  Returned(t)'
  <2>1. Returned(t) /\ Seat(t)
    BY DEF Booked, Balanced, Tidy, Entered
  <2>2. CASE t = s
    BY <2>2 DEF Returned, Returning
  <2>3. CASE t # s
    <3>1. srv[t].at \in Returning /\ ~hist[t].abandoned /\ kind[t].server # "getty" => srv[t].line # 0
      BY <2>1, ZeroApart DEF Seat, Returning
    <3> QED BY <2>1, <2>3, <3>1 DEF Returned, Others
  <2> QED BY <2>2, <2>3
<1>7. ASSUME NEW k \in Places
      PROVE  Open(k)' /\ Paid(k)'
  <2>1. Open(k) /\ Paid(k) /\ HostOK
    BY DEF Booked, Balanced, Tidy
  <2>2. \A p \in Sessions : hist'[p] = hist[p]
    BY DEF Others
  <2>3. \A p \in Sessions : Goes(p, k) => Goes(p, k)'
    BY ZeroApart DEF Goes, Others
  <2>4. Open(k)'
    BY <2>1, <2>2, <2>3, LastLogin DEF Open
  <2>5. Paid(k)'
    <3>1. \A i \in 1..(Len(host.wtmp[k]) - 1) : host.wtmp[k][i].pid \in Sessions
      BY <2>1, Earlier
    <3> QED BY <2>1, <2>2, <3>1 DEF Paid
  <2> QED BY <2>4, <2>5
<1> QED BY <1>1, <1>3, <1>4, <1>5, <1>6, <1>7 DEF Entered, Balanced

(* The books after a row is put in the table, except those of the session   *)
(* that writes it: others' rows are elsewhere, and a login is followed by   *)
(* the logout of the one session that is at the terminal.                   *)
LEMMA PutsKeeps ==
  ASSUME Booked, NEW s \in Sessions, HostOK', Others(s), UNCHANGED kind,
         NEW n \in Entries, Puts(n), NEW l \in Places, n.line = l,
         srv'[s].line = l, srv[s].line \in {0, l},
         \A t \in Sessions : t # s /\ srv[t].line = l => ~Active(t),
         n.pid = s \/ \E x \in Range(host.utmp) : Live(x) /\ x.line = l /\ n.pid = x.pid,
         hist[s].late => hist'[s].late,
         Goes(s, l) => n.type = "dead",
         n.type = "user" =>
           /\ n.pid = s
           /\ hist'[s].late \/ (log'[s].at \in Settled \union {"gone"} /\ srv'[s].at \in Serving)
  PROVE  /\ Own' /\ Alone'
         /\ \A t \in Sessions : t # s => Entered(t)'
         /\ \A k \in Places : Open(k)' /\ Paid(k)'
<1>1. /\ \A e \in Range(host.utmp) : e.pid \in Sessions /\ e.line \in Places
      /\ \A x, y \in Range(host.utmp) : x.line = y.line => x = y
  BY RowsOf DEF Booked, Balanced, Tidy, HostOK, Entries
<1>2. /\ \A x : x \in Range(host'.utmp) <=> x = n \/ (x \in Range(host.utmp) /\ x.line # l)
      /\ host'.owner = host.owner
  BY DEF Puts
<1>3. Own /\ Alone
  BY DEF Booked, Balanced, Tidy
<1>4. \A t \in Sessions : t # s => srv'[t] = srv[t] /\ log'[t] = log[t] /\ child'[t] = child[t] /\ hist'[t] = hist[t]
  BY DEF Others
<1>5. Own'
  <2>1. ASSUME NEW e \in Range(host.utmp), e.line # l
        PROVE  srv'[e.pid].line = e.line
    <3>1. srv[e.pid].line = e.line /\ e.line # 0
      BY <1>1, <1>3, ZeroApart DEF Own
    <3> QED BY <1>1, <1>4, <2>1, <3>1
  <2>2. srv'[n.pid].line = l
    <3>1. CASE n.pid = s
      BY <3>1
    <3>2. CASE n.pid # s
      <4>1. PICK x \in Range(host.utmp) : x.line = l /\ n.pid = x.pid
        BY <3>2
      <4> QED BY <1>1, <1>3, <1>4, <3>2, <4>1 DEF Own
    <3> QED BY <3>1, <3>2
  <2> QED BY <1>2, <2>1, <2>2 DEF Own
<1>6. Alone'
  <2>1. \A t \in Sessions : t # s => (Active(t)' => Active(t)) /\ srv'[t].line = srv[t].line
    BY <1>4 DEF Active, Alive
  <2> QED BY <1>3, <2>1 DEF Alone
<1>7. ASSUME NEW t \in Sessions, t # s
      PROVE  Listed(t)'
  <2>1. Listed(t) /\ Listing(t)' = Listing(t)
    BY DEF Booked, Balanced, Tidy, Entered, Listing
  <2>2. log[t].at \in Listing(t) => srv[t].line # l
    BY <1>7 DEF Listing, Settled, Watching, Active, Alive
  <2> QED BY <1>2, <1>4, <1>7, <2>1, <2>2 DEF Listed
<1>8. ASSUME NEW t \in Sessions, t # s
      PROVE  Delisted(t)'
  <2>1. Delisted(t)
    BY DEF Booked, Balanced, Tidy, Entered
  <2> QED BY <1>2, <1>4, <1>8, <2>1 DEF Delisted
<1>9. ASSUME NEW t \in Sessions, t # s
      PROVE  Returned(t)'
  <2>1. Returned(t) /\ Seat(t)
    BY DEF Booked, Balanced, Tidy, Entered
  <2>2. srv[t].at \in Returning /\ ~hist[t].abandoned /\ kind[t].server # "getty" => srv[t].line # 0
    BY <2>1, ZeroApart DEF Seat, Returning
  <2> QED BY <1>2, <1>4, <1>9, <2>1, <2>2 DEF Returned
<1>10. ASSUME NEW k \in Places, k # l
       PROVE  Open(k)' /\ Paid(k)'
  <2>1. Open(k) /\ Paid(k) /\ HostOK
    BY DEF Booked, Balanced, Tidy
  <2>2. host'.wtmp[k] = host.wtmp[k]
    BY <1>10, <2>1 DEF Puts, HostOK
  <2>3. \A p \in Sessions : hist[p].late => hist'[p].late
    BY <1>4
  <2>4. \A p \in Sessions : Goes(p, k) => Goes(p, k)'
    <3> SUFFICES ASSUME NEW p \in Sessions, Goes(p, k) PROVE Goes(p, k)'
      OBVIOUS
    <3>1. p # s
      BY <1>10, ZeroApart DEF Goes
    <3> QED BY <1>2, <1>4, <1>10, <3>1 DEF Goes
  <2>5. Open(k)'
    BY <2>1, <2>2, <2>3, <2>4, LastLogin DEF Open
  <2>6. Paid(k)'
    <3>1. \A i \in 1..(Len(host.wtmp[k]) - 1) : host.wtmp[k][i].pid \in Sessions
      BY <2>1, Earlier
    <3> QED BY <2>1, <2>2, <2>3, <3>1 DEF Paid
  <2> QED BY <2>5, <2>6
<1>11. Open(l)' /\ Paid(l)'
  <2>1. Open(l) /\ Paid(l) /\ HostOK
    BY DEF Booked, Balanced, Tidy
  <2>2. \A p \in Sessions : Goes(p, l) => p = s
    BY DEF Goes, Serving, Active
  <2>3. \A p \in Sessions : hist[p].late => hist'[p].late
    BY <1>4
  <2>4. \A p \in Sessions : Goes(p, l) => n.type = "dead" /\ n.pid = p
    <3> SUFFICES ASSUME Goes(s, l) PROVE n.type = "dead" /\ n.pid = s
      BY <2>2
    <3>1. PICK e \in Range(host.utmp) : e.line = l /\ e.pid = s
      BY DEF Goes
    <3> QED BY <1>1, <3>1
  <2>5. CASE n.type = "login"
    <3>1. host'.wtmp = host.wtmp
      BY <2>5 DEF Puts
    <3>2. \A p \in Sessions : ~Goes(p, l)
      BY <2>4, <2>5
    <3>3. Open(l)'
      BY <2>1, <2>3, <3>1, <3>2, LastLogin DEF Open
    <3>4. Paid(l)'
      <4>1. \A i \in 1..(Len(host.wtmp[l]) - 1) : host.wtmp[l][i].pid \in Sessions
        BY <2>1, Earlier
      <4> QED BY <2>1, <2>3, <3>1, <4>1 DEF Paid
    <3> QED BY <3>3, <3>4
  <2>6. CASE n.type # "login"
    <3> DEFINE w == host.wtmp[l]
               r == [type |-> n.type, pid |-> n.pid]
               v == host'.wtmp[l]
    <3>1. v = Append(w, r)
      BY <2>1, <2>6 DEF Puts, HostOK
    <3>2. w \in Seq(Records) /\ r.type = n.type /\ r.pid = n.pid
      BY <2>1 DEF HostOK
    <3>3. /\ Len(w) > 0 => Len(w) \in Nat /\ w[Len(w)].pid \in Sessions
          /\ \A i \in 1..(Len(w) - 1) : w[i].pid \in Sessions
      BY <2>1, LastLogin, Earlier
    <3>4. /\ Len(w) > 0 /\ w[Len(w)].type = "user" /\ ~hist[w[Len(w)].pid].late
               => Goes(w[Len(w)].pid, l)
          /\ \A i \in 1..(Len(w) - 1) :
               w[i].type = "user" => hist[w[i].pid].late \/ (w[i + 1].type = "dead" /\ w[i + 1].pid = w[i].pid)
      BY <2>1 DEF Open, Paid
    <3> HIDE DEF w, r, v
    <3>5. /\ Len(w) \in Nat /\ Len(v) = Len(w) + 1 /\ v[Len(v)] = r
          /\ \A i \in 1..Len(w) : v[i] = w[i]
      BY <3>1, <3>2
    <3>6. Open(l)'
      <4>1. n.type = "user" => v[Len(v)].pid = s
        BY <3>2, <3>5
      <4>2. v[Len(v)].type = n.type
        BY <3>2, <3>5
      <4>3. n \in Range(host'.utmp)
        BY <1>2
      <4>4. n.type = "user" /\ ~hist'[s].late => Goes(s, l)'
        BY <4>3 DEF Goes
      <4> QED BY <4>1, <4>2, <4>4 DEF Open, v, Goes
    <3>7. ASSUME NEW i \in 1..Len(w), v[i].type = "user"
          PROVE  hist'[v[i].pid].late \/ (v[i + 1].type = "dead" /\ v[i + 1].pid = v[i].pid)
      <4>1. CASE i = Len(w)
        <5>1. /\ Len(w) > 0 /\ w[Len(w)].type = "user" /\ v[i + 1] = r /\ v[i] = w[Len(w)]
              /\ w[Len(w)].pid \in Sessions
          BY <3>3, <3>5, <3>7, <4>1
        <5>2. CASE hist[w[Len(w)].pid].late
          BY <2>3, <5>1, <5>2
        <5>3. CASE ~hist[w[Len(w)].pid].late
          BY <2>4, <3>2, <3>4, <5>1, <5>3
        <5> QED BY <5>2, <5>3
      <4>2. CASE i # Len(w)
        <5>1. /\ i \in 1..(Len(w) - 1) /\ v[i] = w[i] /\ v[i + 1] = w[i + 1] /\ w[i].pid \in Sessions
          BY <3>3, <3>5, <4>2
        <5> QED BY <2>3, <3>4, <3>7, <5>1
      <4> QED BY <4>1, <4>2
    <3>8. Paid(l)'
      <4>1. 1..(Len(v) - 1) = 1..Len(w)
        BY <3>5
      <4> QED BY <3>7, <4>1 DEF Paid, v
    <3> QED BY <3>6, <3>8
  <2> QED BY <2>5, <2>6
<1> QED BY <1>5, <1>6, <1>7, <1>8, <1>9, <1>10, <1>11 DEF Entered
----------------------------------------------------------------------------
(* What a change of one field leaves of the others.                         *)
LEMMA SrvGoes ==
  ASSUME TypeOK, NEW s \in Sessions, NEW pc, SrvTo(s, pc)
  PROVE  srv'[s].at = pc /\ srv'[s].line = srv[s].line
<1>1. srv[s] \in Servers /\ srv' = [srv EXCEPT ![s] = [srv[s] EXCEPT !.at = pc]]
  BY DEF SrvTo, TypeOK
<1>2. srv'[s] = [srv[s] EXCEPT !.at = pc]
  BY <1>1 DEF TypeOK
<1> QED BY <1>1, <1>2 DEF Servers

(* The same for a login, which forgets everything at its end.               *)
LEMMA LogGoes ==
  ASSUME TypeOK, NEW s \in Sessions, NEW pc, LogTo(s, pc)
  PROVE  /\ log'[s].at = pc
         /\ pc # "gone" => log'[s].user = log[s].user
         /\ log'[s].forwarded => log[s].forwarded
<1>1. log[s] \in Logs
  BY Members
<1>2. log'[s] = IF pc = "gone" THEN NewLog("gone") ELSE [log[s] EXCEPT !.at = pc]
  BY DEF LogTo, TypeOK
<1>3. CASE pc = "gone"
  BY <1>2, <1>3 DEF NewLog
<1>4. CASE pc # "gone"
  BY <1>1, <1>2, <1>4 DEF Logs
<1> QED BY <1>3, <1>4

(* The same for its child.                                                  *)
LEMMA ChildGoes ==
  ASSUME TypeOK, NEW s \in Sessions, NEW pc, ChildTo(s, pc)
  PROVE  child'[s].at = pc /\ child'[s].saved \in {"none", child[s].saved}
<1>1. child[s] \in Children
  BY Members
<1>2. child'[s] = IF pc = "gone" THEN NewChild("gone") ELSE [child[s] EXCEPT !.at = pc]
  BY DEF ChildTo, TypeOK
<1>3. CASE pc = "gone"
  BY <1>2, <1>3 DEF NewChild
<1>4. CASE pc # "gone"
  BY <1>1, <1>2, <1>4 DEF Children
<1> QED BY <1>3, <1>4

(* The same for what is remembered of the session.                          *)
LEMMA HistGoes ==
  ASSUME TypeOK, NEW s \in Sessions, NEW b \in BOOLEAN
  PROVE  /\ hist' = [hist EXCEPT ![s].late = b] =>
              hist'[s].late = b /\ hist'[s].kept = hist[s].kept /\ hist'[s].abandoned = hist[s].abandoned
         /\ hist' = [hist EXCEPT ![s].kept = b] =>
              hist'[s].late = hist[s].late /\ hist'[s].kept = b /\ hist'[s].abandoned = hist[s].abandoned
         /\ hist' = [hist EXCEPT ![s].abandoned = b] =>
              hist'[s].late = hist[s].late /\ hist'[s].kept = hist[s].kept /\ hist'[s].abandoned = b
         /\ hist' = [hist EXCEPT ![s].missed = b] =>
              hist'[s].late = hist[s].late /\ hist'[s].kept = hist[s].kept /\ hist'[s].abandoned = hist[s].abandoned
<1>1. hist[s] \in Hists
  BY Members
<1>2. /\ hist' = [hist EXCEPT ![s].late = b] => hist'[s] = [hist[s] EXCEPT !.late = b]
      /\ hist' = [hist EXCEPT ![s].kept = b] => hist'[s] = [hist[s] EXCEPT !.kept = b]
      /\ hist' = [hist EXCEPT ![s].abandoned = b] => hist'[s] = [hist[s] EXCEPT !.abandoned = b]
      /\ hist' = [hist EXCEPT ![s].missed = b] => hist'[s] = [hist[s] EXCEPT !.missed = b]
  BY DEF TypeOK
<1> DEFINE x == hist[s]
<1>3. x \in Hists
  BY <1>1
<1> HIDE DEF x
<1>4. LET y == [x EXCEPT !.late = b] IN y.late = b /\ y.kept = x.kept /\ y.abandoned = x.abandoned
  BY <1>3 DEF Hists
<1>5. LET y == [x EXCEPT !.kept = b] IN y.late = x.late /\ y.kept = b /\ y.abandoned = x.abandoned
  BY <1>3 DEF Hists
<1>6. LET y == [x EXCEPT !.abandoned = b] IN y.late = x.late /\ y.kept = x.kept /\ y.abandoned = b
  BY <1>3 DEF Hists
<1>7. LET y == [x EXCEPT !.missed = b] IN y.late = x.late /\ y.kept = x.kept /\ y.abandoned = x.abandoned
  BY <1>3 DEF Hists
<1> QED BY <1>2, <1>4, <1>5, <1>6, <1>7 DEF x

(* What the server had cleared is noted.                                    *)
LEMMA LateGoes ==
  ASSUME TypeOK, NEW s \in Sessions, Late(s)
  PROVE  /\ hist'[s].late = (hist[s].late \/ srv[s].at \in Clearing)
         /\ hist'[s].kept = hist[s].kept /\ hist'[s].abandoned = hist[s].abandoned
<1> DEFINE b == hist[s].late \/ srv[s].at \in Clearing
<1>1. hist' = [hist EXCEPT ![s].late = b] /\ b \in BOOLEAN
  BY DEF Late, TypeOK, Clearing
<1> HIDE DEF b
<1>2. /\ hist'[s].late = b
      /\ hist'[s].kept = hist[s].kept /\ hist'[s].abandoned = hist[s].abandoned
  BY <1>1, HistGoes
<1> QED BY <1>2 DEF b

(* And a server that gives up.                                              *)
LEMMA AbandonGoes ==
  ASSUME TypeOK, NEW s \in Sessions, Abandon(s)
  PROVE  /\ srv'[s].at = "gone" /\ srv'[s].line = srv[s].line
         /\ hist'[s].abandoned /\ hist'[s].late = hist[s].late /\ hist'[s].kept = hist[s].kept
<1>1. srv'[s].at = "gone" /\ srv'[s].line = srv[s].line
  BY SrvGoes DEF Abandon
<1>2. hist' = [hist EXCEPT ![s].abandoned = TRUE] /\ TRUE \in BOOLEAN
  BY DEF Abandon
<1>3. hist'[s].abandoned = TRUE /\ hist'[s].late = hist[s].late /\ hist'[s].kept = hist[s].kept
  BY <1>2, HistGoes
<1> QED BY <1>1, <1>3
----------------------------------------------------------------------------
(* The server before the fork.                                              *)
LEMMA GetPtyBooks ==
  ASSUME Safe, Booked, NEW s \in Sessions, GetPty(s), Others(s)
  PROVE  Balanced' /\ Tidy(s)'
<1>1. TypeOK /\ Paired(s) /\ Seat(s) /\ Shut(s) /\ Named(s)
  BY DEF Safe, Secured, Booked, Tidy
<1>2. /\ UNCHANGED <<host, log, child, cache, getTickets, kind>>
      /\ \/ kind[s].server = "telnetd" /\ srv[s].at = "idle"
         \/ kind[s].server = "klogind" /\ srv[s].at = "half"
  BY DEF GetPty, HasPtyNext, Fixed
<1>3. srv[s].line = 0 /\ log[s].at = "none"
  BY <1>1, <1>2 DEF Seat, Paired
<1>4. CASE Abandon(s)
  <2>1. /\ srv'[s].at = "gone" /\ srv'[s].line = srv[s].line
        /\ hist'[s].abandoned /\ hist'[s].late = hist[s].late /\ hist'[s].kept = hist[s].kept
    BY <1>1, <1>4, AbandonGoes
  <2>2. Quiet(s)
    BY <1>2, <1>3, <2>1 DEF Quiet, Tends, Listing, Settled, Watching, Clearing, Returning, Serving
  <2>3. Balanced'
    BY <1>2, <2>2, QuietKeeps
  <2>4. Tidy(s)'
    BY <1>1, <1>2, <1>3, <2>1 DEF Tidy, Seat, Shut
  <2> QED BY <2>3, <2>4
<1>5. CASE ~Abandon(s)
  <2>1. PICK l \in Lines : Free(l) /\ srv' = [srv EXCEPT ![s].at = NextStage(s), ![s].line = l] /\ UNCHANGED hist
    BY <1>5 DEF GetPty
  <2>2. NextStage(s) \in {"half", "ready"} /\ (NextStage(s) = "half" => kind[s].server = "telnetd")
    BY <1>2 DEF NextStage, SrvAt
  <2> DEFINE x == NextStage(s)
  <2> HIDE DEF x
  <2>3. srv'[s] = [srv[s] EXCEPT !.at = x, !.line = l] /\ srv[s] \in Servers
    BY <1>1, <2>1 DEF TypeOK, x
  <2>4. srv'[s].at = x /\ srv'[s].line = l
    BY <2>3 DEF Servers
  <2>5. srv'[s].at \in {"half", "ready"} /\ (srv'[s].at = "half" => kind[s].server = "telnetd")
    BY <2>2, <2>4 DEF x
  <2>6. Balanced'
    BY <1>2, <1>3, <2>1, <2>4, <2>5, PtyKeeps
  <2>7. Tidy(s)'
    BY <1>1, <1>2, <1>3, <2>1, <2>4, <2>5, ZeroApart DEF Tidy, Seat, Shut
  <2> QED BY <2>6, <2>7
<1> QED BY <1>4, <1>5

(* The client's name and credentials.                                       *)
LEMMA AuthenticateBooks ==
  ASSUME Safe, Booked, NEW s \in Sessions, Authenticate(s), Others(s)
  PROVE  Balanced' /\ Tidy(s)'
<1>1. TypeOK /\ Paired(s) /\ Seat(s) /\ Shut(s)
  BY DEF Safe, Secured, Booked, Tidy
<1>2. /\ UNCHANGED <<host, child, getTickets, kind>>
      /\ \/ kind[s].server = "klogind" /\ srv[s].at = "idle"
         \/ kind[s].server = "telnetd" /\ srv[s].at = "half"
  BY DEF Authenticate, AuthNext, Fixed
<1>3. /\ log[s].at = "none" /\ (srv[s].at = "idle" => srv[s].line = 0)
      /\ (srv[s].at = "half" => srv[s].line \in Lines)
  BY <1>1, <1>2 DEF Seat, Paired
<1>4. PICK ask \in kind[s].asks :
        \/ /\ log' = [log EXCEPT ![s].given = ask.name, ![s].pre = ask.pre]
           /\ SrvTo(s, NextStage(s)) /\ UNCHANGED hist
        \/ ask.forward /\ Abandon(s) /\ UNCHANGED log
  BY Zenon DEF Authenticate
<1>5. log'[s].at = "none"
  <2>1. CASE log' = [log EXCEPT ![s].given = ask.name, ![s].pre = ask.pre]
    <3>1. log'[s] = [log[s] EXCEPT !.given = ask.name, !.pre = ask.pre] /\ log[s] \in Logs
      BY <1>1, <2>1 DEF TypeOK
    <3> QED BY <1>3, <3>1 DEF Logs
  <2>2. CASE log' = log
    BY <1>3, <2>2
  <2> QED BY <1>4, <2>1, <2>2
<1>6. CASE Abandon(s)
  <2>1. /\ srv'[s].at = "gone" /\ srv'[s].line = srv[s].line
        /\ hist'[s].abandoned /\ hist'[s].late = hist[s].late /\ hist'[s].kept = hist[s].kept
    BY <1>1, <1>6, AbandonGoes
  <2>2. Quiet(s)
    BY <1>2, <1>3, <1>5, <2>1 DEF Quiet, Tends, Listing, Settled, Watching, Clearing, Returning, Serving, Active
  <2>3. Balanced'
    BY <1>2, <2>2, QuietKeeps
  <2>4. Tidy(s)'
    BY <1>1, <1>2, <1>3, <1>5, <2>1 DEF Tidy, Seat, Shut
  <2> QED BY <2>3, <2>4
<1>7. CASE ~Abandon(s)
  <2>1. SrvTo(s, NextStage(s)) /\ UNCHANGED hist
    BY <1>4, <1>7
  <2>2. /\ srv'[s].at = IF srv[s].at = "idle" THEN "half" ELSE "ready"
        /\ srv'[s].line = srv[s].line
    BY <1>1, <2>1, SrvGoes DEF NextStage, SrvAt
  <2>3. Quiet(s)
    BY <1>2, <1>3, <1>5, <2>1, <2>2 DEF Quiet, Tends, Listing, Settled, Watching, Clearing, Returning, Serving, Active
  <2>4. Balanced'
    BY <1>2, <2>3, QuietKeeps
  <2>5. Tidy(s)'
    BY <1>1, <1>2, <1>3, <1>5, <2>1, <2>2, ZeroApart DEF Tidy, Seat, Shut
  <2> QED BY <2>4, <2>5
<1> QED BY <1>6, <1>7

(* The server's steps that leave login and credentials alone.               *)
LEMMA ServerBooks ==
  ASSUME Safe, Booked, NEW s \in Sessions, Others(s),
         GoesAway(s) \/ Serve(s) \/ SlaveFailed(s) \/ NetDown(s) \/ StartCleanup(s) \/ ReturnTty(s)
  PROVE  Balanced' /\ Tidy(s)'
<1>1. TypeOK /\ Paired(s) /\ Seat(s) /\ Shut(s)
  BY DEF Safe, Secured, Booked, Tidy
<1>2. UNCHANGED <<log, child, cache, getTickets, kind>>
  BY DEF GoesAway, Serve, SlaveFailed, NetDown, StartCleanup, ReturnTty, Fixed
<1>3. CASE Abandon(s)
  <2>1. /\ srv'[s].at = "gone" /\ srv'[s].line = srv[s].line
        /\ hist'[s].abandoned /\ hist'[s].late = hist[s].late /\ hist'[s].kept = hist[s].kept
    BY <1>1, <1>3, AbandonGoes
  <2>2. /\ host' = host /\ kind[s].server # "getty"
        /\ \/ srv[s].at = "half" /\ log[s].at = "none"
           \/ srv[s].at = "forked" /\ log[s].at = "gone"
    <3>1. CASE GoesAway(s)
      BY <1>1, <3>1 DEF GoesAway, Seat, Paired
    <3>2. CASE SlaveFailed(s)
      BY <1>1, <3>2 DEF SlaveFailed, SrvAt, At, Seat
    <3>3. CASE Serve(s) \/ NetDown(s) \/ StartCleanup(s) \/ ReturnTty(s)
      <4>1. hist' = hist /\ srv[s].at # "gone"
        BY <3>3 DEF Serve, NetDown, StartCleanup, ReturnTty, SrvAt
      <4>2. CASE NetDown(s)
        <5>1. srv' = [srv EXCEPT ![s] = [srv[s] EXCEPT !.up = FALSE]] /\ srv[s] \in Servers
          BY <1>1, <4>2 DEF NetDown, TypeOK
        <5>2. srv'[s] = [srv[s] EXCEPT !.up = FALSE]
          BY <1>1, <5>1 DEF TypeOK
        <5>3. srv'[s].at = srv[s].at
          BY <5>1, <5>2 DEF Servers
        <5> QED BY <2>1, <4>1, <5>3
      <4>3. CASE ~NetDown(s)
        <5>1. SrvTo(s, "serve") \/ SrvTo(s, "utmp") \/ SrvTo(s, "creds")
          BY <3>3, <4>3 DEF Serve, StartCleanup, ReturnTty
        <5> QED BY <1>1, <2>1, <5>1, SrvGoes
      <4> QED BY <4>2, <4>3
    <3> QED BY <3>1, <3>2, <3>3
  <2>3. Quiet(s)
    BY <1>2, <2>1, <2>2 DEF Quiet, Tends, Listing, Settled, Watching, Clearing, Returning, Serving, Active
  <2>4. Balanced'
    BY <1>2, <2>3, QuietKeeps
  <2>5. Tidy(s)'
    BY <1>1, <1>2, <2>1, <2>2 DEF Tidy, Seat, Shut
  <2> QED BY <2>4, <2>5
<1>4. CASE ~Abandon(s)
  <2>1. /\ UNCHANGED hist /\ srv'[s].line = srv[s].line
        /\ \/ srv[s].at \in {"synced", "serve"} /\ srv'[s].at \in {"synced", "serve", "utmp"} /\ host' = host
           \/ srv[s].at = "forked" /\ srv'[s].at = "utmp" /\ host' = host
           \/ /\ srv[s].at = "tty" /\ srv'[s].at = "creds"
              /\ host' = [host EXCEPT !.owner[srv[s].line] = "root"]
        /\ kind[s].server # "getty"
    <3>1. CASE NetDown(s)
      <4>1. srv'[s] = [srv[s] EXCEPT !.up = FALSE] /\ srv[s] \in Servers
        BY <1>1, <3>1 DEF NetDown, TypeOK
      <4>2. srv'[s].at = srv[s].at /\ srv'[s].line = srv[s].line
        BY <4>1 DEF Servers
      <4> QED BY <3>1, <4>2 DEF NetDown
    <3>2. CASE Serve(s)
      BY <1>1, <3>2, SrvGoes DEF Serve, SrvAt, Seat
    <3>3. CASE StartCleanup(s)
      BY <1>1, <3>3, SrvGoes DEF StartCleanup, SrvAt
    <3>4. CASE SlaveFailed(s)
      BY <1>1, <1>4, <3>4, SrvGoes DEF SlaveFailed, SrvAt
    <3>5. CASE ReturnTty(s)
      BY <1>1, <3>5, SrvGoes DEF ReturnTty, SrvAt, Seat
    <3>6. CASE GoesAway(s)
      BY <1>4, <3>6 DEF GoesAway
    <3> QED BY <3>1, <3>2, <3>3, <3>4, <3>5, <3>6
  <2>2. srv[s].line \in Lines /\ srv[s].line \in Places /\ "root" \in Accounts
    BY <1>1, <2>1, ZeroApart, NamesApart DEF Seat
  <2>3. srv'[s].at = "creds" => host'.owner[srv[s].line] = "root"
    BY <2>1, <2>2 DEF Booked, Balanced, HostOK
  <2>4. Quiet(s)
    BY <1>2, <2>1, <2>2, <2>3 DEF Quiet, Tends, Clearing, Returning, Serving, Active
  <2>5. Balanced'
    BY <1>2, <2>4, QuietKeeps
  <2>6. Tidy(s)'
    BY <1>1, <1>2, <2>1, <2>2 DEF Tidy, Seat, Shut, Minded
  <2> QED BY <2>5, <2>6
<1> QED BY <1>3, <1>4
----------------------------------------------------------------------------
(* Where a step of the login or its child alone may take the login.         *)
Moves(a, b) ==
  \/ a = b
  \/ a \in {"slave", "exec", "init", "prompt", "accepted", "self", "destroy"} /\ b = "gone"
  \/ a = "exec" /\ b = "init"
  \/ a = "init" /\ b = "prompt"
  \/ a = "prompt" /\ b = "accepted"
  \/ a = "fork" /\ b \in {"watch", "self"}
  \/ a = "watch" /\ b = "ready"
  \/ a = "ready" /\ b = "wait"
  \/ a = "wait" /\ b = "destroy"

(* Such a step leaves books and credentials in order.                       *)
LEMMA MoveBooks ==
  ASSUME Safe, Booked, NEW s \in Sessions, Others(s), UNCHANGED <<host, srv, kind, getTickets>>,
         Alive(log[s]) \/ Alive(child[s]),
         Moves(log[s].at, log'[s].at),
         log'[s].at \in Settled => log'[s].user = log[s].user,
         log'[s].forwarded => log[s].forwarded,
         child'[s].saved \in {"none", child[s].saved},
         \/ cache'[s] = NoCache
         \/ cache'[s] = cache[s] /\ (Minded(s) => log'[s].at \in {"ready", "wait", "destroy"}),
         hist'[s].late = hist[s].late, hist'[s].kept = hist[s].kept,
         hist'[s].abandoned = hist[s].abandoned
  PROVE  Balanced' /\ Tidy(s)'
<1>1. TypeOK /\ Paired(s) /\ Seat(s) /\ Shut(s)
  BY DEF Safe, Secured, Booked, Tidy
<1> DEFINE a == log[s].at
           b == log'[s].at
<1>2. Moves(a, b)
  OBVIOUS
<1> HIDE DEF a, b
<1>3. /\ b \in Listing(s) => a \in Listing(s) /\ (b \in Settled <=> a \in Settled)
      /\ a \in Settled \union {"gone"} => b \in Settled \union {"gone"}
  BY <1>2 DEF Moves, Listing, Settled, Watching
<1>4. Quiet(s)
  BY <1>3 DEF Quiet, Tends, Active, a, b
<1>5. Balanced'
  BY <1>4, QuietKeeps
<1>6. /\ b \in {"record", "slave", "exec"} => a = b
      /\ a = "slave" => b \in {"slave", "gone"}
      /\ a = "gone" => b = "gone"
      /\ a \in {"none", "gone", "ready", "wait", "destroy"}
           => b = a \/ b \in {"gone", "ready", "wait", "destroy"}
      /\ a = "record" => b = "record"
      /\ b = "none" <=> a = "none"
  BY <1>2 DEF Moves
<1>7. Seat(s)'
  BY <1>1, <1>6 DEF Seat, a, b
<1>8. Shut(s)'
  BY <1>1 DEF Shut, Minded
<1> QED BY <1>5, <1>7, <1>8 DEF Tidy

(* From exec() to the password loop, and out of it.                         *)
LEMMA PlaceBooks ==
  ASSUME Safe, Booked, NEW s \in Sessions, Others(s), UNCHANGED kind,
         \/ Exec(s) \/ LoginStarts(s) \/ LeaveLogin(s) \/ Reap(s) \/ Ready(s) \/ DestroyTickets(s)
         \/ (OpenSlave(s) /\ UNCHANGED <<host, srv>> /\ LogTo(s, "gone"))
  PROVE  Balanced' /\ Tidy(s)'
<1>1. TypeOK
  BY DEF Safe
<1>2. UNCHANGED <<host, srv, kind, getTickets, child, hist>>
  BY DEF Exec, LoginStarts, LeaveLogin, Reap, Ready, DestroyTickets, OpenSlave, Fixed
<1>3. PICK pc : /\ LogTo(s, pc) /\ Moves(log[s].at, pc)
                /\ log[s].at \notin {"none", "gone"}
                /\ \/ cache' = cache /\ log[s].at # "destroy"
                   \/ cache' = [cache EXCEPT ![s] = NoCache]
                /\ log[s].at \in {"ready", "wait"} => pc \in {"ready", "wait", "destroy"}
  <2>1. CASE Exec(s)
    BY <2>1 DEF Exec, At, Moves
  <2>2. CASE LoginStarts(s)
    BY <2>2 DEF LoginStarts, At, Moves
  <2>3. CASE LeaveLogin(s)
    BY <2>3 DEF LeaveLogin, At, Moves
  <2>4. CASE Reap(s)
    BY <2>4 DEF Reap, At, Moves
  <2>5. CASE Ready(s)
    BY <2>5 DEF Ready, At, Moves
  <2>6. CASE DestroyTickets(s)
    BY <2>6 DEF DestroyTickets, At, Moves
  <2>7. CASE OpenSlave(s) /\ LogTo(s, "gone")
    BY <2>7 DEF OpenSlave, At, Moves
  <2> QED BY <2>1, <2>2, <2>3, <2>4, <2>5, <2>6, <2>7
<1>4. /\ log'[s].at = pc
      /\ pc # "gone" => log'[s].user = log[s].user
      /\ log'[s].forwarded => log[s].forwarded
  BY <1>1, <1>3, LogGoes
<1>5. \/ cache'[s] = NoCache
      \/ cache'[s] = cache[s] /\ log[s].at # "destroy"
  BY <1>1, <1>3 DEF TypeOK
<1>6. log'[s].at \in Settled => log'[s].user = log[s].user
  BY <1>4 DEF Settled, Watching
<1>7. Alive(log[s])
  BY <1>3 DEF Alive
<1>8. Minded(s) /\ log[s].at # "destroy" => log'[s].at \in {"ready", "wait", "destroy"}
  BY <1>3, <1>4 DEF Minded
<1> HIDE DEF Moves
<1> QED BY <1>2, <1>3, <1>4, <1>5, <1>6, <1>7, <1>8, MoveBooks

(* The password loop, where credentials may be destroyed.                   *)
LEMMA AttemptBooks ==
  ASSUME Safe, Booked, NEW s \in Sessions, Others(s), Attempt(s), UNCHANGED kind
  PROVE  Balanced' /\ Tidy(s)'
<1>1. TypeOK /\ log[s] \in Logs /\ hist[s] \in Hists /\ cache[s] \in Caches
  BY Members DEF Safe
<1>2. UNCHANGED <<host, srv, kind, getTickets, child>> /\ log[s].at = "prompt"
  BY DEF Attempt, At
<1>3. PICK name : Preauthenticated(s, name) \/ Unprotected(s, name) \/ Password(s, name)
  BY DEF Attempt
<1>4. CASE Preauthenticated(s, name) \/ Unprotected(s, name)
  <2>1. PICK how : Admit(s, name, how)
    BY <1>4 DEF Preauthenticated, Unprotected
  <2>2. log'[s] = [log[s] EXCEPT !.at = "accepted", !.user = name, !.how = how]
    BY <1>1, <2>1 DEF Admit, TypeOK
  <2>3. log'[s].at = "accepted" /\ log'[s].forwarded = log[s].forwarded
    BY <1>1, <2>2 DEF Logs
  <2>4. UNCHANGED <<cache, hist>>
    BY <1>4 DEF Preauthenticated, Unprotected
  <2>5. Moves(log[s].at, log'[s].at) /\ log'[s].at \notin Settled /\ ~Minded(s) /\ Alive(log[s])
    BY <1>2, <2>3 DEF Moves, Settled, Watching, Minded, Alive
  <2> QED BY <1>2, <2>3, <2>4, <2>5, MoveBooks
<1>5. CASE Password(s, name)
  <2>1. PICK tickets, how :
          \/ /\ log' = [log EXCEPT ![s].at = "accepted", ![s].user = name, ![s].how = how,
                                   ![s].tickets = tickets]
             /\ UNCHANGED <<cache, hist>>
          \/ /\ log' = [log EXCEPT ![s] = Failed([log[s] EXCEPT !.tickets = tickets])]
             /\ cache' = IF getTickets THEN Destroyed(s, tickets) ELSE cache
             /\ hist' = [hist EXCEPT ![s].earlier = @ \union ({tickets} \ {"none"})]
    <3>1. PICK read, local, got, verified \in BOOLEAN :
            LET tried == getTickets /\ read /\ name \in Accounts
                tickets == IF tried /\ name # "root" THEN Obtained(s, name, got) ELSE log[s].tickets
                how == IF ~tried THEN "none"
                       ELSE IF local THEN "password"
                       ELSE IF tickets # "none" /\ verified THEN "ticket" ELSE "none"
            IN  IF how # "none"
                THEN /\ log' = [log EXCEPT ![s].at = "accepted", ![s].user = name, ![s].how = how,
                                           ![s].tickets = tickets]
                     /\ UNCHANGED <<cache, hist>>
                ELSE /\ log' = [log EXCEPT ![s] = Failed([@ EXCEPT !.tickets = tickets])]
                     /\ cache' = IF getTickets THEN Destroyed(s, tickets) ELSE cache
                     /\ hist' = [hist EXCEPT ![s].earlier = @ \union ({tickets} \ {"none"})]
      BY <1>5, Zenon DEF Password
    <3> DEFINE tried == getTickets /\ read /\ name \in Accounts
               tickets == IF tried /\ name # "root" THEN Obtained(s, name, got) ELSE log[s].tickets
               how == IF ~tried THEN "none"
                      ELSE IF local THEN "password"
                      ELSE IF tickets # "none" /\ verified THEN "ticket" ELSE "none"
    <3>2. CASE how # "none"
      <4>1. /\ log' = [log EXCEPT ![s].at = "accepted", ![s].user = name, ![s].how = how,
                                  ![s].tickets = tickets]
            /\ UNCHANGED <<cache, hist>>
        BY <3>1, <3>2
      <4> HIDE DEF tried, tickets, how
      <4> QED BY <4>1
    <3>3. CASE how = "none"
      <4>1. /\ log' = [log EXCEPT ![s] = Failed([@ EXCEPT !.tickets = tickets])]
            /\ cache' = IF getTickets THEN Destroyed(s, tickets) ELSE cache
            /\ hist' = [hist EXCEPT ![s].earlier = @ \union ({tickets} \ {"none"})]
        BY <3>1, <3>3
      <4> HIDE DEF tried, tickets, how
      <4> QED BY <4>1
    <3> QED BY <3>2, <3>3
  <2>2. log'[s].at \in {"accepted", "prompt", "gone"} /\ (log'[s].forwarded => log[s].forwarded)
    <3>1. CASE log' = [log EXCEPT ![s].at = "accepted", ![s].user = name, ![s].how = how,
                                  ![s].tickets = tickets]
      <4>1. log'[s] = [log[s] EXCEPT !.at = "accepted", !.user = name, !.how = how, !.tickets = tickets]
        BY <1>1, <3>1 DEF TypeOK
      <4> QED BY <1>1, <4>1 DEF Logs
    <3>2. CASE log' = [log EXCEPT ![s] = Failed([log[s] EXCEPT !.tickets = tickets])]
      <4> DEFINE x == [log[s] EXCEPT !.tickets = tickets]
      <4>1. x.at = "prompt" /\ x.forwarded = log[s].forwarded
            /\ DOMAIN x = DOMAIN log[s]
        BY <1>1, <1>2 DEF Logs
      <4>2. log'[s] = Failed(x)
        BY <1>1, <3>2 DEF TypeOK
      <4>3. {"at", "forwarded", "fails", "given", "pre"} \subseteq DOMAIN log[s]
        BY <1>1 DEF Logs
      <4> HIDE DEF x
      <4>4. CASE x.fails + 1 >= MaxAttempts
        BY <4>2, <4>4 DEF Failed, NewLog
      <4>5. CASE ~(x.fails + 1 >= MaxAttempts)
        <5>1. log'[s] = [x EXCEPT !.fails = @ + 1, !.given = "none", !.pre = FALSE]
          BY <4>2, <4>5 DEF Failed
        <5> QED BY <4>1, <4>3, <5>1
      <4> QED BY <4>4, <4>5
    <3> QED BY <2>1, <3>1, <3>2
  <2>3. cache'[s] = NoCache \/ cache'[s] = cache[s]
    BY <1>1, <2>1 DEF TypeOK, Destroyed
  <2>4. /\ hist'[s].late = hist[s].late /\ hist'[s].kept = hist[s].kept
        /\ hist'[s].abandoned = hist[s].abandoned
    <3>1. CASE hist' = hist
      BY <3>1
    <3>2. CASE hist' = [hist EXCEPT ![s].earlier = @ \union ({tickets} \ {"none"})]
      <4>1. hist'[s] = [hist[s] EXCEPT !.earlier = @ \union ({tickets} \ {"none"})]
        BY <1>1, <3>2 DEF TypeOK
      <4> QED BY <1>1, <4>1 DEF Hists
    <3> QED BY <2>1, <3>1, <3>2
  <2>5. Moves(log[s].at, log'[s].at) /\ log'[s].at \notin Settled /\ ~Minded(s) /\ Alive(log[s])
    BY <1>2, <2>2 DEF Moves, Settled, Watching, Minded, Alive
  <2> QED BY <1>2, <2>2, <2>3, <2>4, <2>5, MoveBooks
<1> QED BY <1>3, <1>4, <1>5
----------------------------------------------------------------------------
(* The server forks, and its child opens the slave of the pty.              *)
LEMMA ForkBooks ==
  ASSUME Safe, Booked, NEW s \in Sessions, Others(s), Fork(s)
  PROVE  Balanced' /\ Tidy(s)'
<1>1. TypeOK /\ Paired(s) /\ Seat(s) /\ Shut(s)
  BY DEF Safe, Secured, Booked, Tidy
<1>2. UNCHANGED <<host, child, cache, hist, getTickets, kind>> /\ srv[s].at = "ready"
  BY DEF Fork, SrvAt, Fixed
<1>3. /\ srv'[s].at = "forked" /\ srv'[s].line = srv[s].line
      /\ log'[s].at = IF kind[s].server = "telnetd" THEN "record" ELSE "slave"
      /\ log'[s].forwarded => log[s].forwarded
  BY <1>1, SrvGoes, LogGoes DEF Fork
<1>4. log[s].at = "none" /\ kind[s].server # "getty" /\ srv[s].line \in Lines
  BY <1>1, <1>2 DEF Seat, Paired
<1>5. Quiet(s)
  BY <1>2, <1>3, <1>4 DEF Quiet, Tends, Listing, Settled, Watching, Clearing, Returning, Serving, Active
<1>6. Balanced'
  BY <1>2, <1>5, QuietKeeps
<1>7. Tidy(s)'
  BY <1>1, <1>2, <1>3, <1>4 DEF Tidy, Seat, Shut
<1> QED BY <1>6, <1>7

(* The slave is root's until login gives it away.                           *)
LEMMA OpenSlaveBooks ==
  ASSUME Safe, Booked, NEW s \in Sessions, Others(s), OpenSlave(s)
  PROVE  Balanced' /\ Tidy(s)'
<1>1. TypeOK /\ Paired(s) /\ Seat(s) /\ Shut(s)
  BY DEF Safe, Secured, Booked, Tidy
<1>2. UNCHANGED <<child, cache, hist, getTickets, kind>> /\ log[s].at = "slave"
  BY DEF OpenSlave, At, Fixed
<1>3. CASE UNCHANGED <<host, srv>> /\ LogTo(s, "gone")
  BY <1>2, <1>3, PlaceBooks
<1>4. CASE ~(UNCHANGED <<host, srv>> /\ LogTo(s, "gone"))
  <2> DEFINE x == IF srv[s].at = "forked" THEN "synced" ELSE srv[s].at
             pc == IF kind[s].server = "telnetd" THEN "exec" ELSE "record"
  <2>1. /\ host' = [host EXCEPT !.owner[srv[s].line] = "root"]
        /\ srv' = [srv EXCEPT ![s].at = x]
        /\ LogTo(s, pc)
    BY <1>1, <1>4 DEF OpenSlave, TypeOK
  <2> HIDE DEF x, pc
  <2>2. srv'[s].at = x /\ srv'[s].line = srv[s].line
    BY <1>1, <2>1, SrvGoes DEF SrvTo
  <2>3. /\ srv'[s].at = IF srv[s].at = "forked" THEN "synced" ELSE srv[s].at
        /\ srv'[s].line = srv[s].line
    BY <2>2 DEF x
  <2>4. /\ log'[s].at = IF kind[s].server = "telnetd" THEN "exec" ELSE "record"
        /\ log'[s].forwarded => log[s].forwarded
    BY <1>1, <2>1, LogGoes DEF pc
  <2>5. kind[s].server # "getty" /\ srv[s].line \in Lines /\ srv[s].line \in Places /\ "root" \in Accounts
    BY <1>1, <1>2, ZeroApart, NamesApart DEF Seat
  <2>6. Quiet(s)
    BY <1>2, <2>1, <2>3, <2>4, <2>5
       DEF Quiet, Tends, Listing, Settled, Watching, Clearing, Returning, Serving, Active, Alive
  <2>7. Balanced'
    BY <1>2, <2>6, QuietKeeps
  <2>8. srv[s].at \notin {"idle", "gone", "half"}
    BY <1>1, <1>2, <2>5 DEF Seat, Paired
  <2>9. Tidy(s)'
    BY <1>1, <1>2, <2>3, <2>4, <2>5, <2>8 DEF Tidy, Seat, Shut, Minded
  <2> QED BY <2>7, <2>9
<1> QED BY <1>3, <1>4

(* The server destroys what it stored.                                      *)
LEMMA ForwardedBooks ==
  ASSUME Safe, Booked, NEW s \in Sessions, Others(s), DestroyForwarded(s)
  PROVE  Balanced' /\ Tidy(s)'
<1>1. TypeOK /\ Paired(s) /\ Seat(s) /\ Shut(s)
  BY DEF Safe, Secured, Booked, Tidy
<1>2. UNCHANGED <<host, log, child, hist, getTickets, kind>> /\ srv[s].at = "creds"
  BY DEF DestroyForwarded, SrvAt, Fixed
<1>3. srv'[s].at = "exit" /\ srv'[s].line = srv[s].line /\ cache'[s] = NoCache
  BY <1>1, SrvGoes DEF DestroyForwarded, TypeOK
<1>4. kind[s].server # "getty" /\ srv[s].line \in Lines
  BY <1>1, <1>2 DEF Seat
<1>5. Quiet(s)
  BY <1>2, <1>3, <1>4 DEF Quiet, Tends, Clearing, Returning, Serving, Active
<1>6. Balanced'
  BY <1>2, <1>5, QuietKeeps
<1>7. Tidy(s)'
  BY <1>1, <1>2, <1>3, <1>4 DEF Tidy, Seat, Shut
<1> QED BY <1>6, <1>7

(* The server exits, and hangs up the terminal.                             *)
LEMMA ExitBooks ==
  ASSUME Safe, Booked, NEW s \in Sessions, Others(s), Exit(s)
  PROVE  Balanced' /\ Tidy(s)'
<1>1. TypeOK /\ Paired(s) /\ Seat(s) /\ Shut(s) /\ log[s] \in Logs /\ srv[s] \in Servers
  BY Members DEF Safe, Secured, Booked, Tidy
<1>2. UNCHANGED <<host, cache, hist, getTickets, kind>> /\ srv[s].at = "exit"
  BY DEF Exit, SrvAt, Fixed
<1>3. srv'[s].at = "gone" /\ srv'[s].line = srv[s].line
  <2>1. srv'[s] = [srv[s] EXCEPT !.at = "gone", !.hung = TRUE]
    BY <1>1 DEF Exit, TypeOK
  <2> QED BY <1>1, <2>1 DEF Servers
<1>4. \/ /\ log[s].at \in {"none", "ready", "wait", "destroy"}
         /\ log'[s].at = log[s].at /\ log'[s].user = log[s].user
      \/ log[s].at \notin {"none", "ready", "wait", "destroy"} /\ log'[s].at = "gone"
  <2>1. CASE log[s].at \in {"ready", "wait", "destroy"}
    <3>1. log' = [log EXCEPT ![s].hup = TRUE, ![s].eintr = log[s].at = "wait"]
      BY <2>1 DEF Exit, Hangup
    <3>2. log'[s] = [log[s] EXCEPT !.hup = TRUE, !.eintr = log[s].at = "wait"]
      BY <1>1, <3>1 DEF TypeOK
    <3>3. log'[s].at = log[s].at /\ log'[s].user = log[s].user
      BY <1>1, <3>2 DEF Logs
    <3> QED BY <2>1, <3>3
  <2>2. CASE log[s].at = "none"
    BY <2>2 DEF Exit, Hangup
  <2>3. CASE log[s].at \notin {"none", "ready", "wait", "destroy"}
    <3>1. log'[s] = NewLog("gone")
      BY <1>1, <2>3 DEF Exit, Hangup, TypeOK
    <3> QED BY <2>3, <3>1 DEF NewLog
  <2> QED BY <2>1, <2>2, <2>3
<1>5. kind[s].server # "getty" /\ srv[s].line \in Lines
  BY <1>1, <1>2 DEF Seat
<1>6. Quiet(s)
  BY <1>2, <1>3, <1>4, <1>5 DEF Quiet, Tends, Listing, Settled, Watching, Clearing, Returning, Serving, Active
<1>7. Balanced'
  BY <1>2, <1>6, QuietKeeps
<1>8. Tidy(s)'
  BY <1>1, <1>2, <1>3, <1>4, <1>5 DEF Tidy, Seat, Shut, Minded
<1> QED BY <1>7, <1>8
----------------------------------------------------------------------------
(* The login has a terminal from its start.                                 *)
LEMMA Seated ==
  ASSUME Safe, Booked, NEW s \in Sessions, log[s].at \notin {"none", "gone"}
  PROVE  srv[s].line \in Places /\ srv[s].at \notin Begun
<1>1. Paired(s) /\ Seat(s)
  BY DEF Safe, Secured, Booked, Tidy
<1>2. srv[s].at \notin Begun
  BY <1>1 DEF Paired, Begun
<1> QED BY <1>1, <1>2, ZeroApart DEF Seat, Begun

(* The user who has the terminal.                                           *)
LEMMA TakeTtyBooks ==
  ASSUME Safe, Booked, NEW s \in Sessions, Others(s), TakeTty(s), UNCHANGED kind
  PROVE  Balanced' /\ Tidy(s)'
<1>1. TypeOK /\ Paired(s) /\ Seat(s) /\ Shut(s) /\ Holds(s) /\ log[s] \in Logs
  BY Members DEF Safe, Secured, Booked, Tidy
<1>2. UNCHANGED <<srv, child, cache, getTickets, kind>> /\ log[s].at = "own"
  BY DEF TakeTty, At
<1>3. srv[s].line \in Places /\ srv[s].at \notin Begun
  BY <1>2, Seated
<1>4. log[s].user \in Accounts
  BY <1>1, <1>2 DEF Holds, Admitted, Logs
<1>5. /\ log'[s].at = "fork" /\ log'[s].user = log[s].user
      /\ log'[s].forwarded = (log[s].tickets = "none" /\ cache[s] # NoCache)
  <2>1. log'[s] = [log[s] EXCEPT !.at = "fork",
                                 !.forwarded = log[s].tickets = "none" /\ cache[s] # NoCache]
    BY <1>1 DEF TakeTty, TypeOK
  <2> QED BY <1>1, <2>1 DEF Logs
<1>6. /\ hist'[s].late = (hist[s].late \/ srv[s].at \in Clearing)
      /\ hist'[s].kept = hist[s].kept /\ hist'[s].abandoned = hist[s].abandoned
  BY <1>1, LateGoes DEF TakeTty
<1>7. host' = [host EXCEPT !.owner[srv[s].line] = log[s].user]
  BY DEF TakeTty
<1>8. Quiet(s)
  BY <1>2, <1>3, <1>4, <1>5, <1>6, <1>7
     DEF Quiet, Tends, Listing, Settled, Watching, Clearing, Returning, Active, Alive
<1>9. Balanced'
  BY <1>8, QuietKeeps
<1>10. Tidy(s)'
  BY <1>1, <1>2, <1>3, <1>5, <1>6 DEF Tidy, Seat, Shut, Minded, Begun
<1> QED BY <1>9, <1>10

(* The login forks, waits for its child, and passes a hangup on.            *)
LEMMA WatchBooks ==
  ASSUME Safe, Booked, NEW s \in Sessions, Others(s), DoFork(s) \/ Wait(s) \/ PassHangup(s), UNCHANGED kind
  PROVE  Balanced' /\ Tidy(s)'
<1>1. TypeOK /\ log[s] \in Logs
  BY Members DEF Safe
<1>2. UNCHANGED <<srv, host, cache, getTickets, kind>> /\ log[s].at \in {"fork", "ready", "wait"}
  BY DEF DoFork, Wait, PassHangup, At
<1>3. /\ Moves(log[s].at, log'[s].at) /\ log'[s].user = log[s].user
      /\ log'[s].forwarded => log[s].forwarded
      /\ log[s].at # "fork" => log'[s].at \in {"ready", "wait"}
  <2>1. CASE DoFork(s)
    BY <1>1, <2>1, LogGoes DEF DoFork, Moves, At
  <2>2. CASE Wait(s)
    BY <1>1, <2>2, LogGoes DEF Wait, Moves, At
  <2>3. CASE PassHangup(s)
    <3>1. log'[s] = [log[s] EXCEPT !.eintr = FALSE]
      BY <1>1, <2>3 DEF PassHangup, TypeOK
    <3>2. log'[s].at = log[s].at /\ log'[s].user = log[s].user /\ log'[s].forwarded = log[s].forwarded
      BY <1>1, <3>1 DEF Logs
    <3> QED BY <1>2, <2>3, <3>2 DEF Moves, PassHangup, At
  <2> QED BY <2>1, <2>2, <2>3
<1>4. child'[s].saved \in {"none", child[s].saved}
  <2>1. CASE child' = child
    BY <2>1
  <2>2. CASE child' # child
    <3>1. \E pc : ChildTo(s, pc)
      BY <2>2 DEF DoFork, Wait, PassHangup
    <3> QED BY <1>1, <3>1, ChildGoes
  <2> QED BY <2>1, <2>2
<1>5. /\ hist'[s].late = hist[s].late /\ hist'[s].kept = hist[s].kept
      /\ hist'[s].abandoned = hist[s].abandoned
  <2>1. CASE hist' = hist
    BY <2>1
  <2>2. CASE hist' # hist
    <3>1. PICK b \in BOOLEAN : hist' = [hist EXCEPT ![s].missed = b]
      <4>1. (log[s].hup /\ Alive(child[s])) \in BOOLEAN /\ Alive(child[s]) \in BOOLEAN
        BY <1>1 DEF Logs, Alive
      <4> QED BY <2>2, <4>1 DEF DoFork, Wait, PassHangup
    <3> QED BY <1>1, <3>1, HistGoes
  <2> QED BY <2>1, <2>2
<1>6. Alive(log[s]) /\ (Minded(s) => log'[s].at \in {"ready", "wait", "destroy"})
  BY <1>2, <1>3 DEF Alive, Minded
<1> HIDE DEF Moves
<1> QED BY <1>2, <1>3, <1>4, <1>5, <1>6, MoveBooks

(* The child on its way to the shell.                                       *)
LEMMA ChildBooks ==
  ASSUME Safe, Booked, NEW s \in Sessions, Others(s),
         Sync(s) \/ OwnGroup(s) \/ BecomeUser(s) \/ Busy(s) \/ ShellDone(s), UNCHANGED kind
  PROVE  Balanced' /\ Tidy(s)'
<1>1. TypeOK /\ Paired(s) /\ Seat(s) /\ Shut(s) /\ log[s] \in Logs /\ child[s] \in Children
  BY Members DEF Safe, Secured, Booked, Tidy
<1>2. /\ UNCHANGED <<srv, host, hist, getTickets, kind>>
      /\ child[s].at \in {"sync", "group", "setuid", "shell"} /\ Alive(child[s])
  BY DEF Sync, OwnGroup, BecomeUser, Busy, ShellDone, Alive
<1>3. CASE BecomeUser(s)
  <2>1. UNCHANGED log
    BY <1>3 DEF BecomeUser
  <2>2. PICK saved \in IF log[s].forwarded THEN {"none", cache[s].creds} ELSE {"none"} :
          child' = [child EXCEPT ![s].at = "store", ![s].saved = saved]
    BY <1>3, Zenon DEF BecomeUser
  <2>3. child'[s].saved = saved
    <3>1. child'[s] = [child[s] EXCEPT !.at = "store", !.saved = saved]
      BY <1>1, <2>2 DEF TypeOK
    <3> QED BY <1>1, <3>1 DEF Children
  <2>4. cache'[s] = NoCache \/ cache'[s] = cache[s]
    BY <1>1, <1>3 DEF BecomeUser, TypeOK
  <2>5. kind[s].server = "getty" => child'[s].saved = "none"
    BY <1>1, <2>2, <2>3 DEF Shut
  <2>6. Quiet(s)
    BY <1>2, <2>1, <1>1 DEF Quiet, Tends, Active
  <2>7. Balanced'
    BY <2>6, QuietKeeps
  <2>8. Tidy(s)'
    BY <1>1, <1>2, <2>1, <2>4, <2>5 DEF Tidy, Seat, Shut, Minded
  <2> QED BY <2>7, <2>8
<1>4. CASE ~BecomeUser(s)
  <2>1. UNCHANGED cache
    BY <1>4 DEF Sync, OwnGroup, Busy, ShellDone
  <2>2. child'[s].saved \in {"none", child[s].saved}
    <3>1. CASE Busy(s)
      <4>1. child'[s] = [child[s] EXCEPT !.busy = TRUE]
        BY <1>1, <3>1 DEF Busy, TypeOK
      <4> QED BY <1>1, <4>1 DEF Children
    <3>2. CASE ~Busy(s)
      <4>1. \E pc : ChildTo(s, pc)
        BY <1>4, <3>2 DEF Sync, OwnGroup, ShellDone
      <4> QED BY <1>1, <4>1, ChildGoes
    <3> QED BY <3>1, <3>2
  <2>3. log'[s] = log[s] \/ (log[s].at = "self" /\ log'[s] = NewLog("gone") /\ ~getTickets)
    <3>1. CASE ShellDone(s)
      <4>1. At(s, "self") => ~getTickets
        BY <1>1, <3>1 DEF ShellDone, At, Paired, Running
      <4> QED BY <1>1, <3>1, <4>1 DEF ShellDone, At, TypeOK
    <3>2. CASE ~ShellDone(s)
      BY <1>4, <3>2 DEF Sync, OwnGroup, Busy
    <3> QED BY <3>1, <3>2
  <2>4. /\ Moves(log[s].at, log'[s].at)
        /\ log'[s].at \in Settled => log'[s].user = log[s].user
        /\ log'[s].forwarded => log[s].forwarded
        /\ Minded(s) => log'[s].at \in {"ready", "wait", "destroy"}
    BY <2>3 DEF Moves, NewLog, Settled, Watching, Minded
  <2> HIDE DEF Moves
  <2> QED BY <1>2, <2>1, <2>2, <2>4, MoveBooks
<1> QED BY <1>3, <1>4

(* What the child stores is looked after, or is a server's that exits.      *)
LEMMA StoreBooks ==
  ASSUME Safe, Booked, NEW s \in Sessions, Others(s), StoreTickets(s), UNCHANGED kind
  PROVE  Balanced' /\ Tidy(s)'
<1>1. TypeOK /\ Paired(s) /\ Holds(s) /\ Seat(s) /\ Shut(s)
  BY Members DEF Safe, Secured, Booked, Tidy
<1>2. UNCHANGED <<host, srv, log, getTickets, kind>> /\ child[s].at = "store"
  BY DEF StoreTickets
<1>3. log[s].at \in IF getTickets THEN {"ready", "wait"} ELSE {"self"}
  BY <1>1, <1>2 DEF Paired, Running
<1>4. child'[s].saved \in {"none", child[s].saved}
  BY <1>1, ChildGoes DEF StoreTickets
<1>5. /\ hist'[s].late = hist[s].late /\ hist'[s].abandoned = hist[s].abandoned
      /\ hist'[s].kept = (srv[s].at = "exit" /\ ~getTickets)
  <2> DEFINE b == srv[s].at = "exit" /\ ~getTickets
  <2>1. b \in BOOLEAN /\ hist' = [hist EXCEPT ![s].kept = b]
    BY <1>1 DEF StoreTickets, TypeOK
  <2> HIDE DEF b
  <2>2. hist'[s].late = hist[s].late /\ hist'[s].kept = b /\ hist'[s].abandoned = hist[s].abandoned
    BY <1>1, <2>1, HistGoes
  <2> QED BY <2>2 DEF b
<1>6. kind[s].server = "getty" /\ ~getTickets => cache'[s] = NoCache
  <2> SUFFICES ASSUME kind[s].server = "getty", ~getTickets PROVE cache'[s] = NoCache
    OBVIOUS
  <2>1. cache[s] = NoCache /\ child[s].saved = "none" /\ log[s].tickets = "none"
    BY <1>1 DEF Shut, Minded, Holds
  <2>2. ToStore(s) = "none"
    BY <2>1 DEF ToStore
  <2> QED BY <2>1, <2>2 DEF StoreTickets
<1>7. Quiet(s)
  BY <1>2, <1>3, <1>5 DEF Quiet, Tends, Active, Alive
<1>8. Balanced'
  BY <1>7, QuietKeeps
<1>9. Seat(s)'
  BY <1>1, <1>2, <1>3, <1>5 DEF Seat
<1>10. Shut(s)'
  <2>1. getTickets => Minded(s)'
    BY <1>2, <1>3 DEF Minded
  <2>2. ~getTickets /\ kind[s].server # "getty" => srv[s].at # "gone"
    BY <1>1, <1>3 DEF Seat
  <2> QED BY <1>1, <1>2, <1>4, <1>5, <1>6, <2>1, <2>2 DEF Shut
<1> QED BY <1>8, <1>9, <1>10 DEF Tidy
----------------------------------------------------------------------------
(* A session that is active has its terminal to itself.                     *)
LEMMA Rivals ==
  ASSUME Booked, NEW s \in Sessions, Active(s), srv[s].line \in Places
  PROVE  \A t \in Sessions : t # s /\ srv[t].line = srv[s].line => ~Active(t)
BY ZeroApart DEF Booked, Balanced, Alone

(* What a session writes while its server has not cleared up, or is late.   *)
LEMMA WritesBooks ==
  ASSUME Safe, Booked, NEW s \in Sessions, Others(s), Late(s),
         UNCHANGED <<srv, child, cache, kind, getTickets>>,
         log[s].at \notin {"none", "gone", "ready", "wait", "destroy"} \union Settled,
         srv[s].line \in Places,
         HostOK', NEW n \in Entries, Puts(n), n.line = srv[s].line, n.pid = s,
         \/ n.type = "login" /\ log'[s].at \notin Settled
         \/ /\ n.type = "user" /\ log'[s].at \in Settled /\ n.user = log'[s].user
            /\ srv[s].at # "forked",
         log'[s].at # "gone"
  PROVE  Balanced'
<1> DEFINE l == srv[s].line
<1>1. TypeOK /\ Paired(s) /\ Seat(s) /\ Shut(s)
  BY DEF Safe, Secured, Booked, Tidy
<1>2. /\ hist'[s].late = (hist[s].late \/ srv[s].at \in Clearing)
      /\ hist'[s].kept = hist[s].kept /\ hist'[s].abandoned = hist[s].abandoned
  BY <1>1, LateGoes
<1>3. Active(s)
  BY DEF Active, Alive
<1>4. \A t \in Sessions : t # s /\ srv[t].line = l => ~Active(t)
  BY <1>3, Rivals
<1>5. ~Goes(s, l)
  BY DEF Goes
<1>6. srv[s].at \in Clearing \union Serving \union {"forked"}
  <2>1. srv[s].at \in SrvPlaces /\ srv[s].at \notin {"idle", "half", "ready"}
    BY <1>1, Members DEF Servers, Paired
  <2> QED BY <2>1 DEF SrvPlaces, Clearing, Serving
<1>7. /\ Own' /\ Alone'
      /\ \A t \in Sessions : t # s => Entered(t)'
      /\ \A k \in Places : Open(k)' /\ Paid(k)'
  <2>1. n.type = "user" =>
          /\ n.pid = s
          /\ hist'[s].late \/ (log'[s].at \in Settled \union {"gone"} /\ srv'[s].at \in Serving)
    BY <1>2, <1>6
  <2>2. srv'[s].line = l /\ srv[s].line \in {0, l} /\ l \in Places /\ n.line = l
    OBVIOUS
  <2>3. (hist[s].late => hist'[s].late) /\ (Goes(s, l) => n.type = "dead")
    BY <1>2, <1>5
  <2>4. n.pid = s \/ \E x \in Range(host.utmp) : Live(x) /\ x.line = l /\ n.pid = x.pid
    OBVIOUS
  <2> HIDE DEF l
  <2> QED BY <1>4, <2>1, <2>2, <2>3, <2>4, PutsKeeps
<1>8. Entered(s)'
  <2>1. n \in Range(host'.utmp)
    BY DEF Puts
  <2>2. Listed(s)'
    BY <2>1 DEF Listed
  <2>3. Delisted(s)' /\ Returned(s)'
    BY <1>2 DEF Delisted, Returned, Clearing, Returning
  <2> QED BY <2>2, <2>3 DEF Entered
<1> QED BY <1>7, <1>8 DEF Balanced

(* The row of a login.                                                      *)
LEMMA RecordLoginBooks ==
  ASSUME Safe, Booked, NEW s \in Sessions, Others(s), RecordLogin(s)
  PROVE  Balanced' /\ Tidy(s)'
<1>1. TypeOK /\ Paired(s) /\ Seat(s) /\ Shut(s) /\ HostOK /\ Own
  BY DEF Safe, Secured, Booked, Balanced, Tidy
<1>2. UNCHANGED <<srv, child, cache, getTickets, kind>> /\ log[s].at = "record" /\ Late(s)
  BY DEF RecordLogin, At, Fixed
<1>3. srv[s].line \in Lines /\ srv[s].line \in Places /\ srv[s].line # Console /\ kind[s].server # "getty"
  BY <1>1, <1>2, ZeroApart DEF Seat
<1>4. PICK n \in Entries : HostOK' /\ Puts(n) /\ n.type = "login" /\ n.line = srv[s].line /\ n.pid = s
  <2>1. PICK user \in Titles : host' = Update(s, "login", user)
    BY Zenon DEF RecordLogin, Titles
  <2> QED BY <1>1, <1>3, <2>1, Updates
<1>5. /\ log'[s].at = IF kind[s].server = "telnetd" THEN "slave" ELSE "exec"
      /\ log'[s].forwarded => log[s].forwarded
  BY <1>1, LogGoes DEF RecordLogin
<1>6. Balanced'
  <2>1. /\ log[s].at \notin {"none", "gone", "ready", "wait", "destroy"} \union Settled
        /\ log'[s].at \notin Settled /\ log'[s].at # "gone"
    BY <1>2, <1>5 DEF Settled, Watching
  <2> QED BY <1>2, <1>3, <1>4, <2>1, WritesBooks
<1>7. /\ hist'[s].kept = hist[s].kept /\ hist'[s].abandoned = hist[s].abandoned
  BY <1>1, <1>2, LateGoes
<1>8. Tidy(s)'
  BY <1>1, <1>2, <1>3, <1>5, <1>7 DEF Tidy, Seat, Shut, Minded
<1> QED BY <1>6, <1>8

(* The row of the user, under the process of the row of the login.          *)
LEMMA RecordUserBooks ==
  ASSUME Safe, Booked, NEW s \in Sessions, Others(s), RecordUser(s), UNCHANGED kind
  PROVE  Balanced' /\ Tidy(s)'
<1>1. /\ TypeOK /\ Paired(s) /\ Seat(s) /\ Shut(s) /\ HostOK /\ Own /\ Listed(s) /\ Holds(s)
      /\ log[s] \in Logs
  BY Members DEF Safe, Secured, Booked, Balanced, Tidy, Entered
<1>2. UNCHANGED <<srv, child, cache, getTickets, kind>> /\ log[s].at = "accepted" /\ Late(s)
  BY DEF RecordUser, At
<1>3. srv[s].line \in Places /\ srv[s].at \notin Begun
  BY <1>2, Seated
<1>4. log[s].user \in Accounts /\ log[s].user \in Titles
  BY <1>1, <1>2 DEF Holds, Admitted, Logs, Titles
<1>5. PICK e \in Range(host.utmp) : /\ e.line = srv[s].line /\ e.pid = s
                                    /\ srv[s].at \notin Clearing => e.type = "login"
  BY <1>1, <1>2 DEF Listed, Listing, Settled, Watching
<1>6. srv[s].line = Console => Live(e)
  BY <1>1, <1>2, <1>3, <1>5 DEF Seat, Live, Clearing, Begun
<1>7. PICK n \in Entries : /\ HostOK' /\ Puts(n) /\ n.type = "user" /\ n.line = srv[s].line
                           /\ n.user = log[s].user
                           /\ \/ n.pid = s
                              \/ \E x \in Range(host.utmp) : x.line = srv[s].line /\ n.pid = x.pid
  <2>1. host' = Update(s, "user", log[s].user)
    BY DEF RecordUser
  <2> QED BY <1>1, <1>3, <1>4, <1>5, <1>6, <2>1, Updates
<1>8. n.pid = s
  BY <1>1, <1>5, <1>7, RowsOf DEF HostOK
<1>9. /\ log'[s].at = "own" /\ log'[s].user = log[s].user
      /\ log'[s].forwarded => log[s].forwarded
  BY <1>1, LogGoes DEF RecordUser
<1>10. Balanced'
  <2>1. /\ log[s].at \notin {"none", "gone", "ready", "wait", "destroy"} \union Settled
        /\ log'[s].at \in Settled /\ log'[s].at # "gone"
    BY <1>2, <1>9 DEF Settled, Watching
  <2>2. srv[s].at # "forked"
    BY <1>1, <1>2 DEF Seat
  <2> QED BY <1>2, <1>3, <1>7, <1>8, <1>9, <2>1, <2>2, WritesBooks
<1>11. /\ hist'[s].kept = hist[s].kept /\ hist'[s].abandoned = hist[s].abandoned
  BY <1>1, <1>2, LateGoes
<1>12. Tidy(s)'
  BY <1>1, <1>2, <1>3, <1>9, <1>11 DEF Tidy, Seat, Shut, Minded
<1> QED BY <1>10, <1>12

(* No row of a session is live that has only dead rows at its terminal.     *)
LEMMA Buried ==
  ASSUME Booked, NEW s \in Sessions, NEW n \in Entries, Puts(n), n.type = "dead",
         n.line = srv[s].line
  PROVE  \A e \in Range(host'.utmp) : Live(e) => e.pid # s
<1>1. \A e \in Range(host.utmp) : e.line # srv[s].line => e.pid # s
  BY DEF Booked, Balanced, Own
<1> QED BY <1>1 DEF Puts, Live

(* The server writes the logout over the row of the session.                *)
LEMMA RecordDeadBooks ==
  ASSUME Safe, Booked, NEW s \in Sessions, Others(s), RecordDead(s)
  PROVE  Balanced' /\ Tidy(s)'
<1>1. TypeOK /\ Paired(s) /\ Seat(s) /\ Shut(s) /\ HostOK /\ Own /\ Listed(s)
  BY Members DEF Safe, Secured, Booked, Balanced, Tidy, Entered
<1>2. UNCHANGED <<log, child, cache, hist, getTickets, kind>> /\ srv[s].at = "utmp"
  BY DEF RecordDead, SrvAt, Fixed
<1>3. srv'[s].at = "tty" /\ srv'[s].line = srv[s].line
  BY <1>1, SrvGoes DEF RecordDead
<1>4. srv[s].line \in Lines /\ srv[s].line \in Places /\ srv[s].line # Console /\ kind[s].server # "getty"
  BY <1>1, <1>2, ZeroApart DEF Seat
<1>5. PICK n \in Entries : /\ HostOK' /\ Puts(n) /\ n.type = "dead" /\ n.line = srv[s].line
                           /\ \/ n.pid = s
                              \/ \E x \in Range(host.utmp) : Live(x) /\ x.line = srv[s].line /\ n.pid = x.pid
  <2>1. PICK user \in Titles : host' = Update(s, "dead", user)
    BY Zenon DEF RecordDead, Titles
  <2> QED BY <1>1, <1>4, <2>1, Updates
<1>6. Active(s)
  BY <1>2 DEF Active
<1>7. /\ Own' /\ Alone'
      /\ \A t \in Sessions : t # s => Entered(t)'
      /\ \A k \in Places : Open(k)' /\ Paid(k)'
  <2> DEFINE l == srv[s].line
  <2>1. \A t \in Sessions : t # s /\ srv[t].line = l => ~Active(t)
    BY <1>4, <1>6, Rivals
  <2>2. /\ srv'[s].line = l /\ srv[s].line \in {0, l} /\ l \in Places /\ n.line = l
        /\ n.pid = s \/ \E x \in Range(host.utmp) : Live(x) /\ x.line = l /\ n.pid = x.pid
    BY <1>3, <1>4, <1>5
  <2>3. /\ HostOK' /\ Puts(n) /\ UNCHANGED kind /\ hist'[s] = hist[s]
        /\ n.type = "dead" /\ n.type # "user"
    BY <1>2, <1>5
  <2> HIDE DEF l
  <2> QED BY <2>1, <2>2, <2>3, PutsKeeps
<1>8. Entered(s)'
  <2>1. Listed(s)'
    <3>1. SUFFICES ASSUME log[s].at \in Listing(s)
                   PROVE  n.pid = s
      <4>1. n \in Range(host'.utmp) /\ Listing(s)' = Listing(s)
        BY <1>2, <1>5 DEF Puts, Listing
      <4> QED BY <1>2, <1>3, <1>5, <4>1 DEF Listed, Clearing
    <3>2. PICK e \in Range(host.utmp) : e.line = srv[s].line /\ e.pid = s
      BY <1>1, <3>1 DEF Listed
    <3> QED BY <1>1, <1>5, <3>2, RowsOf DEF HostOK
  <2>2. Delisted(s)'
    BY <1>5, Buried DEF Delisted
  <2>3. Returned(s)'
    BY <1>3 DEF Returned, Returning
  <2> QED BY <2>1, <2>2, <2>3 DEF Entered
<1>9. Balanced'
  BY <1>5, <1>7, <1>8 DEF Balanced
<1>10. Tidy(s)'
  BY <1>1, <1>2, <1>3, <1>4 DEF Tidy, Seat, Shut, Minded
<1> QED BY <1>9, <1>10
----------------------------------------------------------------------------
(* init writes the row of the console.                                      *)
LEMMA GettyStartsBooks ==
  ASSUME Safe, Booked, NEW s \in Sessions, Others(s), GettyStarts(s)
  PROVE  Balanced' /\ Tidy(s)'
<1>1. TypeOK /\ Paired(s) /\ Seat(s) /\ Shut(s) /\ HostOK /\ log[s] \in Logs /\ srv[s] \in Servers
  BY Members DEF Safe, Secured, Booked, Balanced, Tidy
<1>2. /\ UNCHANGED <<child, cache, hist, getTickets, kind>> /\ srv[s].at = "idle"
      /\ kind[s].server = "getty" /\ Free(Console)
  BY DEF GettyStarts, SrvAt, Fixed
<1>3. srv'[s].at = "serve" /\ srv'[s].line = Console
  <2>1. srv'[s] = [srv[s] EXCEPT !.at = "serve", !.line = Console]
    BY <1>1 DEF GettyStarts, TypeOK
  <2> QED BY <1>1, <2>1 DEF Servers
<1>4. log'[s].at = "init" /\ log'[s].forwarded = log[s].forwarded
  <2>1. PICK ask \in kind[s].asks : log' = [log EXCEPT ![s].at = "init", ![s].given = ask.name,
                                                       ![s].pre = ask.pre]
    BY Zenon DEF GettyStarts
  <2>2. log'[s] = [log[s] EXCEPT !.at = "init", !.given = ask.name, !.pre = ask.pre]
    BY <1>1, <2>1 DEF TypeOK
  <2> QED BY <1>1, <2>2 DEF Logs
<1>5. Console \in Places /\ srv[s].line = 0 /\ log[s].at = "none"
  BY <1>1, <1>2, ZeroApart DEF Seat, Paired
<1>6. PICK n \in Entries : HostOK' /\ Puts(n) /\ n.type = "login" /\ n.line = Console /\ n.pid = s
  <2>1. PICK user \in Titles :
          host' = [host EXCEPT !.utmp = PutLine(@, Entry("login", s, <<"getty", Console>>, Console, user))]
    BY Zenon DEF GettyStarts, Titles
  <2> DEFINE n == Entry("login", s, Ident(Console), Console, user)
             w == host.wtmp[Console]
             new == PutLine(host.utmp, n)
  <2>2. /\ n \in Entries /\ n.id = Ident(Console) /\ n.type = "login" /\ n.line = Console /\ n.pid = s
    BY <1>5, IsEntry
  <2>3. host' = [host EXCEPT !.utmp = new]
    BY <2>1 DEF Ident
  <2> HIDE DEF n, new
  <2>4. host' = [host EXCEPT !.utmp = new, !.wtmp[Console] = w]
    BY <1>1, <1>5, <2>3 DEF HostOK
  <2>5. host' = [host EXCEPT !.utmp = PutLine(host.utmp, n), !.wtmp[n.line] = w]
    BY <2>2, <2>4 DEF new
  <2>6. HostOK' /\ Puts(n)
    BY <1>1, <2>2, <2>5, PutsRow
  <2> QED BY <2>2, <2>6
<1>7. /\ Own' /\ Alone'
      /\ \A t \in Sessions : t # s => Entered(t)'
      /\ \A k \in Places : Open(k)' /\ Paid(k)'
  <2>1. ~Goes(s, Console)
    BY <1>5 DEF Goes, Settled, Watching
  <2>2. \A t \in Sessions : t # s /\ srv[t].line = Console => ~Active(t)
    BY <1>2 DEF Free
  <2> QED BY <1>2, <1>3, <1>5, <1>6, <2>1, <2>2, PutsKeeps
<1>8. Entered(s)'
  <2>1. Listed(s)'
    <3>1. n \in Range(host'.utmp)
      BY <1>6 DEF Puts
    <3> QED BY <1>3, <1>4, <1>6, <3>1 DEF Listed, Settled, Watching
  <2>2. Delisted(s)' /\ Returned(s)'
    BY <1>3 DEF Delisted, Returned, Clearing, Returning
  <2> QED BY <2>1, <2>2 DEF Entered
<1>9. Balanced'
  BY <1>6, <1>7, <1>8 DEF Balanced
<1>10. Tidy(s)'
  BY <1>1, <1>2, <1>3, <1>4, <1>5 DEF Tidy, Seat, Shut, Minded
<1> QED BY <1>9, <1>10

(* And its logout.                                                          *)
LEMMA GettyEndsBooks ==
  ASSUME Safe, Booked, NEW s \in Sessions, Others(s), GettyEnds(s)
  PROVE  Balanced' /\ Tidy(s)'
<1>1. TypeOK /\ Paired(s) /\ Seat(s) /\ Shut(s) /\ HostOK
  BY Members DEF Safe, Secured, Booked, Balanced, Tidy
<1>2. /\ UNCHANGED <<log, child, cache, hist, getTickets, kind>>
      /\ srv[s].at = "serve" /\ log[s].at = "gone" /\ kind[s].server = "getty"
  BY DEF GettyEnds, SrvAt, At, Fixed
<1>3. srv'[s].at = "gone" /\ srv'[s].line = srv[s].line
  BY <1>1, SrvGoes DEF GettyEnds
<1>4. srv[s].line = Console /\ Console \in Places
  BY <1>1, <1>2, ZeroApart DEF Seat
<1>5. PICK n \in Entries : HostOK' /\ Puts(n) /\ n.type = "dead" /\ n.line = Console /\ n.pid = s
  <2>1. PICK user \in Titles :
          host' = [host EXCEPT !.utmp = PutLine(@, Entry("dead", s, <<"getty", Console>>, Console, user)),
                               !.wtmp[Console] = Append(@, [type |-> "dead", pid |-> s])]
    BY Zenon DEF GettyEnds, Titles
  <2> DEFINE n == Entry("dead", s, Ident(Console), Console, user)
             w == Append(host.wtmp[Console], [type |-> "dead", pid |-> s])
  <2>2. /\ n \in Entries /\ n.id = Ident(Console) /\ n.type = "dead" /\ n.line = Console /\ n.pid = s
    BY <1>4, IsEntry
  <2>3. host' = [host EXCEPT !.utmp = PutLine(host.utmp, n), !.wtmp[Console] = w]
    BY <2>1 DEF Ident
  <2> HIDE DEF n
  <2>4. host' = [host EXCEPT !.utmp = PutLine(host.utmp, n), !.wtmp[n.line] = w]
    BY <2>2, <2>3
  <2>5. w = IF n.type = "login" THEN host.wtmp[n.line]
            ELSE Append(host.wtmp[n.line], [type |-> n.type, pid |-> n.pid])
    BY <2>2
  <2> HIDE DEF w
  <2>6. HostOK' /\ Puts(n)
    BY <1>1, <2>2, <2>4, <2>5, PutsRow
  <2> QED BY <2>2, <2>6
<1>6. Active(s)
  BY <1>2 DEF Active
<1>7. /\ Own' /\ Alone'
      /\ \A t \in Sessions : t # s => Entered(t)'
      /\ \A k \in Places : Open(k)' /\ Paid(k)'
  <2>1. \A t \in Sessions : t # s /\ srv[t].line = Console => ~Active(t)
    BY <1>4, <1>6, Rivals
  <2> QED BY <1>2, <1>3, <1>4, <1>5, <2>1, PutsKeeps
<1>8. Entered(s)'
  <2>1. Listed(s)'
    BY <1>2 DEF Listed, Listing, Settled, Watching
  <2>2. Delisted(s)'
    BY <1>4, <1>5, Buried DEF Delisted
  <2>3. Returned(s)'
    BY <1>2 DEF Returned
  <2> QED BY <2>1, <2>2, <2>3 DEF Entered
<1>9. Balanced'
  BY <1>5, <1>7, <1>8 DEF Balanced
<1>10. Tidy(s)'
  BY <1>1, <1>2, <1>3, <1>4 DEF Tidy, Seat, Shut, Minded
<1> QED BY <1>9, <1>10
----------------------------------------------------------------------------
(* A step of one session is not one of another's tidiness.                  *)
LEMMA TidyApart ==
  ASSUME NEW s \in Sessions, NEW t \in Sessions, t # s, Tidy(t), Others(s),
         UNCHANGED <<kind, getTickets>>
  PROVE  Tidy(t)'
BY DEF Tidy, Seat, Shut, Minded, Others

(* Every step of a session keeps the books.                                 *)
LEMMA StepBooks ==
  ASSUME Safe, Booked, NEW s \in Sessions, Others(s),
         \/ Server(s) \/ RecordLogin(s) \/ OpenSlave(s) \/ Exec(s) \/ GoesAway(s) \/ NetDown(s)
         \/ (Attempt(s) \/ LoginSteps(s) \/ ChildSteps(s) \/ Busy(s) \/ ShellDone(s)) /\ UNCHANGED kind
  PROVE  Balanced' /\ Tidy(s)'
<1>1. CASE Server(s)
  BY <1>1, GetPtyBooks, AuthenticateBooks, ServerBooks, ForkBooks, ForwardedBooks, ExitBooks,
     RecordDeadBooks, GettyStartsBooks, GettyEndsBooks DEF Server
<1>2. CASE RecordLogin(s) \/ OpenSlave(s) \/ Exec(s) \/ GoesAway(s) \/ NetDown(s)
  <2>1. Exec(s) => UNCHANGED kind
    BY DEF Exec, Fixed
  <2> QED BY <1>2, <2>1, RecordLoginBooks, OpenSlaveBooks, PlaceBooks, ServerBooks
<1>3. CASE (Attempt(s) \/ LoginSteps(s)) /\ UNCHANGED kind
  BY <1>3, AttemptBooks, RecordUserBooks, TakeTtyBooks, WatchBooks, PlaceBooks DEF LoginSteps
<1>4. CASE (ChildSteps(s) \/ Busy(s) \/ ShellDone(s)) /\ UNCHANGED kind
  BY <1>4, ChildBooks, StoreBooks DEF ChildSteps, ShellReadsEnd
<1> QED BY <1>1, <1>2, <1>3, <1>4

(* Initially the table is empty and no session has a terminal.              *)
LEMMA BookedInit == Init => Booked
<1> SUFFICES ASSUME Init PROVE Booked
  OBVIOUS
<1>1. /\ host.utmp = <<>> /\ host.wtmp = [l \in Places |-> <<>>] /\ host.owner = [l \in Places |-> "root"]
      /\ host = [utmp |-> host.utmp, wtmp |-> host.wtmp, owner |-> host.owner]
  BY DEF Init, Places
<1>2. <<>> \in Seq(Entries) /\ <<>> \in Seq(Records) /\ "root" \in Accounts
  BY NamesApart
<1>3. HostOK
  <2>1. host.wtmp \in [Places -> Seq(Records)]
    BY <1>1, <1>2
  <2>2. host.owner \in [Places -> Accounts]
    BY <1>1, <1>2
  <2>3. Table(host.utmp)
    BY <1>1, <1>2 DEF Table
  <2> QED BY <1>1, <1>2, <2>1, <2>2, <2>3 DEF HostOK
<1>4. \A e : e \notin Range(host.utmp)
  BY <1>1 DEF Range
<1>5. Own
  BY <1>4 DEF Own
<1>6. \A s \in Sessions :
        /\ srv[s].at = "idle" /\ srv[s].line = 0 /\ log[s].at = "none" /\ ~log[s].forwarded
        /\ child[s].at = "none" /\ child[s].saved = "none" /\ cache[s] = NoCache
  BY DEF Init, NewLog, NewChild
<1>7. Alone
  BY <1>6 DEF Alone
<1>8. ASSUME NEW s \in Sessions
      PROVE  Entered(s) /\ Tidy(s)
  <2>1. Entered(s)
    BY <1>6 DEF Entered, Listed, Delisted, Returned, Listing, Settled, Watching, Clearing, Returning
  <2>2. Tidy(s)
    BY <1>6, ZeroApart DEF Tidy, Seat, Shut
  <2> QED BY <2>1, <2>2
<1>9. ASSUME NEW l \in Places
      PROVE  Open(l) /\ Paid(l)
  <2>1. Len(host.wtmp[l]) = 0
    BY <1>1
  <2>2. ~(Len(host.wtmp[l]) > 0) /\ 1..(Len(host.wtmp[l]) - 1) = {}
    BY <2>1
  <2> QED BY <2>2 DEF Open, Paid
<1> QED BY <1>3, <1>5, <1>7, <1>8, <1>9 DEF Booked, Balanced

(* Nobody's step changes that the books are kept.                           *)
LEMMA BookedNext == Safe /\ Booked /\ [Next]_vars => Booked'
<1> SUFFICES ASSUME Safe, Booked, [Next]_vars PROVE Booked'
  OBVIOUS
<1>1. UNCHANGED <<kind, getTickets>>
  BY NextFixed
<1>2. CASE Next
  <2>1. PICK s \in Sessions :
          \/ Server(s) \/ RecordLogin(s) \/ OpenSlave(s) \/ Exec(s) \/ GoesAway(s) \/ NetDown(s)
          \/ (Attempt(s) \/ LoginSteps(s) \/ ChildSteps(s) \/ Busy(s) \/ ShellDone(s)) /\ UNCHANGED kind
    BY <1>2 DEF Next
  <2>2. Others(s)
    BY <2>1, StepSecures
  <2>3. Balanced' /\ Tidy(s)'
    BY <2>1, <2>2, StepBooks
  <2>4. ASSUME NEW t \in Sessions, t # s
        PROVE  Tidy(t)'
    BY <1>1, <2>2, <2>4, TidyApart DEF Booked
  <2> QED BY <2>3, <2>4 DEF Booked
<1>3. CASE UNCHANGED vars
  <2>1. UNCHANGED <<getTickets, host, srv, log, child, cache, hist, kind>>
    BY <1>3 DEF vars
  <2>2. HostOK' /\ Own' /\ Alone'
    BY <2>1 DEF Booked, Balanced, HostOK, Own, Alone, Active
  <2>3. ASSUME NEW s \in Sessions
        PROVE  Entered(s)' /\ Tidy(s)'
    <3>1. Entered(s) /\ Tidy(s)
      BY DEF Booked, Balanced
    <3>2. Entered(s)'
      BY <2>1, <3>1 DEF Entered, Listed, Delisted, Returned, Listing
    <3>3. Tidy(s)'
      BY <2>1, <3>1 DEF Tidy, Seat, Shut, Minded
    <3> QED BY <3>2, <3>3
  <2>4. ASSUME NEW l \in Places
        PROVE  Open(l)' /\ Paid(l)'
    <3>1. Open(l) /\ Paid(l)
      BY DEF Booked, Balanced
    <3> QED BY <2>1, <3>1 DEF Open, Goes, Paid
  <2> QED BY <2>2, <2>3, <2>4 DEF Booked, Balanced
<1> QED BY <1>2, <1>3

(* Safe books are what the properties say of them.                          *)
LEMMA BookedRecorded == Safe /\ Booked => Recorded
<1> SUFFICES ASSUME Safe, Booked, NEW s \in Sessions, child[s].at = "shell", srv[s].at = "serve"
             PROVE  \E e \in EntriesOf(srv[s].line) :
                      /\ EntriesOf(srv[s].line) = {e}
                      /\ e.type = "user" /\ e.pid = s /\ e.user = log[s].user
  BY DEF Recorded
<1>1. Paired(s) /\ Listed(s) /\ HostOK
  BY DEF Safe, Secured, Booked, Balanced, Entered
<1>2. log[s].at \in Settled
  BY <1>1 DEF Paired, Running, Settled, Watching
<1>3. PICK e \in Range(host.utmp) :
        e.line = srv[s].line /\ e.pid = s /\ e.type = "user" /\ e.user = log[s].user
  BY <1>1, <1>2 DEF Listed, Listing, Clearing
<1>4. \A x \in Range(host.utmp) : x.line = srv[s].line => x = e
  BY <1>1, <1>3, RowsOf DEF HostOK
<1>5. EntriesOf(srv[s].line) = {e}
  BY <1>3, <1>4 DEF EntriesOf, Live
<1> QED BY <1>3, <1>5

(* And of a session that is over.                                           *)
LEMMA BookedCleared == Safe /\ Booked => Cleared
<1> SUFFICES ASSUME Safe, Booked PROVE Cleared
  OBVIOUS
<1>1. ASSUME NEW s \in Sessions, Over(s), ~hist[s].abandoned
      PROVE  /\ cache[s] = NoCache \/ hist[s].kept
             /\ hist[s].late \/ \A e \in Range(host.utmp) : Live(e) => e.pid # s
             /\ \/ hist[s].late \/ kind[s].server = "getty"
                \/ \E t \in Sessions \ {s} : srv[t].line = srv[s].line
                \/ host.owner[srv[s].line] = "root"
  <2>1. Shut(s) /\ Delisted(s) /\ Returned(s)
    BY DEF Booked, Balanced, Tidy, Entered
  <2>2. srv[s].at = "gone" /\ log[s].at \in {"none", "gone"}
    BY <1>1 DEF Over, Alive
  <2>3. cache[s] = NoCache \/ hist[s].kept
    BY <1>1, <2>1, <2>2 DEF Shut, Minded
  <2>4. hist[s].late \/ \A e \in Range(host.utmp) : Live(e) => e.pid # s
    BY <1>1, <2>1, <2>2 DEF Delisted, Clearing
  <2>5. \/ hist[s].late \/ kind[s].server = "getty"
        \/ \E t \in Sessions \ {s} : srv[t].line = srv[s].line
        \/ host.owner[srv[s].line] = "root"
    BY <1>1, <2>1, <2>2 DEF Returned, Returning
  <2> QED BY <2>3, <2>4, <2>5
<1>2. ASSUME NEW l \in DOMAIN host.wtmp
      PROVE  \A i \in 1..(Len(host.wtmp[l]) - 1) :
               LET a == host.wtmp[l][i] b == host.wtmp[l][i + 1] IN
               a.type = "user" => hist[a.pid].late \/ (b.type = "dead" /\ b.pid = a.pid)
  <2>1. l \in Places
    BY DEF Booked, Balanced, HostOK
  <2> QED BY <2>1 DEF Booked, Balanced, Paid
<1> QED BY <1>1, <1>2 DEF Cleared

(* The table of who is logged in never has two rows for a terminal, and     *)
(* init's row of the console is the one that login finds.                   *)
THEOREM TableHolds == Spec => []HostOK
<1>1. Init => Safe /\ Booked
  BY SafeInit, BookedInit
<1>2. Safe /\ Booked /\ [Next]_vars => (Safe /\ Booked)'
  BY SafeNext, BookedNext
<1>3. Safe /\ Booked => HostOK
  BY DEF Booked, Balanced
<1> QED BY <1>1, <1>2, <1>3, PTL DEF Spec

(* While a user works in a session its terminal has one live entry, that of *)
(* this session and user, whatever numbers of sessions and terminals there  *)
(* are, in whatever order their servers, logins and init write the table.   *)
THEOREM RecordedHolds == Spec => []Recorded
<1>1. Init => Safe /\ Booked
  BY SafeInit, BookedInit
<1>2. Safe /\ Booked /\ [Next]_vars => (Safe /\ Booked)'
  BY SafeNext, BookedNext
<1>3. Safe /\ Booked => Recorded
  BY BookedRecorded
<1> QED BY <1>1, <1>2, <1>3, PTL DEF Spec

(* A session that is over has left no live entry, no terminal of its user   *)
(* and no tickets, and each login in wtmp is followed by its own logout,    *)
(* but for what Cleared excuses.                                            *)
THEOREM ClearedHolds == Spec => []Cleared
<1>1. Init => Safe /\ Booked
  BY SafeInit, BookedInit
<1>2. Safe /\ Booked /\ [Next]_vars => (Safe /\ Booked)'
  BY SafeNext, BookedNext
<1>3. Safe /\ Booked => Cleared
  BY BookedCleared
<1> QED BY <1>1, <1>2, <1>3, PTL DEF Spec
=============================================================================
