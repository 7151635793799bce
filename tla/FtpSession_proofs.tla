------------------------- MODULE FtpSession_proofs -------------------------
(* For every set of users, every setting of the two programs and every      *)
(* command a person may give: whoever is logged in has shown it             *)
(* (IdentityHolds), command and reply stay in step (InStepHolds), and the   *)
(* two programs agree on authentication and on the level for data           *)
(* (LevelsAgreeHolds).                                                      *)
(*                                                                          *)
(* The inductive invariant Inv is the type, what the server's session says  *)
(* of the last claim that was made (Proven), and, while the connection      *)
(* lives and no command was answered twice, what may be on its way and what *)
(* its receiver will learn from it (Paired).  One lemma per handler of ftpd *)
(* (ReplyOK to GetlineOK) says what it does to the session, one per step of *)
(* the client (AskOK to ContinueOK) what it sends and comes to believe;     *)
(* one per action puts them together.                                       *)
EXTENDS FtpSession, TLAPS

(* What stands in a line: any string, and the ones the client sends itself, *)
(* which the provers must be told of one by one.                            *)
Words ==
  STRING \cup {"", "GSSAPI", "dummy", "right", "wrong", "none", "ftp"} \cup Levels
Verbs ==
  STRING \cup {"USER", "PASS", "ACCT", "AUTH", "ADAT", "PBSZ", "PROT", "CCC", "PWD", "SYST",
               "RNFR", "RNTO", "QUIT"}
Replies == [code : Nat, prot : {"clear", "ENC", "MIC"}]
Sessions ==
  [up : BOOLEAN, auth_type : BOOLEAN, temp_auth_type : BOOLEAN, rounds : Nat,
   clevel : Levels, dlevel : Levels, maxbuf : BOOLEAN, ccc_ok : BOOLEAN,
   logged_in : BOOLEAN, guest : BOOLEAN,
   authorized : BOOLEAN, have_creds : BOOLEAN, askpasswd : BOOLEAN,
   pw : Words, login_attempts : Nat, fromname : BOOLEAN, said : Seq(Replies)]
Lines ==
  {l \in [cmd : Verbs, arg : Words, prot : Levels] : l.cmd = "PROT" => l.arg \in Levels}
Targets(n) == IF n \in {"ftp", "anonymous"} THEN "ftp" ELSE n

(* What a session says of who is logged in, when the last user the server   *)
(* let a peer claim to be is name, and shown says that it was shown.        *)
Secure(s, name, shown) ==
  /\ s.pw # NoName => s.pw = Targets(name)
  /\ s.guest => s.pw = "ftp"
  /\ s.logged_in => s.pw # NoName /\ (s.guest \/ shown)

(* All the replies given so far are protected.                              *)
Sealed(s) == \A i \in 1 .. Len(s.said) : s.said[i].prot # "clear"

(* t follows s and has answered at least once, sealed if the peer had been  *)
(* authenticated.                                                           *)
Answers(s, t) ==
  /\ t \in Sessions
  /\ Len(t.said) > Len(s.said)
  /\ s.auth_type => t.auth_type
  /\ s.auth_type /\ Sealed(s) => Sealed(t)
(* t follows s and has not answered yet.                                    *)
Prepares(s, t) ==
  t \in Sessions /\ t.said = s.said /\ t.auth_type = s.auth_type
(* Who is logged in, and how data is protected, has not changed.            *)
SameUser(s, t) ==
  /\ t.pw = s.pw /\ t.guest = s.guest /\ t.logged_in = s.logged_in
  /\ t.fromname = s.fromname /\ t.dlevel = s.dlevel
(* The code of the last reply.                                              *)
Last(t) == t.said[Len(t.said)].code

(* reply() (ftpd.c) answers once, protected if the peer is authenticated.   *)
LEMMA ReplyOK ==
  ASSUME NEW s \in Sessions, NEW code \in Nat
  PROVE  /\ Answers(s, Reply(s, code)) /\ SameUser(s, Reply(s, code))
         /\ Reply(s, code).up = s.up /\ Reply(s, code).auth_type = s.auth_type
         /\ Last(Reply(s, code)) = code
<1> DEFINE r == [code |-> code, prot |-> Protection(s)]
           t == Reply(s, code)
<1>1. s.auth_type \in BOOLEAN /\ s.said \in Seq(Replies)
  BY DEF Sessions
<1>2. Protection(s) \in {"clear", "ENC", "MIC"} /\ (s.auth_type => Protection(s) # "clear")
  BY <1>1 DEF Protection
<1>3. r \in Replies /\ r.code = code /\ r.prot = Protection(s)
  BY <1>2 DEF Replies
<1>4. t = [s EXCEPT !.said = Append(s.said, r)]
  BY DEF Reply
<1> HIDE DEF r, t
<1>5. Append(s.said, r) \in Seq(Replies)
  BY <1>1, <1>3
<1>6. /\ t \in Sessions /\ t.said = Append(s.said, r) /\ t.auth_type = s.auth_type
      /\ SameUser(s, t) /\ t.up = s.up
  BY <1>5, <1>4 DEF Sessions, SameUser
<1>7. /\ Len(t.said) = Len(s.said) + 1 /\ Len(s.said) \in Nat
      /\ t.said[Len(t.said)] = r
      /\ \A i \in 1 .. Len(s.said) : t.said[i] = s.said[i]
  BY <1>1, <1>3, <1>6
<1>8. Answers(s, t) /\ Last(t) = code
  BY <1>2, <1>3, <1>6, <1>7 DEF Answers, Sealed, Last
<1> QED  BY <1>6, <1>8 DEF t

(* A reply after assignments that have not answered.                        *)
LEMMA ReplyAfter ==
  ASSUME NEW s \in Sessions, NEW u, Prepares(s, u), NEW code \in Nat
  PROVE  /\ Answers(s, Reply(u, code)) /\ SameUser(u, Reply(u, code))
         /\ Reply(u, code).up = u.up /\ Reply(u, code).auth_type = u.auth_type
         /\ Last(Reply(u, code)) = code
<1>1. u \in Sessions /\ u.said = s.said /\ u.auth_type = s.auth_type
  BY DEF Prepares
<1>2. Sealed(s) => Sealed(u)
  BY <1>1 DEF Sealed
<1> QED  BY <1>1, <1>2, ReplyOK DEF Answers

(* Answering after such assignments, and answering a second time.           *)
LEMMA AnswersAfter ==
  ASSUME NEW s \in Sessions, NEW u, Prepares(s, u), NEW t, Answers(u, t)
  PROVE  Answers(s, t)
BY DEF Prepares, Answers, Sealed

(* What a handler says twice it has said at least once.                     *)
LEMMA AnswersTwice ==
  ASSUME NEW s \in Sessions, NEW u, Answers(s, u), NEW t, Answers(u, t)
  PROVE  Answers(s, t)
<1>1. u \in Sessions /\ t \in Sessions
  BY DEF Answers
<1>2. Len(s.said) \in Nat /\ Len(u.said) \in Nat /\ Len(t.said) \in Nat
  BY <1>1 DEF Sessions
<1> QED  BY <1>1, <1>2 DEF Answers

(* A command that leaves the user and the level for data as they are.       *)
Quiet(s, t) == Answers(s, t) /\ SameUser(s, t)

(* A reply after assignments to what has to do with neither.                *)
LEMMA QuietReply ==
  ASSUME NEW s \in Sessions, NEW u, Prepares(s, u), SameUser(s, u), NEW code \in Nat
  PROVE  Quiet(s, Reply(u, code)) /\ Last(Reply(u, code)) = code
BY ReplyAfter DEF Quiet, SameUser

(* Doing nothing is such an assignment.                                     *)
LEMMA PreparesSelf ==
  ASSUME NEW s \in Sessions
  PROVE  Prepares(s, s) /\ SameUser(s, s)
BY DEF Prepares, SameUser

(* AUTH only notes that tokens may follow.                                  *)
LEMMA AuthOK ==
  ASSUME NEW s \in Sessions, NEW known \in BOOLEAN
  PROVE  Quiet(s, Auth(s, known))
<1> DEFINE u == [s EXCEPT !.temp_auth_type = TRUE]
<1>1. Prepares(s, u) /\ SameUser(s, u)
  BY DEF Prepares, SameUser, Sessions
<1> HIDE DEF u
<1>2. Auth(s, known) \in {Reply(s, 534), Reply(u, 334), Reply(s, 504)}
  BY DEF Auth, u
<1> QED  BY <1>1, <1>2, QuietReply, PreparesSelf

(* ADAT: a reply of 2xx is given to nobody who is not authenticated then    *)
(* (auth_data).                                                             *)
LEMMA AuthDataOK ==
  ASSUME NEW o, NEW s \in Sessions, NEW result \in TokenResults(s), NEW deleg \in BOOLEAN
  PROVE  LET t == AuthData(o, s, result, deleg) IN
         /\ Quiet(s, t)
         /\ Last(t) \div 100 = 2 => t.auth_type
<1> DEFINE t == AuthData(o, s, result, deleg)
           u == [s EXCEPT !.rounds = @ + 1]
           creds == Reply(s, 235).have_creds \/ (deleg /\ o.want_creds)
           v == [Reply(s, 235) EXCEPT !.auth_type = TRUE, !.temp_auth_type = FALSE, !.have_creds = creds]
<1>1. Prepares(s, u) /\ SameUser(s, u)
  BY DEF Prepares, SameUser, Sessions
<1>2. s.auth_type \in BOOLEAN /\ s.temp_auth_type \in BOOLEAN
  BY DEF Sessions
<1>3. result \in {"garbled", "error", "complete", "continue"}
  BY DEF TokenResults
<1>4. CASE s.auth_type \/ ~s.temp_auth_type \/ result # "complete"
  <2>1. t \in {Reply(s, 503), Reply(s, 501), Reply(s, 535), Reply(u, 335)}
    BY <1>2, <1>3, <1>4 DEF AuthData
  <2>2. 503 \div 100 = 5 /\ 501 \div 100 = 5 /\ 535 \div 100 = 5 /\ 335 \div 100 = 3
    OBVIOUS
  <2> HIDE DEF t, u
  <2>3. Quiet(s, t) /\ Last(t) \in {503, 501, 535, 335}
    BY <2>1, <1>1, QuietReply, PreparesSelf
  <2> QED  BY <2>2, <2>3 DEF t
<1>5. CASE ~s.auth_type /\ s.temp_auth_type /\ result = "complete"
  <2>1. t = v
    BY <1>5 DEF AuthData
  <2>2. Answers(s, Reply(s, 235)) /\ SameUser(s, Reply(s, 235))
    BY ReplyOK
  <2>3. creds \in BOOLEAN
    OBVIOUS
  <2> HIDE DEF creds
  <2> DEFINE w == Reply(s, 235)
  <2> HIDE DEF w
  <2>4. w \in Sessions
    BY <2>2 DEF Answers, w
  <2>5. v = [w EXCEPT !.auth_type = TRUE, !.temp_auth_type = FALSE, !.have_creds = creds]
    BY DEF w
  <2> HIDE DEF v
  <2>6. v \in Sessions /\ SameUser(w, v) /\ v.auth_type /\ v.said = w.said
    BY <2>3, <2>4, <2>5 DEF Sessions, SameUser
  <2> QED  BY <1>5, <2>1, <2>2, <2>6 DEF Quiet, Answers, SameUser, w
<1> QED  BY <1>4, <1>5

(* PROT sets the level if it is accepted, and only then.                    *)
LEMMA ProtOK ==
  ASSUME NEW s \in Sessions, NEW level \in Levels
  PROVE  LET t == Prot(s, level) IN
         /\ Answers(s, t)
         /\ t.pw = s.pw /\ t.guest = s.guest /\ t.logged_in = s.logged_in /\ t.fromname = s.fromname
         /\ t.dlevel = IF Last(t) \div 100 = 2 THEN level ELSE s.dlevel
<1> DEFINE t == Prot(s, level)
           u == [s EXCEPT !.dlevel = level]
<1>1. /\ Prepares(s, u) /\ u.dlevel = level
      /\ u.pw = s.pw /\ u.guest = s.guest /\ u.logged_in = s.logged_in /\ u.fromname = s.fromname
  BY DEF Prepares, Sessions
<1> HIDE DEF u
<1>2. t \in {Reply(s, 503), Reply(u, 200), Reply(s, 536)}
  BY DEF Prot, Setdlevel, u
<1>3. 503 \div 100 # 2 /\ 200 \div 100 = 2 /\ 536 \div 100 # 2
  OBVIOUS
<1> HIDE DEF t
<1>4. CASE t = Reply(u, 200)
  BY <1>1, <1>3, <1>4, ReplyAfter DEF SameUser, t
<1>5. CASE t \in {Reply(s, 503), Reply(s, 536)}
  BY <1>3, <1>5, ReplyOK DEF SameUser, t
<1> QED  BY <1>2, <1>4, <1>5

(* PBSZ and CCC change no level for data.                                   *)
LEMMA LevelCommandsOK ==
  ASSUME NEW o, NEW s \in Sessions
  PROVE  Quiet(s, Pbsz(s)) /\ Quiet(s, Ccc(o, s))
<1> DEFINE u == [s EXCEPT !.maxbuf = TRUE]
           v == [s EXCEPT !.ccc_ok = TRUE]
<1>1. Prepares(s, u) /\ SameUser(s, u) /\ Prepares(s, v) /\ SameUser(s, v)
  BY DEF Prepares, SameUser, Sessions
<1> HIDE DEF u, v
<1>2. Pbsz(s) \in {Reply(u, 200), Reply(s, 503)}
  BY DEF Pbsz, u
<1>3. Ccc(o, s) \in {Reply(s, 534), Reply(s, 533), Reply(v, 200)}
  BY DEF Ccc, v
<1> QED  BY <1>1, <1>2, <1>3, QuietReply, PreparesSelf

(* One of two replies is one reply.                                         *)
LEMMA PerrorReplyOK ==
  ASSUME NEW s \in Sessions, NEW u, Prepares(s, u), NEW ok \in BOOLEAN, NEW good \in Nat, NEW bad \in Nat
  PROVE  Answers(s, PerrorReply(u, ok, good, bad)) /\ SameUser(u, PerrorReply(u, ok, good, bad))
BY ReplyAfter DEF PerrorReply

(* The commands on files.  A guest who is not allowed one may be told so    *)
(* twice.                                                                   *)
LEMMA FileCommandsOK ==
  ASSUME NEW s \in Sessions, NEW ok \in BOOLEAN
  PROVE  Quiet(s, OnFile(s, ok)) /\ Quiet(s, OfOwner(s, ok)) /\ Quiet(s, Renamecmd(s, ok))
<1> DEFINE done == PerrorReply(s, ok, 250, 550)
<1>1. Quiet(s, done)
  BY PerrorReplyOK, PreparesSelf DEF Quiet
<1>2. Quiet(s, Reply(s, 530)) /\ Quiet(s, Reply(s, 503))
  BY QuietReply, PreparesSelf
<1> HIDE DEF done
<1>3. Quiet(s, CheckLogin(s, done))
  BY <1>1, <1>2 DEF CheckLogin
<1>4. Quiet(s, CheckLogin(s, s)) \/ CheckLogin(s, s) = s
  BY <1>2 DEF CheckLogin
<1>5. Quiet(s, Reply(CheckLogin(s, s), 550))
  <2> DEFINE u == CheckLogin(s, s)
  <2>1. CASE u = s
    BY <2>1, QuietReply, PreparesSelf
  <2>2. CASE Quiet(s, u)
    <3>1. u \in Sessions
      BY <2>2 DEF Quiet, Answers
    <3> HIDE DEF u
    <3>2. Answers(u, Reply(u, 550)) /\ SameUser(u, Reply(u, 550))
      BY <3>1, ReplyOK
    <3> QED
      BY <2>2, <3>1, <3>2, AnswersTwice DEF Quiet, SameUser, u
  <2> QED  BY <1>4, <2>1, <2>2
<1> QED  BY <1>1, <1>2, <1>3, <1>5 DEF OnFile, OfOwner, Nonguest, Renamecmd, done

(* RNFR leaves a name only for who is logged in.                            *)
LEMMA RenamefromOK ==
  ASSUME NEW s \in Sessions, NEW ok \in BOOLEAN
  PROVE  LET t == Renamefrom(s, ok) IN
         /\ Answers(s, t)
         /\ t.pw = s.pw /\ t.guest = s.guest /\ t.logged_in = s.logged_in /\ t.dlevel = s.dlevel
         /\ t.fromname => s.fromname \/ s.logged_in
<1> DEFINE u == [s EXCEPT !.fromname = ok]
           t == Renamefrom(s, ok)
<1>1. /\ Prepares(s, u) /\ u.fromname = ok
      /\ u.pw = s.pw /\ u.guest = s.guest /\ u.logged_in = s.logged_in /\ u.dlevel = s.dlevel
  BY DEF Prepares, Sessions
<1>2. t = IF s.logged_in THEN PerrorReply(u, ok, 350, 550) ELSE Reply(s, 530)
  BY DEF Renamefrom, CheckLogin
<1> HIDE DEF t, u
<1>3. CASE s.logged_in
  <2>1. Answers(s, t) /\ SameUser(u, t)
    BY <1>1, <1>2, <1>3, PerrorReplyOK DEF t
  <2> QED  BY <1>1, <1>3, <2>1 DEF SameUser, t
<1>4. CASE ~s.logged_in
  BY <1>2, <1>4, ReplyOK DEF SameUser, t
<1> QED  BY <1>3, <1>4

(* login() that fails leaves nobody logged in; one that does not has        *)
(* answered already, unless Kerberos alone was enough.                      *)
LoginDoes(s, ok, t) ==
  /\ t \in Sessions /\ t.auth_type = s.auth_type /\ t.dlevel = s.dlevel
  /\ ~ok => Answers(s, t) /\ Last(t) = 550 /\ t.pw = NoName /\ ~t.guest /\ ~t.logged_in
  /\ ok => /\ t.logged_in /\ t.pw = s.pw /\ t.guest = s.guest
           /\ IF s.guest \/ s.askpasswd THEN Answers(s, t) /\ Last(t) = 230
              ELSE Prepares(s, t)
LEMMA LoginOK ==
  ASSUME NEW s \in Sessions, NEW ok \in BOOLEAN
  PROVE  LoginDoes(s, ok, Login(s, ok))
<1> USE DEF LoginDoes
<1> DEFINE t == Login(s, ok)
<1>1. CASE ~ok
  <2> DEFINE r == Reply(s, 550)
             q == EndLogin(r)
  <2>1. Answers(s, r) /\ SameUser(s, r) /\ r.auth_type = s.auth_type /\ Last(r) = 550
    BY ReplyOK
  <2> HIDE DEF r
  <2>2. r \in Sessions
    BY <2>1 DEF Answers
  <2>3. /\ q \in Sessions /\ q.said = r.said /\ q.auth_type = r.auth_type /\ q.dlevel = r.dlevel
        /\ q.pw = NoName /\ ~q.guest /\ ~q.logged_in
    <3>1. NoName \in Words
      BY DEF NoName, Words
    <3> QED  BY <2>2, <3>1 DEF EndLogin, Sessions
  <2>4. t = q
    BY <1>1 DEF Login, r
  <2> HIDE DEF q, t
  <2> QED  BY <1>1, <2>1, <2>3, <2>4 DEF Answers, SameUser, Sealed, Last, t
<1>2. CASE ok
  <2> DEFINE u == [s EXCEPT !.logged_in = TRUE]
             v == [u EXCEPT !.askpasswd = FALSE]
  <2>1. /\ Prepares(s, u) /\ u.logged_in /\ u.pw = s.pw /\ u.guest = s.guest /\ u.dlevel = s.dlevel
        /\ Prepares(s, v) /\ v.logged_in /\ v.pw = s.pw /\ v.guest = s.guest /\ v.dlevel = s.dlevel
    BY DEF Prepares, Sessions
  <2> HIDE DEF u, v
  <2>2. t = IF s.guest THEN Reply(u, 230) ELSE IF s.askpasswd THEN Reply(v, 230) ELSE u
    BY <1>2 DEF Login, u, v
  <2> HIDE DEF t
  <2>3. \A w \in {u, v} : Answers(s, Reply(w, 230)) /\ SameUser(w, Reply(w, 230))
                         /\ Last(Reply(w, 230)) = 230 /\ Reply(w, 230).auth_type = w.auth_type
    BY <2>1, ReplyAfter
  <2>4. CASE s.guest \/ s.askpasswd
    <3>1. PICK w \in {u, v} : t = Reply(w, 230)
      BY <2>2, <2>4
    <3>2. w.logged_in /\ w.pw = s.pw /\ w.guest = s.guest /\ w.dlevel = s.dlevel /\ w.auth_type = s.auth_type
      BY <2>1 DEF Prepares
    <3>3. /\ Answers(s, t) /\ Last(t) = 230 /\ t.auth_type = s.auth_type
          /\ t.logged_in /\ t.pw = s.pw /\ t.guest = s.guest /\ t.dlevel = s.dlevel
      BY <2>3, <3>1, <3>2 DEF SameUser
    <3> QED  BY <1>2, <2>4, <3>3 DEF Answers, t
  <2>5. CASE ~(s.guest \/ s.askpasswd)
    BY <1>2, <2>1, <2>2, <2>5 DEF Prepares, t
  <2> QED  BY <2>4, <2>5
<1> QED  BY <1>1, <1>2


(* USER: what is claimed and what is remembered stay together.              *)
LEMMA UserOK ==
  ASSUME NEW o, NEW s \in Sessions, NEW name \in Words, NEW ok \in BOOLEAN,
         NEW old \in Words, NEW shown \in BOOLEAN, Secure(s, old, shown)
  PROVE  LET t == User(o, s, name, ok) IN
         /\ Answers(s, t) /\ t.dlevel = s.dlevel
         /\ IF Last(t) \in {331, 232} THEN Secure(t, name, s.auth_type /\ name \in KUserOK)
            ELSE Secure(t, old, shown)
<1> DEFINE Done(t) ==
             /\ Answers(s, t) /\ t.dlevel = s.dlevel
             /\ IF Last(t) \in {331, 232} THEN Secure(t, name, s.auth_type /\ name \in KUserOK)
                ELSE Secure(t, old, shown)
           t == User(o, s, name, ok)
           c == [(IF s.logged_in THEN EndLogin(s) ELSE s) EXCEPT !.authorized = FALSE, !.guest = FALSE]
           Fresh(u) == Prepares(s, u) /\ u.dlevel = s.dlevel /\ ~u.guest /\ ~u.logged_in
<1>1. Fresh(c) /\ c.pw \in {s.pw, NoName}
  <2>1. NoName \in Words
    BY DEF NoName, Words
  <2>2. CASE s.logged_in
    <3>1. c = [EndLogin(s) EXCEPT !.authorized = FALSE, !.guest = FALSE]
      BY <2>2
    <3> HIDE DEF c
    <3> QED  BY <2>1, <3>1 DEF EndLogin, Prepares, Sessions
  <2>3. CASE ~s.logged_in
    <3>1. c = [s EXCEPT !.authorized = FALSE, !.guest = FALSE]
      BY <2>3
    <3> HIDE DEF c
    <3> QED  BY <2>3, <3>1 DEF Prepares, Sessions
  <2> QED  BY <2>2, <2>3
<1>2. Secure(c, old, shown)
  BY <1>1 DEF Secure
<1> HIDE DEF c
<1>3. CASE s.logged_in /\ s.guest
  <2>1. t = Reply(s, 530)
    BY <1>3 DEF User
  <2> QED  BY <2>1, ReplyOK DEF SameUser, Secure
(* A refusal leaves the old claim. *)
<1>4. ASSUME NEW u, Fresh(u), u.pw \in {s.pw, NoName}
      PROVE  Done(Reply(u, 530))
  BY <1>4, ReplyAfter DEF SameUser, Secure
(* A password is asked for: nobody is logged in yet. *)
<1>5. ASSUME NEW u, Prepares(s, u), u.dlevel = s.dlevel, ~u.logged_in,
             u.pw # NoName => u.pw = Targets(name), u.guest => u.pw = "ftp"
      PROVE  Done(Reply(u, 331))
  BY <1>5, ReplyAfter DEF SameUser, Secure
<1>6. CASE ~(s.logged_in /\ s.guest) /\ name \in {"ftp", "anonymous"}
  <2> DEFINE u == [c EXCEPT !.pw = "ftp", !.guest = TRUE, !.askpasswd = TRUE]
  <2>1. Prepares(s, u) /\ u.dlevel = s.dlevel /\ ~u.logged_in /\ u.pw = "ftp"
    <3>1. "ftp" \in Words
      BY DEF Words
    <3> QED  BY <1>1, <3>1 DEF Prepares, Sessions
  <2>2. t \in {Reply(c, 530), Reply(u, 331)}
    BY <1>6 DEF GuestUser, User, c
  <2> HIDE DEF u, t
  <2>3. Done(Reply(u, 331))
    BY <1>5, <1>6, <2>1 DEF Targets
  <2>4. Done(Reply(c, 530))
    BY <1>1, <1>4
  <2> HIDE DEF Done
  <2>5. Done(t)
    BY <2>2, <2>3, <2>4
  <2> QED  BY <2>5 DEF Done, t
<1>7. CASE ~(s.logged_in /\ s.guest) /\ name \notin {"ftp", "anonymous"}
  <2> DEFINE target == IF name \in Accounts THEN name ELSE NoName
             d == [c EXCEPT !.pw = target]
             e == [c EXCEPT !.pw = NoName]
             f == [d EXCEPT !.askpasswd = TRUE]
             may == name \in KUserOK
             u == [d EXCEPT !.authorized = may]
             v == [u EXCEPT !.pw = NoName]
             w == [u EXCEPT !.askpasswd = TRUE]
  <2>1. target \in Words /\ NoName \in Words
    BY DEF NoName, Words
  <2>2. target \in {Targets(name), NoName}
    BY <1>7 DEF Targets
  <2>3. /\ Fresh(d) /\ d.pw = target /\ Fresh(e) /\ e.pw = NoName
        /\ Fresh(f) /\ f.pw = target
    <3> HIDE DEF target
    <3> QED  BY <1>1, <2>1 DEF Prepares, Sessions
  <2>4. Fresh(u) /\ u.pw = target /\ Fresh(v) /\ v.pw = NoName /\ Fresh(w) /\ w.pw = target
    <3>1. may \in BOOLEAN
      OBVIOUS
    <3> HIDE DEF target, d, may
    <3>1a. d \in Sessions
      BY <2>3 DEF Prepares
    <3>2. Fresh(u) /\ u.pw = target
      <4>1. u \in Sessions
        BY <3>1, <3>1a DEF Sessions
      <4> QED  BY <2>3, <3>1a, <4>1 DEF Prepares, Sessions
    <3> HIDE DEF u
    <3>3. u \in Sessions
      BY <3>2 DEF Prepares
    <3>4. Fresh(v) /\ v.pw = NoName
      <4>1. v \in Sessions
        BY <2>1, <3>3 DEF Sessions
      <4> QED  BY <3>2, <3>3, <4>1 DEF Prepares, Sessions
    <3>5. Fresh(w) /\ w.pw = target
      <4>1. w \in Sessions
        BY <3>3 DEF Sessions
      <4> QED  BY <3>2, <3>3, <4>1 DEF Prepares, Sessions
    <3> QED  BY <3>2, <3>4, <3>5
  <2>5. \/ t \in {Reply(c, 530), Reply(e, 530), Reply(f, 331), Reply(v, 530), Reply(w, 331)}
        \/ t = Reply(Login(u, ok), 232) /\ s.auth_type /\ name \in KUserOK
    <3>1. t = NamedUser(o, c, name, ok)
      BY <1>7 DEF User, c
    <3>2. c.auth_type = s.auth_type
      BY <1>1 DEF Prepares
    <3>3. u.authorized <=> name \in KUserOK
      <4>1. d \in Sessions
        BY <2>3 DEF Prepares
      <4> HIDE DEF d
      <4>2. u.authorized = may
        BY <4>1 DEF Sessions
      <4> QED  BY <4>2
    <3> HIDE DEF c, t
    <3>4. \/ t \in {Reply(c, 530), Reply(e, 530), Reply(f, 331)}
          \/ s.auth_type /\ t = AuthenticatedUser(o, d, name, ok)
      BY <3>1, <3>2 DEF NamedUser
    <3>5. AuthenticatedUser(o, d, name, ok) =
             IF ~u.authorized /\ o.authlevel = "authorize" THEN Reply(v, 530)
             ELSE IF ~u.authorized \/ (o.want_creds /\ ~u.have_creds) THEN Reply(w, 331)
             ELSE Reply(Login(u, ok), 232)
      BY DEF AuthenticatedUser
    <3> HIDE DEF d, e, f, u, v, w
    <3> QED  BY <3>3, <3>4, <3>5
  <2> HIDE DEF target, d, e, f, u, v, w, t
  <2>6. CASE t \in {Reply(c, 530), Reply(e, 530), Reply(v, 530)}
    <3>1. Done(Reply(c, 530)) /\ Done(Reply(e, 530)) /\ Done(Reply(v, 530))
      BY <1>1, <1>4, <2>3, <2>4
    <3> HIDE DEF Done
    <3>2. Done(t)
      BY <2>6, <3>1
    <3> QED  BY <3>2 DEF Done, t
  <2>7. CASE t \in {Reply(f, 331), Reply(w, 331)}
    <3>1. Done(Reply(f, 331)) /\ Done(Reply(w, 331))
      BY <1>5, <2>2, <2>3, <2>4
    <3> HIDE DEF Done
    <3>2. Done(t)
      BY <2>7, <3>1
    <3> QED  BY <3>2 DEF Done, t
  <2>8. CASE t = Reply(Login(u, ok), 232) /\ s.auth_type /\ name \in KUserOK
    <3> DEFINE l == Login(u, ok)
    <3>1. u \in Sessions /\ u.pw = name /\ name # NoName /\ ~u.guest
      BY <2>4, <2>8, NamesAssumption DEF Prepares, NamesAssumption, target
    <3>2. /\ l \in Sessions /\ l.auth_type = u.auth_type /\ l.dlevel = u.dlevel
          /\ Answers(u, l) \/ Prepares(u, l)
          /\ l.logged_in => l.pw = name
          /\ l.pw # NoName => l.pw = name
          /\ ~l.guest
      BY <3>1, LoginOK DEF LoginDoes
    <3> HIDE DEF l
    <3>3. /\ Answers(l, Reply(l, 232)) /\ SameUser(l, Reply(l, 232))
          /\ Last(Reply(l, 232)) = 232
      BY <3>2, ReplyOK
    <3>4. Answers(u, Reply(l, 232))
      BY <3>1, <3>2, <3>3, ReplyAfter, AnswersTwice
    <3>5. Answers(s, Reply(l, 232))
      BY <2>4, <3>4, AnswersAfter
    <3>6. Secure(Reply(l, 232), name, s.auth_type /\ name \in KUserOK)
      BY <1>7, <2>8, <3>1, <3>2, <3>3 DEF Secure, SameUser, Targets
    <3>7. Done(Reply(l, 232))
      BY <2>4, <3>2, <3>3, <3>5, <3>6 DEF SameUser
    <3> HIDE DEF Done
    <3>8. Done(t)
      BY <2>8, <3>7 DEF l
    <3> QED  BY <3>8 DEF Done, t
  <2> QED  BY <2>5, <2>6, <2>7, <2>8
<1> QED  BY <1>3, <1>6, <1>7

(* PASS: whoever it logs in has shown who it is, or is the guest.           *)
LEMMA PassOK ==
  ASSUME NEW o, NEW s \in Sessions, NEW right \in BOOLEAN, NEW kdc \in BOOLEAN, NEW ok \in BOOLEAN,
         NEW name \in Words, NEW shown \in BOOLEAN, Secure(s, name, shown)
  PROVE  LET t == Pass(o, s, right, kdc, ok) IN
         /\ Answers(s, t) /\ t.dlevel = s.dlevel
         /\ Secure(t, name, shown \/ (right /\ Last(t) = 230))
<1> DEFINE t == Pass(o, s, right, kdc, ok)
           a == [s EXCEPT !.login_attempts = 0]
           creds == a.have_creds \/ (kdc /\ o.want_creds)
           b == [s EXCEPT !.login_attempts = 0, !.have_creds = creds]
           tries == s.login_attempts + 1
           d == [s EXCEPT !.pw = NoName, !.login_attempts = tries]
           Kept(u) == /\ Prepares(s, u) /\ u.dlevel = s.dlevel /\ u.guest = s.guest /\ u.pw = s.pw
                      /\ u.logged_in = s.logged_in /\ u.askpasswd = s.askpasswd
           Done(u) == Answers(s, u) /\ u.dlevel = s.dlevel /\ Secure(u, name, shown \/ (right /\ Last(u) = 230))
<1>1. Kept(a)
  BY DEF Prepares, Sessions
<1>2. Kept(b)
  <2>1. creds \in BOOLEAN
    OBVIOUS
  <2> HIDE DEF creds
  <2> QED  BY <2>1 DEF Prepares, Sessions
<1>3. Prepares(s, d) /\ d.dlevel = s.dlevel /\ d.guest = s.guest /\ d.pw = NoName /\ d.logged_in = s.logged_in
  <2>1. NoName \in Words
    BY DEF NoName, Words
  <2>2. tries \in Nat
    BY DEF Sessions
  <2> HIDE DEF tries
  <2> QED  BY <2>1, <2>2 DEF Prepares, Sessions
<1>4. \/ t \in {Reply(s, 202), Reply(s, 503)}
      \/ s.guest /\ t = Login(a, ok)
      \/ ~s.logged_in /\ s.askpasswd /\ s.pw # NoName /\ right /\ t = Login(b, ok)
      \/ ~s.logged_in /\ ~s.guest /\ t \in {Dologout(Reply(d, 421)), Reply(d, 530)}
  <2>1. b = [s EXCEPT !.login_attempts = 0, !.have_creds = @ \/ (kdc /\ o.want_creds)]
    BY DEF Sessions
  <2> DEFINE more == d.login_attempts >= 3
  <2>2. t = IF s.authorized /\ ~o.want_creds THEN Reply(s, 202)
            ELSE IF s.logged_in \/ ~s.askpasswd THEN Reply(s, 503)
            ELSE IF s.guest THEN Login(a, ok)
            ELSE IF PasswordHolds(o, s, right, kdc) THEN Login(b, ok)
            ELSE IF more THEN Dologout(Reply(d, 421)) ELSE Reply(d, 530)
    <3>1. d = [s EXCEPT !.pw = NoName, !.login_attempts = @ + 1]
      BY DEF Sessions
    <3> QED  BY <2>1, <3>1 DEF Pass
  <2> HIDE DEF t, a, b, d, more
  <2> QED  BY <2>2 DEF PasswordHolds
<1> HIDE DEF a, b, d, t
<1>5. CASE t \in {Reply(s, 202), Reply(s, 503)}
  <2>1. Answers(s, t) /\ SameUser(s, t)
    BY <1>5, ReplyOK
  <2> QED  BY <2>1 DEF SameUser, Secure, t
(* login() either fails or has answered 230. *)
<1>6. ASSUME NEW u, Kept(u), s.guest \/ (s.askpasswd /\ s.pw # NoName /\ right)
      PROVE  Done(Login(u, ok))
  <2> DEFINE l == Login(u, ok)
  <2>1. u \in Sessions /\ (u.guest \/ u.askpasswd)
    BY <1>6 DEF Prepares
  <2>2. /\ Answers(u, l) /\ l.dlevel = u.dlevel
        /\ \/ l.pw = NoName /\ ~l.guest /\ ~l.logged_in
           \/ l.logged_in /\ l.pw = u.pw /\ l.guest = u.guest /\ Last(l) = 230
    <3>1. /\ l.dlevel = u.dlevel
          /\ ~ok => Answers(u, l) /\ l.pw = NoName /\ ~l.guest /\ ~l.logged_in
          /\ ok => /\ l.logged_in /\ l.pw = u.pw /\ l.guest = u.guest
                   /\ IF u.guest \/ u.askpasswd THEN Answers(u, l) /\ Last(l) = 230
                      ELSE Prepares(u, l)
      <4>1. LoginDoes(u, ok, l)
        BY <2>1, LoginOK
      <4> HIDE DEF l
      <4> QED  BY <4>1, Zenon DEF LoginDoes
    <3> QED  BY <2>1, <3>1
  <2> HIDE DEF l
  <2>3. Answers(s, l)
    BY <1>6, <2>2, AnswersAfter
  <2>4. NoName # "ftp"
    BY DEF NoName
  <2>5. Secure(l, name, shown \/ (right /\ Last(l) = 230))
    BY <1>6, <2>2, <2>4 DEF Secure
  <2> QED  BY <1>6, <2>2, <2>3, <2>5 DEF l
<1>7. CASE s.guest /\ t = Login(a, ok)
  <2>1. Done(Login(a, ok))
    BY <1>1, <1>6, <1>7
  <2> HIDE DEF Done
  <2>2. Done(t)
    BY <1>7, <2>1
  <2> QED  BY <2>2 DEF Done, t
<1>8. CASE ~s.logged_in /\ s.askpasswd /\ s.pw # NoName /\ right /\ t = Login(b, ok)
  <2>1. Done(Login(b, ok))
    BY <1>2, <1>6, <1>8
  <2> HIDE DEF Done
  <2>2. Done(t)
    BY <1>8, <2>1
  <2> QED  BY <2>2 DEF Done, t
<1>9. CASE ~s.logged_in /\ ~s.guest /\ t \in {Dologout(Reply(d, 421)), Reply(d, 530)}
  <2> DEFINE r == Reply(d, 421)
             x == Dologout(r)
  <2>1. Answers(s, r) /\ SameUser(d, r)
    BY <1>3, ReplyAfter
  <2>2. Answers(s, Reply(d, 530)) /\ SameUser(d, Reply(d, 530))
    BY <1>3, ReplyAfter
  <2> HIDE DEF r
  <2>3. r \in Sessions
    BY <2>1 DEF Answers
  <2>4. x \in Sessions /\ SameUser(r, x) /\ x.said = r.said /\ x.auth_type = r.auth_type
    BY <2>3 DEF Dologout, Sessions, SameUser
  <2>5. Answers(s, x) /\ SameUser(d, x)
    BY <2>1, <2>4 DEF Answers, Sealed, SameUser
  <2> HIDE DEF x
  <2>6. Answers(s, t) /\ SameUser(d, t)
    BY <1>9, <2>2, <2>5 DEF x, r
  <2> QED  BY <1>3, <1>9, <2>6 DEF SameUser, Secure, t
<1> QED  BY <1>4, <1>5, <1>7, <1>8, <1>9

(* What one command does to the session: that it is answered; that the      *)
(* level for data is what a PROT that was accepted says; that a token that  *)
(* was accepted authenticates; who is logged in and what RNFR left.         *)
Served(s, c, name, shown, t) ==
  /\ Answers(s, t)
  /\ c.cmd = "ADAT" /\ Last(t) \div 100 = 2 => t.auth_type
  /\ t.dlevel = IF c.cmd = "PROT" /\ Last(t) \div 100 = 2 THEN c.arg ELSE s.dlevel
  /\ t.fromname => t.logged_in
  /\ IF c.cmd = "USER" /\ Last(t) \in {331, 232}
     THEN Secure(t, c.arg, s.auth_type /\ c.arg \in KUserOK)
     ELSE Secure(t, name, shown \/ (c.cmd = "PASS" /\ c.arg = "right" /\ Last(t) = 230))

(* What the grammar forgets after a command is the name RNFR left.          *)
LEMMA ForgetOK ==
  ASSUME NEW s \in Sessions, NEW u, Answers(s, u)
  PROVE  /\ Answers(s, Forget(u)) /\ Last(Forget(u)) = Last(u) /\ Forget(u).dlevel = u.dlevel
         /\ Forget(u).auth_type = u.auth_type /\ ~Forget(u).fromname
         /\ \A name, shown : Secure(u, name, shown) => Secure(Forget(u), name, shown)
<1> DEFINE t == Forget(u)
<1>1. u \in Sessions
  BY DEF Answers
<1>2. /\ t \in Sessions /\ t.said = u.said /\ t.auth_type = u.auth_type /\ t.dlevel = u.dlevel
      /\ t.pw = u.pw /\ t.guest = u.guest /\ t.logged_in = u.logged_in /\ ~t.fromname
  BY <1>1 DEF Forget, Sessions
<1> HIDE DEF t
<1> QED  BY <1>2 DEF Answers, Sealed, Last, Secure, t

(* Every command of the grammar does so.                                    *)
LEMMA CommandOK ==
  ASSUME NEW o, NEW s \in Sessions, NEW c \in Lines, NEW e,
         e.ok \in BOOLEAN, e.kdc \in BOOLEAN, c.cmd = "ADAT" => e.result \in TokenResults(s),
         c.cmd = "PROT" => c.arg \in Levels,
         NEW name \in Words, NEW shown \in BOOLEAN, Secure(s, name, shown), s.fromname => s.logged_in
  PROVE  Served(s, c, name, shown, Command(o, s, c, e))
<1> DEFINE t == Command(o, s, c, e)
(* The quiet commands, and after them those that have lemmas of their own. *)
<1>1. ASSUME NEW u, Quiet(s, u)
      PROVE  c.cmd \notin {"USER", "ADAT", "PROT"} => Served(s, c, name, shown, u) /\ Served(s, c, name, shown, Forget(u))
  <2>1. Secure(u, name, shown) /\ Secure(u, name, TRUE)
    BY <1>1 DEF Quiet, SameUser, Secure
  <2>2. Answers(s, u) /\ u.dlevel = s.dlevel /\ u.logged_in = s.logged_in /\ u.fromname = s.fromname
    BY <1>1 DEF Quiet, SameUser
  <2>3. /\ Answers(s, Forget(u)) /\ Forget(u).dlevel = s.dlevel /\ ~Forget(u).fromname
        /\ Secure(Forget(u), name, shown) /\ Secure(Forget(u), name, TRUE)
    BY <2>1, <2>2, ForgetOK
  <2> QED  BY <2>1, <2>2, <2>3 DEF Served, Secure
<1>2. ASSUME NEW u, Quiet(s, u)
      PROVE  Served(s, c, name, shown, Forget(u)) \/ c.cmd \in {"USER", "ADAT", "PROT"}
  BY <1>1, <1>2
<1>3. CASE c.cmd = "USER"
  <2> DEFINE u == User(o, s, c.arg, e.ok)
  <2>1. t = Forget(u)
    BY <1>3 DEF Command, FileCommands, OwnerCommands, Unrestricted, Unimplemented
  <2>2. /\ Answers(s, u) /\ u.dlevel = s.dlevel
        /\ IF Last(u) \in {331, 232} THEN Secure(u, c.arg, s.auth_type /\ c.arg \in KUserOK)
           ELSE Secure(u, name, shown)
    BY UserOK DEF Lines
  <2> HIDE DEF u, t
  <2> QED  BY <1>3, <2>1, <2>2, ForgetOK DEF Served, t
<1>4. CASE c.cmd = "PASS"
  <2> DEFINE right == c.arg = "right"
             u == Pass(o, s, right, e.kdc, e.ok)
  <2>1. t = Forget(u)
    BY <1>4 DEF Command, FileCommands, OwnerCommands, Unrestricted, Unimplemented
  <2>2. /\ Answers(s, u) /\ u.dlevel = s.dlevel
        /\ Secure(u, name, shown \/ (right /\ Last(u) = 230))
    <3>1. right \in BOOLEAN
      OBVIOUS
    <3> HIDE DEF right
    <3> QED  BY <3>1, PassOK
  <2> HIDE DEF u, t
  <2> QED  BY <1>4, <2>1, <2>2, ForgetOK DEF Served, t
<1>5. CASE c.cmd = "ADAT"
  <2> DEFINE u == AuthData(o, s, e.result, e.ok)
  <2>1. t = Forget(u)
    BY <1>5 DEF Command, FileCommands, OwnerCommands, Unrestricted, Unimplemented
  <2>2. Quiet(s, u) /\ (Last(u) \div 100 = 2 => u.auth_type)
    BY <1>5, AuthDataOK
  <2> HIDE DEF u, t
  <2> QED  BY <1>5, <2>1, <2>2, ForgetOK DEF Served, Quiet, SameUser, Secure, t
<1>6. CASE c.cmd = "PROT"
  <2> DEFINE u == Prot(s, c.arg)
  <2>1. t = Forget(u)
    BY <1>6 DEF Command, FileCommands, OwnerCommands, Unrestricted, Unimplemented
  <2>2. /\ Answers(s, u)
        /\ u.pw = s.pw /\ u.guest = s.guest /\ u.logged_in = s.logged_in
        /\ u.dlevel = IF Last(u) \div 100 = 2 THEN c.arg ELSE s.dlevel
    BY <1>6, ProtOK
  <2> HIDE DEF u, t
  <2> QED  BY <1>6, <2>1, <2>2, ForgetOK DEF Served, Secure, t
<1>7. CASE c.cmd = "RNFR"
  <2> DEFINE u == Renamefrom(s, e.ok)
  <2>1. t = u
    BY <1>7 DEF Command, FileCommands, OwnerCommands, Unrestricted, Unimplemented
  <2>2. /\ Answers(s, u)
        /\ u.pw = s.pw /\ u.guest = s.guest /\ u.logged_in = s.logged_in /\ u.dlevel = s.dlevel
        /\ u.fromname => s.fromname \/ s.logged_in
    BY RenamefromOK
  <2> HIDE DEF u, t
  <2> QED  BY <1>7, <2>1, <2>2 DEF Served, Secure, t
<1>8. CASE c.cmd = "QUIT"
  <2> DEFINE r == Reply(s, 221)
             x == Dologout(r)
  <2>1. t = x
    BY <1>8 DEF Command, FileCommands, OwnerCommands, Unrestricted, Unimplemented, Quit
  <2>2. Quiet(s, r)
    BY QuietReply, PreparesSelf
  <2> HIDE DEF r
  <2>3. x \in Sessions /\ SameUser(r, x) /\ x.said = r.said /\ x.auth_type = r.auth_type
    BY <2>2 DEF Quiet, Answers, Dologout, Sessions, SameUser
  <2> HIDE DEF x
  <2>4. Quiet(s, x)
    BY <2>2, <2>3 DEF Quiet, Answers, Sealed, SameUser
  <2> QED  BY <1>1, <1>8, <2>1, <2>4
<1>9. CASE c.cmd \in {"AUTH", "PBSZ", "CCC", "RNTO"} \cup FileCommands \cup OwnerCommands \cup DOMAIN Unrestricted
  <2> DEFINE known == c.arg = "GSSAPI"
  <2>1. \/ t \in {Forget(Auth(s, known)), Forget(Pbsz(s)), Forget(Ccc(o, s)), Forget(Renamecmd(s, e.ok)),
                  Forget(OnFile(s, e.ok)), Forget(OfOwner(s, e.ok))}
        \/ c.cmd \in DOMAIN Unrestricted /\ t = Forget(Reply(s, Unrestricted[c.cmd]))
    BY <1>9 DEF Command, FileCommands, OwnerCommands, Unrestricted, Unimplemented
  <2>2. Quiet(s, Auth(s, known))
    BY AuthOK
  <2>3. /\ Quiet(s, Pbsz(s)) /\ Quiet(s, Ccc(o, s)) /\ Quiet(s, Renamecmd(s, e.ok))
        /\ Quiet(s, OnFile(s, e.ok)) /\ Quiet(s, OfOwner(s, e.ok))
    BY LevelCommandsOK, FileCommandsOK
  <2>4. c.cmd \in DOMAIN Unrestricted => Unrestricted[c.cmd] \in Nat
    BY DEF Unrestricted
  <2>5. c.cmd \in DOMAIN Unrestricted => Quiet(s, Reply(s, Unrestricted[c.cmd]))
    BY <2>4, QuietReply, PreparesSelf
  <2> HIDE DEF t, known
  <2>6. c.cmd \notin {"USER", "ADAT", "PROT"}
    BY <1>9 DEF FileCommands, OwnerCommands, Unrestricted
  <2> QED  BY <1>2, <2>1, <2>2, <2>3, <2>5, <2>6 DEF t
<1>10. CASE c.cmd \notin {"USER", "PASS", "ADAT", "PROT", "RNFR", "QUIT", "AUTH", "PBSZ", "CCC", "RNTO"}
                          \cup FileCommands \cup OwnerCommands \cup DOMAIN Unrestricted
  <2>1. t \in {Reply(s, 502), Reply(s, 500)}
    BY <1>10 DEF Command
  <2>2. Quiet(s, Reply(s, 502)) /\ Quiet(s, Reply(s, 500))
    BY QuietReply, PreparesSelf
  <2> HIDE DEF t
  <2> QED  BY <1>1, <1>10, <2>1, <2>2 DEF t
<1> QED  BY <1>3, <1>4, <1>5, <1>6, <1>7, <1>8, <1>9, <1>10

(* So does every line, however it is protected.                             *)
LEMMA GetlineOK ==
  ASSUME NEW o, NEW s \in Sessions, NEW c \in Lines, NEW e,
         e.ok \in BOOLEAN, e.kdc \in BOOLEAN, c.cmd = "ADAT" => e.result \in TokenResults(s),
         c.cmd = "PROT" => c.arg \in Levels,
         NEW name \in Words, NEW shown \in BOOLEAN, Secure(s, name, shown), s.fromname => s.logged_in
  PROVE  Served(s, c, name, shown, Getline(o, s, c, e))
<1> DEFINE t == Getline(o, s, c, e)
           Level(l) == [s EXCEPT !.clevel = l]
<1>1. ASSUME NEW l \in Levels
      PROVE  Prepares(s, Level(l)) /\ SameUser(s, Level(l)) /\ Level(l).rounds = s.rounds
  BY DEF Prepares, SameUser, Sessions
<1>2. "C" \in Levels /\ c.prot \in Levels
  BY DEF Levels, Lines
<1> HIDE DEF Level
<1>3. \/ t = Command(o, s, c, e)
      \/ \E l \in Levels : t = Command(o, Level(l), c, e)
      \/ t \in {Reply(s, 501), Reply(s, 503), Reply(s, 533), Reply(Level(c.prot), 530)}
  <2>1. CASE c.prot = "C"
    BY <1>2, <2>1 DEF Getline, Clear, Level
  <2>2. CASE c.prot # "C"
    BY <1>2, <2>2 DEF Getline, Protected, Level
  <2> QED  BY <2>1, <2>2
<1>4. ASSUME NEW l \in Levels
      PROVE  Served(s, c, name, shown, Command(o, Level(l), c, e))
  <2> DEFINE u == Level(l)
             v == Command(o, u, c, e)
  <2>1. Prepares(s, u) /\ SameUser(s, u) /\ u.rounds = s.rounds /\ u \in Sessions
    BY <1>1 DEF Prepares
  <2> HIDE DEF u
  <2>2. c.cmd = "ADAT" => e.result \in TokenResults(u)
    BY <2>1 DEF TokenResults
  <2>3. Secure(u, name, shown) /\ (u.fromname => u.logged_in)
    BY <2>1 DEF SameUser, Secure
  <2>4. Served(u, c, name, shown, v)
    BY <2>1, <2>2, <2>3, CommandOK
  <2> HIDE DEF v
  <2>5. Answers(s, v)
    BY <2>1, <2>4, AnswersAfter DEF Served
  <2> QED  BY <2>1, <2>4, <2>5 DEF Served, Prepares, SameUser, v, u
<1>5. CASE t \in {Reply(s, 501), Reply(s, 503), Reply(s, 533), Reply(Level(c.prot), 530)}
  <2>1. Quiet(s, t) /\ Last(t) \in {501, 503, 533, 530}
    BY <1>1, <1>2, <1>5, QuietReply, PreparesSelf
  <2>2. 501 \div 100 = 5 /\ 503 \div 100 = 5 /\ 533 \div 100 = 5 /\ 530 \div 100 = 5
    OBVIOUS
  <2> HIDE DEF t
  <2> QED  BY <2>1, <2>2 DEF Served, Quiet, SameUser, Secure, t
<1>6. CASE t = Command(o, s, c, e)
  BY <1>6, CommandOK
<1> QED  BY <1>3, <1>4, <1>5, <1>6

----------------------------------------------------------------------------
(* The client. *)
Asking ==
  {"greeting", "auth", "adat", "reauth", "pbsz", "prot", "user", "pwdcheck", "dummy", "last",
   "pass", "ccc", "rnfr", "disconnect", "quit", "syst", "other"}
Clients ==
  [at : Asking \cup {"prompt", "exited"}, connected : BOOLEAN, auth_type : BOOLEAN,
   clevel : Levels, dlevel : Levels, oldclevel : Levels, auto : BOOLEAN, trial : Nat,
   user : Words, level : Levels, abrtflag : BOOLEAN]

(* The command a client that waits has sent; and one that was not quoted.   *)
Fits(c, l) ==
  /\ c.at = "adat" => l.cmd = "ADAT"
  /\ c.at = "prot" => l.cmd = "PROT" /\ l.arg = c.level
  /\ c.at \in {"pbsz", "prot"} => c.auth_type
Suits(c, l) == Fits(c, l) /\ (l.cmd = "PROT" => c.at = "prot")
Alike(c, d) ==
  d \in Clients /\ d.connected = c.connected /\ d.auth_type = c.auth_type /\ d.dlevel = c.dlevel

(* What a client does next: it sends one command and waits, or it rests, or *)
(* it has lost its server.  What it sends need not suit it if it is quoted. *)
Sends(c, step) ==
  /\ Alike(c, step.cli) /\ step.cli.at \in Asking \ {"greeting"}
  /\ \E l \in Lines : step.out = <<l>> /\ Fits(step.cli, l)
Asks(c, step) ==
  /\ Alike(c, step.cli) /\ step.cli.at \in Asking \ {"greeting"}
  /\ \E l \in Lines : step.out = <<l>> /\ Suits(step.cli, l)
Rests(c, step) ==
  Alike(c, step.cli) /\ step.cli.at \in {"prompt", "exited"} /\ step.out = <<>>
Parts(step) ==
  step.cli \in Clients /\ ~step.cli.connected /\ step.cli.at \in {"prompt", "exited"} /\ step.out = <<>>
Goes(c, step) == Asks(c, step) \/ Rests(c, step) \/ Parts(step)

(* command(): the client sends one line and waits for its reply.            *)
LEMMA SendOK ==
  ASSUME NEW c \in Clients, NEW at \in Asking \ {"greeting"}, NEW cmd \in Verbs, NEW arg \in Words,
         at = "adat" => cmd = "ADAT", at = "prot" => cmd = "PROT" /\ arg = c.level,
         at \in {"pbsz", "prot"} => c.auth_type,
         cmd = "PROT" => arg \in Levels
  PROVE  LET step == Ask(c, at, Send(cmd, arg)) IN
         Sends(c, step) /\ ((cmd = "PROT" => at = "prot") => Asks(c, step))
<1> DEFINE step == Ask(c, at, Send(cmd, arg))
           d == [c EXCEPT !.at = at, !.abrtflag = FALSE]
           prot == IF c.auth_type THEN c.clevel ELSE "C"
           l == [cmd |-> cmd, arg |-> arg, prot |-> prot]
<1>1. d \in Clients /\ Alike(c, d) /\ d.at = at /\ d.level = c.level
  BY DEF Clients, Alike
<1>2. prot \in Levels
  BY DEF Clients, Levels
<1>3. step.cli = d /\ step.out = <<l>>
  BY DEF Ask, Send
<1> HIDE DEF prot, d, step
<1>4. l \in Lines /\ l.cmd = cmd /\ l.arg = arg
  BY <1>2 DEF Lines
<1>5. Fits(d, l) /\ ((cmd = "PROT" => at = "prot") => Suits(d, l))
  BY <1>1, <1>4 DEF Fits, Suits, Alike
<1> QED  BY <1>1, <1>3, <1>4, <1>5 DEF Sends, Asks, step

(* So do the commands of the client itself.                                 *)
LEMMA AskOK ==
  ASSUME NEW c \in Clients, NEW at \in Asking \ {"greeting"}, NEW cmd \in Verbs, NEW arg \in Words,
         at = "adat" => cmd = "ADAT", at = "prot" <=> cmd = "PROT", at = "prot" => arg = c.level,
         at \in {"pbsz", "prot"} => c.auth_type
  PROVE  Asks(c, Ask(c, at, Send(cmd, arg)))
<1>1. c.level \in Levels
  BY DEF Clients
<1> QED  BY <1>1, SendOK

(* The client rests, or forgets its server (lostpeer).                      *)
LEMMA RestOK ==
  ASSUME NEW c \in Clients
  PROVE  Rests(c, Rest(c)) /\ Parts(Lostpeer(c)) /\ Parts([Lostpeer(c) EXCEPT !.cli.at = "exited"])
<1>1. NoName \in Words /\ "C" \in Levels
  BY DEF NoName, Words, Levels
<1>2. ASSUME NEW d \in Clients
      PROVE  /\ Rest(d).cli = [d EXCEPT !.at = "prompt", !.auto = FALSE, !.abrtflag = FALSE,
                               !.trial = 0, !.user = NoName, !.level = "C", !.oldclevel = "C"]
             /\ Rest(d).cli \in Clients /\ Alike(d, Rest(d).cli) /\ Rest(d).cli.at = "prompt"
             /\ Rest(d).out = <<>>
  <2> DEFINE r == [d EXCEPT !.at = "prompt", !.auto = FALSE, !.abrtflag = FALSE,
                            !.trial = 0, !.user = NoName, !.level = "C", !.oldclevel = "C"]
  <2>1. Rest(d).cli = r /\ Rest(d).out = <<>>
    BY DEF Rest
  <2>2. r \in Clients /\ Alike(d, r) /\ r.at = "prompt"
    BY <1>1 DEF Clients, Alike
  <2> QED  BY <2>1, <2>2
<1> DEFINE e == [c EXCEPT !.connected = FALSE, !.auth_type = FALSE, !.clevel = "C", !.dlevel = "C"]
           x == [Rest(e).cli EXCEPT !.at = "exited"]
<1>3. e \in Clients /\ ~e.connected
  BY <1>1 DEF Clients
<1>4. Lostpeer(c) = Rest(e)
  BY DEF Lostpeer
<1> HIDE DEF e
<1>5. [Rest(e) EXCEPT !.cli.at = "exited"].cli = x /\ [Rest(e) EXCEPT !.cli.at = "exited"].out = Rest(e).out
  BY DEF Rest
<1>6. x \in Clients /\ x.connected = Rest(e).cli.connected /\ x.at = "exited"
  BY <1>2, <1>3 DEF Clients
<1>7. Rests(c, Rest(c))
  BY <1>2 DEF Rests
<1>8. Parts(Rest(e))
  BY <1>2, <1>3 DEF Parts, Alike
<1> HIDE DEF x
<1>9. Parts([Lostpeer(c) EXCEPT !.cli.at = "exited"])
  BY <1>2, <1>3, <1>4, <1>5, <1>6 DEF Parts, Alike
<1> QED  BY <1>4, <1>7, <1>8, <1>9

(* What is done next may be told from a state alike.                        *)
LEMMA AlikeGoes ==
  ASSUME NEW c \in Clients, NEW d, Alike(c, d), NEW step
  PROVE  /\ Asks(d, step) => Asks(c, step)
         /\ Rests(d, step) => Rests(c, step)
         /\ Goes(d, step) => Goes(c, step)
BY DEF Alike, Asks, Rests, Goes

(* What the client sends are words and verbs.                               *)
LEMMA Literals ==
  /\ {"SYST", "USER", "PBSZ", "ADAT", "AUTH", "PROT", "PASS", "PWD", "ACCT", "CCC", "RNFR", "RNTO", "QUIT"}
       \subseteq Verbs
  /\ {"", "GSSAPI", "dummy", "right", "wrong"} \subseteq Words /\ Levels \subseteq Words
  /\ Levels = {"C", "S", "P"}
BY DEF Verbs, Words, Levels

(* The steps of login(): SYST, USER, and what comes after it.               *)
LEMMA LoginStepsOK ==
  ASSUME NEW c \in Clients
  PROVE  /\ Asks(c, AskSyst(c)) /\ Asks(c, AskUser(c)) /\ Asks(c, AutoLogin(c))
         /\ Goes(c, AfterLogin(c))
<1>1. Asks(c, AskSyst(c))
  BY AskOK, Literals DEF AskSyst, Asking
<1>2. ASSUME NEW d \in Clients
      PROVE  Asks(d, AskUser(d))
  <2>1. d.user \in Words
    BY DEF Clients
  <2> QED  BY <2>1, AskOK, Literals DEF AskUser, Asking
<1>3. Asks(c, AutoLogin(c))
  <2> DEFINE lev == IF c.auth_type /\ c.clevel = "C" THEN "S" ELSE c.clevel
             d == [c EXCEPT !.clevel = lev]
  <2>1. lev \in Levels
    BY Literals DEF Clients
  <2>2. AutoLogin(c) = AskUser(d)
    BY DEF AutoLogin, Clients
  <2> HIDE DEF lev
  <2>3. Alike(c, d)
    BY <2>1 DEF Alike, Clients
  <2> HIDE DEF d
  <2> QED  BY <1>2, <2>2, <2>3, AlikeGoes DEF Alike
<1>4. Goes(c, AfterLogin(c))
  BY <1>1, RestOK DEF AfterLogin, Goes
<1> QED  BY <1>1, <1>2, <1>3, <1>4

(* setpbsz() and the PROT after it, by a client that is authenticated.      *)
LEMMA AskPbszOK ==
  ASSUME NEW c \in Clients, c.auth_type, NEW level \in Levels
  PROVE  Asks(c, AskPbsz(c, level))
<1> DEFINE d == [c EXCEPT !.level = level]
<1>1. Alike(c, d)
  BY DEF Alike, Clients
<1>2. AskPbsz(c, level) = Ask(d, "pbsz", Send("PBSZ", ""))
  BY DEF AskPbsz
<1> HIDE DEF d
<1> DEFINE step == Ask(d, "pbsz", Send("PBSZ", ""))
<1>3. Asks(d, Ask(d, "pbsz", Send("PBSZ", "")))
  BY <1>1, AskOK, Literals DEF Alike, Asking
<1> HIDE DEF step
<1>4. Asks(d, step) => Asks(c, step)
  BY <1>1, AlikeGoes
<1> QED  BY <1>2, <1>3, <1>4 DEF step

(* PROT C is sent without PBSZ.                                             *)
LEMMA AskProtOK ==
  ASSUME NEW c \in Clients, c.auth_type, NEW level \in Levels
  PROVE  Asks(c, Ask([c EXCEPT !.level = level], "prot", Send("PROT", level)))
<1> DEFINE d == [c EXCEPT !.level = level]
<1>1. Alike(c, d) /\ d.level = level
  BY DEF Alike, Clients
<1> HIDE DEF d
<1>2. Asks(d, Ask(d, "prot", Send("PROT", level)))
  BY <1>1, AskOK, Literals DEF Alike, Asking
<1> QED  BY <1>1, <1>2, AlikeGoes DEF d

(* The steps of do_auth().                                                  *)
LEMMA AuthStepsOK ==
  ASSUME NEW c \in Clients
  PROVE  /\ Asks(c, AfterAuth(c))
         /\ \A trial \in Nat : Asks(c, AskAdat(c, trial))
<1>1. Asks(c, AfterAuth(c))
  <2> DEFINE d == [c EXCEPT !.clevel = "P"]
  <2>1. Alike(c, d)
    BY Literals DEF Alike, Clients
  <2> HIDE DEF d
  <2>2. CASE c.auth_type /\ opt.autoencrypt
    <3>1. Asks(d, AskPbsz(d, "P"))
      BY <2>1, <2>2, AskPbszOK, Literals DEF Alike
    <3> QED  BY <2>1, <2>2, <3>1, AlikeGoes DEF AfterAuth, d
  <2>3. CASE ~(c.auth_type /\ opt.autoencrypt)
    BY <2>3, LoginStepsOK DEF AfterAuth
  <2> QED  BY <2>2, <2>3
<1>2. ASSUME NEW trial \in Nat
      PROVE  Asks(c, AskAdat(c, trial))
  <2> DEFINE d == [c EXCEPT !.trial = trial]
  <2>1. Alike(c, d)
    BY DEF Alike, Clients
  <2> HIDE DEF d
  <2>2. Asks(d, Ask(d, "adat", Send("ADAT", "")))
    BY <2>1, AskOK, Literals DEF Alike, Asking
  <2>3. Asks(c, Ask(d, "adat", Send("ADAT", "")))
    BY <2>1, <2>2, AlikeGoes
  <2>4. AskAdat(c, trial) \in {AfterAuth(c), Ask(d, "adat", Send("ADAT", ""))}
    BY DEF AskAdat, d
  <2> QED  BY <1>1, <2>3, <2>4, Zenon
<1> QED  BY <1>1, <1>2

(* The passwords.                                                           *)
LEMMA PasswordStepsOK ==
  ASSUME NEW c \in Clients, NEW n, NEW e, e.word \in Words
  PROVE  /\ Goes(c, OnUser(c, n, e)) /\ Goes(c, OnPwdcheck(c, n))
         /\ Goes(c, OnDummy(c, n)) /\ Goes(c, OnPass(c, n))
<1>1. /\ Asks(c, Ask(c, "pwdcheck", Send("PWD", ""))) /\ Asks(c, Ask(c, "dummy", Send("PASS", "dummy")))
      /\ Goes(c, AfterLogin(c))
  BY AskOK, LoginStepsOK, Literals DEF Asking
<1>2. ASSUME NEW d \in Clients
      PROVE  Asks(d, Ask(d, "last", Send("ACCT", "")))
  BY AskOK, Literals DEF Asking
<1>3. Asks(c, AskPassword(c, e.word))
  <2> DEFINE lev == IF c.auto \/ c.clevel = "S" THEN "P" ELSE c.clevel
             d == [c EXCEPT !.oldclevel = c.clevel, !.clevel = lev]
  <2>1. lev \in Levels /\ c.clevel \in Levels
    BY Literals DEF Clients
  <2>2. AskPassword(c, e.word) = Ask(d, "pass", Send("PASS", e.word))
    BY DEF AskPassword, Clients
  <2> HIDE DEF lev
  <2>3. Alike(c, d)
    BY <2>1 DEF Alike, Clients
  <2> HIDE DEF d
  <2>4. Asks(d, Ask(d, "pass", Send("PASS", e.word)))
    BY <2>3, AskOK, Literals DEF Alike, Asking
  <2> QED  BY <2>2, <2>3, <2>4, AlikeGoes
<1>4. Goes(c, OnUser(c, n, e))
  <2>1. c.auto \in BOOLEAN
    BY DEF Clients
  <2>2. OnUser(c, n, e) \in {Ask(c, "pwdcheck", Send("PWD", "")), Ask(c, "dummy", Send("PASS", "dummy")),
                             AskPassword(c, e.word), AfterLogin(c)}
    BY <2>1 DEF OnUser
  <2> QED  BY <1>1, <1>3, <2>2 DEF Goes
<1>5. Goes(c, OnPwdcheck(c, n)) /\ Goes(c, OnDummy(c, n))
  BY <1>1, <1>2 DEF OnPwdcheck, OnDummy, Goes
<1>6. Goes(c, OnPass(c, n))
  <2> DEFINE lev == IF c.clevel = "P" THEN c.oldclevel ELSE c.clevel
             d == [c EXCEPT !.clevel = lev]
  <2>1. lev \in Levels
    BY DEF Clients
  <2>2. OnPass(c, n) = IF n = 3 THEN Ask(d, "last", Send("ACCT", "")) ELSE AfterLogin(d)
    <3>1. d = [c EXCEPT !.clevel = IF @ = "P" THEN c.oldclevel ELSE @]
      BY DEF Clients
    <3> QED  BY <3>1 DEF OnPass
  <2> HIDE DEF lev
  <2>3. Alike(c, d)
    BY <2>1 DEF Alike, Clients
  <2> HIDE DEF d
  <2>4. Goes(d, OnPass(c, n))
    BY <1>2, <2>2, <2>3, LoginStepsOK DEF Goes, Alike
  <2> QED  BY <2>3, <2>4, AlikeGoes
<1> QED  BY <1>4, <1>5, <1>6

(* The end of a connection: closed by the client, or by the server.         *)
LEMMA OnQuitOK ==
  ASSUME NEW c \in Clients
  PROVE  Parts(OnQuit(c)) /\ Parts(Gone(c))
<1> DEFINE e == [c EXCEPT !.connected = FALSE, !.auth_type = FALSE, !.dlevel = "C"]
           r == Rest(e)
           x == [r.cli EXCEPT !.at = "exited"]
<1>1. e \in Clients /\ ~e.connected
  BY Literals DEF Clients
<1> HIDE DEF e
<1>2. Rests(e, r)
  BY <1>1, RestOK
<1>3. [r EXCEPT !.cli.at = "exited"].cli = x /\ [r EXCEPT !.cli.at = "exited"].out = r.out
  BY DEF Rest
<1>4. OnQuit(c) = IF c.at = "quit" THEN [r EXCEPT !.cli.at = "exited"] ELSE r
  BY DEF OnQuit, e
<1> HIDE DEF r
<1>5. Parts(r)
  BY <1>1, <1>2 DEF Rests, Alike, Parts
<1>6. x \in Clients /\ x.connected = r.cli.connected /\ x.at = "exited"
  BY <1>5 DEF Parts, Clients
<1> HIDE DEF x
<1>7. Parts([r EXCEPT !.cli.at = "exited"])
  BY <1>3, <1>5, <1>6 DEF Parts
<1>8. Parts(Gone(c))
  BY RestOK DEF Gone
<1> QED  BY <1>4, <1>5, <1>7, <1>8

(* What the client does with the reply it waits for, n its first digit: it  *)
(* believes in an authentication only after a token that was accepted, and  *)
(* takes over the level of a PROT only if that was.                         *)
Continues(c, n, step) ==
  \/ Parts(step)
  \/ /\ step.cli \in Clients
     /\ \/ step.cli.at \in {"prompt", "exited"} /\ step.out = <<>>
        \/ /\ step.cli.at \in Asking \ {"greeting"}
           /\ \E l \in Lines : step.out = <<l>> /\ Suits(step.cli, l)
     /\ step.cli.auth_type => c.auth_type \/ (c.at = "adat" /\ n = 2)
     /\ step.cli.dlevel = CASE c.at = "greeting" -> "C"
                            [] c.at = "prot" /\ n = 2 -> c.level
                            [] OTHER -> c.dlevel

(* The same, told from a state in which the reply has been taken in.        *)
LEMMA GoesContinues ==
  ASSUME NEW c \in Clients, NEW d \in Clients, NEW n, NEW step, Goes(d, step),
         d.auth_type => c.auth_type \/ (c.at = "adat" /\ n = 2),
         d.dlevel = CASE c.at = "greeting" -> "C"
                      [] c.at = "prot" /\ n = 2 -> c.level
                      [] OTHER -> c.dlevel
  PROVE  Continues(c, n, step)
<1> DEFINE level == CASE c.at = "greeting" -> "C"
                      [] c.at = "prot" /\ n = 2 -> c.level
                      [] OTHER -> c.dlevel
<1>1. d.dlevel = level
  OBVIOUS
<1> HIDE DEF level
<1>2. CASE Parts(step)
  BY <1>2 DEF Continues
<1>3. CASE Asks(d, step) \/ Rests(d, step)
  <2>1. step.cli \in Clients /\ step.cli.auth_type = d.auth_type /\ step.cli.dlevel = level
    BY <1>1, <1>3 DEF Asks, Rests, Alike
  <2>2. \/ step.cli.at \in {"prompt", "exited"} /\ step.out = <<>>
        \/ /\ step.cli.at \in Asking \ {"greeting"}
           /\ \E l \in Lines : step.out = <<l>> /\ Suits(step.cli, l)
    BY <1>3 DEF Asks, Rests
  <2> QED  BY <2>1, <2>2 DEF Continues, level
<1> QED  BY <1>2, <1>3 DEF Goes

(* It does so at every wait.                                                *)
LEMMA ContinueOK ==
  ASSUME NEW c \in Clients, NEW n \in Nat, NEW e, e.word \in Words, e.next \in Nat,
         c.at \in Asking, c.at \in {"pbsz", "prot"} => c.auth_type
  PROVE  Continues(c, n, Continue(c, n, e))
<1> DEFINE step == Continue(c, n, e)
(* Where nothing but the wait changes. *)
<1>1. ASSUME Goes(c, step), c.at \notin {"greeting", "prot"}
      PROVE  Continues(c, n, step)
  <2> HIDE DEF step
  <2> QED  BY <1>1, GoesContinues
<1>2. CASE c.at = "greeting"
  <2> DEFINE d == [c EXCEPT !.connected = TRUE, !.clevel = "C", !.dlevel = "C"]
  <2>1. d \in Clients /\ d.auth_type = c.auth_type /\ d.dlevel = "C"
    BY Literals DEF Clients
  <2>2. step = IF n > 2 THEN Lostpeer(c)
               ELSE IF opt.autoauth THEN Ask(d, "auth", Send("AUTH", "GSSAPI")) ELSE AskSyst(d)
    BY <1>2 DEF Continue, OnGreeting
  <2> HIDE DEF d, step
  <2>3. Asks(d, Ask(d, "auth", Send("AUTH", "GSSAPI"))) /\ Asks(d, AskSyst(d))
    BY <2>1, AskOK, LoginStepsOK, Literals DEF Asking
  <2>4. CASE n > 2
    BY <2>2, <2>4, RestOK DEF Continues, step
  <2>5. CASE ~(n > 2)
    <3>1. Goes(d, step)
      BY <2>2, <2>3, <2>5 DEF Goes
    <3> QED  BY <1>2, <2>1, <3>1, GoesContinues DEF step
  <2> QED  BY <2>4, <2>5
<1>3. CASE c.at = "auth"
  <2>1. step = OnAuth(c, n, e)
    BY <1>3 DEF Continue
  <2>2. Goes(c, step)
    BY <2>1, AuthStepsOK DEF OnAuth, Goes
  <2> QED  BY <1>1, <1>3, <2>2
<1>4. CASE c.at = "adat"
  <2> DEFINE d == [c EXCEPT !.auth_type = TRUE]
  <2>1. step = OnAdat(c, n, e)
    BY <1>4 DEF Continue
  <2>2. d \in Clients /\ d.dlevel = c.dlevel /\ c.trial \in Nat
    BY DEF Clients
  <2> HIDE DEF d, step
  <2>3. CASE n = 2 /\ e.accepted
    <3>1. step = AfterAuth(d)
      BY <2>1, <2>3 DEF OnAdat, AfterToken, d
    <3>2. Goes(d, step)
      BY <2>2, <3>1, AuthStepsOK DEF Goes
    <3> QED  BY <1>4, <2>2, <2>3, <3>2, GoesContinues DEF step
  <2>4. CASE ~(n = 2 /\ e.accepted)
    <3>1. step \in {AskAdat(c, e.next), AskAdat(c, c.trial), Ask(c, "reauth", Send("AUTH", "GSSAPI"))}
      BY <2>1, <2>4 DEF OnAdat, AfterToken
    <3>2. Asks(c, Ask(c, "reauth", Send("AUTH", "GSSAPI")))
      BY AskOK, Literals DEF Asking
    <3>3. Goes(c, step)
      BY <2>2, <3>1, <3>2, AuthStepsOK DEF Goes
    <3> QED  BY <1>1, <1>4, <3>3 DEF step
  <2> QED  BY <2>3, <2>4
<1>5. CASE c.at = "reauth"
  <2>1. step = AskAdat(c, e.next)
    BY <1>5 DEF Continue
  <2>2. Goes(c, step)
    BY <2>1, AuthStepsOK DEF Goes
  <2> QED  BY <1>1, <1>5, <2>2
<1>6. CASE c.at = "pbsz"
  <2>1. step = IF n = 2 THEN Ask(c, "prot", Send("PROT", c.level))
               ELSE [Lostpeer(c) EXCEPT !.cli.at = "exited"]
    BY <1>6 DEF Continue, OnPbsz
  <2>2. c.level \in Levels
    BY DEF Clients
  <2>3. Asks(c, Ask(c, "prot", Send("PROT", c.level)))
    BY <1>6, <2>2, AskOK, Literals DEF Asking
  <2>4. Goes(c, step)
    BY <2>1, <2>3, RestOK DEF Goes
  <2> QED  BY <1>1, <1>6, <2>4
<1>7. CASE c.at = "prot"
  <2> DEFINE lev == IF n = 2 THEN c.level ELSE c.dlevel
             d == [c EXCEPT !.dlevel = lev]
  <2>1. step = IF c.auto THEN AutoLogin(d) ELSE Rest(d)
    <3>1. d = [c EXCEPT !.dlevel = IF n = 2 THEN c.level ELSE @]
      BY DEF Clients
    <3> QED  BY <1>7, <3>1 DEF Continue, OnProt
  <2>2. lev \in Levels
    BY DEF Clients
  <2> HIDE DEF lev
  <2>3. d \in Clients /\ d.auth_type = c.auth_type /\ d.dlevel = lev
    BY <2>2 DEF Clients
  <2> HIDE DEF d, step
  <2>4. Goes(d, step)
    BY <2>1, <2>3, LoginStepsOK, RestOK DEF Goes
  <2> QED  BY <1>7, <2>3, <2>4, GoesContinues DEF step, lev
<1>8. CASE c.at \in {"user", "pwdcheck", "dummy", "last", "pass"}
  <2>1. step \in {OnUser(c, n, e), OnPwdcheck(c, n), OnDummy(c, n), AfterLogin(c), OnPass(c, n)}
    BY <1>8 DEF Continue
  <2>2. Goes(c, step)
    <3> HIDE DEF step
    <3> QED  BY <2>1, PasswordStepsOK, LoginStepsOK
  <2> QED  BY <1>1, <1>8, <2>2
<1>9. CASE c.at = "ccc"
  <2> DEFINE lev == IF n = 2 THEN "C" ELSE c.clevel
             d == [c EXCEPT !.clevel = lev]
  <2>1. step = Rest(d)
    <3>1. d = [c EXCEPT !.clevel = IF n = 2 THEN "C" ELSE @]
      BY DEF Clients
    <3> QED  BY <1>9, <3>1 DEF Continue, OnCcc
  <2>2. lev \in Levels
    BY Literals DEF Clients
  <2> HIDE DEF lev
  <2>3. Alike(c, d)
    BY <2>2 DEF Clients, Alike
  <2> HIDE DEF d, step
  <2>4. Goes(c, step)
    BY <2>1, <2>3, AlikeGoes, RestOK DEF Goes, Alike
  <2> QED  BY <1>1, <1>9, <2>4 DEF step
<1>10. CASE c.at = "rnfr"
  <2>1. step \in {Ask(c, "other", Send("RNTO", "")), Rest(c)}
    BY <1>10 DEF Continue, OnRnfr
  <2>2. Asks(c, Ask(c, "other", Send("RNTO", "")))
    BY AskOK, Literals DEF Asking
  <2>3. Goes(c, step)
    BY <2>1, <2>2, RestOK DEF Goes
  <2> QED  BY <1>1, <1>10, <2>3
<1>11. CASE c.at \in {"disconnect", "quit"}
  BY <1>11, OnQuitOK DEF Continue, Continues
<1>12. CASE c.at \in {"syst", "other"}
  <2>1. step = Rest(c)
    BY <1>12 DEF Continue
  <2>2. Goes(c, step)
    BY <2>1, RestOK DEF Goes
  <2> QED  BY <1>1, <1>12, <2>2
<1> QED
  BY <1>2, <1>3, <1>4, <1>5, <1>6, <1>7, <1>8, <1>9, <1>10, <1>11, <1>12 DEF Asking

----------------------------------------------------------------------------
(* The inductive invariant. *)
TypeOK ==
  /\ opt \in Setups
  /\ srv \in Sessions /\ srv.said = <<>>
  /\ cli \in Clients
  /\ c2s \in Seq(Lines) /\ s2c \in Seq(Replies)
  /\ claim \in [name : Words, shown : BOOLEAN]
  /\ slip \in BOOLEAN /\ cut \in BOOLEAN

Proven ==
  Secure(srv, claim.name, claim.shown) /\ (srv.fromname => srv.logged_in)

(* Levels are asked for only of a server the client has authenticated.      *)
Entitled == cli.at \in {"pbsz", "prot"} => cli.auth_type

(* While the two are in touch, what is on its way is what the client waits  *)
(* for: a command of that wait, or its reply, which tells the client what   *)
(* the server has done.                                                     *)
InTouch == srv.up /\ ~slip /\ (cli.connected \/ Waiting)
Answered(code) == s2c # <<>> /\ Head(s2c).code \div 100 = code
Paired ==
  /\ Len(c2s) + Len(s2c) = IF Waiting THEN 1 ELSE 0
  /\ \A i \in 1 .. Len(c2s) : Fits(cli, c2s[i]) /\ (~cut => Suits(cli, c2s[i]))
  /\ cli.auth_type => srv.auth_type
  /\ cli.auth_type => \A i \in 1 .. Len(s2c) : s2c[i].prot # "clear"
  /\ cli.at = "adat" /\ Answered(2) => srv.auth_type
  /\ cli.at = "greeting" => c2s = <<>> /\ srv.dlevel = "C" /\ ~cli.connected
  /\ ~cut /\ cli.at # "greeting" =>
       srv.dlevel = IF cli.at = "prot" /\ Answered(2) THEN cli.level ELSE cli.dlevel

Inv == TypeOK /\ Proven /\ Entitled /\ (InTouch => Paired)

(* The invariant has the three properties.                                  *)
LEMMA InvImplies == Inv => InStep /\ Identity /\ LevelsAgree
<1> SUFFICES ASSUME Inv PROVE InStep /\ Identity /\ LevelsAgree
  OBVIOUS
<1>1. s2c \in Seq(Replies)
  BY DEF Inv, TypeOK
<1>2. DOMAIN s2c = 1 .. Len(s2c)
  BY <1>1
<1>3. InStep
  BY <1>2 DEF Inv, InStep, InTouch, Paired
<1>4. Identity
  BY DEF Inv, Proven, Secure, Targets, Identity
<1>5. LevelsAgree
  BY DEF Inv, InTouch, Paired, LevelsAgree, Waiting
<1> QED  BY <1>3, <1>4, <1>5

(* A session starts with nobody in it.                                      *)
LEMMA StartedOK ==
  /\ Started \in Sessions /\ Started.said = <<>> /\ Started.dlevel = "C" /\ ~Started.auth_type
  /\ Started.pw = NoName /\ ~Started.guest /\ ~Started.logged_in /\ ~Started.fromname
<1>1. <<>> \in Seq(Replies) /\ "C" \in Levels /\ NoName \in Words /\ 0 \in Nat
  BY DEF Levels, Words, NoName
<1> QED  BY <1>1 DEF Started, Sessions

(* The client starts without a server.                                      *)
LEMMA DisconnectedOK ==
  /\ Disconnected \in Clients /\ Disconnected.at = "prompt" /\ ~Disconnected.connected
  /\ ~Disconnected.auth_type /\ Disconnected.dlevel = "C"
<1>1. "C" \in Levels /\ NoName \in Words /\ 0 \in Nat
  BY DEF Levels, Words, NoName
<1> QED  BY <1>1 DEF Disconnected, Clients

(* The initial states.                                                      *)
LEMMA InitOK == Init => Inv
<1> SUFFICES ASSUME Init PROVE Inv
  OBVIOUS
<1>1. srv \in Sessions /\ srv.said = <<>> /\ ~srv.up /\ srv.pw = NoName /\ ~srv.guest /\ ~srv.logged_in /\ ~srv.fromname
  <2> DEFINE st == Started
  <2>1. srv = [st EXCEPT !.up = FALSE]
    BY DEF Init
  <2> HIDE DEF st
  <2>2. st \in Sessions /\ st.said = <<>> /\ st.pw = NoName /\ ~st.guest /\ ~st.logged_in /\ ~st.fromname
    BY StartedOK DEF st
  <2> QED  BY <2>1, <2>2 DEF Sessions
<1>2. claim \in [name : Words, shown : BOOLEAN]
  BY DEF Init, Words, NoName
<1>3. TypeOK
  <2>1. c2s \in Seq(Lines) /\ s2c \in Seq(Replies)
    BY DEF Init
  <2>2. slip \in BOOLEAN /\ cut \in BOOLEAN /\ opt \in Setups /\ cli \in Clients
    BY DisconnectedOK DEF Init
  <2> QED  BY <1>1, <1>2, <2>1, <2>2 DEF TypeOK
<1>4. Proven
  BY <1>1 DEF Proven, Secure
<1>5. ~InTouch /\ Entitled
  BY <1>1, DisconnectedOK DEF InTouch, Init, Entitled
<1> QED  BY <1>3, <1>4, <1>5 DEF Inv

(* A session that ends.                                                     *)
LEMMA LeavesOK ==
  ASSUME NEW s \in Sessions, NEW code \in Nat
  PROVE  LET t == [Dologout(Reply(s, code)) EXCEPT !.said = <<>>] IN
         /\ Dologout(Reply(s, code)).said \in Seq(Replies)
         /\ t \in Sessions /\ t.said = <<>> /\ ~t.up
         /\ t.pw = s.pw /\ t.guest = s.guest /\ t.logged_in = s.logged_in /\ t.fromname = s.fromname
<1> DEFINE r == Reply(s, code)
           x == Dologout(r)
           t == [x EXCEPT !.said = <<>>]
<1>1. r \in Sessions /\ SameUser(s, r)
  BY ReplyOK DEF Answers
<1> HIDE DEF r
<1>2. x \in Sessions /\ SameUser(r, x) /\ ~x.up
  BY <1>1 DEF Dologout, Sessions, SameUser
<1> HIDE DEF x
<1>3. x.said \in Seq(Replies) /\ <<>> \in Seq(Replies)
  BY <1>2 DEF Sessions
<1>4. t \in Sessions /\ t.said = <<>> /\ ~t.up /\ SameUser(x, t)
  BY <1>2, <1>3 DEF Sessions, SameUser
<1> QED  BY <1>1, <1>2, <1>3, <1>4 DEF SameUser, x, r

(* The timeout of the server, and the end of its input.                     *)
LEMMA LeaveOK ==
  ASSUME Inv, NEW code \in Nat, Leave(Dologout(Reply(srv, code)))
  PROVE  Inv'
<1> DEFINE x == Dologout(Reply(srv, code))
           t == [x EXCEPT !.said = <<>>]
<1>1. srv \in Sessions
  BY DEF Inv, TypeOK
<1>2. /\ x.said \in Seq(Replies)
      /\ t \in Sessions /\ t.said = <<>> /\ ~t.up
      /\ t.pw = srv.pw /\ t.guest = srv.guest /\ t.logged_in = srv.logged_in /\ t.fromname = srv.fromname
  BY <1>1, LeavesOK
<1>3. /\ srv' = t /\ s2c' = s2c \o x.said
      /\ UNCHANGED <<opt, cli, c2s, claim, slip, cut>>
  BY DEF Leave
<1> HIDE DEF t, x
<1>4. TypeOK'
  BY <1>2, <1>3 DEF Inv, TypeOK
<1>5. Proven'
  BY <1>2, <1>3 DEF Inv, Proven, Secure
<1>6. ~InTouch' /\ Entitled'
  BY <1>2, <1>3 DEF InTouch, Entitled, Inv
<1> QED  BY <1>4, <1>5, <1>6 DEF Inv

(* A killed server leaves what it has sent.                                 *)
LEMMA KilledOK ==
  ASSUME Inv, Killed
  PROVE  Inv'
<1>1. /\ srv' = [srv EXCEPT !.up = FALSE]
      /\ UNCHANGED <<opt, cli, c2s, s2c, claim, slip, cut>>
  BY DEF Killed
<1>2. srv \in Sessions /\ srv.said = <<>>
  BY DEF Inv, TypeOK
<1>3. srv' \in Sessions /\ srv'.said = <<>> /\ ~srv'.up /\ SameUser(srv, srv')
  BY <1>1, <1>2 DEF Sessions, SameUser
<1>4. TypeOK'
  BY <1>1, <1>3 DEF Inv, TypeOK
<1>5. Proven'
  BY <1>1, <1>3 DEF Inv, Proven, Secure, SameUser
<1>6. ~InTouch' /\ Entitled'
  BY <1>1, <1>3 DEF InTouch, Entitled, Inv
<1> QED  BY <1>4, <1>5, <1>6 DEF Inv

(* A new connection starts from nothing.                                    *)
LEMMA OpenOK ==
  ASSUME Inv, NEW u \in Typed, Open(u)
  PROVE  Inv'
<1> DEFINE dis == Disconnected
           greeting == [code |-> 220, prot |-> "clear"]
<1>1. /\ cli' = [dis EXCEPT !.at = "greeting", !.auto = TRUE, !.user = u]
      /\ srv' = Started /\ c2s' = <<>> /\ s2c' = <<greeting>>
      /\ claim' = [name |-> NoName, shown |-> FALSE] /\ slip' = FALSE /\ cut' = FALSE /\ opt' = opt
  BY DEF Open
<1>2. dis \in Clients /\ ~dis.connected /\ ~dis.auth_type
  BY DisconnectedOK
<1>3. u \in Words
  BY PersonAssumption DEF PersonAssumption, Words
<1> HIDE DEF dis
<1>4. cli' \in Clients /\ ~cli'.connected /\ ~cli'.auth_type /\ cli'.at = "greeting"
  BY <1>1, <1>2, <1>3 DEF Clients, Asking
<1>5. greeting \in Replies
  BY DEF Replies
<1> HIDE DEF greeting
<1>6. s2c' \in Seq(Replies) /\ c2s' \in Seq(Lines) /\ Len(s2c') = 1 /\ Len(c2s') = 0
  BY <1>1, <1>5
<1>7. claim' \in [name : Words, shown : BOOLEAN]
  BY <1>1 DEF Words, NoName
<1>8. TypeOK'
  BY <1>1, <1>4, <1>6, <1>7, StartedOK DEF Inv, TypeOK
<1>9. Proven'
  BY <1>1, StartedOK DEF Proven, Secure
<1>10. Paired' /\ Entitled'
  BY <1>1, <1>4, <1>6, StartedOK DEF Paired, Waiting, Entitled
<1> QED  BY <1>8, <1>9, <1>10 DEF Inv

(* A command the person gives at the prompt.                                *)
LEMMA PersonOK ==
  ASSUME Inv, AtPrompt, NEW step, Follow(step), UNCHANGED <<opt, srv, s2c, claim, slip>>,
         Sends(cli, step) \/ Rests(cli, step),
         cut' \in BOOLEAN, ~cut' => ~cut /\ (Asks(cli, step) \/ Rests(cli, step))
  PROVE  Inv'
<1>1. /\ cli' = step.cli /\ c2s' = c2s \o step.out
      /\ UNCHANGED <<opt, srv, s2c, claim, slip>>
  BY DEF Follow
<1>2. TypeOK /\ cli.at = "prompt" /\ cli.connected
  BY DEF Inv, AtPrompt
<1>3. /\ cli' \in Clients /\ cli'.auth_type = cli.auth_type /\ cli'.dlevel = cli.dlevel
      /\ cli'.connected = cli.connected
  BY <1>1 DEF Sends, Rests, Alike
<1>4. \/ cli'.at \in {"prompt", "exited"} /\ step.out = <<>>
      \/ /\ cli'.at \in Asking \ {"greeting"}
         /\ \E l \in Lines : step.out = <<l>> /\ Fits(cli', l) /\ (~cut' => Suits(cli', l))
  <2>1. CASE cut'
    BY <1>1, <2>1 DEF Sends, Rests
  <2>2. CASE ~cut'
    BY <1>1, <2>2 DEF Asks, Rests, Suits
  <2> QED  BY <2>1, <2>2
<1>5. step.out \in Seq(Lines)
  <2>1. ASSUME NEW l \in Lines, step.out = <<l>>
        PROVE  step.out \in Seq(Lines)
    BY <2>1
  <2>2. CASE step.out = <<>>
    BY <2>2
  <2> QED  BY <1>4, <2>1, <2>2
<1>6. TypeOK'
  BY <1>1, <1>2, <1>3, <1>5 DEF TypeOK
<1>7. Proven' /\ Entitled'
  BY <1>1, <1>4 DEF Inv, Proven, Entitled, Fits
<1>8. ASSUME InTouch' PROVE Paired'
  <2>1. Paired /\ ~Waiting
    BY <1>1, <1>2, <1>8 DEF Inv, InTouch, Waiting
  <2>2. c2s = <<>> /\ s2c = <<>>
    BY <1>2, <2>1 DEF Paired, TypeOK
  <2>3. c2s' = step.out /\ s2c' = <<>>
    BY <1>1, <1>5, <2>2
  <2>4. Len(s2c') = 0 /\ ~Answered(2)'
    BY <2>3 DEF Answered
  <2>5. /\ Len(c2s') = IF Waiting' THEN 1 ELSE 0
        /\ \A i \in 1 .. Len(c2s') : Fits(cli', c2s'[i]) /\ (~cut' => Suits(cli', c2s'[i]))
    <3>1. CASE cli'.at \in {"prompt", "exited"} /\ step.out = <<>>
      BY <2>3, <3>1 DEF Waiting
    <3>2. ASSUME NEW l \in Lines, cli'.at \in Asking, step.out = <<l>>,
                 Fits(cli', l), ~cut' => Suits(cli', l)
          PROVE  /\ Len(c2s') = IF Waiting' THEN 1 ELSE 0
                 /\ \A i \in 1 .. Len(c2s') : Fits(cli', c2s'[i]) /\ (~cut' => Suits(cli', c2s'[i]))
      <4>1. Waiting'
        BY <3>2 DEF Waiting, Asking
      <4>2. Len(c2s') = 1 /\ c2s'[1] = l
        BY <2>3, <3>2
      <4> QED  BY <3>2, <4>1, <4>2
    <3> QED  BY <1>4, <3>1, <3>2
  <2>6. cli.at # "greeting" /\ cli'.at # "greeting"
    BY <1>2, <1>4
  <2> QED  BY <1>1, <1>2, <1>3, <2>1, <2>2, <2>3, <2>4, <2>5, <2>6 DEF Paired, Answered
<1> QED  BY <1>6, <1>7, <1>8 DEF Inv

(* A command of ftp itself cuts nothing.                                    *)
LEMMA TypedOK ==
  ASSUME Inv, AtPrompt, NEW step, Asks(cli, step) \/ Rests(cli, step), Follow(step), ClientOnly
  PROVE  Inv'
<1>1. UNCHANGED <<opt, srv, s2c, claim, slip>> /\ cut' = cut /\ cut \in BOOLEAN
  BY DEF ClientOnly, Inv, TypeOK
<1>2. Sends(cli, step) \/ Rests(cli, step)
  BY DEF Asks, Sends, Suits
<1> QED  BY <1>1, <1>2, PersonOK

(* Every command of the prompt is one of those.                             *)
LEMMA AtPromptOK ==
  ASSUME Inv,
         \/ \E u \in Typed : LoginAs(u)
         \/ \E level \in Levels : SetDataLevel(level) \/ SetCommandLevel(level)
         \/ Rename
         \/ \E q \in Quoted : Quote(q)
         \/ \E line \in Ordinary : Simple(line)
         \/ \E at \in {"disconnect", "quit"} : Disconnect(at)
  PROVE  Inv'
<1>1. cli \in Clients
  BY DEF Inv, TypeOK
<1>2. ASSUME NEW u \in Typed, LoginAs(u) PROVE Inv'
  <2> DEFINE d == [cli EXCEPT !.user = u]
  <2>1. u \in Words
    BY PersonAssumption DEF PersonAssumption, Words
  <2>2. Alike(cli, d)
    BY <1>1, <2>1 DEF Alike, Clients
  <2>3. AtPrompt /\ Follow(AskUser(d)) /\ ClientOnly
    BY <1>2 DEF LoginAs
  <2> HIDE DEF d
  <2>4. Asks(cli, AskUser(d))
    <3> DEFINE step == AskUser(d)
    <3>1. Asks(d, step)
      BY <2>2, LoginStepsOK DEF Alike
    <3> HIDE DEF step
    <3>2. Asks(cli, step)
      BY <1>1, <2>2, <3>1, AlikeGoes
    <3> QED  BY <3>2 DEF step
  <2> QED  BY <2>3, <2>4, TypedOK
<1>3. ASSUME NEW level \in Levels, SetDataLevel(level) PROVE Inv'
  <2> DEFINE step == IF level = "C" THEN Ask([cli EXCEPT !.level = level], "prot", Send("PROT", level))
                     ELSE AskPbsz(cli, level)
  <2>1. AtPrompt /\ cli.auth_type /\ Follow(step) /\ ClientOnly
    BY <1>3 DEF SetDataLevel
  <2>2. Asks(cli, step)
    BY <1>1, <2>1, AskProtOK, AskPbszOK
  <2> HIDE DEF step
  <2> QED  BY <2>1, <2>2, TypedOK
<1>4. ASSUME NEW level \in Levels, SetCommandLevel(level) PROVE Inv'
  <2> DEFINE d == [cli EXCEPT !.clevel = level]
             step == IF level = "C" THEN Ask(cli, "ccc", Send("CCC", "")) ELSE Rest(d)
  <2>1. AtPrompt /\ Follow(step) /\ ClientOnly
    BY <1>4 DEF SetCommandLevel
  <2>2. Alike(cli, d)
    BY <1>1 DEF Alike, Clients
  <2> HIDE DEF d
  <2>3. Rests(cli, Rest(d))
    BY <1>1, <2>2, RestOK, AlikeGoes DEF Alike
  <2>4. Asks(cli, Ask(cli, "ccc", Send("CCC", "")))
    BY <1>1, AskOK, Literals DEF Asking
  <2>5. Asks(cli, step) \/ Rests(cli, step)
    BY <2>3, <2>4
  <2> HIDE DEF step
  <2> QED  BY <2>1, <2>5, TypedOK
<1>5. ASSUME Rename PROVE Inv'
  <2>1. Asks(cli, Ask(cli, "rnfr", Send("RNFR", "")))
    BY <1>1, AskOK, Literals DEF Asking
  <2> QED  BY <1>5, <2>1, TypedOK DEF Rename
<1>6. ASSUME NEW q \in Quoted, Quote(q) PROVE Inv'
  <2> DEFINE step == Ask(cli, "other", Send(q.cmd, q.arg))
  <2>1. q \in [cmd : STRING, arg : STRING] /\ (q.cmd = "PROT" => q.arg \in Levels)
    BY PersonAssumption DEF PersonAssumption
  <2>2. q.cmd \in Verbs /\ q.arg \in Words
    BY <2>1 DEF Verbs, Words
  <2>3. Sends(cli, step) /\ (q.cmd # "PROT" => Asks(cli, step))
    BY <1>1, <2>1, <2>2, SendOK DEF Asking
  <2>4. Ask(cli, "other", q) = step
    BY DEF Ask, Send
  <2> HIDE DEF step
  <2>5. /\ AtPrompt /\ Follow(step) /\ UNCHANGED <<opt, srv, s2c, claim, slip>>
        /\ cut' = (cut \/ q.cmd = "PROT") /\ cut \in BOOLEAN
    BY <1>6, <2>4 DEF Quote, Inv, TypeOK
  <2> QED  BY <2>3, <2>5, PersonOK
<1>7. ASSUME NEW q \in Ordinary, Simple(q) PROVE Inv'
  <2>1. q \in [cmd : STRING, arg : STRING] /\ q.cmd # "PROT"
    BY PersonAssumption DEF PersonAssumption
  <2>2. q.cmd \in Verbs /\ q.arg \in Words
    BY <2>1 DEF Verbs, Words
  <2>3. Asks(cli, Ask(cli, "other", Send(q.cmd, q.arg)))
    BY <1>1, <2>1, <2>2, AskOK DEF Asking
  <2>4. Ask(cli, "other", q) = Ask(cli, "other", Send(q.cmd, q.arg))
    BY DEF Ask, Send
  <2>5. AtPrompt /\ Follow(Ask(cli, "other", q)) /\ ClientOnly
    BY <1>7 DEF Simple
  <2> QED  BY <2>3, <2>4, <2>5, TypedOK
<1>8. ASSUME NEW at \in {"disconnect", "quit"}, Disconnect(at) PROVE Inv'
  <2>1. Asks(cli, Ask(cli, at, Send("QUIT", "")))
    BY <1>1, AskOK, Literals DEF Asking
  <2> QED  BY <1>8, <2>1, TypedOK DEF Disconnect
<1> QED  BY <1>2, <1>3, <1>4, <1>5, <1>6, <1>7, <1>8

(* The interrupt only sets the flag.                                        *)
LEMMA InterruptOK ==
  ASSUME Inv, Interrupt
  PROVE  Inv'
<1>1. /\ cli' = [cli EXCEPT !.abrtflag = TRUE]
      /\ UNCHANGED <<opt, srv, c2s, s2c, claim, slip, cut>>
  BY DEF Interrupt
<1>2. cli \in Clients
  BY DEF Inv, TypeOK
<1>3. /\ cli' \in Clients /\ cli'.at = cli.at /\ cli'.auth_type = cli.auth_type /\ cli'.dlevel = cli.dlevel
      /\ cli'.connected = cli.connected /\ cli'.level = cli.level
  BY <1>1, <1>2 DEF Clients
<1>4. TypeOK'
  BY <1>1, <1>3 DEF Inv, TypeOK
<1>5. Proven' /\ Entitled'
  BY <1>1, <1>3 DEF Inv, Proven, Entitled
<1>6. InTouch' => Paired'
  <2> SUFFICES ASSUME InTouch' PROVE Paired'
    OBVIOUS
  <2>1. Paired
    BY <1>1, <1>3 DEF Inv, InTouch, Waiting
  <2>2. \A l : (Fits(cli, l) => Fits(cli', l)) /\ (Suits(cli, l) => Suits(cli', l))
    BY <1>3 DEF Suits, Fits
  <2>3. Waiting' <=> Waiting
    BY <1>3 DEF Waiting
  <2>4. Answered(2)' <=> Answered(2)
    BY <1>1 DEF Answered
  <2> QED  BY <1>1, <1>3, <2>1, <2>2, <2>3, <2>4 DEF Paired
<1> QED  BY <1>4, <1>5, <1>6 DEF Inv

(* The client takes a reply, or the end of the connection.                  *)
LEMMA PartsOK ==
  ASSUME Inv, NEW step, Parts(step), Follow(step), UNCHANGED <<opt, srv, claim, slip>>,
         s2c' \in Seq(Replies), cut' \in BOOLEAN
  PROVE  Inv'
<1>1. cli' = step.cli /\ c2s' = c2s \o step.out
  BY DEF Follow
<1>2. /\ cli' \in Clients /\ ~cli'.connected /\ cli'.at \in {"prompt", "exited"} /\ step.out = <<>>
  BY <1>1 DEF Parts
<1>3. c2s' = c2s
  BY <1>1, <1>2 DEF Inv, TypeOK
<1>4. TypeOK'
  BY <1>2, <1>3 DEF Inv, TypeOK
<1>5. Proven'
  BY DEF Inv, Proven
<1>6. ~InTouch' /\ Entitled'
  BY <1>2 DEF InTouch, Waiting, Entitled
<1> QED  BY <1>4, <1>5, <1>6 DEF Inv

(* The end of the connection.                                               *)
LEMMA GetreplyEofOK ==
  ASSUME Inv, GetreplyEof
  PROVE  Inv'
<1>1. TypeOK /\ ~srv.up /\ UNCHANGED <<opt, srv, s2c, claim, slip, cut>>
  BY DEF Inv, GetreplyEof, ClientOnly
<1>2. \E step \in {Gone(cli), Rest(cli), OnQuit(cli)} : Follow(step)
  BY DEF GetreplyEof
<1>3. PICK step \in {Gone(cli), Rest(cli), OnQuit(cli)} : Follow(step)
  BY <1>2
<1>4. CASE Parts(step)
  BY <1>1, <1>3, <1>4, PartsOK DEF TypeOK
<1>5. CASE Rests(cli, step)
  <2>1. cli' \in Clients /\ c2s' = c2s /\ cli'.at \in {"prompt", "exited"}
    BY <1>1, <1>3, <1>5 DEF Rests, Alike, Follow, TypeOK
  <2>2. TypeOK'
    BY <1>1, <2>1 DEF TypeOK
  <2>3. Proven' /\ ~InTouch' /\ Entitled'
    BY <1>1, <2>1 DEF Inv, Proven, InTouch, Entitled
  <2> QED  BY <2>2, <2>3 DEF Inv
<1> QED
  BY <1>1, <1>3, <1>4, <1>5, OnQuitOK, RestOK DEF TypeOK

(* What is decided elsewhere has its type.                                  *)
LEMMA OutcomesOK ==
  ASSUME Inv, NEW e \in Outcomes
  PROVE  e.word \in Words /\ e.next \in Nat
<1>1. e.word \in Words
  BY Literals DEF Outcomes, Words
<1>2. cli.trial \in Nat
  BY DEF Inv, TypeOK, Clients
<1>3. e.next \in (cli.trial + 1) .. 3 \/ e.next \in {3}
  BY DEF Outcomes
<1> QED  BY <1>1, <1>2, <1>3

(* getreply() and what follows it.                                          *)
LEMMA GetreplyOK ==
  ASSUME Inv, NEW e \in Outcomes, Getreply(e)
  PROVE  Inv'
<1> DEFINE r == Head(s2c)
           n == FirstDigit(r)
<1>1. /\ Waiting /\ s2c # <<>> /\ s2c' = Tail(s2c)
      /\ UNCHANGED <<opt, srv, claim, slip>>
  BY DEF Getreply
<1>2. TypeOK
  BY DEF Inv
<1>3. /\ r \in Replies /\ s2c' \in Seq(Replies) /\ r = s2c[1]
      /\ Len(s2c) \in Nat \ {0} /\ Len(s2c') = Len(s2c) - 1
  BY <1>1, <1>2 DEF TypeOK
<1>4. n \in Nat
  <2>1. r.code \in Nat
    BY <1>3 DEF Replies
  <2> HIDE DEF r
  <2>2. r.code \div 100 \in Nat
    BY <2>1
  <2> QED  BY <2>2 DEF FirstDigit
<1>5. cli \in Clients /\ cli.at \in Asking
  BY <1>1, <1>2 DEF TypeOK, Waiting, Clients
<1>6. InTouch' => InTouch /\ Paired /\ Len(s2c) = 1 /\ c2s = <<>> /\ s2c' = <<>>
  <2> SUFFICES ASSUME InTouch' PROVE InTouch /\ Paired /\ Len(s2c) = 1 /\ c2s = <<>> /\ s2c' = <<>>
    OBVIOUS
  <2>1. InTouch /\ Paired
    BY <1>1 DEF Inv, InTouch
  <2>2. Len(s2c) = 1 /\ Len(c2s) = 0
    BY <1>1, <1>2, <1>3, <2>1 DEF Paired, TypeOK
  <2>3. c2s = <<>> /\ s2c' = <<>>
    BY <1>2, <1>3, <2>2 DEF TypeOK
  <2> QED  BY <2>1, <2>2, <2>3
<1>7. Proven'
  BY <1>1 DEF Inv, Proven
(* A reply that is passed over for want of protection. *)
<1>8. CASE cli.auth_type /\ r.prot = "clear"
  <2>1. UNCHANGED <<cli, c2s, cut>>
    BY <1>8 DEF Getreply
  <2>2. TypeOK'
    BY <1>1, <1>2, <1>3, <2>1 DEF TypeOK
  <2>3. (InTouch' => FALSE) /\ Entitled'
    BY <1>3, <1>6, <1>8, <2>1 DEF Paired, Entitled, Inv
  <2> QED  BY <1>7, <2>2, <2>3 DEF Inv
<1>9. CASE ~(cli.auth_type /\ r.prot = "clear")
  <2> DEFINE step == CASE n = 4 /\ r.code = 421 -> Gone(cli)
                       [] cli.abrtflag /\ ~(n = 4 /\ r.code = 421) -> Rest(cli)
                       [] OTHER -> Continue(cli, n, e)
  <2>1. Follow(step) /\ cut' = (cut \/ (cli.abrtflag /\ cli.at = "prot"))
    BY <1>9 DEF Getreply
  <2>2. \/ step = Gone(cli) \/ (cli.abrtflag /\ step = Rest(cli)) \/ step = Continue(cli, n, e)
    OBVIOUS
  <2> HIDE DEF step
  <2>3. cut' \in BOOLEAN /\ (~cut' => ~cut)
    BY <2>1, <1>2 DEF TypeOK
  <2>4. CASE Parts(step)
    BY <1>1, <1>3, <2>1, <2>3, <2>4, PartsOK
  (* Interrupted: the client rests, and forgets a level it has asked for. *)
  <2>5. CASE cli.abrtflag /\ step = Rest(cli)
    <3>1. Rests(cli, step)
      BY <1>5, <2>5, RestOK
    <3>2. /\ cli' \in Clients /\ cli'.at \in {"prompt", "exited"} /\ c2s' = c2s
          /\ cli'.auth_type = cli.auth_type /\ cli'.dlevel = cli.dlevel /\ cli'.connected = cli.connected
      BY <1>2, <2>1, <3>1 DEF Rests, Alike, Follow, TypeOK
    <3>3. TypeOK'
      BY <1>1, <1>2, <1>3, <2>3, <3>2 DEF TypeOK
    <3>4. InTouch' => Paired'
      <4> SUFFICES ASSUME InTouch' PROVE Paired'
        OBVIOUS
      <4>1. Paired /\ c2s' = <<>> /\ s2c' = <<>> /\ ~Waiting' /\ cli.connected
        BY <1>6, <3>2 DEF InTouch, Waiting
      <4>2. ~cut' => cli.at # "prot"
        BY <2>1, <2>5
      <4> QED  BY <1>1, <2>3, <3>2, <4>1, <4>2 DEF Paired, Answered
    <3>5. Entitled'
      BY <3>2 DEF Entitled
    <3> QED  BY <1>7, <3>3, <3>4, <3>5 DEF Inv
  <2>6. CASE ~Parts(step) /\ step = Continue(cli, n, e)
    <3>1. Continues(cli, n, step)
      BY <1>4, <1>5, <2>6, ContinueOK, OutcomesOK DEF Inv, Entitled
    <3>2. /\ cli' \in Clients /\ c2s' = c2s \o step.out
          /\ \/ cli'.at \in {"prompt", "exited"} /\ step.out = <<>>
             \/ /\ cli'.at \in Asking \ {"greeting"}
                /\ \E l \in Lines : step.out = <<l>> /\ Suits(cli', l)
          /\ cli'.auth_type => cli.auth_type \/ (cli.at = "adat" /\ n = 2)
          /\ cli'.dlevel = CASE cli.at = "greeting" -> "C"
                             [] cli.at = "prot" /\ n = 2 -> cli.level
                             [] OTHER -> cli.dlevel
      BY <2>1, <2>6, <3>1 DEF Continues, Follow
    <3>3. step.out \in Seq(Lines)
      <4>1. ASSUME NEW l \in Lines, step.out = <<l>>
            PROVE  step.out \in Seq(Lines)
        BY <4>1
      <4>2. CASE step.out = <<>>
        BY <4>2
      <4> QED  BY <3>2, <4>1, <4>2
    <3>4. TypeOK'
      BY <1>1, <1>2, <1>3, <2>3, <3>2, <3>3 DEF TypeOK
    <3>5. InTouch' => Paired'
      <4> SUFFICES ASSUME InTouch' PROVE Paired'
        OBVIOUS
      <4>1. InTouch /\ Paired /\ Len(s2c) = 1 /\ c2s = <<>> /\ s2c' = <<>>
        BY <1>6
      <4>2. c2s' = step.out /\ Len(s2c') = 0 /\ ~Answered(2)'
        BY <3>2, <3>3, <4>1 DEF Answered
      <4>3. /\ Len(c2s') = IF Waiting' THEN 1 ELSE 0
            /\ \A i \in 1 .. Len(c2s') : Fits(cli', c2s'[i]) /\ Suits(cli', c2s'[i])
        <5>1. CASE cli'.at \in {"prompt", "exited"} /\ step.out = <<>>
          BY <4>2, <5>1 DEF Waiting
        <5>2. ASSUME NEW l \in Lines, cli'.at \in Asking, step.out = <<l>>, Suits(cli', l)
              PROVE  /\ Len(c2s') = IF Waiting' THEN 1 ELSE 0
                     /\ \A i \in 1 .. Len(c2s') : Fits(cli', c2s'[i]) /\ Suits(cli', c2s'[i])
          <6>1. Waiting'
            BY <5>2 DEF Waiting, Asking
          <6>2. Len(c2s') = 1 /\ c2s'[1] = l
            BY <4>2, <5>2
          <6> QED  BY <5>2, <6>1, <6>2 DEF Suits
        <5> QED  BY <3>2, <5>1, <5>2
      <4>5. cli'.at # "greeting"
        BY <3>2
      <4>6. n = 2 => Answered(2)
        BY <1>1 DEF FirstDigit, Answered
      <4>7. cli'.auth_type => srv'.auth_type
        BY <1>1, <3>2, <4>1, <4>6 DEF Paired
      (* The client sees the reply to a PROT as it is: it is authenticated. *)
      <4>8. cli.at = "prot" => (n = 2 <=> Answered(2))
        BY <1>1, <4>1 DEF FirstDigit, Answered, Inv, Entitled
      <4>9. ~cut' => srv'.dlevel = cli'.dlevel
        BY <1>1, <2>3, <3>2, <4>1, <4>8 DEF Paired
      <4> QED  BY <4>1, <4>2, <4>3, <4>5, <4>7, <4>9 DEF Paired
    <3>6. Entitled'
      BY <3>2 DEF Suits, Fits, Entitled
    <3> QED  BY <1>7, <3>4, <3>5, <3>6 DEF Inv
  <2>7. Parts(Gone(cli))
    BY <1>5, OnQuitOK
  <2> QED  BY <2>2, <2>4, <2>5, <2>6, <2>7
<1> QED  BY <1>8, <1>9

(* The server answers one command.                                          *)
LEMMA ServeOK ==
  ASSUME Inv, Serve
  PROVE  Inv'
<1> DEFINE c == Head(c2s)
<1>1. /\ srv.up /\ c2s # <<>> /\ c2s' = Tail(c2s)
      /\ UNCHANGED <<opt, cli, cut>>
  BY DEF Serve
<1>2. PICK e \in Environment(srv, c) :
        LET t == Getline(opt, srv, c, e) IN
        /\ srv' = [t EXCEPT !.said = <<>>]
        /\ s2c' = s2c \o t.said
        /\ slip' = (slip \/ Len(t.said) > 1)
        /\ claim' = Claimed(c, t)
  BY DEF Serve
<1> DEFINE t == Getline(opt, srv, c, e)
<1>3. TypeOK /\ Proven
  BY DEF Inv
<1>4. /\ c \in Lines /\ c = c2s[1] /\ c2s' \in Seq(Lines)
      /\ Len(c2s) \in Nat \ {0} /\ Len(c2s') = Len(c2s) - 1
  BY <1>1, <1>3 DEF TypeOK
<1>5. e.ok \in BOOLEAN /\ e.kdc \in BOOLEAN /\ (c.cmd = "ADAT" => e.result \in TokenResults(srv))
  BY DEF Environment
<1>6. /\ claim.name \in Words /\ claim.shown \in BOOLEAN
      /\ claim = [name |-> claim.name, shown |-> claim.shown]
      /\ \A x : [claim EXCEPT !.shown = x] = [name |-> claim.name, shown |-> x]
  BY <1>3 DEF TypeOK
<1>7. Served(srv, c, claim.name, claim.shown, t)
  <2>1. c.cmd = "PROT" => c.arg \in Levels
    BY <1>4 DEF Lines
  <2> HIDE DEF c
  <2> QED  BY <1>3, <1>4, <1>5, <1>6, <2>1, GetlineOK DEF TypeOK, Proven
<1>8. /\ srv' = [t EXCEPT !.said = <<>>] /\ s2c' = s2c \o t.said
      /\ slip' = (slip \/ Len(t.said) > 1) /\ claim' = Claimed(c, t)
  BY <1>2
<1> HIDE DEF t, c
<1>9. t \in Sessions /\ t.said \in Seq(Replies) /\ Len(t.said) \in Nat /\ Len(t.said) > 0
  <2>1. Answers(srv, t) /\ srv.said = <<>>
    BY <1>3, <1>7 DEF Served, TypeOK
  <2> QED  BY <2>1 DEF Answers, Sessions
<1>10. /\ srv' \in Sessions /\ srv'.said = <<>> /\ SameUser(t, srv') /\ srv'.auth_type = t.auth_type
       /\ srv'.up = t.up
  <2>1. <<>> \in Seq(Replies)
    OBVIOUS
  <2> QED  BY <1>8, <1>9, <2>1 DEF Sessions, SameUser
<1> DEFINE named == c.cmd = "USER" /\ Last(t) \in {331, 232}
           proved == c.cmd = "PASS" /\ c.arg = "right" /\ Last(t) = 230
           may == srv.auth_type /\ c.arg \in KUserOK
<1>11. claim' = IF named THEN [name |-> c.arg, shown |-> may]
                ELSE [name |-> claim.name, shown |-> claim.shown \/ proved]
  <2>1. claim' = IF named THEN [name |-> c.arg, shown |-> may]
                 ELSE IF proved THEN [claim EXCEPT !.shown = TRUE] ELSE claim
    <3>1. claim' = CASE named -> [name |-> c.arg, shown |-> may]
                     [] proved -> [claim EXCEPT !.shown = TRUE]
                     [] OTHER -> claim
      BY <1>8 DEF Claimed, Last
    <3>2. ~(named /\ proved)
      OBVIOUS
    <3> HIDE DEF named, proved, may
    <3> QED  BY <3>1, <3>2
  <2>2. claim.shown \/ proved \in BOOLEAN
    OBVIOUS
  <2>3. proved => (claim.shown \/ proved) = TRUE
    OBVIOUS
  <2>4. ~proved => (claim.shown \/ proved) = claim.shown
    BY <1>6
  <2> HIDE DEF named, proved, may
  <2> QED  BY <1>6, <2>1, <2>3, <2>4
<1>12. claim' \in [name : Words, shown : BOOLEAN]
  <2>1. c.arg \in Words
    BY <1>4 DEF Lines
  <2>2. may \in BOOLEAN /\ (claim.shown \/ proved) \in BOOLEAN
    OBVIOUS
  <2> HIDE DEF named, proved, may
  <2> QED  BY <1>6, <1>11, <2>1, <2>2
<1>13. TypeOK'
  <2>1. s2c' \in Seq(Replies) /\ slip' \in BOOLEAN
    BY <1>3, <1>8, <1>9 DEF TypeOK
  <2> QED  BY <1>1, <1>3, <1>4, <1>10, <1>12, <2>1 DEF TypeOK
<1>14. Proven'
  <2>1. Secure(t, claim'.name, claim'.shown)
    <3>1. CASE named
      <4>1. Secure(t, c.arg, may)
        BY <1>7, <3>1 DEF Served
      <4>2. claim'.name = c.arg /\ claim'.shown = may
        BY <1>11, <3>1
      <4> HIDE DEF may
      <4> QED  BY <4>1, <4>2
    <3>2. CASE ~named
      <4>1. Secure(t, claim.name, claim.shown \/ proved)
        BY <1>7, <3>2 DEF Served
      <4>2. claim'.name = claim.name /\ claim'.shown = (claim.shown \/ proved)
        BY <1>11, <3>2
      <4> HIDE DEF proved
      <4> QED  BY <4>1, <4>2 DEF Secure
    <3> QED  BY <3>1, <3>2
  <2>2. t.fromname => t.logged_in
    BY <1>7 DEF Served
  <2> QED  BY <1>10, <2>1, <2>2 DEF Proven, Secure, SameUser
<1>15. Entitled'
  BY <1>1 DEF Inv, Entitled
<1>16. InTouch' => Paired'
  <2> SUFFICES ASSUME InTouch' PROVE Paired'
    OBVIOUS
  <2>1. ~slip /\ Len(t.said) = 1
    <3>1. ~slip'
      BY DEF InTouch
    <3>2. ~(slip \/ Len(t.said) > 1)
      BY <1>8, <3>1
    <3>3. ~slip
      BY <3>2
    <3>4. Len(t.said) \in Nat /\ Len(t.said) > 0
      BY <1>9
    <3>5. ~(Len(t.said) > 1)
      BY <3>2
    <3>6. \A n \in Nat : n > 0 /\ ~(n > 1) => n = 1
      OBVIOUS
    <3> QED  BY <3>3, <3>4, <3>5, <3>6, Zenon
  <2>2. InTouch /\ Paired
    BY <1>1, <2>1 DEF Inv, InTouch, Waiting
  <2>3. Len(c2s) = 1 /\ Len(s2c) = 0 /\ Waiting
    BY <1>3, <1>4, <2>2 DEF Paired, TypeOK
  <2>4. s2c = <<>> /\ s2c' = t.said /\ Len(s2c') = 1 /\ c2s' = <<>> /\ Len(c2s') = 0
    BY <1>3, <1>4, <1>8, <1>9, <2>1, <2>3 DEF TypeOK
  <2>5. Waiting'
    BY <1>1, <2>3 DEF Waiting
  <2>6. Fits(cli, c) /\ (~cut => Suits(cli, c))
    BY <1>4, <2>2, <2>3 DEF Paired
  <2>7. Head(s2c') = t.said[1] /\ Head(s2c').code = Last(t)
    BY <1>9, <2>1, <2>4 DEF Last
  <2>8. Answered(2)' <=> Last(t) \div 100 = 2
    BY <2>4, <2>7 DEF Answered
  <2>9. srv.auth_type => srv'.auth_type /\ (\A i \in 1 .. Len(s2c') : s2c'[i].prot # "clear")
    <3>1. Answers(srv, t) /\ Sealed(srv)
      BY <1>3, <1>7 DEF Served, Sealed, TypeOK
    <3> QED  BY <1>10, <2>4, <3>1 DEF Answers, Sealed
  <2>10. cli.at = "adat" /\ Last(t) \div 100 = 2 => srv'.auth_type
    BY <1>7, <1>10, <2>6 DEF Served, Fits
  <2>11. cli.at # "greeting"
    BY <1>1, <2>2 DEF Paired
  <2>12. ~cut => srv'.dlevel = IF cli.at = "prot" /\ Last(t) \div 100 = 2 THEN cli.level ELSE cli.dlevel
    <3>1. ~cut =>
            t.dlevel = IF cli.at = "prot" /\ Last(t) \div 100 = 2 THEN cli.level ELSE srv.dlevel
      BY <1>7, <2>6 DEF Served, Suits, Fits
    <3>2. ~cut => srv.dlevel = cli.dlevel
      BY <2>2, <2>4, <2>11 DEF Paired, Answered
    <3> QED  BY <1>10, <3>1, <3>2 DEF SameUser
  <2> QED  BY <1>1, <2>2, <2>4, <2>5, <2>8, <2>9, <2>10, <2>11, <2>12 DEF Paired
<1> QED  BY <1>13, <1>14, <1>15, <1>16 DEF Inv

(* Every step keeps the invariant.                                          *)
LEMMA StepOK == Inv /\ [Next]_vars => Inv'
<1> SUFFICES ASSUME Inv, [Next]_vars PROVE Inv'
  OBVIOUS
<1>1. ASSUME NEW u \in Typed, Open(u) PROVE Inv'
  BY <1>1, OpenOK
<1>2. ASSUME NEW e \in Outcomes, Getreply(e) PROVE Inv'
  BY <1>2, GetreplyOK
<1>3. CASE Interrupt \/ GetreplyEof \/ Serve \/ Killed
  BY <1>3, InterruptOK, GetreplyEofOK, ServeOK, KilledOK
<1>4. CASE Timeout \/ Hangup
  BY <1>4, LeaveOK DEF Timeout, Hangup, Toolong, EndOfInput
<1>5. CASE UNCHANGED vars
  BY <1>5 DEF vars, Inv, TypeOK, Proven, Entitled, InTouch, Paired, Waiting, Answered
<1> QED
  BY <1>1, <1>2, <1>3, <1>4, <1>5, AtPromptOK DEF Next

(* The invariant holds.                                                     *)
LEMMA InvHolds == Spec => []Inv
BY InitOK, StepOK, PTL DEF Spec

(* Both programs and both directions of the control connection are always   *)
(* well typed, with every reply of ftpd already sent between two commands.  *)
THEOREM TypeCorrect == Spec => []TypeOK
<1>1. Inv => TypeOK
  BY DEF Inv
<1> QED  BY <1>1, InvHolds, PTL

(* Whoever ftpd has logged in is the user of the last USER it did not       *)
(* refuse and has shown it since, or is the guest, whatever was tried in    *)
(* between; and the name of a RNFR is never left to one who is not logged   *)
(* in (ftpd.c:665, 928, ftpcmd.y:371).                                      *)
THEOREM IdentityHolds == Spec => []Identity
BY InvHolds, InvImplies, PTL

(* While the connection lives and every command was answered once, there is *)
(* one line on its way when the client waits and none when it does not, and *)
(* it is never one the client would pass over (ftp.c:492, 546).             *)
THEOREM InStepHolds == Spec => []InStep
BY InvHolds, InvImplies, PTL

(* The client believes in no authentication ftpd has not made, and at rest  *)
(* both have the same level for data, unless a PROT was interrupted or      *)
(* quoted.                                                                  *)
THEOREM LevelsAgreeHolds == Spec => []LevelsAgree
BY InvHolds, InvImplies, PTL
=============================================================================
