---------------------------- MODULE TelnetEncrypt ----------------------------
(***************************************************************************)
(* The ENCRYPT option of libtelnet (encrypt.c, enc_des.c) in a client and  *)
(* a server: which type to encrypt with, the initial vector, the key id,   *)
(* START and END, and the requests for them.  Either side writes under the *)
(* cipher it has switched on, and reads under the one it has been told of. *)
(* The option itself is agreed on (TelnetNegotiation); what the messages   *)
(* go through on their way out is in TelnetRing and TelnetdNetbuf.         *)
(***************************************************************************)
EXTENDS Naturals, Sequences

CONSTANTS
    Settings,     \* the command lines: <<the client's -x, the server must encrypt>>
    Commands,     \* the encrypt commands the user may give: <<verb, type, mode>>
    MaxCommands   \* bound on the number of the user's commands

\* The types of encryption in the order of encryptions[], and none of them.
TypeOrder == <<"DES_CFB64", "DES_OFB64">>
Types     == {"DES_CFB64", "DES_OFB64"}
None      == "clear"

Verbs == {"enable", "disable", "type", "start", "stop", "autoencrypt", "autodecrypt"}
Modes == {"input", "output", "both"}

EncryptAssumption ==
    /\ Settings \subseteq BOOLEAN \X BOOLEAN
    /\ Commands \subseteq Verbs \X Types \X Modes
    /\ MaxCommands \in Nat

ASSUME EncryptAssumption

VARIABLES
    cli,      \* the client
    srv,      \* the server
    commands, \* the number of commands the user has given
    given     \* their verbs

vars == <<cli, srv, commands, given>>

\* What is left to do before a stream of one type may be used; FAILED is the
\* state before anything has been done.
Steps       == {"NO_SEND_IV", "NO_RECV_IV", "NO_KEYID"}
IN_PROGRESS == Steps
SUCCESS     == {}
FAILED      == {"FAILED"}
StreamState == (SUBSET Steps) \cup {FAILED}

Says == {"DO", "WILL", "SUPPORT", "IS", "REPLY", "ENC_KEYID", "DEC_KEYID",
         "START", "END", "REQSTART", "REQEND", "ACCEPT"}

\* A message is written under the cipher enc.  The only key id is a zero byte:
\* len is its length, 0 in a refusal.
Message == [say : Says, type : Types \cup {None}, len : 0..1,
            enc : Types \cup {None}]

\* One side as encrypt_init() and enc_des.c leave it; out is what it has written
\* and the other side has not yet read.
Side(isServer, auto, todo) ==
    [server |-> isServer,
     out |-> todo,
     support        |-> TRUE,     \* str_suplen # 0: SUPPORT is still to be sent
     i_encrypt      |-> Types,    \* I_SUPPORT_ENCRYPT, I_SUPPORT_DECRYPT
     i_decrypt      |-> Types,
     remote_decrypt |-> {},       \* remote_supports_decrypt, _encrypt
     remote_encrypt |-> {},
     autoencrypt    |-> auto,
     autodecrypt    |-> auto,
     havesessionkey |-> FALSE,
     encrypt_mode   |-> None,
     decrypt_mode   |-> None,
     encrypt_output |-> None,
     decrypt_input  |-> None,
     need_start     |-> {},       \* types that wait for the session key
     enc            |-> [t \in Types |-> FAILED],   \* fb[t].state[DIR_ENCRYPT]
     dec            |-> [t \in Types |-> FAILED],   \* fb[t].state[DIR_DECRYPT]
     enc_keylen     |-> 0,                          \* ki[0].keylen
     dec_keylen     |-> 0,                          \* ki[1].keylen
     phase          |-> IF isServer THEN "auth" ELSE IF auto THEN "waiting" ELSE "main",
     must           |-> FALSE,    \* must_encrypt || auth_must_encrypt()
     willed         |-> FALSE]    \* the server has sent WILL ENCRYPT

Plain(say) == [say |-> say, type |-> None, len |-> 0, enc |-> None]

\* telnet() opens with DO ENCRYPT and WILL ENCRYPT (telnetport, or -x).
Init == \E s \in Settings :
            /\ cli = Side(FALSE, s[1], <<Plain("DO"), Plain("WILL")>>)
            /\ srv = [Side(TRUE, FALSE, <<>>) EXCEPT !.must = s[2]]
            /\ commands = 0
            /\ given = {}

-----------------------------------------------------------------------------
(* What the handlers are made of.                                          *)

Write(s, say, t, len) ==
    [s EXCEPT !.out = Append(@, [say |-> say, type |-> t, len |-> len,
                                 enc |-> s.encrypt_output])]

CanEncrypt(s) == s.i_encrypt \cap s.remote_decrypt     \* findencryption()
CanDecrypt(s) == s.i_decrypt \cap s.remote_encrypt     \* finddecryption()

\* fb64_start(DIR_ENCRYPT): a vector is made up and sent once the key is there.
StartFb(s, t) ==
    LET state == IF s.enc[t] = FAILED THEN IN_PROGRESS ELSE s.enc[t]
    IN  IF "NO_SEND_IV" \notin state THEN s
        ELSE IF ~s.havesessionkey
        THEN [s EXCEPT !.need_start = @ \cup {t}, !.enc[t] = state]
        ELSE Write([s EXCEPT !.enc[t] = (state \ {"NO_SEND_IV"}) \cup {"NO_RECV_IV"}],
                   "IS", t, 0)

BugSwitchOn(s, t) ==
    Write([s EXCEPT !.encrypt_output = t, !.encrypt_mode = t],
          "START", None, s.enc_keylen)

\* START is written before the switch, under the cipher in use until then.
SwitchOn(s, t) ==
    [Write(s, "START", None, s.enc_keylen)
        EXCEPT !.encrypt_output = t, !.encrypt_mode = t]

\* encrypt_start_output(): nothing but the vector until all is agreed on.
StartOutput(s, t) ==
    IF t \notin CanEncrypt(s) THEN s
    ELSE LET r == StartFb(s, t)
         IN  IF r.enc[t] = SUCCESS THEN SwitchOn(r, t) ELSE r

\* encrypt_send_end().
SendEnd(s) ==
    IF s.encrypt_output = None THEN s
    ELSE [Write(s, "END", None, 0) EXCEPT !.encrypt_output = None]

SendRequestStart(s) == Write(s, "REQSTART", None, s.dec_keylen)
SendRequestEnd(s)   == Write(s, "REQEND", None, 0)

\* encrypt_send_support(), once; the list was made by encrypt_init().
SendSupport(s) ==
    IF ~s.support THEN s
    ELSE [Write(IF ~s.server /\ s.autodecrypt THEN SendRequestStart(s) ELSE s,
                "SUPPORT", None, 0) EXCEPT !.support = FALSE]

\* encrypt_session_key(): every type that was waiting for the key is started.
StartIfNeeded(s, t) ==
    IF t \in s.need_start
    THEN StartFb([s EXCEPT !.need_start = @ \ {t}], t) ELSE s

BugSessionKey(s) == [s EXCEPT !.havesessionkey = TRUE]

SessionKey(s) ==
    StartIfNeeded(StartIfNeeded([s EXCEPT !.havesessionkey = TRUE], TypeOrder[1]),
                  TypeOrder[2])

-----------------------------------------------------------------------------
(* What is done with a message.                                            *)

\* encrypt_support(): all types are listed; the first one both sides have is
\* used.  fb64_start() never returns SUCCESS here unless the type was ready.
Support(s) ==
    LET r == [s EXCEPT !.remote_decrypt = s.i_encrypt]
        first == IF TypeOrder[1] \in s.i_encrypt THEN TypeOrder[1] ELSE TypeOrder[2]
        q == [StartFb(r, first) EXCEPT !.encrypt_mode = first]
    IN  IF s.i_encrypt = {} THEN r
        ELSE IF q.enc[first] = SUCCESS THEN StartOutput(q, first) ELSE q

\* encrypt_is() and fb64_is(): the vector is taken and confirmed.
Is(s, t) ==
    LET r == [s EXCEPT !.remote_encrypt = @ \cup {t}]
    IN  IF t \notin CanDecrypt(r) THEN r
        ELSE [Write(r, "REPLY", t, 0) EXCEPT !.dec[t] = IN_PROGRESS,
                                             !.decrypt_mode = t]

SendEncKeyid(s) == Write([s EXCEPT !.enc_keylen = 1], "ENC_KEYID", None, 1)

\* encrypt_reply() and fb64_reply(): the vector has been confirmed; the key id is
\* sent, and output switched on if nothing else is missing.
Reply(s, t) ==
    LET state == IF s.enc[t] = FAILED THEN IN_PROGRESS ELSE s.enc[t]
        r == [SendEncKeyid(s) EXCEPT !.enc[t] = state \ {"NO_RECV_IV"},
                                     !.encrypt_mode = t]
    IN  IF t \notin CanEncrypt(s) THEN s
        ELSE IF r.enc[t] = SUCCESS /\ r.autoencrypt THEN StartOutput(r, t) ELSE r

\* fb64_keyid() with the one key id there is.
KeyAccepted(state) ==
    (IF state = FAILED THEN IN_PROGRESS ELSE state) \ {"NO_KEYID"}

\* encrypt_enc_keyid(): the reader of a stream is told the key id.  One that it
\* knows already is not answered.
EncKeyid(s, len) ==
    LET t == s.decrypt_mode
    IN  IF t \notin CanDecrypt(s)
        THEN IF len = 0 THEN s ELSE Write([s EXCEPT !.dec_keylen = 0], "DEC_KEYID", None, 0)
        ELSE IF len = 0
        THEN IF s.dec_keylen = 0 THEN s
             ELSE Write([s EXCEPT !.dec_keylen = 0], "DEC_KEYID", None, 0)
        ELSE IF s.dec_keylen # len
        THEN Write([s EXCEPT !.dec_keylen = len, !.dec[t] = KeyAccepted(@)],
                   "DEC_KEYID", None, len)
        ELSE [s EXCEPT !.dec[t] = KeyAccepted(@)]

BugDecKeyid(s, len) ==
    IF s.encrypt_mode \in CanEncrypt(s) /\ len = s.enc_keylen /\ len # 0
    THEN [s EXCEPT !.enc[s.encrypt_mode] = KeyAccepted(@)] ELSE s

\* encrypt_dec_keyid(): the same at the writer, where the answer that repeats the
\* key id ends the negotiation.
DecKeyid(s, len) ==
    LET t == s.encrypt_mode
        r == [s EXCEPT !.enc[t] = KeyAccepted(@)]
    IN  IF t \notin CanEncrypt(s)
        THEN IF len = 0 THEN s ELSE Write([s EXCEPT !.enc_keylen = 0], "ENC_KEYID", None, 0)
        ELSE IF len = 0
        THEN IF s.enc_keylen = 0 THEN s
             ELSE Write([s EXCEPT !.enc_keylen = 0], "ENC_KEYID", None, 0)
        ELSE IF s.enc_keylen # len
        THEN Write([r EXCEPT !.enc_keylen = len], "ENC_KEYID", None, len)
        ELSE IF r.enc[t] = SUCCESS /\ r.autoencrypt THEN StartOutput(r, t) ELSE r

\* encrypt_start(): START does not say which type; it is the one of decrypt_mode.
Start(s) ==
    IF s.decrypt_mode \in CanDecrypt(s)
    THEN [s EXCEPT !.decrypt_input = s.decrypt_mode]
    ELSE SendRequestEnd(s)

End(s) == [s EXCEPT !.decrypt_input = None]

\* encrypt_request_start(): before a type is known the server remembers it.
RequestStart(s) ==
    IF s.encrypt_mode = None
    THEN [s EXCEPT !.autoencrypt = IF s.server THEN TRUE ELSE @]
    ELSE StartOutput(s, s.encrypt_mode)

\* DO and WILL ENCRYPT at either side, once; ACCEPT at the client.
Do(s)     == IF s.server /\ ~s.willed
             THEN Write([s EXCEPT !.willed = TRUE], "WILL", None, 0) ELSE s
Accept(s) == IF s.server THEN s ELSE SessionKey(s)

Handle(s, m) ==
    CASE m.say = "DO"        -> Do(s)
      [] m.say = "WILL"      -> SendSupport(s)
      [] m.say = "ACCEPT"    -> Accept(s)
      [] m.say = "SUPPORT"   -> Support(s)
      [] m.say = "IS"        -> Is(s, m.type)
      [] m.say = "REPLY"     -> Reply(s, m.type)
      [] m.say = "ENC_KEYID" -> EncKeyid(s, m.len)
      [] m.say = "DEC_KEYID" -> DecKeyid(s, m.len)
      [] m.say = "START"     -> Start(s)
      [] m.say = "END"       -> End(s)
      [] m.say = "REQSTART"  -> RequestStart(s)
      [] m.say = "REQEND"    -> SendEnd(s)

\* What is read under another cipher than it was written under is no command.
Receive(s, m) == IF m.enc = s.decrypt_input THEN Handle(s, m) ELSE s

CliRecv ==
    /\ cli.phase # "exit" /\ srv.out # <<>>
    /\ cli' = Receive(cli, Head(srv.out))
    /\ srv' = [srv EXCEPT !.out = Tail(@)]
    /\ UNCHANGED <<commands, given>>

SrvRecv ==
    /\ srv.phase # "exit" /\ cli.out # <<>>
    /\ srv' = Receive(srv, Head(cli.out))
    /\ cli' = [cli EXCEPT !.out = Tail(@)]
    /\ UNCHANGED <<commands, given>>

-----------------------------------------------------------------------------
(* The client: -x waits until both directions are encrypted; the commands. *)

CliStep(new) == cli' = new /\ UNCHANGED <<srv, commands, given>>

CliEncrypting ==
    /\ cli.phase = "waiting"
    /\ cli.encrypt_output # None /\ cli.decrypt_input # None
    /\ CliStep([cli EXCEPT !.phase = "main"])

\* "Encryption could not be enabled", after a minute or at an interrupt.
CliGiveUp ==
    /\ cli.phase = "waiting"
    /\ CliStep([cli EXCEPT !.phase = "exit"])

\* The server has gone.  telnet_spin() does not look at what Scheduler() returns:
\* while it waits the client does not notice.
CliEof ==
    /\ cli.phase = "main" /\ srv.phase = "exit" /\ srv.out = <<>>
    /\ CliStep([cli EXCEPT !.phase = "exit"])

In(mode)  == mode \in {"input", "both"}
Out(mode) == mode \in {"output", "both"}

\* EncryptType(), EncryptStart(), EncryptStop(), EncryptDisable().
EncryptType(s, t, mode) ==
    [s EXCEPT !.decrypt_mode = IF In(mode)  THEN t ELSE @,
              !.i_decrypt    = IF In(mode)  THEN @ \cup {t} ELSE @,
              !.encrypt_mode = IF Out(mode) THEN t ELSE @,
              !.i_encrypt    = IF Out(mode) THEN @ \cup {t} ELSE @]

StartInput(s) == IF s.decrypt_mode = None THEN s ELSE SendRequestStart(s)

EncryptStart(s, mode) ==
    LET r == IF In(mode) THEN StartInput(s) ELSE s
    IN  IF Out(mode) /\ r.encrypt_mode # None THEN StartOutput(r, r.encrypt_mode) ELSE r

EncryptStop(s, mode) ==
    LET r == IF In(mode) THEN SendRequestEnd(s) ELSE s
    IN  IF Out(mode) THEN SendEnd(r) ELSE r

EncryptDisable(s, t, mode) ==
    LET r == IF In(mode) /\ s.decrypt_mode = t THEN SendRequestEnd(s) ELSE s
        q == IF Out(mode) /\ r.encrypt_mode = t THEN SendEnd(r) ELSE r
    IN  [q EXCEPT !.i_decrypt = IF In(mode)  THEN @ \ {t} ELSE @,
                  !.i_encrypt = IF Out(mode) THEN @ \ {t} ELSE @]

Obey(s, verb, t, mode) ==
    CASE verb = "type"        -> EncryptType(s, t, mode)
      [] verb = "enable"      -> EncryptStart(EncryptType(s, t, mode), mode)
      [] verb = "start"       -> EncryptStart(s, mode)
      [] verb = "stop"        -> EncryptStop(s, mode)
      [] verb = "disable"     -> EncryptDisable(s, t, mode)
      [] verb = "autoencrypt" -> [s EXCEPT !.autoencrypt = ~@]
      [] verb = "autodecrypt" -> [s EXCEPT !.autodecrypt = ~@]

Command ==
    /\ cli.phase = "main" /\ commands < MaxCommands
    /\ \E c \in Commands :
          /\ cli' = Obey(cli, c[1], c[2], c[3])
          /\ given' = given \cup {c[1]}
    /\ commands' = commands + 1
    /\ UNCHANGED srv

-----------------------------------------------------------------------------
(* The server's getterminaltype().                                         *)

SrvStep(phase, new) ==
    /\ srv.phase = phase
    /\ srv' = new
    /\ UNCHANGED <<cli, commands, given>>

\* kerberos5_is(): the client's credentials are good.  The alarm of auth_wait()
\* may have gone off before they come.
KerberosAccept ==
    /\ srv.phase # "exit" /\ ~srv.havesessionkey
    /\ srv' = SessionKey(Write(srv, "ACCEPT", None, 0))
    /\ UNCHANGED <<cli, commands, given>>

\* auth_wait() ends, by an answer or by its alarm; then WILL and DO ENCRYPT.
AuthWaited ==
    SrvStep("auth", [(IF srv.willed THEN srv ELSE Write(srv, "WILL", None, 0))
                        EXCEPT !.willed = TRUE, !.phase = "options"])

\* encrypt_wait(): whether to wait at all is decided once, on the way in.
MayWait(s) == s.havesessionkey /\ CanEncrypt(s) # {}
Waiting(s) == s.autoencrypt /\ s.encrypt_output = None
Go(s)      == [s EXCEPT !.phase = IF s.must THEN "input" ELSE "main"]

EncryptWait ==
    /\ ~srv.support          \* the client has answered DO and WILL ENCRYPT
    /\ SrvStep("options", IF MayWait(srv) /\ Waiting(srv)
                          THEN [srv EXCEPT !.phase = "wait"] ELSE Go(srv))

EncryptWaited == ~Waiting(srv) /\ SrvStep("wait", Go(srv))

\* The loops on EncryptStartInput(), EncryptStartOutput(), encrypt_is_encrypting().
MustInput ==
    /\ srv.decrypt_mode # None
    /\ SrvStep("input", [StartInput(srv) EXCEPT !.phase = "output"])

MustOutput ==
    /\ srv.encrypt_mode # None
    /\ SrvStep("output", [EncryptStart(srv, "output") EXCEPT !.phase = "both"])

MustBoth ==
    /\ srv.encrypt_output # None /\ srv.decrypt_input # None
    /\ SrvStep("both", [srv EXCEPT !.phase = "main"])

\* encrypt_failure() after a minute.
SrvGiveUp ==
    \E phase \in {"input", "output", "both"} :
        SrvStep(phase, [srv EXCEPT !.phase = "exit"])

\* The client has gone: ttloop() and the main loop read nothing more.
SrvEof ==
    /\ srv.phase # "exit" /\ cli.phase = "exit" /\ cli.out = <<>>
    /\ srv' = [srv EXCEPT !.phase = "exit"]
    /\ UNCHANGED <<cli, commands, given>>

-----------------------------------------------------------------------------
SrvStartup == \/ AuthWaited \/ EncryptWait \/ EncryptWaited
              \/ MustInput \/ MustOutput \/ MustBoth

GiveUp == CliGiveUp \/ SrvGiveUp
Eof    == CliEof \/ SrvEof

Next == \/ CliRecv \/ SrvRecv \/ CliEncrypting \/ Command
        \/ KerberosAccept \/ SrvStartup \/ GiveUp \/ Eof

\* Both programs keep reading, and go on when what they wait for has come.
\* Nothing obliges the user, nor the Kerberos library to accept anybody; the
\* timers are no way out.
Fairness == /\ WF_vars(CliRecv) /\ WF_vars(SrvRecv)
            /\ WF_vars(CliEncrypting) /\ WF_vars(SrvStartup) /\ WF_vars(Eof)

Spec == Init /\ [][Next]_vars /\ Fairness

-----------------------------------------------------------------------------
(* What the two programs promise.                                          *)

Ciphers == Types \cup {None}

Sides == [server : BOOLEAN, out : Seq(Message), support : BOOLEAN,
          i_encrypt : SUBSET Types, i_decrypt : SUBSET Types,
          remote_decrypt : SUBSET Types, remote_encrypt : SUBSET Types,
          autoencrypt : BOOLEAN, autodecrypt : BOOLEAN, havesessionkey : BOOLEAN,
          encrypt_mode : Ciphers, decrypt_mode : Ciphers,
          encrypt_output : Ciphers, decrypt_input : Ciphers,
          need_start : SUBSET Types,
          enc : [Types -> StreamState], dec : [Types -> StreamState],
          enc_keylen : 0..1, dec_keylen : 0..1,
          phase : {"auth", "options", "wait", "input", "output", "both",
                   "waiting", "main", "exit"},
          must : BOOLEAN, willed : BOOLEAN]

\* The type invariant.
TypeOK == /\ cli \in Sides /\ srv \in Sides
          /\ commands \in 0..MaxCommands /\ given \subseteq Verbs

\* The cipher under which p writes what comes after the i-th of its messages in
\* out.
Under(p, i) == IF i < Len(p.out) THEN p.out[i + 1].enc ELSE p.encrypt_output

\* When q has read i of the messages in out, t is the type that a START stands
\* for: that of the last IS, or else the one q decrypts with already.
StandsFor(q, out, i, t) ==
    LET told == {k \in 1..i : out[k].say = "IS"}
    IN  /\ told = {} => q.decrypt_mode = t
        /\ \A k \in told : (\A j \in told : j <= k) => out[k].type = t

\* What p writes q reads under the same cipher: START and END, and nothing else,
\* change it for the one as they do for the other.
Follows(q, p) ==
    /\ q.decrypt_input = Under(p, 0)
    /\ \A i \in 1..Len(p.out) :
          CASE p.out[i].say = "START" -> StandsFor(q, p.out, i - 1, Under(p, i))
            [] p.out[i].say = "END" -> Under(p, i) = None
            [] OTHER -> Under(p, i) = Under(p, i - 1)

\* Commands by which the user changes the types on one side only.
ByHand == {"disable", "type", "enable"}

\* A side switches its output on only when the other side has taken a vector for
\* that type, and has a type for START to stand for.
Prepared(p, q) ==
    p.encrypt_output # None => /\ q.dec[p.encrypt_output] # FAILED
                               /\ q.decrypt_mode # None

\* No text is ever written that nobody has the means to read, whatever types the
\* user picks and however often; and whatever either side writes, the other reads
\* it under the cipher it was written under, however START, END and the requests
\* for them cross.  Not so the latter when the user picks a type or disables one
\* by hand: that sets what the client decrypts with, of which the server is not
\* told, and START names no type (encrypt.c:300, telnet.1:368-372).  The type
\* invariant is part of it.
Readable ==
    /\ TypeOK
    /\ Prepared(cli, srv) /\ Prepared(srv, cli)
    /\ given \cap ByHand = {} => Follows(cli, srv) /\ Follows(srv, cli)

\* telnet -x: once the server has accepted the credentials it gets through its start
\* up, and no direction is left in the clear, unless somebody gives up or the user
\* interferes.  That holds whether or not the server must encrypt: its REQUEST-START
\* comes too early to be obeyed, and it is autoencrypt on both sides that does it.
Started == \/ /\ srv.phase = "main" /\ cli.phase = "main"
              /\ srv.encrypt_output # None /\ cli.encrypt_output # None
           \/ srv.phase = "exit" \/ cli.phase = "exit"

AutoEncrypts == cli.autoencrypt /\ srv.havesessionkey ~> Started \/ commands > 0

\* encrypt_wait() does not wait for ever, as long as the user does not change the
\* types (an IS for a type that has been disabled is not answered) and stops
\* nothing: a REQUEST-END may be read together with the answer that switches the
\* output on, and then the loop never sees that it was on.
WaitEnds == srv.phase = "wait" ~>
                srv.phase # "wait" \/ given \cap (ByHand \cup {"stop"}) # {}
=============================================================================
