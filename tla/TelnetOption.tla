---------------------------- MODULE TelnetOption ----------------------------
(***************************************************************************)
(* The option state machines of the telnet client (telnet/telnet/telnet.c) *)
(* and of the telnet server (telnet/telnetd/state.c), as operators on the  *)
(* state of one peer.  TelnetNegotiation puts two peers together.          *)
(*                                                                         *)
(* A peer is a record.  Its field "opt" holds two machines for every       *)
(* option: opt["will"][o] is about what this peer does itself (my_state,   *)
(* my_want_state and will_wont_resp), opt["do"][o] about what it lets the  *)
(* other peer do (his_state, his_want_state and do_dont_resp).  "out" is   *)
(* what it has written and the other peer has not yet read.  The other     *)
(* fields are the global variables the handlers of that program use.       *)
(*                                                                         *)
(* The server is the one the Makefile builds: KLUDGELINEMODE is defined    *)
(* and LINEMODE is not; the client is built with both.                     *)
(*                                                                         *)
(* The operators whose name begins with Bug are what a slip in the         *)
(* handler below them would make of it; the model does not use them.       *)
(***************************************************************************)
EXTENDS Naturals, Sequences

CONSTANTS
    Options,      \* the telnet options negotiated; others do not exist
    Autologin,    \* the client's autologin flag: it offers AUTHENTICATION
    HasDisplay    \* DISPLAY is set and exported in the client

AllOptions == {"AUTHENTICATION", "ENCRYPT", "SGA", "ECHO", "TTYPE", "NAWS",
               "TSPEED", "LFLOW", "LINEMODE", "NEW_ENVIRON", "OLD_ENVIRON",
               "STATUS", "XDISPLOC", "BINARY", "TM", "LOGOUT"}

\* The handlers of LINEMODE and of the two environment options use another
\* option as well.
OptionsAssumption ==
    /\ Options \subseteq AllOptions
    /\ Autologin \in BOOLEAN /\ HasDisplay \in BOOLEAN
    /\ "LINEMODE" \in Options => "SGA" \in Options
    /\ "NEW_ENVIRON" \in Options <=> "OLD_ENVIRON" \in Options

ASSUME OptionsAssumption

Sides == {"will", "do"}
Other(side) == IF side = "will" THEN "do" ELSE "will"

Machine == [state : BOOLEAN, want : BOOLEAN, resp : Nat]
Default == [state |-> FALSE, want |-> FALSE, resp |-> 0]

\* WILL and WONT are the two values of side "will", DO and DONT those of side
\* "do"; side "sub" is a subnegotiation, of which only the option matters here.
Msg(side, o, on) == [side |-> side, opt |-> o, on |-> on]
Message == [side : Sides \cup {"sub"}, opt : Options, on : BOOLEAN]

-----------------------------------------------------------------------------
(* send_will, send_wont, send_do and send_dont.                            *)

\* send_*(o, 0): only write the message.
Write(p, side, o, on) == [p EXCEPT !.out = Append(@, Msg(side, o, on))]

Put(p, side, o, m) == [p EXCEPT !.opt[side][o] = m]

SetState(p, side, o, on) == Put(p, side, o, [p.opt[side][o] EXCEPT !.state = on])
SetWant(p, side, o, on)  == Put(p, side, o, [p.opt[side][o] EXCEPT !.want = on])
SetResp(p, side, o, r)   == Put(p, side, o, [p.opt[side][o] EXCEPT !.resp = r])

Expect(p, side, o) == SetResp(p, side, o, p.opt[side][o].resp + 1)

\* send_*(o, 1): ask for a change unless it is already so, or already asked for.
Request(p, side, o, on) ==
    IF \/ p.opt[side][o].resp = 0 /\ p.opt[side][o].state = on
       \/ p.opt[side][o].want = on
    THEN p
    ELSE Write(Expect(SetWant(p, side, o, on), side, o), side, o, on)

\* The negotiation is still under way as far as the state bits can tell.
Changing(p, side, o) == p.opt[side][o].state # p.opt[side][o].want

\* The head of every handler: one request has been answered, and a second one
\* with it when the answer repeats the state the machine is already in.
BugAnswersAlways(p, side, o, on) ==
    SetResp(p, side, o, p.opt[side][o].resp - 1)

BugAnswersOne(p, side, o, on) ==
    SetResp(p, side, o, IF p.opt[side][o].resp > 0
                        THEN p.opt[side][o].resp - 1 ELSE 0)

Answered(p, side, o, on) ==
    LET m == p.opt[side][o]
        r == IF m.resp > 0 THEN m.resp - 1 ELSE 0
    IN  SetResp(p, side, o, IF r > 0 /\ m.state = on THEN r - 1 ELSE r)

\* After Answered: nothing of ours is outstanding and the peer asks for a change.
Asked(p, side, o, on) ==
    p.opt[side][o].resp = 0 /\ p.opt[side][o].want # on

\* After Answered: the peer confirms what we want.
Confirmed(p, side, o, on) ==
    p.opt[side][o].resp = 0 /\ p.opt[side][o].want = on

BugAcceptSilently(p, side, o) == SetWant(p, side, o, TRUE)

Accept(p, side, o) == Write(SetWant(p, side, o, TRUE), side, o, TRUE)

Refuse(p, side, o) == Write(Expect(p, side, o), side, o, FALSE)

\* Going to the negative state is never refused; it is acknowledged only when
\* the machine was in the positive state.
Concede(p, side, o) ==
    LET q == SetWant(p, side, o, FALSE)
    IN  IF p.opt[side][o].state THEN Write(q, side, o, FALSE) ELSE q

\* TM is answered as if it were on, and stays off.
Mark(p, side, o) == SetState(SetWant(p, side, o, FALSE), side, o, FALSE)

\* A handler of another component is started; it writes a subnegotiation.
Sub(p, o) == [p EXCEPT !.out = Append(@, Msg("sub", o, TRUE))]

\* encrypt_send_support: the list of supported types is sent once.
SendSupport(p) ==
    IF p.supported THEN Sub([p EXCEPT !.supported = FALSE], "ENCRYPT") ELSE p

\* The options whose value the server asks for when it starts up.
SubOptions == {"TSPEED", "XDISPLOC", "NEW_ENVIRON", "OLD_ENVIRON", "TTYPE"}

-----------------------------------------------------------------------------
(* The client's handlers.                                                  *)

CliWillOk == {"ECHO", "BINARY", "SGA", "STATUS", "AUTHENTICATION", "ENCRYPT"}
CliDoOk   == {"BINARY", "NAWS", "TSPEED", "LFLOW", "TTYPE", "SGA", "ENCRYPT"}
               \cup (IF Autologin THEN {"AUTHENTICATION"} ELSE {})
               \cup (IF HasDisplay THEN {"XDISPLOC"} ELSE {})

\* The answer to DO TM has come: show terminal output again.
BugStopFlushing(p) == p

StopFlushing(p) == [p EXCEPT !.flushout = FALSE]

CliWillOption(p0, o) ==
    LET p == Answered(p0, "do", o, TRUE)
        q == CASE ~Asked(p, "do", o, TRUE) -> p
               [] Asked(p, "do", o, TRUE) /\ o \in CliWillOk ->
                      Accept(p, "do", o)
               [] OTHER -> Refuse(p, "do", o)
        r == SetState(q, "do", o, TRUE)
    IN  CASE Asked(p, "do", o, TRUE) /\ o = "TM" ->
                 Mark(StopFlushing(p), "do", o)
          [] o = "ENCRYPT" -> SendSupport(r)
          [] OTHER -> r

CliWontOption(p0, o) ==
    LET p == Answered(p0, "do", o, FALSE)
        q == CASE o = "TM" -> SetWant(StopFlushing(p), "do", o, FALSE)
               [] o # "TM" /\ Asked(p, "do", o, FALSE) -> Concede(p, "do", o)
               [] OTHER -> p
    IN  SetState(q, "do", o, FALSE)

\* An environment option is accepted only when the other one is not in use:
\* the new one turns the old one off, the old one is refused.
AcceptOldEnviron(p) ==
    IF p.opt["will"]["NEW_ENVIRON"].state
    THEN Refuse(p, "will", "OLD_ENVIRON")
    ELSE Accept([p EXCEPT !.environ = "OLD_ENVIRON"], "will", "OLD_ENVIRON")

AcceptNewEnviron(p) ==
    LET q == IF p.opt["will"]["OLD_ENVIRON"].state
             THEN Request(p, "will", "OLD_ENVIRON", FALSE) ELSE p
    IN  Accept([q EXCEPT !.environ = "NEW_ENVIRON"], "will", "NEW_ENVIRON")

\* LINEMODE drags SGA along, and slc_init() sends the special characters.
LineSga(p) == Request([p EXCEPT !.kludgelinemode = FALSE], "do", "SGA", TRUE)

AcceptLinemode(p) ==
    Sub(SetState(Accept(LineSga(p), "will", "LINEMODE"),
                 "will", "LINEMODE", TRUE), "LINEMODE")

ConfirmLinemode(p) ==
    Write(Sub(SetState(LineSga(p), "will", "LINEMODE", TRUE), "LINEMODE"),
          "do", "SGA", TRUE)

CliDoOption(p0, o) ==
    LET p == Answered(p0, "will", o, TRUE)
        q == CASE o = "NEW_ENVIRON" -> AcceptNewEnviron(p)
               [] o = "OLD_ENVIRON" -> AcceptOldEnviron(p)
               [] o \in CliDoOk -> Accept(p, "will", o)
               [] OTHER -> Refuse(p, "will", o)
    IN  CASE Asked(p, "will", o, TRUE) /\ o = "TM" ->
                 Mark(Write(p, "will", o, TRUE), "will", o)
          [] Asked(p, "will", o, TRUE) /\ o = "LINEMODE" -> AcceptLinemode(p)
          [] Asked(p, "will", o, TRUE) /\ o \notin {"TM", "LINEMODE"} ->
                 SetState(q, "will", o, TRUE)
          [] Confirmed(p, "will", o, TRUE) /\ o = "LINEMODE" ->
                 ConfirmLinemode(p)
          [] OTHER -> SetState(p, "will", o, TRUE)

\* A server that does not know NEW_ENVIRON is offered OLD_ENVIRON.
CliDontOption(p0, o) ==
    LET p == Answered(p0, "will", o, FALSE)
        q == IF o = "NEW_ENVIRON"
             THEN [Request(p, "will", "OLD_ENVIRON", TRUE)
                      EXCEPT !.environ = "OLD_ENVIRON"]
             ELSE p
    IN  SetState(IF Asked(p, "will", o, FALSE) THEN Concede(q, "will", o) ELSE p,
                 "will", o, FALSE)

\* suboption(): a request for a value is answered while the option is wanted.
\* Both environment options are answered under the name in telopt_environ.
CliSubOption(p, o) ==
    CASE o \notin SubOptions -> p
      [] o \in SubOptions /\ ~p.opt["will"][o].want -> p
      [] o = "XDISPLOC" /\ p.opt["will"][o].want /\ ~HasDisplay ->
            Request(p, "will", o, FALSE)
      [] o \in {"NEW_ENVIRON", "OLD_ENVIRON"} /\ p.opt["will"][o].want ->
            Sub(p, p.environ)
      [] OTHER -> Sub(p, o)

\* telrcv(): the window size is sent whenever DO NAWS is received.
CliReceive(p, m) ==
    CASE m.side = "will" /\ m.on  -> CliWillOption(p, m.opt)
      [] m.side = "will" /\ ~m.on -> CliWontOption(p, m.opt)
      [] m.side = "do" /\ m.on    ->
             IF m.opt = "NAWS" THEN Sub(CliDoOption(p, m.opt), m.opt)
             ELSE CliDoOption(p, m.opt)
      [] m.side = "do" /\ ~m.on   -> CliDontOption(p, m.opt)
      [] OTHER                    -> CliSubOption(p, m.opt)

-----------------------------------------------------------------------------
(* The server's handlers.                                                  *)

SrvWillOk == {"BINARY", "LFLOW", "TTYPE", "SGA", "NAWS", "TSPEED", "XDISPLOC",
              "NEW_ENVIRON", "OLD_ENVIRON", "AUTHENTICATION", "ENCRYPT"}
SrvDoOk   == {"ECHO", "BINARY", "SGA", "STATUS", "ENCRYPT"}

\* send_do(option, 1) in the server pretends that DO TM was a DONT.
SrvRequestDo(p, o) ==
    IF /\ o = "TM"
       /\ ~p.opt["do"][o].want
       /\ ~(p.opt["do"][o].resp = 0 /\ p.opt["do"][o].state)
    THEN Write(Expect(p, "do", o), "do", o, TRUE)
    ELSE Request(p, "do", o, TRUE)

\* What the server does to its pty when the client's WILL or WONT is accepted.
PtyIn(p, o) ==
    IF o = "BINARY" THEN [p EXCEPT !.istrip = FALSE] ELSE p

\* A WILL TM is never answered.  A confirmed WILL ECHO is asked to be undone
\* while the state is still the old one.
SrvWillOption(p0, o) ==
    LET p == Answered(p0, "do", o, TRUE)
        q == CASE Asked(p, "do", o, TRUE) /\ o \in SrvWillOk ->
                      Accept(PtyIn(p, o), "do", o)
               [] Asked(p, "do", o, TRUE) /\ o \notin SrvWillOk ->
                      Refuse(p, "do", o)
               [] Confirmed(p, "do", o, TRUE) /\ o = "ECHO" ->
                      Request(p, "do", o, FALSE)
               [] OTHER -> p
        r == SetState(q, "do", o, TRUE)
    IN  CASE Asked(p, "do", o, TRUE) /\ o = "TM" -> p
          [] p.opt["do"][o].resp = 0 /\ o = "ECHO" -> [r EXCEPT !.not42 = FALSE]
          [] p.opt["do"][o].resp = 0 /\ o = "AUTHENTICATION" -> Sub(r, o)
          [] p.opt["do"][o].resp = 0 /\ o = "ENCRYPT" -> SendSupport(r)
          [] Confirmed(p, "do", o, TRUE) /\ o = "LFLOW" -> Sub(r, o)
          [] OTHER -> r

\* An option whose value the start up may be waiting for counts as answered
\* when the client turns it off.
BugNoTimer(p, o) ==
    CASE o = "ECHO" -> [p EXCEPT !.not42 = TRUE]
      [] o = "BINARY" -> [p EXCEPT !.istrip = TRUE]
      [] OTHER -> p

TurnedOff(p, o) ==
    CASE o = "ECHO" -> [p EXCEPT !.not42 = TRUE]
      [] o = "BINARY" -> [p EXCEPT !.istrip = TRUE]
      [] o \in SubOptions -> [p EXCEPT !.got = @ \cup {o}]
      [] OTHER -> p

SrvWontOption(p0, o) ==
    LET p == Answered(p0, "do", o, FALSE)
    IN  CASE o = "TM" /\ Asked(p, "do", o, FALSE) -> SetWant(p, "do", o, FALSE)
          [] o # "TM" /\ Asked(p, "do", o, FALSE) ->
                 SetState(Concede(TurnedOff(p, o), "do", o), "do", o, FALSE)
          [] OTHER -> SetState(p, "do", o, FALSE)

\* What DO and DONT do to the pty and to turn_on_sga.
PtyOut(p, o, on) ==
    CASE o = "ECHO" -> [p EXCEPT !.echo = on]
      [] o = "BINARY" -> [p EXCEPT !.opost = ~on]
      [] o = "SGA" -> [p EXCEPT !.turnOnSga = IF on THEN FALSE ELSE ~@]
      [] OTHER -> p

\* DO LOGOUT is answered and ends the server.
SrvDoOption(p0, o) ==
    LET p == Answered(p0, "will", o, TRUE)
        q == CASE Asked(p, "will", o, TRUE) /\ o = "LOGOUT" ->
                      Accept([p EXCEPT !.phase = "exit"], "will", o)
               [] Asked(p, "will", o, TRUE) /\ o \in SrvDoOk ->
                      Accept(PtyOut(p, o, TRUE), "will", o)
               [] Asked(p, "will", o, TRUE) /\ o \notin SrvDoOk \cup {"LOGOUT"} ->
                      Refuse(p, "will", o)
               [] OTHER -> p
    IN  IF Asked(p, "will", o, TRUE) /\ o = "TM"
        THEN Mark(Write(p, "will", o, TRUE), "will", o)
        ELSE SetState(q, "will", o, TRUE)

\* A DONT SGA is obeyed, and every other one is followed by a new WILL SGA.
SrvDontOption(p0, o) ==
    LET p == Answered(p0, "will", o, FALSE)
        q == IF Asked(p, "will", o, FALSE)
             THEN Concede(PtyOut(p, o, FALSE), "will", o) ELSE p
        r == SetState(q, "will", o, FALSE)
    IN  IF o = "SGA" /\ Asked(p, "will", o, FALSE) /\ ~p.turnOnSga
        THEN Request(r, "will", o, TRUE)
        ELSE r

\* suboption(): sb_auth_complete drops the connection when a value arrives
\* before authentication has been negotiated; settimer marks it as received.
\* A speed or a type is ignored while the option is off.
SrvSubOption(p, o) ==
    CASE o \notin SubOptions -> p
      [] o \in {"TSPEED", "TTYPE"} /\ ~p.opt["do"][o].state -> p
      [] o \in SubOptions /\ ~p.negotiated
            /\ (o \in {"TSPEED", "TTYPE"} => p.opt["do"][o].state) ->
            [p EXCEPT !.phase = "exit"]
      [] OTHER -> [p EXCEPT !.got = @ \cup {o}]

SrvReceive(p, m) ==
    CASE m.side = "will" /\ m.on  -> SrvWillOption(p, m.opt)
      [] m.side = "will" /\ ~m.on -> SrvWontOption(p, m.opt)
      [] m.side = "do" /\ m.on    -> SrvDoOption(p, m.opt)
      [] m.side = "do" /\ ~m.on   -> SrvDontOption(p, m.opt)
      [] OTHER                    -> SrvSubOption(p, m.opt)
=============================================================================
