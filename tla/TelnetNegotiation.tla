-------------------------- MODULE TelnetNegotiation --------------------------
(***************************************************************************)
(* A telnet client and a telnet server negotiate options over a connection *)
(* that keeps the order of what is written.  The client starts with the    *)
(* requests of telnet() and goes on with whatever the user's commands ask  *)
(* for; the server goes through the start up of getterminaltype() and      *)
(* telnet() in telnetd.c, which spins in ttloop() until the client has     *)
(* answered, and then only reacts.                                         *)
(***************************************************************************)
EXTENDS TelnetOption

CONSTANTS
    TelnetPort,   \* the client's telnetport flag: it opens the negotiation
    Eight,        \* the sides on which the client starts with BINARY (-8, -L)
    Commands,     \* the option commands the user may give: <<side, option>>
    MaxCommands   \* bound on the number of the user's commands

NegotiationAssumption ==
    /\ TelnetPort \in BOOLEAN
    /\ Eight \subseteq Sides
    /\ Commands \subseteq Sides \X Options
    /\ MaxCommands \in Nat

ASSUME NegotiationAssumption

VARIABLES
    cli,        \* the client
    srv,        \* the server
    commands    \* the number of commands the user has given

vars == <<cli, srv, commands>>

Phases == {"start", "auth", "options", "values", "naws", "echo", "main", "exit"}

\* telnet(): the requests that open the negotiation.  They are made in a row,
\* before anything is read.
CliRequests ==
    (IF Autologin THEN << <<"will", "AUTHENTICATION">> >> ELSE <<>>)
      \o (IF TelnetPort
          THEN << <<"do", "ENCRYPT">>, <<"will", "ENCRYPT">>, <<"do", "SGA">>,
                  <<"will", "TTYPE">>, <<"will", "NAWS">>, <<"will", "TSPEED">>,
                  <<"will", "LFLOW">>, <<"will", "LINEMODE">>,
                  <<"will", "NEW_ENVIRON">>, <<"do", "STATUS">> >>
               \o (IF HasDisplay THEN << <<"will", "XDISPLOC">> >> ELSE <<>>)
               \o (IF "do" \in Eight THEN << <<"do", "BINARY">> >> ELSE <<>>)
               \o (IF "will" \in Eight THEN << <<"will", "BINARY">> >> ELSE <<>>)
          ELSE <<>>)

CliInit == [opt |-> [side \in Sides |-> [o \in Options |-> Default]],
            out |-> <<>>,
            supported |-> TRUE,            \* str_suplen # 0
            todo      |-> CliRequests,     \* requests still to be made
            flushout  |-> FALSE,           \* discard terminal output
            kludgelinemode |-> TRUE,
            environ   |-> "NEW_ENVIRON"]   \* telopt_environ

SrvInit == [opt |-> [side \in Sides |-> [o \in Options |-> Default]],
            out |-> <<>>,
            supported  |-> TRUE,
            todo       |-> <<>>,
            phase      |-> "start",
            spin       |-> 0,      \* in phase "values": the spin it is in, or 0
            got        |-> {},     \* the *subopt timers set after baseline
            negotiated |-> FALSE,  \* auth_negotiated
            turnOnSga  |-> FALSE,
            not42      |-> TRUE,
            echo       |-> TRUE,   \* the pty's modes ECHO, ISTRIP and OPOST
            istrip     |-> FALSE,
            opost      |-> TRUE]

Init == cli = CliInit /\ srv = SrvInit /\ commands = 0

-----------------------------------------------------------------------------
(* The client.                                                             *)

\* The next of the requests a peer makes in a row; those for an option that is
\* left out of Options are passed over.
Mine(todo) == {i \in 1..Len(todo) : todo[i][2] \in Options}

Rest(p, i) == [p EXCEPT !.todo = SubSeq(@, i + 1, Len(@))]

CliStart ==
    /\ cli.todo # <<>>
    /\ \/ /\ Mine(cli.todo) = {}
          /\ cli' = [cli EXCEPT !.todo = <<>>]
       \/ \E i \in Mine(cli.todo) :
             /\ \A j \in Mine(cli.todo) : i <= j
             /\ cli' = Request(Rest(cli, i), cli.todo[i][1], cli.todo[i][2], TRUE)
    /\ UNCHANGED <<srv, commands>>

\* telrcv() in the client.
CliRecv ==
    /\ cli.todo = <<>> /\ srv.out # <<>>
    /\ cli' = CliReceive(cli, Head(srv.out))
    /\ srv' = [srv EXCEPT !.out = Tail(@)]
    /\ UNCHANGED commands

-----------------------------------------------------------------------------
(* The user's commands.                                                    *)

Command(new) ==
    /\ cli.todo = <<>>
    /\ commands < MaxCommands
    /\ commands' = commands + 1
    /\ cli' = new
    /\ UNCHANGED srv

\* send do, send dont, send will, send wont.
SendOption ==
    \E c \in Commands, on \in BOOLEAN :
        Command(Request(cli, c[1], c[2], on))

\* mode character, mode line and the kludge line mode.
DoCharMode ==
    /\ {<<"do", "ECHO">>, <<"do", "SGA">>, <<"will", "LINEMODE">>} \subseteq Commands
    /\ Command(Request(IF cli.kludgelinemode
                       THEN Request(cli, "do", "SGA", TRUE)
                       ELSE Request(cli, "will", "LINEMODE", FALSE),
                       "do", "ECHO", TRUE))

DoLineMode ==
    /\ {<<"do", "ECHO">>, <<"do", "SGA">>, <<"will", "LINEMODE">>} \subseteq Commands
    /\ Command(Request(Request(IF cli.kludgelinemode
                               THEN Request(cli, "do", "SGA", FALSE) ELSE cli,
                               "will", "LINEMODE", TRUE),
                       "do", "ECHO", FALSE))

DoKludgeMode ==
    /\ {<<"do", "ECHO">>, <<"do", "SGA">>, <<"will", "LINEMODE">>} \subseteq Commands
    /\ Command(Request(Request(Request([cli EXCEPT !.kludgelinemode = TRUE],
                                       "will", "LINEMODE", FALSE),
                               "do", "SGA", FALSE),
                       "do", "ECHO", FALSE))

\* doflush(): a DO TM that is not counted; what arrives for the terminal is
\* thrown away until the answer to it comes back.
DoFlush ==
    /\ "TM" \in Options
    /\ Command(Write([cli EXCEPT !.flushout = TRUE], "do", "TM", TRUE))

-----------------------------------------------------------------------------
(* The server's start up.                                                  *)

SrvRequest(p, side, o) ==
    IF side = "do" THEN SrvRequestDo(p, o) ELSE Request(p, side, o, TRUE)

SrvRequests ==
    /\ srv.todo # <<>>
    /\ \/ /\ Mine(srv.todo) = {}
          /\ srv' = [srv EXCEPT !.todo = <<>>]
       \/ \E i \in Mine(srv.todo) :
             /\ \A j \in Mine(srv.todo) : i <= j
             /\ srv' = SrvRequest(Rest(srv, i), srv.todo[i][1], srv.todo[i][2])
    /\ UNCHANGED <<cli, commands>>

\* Some option of S is still under negotiation on that side.
Spinning(side, S) == \E o \in S \cap Options : Changing(srv, side, o)

\* The server leaves a phase, when it has made the requests of that phase.
SrvStep(phase, new) ==
    /\ srv.phase = phase /\ srv.todo = <<>>
    /\ srv' = new
    /\ UNCHANGED <<cli, commands>>

\* getterminaltype(): DO AUTHENTICATION, then spin on it.
SrvStart ==
    SrvStep("start", [srv EXCEPT !.phase = "auth",
                                 !.todo = << <<"do", "AUTHENTICATION">> >>])

\* The spin is over, and so is auth_wait(), which an alarm bounds.
SrvOptions ==
    /\ ~Spinning("do", {"AUTHENTICATION"})
    /\ SrvStep("auth",
               [srv EXCEPT !.phase = "options",
                           !.todo = << <<"will", "ENCRYPT">>, <<"do", "ENCRYPT">>,
                                       <<"do", "TTYPE">>, <<"do", "TSPEED">>,
                                       <<"do", "XDISPLOC">>,
                                       <<"do", "NEW_ENVIRON">>,
                                       <<"do", "OLD_ENVIRON">> >>])

Willing(p) == {o \in SubOptions \cap Options : p.opt["do"][o].state}

\* The values asked for: OLD_ENVIRON only if NEW_ENVIRON is not to be had.
Asking(p) == Willing(p) \
    (IF "NEW_ENVIRON" \in Willing(p) THEN {"OLD_ENVIRON"} ELSE {})

AskIf(p, o, asking) == IF o \in asking THEN Sub(p, o) ELSE p

Values == <<"TSPEED", "XDISPLOC", "NEW_ENVIRON", "OLD_ENVIRON", "TTYPE">>

\* The spins on the values come in the order of Values.  One is entered when
\* its option is on and its timer not yet set as the one before it ends; from
\* then on only the timer ends it.  Nothing is read between two spins.
Spin(p, from) ==
    LET left == {i \in from..5 : Values[i] \in Willing(p) \ p.got}
    IN  [p EXCEPT !.spin = IF left = {} THEN 0
                           ELSE CHOOSE i \in left : \A j \in left : i <= j]

\* The values are asked for, and sb_auth_complete() lets the answers in.
AskValues(p) ==
    LET a == Asking(p)
        q == AskIf(AskIf(AskIf(AskIf(AskIf(p, "TSPEED", a), "XDISPLOC", a),
                               "NEW_ENVIRON", a), "OLD_ENVIRON", a), "TTYPE", a)
    IN  [q EXCEPT !.phase = "values"]

AuthComplete(p) == [p EXCEPT !.negotiated = TRUE]

SrvAskValues ==
    /\ ~Spinning("will", {"ENCRYPT"})
    /\ ~Spinning("do", SubOptions \cup {"ENCRYPT"})
    /\ SrvStep("options", Spin(AskValues(AuthComplete(srv)), 1))

SrvValue ==
    /\ srv.spin # 0 /\ Values[srv.spin] \in srv.got
    /\ SrvStep("values", Spin(srv, srv.spin + 1))

\* startslave(): the new slave side of the pty gets ECHO and OPOST, whatever has
\* been negotiated.  telnet() in telnetd.c: the requests that are made at once.
SrvTelnet ==
    /\ srv.spin = 0
    /\ SrvStep("values",
               [srv EXCEPT !.phase = "naws", !.echo = TRUE, !.opost = TRUE,
                           !.todo = (IF "SGA" \in Options /\ srv.opt["will"]["SGA"].state
                                     THEN <<>> ELSE << <<"will", "SGA">> >>)
                                    \o << <<"do", "ECHO">>, <<"do", "NAWS">>,
                                          <<"will", "STATUS">>, <<"do", "LFLOW">> >>])

\* The end of telnet()'s start up: when DO ECHO is still unanswered the server
\* behaves as if a WILL ECHO had come; then it offers to echo.
EchoSettled(p) ==
    LET q == IF p.opt["do"]["ECHO"].want THEN SrvWillOption(p, "ECHO") ELSE p
        r == IF q.opt["will"]["ECHO"].state THEN q
             ELSE Request(q, "will", "ECHO", TRUE)
    IN  [IF "ECHO" \in Options THEN r ELSE p EXCEPT !.phase = "main"]

SrvNaws ==
    /\ ~Spinning("do", {"NAWS"})
    /\ SrvStep("naws",
               IF /\ {"ECHO", "NAWS"} \subseteq Options
                  /\ srv.opt["do"]["ECHO"].want /\ srv.opt["do"]["NAWS"].state
               THEN [srv EXCEPT !.phase = "echo"]
               ELSE EchoSettled(srv))

SrvEcho ==
    /\ ~Spinning("do", {"ECHO"})
    /\ SrvStep("echo", EchoSettled(srv))

\* telrcv() in the server, called from ttloop() and from the main loop.
SrvRecv ==
    /\ srv.phase \notin {"start", "exit"} /\ srv.todo = <<>> /\ cli.out # <<>>
    /\ srv' = SrvReceive(srv, Head(cli.out))
    /\ cli' = [cli EXCEPT !.out = Tail(@)]
    /\ UNCHANGED commands

-----------------------------------------------------------------------------
User == SendOption \/ DoCharMode \/ DoLineMode \/ DoKludgeMode \/ DoFlush

SrvStartup == \/ SrvRequests \/ SrvStart \/ SrvOptions \/ SrvAskValues \/ SrvValue
              \/ SrvTelnet \/ SrvNaws \/ SrvEcho

Next == CliStart \/ CliRecv \/ User \/ SrvStartup \/ SrvRecv

\* Both programs keep reading the connection, and the server goes on when the
\* condition it spins on has become false.  Nothing obliges the user.
Fairness == /\ WF_vars(CliStart) /\ WF_vars(CliRecv)
            /\ WF_vars(SrvStartup) /\ WF_vars(SrvRecv)

Spec == Init /\ [][Next]_vars /\ Fairness

-----------------------------------------------------------------------------
(* What the two programs promise.                                          *)

Client == [opt : [Sides -> [Options -> Machine]],
           out : Seq(Message),
           supported : BOOLEAN,
           todo : Seq(Sides \X AllOptions),
           flushout : BOOLEAN,
           kludgelinemode : BOOLEAN,
           environ : {"NEW_ENVIRON", "OLD_ENVIRON"}]

Server == [opt : [Sides -> [Options -> Machine]],
           out : Seq(Message),
           supported : BOOLEAN,
           todo : Seq(Sides \X AllOptions),
           phase : Phases,
           spin : 0..5,
           got : SUBSET SubOptions,
           negotiated : BOOLEAN,
           turnOnSga : BOOLEAN,
           not42 : BOOLEAN,
           echo : BOOLEAN,
           istrip : BOOLEAN,
           opost : BOOLEAN]

\* The type invariant.  That resp stays a natural number is the part of it that
\* the handlers have to ensure: they count answers to what they asked for.
TypeOK == cli \in Client /\ srv \in Server /\ commands \in Nat

\* The last of the messages pos and neg in out is pos; without either of them,
\* st decides.
Ends(out, pos, neg, st) ==
    /\ \A i \in 1..Len(out) :
          out[i] = neg => \E j \in i+1..Len(out) : out[j] = pos
    /\ st \/ \E i \in 1..Len(out) : out[i] = pos

\* A peer whose state for (side, o) is st has it on after reading all of out.
Heard(out, side, o, st) == Ends(out, Msg(side, o, TRUE), Msg(side, o, FALSE), st)

Told(p, q) ==
    \A side \in Sides, o \in Options \ {"TM"} :
        p.opt[side][o].want =>
            Heard(p.out, side, o, q.opt[Other(side)][o].state)

\* A peer that wants an option on has said so, and that is the last the other
\* peer hears of it: whatever was crossed on the way, once everything in flight
\* is read the other side has the option on in its state.  (TM is no option:
\* both programs answer WILL TM and keep it off.)
Announced == Told(cli, srv) /\ Told(srv, cli)

\* Nothing is in flight and neither program has anything left to say.
Quiet == /\ cli.out = <<>> /\ srv.out = <<>>
         /\ cli.todo = <<>> /\ srv.todo = <<>>
         /\ srv.phase = "main"

AgreeOn(p, q, side, o) ==
    /\ p.opt[side][o].want = q.opt[Other(side)][o].want
    /\ p.opt[side][o].want => p.opt[side][o].state /\ q.opt[Other(side)][o].state

Offered(side, o) ==
    side = "will" /\ o = "ECHO" /\ <<"will", "ECHO">> \in Commands

\* The pty does not strip the eighth bit of input agreed to be BINARY.
EightBitInput == srv.opt["do"]["BINARY"].want => ~srv.istrip

\* When the negotiation is quiet the two programs agree on every option: both
\* want it on, and then both have it on, or neither does; and the pty has the
\* input mode agreed on.  Requests that cross, refusals and changes of mind are
\* all settled by then.  Excused: the client's echo when the user can offer it by
\* hand.  The answer to such an offer can be taken for that to a DO ECHO that
\* crosses it, and then either program may be left wanting what the other refused.
Agreement ==
    Quiet => /\ \A side \in Sides, o \in Options \ {"TM"} :
                   AgreeOn(cli, srv, side, o) \/ Offered(side, o)
             /\ "BINARY" \in Options => EightBitInput

\* The spin on OLD_ENVIRON's timer never ends when NEW_ENVIRON is on as well, for
\* then its value has not been asked for, nor when the client's telopt_environ is
\* still NEW_ENVIRON, for then the answer comes under that name.
OldByHand == /\ srv.spin # 0 /\ Values[srv.spin] = "OLD_ENVIRON"
             /\ "NEW_ENVIRON" \in Willing(srv) \/ cli.environ = "NEW_ENVIRON"

\* A WILL ECHO that was refused is still counted when DO ECHO is sent: the one
\* answer that comes is taken for that of the refusal, and none is left.
AnswerTaken == /\ srv.phase = "echo" /\ srv.opt["do"]["ECHO"].resp = 1
               /\ cli.out = <<>> /\ srv.out = <<>>

\* The server's start up gets out of its spins on a client that answers, and
\* does not drop it for a value that came before authentication was over.
\* Excused: a user who turns on OLD_ENVIRON or ECHO by hand meanwhile can hold
\* it up for good (telnetd.c:833, 1163).
StartupCompletes == <>(srv.phase = "main" \/ OldByHand \/ AnswerTaken)

\* The two programs do not answer each other for ever, and terminal output is
\* not thrown away for ever: the mark that ends it comes.
Settles == /\ <>[](cli.out = <<>> /\ srv.out = <<>>)
           /\ cli.flushout ~> ~cli.flushout
=============================================================================
