--------------------------- MODULE TelnetTerminal ---------------------------
(***************************************************************************)
(* The telnet client between its user's terminal and the connection: the   *)
(* loop of telnet(), Scheduler() and process_rings(), the terminal modes   *)
(* of TerminalNewMode(), the command prompt with the subshell, the         *)
(* suspension and the end of the program, and the signals.                 *)
(*                                                                         *)
(* The options are those of TelnetOption: "cli" is the client's peer, with *)
(* its output "out" ending in the server, and "srv" the server's.  What is *)
(* written beside negotiation is a message as well: "key" and "text" are   *)
(* the user's and the server's data, "ip" is an interrupt, "dm" the mark   *)
(* of a synch, "eof" the end of the connection.  Their option field is a   *)
(* name, so that every key and every text can be followed.                 *)
(*                                                                         *)
(* The buffers are queues here; that the ring behind them is one is shown  *)
(* in TelnetRing.  The rlogin interface (-r), BINARY and the commands that *)
(* only print are left out.                                                *)
(***************************************************************************)
EXTENDS TelnetOption, FiniteSets, SequencesExt

CONSTANTS
    Hosted,         \* a host was named on the command line
    MaxEvents,      \* bound on the keys, the interrupts, the server's texts
                    \* and requests and its end, taken together
    MaxAsks,        \* bound on the server's requests and its end
    MaxSessions,    \* bound on the connections opened
    Room            \* telsnd() leaves this much output unsent before it waits

TerminalAssumption ==
    /\ Options = {"ECHO", "SGA", "LINEMODE", "TM", "LFLOW"}
    /\ Hosted \in BOOLEAN
    /\ MaxEvents \in Nat /\ MaxAsks \in Nat /\ MaxSessions \in Nat \ {0} /\ Room \in Nat \ {0}

ASSUME TerminalAssumption

VARIABLES
    place,   \* what the program is doing
    conn,    \* connected
    cli,     \* the client's options, its flags and what it has written
    term,    \* the terminal
    kbd,     \* what the user has typed and the program has not read
    tin,     \* ttyiring
    tni,     \* netiring
    srv,     \* the server
    hist     \* what has become of the keys and the texts, for the properties

vars == <<place, conn, cli, term, kbd, tin, tni, srv, hist>>

Places == {"top", "relay", "prompt", "shell", "stopped", "exited"}

\* The places in which the terminal is not telnet's to read with its modes.
Away == Places \ {"relay"}

Letters  == {"char", "newline", "escape"}
Commands == {"close", "quit", "open", "suspend", "shell",
             "character", "line", "edit"}

KeyIds  == [n \in 1..MaxEvents |-> "k" \o ToString(n)]
TextIds == [n \in 1..MaxEvents |-> "t" \o ToString(n)]

Key(kind, n) == [kind |-> kind, id |-> KeyIds[n]]
Text(n)      == Msg("text", TextIds[n], TRUE)
DataMark     == Msg("dm", "", TRUE)
End          == Msg("eof", "", TRUE)

\* The names of the messages of one side, in order, and of the keys of a queue.
Named(queue, side) ==
    LET found == SelectSeq(queue, LAMBDA m : m.side = side)
    IN  [i \in DOMAIN found |-> found[i].opt]

Ids(keys) == [i \in DOMAIN keys |-> keys[i].id]

\* One more event, or one of the server's, may happen.
Eventful == hist.typed + hist.texts + hist.asks + hist.interrupts < MaxEvents

Asking == Eventful /\ hist.asks < MaxAsks

-----------------------------------------------------------------------------
(* The terminal.  Its modes are Own, the user's, or a set of telnet's.     *)
(* "prev" is prevmode; "saved" is old_tc; "out" is ttyoring and "screen"   *)
(* what the user has seen; "lag" says that the options changed in a way    *)
(* that is followed by no setconnmode().                                   *)

Own == {"own"}

Fresh == [tty |-> Own, prev |-> {}, saved |-> Own, out |-> <<>>,
          screen |-> <<>>, lag |-> FALSE]

\* getconnmode(): in the kludge line mode nothing but SGA decides who edits.
GetConnMode(c) ==
    (IF c.opt["do"]["ECHO"].want THEN {} ELSE {"ECHO"})
      \cup (IF c.localflow THEN {"FLOW"} ELSE {})
      \cup (CASE c.kludgelinemode /\ ~c.opt["do"]["SGA"].want ->
                    {"TRAPSIG", "EDIT"}
              [] ~c.kludgelinemode /\ c.opt["will"]["LINEMODE"].want -> c.linemode
              [] OTHER -> {})

\* TTYADD, ttyflush() and the marks: what is for the terminal is dropped.
Dropping(c) == c.synching \/ c.flushout

Toss(t) == [t EXCEPT !.out = <<>>]
Show(t) == [t EXCEPT !.out = <<>>, !.screen = @ \o t.out]

Ttyflush(t, drop) == IF drop THEN Toss(t) ELSE Show(t)

TtyAdd(t, c, id) == IF Dropping(c) THEN t ELSE [t EXCEPT !.out = Append(@, id)]

\* TerminalNewMode(): the modes are made from old_tc.
Modes(t, mode) == IF mode = Own THEN t.saved ELSE mode

\* Nothing happens when the mode is the one set last, which the command mode
\* (-1) never is.  What waits for the terminal goes first.
NewMode(t, c, mode) ==
    IF mode # Own /\ t.prev = mode THEN t
    ELSE [Ttyflush(t, Dropping(c)) EXCEPT !.prev = mode, !.tty = Modes(t, mode)]

SetConnMode(t, c)    == [NewMode(t, c, GetConnMode(c)) EXCEPT !.lag = FALSE]
SetCommandMode(t, c) == NewMode(t, c, Own)

\* TerminalSaveState()
SaveState(t) == [t EXCEPT !.saved = t.tty]

\* The kernel turns the interrupt character into a signal.
Trapping == term.tty = Own \/ "TRAPSIG" \in term.tty

-----------------------------------------------------------------------------
(* What arrives from the network.                                          *)

LineModes(on) == IF on THEN {"TRAPSIG", "EDIT"} ELSE {}

\* Which messages make their handler call setconnmode().
SetsMode(c, m) ==
    LET side  == Other(m.side)
        asked == Asked(Answered(c, side, m.opt, m.on), side, m.opt, m.on)
    IN  CASE m.side = "will" /\ m.on  -> asked /\ m.opt \in CliWillOk
          [] m.side = "will" /\ ~m.on -> asked /\ m.opt # "TM"
          [] m.side = "do" /\ m.on    -> (asked /\ m.opt \in CliDoOk) \/ m.opt = "LFLOW"
          [] m.side = "do" /\ ~m.on   -> TRUE
          [] OTHER -> /\ c.opt["will"][m.opt].want
                      /\ m.opt = "LFLOW" \/ c.linemode # LineModes(m.on)

\* DO LFLOW, the subnegotiations of LFLOW and of LINEMODE (lm_mode()), and the
\* mode that DONT LINEMODE leaves.
Flagged(c, m) ==
    CASE m.opt = "LFLOW" /\ m.side = "do" /\ m.on -> [c EXCEPT !.localflow = TRUE]
      [] m.opt = "LFLOW" /\ m.side = "sub" /\ c.opt["will"]["LFLOW"].want ->
            [c EXCEPT !.localflow = m.on]
      [] m.opt = "LINEMODE" /\ m.side = "sub" /\ SetsMode(c, m) ->
            Sub([c EXCEPT !.linemode = LineModes(m.on)], "LINEMODE")
      [] m.opt = "LINEMODE" /\ m.side = "do" /\ ~m.on
            /\ Asked(Answered(c, "will", "LINEMODE", FALSE),
                     "will", "LINEMODE", FALSE) -> [c EXCEPT !.linemode = {}]
      [] OTHER -> c

\* LFLOW goes through the command mode, so that the modes are set anew.  After
\* DO LINEMODE no mode is set.
BugOption(s, m) ==
    [s EXCEPT !.c = CliReceive(Flagged(s.c, m), m)]

Option(s, m) ==
    LET c == CliReceive(Flagged(s.c, m), m)
        t == IF m.opt = "LFLOW" /\ m.side \in {"do", "sub"} /\ m.on
             THEN SetCommandMode(s.t, c) ELSE s.t
    IN  [c |-> c,
         t |-> CASE SetsMode(s.c, m) -> SetConnMode(t, c)
                 [] m.opt = "LINEMODE" /\ m.side = "do" /\ m.on ->
                        [s.t EXCEPT !.lag = TRUE]
                 [] OTHER -> s.t]

\* A mark is on its way.
Due(queue) == \E i \in DOMAIN queue : queue[i].side = "dm"

\* telrcv(): one message.  The mark ends the synch unless another is due.
Receive(s, m) ==
    CASE m.side = "text" -> [s EXCEPT !.t = TtyAdd(s.t, s.c, m.opt)]
      [] m.side = "dm"   ->
            [c |-> [s.c EXCEPT !.synching = Due(srv.out)], t |-> Toss(s.t)]
      [] OTHER           -> Option(s, m)

-----------------------------------------------------------------------------
(* The connection.                                                         *)

\* The options of a peer, and everything init_telnet() sets.  The counters of
\* answers due, flushout, linemode and kludgelinemode outlive the connection.
NoOptions == [side \in Sides |-> [o \in Options |-> Default]]

FirstCli == [opt |-> NoOptions, out |-> <<>>, supported |-> TRUE,
             environ |-> "NEW_ENVIRON", flushout |-> FALSE, synching |-> FALSE,
             kludgelinemode |-> TRUE, linemode |-> {}, localflow |-> FALSE]

BugTninit(c) ==
    [c EXCEPT !.synching = FALSE, !.localflow = FALSE,
              !.opt = [side \in Sides |-> [o \in Options |->
                         [Default EXCEPT !.resp = c.opt[side][o].resp]]]]

Tninit(c) ==
    [c EXCEPT !.out = <<>>, !.synching = FALSE, !.localflow = FALSE,
              !.opt = [side \in Sides |-> [o \in Options |->
                         [Default EXCEPT !.resp = c.opt[side][o].resp]]]]

NewServer(lines) ==
    [opt |-> NoOptions, out |-> <<>>, phase |-> "main", supported |-> FALSE,
     got |-> {}, negotiated |-> TRUE, turnOnSga |-> FALSE, not42 |-> TRUE,
     echo |-> TRUE, istrip |-> FALSE, opost |-> TRUE,
     lines |-> lines]     \* a server that knows LINEMODE

\* telnet(): the requests that open the negotiation.
Opening(c) ==
    LET ask(p, side, o) == Request(p, side, o, TRUE)
    IN  ask(ask(ask(c, "do", "SGA"), "will", "LFLOW"), "will", "LINEMODE")

\* What is on its way to the screen when the user or the network gives it up.
Forfeit(h) == [h EXCEPT !.clean = @ \cap ToSet(term.screen)]

Lost(h, keys) == [h EXCEPT !.lost = @ \cup ToSet(Ids(keys))]

\* tn() and telnet(): the modes are set before the requests are made.
Connected(t, h) ==
    /\ h.session < MaxSessions
    /\ conn' = TRUE /\ place' = "relay"
    /\ term' = [SetConnMode(t, cli) EXCEPT !.lag = TRUE]
    /\ cli' = Opening(cli)
    /\ \E lines \in BOOLEAN : srv' = NewServer(lines)
    /\ hist' = [h EXCEPT !.session = @ + 1]
    /\ UNCHANGED tni

\* What was written and not read by the server is lost.
Abandoned(h) ==
    [h EXCEPT !.lost = @ \cup ToSet(Named(cli.out, "key"))]

\* The program has gone, and its memory with it.
Exited(h) ==
    /\ place' = "exited" /\ conn' = FALSE
    /\ cli' = FirstCli /\ srv' = NewServer(FALSE)
    /\ hist' = Abandoned(h)

\* The loop ends: setcommandmode() and ExitString().  What has been read from
\* the network is still processed, and all of it is shown; a mark among it asks
\* for the closed connection, and that ends the program at once.
Leave(c, queue, h) ==
    LET whole == ~Due(queue)
        start == [c |-> c, t |-> SetConnMode(SetCommandMode(term, c), c)]
        s == IF whole THEN FoldLeft(Receive, start, queue) ELSE start
    IN  /\ term' = SetCommandMode(Show(s.t), s.c)
        /\ Exited(Lost(IF whole THEN h ELSE Forfeit(h), tin))
        /\ tni' = <<>> /\ tin' = <<>>
        /\ UNCHANGED kbd

-----------------------------------------------------------------------------
(* The user.                                                               *)

\* Commands are typed at a prompt, or ahead behind an escape.
Escaped == \E i \in DOMAIN kbd : kbd[i].kind = "escape"

Type ==
    /\ place \in {"top", "relay", "prompt"}
    /\ Eventful
    /\ \E kind \in (IF place = "relay" THEN Letters ELSE {"newline"})
                     \cup (IF place # "relay" \/ Escaped THEN Commands ELSE {}) :
          kbd' = Append(kbd, Key(kind, hist.typed + 1))
    /\ hist' = [hist EXCEPT !.typed = @ + 1]
    /\ UNCHANGED <<place, conn, cli, term, tin, tni, srv>>

\* intp() and doflush(): an interrupt, and a mark to flush up to (autoflush).
Intp(c) == [Write([c EXCEPT !.out = Append(@, Msg("ip", "", TRUE))],
                  "do", "TM", TRUE) EXCEPT !.flushout = TRUE]

\* The terminal forgets what it holds when it makes a signal of a key.
Signalled ==
    /\ Trapping /\ Eventful
    /\ kbd' = <<>>

Interrupted == Lost([Forfeit(hist) EXCEPT !.interrupts = @ + 1], kbd)

\* intr() while the connection is read: the signal is passed on.
InterruptRelay ==
    /\ place = "relay" /\ Signalled
    /\ cli' = Intp(cli) /\ term' = Toss(term)
    /\ hist' = Interrupted
    /\ UNCHANGED <<place, conn, tin, tni, srv>>

\* bye(): the connection is shut down and the buffers are emptied.
Gone == [srv EXCEPT !.phase = "exit", !.out = <<>>]

\* quit(): bye() and Exit().
Quit(c, h) ==
    /\ term' = SetCommandMode(SetConnMode(Toss(term), Tninit(c)), Tninit(c))
    /\ Exited(Forfeit(h))
    /\ tni' = <<>>

\* intr() at a prompt passes the signal on, too, but fgets() is interrupted,
\* and that is taken for the end of the input.
InterruptPrompt ==
    /\ place = "prompt" /\ Signalled
    /\ Quit(Intp(cli), Lost(Interrupted, tin))
    /\ tin' = <<>>

\* At the prompt on top the signal has its default action.
InterruptTop ==
    /\ place = "top" /\ Signalled
    /\ Exited(Interrupted)
    /\ UNCHANGED <<term, tin, tni>>

-----------------------------------------------------------------------------
(* The loop of telnet(): from the terminal to the network.                 *)

\* What a read of the terminal returns: with local editing a line, which ends
\* in a newline, a command's included, or in the escape character (VEOL).
EndsLine(k) == k.kind \notin {"char"}

LineEnds == {i \in DOMAIN kbd : EndsLine(kbd[i])}

Readable ==
    IF "EDIT" \notin term.tty THEN Len(kbd)
    ELSE IF LineEnds = {} THEN 0
    ELSE CHOOSE i \in LineEnds : \A j \in LineEnds : i <= j

\* process_rings(): something to read from the terminal.
ReadTty ==
    /\ place = "relay" /\ Readable > 0
    /\ tin' = tin \o SubSeq(kbd, 1, Readable)
    /\ kbd' = SubSeq(kbd, Readable + 1, Len(kbd))
    /\ UNCHANGED <<place, conn, cli, term, tni, srv, hist>>

SendKey(k) == [cli EXCEPT !.out = Append(@, Msg("key", k.id, TRUE))]

\* The first whole line, or nothing.
Line(keys) ==
    LET ends == {i \in DOMAIN keys : EndsLine(keys[i]) /\ keys[i].kind # "escape"}
    IN  IF ends = {} THEN <<>>
        ELSE SubSeq(keys, 1, CHOOSE i \in ends : \A j \in ends : i <= j)

\* The command line that command() finds behind an escape: not an empty one.
Behind(keys) ==
    IF keys # <<>> /\ keys[1].kind = "newline" THEN <<>> ELSE Line(keys)

\* telsnd(): one key.  Two escapes are one that is sent; behind another what
\* has been read with it is a command line, and more than one line is lost.
Telsnd ==
    /\ place = "relay" /\ tin # <<>> /\ Len(cli.out) < Room
    /\ Head(tin).kind # "escape"
    /\ cli' = SendKey(Head(tin)) /\ tin' = Tail(tin)
    /\ UNCHANGED <<place, conn, term, kbd, tni, srv, hist>>

Doubled == Len(tin) > 1 /\ tin[2].kind = "escape"

TelsndEscape ==
    /\ place = "relay" /\ tin # <<>> /\ Len(cli.out) < Room
    /\ Head(tin).kind = "escape" /\ Doubled
    /\ cli' = SendKey(tin[2]) /\ tin' = Tail(Tail(tin))
    /\ hist' = Lost(hist, <<Head(tin)>>)
    /\ UNCHANGED <<place, conn, term, kbd, tni, srv>>

BugSetPrompt(t, c) == t

SetPrompt(t, c) == SetCommandMode(t, c)

TelsndCommand ==
    /\ place = "relay" /\ tin # <<>> /\ Len(cli.out) < Room
    /\ Head(tin).kind = "escape" /\ ~Doubled
    /\ place' = "prompt"
    /\ term' = SetPrompt(term, cli)
    /\ LET line == Behind(Tail(tin))
       IN  /\ tin' = line
           /\ hist' = Lost(hist, <<Head(tin)>>
                                   \o SubSeq(tin, 2 + Len(line), Len(tin)))
    /\ UNCHANGED <<conn, cli, kbd, tni, srv>>

\* process_rings(): the terminal takes what waits for it.
TtyFlush ==
    /\ place = "relay" /\ term.out # <<>>
    /\ term' = Ttyflush(term, Dropping(cli))
    /\ UNCHANGED <<place, conn, cli, kbd, tin, tni, srv, hist>>

-----------------------------------------------------------------------------
(* The loop of telnet(): from the network to the terminal.                 *)

\* A mark is on its way: everything up to it is for nobody.
Urgent ==
    /\ place = "relay" /\ tni = <<>> /\ ~cli.synching /\ Due(srv.out)
    /\ cli' = [cli EXCEPT !.synching = TRUE]
    /\ term' = Toss(term)
    /\ UNCHANGED <<place, conn, kbd, tin, tni, srv, hist>>

\* A read returns what has come, up to the next mark or the end.
Stops == {i \in 2..Len(srv.out) : srv.out[i] \in {DataMark, End}}

Arrived == IF Stops = {} THEN Len(srv.out)
           ELSE CHOOSE i \in DOMAIN srv.out :
                    i + 1 \in Stops /\ \A j \in Stops : i < j

ReadNet ==
    /\ place = "relay" /\ tni = <<>> /\ srv.out # <<>> /\ Head(srv.out) # End
    /\ tni' = SubSeq(srv.out, 1, Arrived)
    /\ srv' = [srv EXCEPT !.out = SubSeq(@, Arrived + 1, Len(@))]
    /\ UNCHANGED <<place, conn, cli, term, kbd, tin, hist>>

Telrcv ==
    /\ place = "relay" /\ tni # <<>>
    /\ LET s == FoldLeft(Receive, [c |-> cli, t |-> term], tni)
       IN  cli' = s.c /\ term' = s.t
    /\ tni' = <<>>
    /\ UNCHANGED <<place, conn, kbd, tin, srv, hist>>

Eof ==
    /\ place = "relay" /\ tni = <<>> /\ srv.out # <<>> /\ Head(srv.out) = End
    /\ Leave(cli, tni, hist)

\* Writing to a server that has gone: deadpeer(), or the error in netflush().
\* What the connection still holds is not read any more.
Reset ==
    /\ place = "relay" /\ srv.phase = "exit" /\ cli.out # <<>>
    /\ Leave(cli, tni, Forfeit(hist))

-----------------------------------------------------------------------------
(* The prompt: command().                                                  *)

\* The line comes from behind the escape or from the terminal.
Entered == IF tin # <<>> THEN tin ELSE Line(kbd)

Verb == IF Len(Entered) = 1 THEN Entered[1].kind ELSE "invalid"

Enter(verbs) ==
    /\ place \in {"top", "prompt"} /\ Entered # <<>> /\ Verb \in verbs
    /\ tin' = <<>>
    /\ kbd' = IF tin # <<>> THEN kbd ELSE SubSeq(kbd, Len(Entered) + 1, Len(kbd))

Used == Lost(hist, Entered)

\* The connection goes on; on top the next prompt comes.
Resume(t, c) ==
    /\ place' = IF conn THEN "relay" ELSE "top"
    /\ term' = IF conn THEN SetConnMode(t, c) ELSE SetCommandMode(t, c)
    /\ cli' = c
    /\ UNCHANGED <<conn, tni, srv>>

Empty ==
    /\ Enter({"newline"}) /\ Resume(term, cli) /\ hist' = Used

\* What is not a command, or not one now, is followed by another prompt.
Refused ==
    /\ Enter({"invalid"} \cup (IF conn THEN {"open"}
                               ELSE {"close", "character", "line", "edit"})
               \cup (IF cli.opt["will"]["LINEMODE"].want THEN {} ELSE {"edit"}))
    /\ hist' = Used
    /\ UNCHANGED <<place, conn, cli, term, tni, srv>>

\* tn()
Open ==
    /\ ~conn /\ Enter({"open"}) /\ Connected(term, Used)

\* bye(): back to the top, or out of the program when the host was named there.
Close ==
    /\ conn /\ Enter({"close"})
    /\ conn' = FALSE /\ cli' = Tninit(cli)
    /\ place' = IF Hosted THEN "exited" ELSE "top"
    /\ LET t == IF Hosted THEN SetConnMode(Toss(term), Tninit(cli)) ELSE Toss(term)
       IN  term' = SetCommandMode(t, Tninit(cli))
    /\ srv' = Gone /\ tni' = <<>>
    /\ hist' = Abandoned(Forfeit(Used))

QuitCommand == Enter({"quit"}) /\ Quit(cli, Used)

\* docharmode() and dolinemode()
Mode ==
    LET ask(p, side, o, on) == Request(p, side, o, on)
        character == ask(IF cli.kludgelinemode THEN ask(cli, "do", "SGA", TRUE)
                         ELSE ask(cli, "will", "LINEMODE", FALSE),
                         "do", "ECHO", TRUE)
        line == ask(ask(IF cli.kludgelinemode THEN ask(cli, "do", "SGA", FALSE)
                        ELSE cli, "will", "LINEMODE", TRUE), "do", "ECHO", FALSE)
    IN  /\ conn /\ Enter({"character", "line"})
        /\ Resume(term, IF Verb = "character" THEN character ELSE line)
        /\ hist' = Used

\* dolmmode(): "mode edit" or "mode -edit".
Toggled == IF "EDIT" \in cli.linemode THEN cli.linemode \ {"EDIT"}
           ELSE cli.linemode \cup {"EDIT"}

Edit ==
    /\ conn /\ cli.opt["will"]["LINEMODE"].want /\ Enter({"edit"})
    /\ Resume(term, Sub([cli EXCEPT !.linemode = Toggled], "LINEMODE"))
    /\ hist' = Used

\* suspend() and shell() leave the terminal to another program.
Yield ==
    /\ Enter({"suspend", "shell"})
    /\ place' = IF Verb = "suspend" THEN "stopped" ELSE "shell"
    /\ term' = SetCommandMode(term, cli)
    /\ hist' = Used
    /\ UNCHANGED <<conn, cli, tni, srv>>

\* That program may read what has been typed ahead.
TypedAhead ==
    \/ kbd' = kbd /\ hist' = hist
    \/ kbd # <<>> /\ kbd' = <<>> /\ hist' = Lost(hist, kbd)

\* The shell has ended, or a signal interrupts wait() while it is running.
ShellDone ==
    /\ place = "shell" /\ TypedAhead /\ Resume(term, cli) /\ UNCHANGED tin

InterruptShell ==
    /\ place = "shell" /\ conn /\ Signalled
    /\ Resume(Toss(term), Intp(cli))
    /\ hist' = Interrupted
    /\ UNCHANGED tin

\* In the foreground again: the modes of the terminal may have been changed.
Continue ==
    /\ place = "stopped" /\ TypedAhead
    /\ LET t == SaveState(term)
       IN  Resume(SetConnMode(t, cli), cli)
    /\ UNCHANGED tin

-----------------------------------------------------------------------------
(* The server: what it reads, what it writes and asks for, and its end.    *)

\* One with LINEMODE accepts it; telnetd, as it is built, does not know it.
ServerReceive(s, m) ==
    CASE m.side \in {"key", "ip"} -> s
      [] m = Msg("will", "LINEMODE", TRUE) /\ s.lines ->
            LET p == Answered(s, "do", "LINEMODE", TRUE)
            IN  SetState(IF Asked(p, "do", "LINEMODE", TRUE)
                         THEN Accept(p, "do", "LINEMODE") ELSE p,
                         "do", "LINEMODE", TRUE)
      [] OTHER -> SrvReceive(s, m)

Serving == conn /\ srv.phase = "main"

ServerReceives ==
    /\ Serving /\ cli.out # <<>>
    /\ srv' = FoldLeft(ServerReceive, srv, cli.out)
    /\ hist' = [hist EXCEPT !.got = @ \o Named(cli.out, "key")]
    /\ cli' = [cli EXCEPT !.out = <<>>]
    /\ UNCHANGED <<place, conn, term, kbd, tin, tni>>

\* A text is for the user's eyes unless output is being flushed and the mark
\* that ends the flush has not been answered before it.  (A flush that a closed
\* connection left is ended by none: telnet.c:203 does not clear flushout.)
MarkAnswered ==
    LET on(queue) == \E i \in DOMAIN queue : queue[i].side = "will" /\ queue[i].opt = "TM"
    IN  on(tni) \/ on(srv.out)

ServerWrites ==
    /\ Serving /\ Eventful
    /\ LET text == Text(hist.texts + 1)
           due  == \E i \in DOMAIN cli.out : cli.out[i] = Msg("do", "TM", TRUE)
       IN  /\ srv' = [srv EXCEPT !.out = Append(@, text)]
           /\ hist' = [hist EXCEPT
                          !.texts = @ + 1,
                          !.clean = IF ~due /\ (cli.flushout => MarkAnswered)
                                    THEN @ \cup {text.opt} ELSE @]
    /\ UNCHANGED <<place, conn, cli, term, kbd, tin, tni>>

Asks(p) ==
    \E on \in BOOLEAN :
       \/ srv' = Request(p, "will", "ECHO", on)
       \/ srv' = Request(p, "do", "LFLOW", on)
       \/ p.opt["do"]["LFLOW"].state /\ srv' = Write(p, "sub", "LFLOW", on)
       \/ p.lines /\ p.opt["do"]["LINEMODE"].state
             /\ srv' = Write(p, "sub", "LINEMODE", on)

ServerAsks ==
    /\ Serving /\ Asking /\ Asks(srv)
    /\ hist' = [hist EXCEPT !.asks = @ + 1]
    /\ UNCHANGED <<place, conn, cli, term, kbd, tin, tni>>

\* A synch: what was written before the mark need not be shown.
ServerSynch ==
    /\ Serving /\ Asking
    /\ srv' = [srv EXCEPT !.out = Append(@, DataMark)]
    /\ hist' = [Forfeit(hist) EXCEPT !.asks = @ + 1]
    /\ UNCHANGED <<place, conn, cli, term, kbd, tin, tni>>

ServerCloses ==
    /\ Serving /\ Asking
    /\ srv' = [srv EXCEPT !.phase = "exit", !.out = Append(@, End)]
    /\ hist' = [hist EXCEPT !.asks = @ + 1]
    /\ UNCHANGED <<place, conn, cli, term, kbd, tin, tni>>

-----------------------------------------------------------------------------

FirstHist == [typed |-> 0, session |-> 1, interrupts |-> 0, texts |-> 0,
              asks |-> 0, lost |-> {}, clean |-> {}, got |-> <<>>]

\* The connection has just been made: from the command line, after which the
\* program ends with it, or at the prompt.
Init ==
    /\ conn = TRUE /\ place = "relay"
    /\ kbd = <<>> /\ tin = <<>> /\ tni = <<>>
    /\ srv \in {NewServer(lines) : lines \in BOOLEAN}
    /\ cli = Opening(FirstCli)
    /\ term = [SetConnMode(Fresh, FirstCli) EXCEPT !.lag = TRUE]
    /\ hist = FirstHist

Loop   == ReadTty \/ Telsnd \/ TelsndEscape \/ TelsndCommand \/ TtyFlush
            \/ Urgent \/ ReadNet \/ Telrcv \/ Eof \/ Reset
Prompt == Empty \/ Refused \/ Open \/ Close \/ QuitCommand \/ Mode \/ Edit \/ Yield
User   == Type \/ InterruptRelay \/ InterruptPrompt \/ InterruptTop
            \/ InterruptShell \/ ShellDone \/ Continue
Server == ServerReceives \/ ServerWrites \/ ServerAsks \/ ServerSynch \/ ServerCloses

Next == Loop \/ Prompt \/ User \/ Server

Spec == Init /\ [][Next]_vars

-----------------------------------------------------------------------------
(* Properties.                                                             *)

\* Wherever the user, a shell or nobody but the shell telnet was started from
\* has the terminal, its modes are the user's own: after every prompt, stop,
\* subshell, signal, lost connection and end (setcommandmode(), SetForExit()
\* and TerminalSaveState() when the program is continued).
Restored == place \in Away => term.tty = Own /\ term.saved = Own

\* While the connection is relayed the terminal has the modes that were set
\* last (prevmode is not wrong about it), and they are the ones the options
\* call for, however negotiation, the prompt and LINEMODE have changed them;
\* the exceptions are the requests of telnet() and a DO LINEMODE, after which
\* no mode is set until the next option comes (telnet.c:562 and 2323).
Follows ==
    place = "relay" =>
        /\ term.tty = term.prev
        /\ term.tty = GetConnMode(cli) \/ term.lag

\* A sequence of names in the order in which they were given.
Rank == [id \in Range(KeyIds) \cup Range(TextIds) |->
            CHOOSE n \in 1..MaxEvents :
                id \in {"k" \o ToString(n), "t" \o ToString(n)}]

InOrder(ids) ==
    \A i \in 1..(Len(ids) - 1) : Rank[ids[i]] < Rank[ids[i + 1]]

\* Every key is sent to the server once and in order, unless it was a command,
\* an escape, or was given up with what a signal, a prompt or the end of a
\* connection throws away: what one connection did not send the next one does
\* not send either, and none is in two places.
Keystrokes ==
    LET ids == hist.got \o Named(cli.out, "key") \o Ids(tin) \o Ids(kbd)
    IN  /\ InOrder(ids)
        /\ ToSet(ids) \cap hist.lost = {}
        /\ ToSet(ids) \cup hist.lost = {KeyIds[n] : n \in 1..hist.typed}

\* What the server has written is shown once, in order, and all of it, unless
\* the user's interrupt, a synch or the end of the connection gave it up: the
\* flags that drop output are off again when the text behind the mark comes.
Shown ==
    LET ids == term.screen \o term.out \o Named(tni, "text") \o Named(srv.out, "text")
    IN  /\ InOrder(ids)
        /\ hist.clean \subseteq ToSet(ids)
=============================================================================
