------------------------------- MODULE Rlogin -------------------------------
(* A session of krlogin with krlogind once kcmd() has set it up: the writer *)
(* and the reader process of krlogin, the signals between them, the         *)
(* protocol machine of krlogind with its terminal in packet mode, and the   *)
(* record layer of kcmd.c under both.  Protocol version 0.2 signals in the  *)
(* stream and encrypts each write as a record whose cipher state continues  *)
(* the one before; version 0.1 signals out of band.  A character is a model *)
(* value: "F" stands for 0377, the byte that begins a control message.      *)
EXTENDS Naturals, Sequences, SequencesExt

CONSTANTS
  Modes,        \* what do_encrypt, do_inband and eight may be in the session
  Outputs,      \* what the shell may write at once
  Marks,        \* the packet mode changes the terminal may report
  Keys,         \* the characters a person types
  Sizes,        \* the sizes of the person's window
  MaxInputs     \* bound: characters typed, writes of the shell and resizes together

VARIABLES
  mode,         \* the protocol, fixed by kcmd() and recvauth(), and the option -7
  tty,          \* the terminal of the person: what is typed, shown, its size and IXON;
                \* undone is history: a stop has taken back the last change of IXON
  wr,           \* the writer process: read_wrapper()'s buffer, what is to be written
  rd,           \* the reader process: rcvbuf
  sig,          \* signals on their way to the writer
  des,          \* des_outpkt, the packet being written
  up, down,     \* what is on the network in each direction
  urg,          \* the urgent mark of the server: its byte, and how much is before it
  srv,          \* krlogind: fibuf, pibuf, oobdata, the window size it has set
  shell,        \* what the shell has written and read
  spoilt,       \* history: what the programs lose track of (see the properties)
  left          \* bounds

vars == <<mode, tty, wr, rd, sig, des, up, down, urg, srv, shell, spoilt, left>>

WindowMessage(size) == <<"F", "F", "s", "s", size>>
OobMessage(mark) == <<"F", "F", "o", "o", mark>>
Quote == <<"F", "F", "q", "q">>
NoPacket == [on |-> FALSE]
NoMark == [on |-> FALSE]
At(s, i, t) == i + Len(t) - 1 <= Len(s) /\ SubSeq(s, i, i + Len(t) - 1) = t
\* Bound: a read of a clear stream takes one character, all, or all but one,
\* and the other processes write all they have.
Pieces(n) == {1, n - 1, n} \intersect 1..n
----------------------------------------------------------------------------
(* v5_des_write(): encrypt into the one packet, with the cipher state       *)
(* advanced, then write it.  A clear write is just a write.                 *)
Record(body) == [seq |-> des.seq, body |-> body]
Wire(dir, body) == dir \o (IF mode.encrypt THEN <<body>> ELSE body)

(* A write of the writer process: it first fills des_outpkt.                *)
Encrypt ==
  /\ wr.at # "gone" /\ wr.out # <<>> /\ ~des.full /\ mode.encrypt
  /\ des' = [full |-> TRUE, seq |-> des.seq + 1, packet |-> Record(Head(wr.out))]
  /\ UNCHANGED <<mode, tty, wr, rd, sig, up, down, urg, srv, shell, spoilt, left>>
WritePacket ==
  /\ wr.at # "gone" /\ wr.out # <<>> /\ (des.full \/ ~mode.encrypt)
  /\ wr' = [wr EXCEPT !.out = Tail(@)]
  /\ up' = IF mode.encrypt THEN Append(up, des.packet) ELSE up \o Head(wr.out)
  /\ des' = [des EXCEPT !.full = FALSE]
  /\ UNCHANGED <<mode, tty, rd, sig, down, urg, srv, shell, spoilt, left>>

(* sendwindow(), from a signal handler or from stop(): if the writer is     *)
(* inside its own write the packet is no longer the writer's.               *)
SendWindow(size) ==
  /\ up' = IF mode.encrypt THEN Append(up, Record(WindowMessage(size))) ELSE up \o WindowMessage(size)
  /\ des' = IF mode.encrypt THEN [des EXCEPT !.seq = @ + 1, !.packet = Record(WindowMessage(size))]
            ELSE des
  /\ spoilt' = [spoilt EXCEPT !.overrun = @ \/ des.full]
(* writeroob(): the first SIGUSR1 sends the size found at the start and     *)
(* turns SIGWINCH on.                                                       *)
Writeroob ==
  /\ wr.at # "gone" /\ sig.usr1
  /\ sig' = [sig EXCEPT !.usr1 = FALSE]
  /\ IF wr.dosigwinch THEN UNCHANGED <<up, des, spoilt>> ELSE SendWindow(wr.winsize)
  /\ wr' = [wr EXCEPT !.dosigwinch = TRUE]
  /\ UNCHANGED <<mode, tty, rd, down, urg, srv, shell, left>>
BugResized(w, size) == w.dosigwinch /\ size # w.winsize /\ w.out = <<>>
Resized(w, size) == w.dosigwinch /\ size # w.winsize
Sigwinch ==
  /\ wr.at # "gone" /\ sig.winch
  /\ sig' = [sig EXCEPT !.winch = FALSE]
  /\ IF Resized(wr, tty.size)
     THEN SendWindow(tty.size) /\ wr' = [wr EXCEPT !.winsize = tty.size]
     ELSE UNCHANGED <<up, des, spoilt, wr>>
  /\ UNCHANGED <<mode, tty, rd, down, urg, srv, shell, left>>
----------------------------------------------------------------------------
(* read_wrapper(): the buffer up to the end or to an escape character at    *)
(* the beginning of a line, and whether a line begins after it.             *)
Bol(c) == c = "cr"
Stops(b, bol) == {i \in 1..Len(b) : b[i] = "~" /\ IF i = 1 THEN bol ELSE Bol(b[i - 1])}
Wrapper(b, bol) ==
  IF Stops(b, bol) = {} THEN [n |-> Len(b), esc |-> FALSE, bol |-> Bol(b[Len(b)])]
  ELSE [n |-> CHOOSE i \in Stops(b, bol) : \A j \in Stops(b, bol) : i <= j, esc |-> TRUE, bol |-> FALSE]
Filled(w) == IF w.tbuf = <<>> THEN [w EXCEPT !.tbuf = tty.typed] ELSE w
Consumed(w) == IF w.tbuf = <<>> THEN [tty EXCEPT !.typed = <<>>] ELSE tty
MayRead == wr.out = <<>> /\ (wr.tbuf # <<>> \/ tty.typed # <<>>)

Writer ==
  /\ wr.at = "main" /\ MayRead
  /\ tty' = Consumed(wr)
  /\ LET w == Filled(wr)
         r == Wrapper(w.tbuf, w.bol)
         n == IF r.esc THEN r.n - 1 ELSE r.n IN
     wr' = [w EXCEPT !.at = IF r.esc THEN "escape" ELSE "main", !.bol = r.bol,
                     !.out = IF n = 0 THEN <<>> ELSE <<SubSeq(w.tbuf, 1, n)>>,
                     !.tbuf = SubSeq(@, r.n + 1, Len(@))]
  /\ UNCHANGED <<mode, rd, sig, des, up, down, urg, srv, shell, spoilt, left>>
(* mode(1) clears IXON whatever -7 and -L say.  stop() restores the         *)
(* terminal by mode(0) and calls it again: a change of the flow control     *)
(* made for the server is lost, as is what the reader does in between.      *)
Mode1(t) == [t EXCEPT !.ixon = FALSE]
Stop(t) == [Mode1(t) EXCEPT !.undone = @ \/ t.ixon]
(* The character after an escape: "." ends the session, a suspend stops     *)
(* and then looks for a new size, an escape is sent once, anything else     *)
(* goes after the escape.                                                   *)
Escape ==
  /\ wr.at = "escape" /\ MayRead
  /\ LET w == Filled(wr)
         c == Head(w.tbuf)
         next == [w EXCEPT !.at = "main", !.tbuf = Tail(@), !.bol = Bol(c)] IN
     /\ tty' = IF c = "susp" THEN Stop(Consumed(wr)) ELSE Consumed(wr)
     /\ \/ c = "." /\ wr' = [next EXCEPT !.at = "gone"] /\ UNCHANGED <<des, up, spoilt>>
        \/ /\ c = "susp"
           /\ IF Resized(w, tty.size)
              THEN SendWindow(tty.size) /\ wr' = [next EXCEPT !.winsize = tty.size]
              ELSE wr' = next /\ UNCHANGED <<des, up, spoilt>>
        \/ /\ c \notin {".", "susp"}
           /\ wr' = [next EXCEPT !.out = IF c = "~" THEN <<<<c>>>> ELSE <<<<"~">>, <<c>>>>]
           /\ UNCHANGED <<des, up, spoilt>>
  /\ UNCHANGED <<mode, rd, sig, down, urg, srv, shell, left>>
(* catchild(), lostpeer(): the connection has ended.                        *)
Lostpeer ==
  /\ wr.at # "gone" /\ srv.at = "gone" /\ down = <<>> /\ rd.buf = <<>>
  /\ wr' = [wr EXCEPT !.at = "gone"]
  /\ UNCHANGED <<mode, tty, rd, sig, des, up, down, urg, srv, shell, spoilt, left>>
----------------------------------------------------------------------------
(* The reader.  server_message() acts on a mark, on a change of the flow    *)
(* control only with -7; a flush makes the reader discard.                  *)
BugServerMessage(mark) ==
  /\ tty' = IF mark.flow = "same" THEN tty
            ELSE [tty EXCEPT !.ixon = mark.flow = "dostop", !.undone = FALSE]
  /\ sig' = [sig EXCEPT !.usr1 = @ \/ mark.window]
ServerMessage(mark) ==
  /\ tty' = IF mode.eight \/ mark.flow = "same" THEN tty
            ELSE [tty EXCEPT !.ixon = mark.flow = "dostop", !.undone = FALSE]
  /\ sig' = [sig EXCEPT !.usr1 = @ \/ mark.window]
(* The scan of what was read in band: a mark is taken out, a quoted pair    *)
(* becomes the pair and is looked at again (f's p bytes 0377 before i).     *)
IsMark(b, i) == At(b, i, <<"F", "F", "o", "o">>) /\ i + 4 <= Len(b)
Scan(body) ==
  LET f[i \in 1..Len(body) + 1, p \in 0..2] ==
        LET b == SubSeq(<<"F", "F">>, 1, p) \o SubSeq(body, i, Len(body)) IN
        IF b = <<>> THEN [b |-> <<>>, marks |-> <<>>, cut |-> FALSE]
        ELSE IF IsMark(b, 1)
        THEN IF b[5].flush THEN [b |-> <<>>, marks |-> <<b[5]>>, cut |-> TRUE]
             ELSE LET r == f[i + 5 - p, 0] IN [r EXCEPT !.marks = <<b[5]>> \o @]
        ELSE IF At(b, 1, Quote) THEN f[i + 4 - p, 2]
        ELSE LET r == IF p > 0 THEN f[i, p - 1] ELSE f[i + 1, 0] IN
             [r EXCEPT !.b = IF r.cut THEN @ ELSE <<Head(b)>> \o @]
  IN f[1, 0]
ReadRecord ==
  /\ wr.at # "gone" /\ rd.buf = <<>> /\ mode.encrypt /\ down # <<>>
  /\ LET s == Scan(Head(down)) IN
     /\ rd' = [rd EXCEPT !.buf = s.b]
     /\ IF s.marks = <<>> THEN UNCHANGED <<tty, sig>> ELSE ServerMessage(Last(s.marks))
  /\ down' = Tail(down)
  /\ UNCHANGED <<mode, wr, des, up, urg, srv, shell, spoilt, left>>
(* Out of band the stream is read up to the mark and no further; a flush    *)
(* discards up to the mark.                                                 *)
Limit == IF urg.on THEN urg.before ELSE Len(down)
ReadStream ==
  /\ wr.at # "gone" /\ rd.buf = <<>> /\ ~mode.encrypt
  /\ \E n \in Pieces(Limit) :
     /\ rd' = [rd EXCEPT !.buf = SubSeq(down, 1, n)]
     /\ down' = SubSeq(down, n + 1, Len(down))
     /\ urg' = IF urg.on THEN [urg EXCEPT !.before = @ - n] ELSE urg
  /\ UNCHANGED <<mode, tty, wr, sig, des, up, srv, shell, spoilt, left>>
Oob ==
  /\ wr.at # "gone" /\ urg.on
  /\ urg' = NoMark
  /\ ServerMessage(urg.mark)
  /\ down' = IF urg.mark.flush THEN SubSeq(down, urg.before + 1, Len(down)) ELSE down
  /\ UNCHANGED <<mode, wr, rd, des, up, srv, shell, spoilt, left>>
Show ==
  /\ wr.at # "gone" /\ rd.buf # <<>>
  /\ tty' = [tty EXCEPT !.shown = @ \o rd.buf]
  /\ rd' = [rd EXCEPT !.buf = <<>>]
  /\ UNCHANGED <<mode, wr, sig, des, up, down, urg, srv, shell, spoilt, left>>
----------------------------------------------------------------------------
(* krlogind.  sendoob(): in band, or as urgent data, of which the network   *)
(* keeps only the last.                                                     *)
Sendoob(mark) ==
  IF mode.inband THEN down' = Wire(down, OobMessage(mark)) /\ UNCHANGED urg
  ELSE urg' = [on |-> TRUE, mark |-> mark, before |-> Len(down)] /\ UNCHANGED down
(* protocol() begins with a mark that asks for the window size; the request *)
(* is repeated with every mark until a window message has come.             *)
NoChange == [flow |-> "same", flush |-> FALSE]
WithWindow(m, wanted) == [flow |-> m.flow, flush |-> m.flush, window |-> wanted]
Begin ==
  /\ srv.at = "begin"
  /\ srv' = [srv EXCEPT !.at = "up"]
  /\ Sendoob(WithWindow(NoChange, TRUE))
  /\ UNCHANGED <<mode, tty, wr, rd, sig, des, up, shell, spoilt, left>>

(* control(): a window message is taken out of what was read and obeyed; a  *)
(* message cut in two by the network is not recognised.                     *)
IsWindow(b, i) == At(b, i, <<"F", "F", "s", "s">>) /\ i + 4 <= Len(b)
Windows(b) == {i \in 1..Len(b) : IsWindow(b, i)}
BugTakeOut(b) == IF Windows(b) = {} THEN b ELSE SubSeq(b, 1, (CHOOSE i \in Windows(b) : TRUE) - 1)
TakeOut(b) ==
  LET Keep(i) == ~\E j \in Windows(b) : i \in j..j + 4
      f[i \in 0..Len(b)] ==
        IF i = 0 THEN <<>> ELSE IF Keep(i) THEN Append(f[i - 1], b[i]) ELSE f[i - 1]
  IN f[Len(b)]
Control(s, b) ==
  LET last == CHOOSE i \in Windows(b) : \A j \in Windows(b) : j <= i IN
  IF Windows(b) = {} THEN [s EXCEPT !.fibuf = b]
  ELSE [s EXCEPT !.fibuf = TakeOut(b), !.window = FALSE, !.size = b[last + 4]]

ServerRead ==
  /\ srv.at = "up" /\ srv.fibuf = <<>> /\ up # <<>>
  /\ \/ /\ mode.encrypt
        /\ up' = Tail(up)
        /\ srv' = IF Head(up).seq = srv.seq THEN [Control(srv, Head(up).body) EXCEPT !.seq = @ + 1]
                  ELSE [srv EXCEPT !.at = "gone"]
        /\ UNCHANGED spoilt
     \/ /\ ~mode.encrypt
        /\ \E n \in Pieces(Len(up)) :
           /\ up' = SubSeq(up, n + 1, Len(up))
           /\ srv' = Control(srv, SubSeq(up, 1, n))
           /\ spoilt' = [spoilt EXCEPT !.torn = @ \/ \E i \in Windows(up) : i <= n /\ i + 4 > n]
  /\ UNCHANGED <<mode, tty, wr, rd, sig, des, down, urg, shell, left>>
ToShell ==
  /\ srv.at = "up" /\ srv.fibuf # <<>>
  /\ shell' = [shell EXCEPT !.read = @ \o srv.fibuf]
  /\ srv' = [srv EXCEPT !.fibuf = <<>>]
  /\ UNCHANGED <<mode, tty, wr, rd, sig, des, up, down, urg, spoilt, left>>

(* Packet mode: data, with a pair of 0377 quoted in band, or a mark.        *)
Quoted(b) ==
  LET pair[i \in 0..Len(b)] == i > 1 /\ b[i] = "F" /\ b[i - 1] = "F" /\ ~pair[i - 1]
      q[i \in 0..Len(b)] ==
        IF i = 0 THEN <<>> ELSE IF pair[i] THEN q[i - 1] \o <<"F", "q", "q">> ELSE Append(q[i - 1], b[i])
  IN IF mode.inband THEN q[Len(b)] ELSE b
FromShell ==
  /\ srv.at = "up" /\ srv.pibuf = <<>> /\ shell.queue # <<>>
  /\ shell' = [shell EXCEPT !.queue = Tail(@)]
  /\ LET p == Head(shell.queue) IN
     IF p.kind = "data" THEN srv' = [srv EXCEPT !.pibuf = Quoted(p.data)] /\ UNCHANGED <<down, urg>>
     ELSE Sendoob(WithWindow(p.mark, srv.window)) /\ UNCHANGED srv
  /\ UNCHANGED <<mode, tty, wr, rd, sig, des, up, spoilt, left>>
ToNet ==
  /\ srv.at = "up" /\ srv.pibuf # <<>>
  /\ down' = Wire(down, srv.pibuf)
  /\ srv' = [srv EXCEPT !.pibuf = <<>>]
  /\ UNCHANGED <<mode, tty, wr, rd, sig, des, up, urg, shell, spoilt, left>>
(* cleanup(), on SIGCHLD or when the network has ended: what the terminal   *)
(* still holds is lost.                                                     *)
End == srv' = [srv EXCEPT !.at = "gone", !.pibuf = <<>>, !.fibuf = <<>>]
Cleanup ==
  /\ srv.at = "up" /\ wr.at = "gone" /\ End
  /\ UNCHANGED <<mode, tty, wr, rd, sig, des, up, down, urg, shell, spoilt, left>>
----------------------------------------------------------------------------
(* The person and the shell.                                                *)
Type(c) ==
  /\ left > 0
  /\ left' = left - 1
  /\ tty' = [tty EXCEPT !.typed = Append(@, c), !.all = Append(@, c)]
  /\ UNCHANGED <<mode, wr, rd, sig, des, up, down, urg, srv, shell, spoilt>>
Resize(z) ==
  /\ left > 0 /\ z # tty.size
  /\ left' = left - 1
  /\ tty' = [tty EXCEPT !.size = z]
  /\ sig' = [sig EXCEPT !.winch = wr.dosigwinch]
  /\ spoilt' = [spoilt EXCEPT !.early = @ \/ ~wr.dosigwinch]
  /\ UNCHANGED <<mode, wr, rd, des, up, down, urg, srv, shell>>
Output(p) ==
  /\ left > 0 /\ srv.at # "gone"
  /\ left' = left - 1
  /\ shell' = [shell EXCEPT !.queue = Append(@, p),
                            !.written = IF p.kind = "data" THEN @ \o p.data ELSE @,
                            !.kept = IF p.kind = "data" THEN @ \o p.data
                                     ELSE IF p.mark.flush THEN <<>> ELSE @,
                            !.flow = IF p.kind = "data" \/ p.mark.flow = "same" THEN @
                                     ELSE p.mark.flow]
  /\ UNCHANGED <<mode, tty, wr, rd, sig, des, up, down, urg, srv, spoilt>>
Exit ==
  /\ srv.at = "up" /\ left > 0 /\ left' = left - 1 /\ End
  /\ UNCHANGED <<mode, tty, wr, rd, sig, des, up, down, urg, shell, spoilt>>

(* The reader has called mode(1); the terminal of the shell has not yet     *)
(* reported its flow control.                                               *)
Init ==
  /\ mode \in Modes
  /\ LET z == CHOOSE z \in Sizes : TRUE IN
     /\ tty = Mode1([typed |-> <<>>, all |-> <<>>, shown |-> <<>>, size |-> z, ixon |-> TRUE,
                     undone |-> FALSE])
     /\ wr = [at |-> "main", tbuf |-> <<>>, bol |-> TRUE, out |-> <<>>, winsize |-> z,
              dosigwinch |-> FALSE]
  /\ rd = [buf |-> <<>>]
  /\ sig = [usr1 |-> FALSE, winch |-> FALSE]
  /\ des = [full |-> FALSE, seq |-> 0, packet |-> NoPacket]
  /\ up = <<>> /\ down = <<>> /\ urg = NoMark
  /\ srv = [at |-> "begin", fibuf |-> <<>>, pibuf |-> <<>>, window |-> TRUE, size |-> "unknown", seq |-> 0]
  /\ shell = [queue |-> <<>>, written |-> <<>>, kept |-> <<>>, read |-> <<>>, flow |-> "unsaid"]
  /\ spoilt = [overrun |-> FALSE, torn |-> FALSE, early |-> FALSE]
  /\ left = MaxInputs

Programs ==
  \/ Encrypt \/ WritePacket \/ Writeroob \/ Sigwinch \/ Writer \/ Escape \/ Lostpeer
  \/ ReadRecord \/ ReadStream \/ Oob \/ Show
  \/ Begin \/ ServerRead \/ ToShell \/ FromShell \/ ToNet \/ Cleanup
Packets == [kind : {"data"}, data : Outputs] \union [kind : {"mark"}, mark : Marks]
Next ==
  \/ Programs
  \/ \E c \in Keys : Type(c)
  \/ \E p \in Packets : Output(p)
  \/ \E z \in Sizes : Resize(z)
  \/ Exit

(* Each of the three processes goes on while it can, and takes its signals. *)
Spec ==
  /\ Init /\ [][Next]_vars
  /\ WF_vars(Encrypt \/ WritePacket \/ Writeroob \/ Sigwinch \/ Writer \/ Escape \/ Lostpeer)
  /\ WF_vars(ReadRecord \/ ReadStream \/ Oob \/ Show)
  /\ WF_vars(Begin \/ ServerRead \/ ToShell \/ FromShell \/ ToNet \/ Cleanup)
----------------------------------------------------------------------------
(* What the person typed, with the escapes obeyed one character at a time:  *)
(* the definition read_wrapper() and writer() must agree with whatever the  *)
(* pieces they read the terminal in.                                        *)
Unescape(typed) ==
  LET f[t \in Seq(Keys), bol \in BOOLEAN] ==
        IF t = <<>> THEN <<>>
        ELSE IF ~(bol /\ t[1] = "~") THEN <<t[1]>> \o f[Tail(t), Bol(t[1])]
        ELSE IF Len(t) = 1 \/ t[2] = "." THEN <<>>
        ELSE (CASE t[2] = "susp" -> <<>> [] t[2] = "~" -> <<"~">> [] OTHER -> <<"~", t[2]>>)
             \o f[SubSeq(t, 3, Len(t)), Bol(t[2])]
  IN f[typed, TRUE]

Quiet ==
  /\ wr.at # "gone" /\ srv.at = "up" /\ shell.queue = <<>> /\ srv.pibuf = <<>>
  /\ down = <<>> /\ ~urg.on /\ rd.buf = <<>>

(* The shell reads what the person typed with the escapes obeyed and no     *)
(* window message in it, whatever the signals and resizes between the       *)
(* writes of krlogin and however the reads cut the stream: krlogind's       *)
(* control() removes exactly the messages, unless one is torn in two        *)
(* (krlogind.c, a clear stream).                                            *)
InputFaithful == spoilt.torn \/ IsPrefix(shell.read, Unescape(tty.all))

(* What is shown is what the shell wrote: in band nothing is missing or     *)
(* added, and when nothing is on its way all that was written after the     *)
(* last flush is there.  With -7 the person's terminal then does flow       *)
(* control exactly when the shell's terminal has asked for it, whatever     *)
(* flushes and window requests shared a message with the change, but for    *)
(* what a stop has undone (krlogin.c:1235); without -7 it never does        *)
(* (krlogin.c:1309).  Not so where the shell writes what looks like a       *)
(* control message: the client's control() scans the pair it has just       *)
(* unquoted once more, so the quoting does not protect it.                  *)
Mistaken ==
  \E i \in 1..Len(shell.written) :
    At(shell.written, i, Quote) \/ At(shell.written, i, <<"F", "F", "o", "o">>)
OutputFaithful ==
  \/ Mistaken
  \/ /\ mode.inband => IsPrefix(tty.shown, shell.written)
     /\ Quiet => IsSuffix(shell.kept, tty.shown)
     /\ mode.inband /\ Quiet /\ ~tty.undone =>
          tty.ixon = (~mode.eight /\ shell.flow = "dostop")

(* The size of the window that krlogind has set becomes the size of the     *)
(* person's window: a resize is not lost between the signal handlers, the   *)
(* writer's own writes and a stop.  Except one before the first SIGUSR1,    *)
(* whose signal is not caught yet, and one in a torn message.               *)
WindowKnown ==
  <>[](wr.at = "gone" \/ srv.at = "gone" \/ spoilt.torn \/ spoilt.early \/ srv.size = tty.size)
=============================================================================
