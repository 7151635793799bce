-------------------------------- MODULE Rcp ---------------------------------
(* rcp copies files with a copy of itself on the other host: the source     *)
(* announces each file and waits for the answer, the sink answers and       *)
(* stores.  One of the two is the user's rcp, which keeps its own errors to *)
(* itself, the other was started by krshd and tells them to its peer.       *)
EXTENDS Naturals, Sequences

CONSTANTS
  Copies,       \* what is copied: [put, p, items], a sequence
  MaxFaults,    \* bound: system calls that fail in one copy
  MaxDeaths     \* bound: processes that are killed

ASSUME RcpAssumption == MaxFaults \in Nat /\ MaxDeaths \in Nat
\* An item names the directory it is in, 0 for none, and an end the one it ends.
\* After a directory come its entries and then its end, after an end what the
\* directory stands beside.
Within(items, i) ==
  CASE items[i].kind = "dir" -> i
    [] items[i].kind = "file" -> items[i].of
    [] items[i].kind = "end" -> items[items[i].of].of
ASSUME CopiesAssumption ==
  \A c \in Copies :
    /\ c \in [put : BOOLEAN, p : BOOLEAN,
              items : Seq([kind : {"file", "dir", "end"}, size : Nat, of : Nat])]
    /\ \A i \in DOMAIN c.items :
         /\ c.items[i].of = IF i = 1 THEN 0 ELSE Within(c.items, i - 1)
         /\ c.items[i].kind = "end" => c.items[i].of \in 1 .. (i - 1)
         /\ c.items[i].kind = "dir" =>
              \E j \in i .. Len(c.items) : c.items[j].kind = "end" /\ c.items[j].of = i

VARIABLES
  copy,         \* the copy, fixed; items are files, directories and their ends
  src,          \* the source: at, item, what it waits for, units left, errs
  snk,          \* the sink: at, the items it is in, units left, errs
  fwd, rev,     \* records and units to the sink, answers to the source
  stored,       \* per item, what the sink has of it
  left          \* bounds

vars == <<copy, src, snk, fwd, rev, stored, left>>

Ended(p) == p.at \in {"exit", "dead"}
Item == copy.items[src.item]
SrcRemote == ~copy.put
SnkRemote == copy.put
Fault == left.faults > 0 /\ left' = [left EXCEPT !.faults = @ - 1]
NoFault == UNCHANGED left
----------------------------------------------------------------------------
(* error() counts, and tells the peer or the user; ga() is the byte 0.  An  *)
(* answer carries which request it was given for.                           *)
SrcError(s, to) == IF SrcRemote THEN Append(to, [m |-> "error", for |-> s]) ELSE to
SnkError(s, to) == IF SnkRemote THEN Append(to, [m |-> "error", for |-> s]) ELSE to
Ga(for, to) == Append(to, [m |-> "ok", for |-> for])
Exit(p, e) == [p EXCEPT !.at = "exit", !.errs = @ + e]

(* The item after a directory that is passed over: its end and one more.    *)
EndOf(i) == CHOOSE j \in i .. Len(copy.items) :
  copy.items[j].kind = "end" /\ copy.items[j].of = i
After(i) == IF copy.items[i].kind = "dir" THEN EndOf(i) + 1 ELSE i + 1
----------------------------------------------------------------------------
(* response(): 0, an error message and the go-ahead to what follows, the    *)
(* end of the program for anything else or no answer at all.                *)
BugCounted(e) == e
Counted(e) == e + 1
(* What the source does next when it has been told yes or no.               *)
Yes(s) ==
  CASE s.wait = "times" -> [s EXCEPT !.at = "announce"]
    [] s.wait = "name" /\ Item.kind = "file" -> [s EXCEPT !.at = "data", !.units = Item.size]
    [] s.wait = "greeting" -> [s EXCEPT !.at = "next"]
    [] OTHER -> [s EXCEPT !.at = "next", !.item = @ + 1]
No(s) ==
  CASE s.wait = "greeting" /\ copy.put -> Exit(s, 0)
    [] s.wait = "greeting" /\ ~copy.put -> [s EXCEPT !.at = "next"]
    [] s.wait \in {"times", "name"} -> [s EXCEPT !.at = "next", !.item = After(s.item)]
    [] OTHER -> [s EXCEPT !.at = "next", !.item = @ + 1]
Response ==
  /\ src.at = "response"
  /\ \/ /\ rev # <<>>
        /\ src' = IF Head(rev).m = "ok" THEN Yes(src)
                  ELSE No([src EXCEPT !.errs = Counted(@)])
        /\ rev' = Tail(rev)
     \/ /\ rev = <<>> /\ Ended(snk)
        /\ src' = Exit(src, 1) /\ UNCHANGED rev
  /\ UNCHANGED <<copy, snk, fwd, stored, left>>

(* A write to a peer that has gone raises SIGPIPE, lostconn(), unless the   *)
(* connection does not know yet.                                            *)
Send(message, to) == IF Ended(snk) THEN to ELSE Append(to, message)
Ask(s, what) == {[s EXCEPT !.at = "response", !.wait = what]}
                  \cup {x \in {Exit(s, 1)} : Ended(snk)}

(* source() and rsource() on the next item.  What cannot be opened is told  *)
(* and left out; the end of a directory is a record of its own.             *)
Request(what) == <<src.item, what>>
Open ==
  /\ src.at = "next" /\ src.item <= Len(copy.items)
  /\ \/ /\ Item.kind # "end" /\ ~copy.p /\ NoFault
        /\ src' = [src EXCEPT !.at = "announce"] /\ UNCHANGED fwd
     \/ /\ Item.kind # "end" /\ copy.p /\ NoFault
        /\ src' \in Ask(src, "times")
        /\ fwd' = Send([m |-> "T", for |-> Request("times")], fwd)
     \/ /\ Item.kind # "end" /\ Fault
        /\ src' = [src EXCEPT !.errs = @ + 1, !.item = After(@)]
        /\ fwd' = SrcError(Request("open"), fwd)
     \/ /\ Item.kind = "end" /\ NoFault
        /\ src' \in Ask(src, "end")
        /\ fwd' = Send([m |-> "E", for |-> Request("end")], fwd)
  /\ UNCHANGED <<copy, snk, rev, stored>>
Announce ==
  /\ src.at = "announce"
  /\ src' \in Ask(src, "name")
  /\ fwd' = Send([m |-> IF Item.kind = "dir" THEN "D" ELSE "C", for |-> Request("name"),
                  item |-> src.item, size |-> Item.size], fwd)
  /\ UNCHANGED <<copy, snk, rev, stored, left>>

(* The file is sent in full whatever read() says: after an error, or when   *)
(* the file has become shorter, with what the buffer happens to hold.  The  *)
(* error is errno, which a short read does not set: what it was, or 0.      *)
Data ==
  /\ src.at = "data" /\ src.units > 0
  /\ \/ /\ NoFault /\ src' = [src EXCEPT !.units = @ - 1]
        /\ fwd' = Send([m |-> "data", item |-> src.item, good |-> src.reads = "good"], fwd)
     \/ /\ Fault /\ src.reads = "good"
        /\ \E how \in {"error", "short"} : src' = [src EXCEPT !.units = @ - 1, !.reads = how]
        /\ fwd' = Send([m |-> "data", item |-> src.item, good |-> FALSE], fwd)
  /\ UNCHANGED <<copy, snk, rev, stored>>
DataEnd ==
  /\ src.at = "data" /\ src.units = 0
  /\ IF src.reads = "error"
     THEN /\ src' \in Ask([src EXCEPT !.errs = @ + 1, !.reads = "good", !.silent = ~SrcRemote], "data")
          /\ fwd' = SrcError(Request("data"), fwd)
     ELSE /\ src' \in Ask([src EXCEPT !.reads = "good", !.shrunk = @ \/ src.reads = "short"], "data")
          /\ fwd' = IF Ended(snk) THEN fwd ELSE Ga(Request("data"), fwd)
  /\ UNCHANGED <<copy, snk, rev, stored, left>>
SourceEnd ==
  /\ src.at = "next" /\ src.item > Len(copy.items)
  /\ src' = Exit(src, 0)
  /\ UNCHANGED <<copy, snk, fwd, rev, stored, left>>
----------------------------------------------------------------------------
(* The sink reads the next record.  The end of the connection is here the   *)
(* end of the files, in a directory as well.                                *)
Answer(k, e, to) == /\ snk' = k /\ rev' = to
                    /\ left' = IF e THEN [left EXCEPT !.faults = @ - 1] ELSE left
CanFail == left.faults > 0
Start ==
  /\ snk.at = "start"
  /\ \/ Answer([snk EXCEPT !.at = "record"], FALSE, Ga(<<0, "greeting">>, rev))
     \/ CanFail /\ Answer(Exit(snk, 1), TRUE, SnkError(<<0, "greeting">>, rev))
  /\ UNCHANGED <<copy, src, fwd, stored>>

Out == /\ snk.at = "record" /\ fwd # <<>> /\ fwd' = Tail(fwd) /\ UNCHANGED <<copy, src>>
Leave(k) == IF k.in = <<>> THEN Exit(k, 0) ELSE [k EXCEPT !.in = Tail(@)]
(* After a directory its times are set; that may fail, and be told.         *)
SinkEof ==
  /\ snk.at = "record" /\ fwd = <<>> /\ Ended(src)
  /\ snk' = [Leave(snk) EXCEPT !.cut = src.at = "dead"]
  /\ UNCHANGED <<copy, src, fwd, rev, stored, left>>
SinkEnd ==
  /\ Out /\ Head(fwd).m = "E" /\ UNCHANGED stored
  /\ \/ Answer(Leave(snk), FALSE, Ga(Head(fwd).for, rev))
     \/ /\ CanFail /\ snk.in # <<>> /\ copy.p
        /\ Answer([Leave(snk) EXCEPT !.errs = @ + 1, !.doubled = SnkRemote], TRUE,
                  SnkError(Head(fwd).for, Ga(Head(fwd).for, rev)))
SinkTimes ==
  /\ Out /\ Head(fwd).m = "T" /\ UNCHANGED stored
  /\ Answer(snk, FALSE, Ga(Head(fwd).for, rev))
SinkError ==
  /\ Out /\ Head(fwd).m = "error" /\ UNCHANGED stored
  /\ Answer([snk EXCEPT !.errs = @ + 1], FALSE, rev)
(* A directory is entered and a file opened, or neither: then error() is    *)
(* the answer, which the user's rcp does not give.                          *)
BugRefuse(r) == Answer([snk EXCEPT !.errs = @ + 1], TRUE, rev)
Refuse(r) == Answer([snk EXCEPT !.errs = @ + 1, !.silent = ~SnkRemote], TRUE, SnkError(r.for, rev))
SinkDir ==
  /\ Out /\ Head(fwd).m = "D"
  /\ \/ /\ Answer([snk EXCEPT !.in = <<Head(fwd).item>> \o @], FALSE, Ga(Head(fwd).for, rev))
        /\ stored' = [stored EXCEPT ![Head(fwd).item] = "whole"]
     \/ CanFail /\ Refuse(Head(fwd)) /\ UNCHANGED stored
SinkFile ==
  /\ Out /\ Head(fwd).m = "C"
  /\ \/ /\ Answer([snk EXCEPT !.at = "data", !.item = Head(fwd).item, !.units = Head(fwd).size],
                  FALSE, Ga(Head(fwd).for, rev))
        /\ stored' = [stored EXCEPT ![Head(fwd).item] = "whole"]
     \/ CanFail /\ Refuse(Head(fwd)) /\ UNCHANGED stored
(* SCREWUP: anything else, as when the two are out of step.                 *)
SinkScrewup ==
  /\ Out /\ Head(fwd).m \in {"data", "ok"} /\ UNCHANGED stored
  /\ Answer(Exit(snk, 1), FALSE, SnkError(<<0, "screwup">>, rev))
----------------------------------------------------------------------------
(* The announced size is read, whatever comes; a write that fails is told   *)
(* when the source has ended the file.                                      *)
SinkData ==
  /\ snk.at = "data" /\ snk.units > 0 /\ fwd # <<>>
  /\ fwd' = Tail(fwd) /\ UNCHANGED <<copy, src, rev>>
  /\ \E e \in {FALSE} \cup {x \in {TRUE} : CanFail} :
       /\ snk' = [snk EXCEPT !.units = @ - 1, !.wrerr = @ \/ e]
       /\ left' = IF e THEN [left EXCEPT !.faults = @ - 1] ELSE left
       /\ stored' = [stored EXCEPT ![snk.item] =
            IF ~e /\ Head(fwd).m = "data" /\ Head(fwd).item = snk.item /\ Head(fwd).good
            THEN @ ELSE "bad"]
SinkCut ==
  /\ snk.at \in {"data", "response"} /\ fwd = <<>> /\ Ended(src)
  /\ snk.units > 0 \/ snk.at = "response"
  /\ snk' = Exit(snk, 1)
  /\ rev' = IF snk.at = "data" THEN SnkError(<<0, "cut">>, rev) ELSE rev
  /\ stored' = [stored EXCEPT ![snk.item] = "bad"]
  /\ UNCHANGED <<copy, src, fwd, left>>
(* ftruncate() or close() may fail, and tell so before the real answer.     *)
SinkClose ==
  /\ snk.at = "data" /\ snk.units = 0
  /\ \/ /\ Answer([snk EXCEPT !.at = "response"], FALSE, rev) /\ UNCHANGED stored
     \/ /\ CanFail
        /\ Answer([snk EXCEPT !.at = "response", !.errs = @ + 1, !.doubled = SnkRemote], TRUE,
                  SnkError(<<snk.item, "data">>, rev))
        /\ stored' = [stored EXCEPT ![snk.item] = "bad"]
  /\ UNCHANGED <<copy, src, fwd>>
(* response() for the source's verdict, the times of the file, and the      *)
(* sink's own verdict.                                                      *)
BugVerdict(k, for, to) == IF k.wrerr THEN Ga(for, SnkError(for, to)) ELSE Ga(for, to)
Verdict(k, for, to) == IF k.wrerr THEN SnkError(for, to) ELSE Ga(for, to)
Written(k) == [k EXCEPT !.errs = IF k.wrerr THEN @ + 1 ELSE @, !.wrerr = FALSE,
                        !.silent = @ \/ (k.wrerr /\ ~SnkRemote)]
SinkVerdict ==
  /\ snk.at = "response" /\ fwd # <<>> /\ fwd' = Tail(fwd)
  /\ UNCHANGED <<copy, src>>
  /\ LET for == <<snk.item, "data">>
         heard == [snk EXCEPT !.at = "record", !.errs = IF Head(fwd).m = "error" THEN @ + 1 ELSE @]
     IN IF Head(fwd).m \notin {"ok", "error"}
        THEN Answer(Exit(snk, 1), FALSE, rev) /\ UNCHANGED stored
        ELSE /\ \/ Answer(Written(heard), FALSE, Verdict(snk, for, rev))
                \/ /\ CanFail /\ copy.p
                   /\ Answer([Written(heard) EXCEPT !.errs = @ + 1, !.doubled = SnkRemote], TRUE,
                             Verdict(snk, for, SnkError(for, rev)))
             /\ UNCHANGED stored
----------------------------------------------------------------------------
(* Either program is killed, or its host lost; each then finds an end of    *)
(* file.                                                                    *)
Dies ==
  /\ left.deaths > 0 /\ left' = [left EXCEPT !.deaths = @ - 1]
  /\ \/ ~Ended(src) /\ src' = [src EXCEPT !.at = "dead"] /\ UNCHANGED snk
     \/ ~Ended(snk) /\ snk' = [snk EXCEPT !.at = "dead"] /\ UNCHANGED src
  /\ UNCHANGED <<copy, fwd, rev, stored>>

Init ==
  /\ copy \in Copies
  /\ src = [at |-> "response", wait |-> "greeting", item |-> 1, units |-> 0, reads |-> "good",
            errs |-> 0, shrunk |-> FALSE, silent |-> FALSE]
  /\ snk = [at |-> "start", in |-> <<>>, item |-> 0, units |-> 0, wrerr |-> FALSE, errs |-> 0,
            doubled |-> FALSE, silent |-> FALSE, cut |-> FALSE]
  /\ fwd = <<>> /\ rev = <<>>
  /\ stored = [i \in 1 .. Len(copy.items) |-> "none"]
  /\ left = [faults |-> MaxFaults, deaths |-> MaxDeaths]

SourceStep == Response \/ Open \/ Announce \/ Data \/ DataEnd \/ SourceEnd
SinkStep ==
  \/ Start \/ SinkEof \/ SinkEnd \/ SinkTimes \/ SinkError \/ SinkDir \/ SinkFile
  \/ SinkScrewup \/ SinkData \/ SinkCut \/ SinkClose \/ SinkVerdict
Next == SourceStep \/ SinkStep \/ Dies
Spec == Init /\ [][Next]_vars /\ WF_vars(SourceStep) /\ WF_vars(SinkStep)
----------------------------------------------------------------------------
(* The source never takes an answer for another request than the one it was *)
(* given for.  Except after a sink on the remote host has told a failure of *)
(* ftruncate(), close() or utimes() and then given its verdict as well:     *)
(* two answers to one request.                                              *)
Awaited == IF src.wait = "greeting" THEN <<0, "greeting">> ELSE Request(src.wait)
InStep ==
  src.at = "response" /\ rev # <<>> /\ ~snk.doubled => Head(rev).for = Awaited

(* When the user's rcp exits with 0, every file asked for is there and is   *)
(* what was read.  Except: a file that became shorter while it was sent     *)
(* (errno may be 0), and a remote source that dies between two records: the *)
(* end of the connection is taken for the end of the files.                 *)
User == IF copy.put THEN src ELSE snk
Copied ==
  User.at = "exit" /\ User.errs = 0 /\ ~src.shrunk /\ ~snk.cut =>
    \A i \in DOMAIN stored : copy.items[i].kind # "end" => stored[i] = "whole"

(* Both programs end, whatever fails on either host, in step or out of it.  *)
(* Except: the user's rcp keeps an error to itself that its peer waits for, *)
(* a read error of its source or a refusal or write error of its sink, and  *)
(* then each waits for the other.                                           *)
Ends == <>[]((Ended(src) /\ Ended(snk)) \/ src.silent \/ snk.silent)
=============================================================================
