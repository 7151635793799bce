----------------------------- MODULE Rcp_proofs -----------------------------
(* rcp stays in step (InStep) and what it copies is there (Copied), for     *)
(* every list of items, in both directions, with every number of failing    *)
(* system calls and deaths.                                                 *)
(*                                                                          *)
(* The invariant is that one of the two is at turn (Turns): the source has  *)
(* something to send and the sink has nothing to answer; or a request is    *)
(* the last record on its way; or its answer is the only one on its way; or *)
(* the sink reads a file's data, and what ends it is the last record.  The  *)
(* two places of the answer to a file's name, refused and taken, decide     *)
(* where the sink has to be when the source goes on.                        *)
(*                                                                          *)
(* And what it copies without an error is there (Copied).  In step, the     *)
(* sink waits for as many units as the source has still to send (Even), so  *)
(* what it has stored of the file is right unless one of the two has        *)
(* noticed (Stored); a second answer to one request says an error that the  *)
(* source has still to hear (Twice); so a source that ends without an error *)
(* has left nothing behind (Ran).  A sink of the user's ends where the      *)
(* connection does, or wrongly when it is told of the end of a directory    *)
(* and is in none: it is always in the one the source is in (Chain).        *)
EXTENDS Rcp, TLAPS

Kinds == {"file", "dir", "end"}
Items == [kind : Kinds, size : Nat, of : Nat]
Waits == {"greeting", "times", "name", "end", "data"}
Asked == Nat \X (Waits \cup {"open", "cut", "screwup"})
SourcePlaces == {"response", "next", "announce", "data", "exit", "dead"}
SinkPlaces == {"start", "record", "data", "response", "exit", "dead"}

Sources ==
  [at : SourcePlaces, wait : Waits, item : Nat \ {0}, units : Nat, reads : {"good", "error", "short"},
   errs : Nat, shrunk : BOOLEAN, silent : BOOLEAN]
Sinks ==
  [at : SinkPlaces, in : Seq(Nat), item : Nat, units : Nat, wrerr : BOOLEAN, errs : Nat,
   doubled : BOOLEAN, silent : BOOLEAN, cut : BOOLEAN]
Plain == [m : {"T", "E", "ok", "error"}, for : Asked]
Names == [m : {"C", "D"}, for : Asked, item : Nat, size : Nat]
Units == [m : {"data"}, item : Nat, good : BOOLEAN]
Records == Plain \cup Names \cup Units
Answers == [m : {"ok", "error"}, for : Asked]
Bounds == [faults : Nat, deaths : Nat]

(* Where the source is within the items.                                    *)
Announced == src.at = "announce" \/ (src.at = "response" /\ src.wait \in {"times", "name"})
Sent == src.at = "data" \/ (src.at = "response" /\ src.wait = "data")
Placed ==
  /\ Announced => src.item \in DOMAIN copy.items /\ Item.kind \in {"file", "dir"}
  /\ Sent => src.item \in DOMAIN copy.items /\ Item.kind = "file"
  /\ src.at = "response" /\ src.wait = "end" =>
       src.item \in DOMAIN copy.items /\ Item.kind = "end"

TypeOK ==
  /\ copy \in Copies
  /\ src \in Sources
  /\ snk \in Sinks
  /\ fwd \in Seq(Records) /\ rev \in Seq(Answers)
  /\ stored \in [DOMAIN copy.items -> {"none", "whole", "bad"}]
  /\ left \in Bounds
  /\ Placed
----------------------------------------------------------------------------
(* A copy is a list of items; after a directory there is its end.           *)
LEMMA CopyType ==
  ASSUME copy \in Copies
  PROVE  /\ copy.put \in BOOLEAN /\ copy.p \in BOOLEAN /\ copy.items \in Seq(Items)
         /\ Len(copy.items) \in Nat /\ DOMAIN copy.items = 1 .. Len(copy.items)
         /\ \A i \in DOMAIN copy.items : copy.items[i] \in Items
         /\ SrcRemote \in BOOLEAN /\ SnkRemote \in BOOLEAN
<1>1. copy \in [put : BOOLEAN, p : BOOLEAN,
                items : Seq([kind : {"file", "dir", "end"}, size : Nat, of : Nat])]
  BY CopiesAssumption
<1>2. copy.put \in BOOLEAN /\ copy.p \in BOOLEAN
  BY <1>1
<1>3. copy.items \in Seq(Items)
  BY <1>1 DEF Items, Kinds
<1>4. /\ Len(copy.items) \in Nat /\ DOMAIN copy.items = 1 .. Len(copy.items)
      /\ \A i \in DOMAIN copy.items : copy.items[i] \in Items
  BY <1>3
<1> QED BY <1>2, <1>3, <1>4 DEF SrcRemote, SnkRemote

(* The item after another one, or after a directory, is a later one.        *)
LEMMA AfterType ==
  ASSUME copy \in Copies, NEW i \in DOMAIN copy.items
  PROVE  After(i) \in Nat \ {0}
<1>1. i \in Nat \ {0}
  BY CopyType
<1>2. CASE copy.items[i].kind = "dir"
  <2>1. \E j \in i .. Len(copy.items) : copy.items[j].kind = "end" /\ copy.items[j].of = i
    BY <1>2, CopiesAssumption
  <2>2. EndOf(i) \in i .. Len(copy.items)
    BY <2>1 DEF EndOf
  <2>3. EndOf(i) \in Nat
    BY <1>1, <2>2, CopyType
  <2> QED BY <1>2, <2>3 DEF After
<1>3. CASE copy.items[i].kind # "dir"
  BY <1>1, <1>3 DEF After
<1> QED BY <1>2, <1>3

(* What is put at the end of a connection is on it, and what is taken from  *)
(* its head was.                                                            *)
LEMMA Put ==
  ASSUME NEW q \in Seq(Records)
  PROVE  /\ \A m \in Records : Append(q, m) \in Seq(Records)
         /\ q # <<>> => Tail(q) \in Seq(Records) /\ Head(q) \in Records
OBVIOUS

(* The same for the answers.                                                *)
LEMMA PutBack ==
  ASSUME NEW q \in Seq(Answers)
  PROVE  /\ \A m \in Answers : Append(q, m) \in Seq(Answers)
         /\ q # <<>> => Tail(q) \in Seq(Answers) /\ Head(q) \in Answers
OBVIOUS

(* An answer says which request it was given for.                           *)
LEMMA AnswerType ==
  ASSUME NEW for \in Asked, NEW q \in Seq(Answers)
  PROVE  Ga(for, q) \in Seq(Answers) /\ SnkError(for, q) \in Seq(Answers)
<1>1. [m |-> "ok", for |-> for] \in Answers /\ [m |-> "error", for |-> for] \in Answers
  BY DEF Answers
<1> QED BY <1>1, PutBack DEF Ga, SnkError

(* The records of the source are records.                                   *)
LEMMA RecordTypes ==
  ASSUME NEW for \in Asked, NEW i \in Nat, NEW n \in Nat, NEW g \in BOOLEAN
  PROVE  /\ \A k \in {"T", "E", "ok", "error"} : [m |-> k, for |-> for] \in Records
         /\ \A k \in {"C", "D"} : [m |-> k, for |-> for, item |-> i, size |-> n] \in Records
         /\ [m |-> "data", item |-> i, good |-> g] \in Records
<1>1. \A k \in {"T", "E", "ok", "error"} : [m |-> k, for |-> for] \in Plain
  BY DEF Plain
<1>2. \A k \in {"C", "D"} : [m |-> k, for |-> for, item |-> i, size |-> n] \in Names
  BY DEF Names
<1>3. [m |-> "data", item |-> i, good |-> g] \in Units
  BY DEF Units
<1> QED BY <1>1, <1>2, <1>3 DEF Records

(* What the sink may read of a record.                                      *)
LEMMA RecordParts ==
  ASSUME NEW r \in Records
  PROVE  /\ r.m \in {"T", "E", "ok", "error", "C", "D", "data"}
         /\ r.m \in {"T", "E", "C", "D"} => r.for \in Asked
         /\ r.m \in {"C", "D"} => r.item \in Nat /\ r.size \in Nat
<1>1. CASE r \in Plain
  BY <1>1 DEF Plain
<1>2. CASE r \in Names
  BY <1>2 DEF Names
<1>3. CASE r \in Units
  BY <1>3 DEF Units
<1> QED BY <1>1, <1>2, <1>3 DEF Records

(* What the source does with itself.                                        *)
LEMMA SourceUpdates ==
  ASSUME NEW s \in Sources
  PROVE  /\ \A a \in SourcePlaces : [s EXCEPT !.at = a] \in Sources
         /\ \A w \in Waits : [s EXCEPT !.at = "response", !.wait = w] \in Sources
         /\ \A n \in Nat : [s EXCEPT !.at = "data", !.units = n] \in Sources
         /\ \A n \in Nat \ {0} : [s EXCEPT !.at = "next", !.item = n] \in Sources
         /\ \A n \in Nat : [s EXCEPT !.errs = n] \in Sources
         /\ \A n \in Nat : [s EXCEPT !.at = "exit", !.errs = n] \in Sources
         /\ \A n \in Nat, k \in Nat \ {0} : [s EXCEPT !.errs = n, !.item = k] \in Sources
         /\ \A n \in Nat : [s EXCEPT !.units = n] \in Sources
         /\ \A n \in Nat, h \in {"error", "short"} : [s EXCEPT !.units = n, !.reads = h] \in Sources
         /\ \A n \in Nat, b \in BOOLEAN :
              [s EXCEPT !.errs = n, !.reads = "good", !.silent = b] \in Sources
         /\ \A b \in BOOLEAN : [s EXCEPT !.reads = "good", !.shrunk = b] \in Sources
         /\ s.item \in Nat \ {0} /\ s.units \in Nat /\ s.errs \in Nat
         /\ s.item + 1 \in Nat \ {0} /\ s.errs + 1 \in Nat /\ s.errs + 0 \in Nat
<1>1. \A a \in SourcePlaces : [s EXCEPT !.at = a] \in Sources
  BY DEF Sources, SourcePlaces
<1>2. \A w \in Waits : [s EXCEPT !.at = "response", !.wait = w] \in Sources
  BY DEF Sources, SourcePlaces
<1>3. \A n \in Nat : [s EXCEPT !.at = "data", !.units = n] \in Sources
  BY DEF Sources, SourcePlaces
<1>4. \A n \in Nat \ {0} : [s EXCEPT !.at = "next", !.item = n] \in Sources
  BY DEF Sources, SourcePlaces
<1>5. \A n \in Nat : [s EXCEPT !.errs = n] \in Sources
  BY DEF Sources, SourcePlaces
<1>6. \A n \in Nat : [s EXCEPT !.at = "exit", !.errs = n] \in Sources
  BY DEF Sources, SourcePlaces
<1>7. \A n \in Nat, k \in Nat \ {0} : [s EXCEPT !.errs = n, !.item = k] \in Sources
  BY DEF Sources, SourcePlaces
<1>8. \A n \in Nat : [s EXCEPT !.units = n] \in Sources
  BY DEF Sources, SourcePlaces
<1>9. \A n \in Nat, h \in {"error", "short"} : [s EXCEPT !.units = n, !.reads = h] \in Sources
  BY DEF Sources, SourcePlaces
<1>10. \A n \in Nat, b \in BOOLEAN :
    [s EXCEPT !.errs = n, !.reads = "good", !.silent = b] \in Sources
  BY DEF Sources, SourcePlaces
<1>11. \A b \in BOOLEAN : [s EXCEPT !.reads = "good", !.shrunk = b] \in Sources
  BY DEF Sources, SourcePlaces
<1>12. s.item \in Nat \ {0} /\ s.units \in Nat /\ s.errs \in Nat
  BY DEF Sources, SourcePlaces
<1>13. s.item + 1 \in Nat \ {0} /\ s.errs + 1 \in Nat /\ s.errs + 0 \in Nat
  BY DEF Sources, SourcePlaces
<1> QED BY <1>1, <1>2, <1>3, <1>4, <1>5, <1>6, <1>7, <1>8, <1>9, <1>10, <1>11, <1>12, <1>13

(* The same for the next item.                                              *)
LEMMA SourceNext ==
  ASSUME NEW s \in Sources, NEW n \in Nat \ {0}
  PROVE  [s EXCEPT !.at = "next", !.item = n] \in Sources
BY SourceUpdates

(* The program's end, with or without another error.                        *)
LEMMA SourceExit ==
  ASSUME NEW s \in Sources
  PROVE  /\ [s EXCEPT !.at = "exit", !.errs = s.errs + 0] \in Sources
         /\ [s EXCEPT !.at = "exit", !.errs = s.errs + 1] \in Sources
<1>1. s.errs + 0 \in Nat /\ s.errs + 1 \in Nat
  BY SourceUpdates
<1>2. \A n \in Nat : [s EXCEPT !.at = "exit", !.errs = n] \in Sources
  BY SourceUpdates
<1> QED BY <1>1, <1>2

(* What the sink does with itself.                                          *)
LEMMA SinkUpdates ==
  ASSUME NEW k \in Sinks
  PROVE  /\ \A a \in SinkPlaces : [k EXCEPT !.at = a] \in Sinks
         /\ \A n \in Nat : [k EXCEPT !.at = "exit", !.errs = n] \in Sinks
         /\ \A n \in Nat : [k EXCEPT !.errs = n] \in Sinks
         /\ \A n \in Nat, b \in BOOLEAN : [k EXCEPT !.errs = n, !.doubled = b] \in Sinks
         /\ \A n \in Nat, b \in BOOLEAN : [k EXCEPT !.errs = n, !.silent = b] \in Sinks
         /\ \A b \in BOOLEAN : [k EXCEPT !.cut = b] \in Sinks
         /\ \A q \in Seq(Nat) : [k EXCEPT !.in = q] \in Sinks
         /\ \A i \in Nat, n \in Nat : [k EXCEPT !.at = "data", !.item = i, !.units = n] \in Sinks
         /\ \A n \in Nat, b \in BOOLEAN : [k EXCEPT !.units = n, !.wrerr = b] \in Sinks
         /\ \A n \in Nat, b \in BOOLEAN :
              [k EXCEPT !.at = "response", !.errs = n, !.doubled = b] \in Sinks
         /\ \A n \in Nat : [k EXCEPT !.at = "record", !.errs = n] \in Sinks
         /\ \A n \in Nat, b \in BOOLEAN :
              [k EXCEPT !.errs = n, !.wrerr = FALSE, !.silent = b] \in Sinks
         /\ k.item \in Nat /\ k.units \in Nat /\ k.errs \in Nat /\ k.in \in Seq(Nat)
         /\ k.errs + 1 \in Nat /\ k.errs + 0 \in Nat
<1>1. \A a \in SinkPlaces : [k EXCEPT !.at = a] \in Sinks
  BY DEF Sinks, SinkPlaces
<1>2. \A n \in Nat : [k EXCEPT !.at = "exit", !.errs = n] \in Sinks
  BY DEF Sinks, SinkPlaces
<1>3. \A n \in Nat : [k EXCEPT !.errs = n] \in Sinks
  BY DEF Sinks, SinkPlaces
<1>4. \A n \in Nat, b \in BOOLEAN : [k EXCEPT !.errs = n, !.doubled = b] \in Sinks
  BY DEF Sinks, SinkPlaces
<1>5. \A n \in Nat, b \in BOOLEAN : [k EXCEPT !.errs = n, !.silent = b] \in Sinks
  BY DEF Sinks, SinkPlaces
<1>6. \A b \in BOOLEAN : [k EXCEPT !.cut = b] \in Sinks
  BY DEF Sinks, SinkPlaces
<1>7. \A q \in Seq(Nat) : [k EXCEPT !.in = q] \in Sinks
  BY DEF Sinks, SinkPlaces
<1>8. \A i \in Nat, n \in Nat : [k EXCEPT !.at = "data", !.item = i, !.units = n] \in Sinks
  BY DEF Sinks, SinkPlaces
<1>9. \A n \in Nat, b \in BOOLEAN : [k EXCEPT !.units = n, !.wrerr = b] \in Sinks
  BY DEF Sinks, SinkPlaces
<1>10. \A n \in Nat, b \in BOOLEAN :
    [k EXCEPT !.at = "response", !.errs = n, !.doubled = b] \in Sinks
  BY DEF Sinks, SinkPlaces
<1>11. \A n \in Nat : [k EXCEPT !.at = "record", !.errs = n] \in Sinks
  BY DEF Sinks, SinkPlaces
<1>12. \A n \in Nat, b \in BOOLEAN :
    [k EXCEPT !.errs = n, !.wrerr = FALSE, !.silent = b] \in Sinks
  BY DEF Sinks, SinkPlaces
<1>13. k.item \in Nat /\ k.units \in Nat /\ k.errs \in Nat /\ k.in \in Seq(Nat)
  BY DEF Sinks, SinkPlaces
<1>14. k.errs + 1 \in Nat /\ k.errs + 0 \in Nat
  BY DEF Sinks, SinkPlaces
<1> QED BY <1>1, <1>2, <1>3, <1>4, <1>5, <1>6, <1>7, <1>8, <1>9, <1>10, <1>11, <1>12, <1>13, <1>14
----------------------------------------------------------------------------
(* What the source does when told yes or no, and when it asks.              *)
LEMMA YesType ==
  ASSUME TypeOK, src.at = "response"
  PROVE  Yes(src) \in Sources
<1>0. src \in Sources /\ copy \in Copies /\ Placed
  BY DEF TypeOK
<1>1. CASE src.wait = "times"
  <2>1. Yes(src) = [src EXCEPT !.at = "announce"]
    BY <1>1 DEF Yes
  <2> QED BY <1>0, <2>1, SourceUpdates DEF SourcePlaces
<1>2. CASE src.wait = "name" /\ Item.kind = "file"
  <2>1. Yes(src) = [src EXCEPT !.at = "data", !.units = Item.size]
    BY <1>2 DEF Yes
  <2>2. Item.size \in Nat
    BY <1>0, <1>2, CopyType DEF Placed, Announced, Item, Items
  <2>3. \A n \in Nat : [src EXCEPT !.at = "data", !.units = n] \in Sources
    BY <1>0, SourceUpdates
  <2> QED BY <2>1, <2>2, <2>3, Zenon
<1>3. CASE src.wait = "greeting"
  <2>1. Yes(src) = [src EXCEPT !.at = "next"]
    BY <1>3 DEF Yes
  <2> QED BY <1>0, <2>1, SourceUpdates DEF SourcePlaces
<1>4. CASE src.wait # "times" /\ ~(src.wait = "name" /\ Item.kind = "file") /\ src.wait # "greeting"
  <2>1. Yes(src) = [src EXCEPT !.at = "next", !.item = src.item + 1]
    BY <1>4 DEF Yes
  <2>2. src.item + 1 \in Nat \ {0}
    BY <1>0, SourceUpdates
  <2>3. \A n \in Nat \ {0} : [src EXCEPT !.at = "next", !.item = n] \in Sources
    BY <1>0, SourceNext
  <2> QED BY <2>1, <2>2, <2>3
<1> QED BY <1>1, <1>2, <1>3, <1>4

(* The same when told no, with the error counted.                           *)
LEMMA NoType ==
  ASSUME TypeOK, src.at = "response"
  PROVE  /\ No([src EXCEPT !.errs = Counted(@)]) \in Sources
         /\ No([src EXCEPT !.errs = Counted(@)]).at \in {"exit", "next"}
<1>0. src \in Sources /\ copy \in Copies /\ Placed
  BY DEF TypeOK
<1> DEFINE c == [src EXCEPT !.errs = Counted(@)]
<1>1. c = [src EXCEPT !.errs = src.errs + 1]
  BY DEF Counted
<1>2. c \in Sources /\ c.wait = src.wait /\ c.item = src.item
  <2>1. c \in Sources
    BY <1>0, <1>1, SourceUpdates
  <2> QED BY <1>0, <1>1, <2>1 DEF Sources
<1> HIDE DEF c
<1>3. CASE c.wait = "greeting" /\ copy.put
  <2>1. No(c) = [c EXCEPT !.at = "exit", !.errs = c.errs + 0]
    BY <1>3 DEF No, Exit
  <2>2. No(c) \in Sources
    BY <1>2, <2>1, SourceExit
  <2>3. No(c).at = "exit"
    BY <1>2, <2>1 DEF Sources
  <2> QED BY <2>2, <2>3 DEF c
<1>4. CASE c.wait = "greeting" /\ ~copy.put
  <2>1. No(c) = [c EXCEPT !.at = "next"]
    BY <1>4 DEF No
  <2>2. No(c) \in Sources
    BY <1>2, <2>1, SourceUpdates DEF SourcePlaces
  <2>3. No(c).at = "next"
    BY <1>2, <2>1 DEF Sources
  <2> QED BY <2>2, <2>3 DEF c
<1>5. CASE c.wait \in {"times", "name"}
  <2>1. No(c) = [c EXCEPT !.at = "next", !.item = After(c.item)]
    BY <1>5 DEF No
  <2>2. After(c.item) \in Nat \ {0}
    BY <1>0, <1>2, <1>5, AfterType DEF Placed, Announced
  <2>5. \A n \in Nat \ {0} : [c EXCEPT !.at = "next", !.item = n] \in Sources
    BY <1>2, SourceNext
  <2>3. No(c) \in Sources
    BY <2>1, <2>2, <2>5
  <2>4. No(c).at = "next"
    BY <1>2, <2>1 DEF Sources
  <2> QED BY <2>3, <2>4 DEF c
<1>6. CASE c.wait # "greeting" /\ c.wait \notin {"times", "name"}
  <2>1. No(c) = [c EXCEPT !.at = "next", !.item = c.item + 1]
    BY <1>6 DEF No
  <2>4. c.item + 1 \in Nat \ {0}
    BY <1>2, SourceUpdates
  <2>5. \A n \in Nat \ {0} : [c EXCEPT !.at = "next", !.item = n] \in Sources
    BY <1>2, SourceNext
  <2>2. No(c) \in Sources
    BY <2>1, <2>4, <2>5
  <2>3. No(c).at = "next"
    BY <1>2, <2>1 DEF Sources
  <2> QED BY <2>2, <2>3 DEF c
<1> QED BY <1>3, <1>4, <1>5, <1>6

(* Asking, the source waits for an answer or finds its peer gone.           *)
LEMMA AskType ==
  ASSUME NEW s \in Sources, NEW w \in Waits, NEW t \in Ask(s, w)
  PROVE  /\ t \in Sources
         /\ \/ t = [s EXCEPT !.at = "response", !.wait = w]
            \/ Ended(snk) /\ t = [s EXCEPT !.at = "exit", !.errs = s.errs + 1]
<1>1. \/ t = [s EXCEPT !.at = "response", !.wait = w]
      \/ Ended(snk) /\ t = [s EXCEPT !.at = "exit", !.errs = s.errs + 1]
  BY DEF Ask, Exit
<1>2. CASE t = [s EXCEPT !.at = "response", !.wait = w]
  <2>1. [s EXCEPT !.at = "response", !.wait = w] \in Sources
    BY SourceUpdates
  <2> QED BY <1>2, <2>1, Zenon
<1>3. CASE Ended(snk) /\ t = [s EXCEPT !.at = "exit", !.errs = s.errs + 1]
  <2>1. s.errs + 1 \in Nat
    BY SourceUpdates
  <2>2. [s EXCEPT !.at = "exit", !.errs = s.errs + 1] \in Sources
    BY <2>1, SourceUpdates
  <2> QED BY <1>3, <2>2, Zenon
<1> QED BY <1>1, <1>2, <1>3

(* A request carries the item and what is asked.                            *)
LEMMA RequestType ==
  ASSUME src \in Sources
  PROVE  \A w \in {"times", "name", "end", "data", "open"} : Request(w) \in Asked
BY SourceUpdates DEF Request, Asked, Waits

(* A call that fails is one less that may.                                  *)
LEMMA FaultType ==
  ASSUME left \in Bounds
  PROVE  /\ left.faults > 0 => [left EXCEPT !.faults = left.faults - 1] \in Bounds
         /\ left.deaths > 0 => [left EXCEPT !.deaths = left.deaths - 1] \in Bounds
BY DEF Bounds

(* The source's steps keep the types.                                       *)
LEMMA TypeResponse == TypeOK /\ Response => TypeOK'
<1> SUFFICES ASSUME TypeOK, Response PROVE TypeOK'
  OBVIOUS
<1>0. src \in Sources /\ copy \in Copies /\ Placed /\ fwd \in Seq(Records) /\ rev \in Seq(Answers)
  BY DEF TypeOK
<1>1. UNCHANGED <<copy, snk, fwd, stored, left>> /\ src.at = "response"
  BY DEF Response
<1>2. rev' \in Seq(Answers)
  BY <1>0, PutBack DEF Response
<1>3. \/ src' = Yes(src) \/ src' = No([src EXCEPT !.errs = Counted(@)])
      \/ src' = [src EXCEPT !.at = "exit", !.errs = src.errs + 1]
  BY DEF Response, Exit
<1>4. CASE src' = Yes(src)
  <2>1. src' \in Sources
    BY <1>1, <1>4, YesType
  <2>2. \/ src.wait = "times" /\ src'.at = "announce" /\ src'.item = src.item
        \/ src.wait = "name" /\ Item.kind = "file" /\ src'.at = "data" /\ src'.item = src.item
        \/ src'.at = "next"
    BY <1>0, <1>4 DEF Yes, Sources
  <2>3. Placed'
    BY <1>0, <1>1, <2>2 DEF Placed, Announced, Sent, Item
  <2> QED BY <1>0, <1>1, <1>2, <2>1, <2>3 DEF TypeOK
<1>5. CASE src' = No([src EXCEPT !.errs = Counted(@)])
  <2>1. src' \in Sources /\ src'.at \in {"exit", "next"}
    BY <1>1, <1>5, NoType
  <2>2. Placed'
    BY <2>1 DEF Placed, Announced, Sent
  <2> QED BY <1>1, <1>2, <2>1, <2>2 DEF TypeOK
<1>6. CASE src' = [src EXCEPT !.at = "exit", !.errs = src.errs + 1]
  <2>1. src' \in Sources
    BY <1>0, <1>6, SourceUpdates
  <2>2. src'.at = "exit"
    BY <1>0, <1>6 DEF Sources
  <2>3. Placed'
    BY <2>2 DEF Placed, Announced, Sent
  <2> QED BY <1>1, <1>2, <2>1, <2>3 DEF TypeOK
<1> QED BY <1>3, <1>4, <1>5, <1>6

(* What the source writes is a record, whether its peer is there or not.    *)
LEMMA SendType ==
  ASSUME fwd \in Seq(Records), NEW m \in Records
  PROVE  Send(m, fwd) \in Seq(Records)
BY Put DEF Send

(* Opening the next item.                                                   *)
LEMMA TypeOpen == TypeOK /\ Open => TypeOK'
<1> SUFFICES ASSUME TypeOK, Open PROVE TypeOK'
  OBVIOUS
<1>0. /\ src \in Sources /\ copy \in Copies /\ Placed /\ fwd \in Seq(Records)
      /\ rev \in Seq(Answers) /\ left \in Bounds
  BY DEF TypeOK
<1>1. UNCHANGED <<copy, snk, rev, stored>> /\ src.at = "next" /\ src.item <= Len(copy.items)
  BY DEF Open
<1>2. left' \in Bounds
  <2>1. UNCHANGED left \/ (left.faults > 0 /\ left' = [left EXCEPT !.faults = left.faults - 1])
    BY DEF Open, NoFault, Fault
  <2> QED BY <1>0, <2>1, FaultType
<1>3. /\ Request("times") \in Asked /\ Request("end") \in Asked /\ Request("open") \in Asked
      /\ src.item \in Nat \ {0}
  BY <1>0, RequestType, SourceUpdates
<1>4. /\ [m |-> "T", for |-> Request("times")] \in Records
      /\ [m |-> "E", for |-> Request("end")] \in Records
      /\ [m |-> "error", for |-> Request("open")] \in Records
  BY <1>3, RecordTypes
<1>5. fwd' \in Seq(Records)
  BY <1>0, <1>4, SendType, Put DEF Open, SrcError
<1>6. src.item \in DOMAIN copy.items /\ Item.kind \in Kinds
  <2> QED BY <1>0, <1>1, <1>3, CopyType DEF Item, Items
<1>7. CASE Item.kind # "end" /\ src' = [src EXCEPT !.at = "announce"]
  <2>1. src' \in Sources
    BY <1>0, <1>7, SourceUpdates DEF SourcePlaces
  <2>2. src'.at = "announce" /\ src'.item = src.item
    BY <1>0, <1>7 DEF Sources
  <2>3. Placed'
    BY <1>1, <1>6, <1>7, <2>2 DEF Placed, Announced, Sent, Item, Kinds
  <2> QED BY <1>0, <1>1, <1>2, <1>5, <2>1, <2>3 DEF TypeOK
<1>8. CASE Item.kind # "end" /\ src' \in Ask(src, "times")
  <2>1. /\ src' \in Sources
        /\ \/ src' = [src EXCEPT !.at = "response", !.wait = "times"]
           \/ Ended(snk) /\ src' = [src EXCEPT !.at = "exit", !.errs = src.errs + 1]
    BY <1>0, <1>8, AskType DEF Waits
  <2>2. (src'.at = "response" /\ src'.wait = "times" /\ src'.item = src.item) \/ src'.at = "exit"
    BY <1>0, <2>1 DEF Sources
  <2>3. Placed'
    BY <1>1, <1>6, <1>8, <2>2 DEF Placed, Announced, Sent, Item, Kinds
  <2> QED BY <1>0, <1>1, <1>2, <1>5, <2>1, <2>3 DEF TypeOK
<1>9. CASE src' = [src EXCEPT !.errs = src.errs + 1, !.item = After(src.item)]
  <2>1. After(src.item) \in Nat \ {0} /\ src.errs + 1 \in Nat
    BY <1>0, <1>6, AfterType, SourceUpdates
  <2>2. src' \in Sources
    BY <1>0, <1>9, <2>1, SourceUpdates
  <2>3. src'.at = "next"
    BY <1>0, <1>1, <1>9 DEF Sources
  <2>4. Placed'
    BY <2>3 DEF Placed, Announced, Sent
  <2> QED BY <1>0, <1>1, <1>2, <1>5, <2>2, <2>4 DEF TypeOK
<1>10. CASE Item.kind = "end" /\ src' \in Ask(src, "end")
  <2>1. /\ src' \in Sources
        /\ \/ src' = [src EXCEPT !.at = "response", !.wait = "end"]
           \/ Ended(snk) /\ src' = [src EXCEPT !.at = "exit", !.errs = src.errs + 1]
    BY <1>0, <1>10, AskType DEF Waits
  <2>2. (src'.at = "response" /\ src'.wait = "end" /\ src'.item = src.item) \/ src'.at = "exit"
    BY <1>0, <2>1 DEF Sources
  <2>3. Placed'
    BY <1>1, <1>6, <1>10, <2>2 DEF Placed, Announced, Sent, Item
  <2> QED BY <1>0, <1>1, <1>2, <1>5, <2>1, <2>3 DEF TypeOK
<1> QED BY <1>7, <1>8, <1>9, <1>10 DEF Open

(* Announcing it.                                                           *)
LEMMA TypeAnnounce == TypeOK /\ Announce => TypeOK'
<1> SUFFICES ASSUME TypeOK, Announce PROVE TypeOK'
  OBVIOUS
<1>0. src \in Sources /\ copy \in Copies /\ Placed /\ fwd \in Seq(Records)
  BY DEF TypeOK
<1>1. UNCHANGED <<copy, snk, rev, stored, left>> /\ src.at = "announce"
  BY DEF Announce
<1>2. src.item \in DOMAIN copy.items /\ Item.kind \in {"file", "dir"} /\ Item.size \in Nat
  BY <1>0, <1>1, CopyType DEF Placed, Announced, Item, Items
<1>3. Request("name") \in Asked /\ src.item \in Nat
  BY <1>0, RequestType, SourceUpdates
<1>4. [m |-> IF Item.kind = "dir" THEN "D" ELSE "C", for |-> Request("name"),
       item |-> src.item, size |-> Item.size] \in Records
  BY <1>2, <1>3, RecordTypes
<1>5. fwd' \in Seq(Records)
  BY <1>0, <1>4, SendType DEF Announce
<1>6. /\ src' \in Sources
      /\ \/ src' = [src EXCEPT !.at = "response", !.wait = "name"]
         \/ Ended(snk) /\ src' = [src EXCEPT !.at = "exit", !.errs = src.errs + 1]
  BY <1>0, AskType DEF Announce, Waits
<1>7. (src'.at = "response" /\ src'.wait = "name" /\ src'.item = src.item) \/ src'.at = "exit"
  BY <1>0, <1>6 DEF Sources
<1>8. Placed'
  BY <1>1, <1>2, <1>7 DEF Placed, Announced, Sent, Item
<1> QED BY <1>0, <1>1, <1>5, <1>6, <1>8 DEF TypeOK

(* Sending it.                                                              *)
LEMMA TypeData == TypeOK /\ Data => TypeOK'
<1> SUFFICES ASSUME TypeOK, Data PROVE TypeOK'
  OBVIOUS
<1>0. src \in Sources /\ copy \in Copies /\ Placed /\ fwd \in Seq(Records) /\ left \in Bounds
  BY DEF TypeOK
<1>1. UNCHANGED <<copy, snk, rev, stored>> /\ src.at = "data" /\ src.units > 0
  BY DEF Data
<1>2. left' \in Bounds
  <2>1. UNCHANGED left \/ (left.faults > 0 /\ left' = [left EXCEPT !.faults = left.faults - 1])
    BY DEF Data, NoFault, Fault
  <2> QED BY <1>0, <2>1, FaultType
<1>3. src.units - 1 \in Nat /\ src.item \in Nat
  <2>1. src.units \in Nat /\ src.item \in Nat
    BY <1>0, SourceUpdates
  <2> QED BY <1>1, <2>1
<1>4. \A g \in BOOLEAN : [m |-> "data", item |-> src.item, good |-> g] \in Records
  <2>1. <<0, "open">> \in Asked
    BY DEF Asked
  <2> QED BY <1>3, <2>1, RecordTypes
<1>5. fwd' \in Seq(Records)
  <2>1. \E g \in BOOLEAN : fwd' = Send([m |-> "data", item |-> src.item, good |-> g], fwd)
    BY DEF Data
  <2> QED BY <1>0, <1>4, <2>1, SendType
<1>6. \/ src' = [src EXCEPT !.units = src.units - 1]
      \/ \E how \in {"error", "short"} : src' = [src EXCEPT !.units = src.units - 1, !.reads = how]
  BY DEF Data
<1>7. src' \in Sources
  <2>1. [src EXCEPT !.units = src.units - 1] \in Sources
    BY <1>0, <1>3, SourceUpdates
  <2>2. \A h \in {"error", "short"} : [src EXCEPT !.units = src.units - 1, !.reads = h] \in Sources
    <3>1. \A n \in Nat, h \in {"error", "short"} : [src EXCEPT !.units = n, !.reads = h] \in Sources
      BY <1>0, SourceUpdates
    <3> QED BY <1>3, <3>1
  <2> QED BY <1>6, <2>1, <2>2
<1>8. src'.at = src.at /\ src'.item = src.item /\ src'.wait = src.wait
  BY <1>0, <1>6 DEF Sources
<1>9. Placed'
  BY <1>0, <1>1, <1>8 DEF Placed, Announced, Sent, Item
<1> QED BY <1>0, <1>1, <1>2, <1>5, <1>7, <1>9 DEF TypeOK

(* Ending it.                                                               *)
LEMMA TypeDataEnd == TypeOK /\ DataEnd => TypeOK'
<1> SUFFICES ASSUME TypeOK, DataEnd PROVE TypeOK'
  OBVIOUS
<1>0. src \in Sources /\ copy \in Copies /\ Placed /\ fwd \in Seq(Records)
  BY DEF TypeOK
<1>1. UNCHANGED <<copy, snk, rev, stored, left>> /\ src.at = "data"
  BY DEF DataEnd
<1>2. \A k \in {"ok", "error"} : [m |-> k, for |-> Request("data")] \in Records
  <2>1. Request("data") \in Asked
    BY <1>0, RequestType
  <2> QED BY <2>1, RecordTypes
<1>3. fwd' \in Seq(Records)
  BY <1>0, <1>2, Put DEF DataEnd, SrcError, Ga
<1>4. \E s \in Sources : src' \in Ask(s, "data") /\ s.at = "data" /\ s.item = src.item
  <2>1. CASE src.reads = "error"
    <3> DEFINE s == [src EXCEPT !.errs = src.errs + 1, !.reads = "good", !.silent = ~SrcRemote]
    <3>1. src' \in Ask(s, "data")
      BY <2>1 DEF DataEnd
    <3>2. s \in Sources
      BY <1>0, SourceUpdates
    <3>3. s.at = "data" /\ s.item = src.item
      BY <1>0, <1>1 DEF Sources
    <3> QED BY <3>1, <3>2, <3>3
  <2>2. CASE src.reads # "error"
    <3> DEFINE s == [src EXCEPT !.reads = "good", !.shrunk = src.shrunk \/ src.reads = "short"]
    <3>1. src' \in Ask(s, "data")
      BY <2>2 DEF DataEnd
    <3>2. s \in Sources
      BY <1>0, SourceUpdates
    <3>3. s.at = "data" /\ s.item = src.item
      BY <1>0, <1>1 DEF Sources
    <3> QED BY <3>1, <3>2, <3>3
  <2> QED BY <2>1, <2>2
<1>5. PICK s \in Sources : src' \in Ask(s, "data") /\ s.at = "data" /\ s.item = src.item
  BY <1>4
<1>6. /\ src' \in Sources
      /\ \/ src' = [s EXCEPT !.at = "response", !.wait = "data"]
         \/ Ended(snk) /\ src' = [s EXCEPT !.at = "exit", !.errs = s.errs + 1]
  BY <1>5, AskType DEF Waits
<1>7. (src'.at = "response" /\ src'.wait = "data" /\ src'.item = src.item) \/ src'.at = "exit"
  BY <1>5, <1>6 DEF Sources
<1>8. Placed'
  BY <1>0, <1>1, <1>7 DEF Placed, Announced, Sent, Item
<1> QED BY <1>0, <1>1, <1>3, <1>6, <1>8 DEF TypeOK

(* Ending the program.                                                      *)
LEMMA TypeSourceEnd == TypeOK /\ SourceEnd => TypeOK'
<1> SUFFICES ASSUME TypeOK, SourceEnd PROVE TypeOK'
  OBVIOUS
<1>0. src \in Sources
  BY DEF TypeOK
<1>1. UNCHANGED <<copy, snk, fwd, rev, stored, left>>
  BY DEF SourceEnd
<1>2. src' = [src EXCEPT !.at = "exit", !.errs = src.errs + 0]
  BY DEF SourceEnd, Exit
<1>3. src' \in Sources
  BY <1>0, <1>2, SourceExit
<1>4. src'.at = "exit"
  BY <1>0, <1>2 DEF Sources
<1>5. Placed'
  BY <1>4 DEF Placed, Announced, Sent
<1> QED BY <1>1, <1>3, <1>5 DEF TypeOK

(* What an answer of the sink leaves alone.                                 *)
LEMMA SinkKeeps ==
  ASSUME TypeOK, UNCHANGED <<copy, src>>, left' \in Bounds,
         snk' \in Sinks, fwd' \in Seq(Records), rev' \in Seq(Answers),
         stored' \in [DOMAIN copy.items -> {"none", "whole", "bad"}]
  PROVE  TypeOK'
BY DEF TypeOK, Placed, Announced, Sent, Item

(* The sink has a record before it, and answers or not.                     *)
LEMMA AnswerKeeps ==
  ASSUME TypeOK, NEW k, NEW e \in BOOLEAN, NEW to, Answer(k, e, to), e => CanFail
  PROVE  snk' = k /\ rev' = to /\ left' \in Bounds
<1>1. CASE e
  <2>1. left' = [left EXCEPT !.faults = left.faults - 1] /\ left.faults > 0
    BY <1>1 DEF Answer, CanFail
  <2> QED BY <2>1, FaultType DEF Answer, TypeOK
<1>2. CASE ~e
  BY <1>2 DEF Answer, TypeOK
<1> QED BY <1>1, <1>2

(* The same with the record taken off the connection.                       *)
LEMMA OutType ==
  ASSUME TypeOK, Out
  PROVE  /\ UNCHANGED <<copy, src>> /\ snk.at = "record" /\ fwd # <<>>
         /\ fwd' \in Seq(Records) /\ Head(fwd) \in Records
         /\ Head(fwd).m \in {"T", "E", "C", "D"} =>
              Ga(Head(fwd).for, rev) \in Seq(Answers) /\ SnkError(Head(fwd).for, rev) \in Seq(Answers)
<1>0. fwd \in Seq(Records) /\ rev \in Seq(Answers)
  BY DEF TypeOK
<1>1. UNCHANGED <<copy, src>> /\ snk.at = "record" /\ fwd # <<>> /\ fwd' = Tail(fwd)
  BY DEF Out
<1>2. fwd' \in Seq(Records) /\ Head(fwd) \in Records
  BY <1>0, <1>1, Put
<1>3. Head(fwd).m \in {"T", "E", "C", "D"} => Head(fwd).for \in Asked
  BY <1>2, RecordParts
<1> QED BY <1>0, <1>1, <1>2, <1>3, AnswerType

(* The sink leaves a directory, or ends.                                    *)
LEMMA LeaveType ==
  ASSUME NEW k \in Sinks
  PROVE  /\ Leave(k) \in Sinks
         /\ Leave(k).at \in {k.at, "exit"} /\ Leave(k).errs = k.errs
         /\ Leave(k).doubled = k.doubled /\ Leave(k).item = k.item
<1>1. CASE k.in = <<>>
  <2>1. Leave(k) = [k EXCEPT !.at = "exit", !.errs = k.errs + 0]
    BY <1>1 DEF Leave, Exit
  <2>2. k.errs + 0 \in Nat /\ k.errs + 0 = k.errs
    BY DEF Sinks
  <2>3. Leave(k) \in Sinks
    <3>1. \A n \in Nat : [k EXCEPT !.at = "exit", !.errs = n] \in Sinks
      BY SinkUpdates
    <3> QED BY <2>1, <2>2, <3>1
  <2> QED BY <2>1, <2>2, <2>3 DEF Sinks
<1>2. CASE k.in # <<>>
  <2>1. Leave(k) = [k EXCEPT !.in = Tail(k.in)]
    BY <1>2 DEF Leave
  <2>2. Tail(k.in) \in Seq(Nat)
    BY <1>2 DEF Sinks
  <2>3. Leave(k) \in Sinks
    <3>1. \A q \in Seq(Nat) : [k EXCEPT !.in = q] \in Sinks
      BY SinkUpdates
    <3> QED BY <2>1, <2>2, <3>1, Zenon
  <2> QED BY <2>1, <2>3 DEF Sinks
<1> QED BY <1>1, <1>2

(* The greetings and failures of the sink carry no item.                    *)
LEMMA NoItem ==
  ASSUME rev \in Seq(Answers), NEW w \in {"greeting", "cut", "screwup"}
  PROVE  Ga(<<0, w>>, rev) \in Seq(Answers) /\ SnkError(<<0, w>>, rev) \in Seq(Answers)
<1>1. <<0, w>> \in Asked
  BY DEF Asked, Waits
<1> QED BY <1>1, AnswerType

(* The sink starts.                                                         *)
LEMMA TypeStart == TypeOK /\ Start => TypeOK'
<1> SUFFICES ASSUME TypeOK, Start PROVE TypeOK'
  OBVIOUS
<1>0. snk \in Sinks /\ rev \in Seq(Answers) /\ fwd \in Seq(Records)
  BY DEF TypeOK
<1>1. UNCHANGED <<copy, src, fwd, stored>>
  BY DEF Start
<1>2. /\ [snk EXCEPT !.at = "record"] \in Sinks /\ Exit(snk, 1) \in Sinks
      /\ Ga(<<0, "greeting">>, rev) \in Seq(Answers)
      /\ SnkError(<<0, "greeting">>, rev) \in Seq(Answers)
  BY <1>0, SinkUpdates, NoItem DEF Exit, SinkPlaces
<1>3. snk' \in Sinks /\ rev' \in Seq(Answers) /\ left' \in Bounds
  BY <1>2, AnswerKeeps DEF Start
<1> QED BY <1>0, <1>1, <1>3, SinkKeeps DEF TypeOK

(* The connection ends between two records.                                 *)
LEMMA TypeSinkEof == TypeOK /\ SinkEof => TypeOK'
<1> SUFFICES ASSUME TypeOK, SinkEof PROVE TypeOK'
  OBVIOUS
<1>1. UNCHANGED <<copy, src, fwd, rev, stored, left>>
  BY DEF SinkEof
<1>2. Leave(snk) \in Sinks
  BY LeaveType DEF TypeOK
<1>3. \A b \in BOOLEAN : [Leave(snk) EXCEPT !.cut = b] \in Sinks
  BY <1>2, SinkUpdates
<1>4. snk' = [Leave(snk) EXCEPT !.cut = (src.at = "dead")]
  BY DEF SinkEof
<1>5. snk' \in Sinks
  BY <1>3, <1>4
<1> QED BY <1>1, <1>5, SinkKeeps DEF TypeOK

(* A directory ends.                                                        *)
LEMMA TypeSinkEnd == TypeOK /\ SinkEnd => TypeOK'
<1> SUFFICES ASSUME TypeOK, SinkEnd PROVE TypeOK'
  OBVIOUS
<1>1. Out /\ Head(fwd).m = "E" /\ UNCHANGED stored
  BY DEF SinkEnd
<1>2. /\ UNCHANGED <<copy, src>> /\ fwd' \in Seq(Records)
      /\ Ga(Head(fwd).for, rev) \in Seq(Answers)
      /\ Head(fwd).for \in Asked
  BY <1>1, OutType, RecordParts
<1>3. SnkError(Head(fwd).for, Ga(Head(fwd).for, rev)) \in Seq(Answers)
  BY <1>2, AnswerType
<1>4. Leave(snk) \in Sinks
  BY LeaveType DEF TypeOK
<1>5. SnkRemote \in BOOLEAN
  BY CopyType DEF TypeOK
<1>6. [Leave(snk) EXCEPT !.errs = @ + 1, !.doubled = SnkRemote] \in Sinks
  <2>1. Leave(snk).errs + 1 \in Nat
    BY <1>4, SinkUpdates
  <2>2. \A n \in Nat, b \in BOOLEAN : [Leave(snk) EXCEPT !.errs = n, !.doubled = b] \in Sinks
    BY <1>4, SinkUpdates
  <2> QED BY <1>5, <2>1, <2>2
<1>7. snk' \in Sinks /\ rev' \in Seq(Answers) /\ left' \in Bounds
  BY <1>2, <1>3, <1>4, <1>6, AnswerKeeps DEF SinkEnd
<1> QED BY <1>1, <1>2, <1>7, SinkKeeps DEF TypeOK

(* Times, errors, and what is out of place.                                 *)
LEMMA TypeSinkOther == TypeOK /\ (SinkTimes \/ SinkError \/ SinkScrewup) => TypeOK'
<1> SUFFICES ASSUME TypeOK, SinkTimes \/ SinkError \/ SinkScrewup PROVE TypeOK'
  OBVIOUS
<1>0. snk \in Sinks /\ rev \in Seq(Answers)
  BY DEF TypeOK
<1>1. Out /\ UNCHANGED stored
  BY DEF SinkTimes, SinkError, SinkScrewup
<1>2. UNCHANGED <<copy, src>> /\ fwd' \in Seq(Records)
  BY <1>1, OutType
<1>3. CASE SinkTimes
  <2>1. Ga(Head(fwd).for, rev) \in Seq(Answers)
    BY <1>1, <1>3, OutType DEF SinkTimes
  <2>2. snk' \in Sinks /\ rev' \in Seq(Answers) /\ left' \in Bounds
    BY <1>0, <1>3, <2>1, AnswerKeeps DEF SinkTimes
  <2> QED BY <1>1, <1>2, <2>2, SinkKeeps DEF TypeOK
<1>4. CASE SinkError
  <2>1. [snk EXCEPT !.errs = @ + 1] \in Sinks
    BY <1>0, SinkUpdates
  <2>2. snk' \in Sinks /\ rev' \in Seq(Answers) /\ left' \in Bounds
    <3> DEFINE k == [snk EXCEPT !.errs = @ + 1]
    <3>1. Answer(k, FALSE, rev) /\ k \in Sinks
      BY <1>4, <2>1 DEF SinkError
    <3> HIDE DEF k
    <3> QED BY <1>0, <3>1, AnswerKeeps
  <2> QED BY <1>1, <1>2, <2>2, SinkKeeps DEF TypeOK
<1>5. CASE SinkScrewup
  <2>1. Exit(snk, 1) \in Sinks /\ SnkError(<<0, "screwup">>, rev) \in Seq(Answers)
    BY <1>0, SinkUpdates, NoItem DEF Exit
  <2>2. snk' \in Sinks /\ rev' \in Seq(Answers) /\ left' \in Bounds
    BY <1>0, <1>5, <2>1, AnswerKeeps DEF SinkScrewup
  <2> QED BY <1>1, <1>2, <2>2, SinkKeeps DEF TypeOK
<1> QED BY <1>3, <1>4, <1>5

(* A directory is entered or a file begun, or refused.                      *)
LEMMA TypeSinkName == TypeOK /\ (SinkDir \/ SinkFile) => TypeOK'
<1> SUFFICES ASSUME TypeOK, SinkDir \/ SinkFile PROVE TypeOK'
  OBVIOUS
<1>0. snk \in Sinks /\ rev \in Seq(Answers) /\ SnkRemote \in BOOLEAN
      /\ stored \in [DOMAIN copy.items -> {"none", "whole", "bad"}]
  BY CopyType DEF TypeOK
<1>1. Out /\ Head(fwd).m \in {"C", "D"}
  BY DEF SinkDir, SinkFile
<1>2. /\ UNCHANGED <<copy, src>> /\ fwd' \in Seq(Records)
      /\ Ga(Head(fwd).for, rev) \in Seq(Answers) /\ SnkError(Head(fwd).for, rev) \in Seq(Answers)
      /\ Head(fwd).item \in Nat /\ Head(fwd).size \in Nat
  BY <1>1, OutType, RecordParts
<1>3. stored' \in [DOMAIN copy.items -> {"none", "whole", "bad"}]
  <2>1. stored' = stored \/ stored' = [stored EXCEPT ![Head(fwd).item] = "whole"]
    BY DEF SinkDir, SinkFile
  <2> QED BY <1>0, <2>1
<1>4. CASE Refuse(Head(fwd)) /\ CanFail
  <2>1. [snk EXCEPT !.errs = @ + 1, !.silent = ~SnkRemote] \in Sinks
    BY <1>0, SinkUpdates
  <2>2. snk' \in Sinks /\ rev' \in Seq(Answers) /\ left' \in Bounds
    <3> DEFINE k == [snk EXCEPT !.errs = @ + 1, !.silent = ~SnkRemote]
    <3>1. Answer(k, TRUE, SnkError(Head(fwd).for, rev)) /\ k \in Sinks
      BY <1>4, <2>1 DEF Refuse
    <3> HIDE DEF k
    <3> QED BY <1>2, <1>4, <3>1, AnswerKeeps
  <2> QED BY <1>2, <1>3, <2>2, SinkKeeps
<1>5. CASE Answer([snk EXCEPT !.in = <<Head(fwd).item>> \o @], FALSE, Ga(Head(fwd).for, rev))
  <2>1. <<Head(fwd).item>> \o snk.in \in Seq(Nat)
    <3>1. snk.in \in Seq(Nat)
      BY <1>0, SinkUpdates
    <3>2. \A q \in Seq(Nat), i \in Nat : <<i>> \o q \in Seq(Nat)
      OBVIOUS
    <3> QED BY <1>2, <3>1, <3>2
  <2>2. [snk EXCEPT !.in = <<Head(fwd).item>> \o @] \in Sinks
    BY <1>0, <2>1, SinkUpdates
  <2>3. snk' \in Sinks /\ rev' \in Seq(Answers) /\ left' \in Bounds
    BY <1>2, <1>5, <2>2, AnswerKeeps
  <2> QED BY <1>2, <1>3, <2>3, SinkKeeps
<1>6. CASE Answer([snk EXCEPT !.at = "data", !.item = Head(fwd).item, !.units = Head(fwd).size],
                  FALSE, Ga(Head(fwd).for, rev))
  <2>2. [snk EXCEPT !.at = "data", !.item = Head(fwd).item, !.units = Head(fwd).size] \in Sinks
    BY <1>0, <1>2, SinkUpdates
  <2>3. snk' \in Sinks /\ rev' \in Seq(Answers) /\ left' \in Bounds
    BY <1>2, <1>6, <2>2, AnswerKeeps
  <2> QED BY <1>2, <1>3, <2>3, SinkKeeps
<1> QED BY <1>4, <1>5, <1>6 DEF SinkDir, SinkFile

(* A unit of a file is read, or the connection ends before it.              *)
LEMMA TypeSinkData == TypeOK /\ (SinkData \/ SinkCut) => TypeOK'
<1> SUFFICES ASSUME TypeOK, SinkData \/ SinkCut PROVE TypeOK'
  OBVIOUS
<1>0. /\ snk \in Sinks /\ rev \in Seq(Answers) /\ fwd \in Seq(Records) /\ left \in Bounds
      /\ stored \in [DOMAIN copy.items -> {"none", "whole", "bad"}]
  BY DEF TypeOK
<1>1. CASE SinkData
  <2>0. snk.units - 1 \in Nat
    <3>1. snk.units \in Nat /\ snk.units > 0
      BY <1>0, <1>1, SinkUpdates DEF SinkData
    <3> QED BY <3>1
  <2>1. UNCHANGED <<copy, src, rev>> /\ fwd' \in Seq(Records)
    BY <1>0, <1>1, Put DEF SinkData
  <2>2. PICK e \in {FALSE} \cup {x \in {TRUE} : CanFail} :
          /\ snk' = [snk EXCEPT !.units = snk.units - 1, !.wrerr = snk.wrerr \/ e]
          /\ left' = IF e THEN [left EXCEPT !.faults = left.faults - 1] ELSE left
          /\ stored' = [stored EXCEPT ![snk.item] =
               IF ~e /\ Head(fwd).m = "data" /\ Head(fwd).item = snk.item /\ Head(fwd).good
               THEN @ ELSE "bad"]
    BY <1>1 DEF SinkData
  <2>3. stored' \in [DOMAIN copy.items -> {"none", "whole", "bad"}]
    BY <1>0, <2>2
  <2>4. left' \in Bounds
    BY <1>0, <2>2, FaultType DEF CanFail
  <2>5. \A b \in BOOLEAN : [snk EXCEPT !.units = snk.units - 1, !.wrerr = b] \in Sinks
    <3>1. \A n \in Nat, b \in BOOLEAN : [snk EXCEPT !.units = n, !.wrerr = b] \in Sinks
      BY <1>0, SinkUpdates
    <3> QED BY <2>0, <3>1
  <2>6. snk' \in Sinks
    BY <2>2, <2>5
  <2> QED BY <1>0, <2>1, <2>3, <2>4, <2>6, SinkKeeps
<1>2. CASE SinkCut
  <2>1. UNCHANGED <<copy, src, fwd, left>> /\ snk' = [snk EXCEPT !.at = "exit", !.errs = snk.errs + 1]
    BY <1>2 DEF SinkCut, Exit
  <2>2. snk' \in Sinks
    BY <1>0, <2>1, SinkUpdates
  <2>3. rev' \in Seq(Answers)
    BY <1>0, <1>2, NoItem DEF SinkCut
  <2>4. stored' \in [DOMAIN copy.items -> {"none", "whole", "bad"}]
    BY <1>0, <1>2 DEF SinkCut
  <2> QED BY <1>0, <2>1, <2>2, <2>3, <2>4, SinkKeeps
<1> QED BY <1>1, <1>2

(* The file is closed, and the two verdicts on it are exchanged.            *)
LEMMA TypeSinkVerdict == TypeOK /\ (SinkClose \/ SinkVerdict) => TypeOK'
<1> SUFFICES ASSUME TypeOK, SinkClose \/ SinkVerdict PROVE TypeOK'
  OBVIOUS
<1>0. /\ snk \in Sinks /\ rev \in Seq(Answers) /\ fwd \in Seq(Records)
      /\ SnkRemote \in BOOLEAN
      /\ stored \in [DOMAIN copy.items -> {"none", "whole", "bad"}]
  BY CopyType DEF TypeOK
<1> DEFINE for == <<snk.item, "data">>
<1>1. for \in Asked
  BY <1>0, SinkUpdates DEF Asked, Waits
<1>2. UNCHANGED <<copy, src>>
  BY DEF SinkClose, SinkVerdict
<1>3. fwd' \in Seq(Records)
  BY <1>0, Put DEF SinkClose, SinkVerdict
<1> HIDE DEF for
<1>4. CASE SinkClose
  <2>1. SnkError(for, rev) \in Seq(Answers)
    BY <1>0, <1>1, AnswerType
  <2>2. [snk EXCEPT !.at = "response"] \in Sinks
    BY <1>0, SinkUpdates DEF SinkPlaces
  <2>3. [snk EXCEPT !.at = "response", !.errs = @ + 1, !.doubled = SnkRemote] \in Sinks
    BY <1>0, SinkUpdates
  <2>4. snk' \in Sinks /\ rev' \in Seq(Answers) /\ left' \in Bounds
    BY <1>0, <1>4, <2>1, <2>2, <2>3, AnswerKeeps DEF SinkClose, for
  <2>5. stored' \in [DOMAIN copy.items -> {"none", "whole", "bad"}]
    BY <1>0, <1>4 DEF SinkClose
  <2> QED BY <1>2, <1>3, <2>4, <2>5, SinkKeeps
<1>5. CASE SinkVerdict
  <2> DEFINE heard == [snk EXCEPT !.at = "record", !.errs = IF Head(fwd).m = "error" THEN @ + 1 ELSE @]
  <2>1. heard \in Sinks
    <3>1. \A n \in Nat : [snk EXCEPT !.at = "record", !.errs = n] \in Sinks
      BY <1>0, SinkUpdates
    <3>2. snk.errs \in Nat /\ snk.errs + 1 \in Nat
      BY <1>0, SinkUpdates
    <3> QED BY <3>1, <3>2
  <2>2. Exit(snk, 1) \in Sinks
    BY <1>0, SinkUpdates DEF Exit
  <2>3. \/ Answer(Exit(snk, 1), FALSE, rev)
        \/ Answer(Written(heard), FALSE, Verdict(snk, for, rev))
        \/ /\ CanFail
           /\ Answer([Written(heard) EXCEPT !.errs = @ + 1, !.doubled = SnkRemote], TRUE,
                     Verdict(snk, for, SnkError(for, rev)))
    BY <1>5 DEF SinkVerdict, for
  <2>4. stored' = stored
    BY <1>5 DEF SinkVerdict
  <2> HIDE DEF heard
  <2>5. Written(heard) \in Sinks
    <3>1. \A n \in Nat, b \in BOOLEAN :
            [heard EXCEPT !.errs = n, !.wrerr = FALSE, !.silent = b] \in Sinks
      BY <2>1, SinkUpdates
    <3>2. heard.errs \in Nat /\ heard.errs + 1 \in Nat
      BY <2>1, SinkUpdates
    <3> DEFINE n == IF heard.wrerr THEN heard.errs + 1 ELSE heard.errs
               b == heard.silent \/ (heard.wrerr /\ ~SnkRemote)
    <3>3. n \in Nat /\ b \in BOOLEAN
      <4>1. n \in Nat
        BY <3>2
      <4>2. heard.silent \in BOOLEAN
        BY <2>1 DEF Sinks
      <4>3. b \in BOOLEAN
        BY <4>2
      <4> QED BY <4>1, <4>3
    <3>4. Written(heard) = [heard EXCEPT !.errs = n, !.wrerr = FALSE, !.silent = b]
      BY DEF Written
    <3> HIDE DEF n, b
    <3> QED BY <3>1, <3>3, <3>4
  <2>6. [Written(heard) EXCEPT !.errs = @ + 1, !.doubled = SnkRemote] \in Sinks
    <3>1. \A n \in Nat, b \in BOOLEAN : [Written(heard) EXCEPT !.errs = n, !.doubled = b] \in Sinks
      BY <2>5, SinkUpdates
    <3>2. Written(heard).errs + 1 \in Nat
      BY <2>5, SinkUpdates
    <3> QED BY <1>0, <3>1, <3>2
  <2>7. /\ Verdict(snk, for, rev) \in Seq(Answers)
        /\ Verdict(snk, for, SnkError(for, rev)) \in Seq(Answers)
    BY <1>0, <1>1, AnswerType DEF Verdict
  <2>8. snk' \in Sinks /\ rev' \in Seq(Answers) /\ left' \in Bounds
    <3>1. CASE Answer(Exit(snk, 1), FALSE, rev)
      <4> DEFINE k == Exit(snk, 1)
      <4>1. Answer(k, FALSE, rev) /\ k \in Sinks
        BY <2>2, <3>1
      <4> HIDE DEF k
      <4> QED BY <1>0, <4>1, AnswerKeeps
    <3>2. CASE Answer(Written(heard), FALSE, Verdict(snk, for, rev))
      BY <2>5, <2>7, <3>2, AnswerKeeps
    <3>3. CASE /\ CanFail
               /\ Answer([Written(heard) EXCEPT !.errs = @ + 1, !.doubled = SnkRemote], TRUE,
                         Verdict(snk, for, SnkError(for, rev)))
      BY <2>6, <2>7, <3>3, AnswerKeeps
    <3> QED BY <2>3, <3>1, <3>2, <3>3
  <2> QED BY <1>0, <1>2, <1>3, <2>4, <2>8, SinkKeeps
<1> QED BY <1>4, <1>5

(* A death changes nothing but who lives.                                   *)
LEMMA TypeDies == TypeOK /\ Dies => TypeOK'
<1> SUFFICES ASSUME TypeOK, Dies PROVE TypeOK'
  OBVIOUS
<1>0. src \in Sources /\ snk \in Sinks /\ left \in Bounds /\ Placed
  BY DEF TypeOK
<1>1. UNCHANGED <<copy, fwd, rev, stored>>
  BY DEF Dies
<1>2. left' \in Bounds
  BY <1>0, FaultType DEF Dies
<1>3. CASE UNCHANGED src /\ snk' = [snk EXCEPT !.at = "dead"]
  <2>1. snk' \in Sinks
    BY <1>0, <1>3, SinkUpdates DEF SinkPlaces
  <2> QED BY <1>1, <1>2, <1>3, <2>1, SinkKeeps DEF TypeOK
<1>4. CASE UNCHANGED snk /\ src' = [src EXCEPT !.at = "dead"]
  <2>1. src' \in Sources
    BY <1>0, <1>4, SourceUpdates DEF SourcePlaces
  <2>2. src'.at = "dead"
    BY <1>0, <1>4 DEF Sources
  <2>3. Placed'
    BY <2>2 DEF Placed, Announced, Sent
  <2> QED BY <1>0, <1>1, <1>2, <1>4, <2>1, <2>3 DEF TypeOK
<1> QED BY <1>3, <1>4 DEF Dies

(* The initial state has the types.                                         *)
LEMMA TypeInit == Init => TypeOK
<1> SUFFICES ASSUME Init PROVE TypeOK
  OBVIOUS
<1>1. copy \in Copies
  BY DEF Init
<1>2. src \in Sources
  BY DEF Init, Sources, SourcePlaces, Waits
<1>3. <<>> \in Seq(Nat)
  OBVIOUS
<1>4. snk \in Sinks
  BY <1>3 DEF Init, Sinks, SinkPlaces
<1>5. fwd \in Seq(Records) /\ rev \in Seq(Answers)
  BY DEF Init
<1>6. stored \in [DOMAIN copy.items -> {"none", "whole", "bad"}]
  BY <1>1, CopyType DEF Init
<1>7. left \in Bounds
  BY RcpAssumption DEF Init, Bounds
<1>8. Placed
  BY DEF Init, Placed, Announced, Sent
<1> QED BY <1>1, <1>2, <1>4, <1>5, <1>6, <1>7, <1>8 DEF TypeOK

(* Each step keeps them.                                                    *)
LEMMA TypeStep == TypeOK /\ [Next]_vars => TypeOK'
<1> SUFFICES ASSUME TypeOK, [Next]_vars PROVE TypeOK'
  OBVIOUS
<1>1. CASE Next
  BY <1>1, TypeResponse, TypeOpen, TypeAnnounce, TypeData, TypeDataEnd, TypeSourceEnd, TypeStart,
     TypeSinkEof, TypeSinkEnd, TypeSinkOther, TypeSinkName, TypeSinkData, TypeSinkVerdict, TypeDies
     DEF Next, SourceStep, SinkStep
<1>2. CASE UNCHANGED vars
  BY <1>2 DEF vars, TypeOK, Placed, Announced, Sent, Item
<1> QED BY <1>1, <1>2

(* In every reachable state both programs, both connections and what is     *)
(* stored have the types of the code's variables, and the source is at an   *)
(* item of the list, of the right kind, whenever it uses one.               *)
THEOREM TypeCorrect == Spec => []TypeOK
BY TypeInit, TypeStep, PTL DEF Spec
----------------------------------------------------------------------------
(* The last record is the request whose answer the source waits for.        *)
Last == fwd[Len(fwd)]
Requested ==
  LET m == Last IN
  /\ m.m \in {"T", "E", "C", "D"} /\ m.for = Awaited
  /\ m.m = "T" => src.wait = "times"
  /\ m.m = "E" => src.wait = "end"
  /\ m.m = "D" => src.wait = "name" /\ Item.kind = "dir"
  /\ m.m = "C" => src.wait = "name" /\ Item.kind = "file"
  /\ m.m \in {"C", "D"} => m.item = src.item /\ m.size = Item.size

(* Errors are on their way to the sink, and last of all a request.          *)
Asking ==
  \A i \in 1 .. Len(fwd) :
    fwd[i].m = "error" \/ (i = Len(fwd) /\ src.at = "response" /\ Requested)

(* Units are, and last of all what ends the file.                           *)
Sending ==
  \A i \in 1 .. Len(fwd) :
    fwd[i].m = "data" \/ (i = Len(fwd) /\ src.at = "response" /\ fwd[i].m \in {"ok", "error"})

(* The sink has not begun.                                                  *)
AtStart ==
  /\ snk.at = "start" /\ src.at = "response" /\ src.wait = "greeting"
  /\ fwd = <<>> /\ rev = <<>>
(* The sink is to read records, and has answered those it has read.         *)
AtRecord ==
  /\ snk.at = "record" /\ src.at \in {"next", "announce", "response"}
  /\ rev = <<>> /\ Asking
(* The answer is on its way; the sink is in the file, if it took one.       *)
Told ==
  /\ src.at = "response" /\ Len(rev) = 1 /\ Head(rev).for = Awaited /\ fwd = <<>>
  /\ IF src.wait = "name" /\ Item.kind = "file" /\ Head(rev).m = "ok"
     THEN snk.at \in {"data", "response"} /\ snk.item = src.item
     ELSE snk.at = "record"
(* Both are in the same file.                                               *)
AtData ==
  /\ snk.at \in {"data", "response"} /\ snk.item = src.item
  /\ Sent /\ rev = <<>> /\ Sending
(* The sink has gone, perhaps with a last answer.                           *)
Alone ==
  /\ Ended(snk)
  /\ rev = <<>> \/ (src.at = "response" /\ Len(rev) = 1 /\ Head(rev).for = Awaited)

Turns ==
  /\ snk.doubled => SnkRemote
  /\ ~snk.doubled /\ ~Ended(src) => AtStart \/ AtRecord \/ Told \/ AtData \/ Alone

(* One of the two is at turn, so an answer is the awaited one.              *)
LEMMA TurnsInStep == Turns => InStep
BY DEF Turns, InStep, AtStart, AtRecord, Told, AtData, Alone, Ended

(* In the beginning it is the sink.                                         *)
LEMMA TurnsInit == Init => Turns
BY DEF Init, Turns, AtStart

(* What is at the ends of a longer and of a shorter connection.             *)
LEMMA Appended ==
  ASSUME fwd \in Seq(Records), NEW m, fwd' = Append(fwd, m)
  PROVE  /\ Len(fwd') = Len(fwd) + 1 /\ Len(fwd) \in Nat /\ fwd'[Len(fwd')] = m
         /\ \A i \in 1 .. Len(fwd) : fwd'[i] = fwd[i]
         /\ 1 .. Len(fwd') = (1 .. Len(fwd)) \cup {Len(fwd')}
OBVIOUS

(* The same for a record taken.                                             *)
LEMMA Shorter ==
  ASSUME fwd \in Seq(Records), fwd # <<>>, fwd' = Tail(fwd)
  PROVE  /\ Len(fwd) \in Nat \ {0} /\ Len(fwd') = Len(fwd) - 1 /\ Head(fwd) = fwd[1]
         /\ \A i \in 1 .. Len(fwd') : fwd'[i] = fwd[i + 1] /\ i + 1 \in 1 .. Len(fwd)
         /\ \A i \in 1 .. Len(fwd') : i + 1 = Len(fwd) => i = Len(fwd')
         /\ Len(fwd) = 1 => fwd' = <<>>
         /\ 1 \in 1 .. Len(fwd)
OBVIOUS

(* The sink takes a record while the source waits or goes on.               *)
LEMMA AskingTaken ==
  ASSUME fwd \in Seq(Records), fwd # <<>>, fwd' = Tail(fwd), UNCHANGED <<copy, src>>, Asking
  PROVE  /\ Asking'
         /\ Head(fwd).m # "error" =>
              fwd' = <<>> /\ src.at = "response" /\ Requested /\ Last = Head(fwd)
<1>0. Len(fwd) \in Nat /\ Len(fwd') = Len(fwd) - 1
  BY Shorter
<1>1. Len(fwd) > 1 => Last' = Last
  <2>1. SUFFICES ASSUME Len(fwd) > 1 PROVE Last' = Last
    OBVIOUS
  <2>2. Len(fwd') \in 1 .. Len(fwd') /\ Len(fwd') + 1 = Len(fwd)
    BY <1>0, <2>1
  <2> QED BY <2>2, Shorter DEF Last
<1>2. Asking'
  <2> SUFFICES ASSUME NEW i \in 1 .. Len(fwd')
               PROVE  \/ fwd'[i].m = "error"
                      \/ i = Len(fwd') /\ src'.at = "response" /\ Requested'
    BY Zenon DEF Asking
  <2>1. fwd'[i] = fwd[i + 1] /\ i + 1 \in 1 .. Len(fwd) /\ (i + 1 = Len(fwd) => i = Len(fwd'))
    BY Shorter
  <2>2. Len(fwd) > 1
    BY <1>0
  <2>3. Requested => Requested'
    BY <1>1, <2>2 DEF Requested, Awaited, Request, Item
  <2> QED BY <2>1, <2>3 DEF Asking
<1>3. Head(fwd).m # "error" => fwd' = <<>> /\ src.at = "response" /\ Requested /\ Last = Head(fwd)
  BY Shorter DEF Asking, Last
<1> QED BY <1>2, <1>3

(* The same while it sends.                                                 *)
LEMMA SendingTaken ==
  ASSUME fwd \in Seq(Records), fwd # <<>>, fwd' = Tail(fwd), UNCHANGED <<copy, src>>, Sending
  PROVE  /\ Sending'
         /\ Head(fwd).m # "data" => fwd' = <<>> /\ src.at = "response"
<1>1. Sending'
  <2> SUFFICES ASSUME NEW i \in 1 .. Len(fwd')
               PROVE  \/ fwd'[i].m = "data"
                      \/ i = Len(fwd') /\ src'.at = "response" /\ fwd'[i].m \in {"ok", "error"}
    BY DEF Sending
  <2>1. fwd'[i] = fwd[i + 1] /\ i + 1 \in 1 .. Len(fwd) /\ (i + 1 = Len(fwd) => i = Len(fwd'))
    BY Shorter
  <2> QED BY <2>1 DEF Sending
<1>2. Head(fwd).m # "data" => fwd' = <<>> /\ src.at = "response"
  BY Shorter DEF Sending
<1> QED BY <1>1, <1>2

(* One answer is the only one.                                              *)
LEMMA Only ==
  ASSUME rev = <<>>, NEW for
  PROVE  /\ Len(Ga(for, rev)) = 1 /\ Head(Ga(for, rev)) = [m |-> "ok", for |-> for]
         /\ \/ SnkError(for, rev) = rev
            \/ Len(SnkError(for, rev)) = 1 /\ Head(SnkError(for, rev)) = [m |-> "error", for |-> for]
         /\ ~SnkRemote => SnkError(for, Ga(for, rev)) = Ga(for, rev) /\ SnkError(for, rev) = rev
BY DEF Ga, SnkError

(* The place to which an answer moves the source.                           *)
LEMMA Moves ==
  ASSUME TypeOK, src.at = "response"
  PROVE  IF src.wait = "name" /\ Item.kind = "file"
         THEN Yes(src).at = "data" /\ Yes(src).item = src.item
         ELSE Yes(src).at \in {"announce", "next"}
<1>0. src \in Sources
  BY DEF TypeOK
<1> QED BY <1>0 DEF Yes, Sources

(* The source takes the answer, and goes on as the sink does.               *)
LEMMA TurnsResponse == TypeOK /\ Turns /\ Response => Turns'
<1> SUFFICES ASSUME TypeOK, Turns, Response PROVE Turns'
  OBVIOUS
<1>0. rev \in Seq(Answers) /\ src \in Sources
  BY DEF TypeOK
<1>1. UNCHANGED <<copy, snk, fwd>> /\ src.at = "response" /\ SnkRemote' = SnkRemote
  BY DEF Response, SnkRemote
<1> SUFFICES ASSUME ~snk.doubled, ~Ended(src')
             PROVE  AtStart' \/ AtRecord' \/ Told' \/ AtData' \/ Alone'
  BY <1>1 DEF Turns, Ended
<1>2. rev # <<>>
  <2>1. CASE rev = <<>>
    <3>1. src' = Exit(src, 1)
      BY <2>1 DEF Response
    <3>2. src'.at = "exit"
      BY <1>0, <3>1 DEF Exit, Sources
    <3> QED BY <3>2 DEF Ended
  <2> QED BY <2>1
<1>3. /\ rev' = Tail(rev)
      /\ src' = IF Head(rev).m = "ok" THEN Yes(src) ELSE No([src EXCEPT !.errs = Counted(@)])
  BY <1>2 DEF Response
<1>4. Len(rev) = 1 => rev' = <<>>
  BY <1>0, <1>3
<1>5. Told \/ Alone
  BY <1>1, <1>2 DEF Turns, AtStart, AtRecord, AtData, Ended
<1>6. CASE Alone
  <2>1. rev' = <<>>
    BY <1>2, <1>4, <1>6 DEF Alone
  <2> QED BY <1>1, <1>6, <2>1 DEF Alone, Ended
<1>7. CASE Told
  <2>1. rev' = <<>> /\ fwd' = <<>>
    BY <1>1, <1>4, <1>7 DEF Told
  <2>2. Asking' /\ Sending'
    BY <2>1 DEF Asking, Sending
  <2>3. CASE src.wait = "name" /\ Item.kind = "file" /\ Head(rev).m = "ok"
    <3>1. src'.at = "data" /\ src'.item = src.item
      BY <1>1, <1>3, <2>3, Moves
    <3>2. AtData'
      BY <1>1, <1>7, <2>1, <2>2, <2>3, <3>1 DEF Told, AtData, Sent
    <3> QED BY <3>2
  <2>4. CASE ~(src.wait = "name" /\ Item.kind = "file" /\ Head(rev).m = "ok")
    <3>1. src'.at \in {"announce", "next"}
      <4>1. CASE Head(rev).m = "ok"
        BY <1>1, <1>3, <2>4, <4>1, Moves
      <4>2. CASE Head(rev).m # "ok"
        BY <1>1, <1>3, <4>2, NoType DEF Ended
      <4> QED BY <4>1, <4>2
    <3>2. snk'.at = "record"
      BY <1>1, <1>7, <2>4 DEF Told
    <3>3. AtRecord'
      BY <2>1, <2>2, <3>1, <3>2 DEF AtRecord
    <3> QED BY <3>3
  <2> QED BY <2>3, <2>4
<1> QED BY <1>5, <1>6, <1>7

(* The source reports an error, or makes a request.                         *)
LEMMA TurnsOpen == TypeOK /\ Turns /\ Open => Turns'
<1> SUFFICES ASSUME TypeOK, Turns, Open PROVE Turns'
  OBVIOUS
<1>0. fwd \in Seq(Records) /\ src \in Sources
  BY DEF TypeOK
<1>1. UNCHANGED <<copy, snk, rev>> /\ src.at = "next" /\ SnkRemote' = SnkRemote
  BY DEF Open, SnkRemote
<1> SUFFICES ASSUME ~snk.doubled, ~Ended(src')
             PROVE  AtStart' \/ AtRecord' \/ Told' \/ AtData' \/ Alone'
  BY <1>1 DEF Turns, Ended
<1>2. AtRecord \/ Alone
  BY <1>1 DEF Turns, AtStart, Told, AtData, Sent, Ended
<1>3. CASE Alone
  BY <1>1, <1>3 DEF Alone, Ended
<1>4. CASE AtRecord
  <2>1. ~Ended(snk) /\ rev' = <<>> /\ snk'.at = "record"
    BY <1>1, <1>4 DEF AtRecord, Ended
  <2>2. \A i \in 1 .. Len(fwd) : fwd[i].m = "error"
    BY <1>1, <1>4 DEF AtRecord, Asking
  <2>3. CASE Item.kind # "end" /\ src' = [src EXCEPT !.at = "announce"] /\ UNCHANGED fwd
    <3>1. src'.at = "announce"
      BY <1>0, <2>3 DEF Sources
    <3>2. Asking'
      BY <2>2, <2>3 DEF Asking
    <3> QED BY <2>1, <3>1, <3>2 DEF AtRecord
  <2>4. CASE /\ src' \in Ask(src, "times")
             /\ fwd' = Send([m |-> "T", for |-> Request("times")], fwd)
    <3>1. /\ src'.at = "response" /\ src'.wait = "times" /\ src'.item = src.item
          /\ fwd' = Append(fwd, [m |-> "T", for |-> Request("times")])
      BY <1>0, <2>1, <2>4 DEF Ask, Send, Sources
    <3>2. Awaited' = Request("times")
      BY <3>1 DEF Awaited, Request
    <3>3. Requested'
      BY <1>0, <3>1, <3>2, Appended DEF Requested, Last
    <3>4. Asking'
      BY <1>0, <2>2, <3>1, <3>3, Appended DEF Asking
    <3> QED BY <2>1, <3>1, <3>4 DEF AtRecord
  <2>5. CASE /\ src' = [src EXCEPT !.errs = @ + 1, !.item = After(@)]
             /\ fwd' = SrcError(Request("open"), fwd)
    <3>1. src'.at = "next"
      BY <1>0, <1>1, <2>5 DEF Sources
    <3>2. fwd' = fwd \/ fwd' = Append(fwd, [m |-> "error", for |-> Request("open")])
      BY <2>5 DEF SrcError
    <3>3. Asking'
      BY <1>0, <2>2, <3>2, Appended DEF Asking
    <3> QED BY <2>1, <3>1, <3>3 DEF AtRecord
  <2>6. CASE /\ src' \in Ask(src, "end")
             /\ fwd' = Send([m |-> "E", for |-> Request("end")], fwd)
    <3>1. /\ src'.at = "response" /\ src'.wait = "end" /\ src'.item = src.item
          /\ fwd' = Append(fwd, [m |-> "E", for |-> Request("end")])
      BY <1>0, <2>1, <2>6 DEF Ask, Send, Sources
    <3>2. Awaited' = Request("end")
      BY <3>1 DEF Awaited, Request
    <3>3. Requested'
      BY <1>0, <3>1, <3>2, Appended DEF Requested, Last
    <3>4. Asking'
      BY <1>0, <2>2, <3>1, <3>3, Appended DEF Asking
    <3> QED BY <2>1, <3>1, <3>4 DEF AtRecord
  <2> QED BY <2>3, <2>4, <2>5, <2>6 DEF Open
<1> QED BY <1>2, <1>3, <1>4

(* The source announces a file or a directory.                              *)
LEMMA TurnsAnnounce == TypeOK /\ Turns /\ Announce => Turns'
<1> SUFFICES ASSUME TypeOK, Turns, Announce PROVE Turns'
  OBVIOUS
<1>0. fwd \in Seq(Records) /\ src \in Sources /\ Placed
  BY DEF TypeOK
<1>1. UNCHANGED <<copy, snk, rev>> /\ src.at = "announce" /\ SnkRemote' = SnkRemote
  BY DEF Announce, SnkRemote
<1> SUFFICES ASSUME ~snk.doubled, ~Ended(src')
             PROVE  AtStart' \/ AtRecord' \/ Told' \/ AtData' \/ Alone'
  BY <1>1 DEF Turns, Ended
<1>2. AtRecord \/ Alone
  BY <1>1 DEF Turns, AtStart, Told, AtData, Sent, Ended
<1>3. CASE Alone
  BY <1>1, <1>3 DEF Alone, Ended
<1>4. CASE AtRecord
  <2>1. ~Ended(snk) /\ rev' = <<>> /\ snk'.at = "record"
    BY <1>1, <1>4 DEF AtRecord, Ended
  <2>2. \A i \in 1 .. Len(fwd) : fwd[i].m = "error"
    BY <1>1, <1>4 DEF AtRecord, Asking
  <2> DEFINE k == IF Item.kind = "dir" THEN "D" ELSE "C"
             m == [m |-> k, for |-> Request("name"), item |-> src.item, size |-> Item.size]
  <2>3. /\ src'.at = "response" /\ src'.wait = "name" /\ src'.item = src.item
        /\ fwd' = Append(fwd, m)
    BY <1>0, <2>1 DEF Announce, Ask, Send, Sources
  <2>4. Awaited' = Request("name") /\ Item' = Item
    BY <1>1, <2>3 DEF Awaited, Request, Item
  <2>5. Item.kind \in {"file", "dir"}
    BY <1>0, <1>1 DEF Placed, Announced
  <2>6. m.m = k /\ m.for = Request("name") /\ m.item = src.item /\ m.size = Item.size
    OBVIOUS
  <2>7. (k = "D" /\ Item.kind = "dir") \/ (k = "C" /\ Item.kind = "file")
    BY <2>5
  <2> HIDE DEF m, k
  <2>8. fwd'[Len(fwd')] = m
    BY <1>0, <2>3, Appended
  <2>9. Requested'
    BY <2>3, <2>4, <2>6, <2>7, <2>8 DEF Requested, Last
  <2>10. Asking'
    BY <1>0, <2>2, <2>3, <2>9, Appended DEF Asking
  <2> QED BY <2>1, <2>3, <2>10 DEF AtRecord
<1> QED BY <1>2, <1>3, <1>4

(* The source sends the file and its end.                                   *)
LEMMA TurnsData == TypeOK /\ Turns /\ (Data \/ DataEnd) => Turns'
<1> SUFFICES ASSUME TypeOK, Turns, Data \/ DataEnd PROVE Turns'
  OBVIOUS
<1>0. fwd \in Seq(Records) /\ src \in Sources
  BY DEF TypeOK
<1>1. UNCHANGED <<copy, snk, rev>> /\ src.at = "data" /\ SnkRemote' = SnkRemote
  BY DEF Data, DataEnd, SnkRemote
<1> SUFFICES ASSUME ~snk.doubled, ~Ended(src')
             PROVE  AtStart' \/ AtRecord' \/ Told' \/ AtData' \/ Alone'
  BY <1>1 DEF Turns, Ended
<1>2. AtData \/ Alone
  BY <1>1 DEF Turns, AtStart, AtRecord, Told, Ended
<1>3. CASE Alone
  BY <1>1, <1>3 DEF Alone, Ended
<1>4. CASE AtData
  <2>1. ~Ended(snk) /\ rev' = <<>> /\ snk' = snk
    BY <1>1, <1>4 DEF AtData, Ended
  <2>2. \A i \in 1 .. Len(fwd) : fwd[i].m = "data"
    BY <1>1, <1>4 DEF AtData, Sending
  <2>3. CASE Data
    <3>1. src'.at = "data" /\ src'.item = src.item
      BY <1>0, <1>1, <2>3 DEF Data, Sources
    <3>2. \E g \in BOOLEAN : fwd' = Append(fwd, [m |-> "data", item |-> src.item, good |-> g])
      BY <2>1, <2>3 DEF Data, Send
    <3>3. Sending'
      BY <1>0, <2>2, <3>2, Appended DEF Sending
    <3> QED BY <1>4, <2>1, <3>1, <3>3 DEF AtData, Sent
  <2>4. CASE DataEnd
    <3>1. src'.at = "response" /\ src'.wait = "data" /\ src'.item = src.item
      BY <1>0, <2>1, <2>4 DEF DataEnd, Ask, Sources
    <3>2. \/ fwd' = fwd
          \/ \E k \in {"ok", "error"} : fwd' = Append(fwd, [m |-> k, for |-> Request("data")])
      BY <2>4 DEF DataEnd, SrcError, Ga
    <3>3. Sending'
      BY <1>0, <2>2, <3>1, <3>2, Appended DEF Sending
    <3> QED BY <1>4, <2>1, <3>1, <3>3 DEF AtData, Sent
  <2> QED BY <2>3, <2>4
<1> QED BY <1>2, <1>3, <1>4

(* The end of the source is the end of the matter.                          *)
LEMMA TurnsSourceEnd == TypeOK /\ Turns /\ SourceEnd => Turns'
<1> SUFFICES ASSUME TypeOK, Turns, SourceEnd PROVE Turns'
  OBVIOUS
<1>1. UNCHANGED <<copy, snk>> /\ src'.at = "exit"
  BY DEF SourceEnd, Exit, TypeOK, Sources
<1> QED BY <1>1 DEF Turns, Ended, SnkRemote

(* Where the sink can be when it takes a record.                            *)
LEMMA TurnsOut ==
  ASSUME TypeOK, Turns, Out, ~snk.doubled, ~Ended(src), Head(fwd).m # "error"
  PROVE  /\ src.at = "response" /\ fwd' = <<>> /\ rev = <<>>
         /\ Requested /\ Last = Head(fwd) /\ UNCHANGED <<copy, src>>
<1>1. /\ snk.at = "record" /\ fwd # <<>> /\ fwd' = Tail(fwd) /\ UNCHANGED <<copy, src>>
      /\ fwd \in Seq(Records)
  BY DEF Out, TypeOK
<1>2. Asking /\ rev = <<>>
  BY <1>1 DEF Turns, AtStart, AtRecord, Told, AtData, Alone, Ended
<1> QED BY <1>1, <1>2, AskingTaken

(* The source waits for the same as long as it does not move.               *)
LEMMA SameAwaited ==
  ASSUME UNCHANGED <<copy, src>>
  PROVE  Awaited' = Awaited /\ Item' = Item /\ SnkRemote' = SnkRemote /\ Ended(src)' = Ended(src)
BY DEF Awaited, Request, Item, SnkRemote, Ended

(* A plain answer puts the source at turn, unless it is for a file.         *)
LEMMA TurnsTold ==
  ASSUME UNCHANGED <<copy, src>>, src.at = "response", fwd' = <<>>, rev = <<>>,
         snk'.at \in {"record", "exit"},
         \/ rev' = Ga(Awaited, rev) /\ ~(src.wait = "name" /\ Item.kind = "file")
         \/ rev' = SnkError(Awaited, rev)
  PROVE  AtRecord' \/ Told' \/ Alone'
<1>1. Awaited' = Awaited /\ Item' = Item
  BY SameAwaited
<1>2. CASE rev' = rev
  <2>1. Asking'
    BY DEF Asking
  <2> QED BY <1>2, <2>1 DEF AtRecord, Alone, Ended
<1>3. CASE /\ Len(rev') = 1 /\ Head(rev').for = Awaited
           /\ src.wait = "name" /\ Item.kind = "file" => Head(rev').m # "ok"
  BY <1>1, <1>3 DEF Told, Alone, Ended
<1>4. CASE rev' = Ga(Awaited, rev)
  BY <1>3, <1>4, Only
<1>5. CASE rev' = SnkError(Awaited, rev)
  BY <1>2, <1>3, <1>5, Only
<1> QED BY <1>4, <1>5

(* What a step of the sink has to keep.                                     *)
LEMMA TurnsSink ==
  ASSUME Turns, UNCHANGED <<copy, src>>,
         snk'.doubled => snk.doubled \/ SnkRemote,
         ~snk'.doubled /\ ~snk.doubled /\ ~Ended(src) =>
           (AtStart \/ AtRecord \/ Told \/ AtData \/ Alone)',
         ~snk'.doubled => ~snk.doubled \/ ~SnkRemote
  PROVE  Turns'
BY SameAwaited DEF Turns

(* The sink greets, or fails to.                                            *)
LEMMA TurnsStart == TypeOK /\ Turns /\ Start => Turns'
<1> SUFFICES ASSUME TypeOK, Turns, Start PROVE Turns'
  OBVIOUS
<1>0. snk \in Sinks
  BY DEF TypeOK
<1>1. UNCHANGED <<copy, src, fwd>> /\ snk.at = "start"
  BY DEF Start
<1>2. snk'.doubled = snk.doubled /\ snk'.at \in {"record", "exit"}
  BY <1>0 DEF Start, Answer, Exit, Sinks
<1>3. ASSUME ~snk.doubled, ~Ended(src)
      PROVE  (AtStart \/ AtRecord \/ Told \/ AtData \/ Alone)'
  <2>1. AtStart
    BY <1>1, <1>3 DEF Turns, AtRecord, Told, AtData, Alone, Ended
  <2>2. Awaited = <<0, "greeting">>
    BY <2>1 DEF AtStart, Awaited
  <2>3. rev' = Ga(<<0, "greeting">>, rev) \/ rev' = SnkError(<<0, "greeting">>, rev)
    BY DEF Start, Answer
  <2> QED BY <1>1, <1>2, <2>1, <2>2, <2>3, TurnsTold DEF AtStart
<1> QED BY <1>1, <1>2, <1>3, TurnsSink

(* The end of the connection, or of the file before its time.               *)
LEMMA TurnsEof == TypeOK /\ Turns /\ (SinkEof \/ SinkCut) => Turns'
<1> SUFFICES ASSUME TypeOK, Turns, SinkEof \/ SinkCut PROVE Turns'
  OBVIOUS
<1>0. snk \in Sinks
  BY DEF TypeOK
<1>1. UNCHANGED <<copy, src>> /\ Ended(src)
  BY DEF SinkEof, SinkCut
<1>2. snk'.doubled = snk.doubled
  <2>1. CASE SinkEof
    <3>1. Leave(snk) \in Sinks /\ Leave(snk).doubled = snk.doubled
      BY <1>0, LeaveType
    <3> QED BY <2>1, <3>1 DEF SinkEof, Sinks
  <2>2. CASE SinkCut
    BY <1>0, <2>2 DEF SinkCut, Exit, Sinks
  <2> QED BY <2>1, <2>2
<1> QED BY <1>1, <1>2, TurnsSink

(* A directory ends.  Its times that cannot be set are a second answer, but *)
(* only of a sink that tells its peer.                                      *)
LEMMA TurnsEnd == TypeOK /\ Turns /\ SinkEnd => Turns'
<1> SUFFICES ASSUME TypeOK, Turns, SinkEnd PROVE Turns'
  OBVIOUS
<1>0. snk \in Sinks /\ SnkRemote \in BOOLEAN
  BY CopyType DEF TypeOK
<1>1. Out /\ Head(fwd).m = "E"
  BY DEF SinkEnd
<1>2. UNCHANGED <<copy, src>> /\ snk.at = "record"
  BY <1>1 DEF Out
<1>3. /\ Leave(snk) \in Sinks /\ Leave(snk).doubled = snk.doubled
      /\ Leave(snk).at \in {"record", "exit"}
  BY <1>0, <1>2, LeaveType
<1>4. /\ snk'.at \in {"record", "exit"}
      /\ \/ snk'.doubled = snk.doubled /\ rev' = Ga(Head(fwd).for, rev)
         \/ snk'.doubled = SnkRemote /\ rev' = SnkError(Head(fwd).for, Ga(Head(fwd).for, rev))
  <2>1. CASE Answer(Leave(snk), FALSE, Ga(Head(fwd).for, rev))
    BY <1>3, <2>1 DEF Answer
  <2>2. CASE Answer([Leave(snk) EXCEPT !.errs = @ + 1, !.doubled = SnkRemote], TRUE,
                    SnkError(Head(fwd).for, Ga(Head(fwd).for, rev)))
    <3>1. /\ snk'.at = Leave(snk).at /\ snk'.doubled = SnkRemote
          /\ rev' = SnkError(Head(fwd).for, Ga(Head(fwd).for, rev))
      BY <1>3, <2>2 DEF Answer, Sinks
    <3> QED BY <1>3, <3>1
  <2> QED BY <2>1, <2>2 DEF SinkEnd
<1>5. ASSUME ~snk'.doubled, ~snk.doubled, ~Ended(src)
      PROVE  (AtStart \/ AtRecord \/ Told \/ AtData \/ Alone)'
  <2>1. /\ src.at = "response" /\ fwd' = <<>> /\ rev = <<>> /\ Requested /\ Last = Head(fwd)
    BY <1>1, <1>5, TurnsOut
  <2>2. Head(fwd).for = Awaited /\ src.wait = "end"
    BY <1>1, <2>1 DEF Requested
  <2>3. rev' = Ga(Awaited, rev)
    BY <1>4, <1>5, <2>1, <2>2, Only
  <2> QED BY <1>2, <1>4, <2>1, <2>2, <2>3, TurnsTold
<1> QED BY <1>0, <1>2, <1>4, <1>5, TurnsSink DEF Turns

(* Times are answered, errors are not; nothing else comes between records.  *)
LEMMA TurnsOther == TypeOK /\ Turns /\ (SinkTimes \/ SinkError \/ SinkScrewup) => Turns'
<1> SUFFICES ASSUME TypeOK, Turns, SinkTimes \/ SinkError \/ SinkScrewup PROVE Turns'
  OBVIOUS
<1>0. snk \in Sinks /\ fwd \in Seq(Records)
  BY DEF TypeOK
<1>1. Out
  BY DEF SinkTimes, SinkError, SinkScrewup
<1>2. UNCHANGED <<copy, src>> /\ snk.at = "record" /\ fwd # <<>> /\ fwd' = Tail(fwd)
  BY <1>1 DEF Out
<1>3. snk'.doubled = snk.doubled
  BY <1>0 DEF SinkTimes, SinkError, SinkScrewup, Answer, Exit, Sinks
<1>4. ASSUME ~snk.doubled, ~Ended(src)
      PROVE  (AtStart \/ AtRecord \/ Told \/ AtData \/ Alone)'
  <2>1. CASE SinkError
    <3>1. AtRecord
      BY <1>2, <1>4 DEF Turns, AtStart, Told, AtData, Alone, Ended
    <3>2. Asking'
      BY <1>0, <1>2, <3>1, AskingTaken DEF AtRecord
    <3>3. snk'.at = "record" /\ rev' = rev
      BY <1>0, <1>2, <2>1 DEF SinkError, Answer, Sinks
    <3> QED BY <1>2, <3>1, <3>2, <3>3 DEF AtRecord
  <2>2. CASE SinkTimes
    <3>1. Head(fwd).m = "T" /\ snk' = snk /\ rev' = Ga(Head(fwd).for, rev)
      BY <2>2 DEF SinkTimes, Answer
    <3>2. /\ src.at = "response" /\ fwd' = <<>> /\ rev = <<>> /\ Requested /\ Last = Head(fwd)
      BY <1>1, <1>4, <3>1, TurnsOut
    <3>3. Head(fwd).for = Awaited /\ src.wait = "times"
      BY <3>1, <3>2 DEF Requested
    <3> QED BY <1>2, <3>1, <3>2, <3>3, TurnsTold
  <2>3. CASE SinkScrewup
    <3>1. Head(fwd).m \in {"data", "ok"}
      BY <2>3 DEF SinkScrewup
    <3>2. Requested /\ Last = Head(fwd)
      BY <1>1, <1>4, <3>1, TurnsOut
    <3> QED BY <3>1, <3>2 DEF Requested
  <2> QED BY <2>1, <2>2, <2>3
<1> QED BY <1>2, <1>3, <1>4, TurnsSink

(* A name is refused, or taken; a file is then where both are.              *)
LEMMA TurnsName == TypeOK /\ Turns /\ (SinkDir \/ SinkFile) => Turns'
<1> SUFFICES ASSUME TypeOK, Turns, SinkDir \/ SinkFile PROVE Turns'
  OBVIOUS
<1>0. snk \in Sinks
  BY DEF TypeOK
<1>1. Out /\ Head(fwd).m \in {"C", "D"}
  BY DEF SinkDir, SinkFile
<1>2. UNCHANGED <<copy, src>> /\ snk.at = "record"
  BY <1>1 DEF Out
<1>3. snk'.doubled = snk.doubled
  BY <1>0 DEF SinkDir, SinkFile, Refuse, Answer, Sinks
<1>4. ASSUME ~snk.doubled, ~Ended(src)
      PROVE  (AtStart \/ AtRecord \/ Told \/ AtData \/ Alone)'
  <2>1. /\ src.at = "response" /\ fwd' = <<>> /\ rev = <<>> /\ Requested /\ Last = Head(fwd)
    BY <1>1, <1>4, TurnsOut
  <2>2. Head(fwd).for = Awaited /\ src.wait = "name"
    BY <1>1, <2>1 DEF Requested
  <2>3. CASE Refuse(Head(fwd))
    <3>1. snk'.at = "record" /\ rev' = SnkError(Awaited, rev)
      BY <1>0, <1>2, <2>2, <2>3 DEF Refuse, Answer, Sinks
    <3> QED BY <1>2, <2>1, <3>1, TurnsTold
  <2>4. CASE SinkDir /\ Answer([snk EXCEPT !.in = <<Head(fwd).item>> \o @], FALSE,
                               Ga(Head(fwd).for, rev))
    <3>1. snk'.at = "record" /\ rev' = Ga(Awaited, rev)
      BY <1>0, <1>2, <2>2, <2>4 DEF Answer, Sinks
    <3>2. Item.kind = "dir"
      BY <2>1, <2>4 DEF SinkDir, Requested
    <3> QED BY <1>2, <2>1, <3>1, <3>2, TurnsTold
  <2>5. CASE SinkFile /\ Answer([snk EXCEPT !.at = "data", !.item = Head(fwd).item,
                                            !.units = Head(fwd).size], FALSE, Ga(Head(fwd).for, rev))
    <3>1. snk'.at = "data" /\ snk'.item = Head(fwd).item /\ rev' = Ga(Awaited, rev)
      BY <1>0, <2>2, <2>5 DEF Answer, Sinks
    <3>2. Item.kind = "file" /\ Head(fwd).item = src.item
      BY <2>1, <2>5 DEF SinkFile, Requested
    <3>3. Awaited' = Awaited /\ Item' = Item
      BY <1>2, SameAwaited
    <3>4. Len(rev') = 1 /\ Head(rev').m = "ok" /\ Head(rev').for = Awaited
      BY <2>1, <3>1, Only
    <3> QED BY <1>2, <2>1, <2>2, <3>1, <3>2, <3>3, <3>4 DEF Told
  <2> QED BY <2>3, <2>4, <2>5 DEF SinkDir, SinkFile
<1> QED BY <1>2, <1>3, <1>4, TurnsSink

(* A unit is stored; the file is closed, which may fail before the verdict. *)
LEMMA TurnsUnits == TypeOK /\ Turns /\ (SinkData \/ SinkClose) => Turns'
<1> SUFFICES ASSUME TypeOK, Turns, SinkData \/ SinkClose PROVE Turns'
  OBVIOUS
<1>0. snk \in Sinks /\ fwd \in Seq(Records) /\ SnkRemote \in BOOLEAN
  BY CopyType DEF TypeOK
<1>1. UNCHANGED <<copy, src>> /\ snk.at = "data"
  BY DEF SinkData, SinkClose
<1>2. CASE SinkData
  <2>1. fwd # <<>> /\ fwd' = Tail(fwd) /\ rev' = rev
    BY <1>2 DEF SinkData
  <2>2. snk'.at = "data" /\ snk'.item = snk.item /\ snk'.doubled = snk.doubled
    BY <1>0, <1>1, <1>2 DEF SinkData, Sinks
  <2>3. ASSUME ~snk.doubled, ~Ended(src)
        PROVE  (AtStart \/ AtRecord \/ Told \/ AtData \/ Alone)'
    <3>1. AtData
      BY <1>1, <2>1, <2>3 DEF Turns, AtStart, AtRecord, Told, Alone, Ended
    <3>2. Sending'
      BY <1>0, <1>1, <2>1, <3>1, SendingTaken DEF AtData
    <3> QED BY <1>1, <2>1, <2>2, <3>1, <3>2 DEF AtData, Sent
  <2> QED BY <1>1, <2>2, <2>3, TurnsSink
<1>3. CASE SinkClose
  <2>1. snk'.at = "response" /\ snk'.item = snk.item /\ fwd' = fwd
    BY <1>0, <1>3 DEF SinkClose, Answer, Sinks
  <2>2. \/ snk'.doubled = snk.doubled /\ rev' = rev
        \/ snk'.doubled = SnkRemote /\ rev' = SnkError(<<snk.item, "data">>, rev)
    BY <1>0, <1>3 DEF SinkClose, Answer, Sinks
  <2>3. ASSUME ~snk'.doubled, ~snk.doubled, ~Ended(src)
        PROVE  (AtStart \/ AtRecord \/ Told \/ AtData \/ Alone)'
    <3>1. rev' = rev
      BY <2>2, <2>3 DEF SnkError
    <3>2. AtData \/ Told
      BY <1>1, <2>3 DEF Turns, AtStart, AtRecord, Alone, Ended
    <3>3. AtData => AtData'
      BY <1>1, <2>1, <3>1 DEF AtData, Sent, Sending
    <3>4. Told => Told'
      BY <1>1, <2>1, <3>1, SameAwaited DEF Told
    <3> QED BY <3>2, <3>3, <3>4
  <2> QED BY <1>0, <1>1, <2>2, <2>3, TurnsSink DEF Turns
<1> QED BY <1>2, <1>3

(* The verdicts on a file: the source's, and the sink's own in answer.      *)
LEMMA TurnsVerdict == TypeOK /\ Turns /\ SinkVerdict => Turns'
<1> SUFFICES ASSUME TypeOK, Turns, SinkVerdict PROVE Turns'
  OBVIOUS
<1>0. snk \in Sinks /\ fwd \in Seq(Records) /\ SnkRemote \in BOOLEAN
  BY CopyType DEF TypeOK
<1>1. UNCHANGED <<copy, src>> /\ snk.at = "response" /\ fwd # <<>> /\ fwd' = Tail(fwd)
  BY DEF SinkVerdict
<1> DEFINE for == <<snk.item, "data">>
           heard == [snk EXCEPT !.at = "record", !.errs = IF Head(fwd).m = "error" THEN @ + 1 ELSE @]
<1>2. heard \in Sinks /\ heard.at = "record" /\ heard.doubled = snk.doubled
  <2>1. \A n \in Nat : [snk EXCEPT !.at = "record", !.errs = n] \in Sinks
    BY <1>0, SinkUpdates
  <2>2. snk.errs \in Nat /\ snk.errs + 1 \in Nat
    BY <1>0, SinkUpdates
  <2>3. heard \in Sinks
    BY <2>1, <2>2
  <2> QED BY <1>0, <2>3 DEF Sinks
<1>3. \/ Answer(Exit(snk, 1), FALSE, rev) /\ Head(fwd).m \notin {"ok", "error"}
      \/ Head(fwd).m \in {"ok", "error"} /\ Answer(Written(heard), FALSE, Verdict(snk, for, rev))
      \/ /\ Head(fwd).m \in {"ok", "error"}
         /\ Answer([Written(heard) EXCEPT !.errs = @ + 1, !.doubled = SnkRemote], TRUE,
                   Verdict(snk, for, SnkError(for, rev)))
  BY DEF SinkVerdict
<1> HIDE DEF heard, for
<1>4. DOMAIN Written(heard) = DOMAIN heard
      /\ Written(heard).at = "record" /\ Written(heard).doubled = snk.doubled
  BY <1>2 DEF Written, Sinks
<1>5. \/ snk'.at = "exit" /\ snk'.doubled = snk.doubled /\ rev' = rev
      \/ /\ snk'.at = "record" /\ snk'.doubled = snk.doubled /\ rev' = Verdict(snk, for, rev)
         /\ Head(fwd).m \in {"ok", "error"}
      \/ /\ snk'.at = "record" /\ snk'.doubled = SnkRemote
         /\ rev' = Verdict(snk, for, SnkError(for, rev)) /\ Head(fwd).m \in {"ok", "error"}
  <2>1. CASE Answer(Exit(snk, 1), FALSE, rev)
    BY <1>0, <2>1 DEF Answer, Exit, Sinks
  <2>2. CASE Head(fwd).m \in {"ok", "error"} /\ Answer(Written(heard), FALSE, Verdict(snk, for, rev))
    BY <1>4, <2>2 DEF Answer
  <2>3. CASE /\ Head(fwd).m \in {"ok", "error"}
             /\ Answer([Written(heard) EXCEPT !.errs = @ + 1, !.doubled = SnkRemote], TRUE,
                       Verdict(snk, for, SnkError(for, rev)))
    BY <1>2, <1>4, <2>3 DEF Answer, Sinks
  <2> QED BY <1>3, <2>1, <2>2, <2>3
<1>6. ASSUME ~snk'.doubled, ~snk.doubled, ~Ended(src)
      PROVE  (AtStart \/ AtRecord \/ Told \/ AtData \/ Alone)'
  <2>1. AtData
    BY <1>1, <1>6 DEF Turns, AtStart, AtRecord, Told, Alone, Ended
  <2>2. rev = <<>>
    BY <2>1 DEF AtData
  <2>3. CASE snk'.at = "exit" /\ rev' = rev
    BY <2>2, <2>3 DEF Alone, Ended
  <2>4. CASE /\ snk'.at = "record" /\ Head(fwd).m \in {"ok", "error"}
             /\ \/ rev' = Verdict(snk, for, rev)
                \/ ~SnkRemote /\ rev' = Verdict(snk, for, SnkError(for, rev))
    <3>1. fwd' = <<>> /\ src.at = "response"
      BY <1>0, <1>1, <2>1, <2>4, SendingTaken DEF AtData
    <3>2. src.wait = "data" /\ for = Awaited
      BY <2>1, <3>1 DEF AtData, Sent, Awaited, Request, for
    <3>3. rev' = Ga(Awaited, rev) \/ rev' = SnkError(Awaited, rev)
      <4>1. ~SnkRemote => SnkError(for, rev) = rev
        BY DEF SnkError
      <4> QED BY <2>4, <3>2, <4>1 DEF Verdict
    <3> QED BY <1>1, <2>2, <2>4, <3>1, <3>2, <3>3, TurnsTold
  <2> QED BY <1>5, <1>6, <2>3, <2>4
<1> QED BY <1>0, <1>1, <1>5, <1>6, TurnsSink DEF Turns

(* Who has died is no longer at turn.                                       *)
LEMMA TurnsDies == TypeOK /\ Turns /\ Dies => Turns'
<1> SUFFICES ASSUME TypeOK, Turns, Dies PROVE Turns'
  OBVIOUS
<1>0. src \in Sources /\ snk \in Sinks
  BY DEF TypeOK
<1>1. UNCHANGED <<copy, fwd, rev>>
  BY DEF Dies
<1>2. CASE UNCHANGED snk /\ src' = [src EXCEPT !.at = "dead"]
  <2>1. src'.at = "dead"
    BY <1>0, <1>2 DEF Sources
  <2> QED BY <1>1, <1>2, <2>1 DEF Turns, Ended, SnkRemote
<1>3. CASE UNCHANGED src /\ snk' = [snk EXCEPT !.at = "dead"] /\ ~Ended(snk)
  <2>1. snk'.at = "dead" /\ snk'.doubled = snk.doubled
    BY <1>0, <1>3 DEF Sinks
  <2>2. Awaited' = Awaited
    BY <1>1, <1>3, SameAwaited
  <2>3. ASSUME ~snk.doubled, ~Ended(src) PROVE Alone'
    <3>1. AtStart \/ AtRecord \/ Told \/ AtData
      BY <1>3, <2>3 DEF Turns, Alone
    <3> QED BY <1>1, <1>3, <2>1, <2>2, <3>1 DEF AtStart, AtRecord, Told, AtData, Alone, Ended
  <2> QED BY <1>1, <1>3, <2>1, <2>3, TurnsSink
<1> QED BY <1>2, <1>3 DEF Dies

(* Each step leaves one of the two at turn.                                 *)
LEMMA TurnsStep == TypeOK /\ Turns /\ [Next]_vars => Turns'
<1> SUFFICES ASSUME TypeOK, Turns, [Next]_vars PROVE Turns'
  OBVIOUS
<1>1. CASE Next
  BY <1>1, TurnsResponse, TurnsOpen, TurnsAnnounce, TurnsData, TurnsSourceEnd, TurnsStart, TurnsEof,
     TurnsEnd, TurnsOther, TurnsName, TurnsUnits, TurnsVerdict, TurnsDies
     DEF Next, SourceStep, SinkStep
<1>2. CASE UNCHANGED vars
  BY <1>2 DEF vars, Turns, AtStart, AtRecord, Told, AtData, Alone, Ended, Asking, Sending, Sent,
     Requested, Last, Awaited, Request, Item, SnkRemote
<1> QED BY <1>1, <1>2

(* The source of every copy, in either direction, takes each answer for the *)
(* request it was given for, whatever fails on either host and whoever      *)
(* dies, until the sink has given two answers to one request.               *)
THEOREM InStepHolds == Spec => []InStep
<1>1. Spec => [](TypeOK /\ Turns)
  BY TypeInit, TypeStep, TurnsInit, TurnsStep, PTL DEF Spec
<1> QED BY <1>1, TurnsInStep, PTL
----------------------------------------------------------------------------
(* What each step of the source does, part by part.                         *)
LEMMA ResponseDoes ==
  ASSUME TypeOK, Response
  PROVE  /\ UNCHANGED <<copy, snk, fwd, stored>> /\ src.at = "response" /\ src'.shrunk = src.shrunk
         /\ \/ /\ rev = <<>> /\ Ended(snk) /\ rev' = rev
               /\ src'.at = "exit" /\ src'.errs = src.errs + 1
            \/ /\ rev # <<>> /\ rev' = Tail(rev) /\ Head(rev).m # "ok"
               /\ src'.at \in {"exit", "next"} /\ src'.errs = src.errs + 1
            \/ /\ rev # <<>> /\ rev' = Tail(rev) /\ Head(rev).m = "ok" /\ src'.errs = src.errs
               /\ \/ src.wait = "times" /\ src'.at = "announce" /\ src'.item = src.item
                  \/ /\ src.wait = "name" /\ Item.kind = "file" /\ src'.at = "data"
                     /\ src'.item = src.item /\ src'.units = Item.size
                  \/ src.wait = "greeting" /\ src'.at = "next" /\ src'.item = src.item
                  \/ /\ src.wait \in {"end", "data"} \/ (src.wait = "name" /\ Item.kind = "dir")
                     /\ src'.at = "next" /\ src'.item = src.item + 1
<1>0. src \in Sources /\ rev \in Seq(Answers) /\ Placed
  BY DEF TypeOK
<1>1. UNCHANGED <<copy, snk, fwd, stored>> /\ src.at = "response"
  BY DEF Response
<1>2. CASE rev = <<>>
  <2>1. Ended(snk) /\ rev' = rev /\ src' = [src EXCEPT !.at = "exit", !.errs = src.errs + 1]
    BY <1>2 DEF Response, Exit
  <2> QED BY <1>0, <1>1, <1>2, <2>1 DEF Sources
<1>3. CASE rev # <<>> /\ Head(rev).m = "ok"
  <2>1. rev' = Tail(rev) /\ src' = Yes(src)
    BY <1>3 DEF Response
  <2>2. src.wait \in Waits
    BY <1>0 DEF Sources
  <2>3. CASE src.wait = "times"
    <3>1. src' = [src EXCEPT !.at = "announce"]
      BY <2>1, <2>3 DEF Yes
    <3> QED BY <1>0, <1>1, <1>3, <2>1, <2>3, <3>1 DEF Sources
  <2>4. CASE src.wait = "name" /\ Item.kind = "file"
    <3>1. src' = [src EXCEPT !.at = "data", !.units = Item.size]
      BY <2>1, <2>4 DEF Yes
    <3> QED BY <1>0, <1>1, <1>3, <2>1, <2>4, <3>1 DEF Sources
  <2>5. CASE src.wait = "greeting"
    <3>1. src' = [src EXCEPT !.at = "next"]
      BY <2>1, <2>5 DEF Yes
    <3> QED BY <1>0, <1>1, <1>3, <2>1, <2>5, <3>1 DEF Sources
  <2>6. CASE src.wait \in {"end", "data"} \/ (src.wait = "name" /\ Item.kind = "dir")
    <3>1. src' = [src EXCEPT !.at = "next", !.item = src.item + 1]
      BY <2>1, <2>6 DEF Yes
    <3> QED BY <1>0, <1>1, <1>3, <2>1, <2>6, <3>1 DEF Sources
  <2>7. src.wait = "name" => Item.kind \in {"file", "dir"}
    BY <1>0, <1>1 DEF Placed, Announced
  <2> QED BY <2>2, <2>3, <2>4, <2>5, <2>6, <2>7 DEF Waits
<1>4. CASE rev # <<>> /\ Head(rev).m # "ok"
  <2> DEFINE c == [src EXCEPT !.errs = src.errs + 1]
  <2>1. rev' = Tail(rev) /\ src' = No(c)
    BY <1>4 DEF Response, Counted
  <2>2. c \in Sources /\ c.errs = src.errs + 1 /\ c.shrunk = src.shrunk
    <3>1. src.errs + 1 \in Nat /\ \A n \in Nat : [src EXCEPT !.errs = n] \in Sources
      BY <1>0, SourceUpdates
    <3> QED BY <1>0, <3>1 DEF Sources
  <2> HIDE DEF c
  <2>3. \/ src' = [c EXCEPT !.at = "exit", !.errs = c.errs + 0]
        \/ src' = [c EXCEPT !.at = "next"]
        \/ \E n : src' = [c EXCEPT !.at = "next", !.item = n]
    BY <2>1 DEF No, Exit
  <2>4. /\ src'.at \in {"exit", "next"} /\ src'.shrunk = c.shrunk
        /\ src'.errs = c.errs \/ src'.errs = c.errs + 0
    BY <2>2, <2>3 DEF Sources
  <2>5. c.errs + 0 = c.errs
    BY <2>2 DEF Sources
  <2> QED BY <1>1, <1>4, <2>1, <2>2, <2>4, <2>5
<1> QED BY <1>2, <1>3, <1>4

(* Asking, part by part.                                                    *)
LEMMA AskDoes ==
  ASSUME NEW s \in Sources, NEW w \in Waits, NEW t \in Ask(s, w)
  PROVE  /\ t.item = s.item /\ t.shrunk = s.shrunk
         /\ \/ t.at = "response" /\ t.wait = w /\ t.errs = s.errs
            \/ Ended(snk) /\ t.at = "exit" /\ t.errs = s.errs + 1
<1>1. \/ t = [s EXCEPT !.at = "response", !.wait = w]
      \/ Ended(snk) /\ t = [s EXCEPT !.at = "exit", !.errs = s.errs + 1]
  BY DEF Ask, Exit
<1> QED BY <1>1 DEF Sources

(* The same for the next item.                                              *)
LEMMA OpenDoes ==
  ASSUME TypeOK, Open
  PROVE  /\ UNCHANGED <<copy, snk, rev, stored>> /\ src.at = "next"
         /\ src.item \in DOMAIN copy.items /\ src'.shrunk = src.shrunk
         /\ \/ /\ src'.at = "announce" /\ src'.item = src.item /\ src'.errs = src.errs
               /\ fwd' = fwd
            \/ /\ src'.at = "response" /\ src'.wait = "times" /\ src'.item = src.item
               /\ src'.errs = src.errs
               /\ fwd' = Send([m |-> "T", for |-> Request("times")], fwd)
            \/ /\ Item.kind = "end"
               /\ src'.at = "response" /\ src'.wait = "end" /\ src'.item = src.item
               /\ src'.errs = src.errs
               /\ fwd' = Send([m |-> "E", for |-> Request("end")], fwd)
            \/ /\ Item.kind # "end" /\ src'.at = "next" /\ src'.item = After(src.item)
               /\ src'.errs = src.errs + 1 /\ fwd' = SrcError(Request("open"), fwd)
            \/ Ended(snk) /\ src'.at = "exit" /\ src'.errs = src.errs + 1 /\ fwd' = fwd
<1>0. src \in Sources /\ copy \in Copies
  BY DEF TypeOK
<1>1. /\ UNCHANGED <<copy, snk, rev, stored>> /\ src.at = "next" /\ src.item <= Len(copy.items)
  BY DEF Open
<1>2. src.item \in DOMAIN copy.items
  <2>1. src.item \in Nat \ {0}
    BY <1>0 DEF Sources
  <2>2. Len(copy.items) \in Nat /\ DOMAIN copy.items = 1 .. Len(copy.items)
    BY <1>0, CopyType
  <2> QED BY <1>1, <2>1, <2>2
<1>3. CASE src' = [src EXCEPT !.at = "announce"] /\ UNCHANGED fwd
  BY <1>0, <1>1, <1>2, <1>3 DEF Sources
<1>4. CASE src' \in Ask(src, "times") /\ fwd' = Send([m |-> "T", for |-> Request("times")], fwd)
  <2>1. /\ src'.item = src.item /\ src'.shrunk = src.shrunk
        /\ \/ src'.at = "response" /\ src'.wait = "times" /\ src'.errs = src.errs
           \/ Ended(snk) /\ src'.at = "exit" /\ src'.errs = src.errs + 1
    BY <1>0, <1>4, AskDoes DEF Waits
  <2>2. Ended(snk) => fwd' = fwd
    BY <1>4 DEF Send
  <2> QED BY <1>1, <1>2, <1>4, <2>1, <2>2
<1>5. CASE /\ Item.kind # "end" /\ src' = [src EXCEPT !.errs = src.errs + 1, !.item = After(src.item)]
           /\ fwd' = SrcError(Request("open"), fwd)
  BY <1>0, <1>1, <1>2, <1>5 DEF Sources
<1>6. CASE /\ Item.kind = "end" /\ src' \in Ask(src, "end")
           /\ fwd' = Send([m |-> "E", for |-> Request("end")], fwd)
  <2>1. /\ src'.item = src.item /\ src'.shrunk = src.shrunk
        /\ \/ src'.at = "response" /\ src'.wait = "end" /\ src'.errs = src.errs
           \/ Ended(snk) /\ src'.at = "exit" /\ src'.errs = src.errs + 1
    BY <1>0, <1>6, AskDoes DEF Waits
  <2>2. Ended(snk) => fwd' = fwd
    BY <1>6 DEF Send
  <2> QED BY <1>1, <1>2, <1>6, <2>1, <2>2
<1> QED BY <1>3, <1>4, <1>5, <1>6 DEF Open

(* And for a name.                                                          *)
LEMMA AnnounceDoes ==
  ASSUME TypeOK, Announce
  PROVE  /\ UNCHANGED <<copy, snk, rev, stored>> /\ src.at = "announce"
         /\ src'.item = src.item /\ src'.shrunk = src.shrunk
         /\ \/ /\ src'.at = "response" /\ src'.wait = "name" /\ src'.errs = src.errs
               /\ \E r : r.m \in {"C", "D"} /\ fwd' = Send(r, fwd)
            \/ Ended(snk) /\ src'.at = "exit" /\ src'.errs = src.errs + 1 /\ fwd' = fwd
<1>0. src \in Sources
  BY DEF TypeOK
<1>1. UNCHANGED <<copy, snk, rev, stored>> /\ src.at = "announce"
  BY DEF Announce
<1>2. /\ src'.item = src.item /\ src'.shrunk = src.shrunk
      /\ \/ src'.at = "response" /\ src'.wait = "name" /\ src'.errs = src.errs
         \/ Ended(snk) /\ src'.at = "exit" /\ src'.errs = src.errs + 1
  <2>1. src' \in Ask(src, "name")
    BY DEF Announce
  <2> QED BY <1>0, <2>1, AskDoes DEF Waits
<1> DEFINE r == [m |-> IF Item.kind = "dir" THEN "D" ELSE "C", for |-> Request("name"),
                 item |-> src.item, size |-> Item.size]
<1>3. fwd' = Send(r, fwd) /\ r.m \in {"C", "D"}
  BY DEF Announce
<1> HIDE DEF r
<1>4. Ended(snk) => fwd' = fwd
  BY <1>3 DEF Send
<1> QED BY <1>1, <1>2, <1>3, <1>4

(* A unit; what is sent is not good once a read has failed.                 *)
LEMMA DataDoes ==
  ASSUME TypeOK, Data
  PROVE  /\ UNCHANGED <<copy, snk, rev, stored>> /\ src.at = "data" /\ src'.at = "data"
         /\ src'.item = src.item /\ src'.units = src.units - 1 /\ src'.errs = src.errs
         /\ src'.shrunk = src.shrunk
         /\ src.reads # "good" => src'.reads # "good"
         /\ \E r : /\ r.m = "data" /\ r.item = src.item /\ (r.good \/ src'.reads # "good")
                   /\ fwd' = Send(r, fwd)
<1>0. src \in Sources
  BY DEF TypeOK
<1>1. UNCHANGED <<copy, snk, rev, stored>> /\ src.at = "data"
  BY DEF Data
<1> DEFINE r(g) == [m |-> "data", item |-> src.item, good |-> g]
<1>2. CASE /\ src' = [src EXCEPT !.units = src.units - 1]
           /\ fwd' = Send(r(src.reads = "good"), fwd)
  <2>1. src'.reads = src.reads
    BY <1>0, <1>2 DEF Sources
  <2>2. LET x == r(src.reads = "good")
        IN x.m = "data" /\ x.item = src.item /\ (x.good \/ src'.reads # "good")
    BY <2>1
  <2> HIDE DEF r
  <2>3. \E x : /\ x.m = "data" /\ x.item = src.item /\ (x.good \/ src'.reads # "good")
               /\ fwd' = Send(x, fwd)
    BY <1>2, <2>2
  <2> QED BY <1>0, <1>1, <1>2, <2>1, <2>3 DEF Sources
<1>3. CASE /\ \E how \in {"error", "short"} :
                src' = [src EXCEPT !.units = src.units - 1, !.reads = how]
           /\ fwd' = Send(r(FALSE), fwd)
  <2>1. src'.reads # "good"
    BY <1>0, <1>3 DEF Sources
  <2>2. LET x == r(FALSE) IN x.m = "data" /\ x.item = src.item
    OBVIOUS
  <2> HIDE DEF r
  <2>3. \E x : /\ x.m = "data" /\ x.item = src.item /\ (x.good \/ src'.reads # "good")
               /\ fwd' = Send(x, fwd)
    BY <1>3, <2>1, <2>2
  <2> QED BY <1>0, <1>1, <1>3, <2>1, <2>3 DEF Sources
<1> QED BY <1>2, <1>3 DEF Data

(* The end of a file: an error is counted and told, a shorter file is not.  *)
LEMMA DataEndDoes ==
  ASSUME TypeOK, DataEnd
  PROVE  /\ UNCHANGED <<copy, snk, rev, stored>> /\ src.at = "data" /\ src.units = 0
         /\ src'.item = src.item /\ (src.shrunk => src'.shrunk)
         /\ \/ Ended(snk) /\ src'.at = "exit" /\ src'.errs > 0
            \/ src'.at = "response" /\ src'.wait = "data"
         /\ \/ /\ src.reads = "error" /\ src'.errs > 0
               /\ fwd' = SrcError(Request("data"), fwd)
            \/ /\ src.reads # "error" /\ src'.errs >= src.errs
               /\ src'.shrunk = (src.shrunk \/ src.reads = "short")
               /\ fwd' = Send([m |-> "ok", for |-> Request("data")], fwd)
<1>0. src \in Sources
  BY DEF TypeOK
<1>1. UNCHANGED <<copy, snk, rev, stored>> /\ src.at = "data" /\ src.units = 0
  BY DEF DataEnd
<1>2. CASE src.reads = "error"
  <2> DEFINE s == [src EXCEPT !.errs = src.errs + 1, !.reads = "good", !.silent = ~SrcRemote]
  <2>1. src' \in Ask(s, "data") /\ fwd' = SrcError(Request("data"), fwd)
    BY <1>2 DEF DataEnd
  <2>2. s \in Sources
    BY <1>0, SourceUpdates
  <2>3. s.item = src.item /\ s.shrunk = src.shrunk /\ s.errs > 0
    BY <1>0 DEF Sources
  <2> HIDE DEF s
  <2>4. /\ src'.item = s.item /\ src'.shrunk = s.shrunk
        /\ \/ src'.at = "response" /\ src'.wait = "data" /\ src'.errs = s.errs
           \/ Ended(snk) /\ src'.at = "exit" /\ src'.errs = s.errs + 1
    BY <2>1, <2>2, AskDoes DEF Waits
  <2>5. s.errs \in Nat
    BY <2>2 DEF Sources
  <2> QED BY <1>1, <1>2, <2>1, <2>3, <2>4, <2>5
<1>3. CASE src.reads # "error"
  <2> DEFINE s == [src EXCEPT !.reads = "good", !.shrunk = src.shrunk \/ src.reads = "short"]
  <2>1. src' \in Ask(s, "data") /\ fwd' = Send([m |-> "ok", for |-> Request("data")], fwd)
    BY <1>3 DEF DataEnd, Ga, Send
  <2>2. s \in Sources
    BY <1>0, SourceUpdates
  <2>3. s.item = src.item /\ s.shrunk = (src.shrunk \/ src.reads = "short") /\ s.errs = src.errs
    BY <1>0 DEF Sources
  <2> HIDE DEF s
  <2>4. /\ src'.item = s.item /\ src'.shrunk = s.shrunk
        /\ \/ src'.at = "response" /\ src'.wait = "data" /\ src'.errs = s.errs
           \/ Ended(snk) /\ src'.at = "exit" /\ src'.errs = s.errs + 1
    BY <2>1, <2>2, AskDoes DEF Waits
  <2>5. s.errs \in Nat
    BY <2>2 DEF Sources
  <2>6. src'.errs \in Nat /\ src'.errs >= src.errs /\ (src'.at = "exit" => src'.errs > 0)
    BY <2>3, <2>4, <2>5
  <2>7. src'.item = src.item /\ src'.shrunk = (src.shrunk \/ src.reads = "short")
    BY <2>3, <2>4
  <2>8. \/ Ended(snk) /\ src'.at = "exit" /\ src'.errs > 0
        \/ src'.at = "response" /\ src'.wait = "data"
    BY <2>4, <2>6
  <2> QED BY <1>1, <1>3, <2>1, <2>6, <2>7, <2>8
<1> QED BY <1>2, <1>3

(* The end of the source, after the last item.                              *)
LEMMA SourceEndDoes ==
  ASSUME TypeOK, SourceEnd
  PROVE  /\ UNCHANGED <<copy, snk, fwd, rev, stored>> /\ src.at = "next"
         /\ src.item > Len(copy.items) /\ src'.at = "exit" /\ src'.item = src.item
         /\ src'.errs = src.errs /\ src'.shrunk = src.shrunk
<1>0. src \in Sources
  BY DEF TypeOK
<1>1. src' = [src EXCEPT !.at = "exit", !.errs = src.errs + 0]
  BY DEF SourceEnd, Exit
<1>2. src.errs + 0 = src.errs
  BY <1>0 DEF Sources
<1> QED BY <1>0, <1>1, <1>2 DEF SourceEnd, Sources

(* The steps of the sink in the same way.  It begins, or fails to.          *)
LEMMA StartDoes ==
  ASSUME TypeOK, Start
  PROVE  /\ UNCHANGED <<copy, src, fwd, stored>> /\ snk.at = "start"
         /\ snk'.doubled = snk.doubled /\ snk'.in = snk.in
         /\ \/ snk'.at = "record" /\ snk'.errs = snk.errs /\ rev' = Ga(<<0, "greeting">>, rev)
            \/ /\ snk'.at = "exit" /\ snk'.errs = snk.errs + 1
               /\ rev' = SnkError(<<0, "greeting">>, rev)
<1>0. snk \in Sinks
  BY DEF TypeOK
<1> QED BY <1>0 DEF Start, Answer, Exit, Sinks

(* It leaves the directory it is in, or ends for want of one.               *)
LEMMA LeaveDoes ==
  ASSUME snk \in Sinks
  PROVE  /\ Leave(snk).errs = snk.errs
         /\ \/ snk.in = <<>> /\ Leave(snk).at = "exit"
            \/ snk.in # <<>> /\ Leave(snk).at = snk.at /\ Leave(snk).in = Tail(snk.in)
<1>1. snk.errs + 0 = snk.errs
  BY DEF Sinks
<1> QED BY <1>1 DEF Leave, Exit, Sinks

(* That is what it does at the end of the connection,                       *)
LEMMA SinkEofDoes ==
  ASSUME TypeOK, SinkEof
  PROVE  /\ UNCHANGED <<copy, src, fwd, rev, stored>> /\ snk.at = "record" /\ fwd = <<>>
         /\ Ended(src) /\ snk'.errs = snk.errs /\ snk'.doubled = snk.doubled
         /\ \/ snk.in = <<>> /\ snk'.at = "exit" /\ snk'.cut = (src.at = "dead")
            \/ snk.in # <<>> /\ snk'.at = "record" /\ snk'.in = Tail(snk.in)
<1>0. snk \in Sinks
  BY DEF TypeOK
<1>1. UNCHANGED <<copy, src, fwd, rev, stored>> /\ snk.at = "record" /\ fwd = <<>> /\ Ended(src)
  BY DEF SinkEof
<1>2. Leave(snk) \in Sinks /\ Leave(snk).doubled = snk.doubled
  BY <1>0, LeaveType
<1>3. snk' = [Leave(snk) EXCEPT !.cut = src.at = "dead"]
  BY DEF SinkEof
<1>4. /\ snk'.at = Leave(snk).at /\ snk'.in = Leave(snk).in /\ snk'.errs = Leave(snk).errs
      /\ snk'.doubled = Leave(snk).doubled /\ snk'.cut = (src.at = "dead")
  BY <1>2, <1>3 DEF Sinks
<1> QED BY <1>0, <1>1, <1>2, <1>4, LeaveDoes

(* and at the end of a directory; its times may fail it.                    *)
LEMMA SinkEndDoes ==
  ASSUME TypeOK, SinkEnd
  PROVE  /\ UNCHANGED <<copy, src, stored>> /\ Out /\ snk.at = "record" /\ Head(fwd).m = "E"
         /\ \/ snk.in = <<>> /\ snk'.at = "exit"
            \/ snk.in # <<>> /\ snk'.at = "record" /\ snk'.in = Tail(snk.in)
         /\ \/ /\ snk'.errs = snk.errs /\ snk'.doubled = snk.doubled
               /\ rev' = Ga(Head(fwd).for, rev)
            \/ /\ snk'.errs = snk.errs + 1 /\ snk'.doubled = SnkRemote
               /\ rev' = SnkError(Head(fwd).for, Ga(Head(fwd).for, rev))
<1>0. snk \in Sinks
  BY DEF TypeOK
<1>1. UNCHANGED <<copy, src, stored>> /\ Out /\ snk.at = "record" /\ Head(fwd).m = "E"
  BY DEF SinkEnd, Out
<1>2. Leave(snk) \in Sinks /\ Leave(snk).doubled = snk.doubled /\ Leave(snk).errs = snk.errs
  BY <1>0, LeaveType
<1>3. \/ snk.in = <<>> /\ Leave(snk).at = "exit"
      \/ snk.in # <<>> /\ Leave(snk).at = "record" /\ Leave(snk).in = Tail(snk.in)
  BY <1>0, <1>1, LeaveDoes
<1>4. CASE Answer(Leave(snk), FALSE, Ga(Head(fwd).for, rev))
  BY <1>1, <1>2, <1>3, <1>4 DEF Answer
<1>5. CASE Answer([Leave(snk) EXCEPT !.errs = @ + 1, !.doubled = SnkRemote], TRUE,
                  SnkError(Head(fwd).for, Ga(Head(fwd).for, rev)))
  <2>1. /\ snk'.at = Leave(snk).at /\ snk'.in = Leave(snk).in
        /\ snk'.errs = Leave(snk).errs + 1 /\ snk'.doubled = SnkRemote
        /\ rev' = SnkError(Head(fwd).for, Ga(Head(fwd).for, rev))
    BY <1>2, <1>5 DEF Answer, Sinks
  <2> QED BY <1>1, <1>2, <1>3, <2>1
<1> QED BY <1>4, <1>5 DEF SinkEnd

(* Times, errors, and what is out of place, change nothing that is stored.  *)
LEMMA SinkOtherDoes ==
  ASSUME TypeOK, SinkTimes \/ SinkError \/ SinkScrewup
  PROVE  /\ UNCHANGED <<copy, src, stored>> /\ Out /\ snk.at = "record"
         /\ snk'.doubled = snk.doubled /\ snk'.in = snk.in
         /\ \/ /\ Head(fwd).m = "T" /\ snk' = snk /\ rev' = Ga(Head(fwd).for, rev)
            \/ /\ Head(fwd).m = "error" /\ snk'.at = "record" /\ snk'.errs = snk.errs + 1
               /\ rev' = rev
            \/ /\ Head(fwd).m \in {"data", "ok"} /\ snk'.at = "exit" /\ snk'.errs = snk.errs + 1
               /\ rev' = SnkError(<<0, "screwup">>, rev)
<1>0. snk \in Sinks
  BY DEF TypeOK
<1>1. UNCHANGED <<copy, src, stored>> /\ Out /\ snk.at = "record"
  BY DEF SinkTimes, SinkError, SinkScrewup, Out
<1>2. CASE SinkTimes
  BY <1>1, <1>2 DEF SinkTimes, Answer
<1>3. CASE SinkError
  BY <1>0, <1>1, <1>3 DEF SinkError, Answer, Sinks
<1>4. CASE SinkScrewup
  BY <1>0, <1>1, <1>4 DEF SinkScrewup, Answer, Exit, Sinks
<1> QED BY <1>2, <1>3, <1>4

(* A name is refused, or its item is there from now on.                     *)
LEMMA SinkNameDoes ==
  ASSUME TypeOK, SinkDir \/ SinkFile
  PROVE  /\ UNCHANGED <<copy, src>> /\ Out /\ snk.at = "record" /\ Head(fwd).m \in {"C", "D"}
         /\ snk'.doubled = snk.doubled
         /\ \/ /\ snk'.at = "record" /\ snk'.errs = snk.errs + 1 /\ snk'.in = snk.in
               /\ stored' = stored /\ rev' = SnkError(Head(fwd).for, rev)
            \/ /\ Head(fwd).m = "D" /\ snk'.at = "record" /\ snk'.errs = snk.errs
               /\ snk'.in = <<Head(fwd).item>> \o snk.in
               /\ stored' = [stored EXCEPT ![Head(fwd).item] = "whole"]
               /\ rev' = Ga(Head(fwd).for, rev)
            \/ /\ Head(fwd).m = "C" /\ snk'.at = "data" /\ snk'.errs = snk.errs
               /\ snk'.in = snk.in /\ snk'.item = Head(fwd).item /\ snk'.units = Head(fwd).size
               /\ stored' = [stored EXCEPT ![Head(fwd).item] = "whole"]
               /\ rev' = Ga(Head(fwd).for, rev)
<1>0. snk \in Sinks
  BY DEF TypeOK
<1>1. UNCHANGED <<copy, src>> /\ Out /\ snk.at = "record" /\ Head(fwd).m \in {"C", "D"}
  BY DEF SinkDir, SinkFile, Out
<1>2. CASE Refuse(Head(fwd)) /\ UNCHANGED stored
  BY <1>0, <1>1, <1>2 DEF Refuse, Answer, Sinks
<1>3. CASE /\ SinkDir /\ stored' = [stored EXCEPT ![Head(fwd).item] = "whole"]
           /\ Answer([snk EXCEPT !.in = <<Head(fwd).item>> \o @], FALSE, Ga(Head(fwd).for, rev))
  <2>1. Head(fwd).m = "D"
    BY <1>3 DEF SinkDir
  <2> QED BY <1>0, <1>1, <1>3, <2>1 DEF Answer, Sinks
<1>4. CASE /\ SinkFile /\ stored' = [stored EXCEPT ![Head(fwd).item] = "whole"]
           /\ Answer([snk EXCEPT !.at = "data", !.item = Head(fwd).item, !.units = Head(fwd).size],
                     FALSE, Ga(Head(fwd).for, rev))
  <2>1. Head(fwd).m = "C"
    BY <1>4 DEF SinkFile
  <2> QED BY <1>0, <1>1, <1>4, <2>1 DEF Answer, Sinks
<1> QED BY <1>2, <1>3, <1>4 DEF SinkDir, SinkFile

(* A unit goes to the file, or the file is bad.                             *)
LEMMA SinkDataDoes ==
  ASSUME TypeOK, SinkData
  PROVE  /\ UNCHANGED <<copy, src, rev>> /\ snk.at = "data" /\ snk.units > 0
         /\ fwd # <<>> /\ fwd' = Tail(fwd)
         /\ snk'.at = "data" /\ snk'.item = snk.item /\ snk'.units = snk.units - 1
         /\ snk'.errs = snk.errs /\ snk'.doubled = snk.doubled /\ snk'.in = snk.in
         /\ \/ /\ Head(fwd).m = "data" /\ Head(fwd).item = snk.item /\ Head(fwd).good
               /\ stored' = stored /\ snk'.wrerr = snk.wrerr
            \/ /\ stored' = [stored EXCEPT ![snk.item] = "bad"]
               /\ snk'.wrerr \/ ~(Head(fwd).m = "data" /\ Head(fwd).item = snk.item /\ Head(fwd).good)
<1>0. snk \in Sinks /\ stored \in [DOMAIN copy.items -> {"none", "whole", "bad"}]
  BY DEF TypeOK
<1>1. /\ UNCHANGED <<copy, src, rev>> /\ snk.at = "data" /\ snk.units > 0
      /\ fwd # <<>> /\ fwd' = Tail(fwd)
  BY DEF SinkData
<1> DEFINE fits == Head(fwd).m = "data" /\ Head(fwd).item = snk.item /\ Head(fwd).good
<1>2. \E e \in BOOLEAN :
        /\ snk' = [snk EXCEPT !.units = snk.units - 1, !.wrerr = snk.wrerr \/ e]
        /\ stored' = [stored EXCEPT ![snk.item] = IF ~e /\ fits THEN stored[snk.item] ELSE "bad"]
  BY DEF SinkData
<1> HIDE DEF fits
<1>3. PICK e \in BOOLEAN :
        /\ snk' = [snk EXCEPT !.units = snk.units - 1, !.wrerr = snk.wrerr \/ e]
        /\ stored' = [stored EXCEPT ![snk.item] = IF ~e /\ fits THEN stored[snk.item] ELSE "bad"]
  BY <1>2
<1>4. /\ snk'.at = "data" /\ snk'.item = snk.item /\ snk'.units = snk.units - 1
      /\ snk'.errs = snk.errs /\ snk'.doubled = snk.doubled /\ snk'.in = snk.in
      /\ snk'.wrerr = (snk.wrerr \/ e)
  BY <1>0, <1>1, <1>3 DEF Sinks
<1>5. snk.wrerr \in BOOLEAN
  BY <1>0 DEF Sinks
<1>6. CASE ~e /\ fits
  <2>1. stored' = stored
    BY <1>0, <1>3, <1>6
  <2> QED BY <1>1, <1>4, <1>5, <1>6, <2>1 DEF fits
<1>7. CASE ~(~e /\ fits)
  <2>1. stored' = [stored EXCEPT ![snk.item] = "bad"]
    BY <1>3, <1>7
  <2> QED BY <1>1, <1>4, <1>5, <1>7, <2>1 DEF fits
<1> QED BY <1>6, <1>7

(* The connection ends within a file, which is an error.                    *)
LEMMA SinkCutDoes ==
  ASSUME TypeOK, SinkCut
  PROVE  /\ UNCHANGED <<copy, src, fwd>> /\ snk.at \in {"data", "response"} /\ Ended(src)
         /\ snk'.at = "exit" /\ snk'.errs = snk.errs + 1 /\ snk'.doubled = snk.doubled
         /\ rev' = rev \/ rev' = SnkError(<<0, "cut">>, rev)
<1>0. snk \in Sinks
  BY DEF TypeOK
<1> QED BY <1>0 DEF SinkCut, Exit, Sinks

(* The file is closed.                                                      *)
LEMMA SinkCloseDoes ==
  ASSUME TypeOK, SinkClose
  PROVE  /\ UNCHANGED <<copy, src, fwd>> /\ snk.at = "data" /\ snk.units = 0
         /\ snk'.at = "response" /\ snk'.item = snk.item /\ snk'.units = snk.units
         /\ snk'.wrerr = snk.wrerr /\ snk'.in = snk.in
         /\ \/ /\ snk'.errs = snk.errs /\ snk'.doubled = snk.doubled
               /\ stored' = stored /\ rev' = rev
            \/ /\ snk'.errs = snk.errs + 1 /\ snk'.doubled = SnkRemote
               /\ rev' = SnkError(<<snk.item, "data">>, rev)
<1>0. snk \in Sinks
  BY DEF TypeOK
<1> QED BY <1>0 DEF SinkClose, Answer, Sinks

(* The verdicts: whoever hears of an error or has had one counts it.        *)
LEMMA SinkVerdictDoes ==
  ASSUME TypeOK, SinkVerdict
  PROVE  /\ UNCHANGED <<copy, src, stored>> /\ snk.at = "response"
         /\ fwd # <<>> /\ fwd' = Tail(fwd)
         /\ \/ /\ snk'.at = "exit" /\ snk'.errs = snk.errs + 1 /\ snk'.doubled = snk.doubled
               /\ rev' = rev
            \/ /\ Head(fwd).m \in {"ok", "error"} /\ snk'.at = "record" /\ snk'.in = snk.in
               /\ snk'.errs >= snk.errs
               /\ Head(fwd).m = "error" \/ snk.wrerr => snk'.errs > snk.errs
               /\ \/ snk'.doubled = snk.doubled /\ rev' = Verdict(snk, <<snk.item, "data">>, rev)
                  \/ /\ snk'.doubled = SnkRemote /\ snk'.errs > snk.errs
                     /\ rev' = Verdict(snk, <<snk.item, "data">>,
                                       SnkError(<<snk.item, "data">>, rev))
<1>0. snk \in Sinks
  BY DEF TypeOK
<1>1. UNCHANGED <<copy, src, stored>> /\ snk.at = "response" /\ fwd # <<>> /\ fwd' = Tail(fwd)
  BY DEF SinkVerdict
<1> DEFINE for == <<snk.item, "data">>
           heard == [snk EXCEPT !.at = "record", !.errs = IF Head(fwd).m = "error" THEN @ + 1 ELSE @]
<1>2. \/ Answer(Exit(snk, 1), FALSE, rev)
      \/ Head(fwd).m \in {"ok", "error"} /\ Answer(Written(heard), FALSE, Verdict(snk, for, rev))
      \/ /\ Head(fwd).m \in {"ok", "error"}
         /\ Answer([Written(heard) EXCEPT !.errs = @ + 1, !.doubled = SnkRemote], TRUE,
                   Verdict(snk, for, SnkError(for, rev)))
  BY DEF SinkVerdict
<1>3. /\ heard \in Sinks /\ heard.at = "record" /\ heard.doubled = snk.doubled /\ heard.in = snk.in
      /\ heard.wrerr = snk.wrerr
      /\ heard.errs = IF Head(fwd).m = "error" THEN snk.errs + 1 ELSE snk.errs
  <2>1. \A n \in Nat : [snk EXCEPT !.at = "record", !.errs = n] \in Sinks
    BY <1>0, SinkUpdates
  <2>2. snk.errs \in Nat /\ snk.errs + 1 \in Nat
    BY <1>0, SinkUpdates
  <2>3. heard \in Sinks
    BY <2>1, <2>2
  <2> QED BY <1>0, <2>3 DEF Sinks
<1> HIDE DEF heard, for
<1>4. /\ DOMAIN Written(heard) = DOMAIN heard
      /\ Written(heard).at = "record" /\ Written(heard).doubled = snk.doubled
      /\ Written(heard).in = snk.in
      /\ Written(heard).errs = IF snk.wrerr THEN heard.errs + 1 ELSE heard.errs
  BY <1>3 DEF Written, Sinks
<1>5. /\ snk.errs \in Nat /\ Written(heard).errs \in Nat /\ Written(heard).errs >= snk.errs
      /\ Head(fwd).m = "error" \/ snk.wrerr => Written(heard).errs > snk.errs
  <2>1. snk.errs \in Nat
    BY <1>0 DEF Sinks
  <2> QED BY <1>3, <1>4, <2>1
<1>6. CASE Answer(Exit(snk, 1), FALSE, rev)
  BY <1>0, <1>1, <1>6 DEF Answer, Exit, Sinks
<1>7. CASE Head(fwd).m \in {"ok", "error"} /\ Answer(Written(heard), FALSE, Verdict(snk, for, rev))
  <2>1. snk' = Written(heard) /\ rev' = Verdict(snk, for, rev)
    BY <1>7 DEF Answer
  <2> QED BY <1>1, <1>4, <1>5, <1>7, <2>1 DEF for
<1>8. CASE /\ Head(fwd).m \in {"ok", "error"}
           /\ Answer([Written(heard) EXCEPT !.errs = @ + 1, !.doubled = SnkRemote], TRUE,
                     Verdict(snk, for, SnkError(for, rev)))
  <2>1. /\ snk'.at = "record" /\ snk'.doubled = SnkRemote /\ snk'.in = snk.in
        /\ snk'.errs = Written(heard).errs + 1 /\ rev' = Verdict(snk, for, SnkError(for, rev))
    BY <1>3, <1>4, <1>8 DEF Answer, Sinks
  <2>2. snk'.errs > snk.errs
    BY <1>5, <2>1
  <2> QED BY <1>1, <1>5, <1>8, <2>1, <2>2 DEF for
<1> QED BY <1>2, <1>6, <1>7, <1>8

(* Who dies changes nothing else.                                           *)
LEMMA DiesDoes ==
  ASSUME TypeOK, Dies
  PROVE  /\ UNCHANGED <<copy, fwd, rev, stored>>
         /\ \/ /\ ~Ended(src) /\ src'.at = "dead" /\ UNCHANGED snk
               /\ src'.errs = src.errs /\ src'.shrunk = src.shrunk
            \/ /\ ~Ended(snk) /\ snk'.at = "dead" /\ UNCHANGED src
               /\ snk'.errs = snk.errs /\ snk'.doubled = snk.doubled
<1>0. src \in Sources /\ snk \in Sinks
  BY DEF TypeOK
<1> QED BY <1>0 DEF Dies, Sources, Sinks

----------------------------------------------------------------------------
(* Who has ended stays so; what is counted or noted stays counted.          *)
LEMMA Grows ==
  ASSUME TypeOK, Turns, Next
  PROVE  /\ copy' = copy
         /\ Ended(src) => UNCHANGED src
         /\ Ended(snk) => UNCHANGED <<snk, stored>>
         /\ snk.doubled => snk'.doubled
         /\ src.errs \in Nat /\ snk.errs \in Nat /\ src'.errs \in Nat /\ snk'.errs \in Nat
         /\ src'.errs >= src.errs /\ snk'.errs >= snk.errs
         /\ src.shrunk => src'.shrunk
<1>0. /\ src.errs \in Nat /\ snk.errs \in Nat /\ src'.errs \in Nat /\ snk'.errs \in Nat
      /\ src.errs + 1 >= src.errs /\ snk.errs + 1 >= snk.errs
  <2>1. TypeOK'
    BY TypeStep
  <2>2. src.errs \in Nat /\ snk.errs \in Nat /\ src'.errs \in Nat /\ snk'.errs \in Nat
    BY <2>1 DEF TypeOK, Sources, Sinks
  <2> QED BY <2>2
<1>1. snk.doubled => SnkRemote
  BY DEF Turns
<1>2. CASE Response
  BY <1>0, <1>2, ResponseDoes DEF Ended
<1>3. CASE Open
  BY <1>0, <1>3, OpenDoes DEF Ended
<1>4. CASE Announce
  BY <1>0, <1>4, AnnounceDoes DEF Ended
<1>5. CASE Data
  BY <1>0, <1>5, DataDoes DEF Ended
<1>6. CASE DataEnd
  <2>1. src'.errs >= src.errs
    <3>1. src.reads = "error" => src'.errs >= src.errs
      <4> SUFFICES ASSUME src.reads = "error" PROVE src'.errs >= src.errs
        OBVIOUS
      <4> DEFINE s == [src EXCEPT !.errs = src.errs + 1, !.reads = "good", !.silent = ~SrcRemote]
      <4>1. src' \in Ask(s, "data")
        BY <1>6 DEF DataEnd
      <4>2. s \in Sources /\ s.errs = src.errs + 1
        <5>1. src \in Sources
          BY DEF TypeOK
        <5>2. s \in Sources
          BY <5>1, SourceUpdates
        <5> QED BY <5>1, <5>2 DEF Sources
      <4> HIDE DEF s
      <4>3. src'.errs = s.errs \/ src'.errs = s.errs + 1
        BY <4>1, <4>2, AskDoes DEF Waits
      <4> QED BY <1>0, <4>2, <4>3
    <3> QED BY <1>6, <3>1, DataEndDoes
  <2> QED BY <1>0, <1>6, <2>1, DataEndDoes DEF Ended
<1>7. CASE SourceEnd
  BY <1>0, <1>7, SourceEndDoes DEF Ended
<1>8. CASE Start
  BY <1>0, <1>8, StartDoes DEF Ended
<1>9. CASE SinkEof
  BY <1>0, <1>9, SinkEofDoes DEF Ended
<1>10. CASE SinkEnd
  BY <1>0, <1>1, <1>10, SinkEndDoes DEF Ended
<1>11. CASE SinkTimes \/ SinkError \/ SinkScrewup
  BY <1>0, <1>11, SinkOtherDoes DEF Ended
<1>12. CASE SinkDir \/ SinkFile
  BY <1>0, <1>12, SinkNameDoes DEF Ended
<1>13. CASE SinkData
  BY <1>0, <1>13, SinkDataDoes DEF Ended
<1>14. CASE SinkCut
  BY <1>0, <1>14, SinkCutDoes DEF Ended
<1>15. CASE SinkClose
  BY <1>0, <1>1, <1>15, SinkCloseDoes DEF Ended
<1>16. CASE SinkVerdict
  BY <1>0, <1>1, <1>16, SinkVerdictDoes DEF Ended
<1>17. CASE Dies
  BY <1>0, <1>17, DiesDoes DEF Ended
<1> QED BY <1>2, <1>3, <1>4, <1>5, <1>6, <1>7, <1>8, <1>9, <1>10, <1>11, <1>12, <1>13, <1>14, <1>15,
           <1>16, <1>17 DEF Next, SourceStep, SinkStep

(* A sink of the user's says no errors to its peer.                         *)
AllYes == ~copy.put => \A i \in 1 .. Len(rev) : rev[i].m = "ok"

(* What comes behind the other answers, and what is left of them.           *)
LEMMA AnswersTaken ==
  ASSUME rev \in Seq(Answers), \A i \in 1 .. Len(rev) : rev[i].m = "ok"
  PROVE  /\ rev # <<>> => \A i \in 1 .. Len(Tail(rev)) : Tail(rev)[i].m = "ok"
         /\ rev # <<>> => Head(rev).m = "ok"
         /\ \A for : \A i \in 1 .. Len(Ga(for, rev)) : Ga(for, rev)[i].m = "ok"
<1>1. rev # <<>> => /\ \A i \in 1 .. Len(Tail(rev)) : Tail(rev)[i].m = "ok"
                    /\ Head(rev).m = "ok"
  OBVIOUS
<1>2. \A a : a.m = "ok" => \A i \in 1 .. Len(Append(rev, a)) : Append(rev, a)[i].m = "ok"
  <2> SUFFICES ASSUME NEW a, a.m = "ok", NEW i \in 1 .. Len(Append(rev, a))
               PROVE  Append(rev, a)[i].m = "ok"
    OBVIOUS
  <2>1. Len(rev) \in Nat /\ Len(Append(rev, a)) = Len(rev) + 1
    OBVIOUS
  <2>2. i \in 1 .. Len(rev) \/ i = Len(rev) + 1
    BY <2>1
  <2>3. i \in 1 .. Len(rev) => Append(rev, a)[i] = rev[i]
    OBVIOUS
  <2>4. Append(rev, a)[Len(rev) + 1] = a
    OBVIOUS
  <2> QED BY <2>2, <2>3, <2>4
<1> QED BY <1>1, <1>2 DEF Ga

(* Every step appends such an answer, or none, or takes one.                *)
LEMMA AllYesStep == TypeOK /\ Turns /\ AllYes /\ Next => AllYes'
<1> SUFFICES ASSUME TypeOK, Turns, AllYes, Next, ~copy.put
             PROVE  \A i \in 1 .. Len(rev') : rev'[i].m = "ok"
  BY Grows DEF AllYes
<1>0. rev \in Seq(Answers) /\ \A i \in 1 .. Len(rev) : rev[i].m = "ok"
  BY DEF TypeOK, AllYes
<1>1. \A for, to : SnkError(for, to) = to
  BY DEF SnkError, SnkRemote
<1>2. \/ rev' = rev \/ (rev # <<>> /\ rev' = Tail(rev)) \/ \E for : rev' = Ga(for, rev)
  <2>1. CASE Response
    BY <2>1, ResponseDoes
  <2>2. CASE Open \/ Announce \/ Data \/ DataEnd \/ SourceEnd
    BY <2>2, OpenDoes, AnnounceDoes, DataDoes, DataEndDoes, SourceEndDoes
  <2>3. CASE Start
    BY <1>1, <2>3, StartDoes
  <2>4. CASE SinkEof \/ SinkData \/ Dies
    BY <2>4, SinkEofDoes, SinkDataDoes, DiesDoes
  <2>5. CASE SinkEnd
    BY <1>1, <2>5, SinkEndDoes
  <2>6. CASE SinkTimes \/ SinkError \/ SinkScrewup
    BY <1>1, <2>6, SinkOtherDoes
  <2>7. CASE SinkDir \/ SinkFile
    BY <1>1, <2>7, SinkNameDoes
  <2>8. CASE SinkCut \/ SinkClose
    BY <1>1, <2>8, SinkCutDoes, SinkCloseDoes
  <2>9. CASE SinkVerdict
    <3>1. Verdict(snk, <<snk.item, "data">>, rev) \in {rev, Ga(<<snk.item, "data">>, rev)}
      BY <1>1 DEF Verdict
    <3> QED BY <1>1, <2>9, <3>1, SinkVerdictDoes
  <2> QED BY <2>1, <2>2, <2>3, <2>4, <2>5, <2>6, <2>7, <2>8, <2>9 DEF Next, SourceStep, SinkStep
<1> QED BY <1>0, <1>2, AnswersTaken
----------------------------------------------------------------------------
(* Where the two are in a file, and what is on its way then.                *)
LEMMA FileShape ==
  ASSUME TypeOK, Turns, ~snk.doubled, ~Ended(src), snk.at \in {"data", "response"}
  PROVE  /\ snk.item = src.item /\ src.item \in DOMAIN copy.items
         /\ \/ Sent /\ rev = <<>> /\ Sending
            \/ /\ src.at = "response" /\ src.wait = "name" /\ Item.kind = "file"
               /\ Len(rev) = 1 /\ Head(rev).m = "ok" /\ fwd = <<>>
<1>1. Placed
  BY DEF TypeOK
<1>2. AtData \/ Told
  BY DEF Turns, AtStart, AtRecord, Alone, Ended
<1> QED BY <1>1, <1>2 DEF AtData, Told, Placed, Announced, Sent

(* Where they are between two files.                                        *)
LEMMA RecordShape ==
  ASSUME Turns, ~snk.doubled, src.at \in {"next", "announce"}
  PROVE  /\ rev = <<>>
         /\ ~Ended(snk) => snk.at = "record" /\ \A i \in 1 .. Len(fwd) : fwd[i].m = "error"
BY DEF Turns, AtStart, AtRecord, Asking, Told, AtData, Sent, Alone, Ended

(* The sink waits for as many units as the source has still to send, and    *)
(* then for its verdict: unless the user's rcp has kept an error to itself. *)
Balance ==
  /\ snk.at = "response" => snk.units = 0
  /\ src.at = "data" => Len(fwd) + src.units = snk.units
  /\ src.at = "response" /\ src.wait = "name" => snk.units = Item.size
  /\ src.at = "response" /\ src.wait = "data" => Len(fwd) = snk.units + 1
Even ==
  ~snk.doubled /\ ~Ended(src) /\ snk.at \in {"data", "response"} /\ ~(copy.put /\ src.errs > 0)
    => Balance

(* So what it takes for a unit is one.                                      *)
LEMMA UnitTaken ==
  ASSUME TypeOK, Turns, Even, ~snk.doubled, ~Ended(src), ~(copy.put /\ src.errs > 0), SinkData
  PROVE  Head(fwd).m = "data" /\ Sent /\ rev = <<>>
<1>0. /\ fwd \in Seq(Records) /\ snk.at = "data" /\ snk.units > 0 /\ fwd # <<>>
      /\ fwd' = Tail(fwd) /\ UNCHANGED <<copy, src>> /\ snk.units \in Nat
  BY SinkDataDoes DEF TypeOK, Sinks
<1>1. Balance
  BY <1>0 DEF Even
<1>2. Sent /\ Sending /\ rev = <<>>
  BY <1>0, FileShape
<1>3. Head(fwd).m # "data" => fwd' = <<>> /\ src.at = "response"
  BY <1>0, <1>2, SendingTaken
<1>4. fwd' = <<>> => Len(fwd) = 1
  <2>1. Len(fwd) \in Nat \ {0} /\ Len(fwd') = Len(fwd) - 1
    BY <1>0, Shorter
  <2> QED BY <2>1
<1> QED BY <1>0, <1>1, <1>2, <1>3, <1>4 DEF Balance, Sent

(* Each step of one is matched by one of the other.                         *)
LEMMA EvenStep == TypeOK /\ Turns /\ Even /\ Next => Even'
<1> SUFFICES ASSUME TypeOK, Turns, Even, Next, ~snk'.doubled, ~Ended(src'),
                    snk'.at \in {"data", "response"}, ~(copy'.put /\ src'.errs > 0)
             PROVE  Balance'
  BY DEF Even, Ended
<1>1. /\ copy' = copy /\ ~snk.doubled /\ ~Ended(src) /\ ~(copy.put /\ src.errs > 0)
      /\ ~Ended(snk)
  BY Grows DEF Ended
<1>2. snk.at \in {"data", "response"} => Balance
  BY <1>1 DEF Even
<1>3. /\ fwd \in Seq(Records) /\ snk.units \in Nat /\ src.units \in Nat /\ Len(fwd) \in Nat
  <2>1. fwd \in Seq(Records)
    BY DEF TypeOK
  <2> QED BY <2>1 DEF TypeOK, Sources, Sinks
<1>4. CASE Response
  <2>1. UNCHANGED <<copy, snk, fwd>> /\ src.at = "response"
    BY <1>4, ResponseDoes
  <2>2. rev # <<>>
    BY <1>1, <1>4, ResponseDoes
  <2>3. src.wait = "name" /\ Item.kind = "file" /\ fwd = <<>> /\ Head(rev).m = "ok"
    BY <1>1, <2>1, <2>2, FileShape
  <2>4. src'.at = "data" /\ src'.units = Item.size
    BY <1>4, <2>2, <2>3, ResponseDoes
  <2> QED BY <1>2, <1>3, <2>1, <2>3, <2>4 DEF Balance
<1>5. CASE Open \/ Announce \/ SourceEnd
  <2>1. UNCHANGED snk /\ src.at \in {"next", "announce"}
    BY <1>5, OpenDoes, AnnounceDoes, SourceEndDoes
  <2> QED BY <1>1, <2>1, RecordShape
<1>6. CASE Data
  <2>1. /\ UNCHANGED <<copy, snk>> /\ src.at = "data" /\ src'.at = "data"
        /\ src'.units = src.units - 1 /\ \E r : fwd' = Append(fwd, r)
    BY <1>1, <1>6, DataDoes DEF Send
  <2>2. Len(fwd') = Len(fwd) + 1
    BY <1>3, <2>1
  <2> QED BY <1>2, <1>3, <2>1, <2>2 DEF Balance
<1>7. CASE DataEnd
  <2>1. UNCHANGED <<copy, snk>> /\ src.at = "data" /\ src.units = 0
    BY <1>7, DataEndDoes
  <2>2. src'.at = "response" /\ src'.wait = "data"
    BY <1>1, <1>7, DataEndDoes
  <2>3. \E r : fwd' = Append(fwd, r)
    BY <1>1, <1>7, DataEndDoes DEF Send, SrcError, SrcRemote
  <2>4. Len(fwd') = Len(fwd) + 1
    BY <1>3, <2>3
  <2> QED BY <1>2, <1>3, <2>1, <2>2, <2>4 DEF Balance
<1>8. CASE Start
  BY <1>8, StartDoes
<1>9. CASE SinkEof \/ SinkCut
  BY <1>1, <1>9, SinkEofDoes, SinkCutDoes
<1>10. CASE SinkEnd
  BY <1>10, SinkEndDoes
<1>11. CASE SinkTimes \/ SinkError \/ SinkScrewup
  BY <1>11, SinkOtherDoes
<1>12. CASE SinkDir \/ SinkFile
  <2>1. /\ UNCHANGED <<copy, src>> /\ Out /\ Head(fwd).m = "C" /\ snk'.at = "data"
        /\ snk'.units = Head(fwd).size
    BY <1>12, SinkNameDoes
  <2>2. src.at = "response" /\ fwd' = <<>> /\ Requested /\ Last = Head(fwd)
    BY <1>1, <2>1, TurnsOut
  <2>3. src.wait = "name" /\ Head(fwd).size = Item.size
    BY <2>1, <2>2 DEF Requested
  <2> QED BY <2>1, <2>2, <2>3 DEF Balance, Item
<1>13. CASE SinkData
  <2>1. /\ UNCHANGED <<copy, src>> /\ snk.at = "data" /\ fwd # <<>> /\ fwd' = Tail(fwd)
        /\ snk'.at = "data" /\ snk'.units = snk.units - 1
    BY <1>13, SinkDataDoes
  <2>2. Len(fwd') = Len(fwd) - 1
    BY <1>3, <2>1
  <2>3. Sent
    BY <1>1, <1>13, UnitTaken
  <2>4. src.at = "data" => Len(fwd) + src.units = snk.units
    BY <1>2, <2>1 DEF Balance
  <2>5. src.at = "response" /\ src.wait = "data" => Len(fwd) = snk.units + 1
    BY <1>2, <2>1 DEF Balance
  <2>6. \A a, b, c \in Nat : /\ a + b = c => (a - 1) + b = c - 1
                          /\ a = c + 1 => a - 1 = (c - 1) + 1
    OBVIOUS
  <2>7. Len(fwd) \in Nat /\ src.units \in Nat /\ snk.units \in Nat
    BY <1>3 DEF TypeOK, Sources, Sinks
  <2>8. /\ src.at = "data" => Len(fwd') + src.units = snk'.units
        /\ src.at = "response" /\ src.wait = "data" => Len(fwd') = snk'.units + 1
    <3>1. snk'.units = snk.units - 1
      BY <2>1
    <3> DEFINE n == Len(fwd)
               u == src.units
               k == snk.units
    <3>2. n \in Nat /\ u \in Nat /\ k \in Nat
      BY <2>7
    <3> HIDE DEF n, u, k
    <3>3. /\ n + u = k => (n - 1) + u = k - 1
          /\ n = k + 1 => n - 1 = (k - 1) + 1
      BY <3>2, <2>6
    <3> QED BY <2>2, <2>4, <2>5, <3>1, <3>3, Zenon DEF n, u, k
  <2>9. src' = src /\ snk'.at # "response" /\ ~(src.at = "response" /\ src.wait = "name")
    BY <2>1, <2>3 DEF Sent
  <2> QED BY <2>8, <2>9 DEF Balance
<1>14. CASE SinkClose
  BY <1>2, <1>14, SinkCloseDoes DEF Balance, Item
<1>15. CASE SinkVerdict
  BY <1>15, SinkVerdictDoes
<1>16. CASE Dies
  BY <1>16, DiesDoes DEF Ended
<1> QED BY <1>4, <1>5, <1>6, <1>7, <1>8, <1>9, <1>10, <1>11, <1>12, <1>13, <1>14, <1>15, <1>16
     DEF Next, SourceStep, SinkStep

----------------------------------------------------------------------------
(* What excuses a copy that is not whole: a file that became shorter, or an *)
(* error that the user's rcp has counted or is going to hear of.            *)
Errors == \E i \in 1 .. Len(fwd) : fwd[i].m = "error"
Noted == src.shrunk \/ IF copy.put THEN src.errs > 0 ELSE snk.errs > 0 \/ Errors

(* An error on its way stays there until it is taken.                       *)
LEMMA ErrorsPut ==
  ASSUME fwd \in Seq(Records), NEW r, fwd' = Append(fwd, r)
  PROVE  (Errors => Errors') /\ (r.m = "error" => Errors')
<1>1. Len(fwd') \in 1 .. Len(fwd') /\ \A i \in 1 .. Len(fwd) : i \in 1 .. Len(fwd')
  BY Appended
<1>2. Errors => Errors'
  BY <1>1, Appended DEF Errors
<1>3. r.m = "error" => Errors'
  BY <1>1, Appended DEF Errors
<1> QED BY <1>2, <1>3

(* The same when a record is taken.                                         *)
LEMMA ErrorsTaken ==
  ASSUME fwd \in Seq(Records), fwd # <<>>, fwd' = Tail(fwd), Errors, Head(fwd).m # "error"
  PROVE  Errors'
<1>1. PICK i \in 1 .. Len(fwd) : fwd[i].m = "error"
  BY DEF Errors
<1>2. i # 1
  BY <1>1, Shorter
<1>3. i - 1 \in 1 .. Len(fwd') /\ fwd'[i - 1] = fwd[i]
  <2>1. Len(fwd) \in Nat \ {0} /\ Len(fwd') = Len(fwd) - 1
    BY Shorter
  <2>2. i - 1 \in 1 .. Len(fwd')
    BY <1>1, <1>2, <2>1
  <2>3. fwd'[i - 1] = fwd[(i - 1) + 1]
    BY <2>2, Shorter
  <2> QED BY <2>2, <2>3
<1> QED BY <1>1, <1>3 DEF Errors

(* So the excuse stays, if no error is taken for a unit.                    *)
LEMMA NotedStays ==
  ASSUME TypeOK, Turns, Next, Noted, ~copy.put /\ SinkData => Head(fwd).m # "error"
  PROVE  Noted'
<1>0. fwd \in Seq(Records)
  BY DEF TypeOK
<1>1. SUFFICES ASSUME ~copy.put, Errors PROVE snk'.errs > 0 \/ Errors'
  BY Grows DEF Noted
<1>2. /\ snk.errs \in Nat /\ snk'.errs \in Nat
      /\ snk'.errs = snk.errs + 1 \/ snk'.errs > snk.errs => snk'.errs > 0
  BY Grows
<1>3. fwd' = fwd => Errors'
  BY <1>1 DEF Errors
<1>4. (\E r : fwd' = Append(fwd, r)) => Errors'
  BY <1>0, <1>1, ErrorsPut
<1>5. fwd # <<>> /\ fwd' = Tail(fwd) /\ Head(fwd).m # "error" => Errors'
  BY <1>0, <1>1, ErrorsTaken
<1>6. CASE Response \/ SourceEnd \/ Start \/ SinkEof \/ SinkCut \/ SinkClose \/ Dies
  BY <1>3, <1>6, ResponseDoes, SourceEndDoes, StartDoes, SinkEofDoes, SinkCutDoes, SinkCloseDoes,
     DiesDoes
<1>7. CASE Open
  BY <1>3, <1>4, <1>7, OpenDoes DEF Send, SrcError
<1>8. CASE Announce
  BY <1>3, <1>4, <1>8, AnnounceDoes DEF Send
<1>9. CASE Data
  BY <1>3, <1>4, <1>9, DataDoes DEF Send
<1>10. CASE DataEnd
  BY <1>3, <1>4, <1>10, DataEndDoes DEF Send, SrcError
<1>11. CASE SinkEnd
  BY <1>5, <1>11, SinkEndDoes DEF Out
<1>12. CASE SinkTimes \/ SinkError \/ SinkScrewup
  BY <1>2, <1>5, <1>12, SinkOtherDoes DEF Out
<1>13. CASE SinkDir \/ SinkFile
  BY <1>5, <1>13, SinkNameDoes DEF Out
<1>14. CASE SinkData
  BY <1>1, <1>5, <1>14, SinkDataDoes
<1>15. CASE SinkVerdict
  BY <1>2, <1>5, <1>15, SinkVerdictDoes
<1> QED BY <1>6, <1>7, <1>8, <1>9, <1>10, <1>11, <1>12, <1>13, <1>14, <1>15
     DEF Next, SourceStep, SinkStep

(* All that is behind the source is there and whole, and so is what it is   *)
(* about to hear an answer for.                                             *)
Whole == \A i \in DOMAIN copy.items :
  i < src.item /\ copy.items[i].kind # "end" => stored[i] = "whole"
Answered ==
  src.at = "response" /\ rev # <<>> /\ Head(rev).m = "ok"
  /\ (src.wait = "data" \/ (src.wait = "name" /\ Item.kind = "dir"))
    => stored[src.item] = "whole"

(* In a file, what has been written of it is right, or one of the two has   *)
(* noticed and will say so.                                                 *)
Misread == src.at = "data" /\ src.reads # "good"
InFile ==
  snk.at \in {"data", "response"} =>
    /\ stored[src.item] = "whole" \/ snk.wrerr \/ Misread
    /\ \A i \in 1 .. Len(fwd) : fwd[i].m = "data" =>
         fwd[i].item = src.item /\ (fwd[i].good \/ Misread)
Right == Whole /\ Answered /\ InFile
Stored ==
  ~snk.doubled /\ ~Ended(src) /\ (copy.put \/ ~Ended(snk)) /\ ~Noted => Right

(* What is behind the source is not touched,                                *)
LEMMA WholeStays ==
  ASSUME TypeOK, Whole, copy' = copy, src'.item = src.item,
         stored' = stored \/ \E v : stored' = [stored EXCEPT ![src.item] = v]
  PROVE  Whole'
<1>1. src.item \in Nat /\ DOMAIN copy.items = 1 .. Len(copy.items)
      /\ stored \in [DOMAIN copy.items -> {"none", "whole", "bad"}]
  BY CopyType DEF TypeOK, Sources
<1> SUFFICES ASSUME NEW i \in DOMAIN copy.items, i < src.item, copy.items[i].kind # "end"
             PROVE  stored'[i] = "whole"
  BY DEF Whole
<1>2. stored[i] = "whole" /\ i # src.item
  BY <1>1 DEF Whole
<1> QED BY <1>1, <1>2

(* and one item more is behind it when that is there.                       *)
LEMMA WholeGrows ==
  ASSUME TypeOK, Whole, copy' = copy, stored' = stored, src'.item = src.item + 1,
         Item.kind = "end" \/ stored[src.item] = "whole"
  PROVE  Whole'
<1>1. src.item \in Nat /\ DOMAIN copy.items = 1 .. Len(copy.items)
  BY CopyType DEF TypeOK, Sources
<1> SUFFICES ASSUME NEW i \in DOMAIN copy.items, i < src.item + 1, copy.items[i].kind # "end"
             PROVE  stored[i] = "whole"
  BY DEF Whole
<1>2. i < src.item \/ i = src.item
  BY <1>1
<1> QED BY <1>2 DEF Whole, Item

(* The answer moves the source past an item that is there.                  *)
LEMMA RightResponse ==
  ASSUME TypeOK, Turns, AllYes, Right, Response, ~snk.doubled, ~Ended(src'), ~Noted'
  PROVE  Right'
<1>0. rev \in Seq(Answers) /\ src.errs \in Nat /\ Placed
  BY DEF TypeOK, Sources
<1>1. UNCHANGED <<copy, snk, fwd, stored>> /\ src.at = "response" /\ ~Ended(src)
  BY ResponseDoes DEF Ended
<1>2. rev # <<>>
  BY ResponseDoes DEF Ended
<1>3. Head(rev).m = "ok" /\ rev' = Tail(rev)
  <2>1. CASE copy.put
    <3>1. src'.errs # src.errs + 1
      BY <1>0, <1>1, <2>1 DEF Noted
    <3> QED BY <1>2, <3>1, ResponseDoes
  <2>2. CASE ~copy.put
    <3>1. \A i \in 1 .. Len(rev) : rev[i].m = "ok"
      BY <2>2 DEF AllYes
    <3>2. Head(rev).m = "ok"
      BY <1>0, <1>2, <3>1, AnswersTaken
    <3> QED BY <1>2, <3>2, ResponseDoes
  <2> QED BY <2>1, <2>2
<1>4. rev' = <<>>
  <2>1. Told \/ Alone
    BY <1>1, <1>2 DEF Turns, AtStart, AtRecord, AtData
  <2>2. Len(rev) = 1
    BY <1>2, <2>1 DEF Told, Alone
  <2> QED BY <1>0, <1>3, <2>2
<1>5. Whole'
  <2>1. CASE src'.item = src.item
    BY <1>1, <2>1, WholeStays DEF Right
  <2>2. CASE src'.item # src.item
    <3>1. /\ src'.item = src.item + 1
          /\ src.wait \in {"end", "data"} \/ (src.wait = "name" /\ Item.kind = "dir")
      BY <1>2, <1>3, <2>2, ResponseDoes
    <3>2. Item.kind = "end" \/ stored[src.item] = "whole"
      BY <1>0, <1>1, <1>2, <1>3, <3>1 DEF Right, Answered, Placed
    <3> QED BY <1>1, <3>1, <3>2, WholeGrows DEF Right
  <2> QED BY <2>1, <2>2
<1>6. Answered'
  BY <1>4 DEF Answered
<1>7. InFile'
  <2> SUFFICES ASSUME snk.at \in {"data", "response"} PROVE InFile'
    BY <1>1 DEF InFile
  <2>1. src.wait = "name" /\ Item.kind = "file" /\ fwd = <<>>
    BY <1>1, <1>2, FileShape
  <2>2. src'.item = src.item
    BY <1>2, <1>3, <2>1, ResponseDoes
  <2>3. stored[src.item] = "whole" \/ snk.wrerr
    BY <1>1 DEF Right, InFile, Misread
  <2> QED BY <1>1, <2>1, <2>2, <2>3 DEF InFile
<1> QED BY <1>5, <1>6, <1>7 DEF Right

(* Between files only errors are told, and what is skipped is one.          *)
LEMMA RightOpen ==
  ASSUME TypeOK, Turns, Right, Open \/ Announce, ~snk.doubled, ~Ended(src'), ~Noted'
  PROVE  Right'
<1>0. fwd \in Seq(Records) /\ src.errs \in Nat
  BY DEF TypeOK, Sources
<1>1. UNCHANGED <<copy, snk, rev, stored>> /\ src.at \in {"next", "announce"}
  BY OpenDoes, AnnounceDoes
<1>2. rev = <<>> /\ snk.at \notin {"data", "response"}
  BY <1>1, RecordShape DEF Ended
<1>3. src'.item = src.item
  <2>1. CASE Announce
    BY <2>1, AnnounceDoes
  <2>2. CASE Open
    <3>1. ~(src'.errs = src.errs + 1 /\ fwd' = SrcError(Request("open"), fwd))
      <4> SUFFICES ASSUME src'.errs = src.errs + 1, fwd' = SrcError(Request("open"), fwd)
                   PROVE  FALSE
        OBVIOUS
      <4>1. CASE copy.put
        BY <1>0, <1>1, <4>1 DEF Noted
      <4>2. CASE ~copy.put
        <5>1. fwd' = Append(fwd, [m |-> "error", for |-> Request("open")])
          BY <4>2 DEF SrcError, SrcRemote
        <5>2. Errors'
          BY <1>0, <5>1, ErrorsPut
        <5> QED BY <1>1, <4>2, <5>2 DEF Noted
      <4> QED BY <4>1, <4>2
    <3> QED BY <2>2, <3>1, OpenDoes DEF Ended
  <2> QED BY <2>1, <2>2
<1>4. Whole'
  BY <1>1, <1>3, WholeStays DEF Right
<1> QED BY <1>1, <1>2, <1>4 DEF Right, Answered, InFile

(* A unit that was read is good; after a failed read the file is not.       *)
LEMMA RightData ==
  ASSUME TypeOK, Turns, Right, Data, ~snk.doubled
  PROVE  Right'
<1>0. fwd \in Seq(Records)
  BY DEF TypeOK
<1>1. /\ UNCHANGED <<copy, snk, rev, stored>> /\ src.at = "data" /\ src'.at = "data"
      /\ src'.item = src.item
  BY DataDoes
<1>2. Misread => Misread'
  BY <1>1, DataDoes DEF Misread
<1>3. Whole'
  BY <1>1, WholeStays DEF Right
<1>4. InFile'
  <2> SUFFICES ASSUME snk.at \in {"data", "response"} PROVE InFile'
    BY <1>1 DEF InFile
  <2>1. ~Ended(snk)
    BY DEF Ended
  <2>2. PICK r : /\ r.m = "data" /\ r.item = src.item /\ (r.good \/ src'.reads # "good")
                 /\ fwd' = Append(fwd, r)
    BY <2>1, DataDoes DEF Send
  <2>3. r.good \/ Misread'
    BY <1>1, <2>2 DEF Misread
  <2>4. \A i \in 1 .. Len(fwd') : fwd'[i].m = "data" =>
          fwd'[i].item = src.item /\ (fwd'[i].good \/ Misread')
    <3> SUFFICES ASSUME NEW i \in 1 .. Len(fwd'), fwd'[i].m = "data"
                 PROVE  fwd'[i].item = src.item /\ (fwd'[i].good \/ Misread')
      BY Zenon
    <3>1. CASE i \in 1 .. Len(fwd)
      BY <1>0, <1>2, <2>2, <3>1, Appended DEF Right, InFile
    <3>2. CASE i = Len(fwd')
      BY <1>0, <2>2, <2>3, <3>2, Appended
    <3> QED BY <1>0, <2>2, <3>1, <3>2, Appended
  <2> QED BY <1>1, <1>2, <2>4 DEF Right, InFile
<1> QED BY <1>1, <1>3, <1>4 DEF Right, Answered

(* The source's verdict is no error only if it has read all of the file.    *)
LEMMA RightDataEnd ==
  ASSUME TypeOK, Turns, Right, DataEnd, ~snk.doubled, ~Noted'
  PROVE  Right'
<1>0. fwd \in Seq(Records) /\ src.reads \in {"good", "error", "short"}
  BY DEF TypeOK, Sources
<1>1. UNCHANGED <<copy, snk, rev, stored>> /\ src.at = "data" /\ src'.item = src.item
  BY DataEndDoes
<1>2. src.reads = "good"
  <2>1. CASE src.reads = "error"
    <3>1. src'.errs > 0 /\ fwd' = SrcError(Request("data"), fwd)
      BY <2>1, DataEndDoes
    <3>2. CASE copy.put
      BY <1>1, <3>1, <3>2 DEF Noted
    <3>3. CASE ~copy.put
      <4>1. fwd' = Append(fwd, [m |-> "error", for |-> Request("data")])
        BY <3>1, <3>3 DEF SrcError, SrcRemote
      <4>2. Errors'
        BY <1>0, <4>1, ErrorsPut
      <4> QED BY <1>1, <3>3, <4>2 DEF Noted
    <3> QED BY <3>2, <3>3
  <2>2. CASE src.reads = "short"
    BY <2>2, DataEndDoes DEF Noted
  <2> QED BY <1>0, <2>1, <2>2
<1>3. ~Misread
  BY <1>2 DEF Misread
<1>4. Whole'
  BY <1>1, WholeStays DEF Right
<1>5. Answered'
  <2>1. rev = <<>>
    BY <1>1 DEF Turns, AtStart, AtRecord, Told, AtData, Alone, Ended
  <2> QED BY <1>1, <2>1 DEF Answered
<1>6. InFile'
  <2> SUFFICES ASSUME snk.at \in {"data", "response"} PROVE InFile'
    BY <1>1 DEF InFile
  <2> DEFINE r == [m |-> "ok", for |-> Request("data")]
  <2>1. fwd' = Append(fwd, r)
    BY <1>2, DataEndDoes DEF Send, Ended
  <2>2. r.m = "ok"
    OBVIOUS
  <2> HIDE DEF r
  <2>3. \A i \in 1 .. Len(fwd') : fwd'[i].m = "data" => fwd'[i].item = src.item /\ fwd'[i].good
    <3> SUFFICES ASSUME NEW i \in 1 .. Len(fwd'), fwd'[i].m = "data"
                 PROVE  fwd'[i].item = src.item /\ fwd'[i].good
      OBVIOUS
    <3>1. i \in 1 .. Len(fwd)
      BY <1>0, <2>1, <2>2, Appended
    <3> QED BY <1>0, <1>3, <2>1, <3>1, Appended DEF Right, InFile
  <2> QED BY <1>1, <1>3, <2>3 DEF Right, InFile
<1> QED BY <1>4, <1>5, <1>6 DEF Right

(* The sink's steps between files: a name that is taken is there.           *)
LEMMA RightRecord ==
  ASSUME TypeOK, Turns, Right, Next, ~snk.doubled, ~Ended(src), ~Noted', copy.put \/ ~Ended(snk'),
         Start \/ SinkEnd \/ SinkTimes \/ SinkError \/ SinkScrewup \/ SinkDir \/ SinkFile
  PROVE  Right'
<1>0. /\ rev \in Seq(Answers) /\ snk.errs \in Nat
      /\ src.item \in DOMAIN copy.items => stored[src.item] \in {"none", "whole", "bad"}
      /\ stored \in [DOMAIN copy.items -> {"none", "whole", "bad"}] /\ Placed
  BY DEF TypeOK, Sinks
<1>1. UNCHANGED <<copy, src>>
  BY StartDoes, SinkEndDoes, SinkOtherDoes, SinkNameDoes
<1>2. CASE Start
  <2>1. AtStart
    BY <1>2, StartDoes DEF Turns, AtRecord, Told, AtData, Alone, Ended
  <2>2. stored' = stored /\ snk'.at \in {"record", "exit"}
    BY <1>2, StartDoes
  <2>3. Whole'
    BY <1>1, <2>2, WholeStays DEF Right
  <2> QED BY <1>1, <2>1, <2>2, <2>3 DEF Right, Answered, InFile, AtStart
<1>3. CASE SinkEnd
  <2>1. stored' = stored /\ snk'.at \in {"record", "exit"} /\ Out /\ Head(fwd).m = "E"
    BY <1>3, SinkEndDoes
  <2>2. src.wait = "end"
    BY <2>1, TurnsOut DEF Requested
  <2>3. Whole'
    BY <1>1, <2>1, WholeStays DEF Right
  <2> QED BY <1>1, <2>1, <2>2, <2>3 DEF Right, Answered, InFile
<1>4. CASE SinkTimes \/ SinkError \/ SinkScrewup
  <2>1. stored' = stored /\ snk'.at \in {"record", "exit"} /\ Out /\ snk.at = "record"
    BY <1>4, SinkOtherDoes
  <2>2. Whole'
    BY <1>1, <2>1, WholeStays DEF Right
  <2>3. Answered'
    <3>1. CASE Head(fwd).m = "error"
      <4>1. rev' = rev
        BY <1>4, <3>1, SinkOtherDoes
      <4> QED BY <1>1, <2>1, <4>1 DEF Right, Answered, Item
    <3>2. CASE Head(fwd).m # "error"
      <4>1. Requested /\ Last = Head(fwd)
        BY <2>1, <3>2, TurnsOut
      <4>2. Head(fwd).m = "T"
        BY <1>4, <3>2, <4>1, SinkOtherDoes DEF Requested
      <4>3. src.wait = "times"
        BY <4>1, <4>2 DEF Requested
      <4> QED BY <1>1, <4>3 DEF Answered
    <3> QED BY <3>1, <3>2
  <2> QED BY <1>1, <2>1, <2>2, <2>3 DEF Right, InFile
<1>5. CASE SinkDir \/ SinkFile
  <2>1. Out /\ Head(fwd).m \in {"C", "D"}
    BY <1>5, SinkNameDoes
  <2>2. src.at = "response" /\ fwd' = <<>> /\ rev = <<>> /\ Requested /\ Last = Head(fwd)
    BY <2>1, TurnsOut
  <2>3. src.wait = "name" /\ Head(fwd).item = src.item /\ src.item \in DOMAIN copy.items
    BY <1>0, <2>1, <2>2 DEF Requested, Placed, Announced
  <2>4. CASE /\ snk'.at = "record" /\ snk'.errs = snk.errs + 1
             /\ stored' = stored /\ rev' = SnkError(Head(fwd).for, rev)
    <3>1. copy.put
      BY <1>0, <1>1, <2>4 DEF Noted
    <3>2. rev' # <<>> => Head(rev').m = "error"
      BY <2>2, <2>4, Only
    <3>3. Whole'
      BY <1>1, <2>4, WholeStays DEF Right
    <3> QED BY <2>4, <3>2, <3>3 DEF Right, Answered, InFile
  <2>5. CASE stored' = [stored EXCEPT ![src.item] = "whole"]
    <3>1. Whole'
      BY <1>1, <2>5, WholeStays DEF Right
    <3>2. stored'[src.item] = "whole"
      BY <1>0, <2>3, <2>5
    <3> QED BY <1>1, <2>2, <3>1, <3>2 DEF Right, Answered, InFile
  <2> QED BY <1>5, <2>3, <2>4, <2>5, SinkNameDoes
<1> QED BY <1>2, <1>3, <1>4, <1>5

(* A unit that is not good, or not written, makes a file bad, and is noted. *)
LEMMA RightUnit ==
  ASSUME TypeOK, Turns, Even, Right, Next, ~snk.doubled, ~Ended(src), ~Noted, SinkData
  PROVE  Right'
<1>0. fwd \in Seq(Records) /\ src.errs \in Nat
  BY DEF TypeOK, Sources
<1>1. /\ UNCHANGED <<copy, src, rev>> /\ snk.at = "data" /\ fwd # <<>> /\ fwd' = Tail(fwd)
      /\ snk'.at = "data"
  BY SinkDataDoes
<1>2. snk.item = src.item
  BY <1>1, FileShape
<1>3. Head(fwd).m = "data" /\ rev = <<>>
  BY UnitTaken DEF Noted
<1>4. Head(fwd).item = src.item /\ (Head(fwd).good \/ Misread)
  BY <1>0, <1>1, <1>3, Shorter DEF Right, InFile
<1>5. Misread' = Misread
  BY <1>1 DEF Misread
<1>6. \/ stored' = stored /\ snk'.wrerr = snk.wrerr
      \/ stored' = [stored EXCEPT ![src.item] = "bad"] /\ (snk'.wrerr \/ Misread)
  BY <1>2, <1>3, <1>4, SinkDataDoes
<1>7. Whole'
  BY <1>1, <1>6, WholeStays DEF Right
<1>8. stored'[src.item] = "whole" \/ snk'.wrerr \/ Misread
  BY <1>1, <1>6 DEF Right, InFile
<1>9. \A i \in 1 .. Len(fwd') : fwd'[i].m = "data" =>
        fwd'[i].item = src.item /\ (fwd'[i].good \/ Misread)
  <2> SUFFICES ASSUME NEW i \in 1 .. Len(fwd'), fwd'[i].m = "data"
               PROVE  fwd'[i].item = src.item /\ (fwd'[i].good \/ Misread)
    BY Zenon
  <2>1. fwd'[i] = fwd[i + 1] /\ i + 1 \in 1 .. Len(fwd)
    BY <1>0, <1>1, Shorter
  <2> QED BY <1>1, <2>1 DEF Right, InFile
<1> QED BY <1>1, <1>3, <1>5, <1>7, <1>8, <1>9 DEF Right, Answered, InFile

(* The sink's verdict is no error only on a file that is whole.             *)
LEMMA RightVerdict ==
  ASSUME TypeOK, Turns, Right, Next, SinkClose \/ SinkVerdict,
         ~snk.doubled, ~snk'.doubled, ~Ended(src), ~Noted'
  PROVE  Right'
<1>0. /\ snk.errs \in Nat /\ fwd \in Seq(Records) /\ src.item \in Nat
      /\ copy.put \in BOOLEAN
  BY CopyType DEF TypeOK, Sinks, Sources
<1>1. UNCHANGED <<copy, src>>
  BY SinkCloseDoes, SinkVerdictDoes
<1>2. CASE SinkClose
  <2>1. /\ fwd' = fwd /\ snk.at = "data" /\ snk'.at = "response" /\ snk'.wrerr = snk.wrerr
    BY <1>2, SinkCloseDoes
  <2>2. stored' = stored /\ rev' = rev
    <3>1. ~(snk'.errs = snk.errs + 1 /\ snk'.doubled = SnkRemote)
      BY <1>0, <1>1 DEF Noted, SnkRemote
    <3> QED BY <1>2, <3>1, SinkCloseDoes
  <2>3. Whole'
    BY <1>1, <2>2, WholeStays DEF Right
  <2>4. InFile' /\ Answered'
    BY <1>1, <2>1, <2>2 DEF Right, InFile, Answered, Misread, Item
  <2> QED BY <2>3, <2>4 DEF Right
<1>3. CASE SinkVerdict
  <2>1. /\ stored' = stored /\ snk.at = "response" /\ fwd # <<>> /\ fwd' = Tail(fwd)
        /\ snk'.at \in {"record", "exit"}
    BY <1>3, SinkVerdictDoes
  <2>2. Whole'
    BY <1>1, <2>1, WholeStays DEF Right
  <2>3. Sent /\ rev = <<>> /\ Sending
    BY <2>1, FileShape
  <2>4. Answered'
    <3>1. CASE rev' = rev
      BY <2>3, <3>1 DEF Answered
    <3>2. CASE Head(fwd).m \in {"ok", "error"} /\ snk'.at = "record" /\ rev' # rev
      <4>1. src.at = "response"
        BY <1>0, <1>1, <2>1, <2>3, <3>2, SendingTaken
      <4>2. /\ ~(snk'.doubled = SnkRemote /\ snk'.errs > snk.errs)
            /\ snk'.errs > snk.errs => copy.put
        <5>1. snk'.errs \in Nat /\ (snk'.errs > snk.errs => snk'.errs > 0)
          BY <1>0, Grows
        <5> QED BY <1>1, <5>1 DEF Noted, SnkRemote
      <4>3. rev' = Verdict(snk, <<snk.item, "data">>, rev)
        BY <1>3, <3>2, <4>2, SinkVerdictDoes
      <4>4. CASE snk.wrerr
        <5>1. Head(rev').m = "error"
          BY <2>3, <3>2, <4>3, <4>4, Only DEF Verdict
        <5> QED BY <5>1 DEF Answered
      <4>5. CASE ~snk.wrerr
        <5>1. stored[src.item] = "whole"
          BY <2>1, <4>1, <4>5 DEF Right, InFile, Misread
        <5> QED BY <1>1, <2>1, <5>1 DEF Answered
      <4> QED BY <4>4, <4>5
    <3> QED BY <1>3, <3>1, <3>2, SinkVerdictDoes
  <2> QED BY <2>1, <2>2, <2>4 DEF Right, InFile
<1> QED BY <1>2, <1>3

(* Together: what the source has left behind is there and whole, as long as *)
(* there is no excuse.                                                      *)
LEMMA StoredStep == TypeOK /\ Turns /\ AllYes /\ Even /\ Stored /\ Next => Stored'
<1> SUFFICES ASSUME TypeOK, Turns, AllYes, Even, Stored, Next, ~snk'.doubled, ~Ended(src'),
                    copy'.put \/ ~Ended(snk'), ~Noted'
             PROVE  Right'
  BY DEF Stored, Ended
<1>1. copy' = copy /\ ~snk.doubled /\ ~Ended(src) /\ (copy.put \/ ~Ended(snk))
  BY Grows DEF Ended
<1>2. ~Noted
  <2>1. ~copy.put /\ SinkData => Head(fwd).m # "error"
    BY <1>1, UnitTaken
  <2> QED BY <2>1, NotedStays
<1>3. Right
  BY <1>1, <1>2 DEF Stored
<1>4. CASE Response
  BY <1>1, <1>3, <1>4, RightResponse
<1>5. CASE Open \/ Announce
  BY <1>1, <1>3, <1>5, RightOpen
<1>6. CASE Data
  BY <1>1, <1>3, <1>6, RightData
<1>7. CASE DataEnd
  BY <1>1, <1>3, <1>7, RightDataEnd
<1>8. CASE SourceEnd
  BY <1>8, SourceEndDoes DEF Ended
<1>9. CASE Start \/ SinkEnd \/ SinkTimes \/ SinkError \/ SinkScrewup \/ SinkDir \/ SinkFile
  BY <1>1, <1>3, <1>9, RightRecord
<1>10. CASE SinkEof \/ SinkCut
  BY <1>1, <1>10, SinkEofDoes, SinkCutDoes
<1>11. CASE SinkData
  BY <1>1, <1>2, <1>3, <1>11, RightUnit
<1>12. CASE SinkClose \/ SinkVerdict
  BY <1>1, <1>3, <1>12, RightVerdict
<1>13. CASE Dies
  <2>1. UNCHANGED <<copy, src, fwd, rev, stored>> /\ snk'.at = "dead"
    BY <1>13, DiesDoes DEF Ended
  <2>2. Whole'
    BY <1>3, <2>1, WholeStays DEF Right
  <2> QED BY <1>3, <2>1, <2>2 DEF Right, Answered, InFile, Item
<1> QED BY <1>4, <1>5, <1>6, <1>7, <1>8, <1>9, <1>10, <1>11, <1>12, <1>13
     DEF Next, SourceStep, SinkStep

----------------------------------------------------------------------------
(* The sink stores nothing more: it has gone, or only hears errors.         *)
Still == Ended(snk) \/ (snk.at = "record" /\ \A i \in 1 .. Len(fwd) : fwd[i].m = "error")
Behind == Still /\ (src.shrunk \/ Whole)

(* Its own steps leave that so.                                             *)
LEMMA StillStays ==
  ASSUME TypeOK, Turns, Next, Still, SinkStep \/ (Dies /\ UNCHANGED src)
  PROVE  Still' /\ stored' = stored /\ UNCHANGED <<copy, src>>
<1>0. fwd \in Seq(Records)
  BY DEF TypeOK
<1>1. UNCHANGED <<copy, src>>
  BY StartDoes, SinkEofDoes, SinkEndDoes, SinkOtherDoes, SinkNameDoes, SinkDataDoes, SinkCutDoes,
     SinkCloseDoes, SinkVerdictDoes, DiesDoes DEF SinkStep
<1>2. CASE Ended(snk)
  BY <1>1, <1>2, Grows DEF Still, Ended
<1>3. CASE snk.at = "record" /\ \A i \in 1 .. Len(fwd) : fwd[i].m = "error"
  <2>1. fwd # <<>> => Head(fwd).m = "error"
    BY <1>0, <1>3, Shorter, Put
  <2>2. CASE SinkEof
    BY <1>1, <1>3, <2>2, SinkEofDoes DEF Still, Ended
  <2>3. CASE SinkTimes \/ SinkError \/ SinkScrewup
    <3>1. /\ fwd # <<>> /\ fwd' = Tail(fwd) /\ stored' = stored /\ snk'.at = "record"
      BY <2>1, <2>3, SinkOtherDoes DEF Out
    <3>2. \A i \in 1 .. Len(fwd') : fwd'[i].m = "error"
      <4> SUFFICES ASSUME NEW i \in 1 .. Len(fwd') PROVE fwd'[i].m = "error"
        OBVIOUS
      <4>1. fwd'[i] = fwd[i + 1] /\ i + 1 \in 1 .. Len(fwd)
        BY <1>0, <3>1, Shorter
      <4> QED BY <1>3, <4>1
    <3> QED BY <1>1, <3>1, <3>2 DEF Still
  <2>4. CASE SinkEnd \/ SinkDir \/ SinkFile
    BY <2>1, <2>4, SinkEndDoes, SinkNameDoes DEF Out
  <2>5. CASE Start \/ SinkData \/ SinkCut \/ SinkClose \/ SinkVerdict
    BY <1>3, <2>5, StartDoes, SinkDataDoes, SinkCutDoes, SinkCloseDoes, SinkVerdictDoes
  <2>6. CASE Dies /\ UNCHANGED src
    BY <1>1, <1>3, <2>6, DiesDoes DEF Still, Ended
  <2> QED BY <2>2, <2>3, <2>4, <2>5, <2>6 DEF SinkStep
<1> QED BY <1>2, <1>3 DEF Still

(* An answer comes behind those there are.                                  *)
LEMMA AnswersPut ==
  ASSUME NEW q \in Seq(Answers), NEW a
  PROVE  Len(Append(q, a)) = Len(q) + 1 /\ Append(q, a)[Len(q) + 1] = a
         /\ \A i \in 1 .. Len(q) : Append(q, a)[i] = q[i]
OBVIOUS

(* Nobody but the source takes them.                                        *)
LEMMA AnswersStay ==
  ASSUME TypeOK, SinkStep
  PROVE  Len(rev') >= Len(rev) /\ \A i \in 1 .. Len(rev) : rev'[i] = rev[i]
<1>0. rev \in Seq(Answers) /\ Len(rev) \in Nat
  BY DEF TypeOK
<1> DEFINE Longer(q) == Len(q) >= Len(rev) /\ \A i \in 1 .. Len(rev) : q[i] = rev[i]
<1>1. Longer(rev)
  BY <1>0
<1>2. \A a : Longer(Append(rev, a))
  BY <1>0, AnswersPut
<1>3. \A a \in Answers : \A b : Longer(Append(Append(rev, a), b))
  <2> SUFFICES ASSUME NEW a \in Answers, NEW b PROVE Longer(Append(Append(rev, a), b))
    OBVIOUS
  <2>1. Append(rev, a) \in Seq(Answers) /\ Len(Append(rev, a)) = Len(rev) + 1
        /\ \A i \in 1 .. Len(rev) : Append(rev, a)[i] = rev[i]
    BY <1>0, AnswersPut, PutBack
  <2>2. Len(Append(Append(rev, a), b)) = (Len(rev) + 1) + 1
        /\ \A i \in 1 .. (Len(rev) + 1) : Append(Append(rev, a), b)[i] = Append(rev, a)[i]
    BY <2>1, AnswersPut
  <2>3. \A i \in 1 .. Len(rev) : i \in 1 .. (Len(rev) + 1)
    BY <1>0
  <2> QED BY <1>0, <2>1, <2>2, <2>3
<1>4. \A for \in Asked : [m |-> "ok", for |-> for] \in Answers /\ [m |-> "error", for |-> for] \in Answers
  BY DEF Answers
<1> HIDE DEF Longer
<1>5. \A for : Longer(Ga(for, rev)) /\ Longer(SnkError(for, rev))
  BY <1>1, <1>2 DEF Ga, SnkError
<1>6. \A for \in Asked : Longer(SnkError(for, Ga(for, rev))) /\ Longer(SnkError(for, SnkError(for, rev)))
                        /\ Longer(Ga(for, SnkError(for, rev)))
  BY <1>1, <1>2, <1>3, <1>4 DEF Ga, SnkError
<1>7. <<snk.item, "data">> \in Asked
  BY DEF TypeOK, Sinks, Asked, Waits
<1>8. Longer(rev')
  <2>1. CASE Start
    BY <1>5, <2>1, StartDoes
  <2>2. CASE SinkEof \/ SinkData
    BY <1>1, <2>2, SinkEofDoes, SinkDataDoes
  <2>3. CASE SinkEnd
    <3>1. Head(fwd).for \in Asked
      BY <2>3, SinkEndDoes, OutType, RecordParts
    <3> QED BY <1>5, <1>6, <2>3, <3>1, SinkEndDoes
  <2>4. CASE SinkTimes \/ SinkError \/ SinkScrewup
    BY <1>1, <1>5, <2>4, SinkOtherDoes
  <2>5. CASE SinkDir \/ SinkFile
    BY <1>5, <2>5, SinkNameDoes
  <2>6. CASE SinkCut \/ SinkClose
    BY <1>1, <1>5, <2>6, SinkCutDoes, SinkCloseDoes
  <2>7. CASE SinkVerdict
    <3>1. /\ Longer(Verdict(snk, <<snk.item, "data">>, rev))
          /\ Longer(Verdict(snk, <<snk.item, "data">>, SnkError(<<snk.item, "data">>, rev)))
      BY <1>5, <1>6, <1>7 DEF Verdict
    <3> QED BY <1>1, <2>7, <3>1, SinkVerdictDoes
  <2> QED BY <2>1, <2>2, <2>3, <2>4, <2>5, <2>6, <2>7 DEF SinkStep
<1> QED BY <1>8 DEF Longer

(* When the sink has answered twice the source is about to hear of an error *)
(* that it has not counted, and until then it does not end but after the    *)
(* last item.                                                               *)
Twice ==
  snk.doubled /\ ~Ended(src) /\ src.errs = 0 =>
    /\ rev # <<>>
    /\ \/ rev[1].m = "error" /\ (src.at = "next" => Behind)
       \/ /\ Len(rev) > 1 /\ rev[1].m = "ok" /\ rev[2].m = "error" /\ src.at = "response"
          /\ \/ src.wait = "end" /\ Behind
             \/ src.wait = "name" /\ Item.kind = "file"

(* The two answers: of a directory's end, of a close, of a verdict.         *)
LEMMA TwiceBegins ==
  ASSUME TypeOK, Turns, Even, Stored, Next, ~snk.doubled, snk'.doubled, ~Ended(src'), src'.errs = 0
  PROVE  Twice'
<1>0. /\ rev \in Seq(Answers) /\ fwd \in Seq(Records) /\ src.item \in Nat
      /\ copy' = copy /\ ~Ended(src) /\ src.errs = 0
  BY Grows DEF TypeOK, Sources, Ended
<1>1. SinkEnd \/ SinkClose \/ SinkVerdict
  BY ResponseDoes, OpenDoes, AnnounceDoes, DataDoes, DataEndDoes, SourceEndDoes, StartDoes,
     SinkEofDoes, SinkOtherDoes, SinkNameDoes, SinkDataDoes, SinkCutDoes, DiesDoes
     DEF Next, SourceStep, SinkStep
<1>2. UNCHANGED <<copy, src>>
  BY <1>1, SinkEndDoes, SinkCloseDoes, SinkVerdictDoes
<1>3. CASE SinkEnd
  <2>1. /\ stored' = stored /\ Out /\ Head(fwd).m = "E" /\ snk'.at \in {"record", "exit"}
        /\ snk'.doubled = SnkRemote /\ rev' = SnkError(Head(fwd).for, Ga(Head(fwd).for, rev))
    BY <1>3, SinkEndDoes
  <2>2. src.at = "response" /\ fwd' = <<>> /\ rev = <<>> /\ src.wait = "end"
    BY <1>0, <2>1, TurnsOut DEF Requested
  <2>3. SnkRemote /\ copy.put
    BY <2>1 DEF SnkRemote
  <2>4. Len(rev') = 2 /\ rev'[1].m = "ok" /\ rev'[2].m = "error"
    BY <2>1, <2>2, <2>3 DEF SnkError, Ga
  <2>5. src.shrunk \/ Whole
    BY <1>0, <2>3 DEF Stored, Noted, Right
  <2>6. Behind'
    BY <1>2, <2>1, <2>2, <2>5 DEF Behind, Still, Whole, Ended
  <2>7. rev' # <<>> /\ Len(rev') > 1
    BY <2>4
  <2>8. src'.at = "response" /\ src'.wait = "end"
    BY <1>2, <2>2
  <2> QED BY <2>4, <2>6, <2>7, <2>8, Zenon DEF Twice
<1>4. CASE SinkClose
  <2>1. /\ snk.at = "data" /\ snk'.doubled = SnkRemote
        /\ rev' = SnkError(<<snk.item, "data">>, rev)
    BY <1>4, SinkCloseDoes
  <2>2. rev' = Append(rev, [m |-> "error", for |-> <<snk.item, "data">>])
    BY <2>1 DEF SnkError
  <2>3. CASE Sent /\ rev = <<>>
    BY <1>2, <2>2, <2>3 DEF Twice, Sent
  <2>4. CASE /\ src.at = "response" /\ src.wait = "name" /\ Item.kind = "file"
             /\ Len(rev) = 1 /\ Head(rev).m = "ok"
    <3>1. rev[1].m = "ok" /\ 1 \in 1 .. Len(rev)
      BY <1>0, <2>4
    <3>2. Len(rev') = 2 /\ rev'[2].m = "error" /\ rev'[1] = rev[1]
      <4> DEFINE e == [m |-> "error", for |-> <<snk.item, "data">>]
      <4>1. rev' = Append(rev, e) /\ e.m = "error"
        BY <2>2
      <4> HIDE DEF e
      <4>2. /\ Len(rev') = Len(rev) + 1 /\ rev'[Len(rev) + 1] = e
            /\ \A i \in 1 .. Len(rev) : rev'[i] = rev[i]
        BY <1>0, <4>1, AnswersPut
      <4> QED BY <2>4, <3>1, <4>1, <4>2
    <3>3. rev' # <<>>
      BY <3>2
    <3>4. src'.at = "response" /\ src'.wait = "name" /\ Item'.kind = "file"
      BY <1>2, <2>4 DEF Item
    <3> QED BY <3>1, <3>2, <3>3, <3>4 DEF Twice
  <2> QED BY <1>0, <2>1, <2>3, <2>4, FileShape
<1>5. CASE SinkVerdict
  <2>1. /\ snk.at = "response" /\ fwd # <<>> /\ snk'.doubled = SnkRemote
        /\ Head(fwd).m \in {"ok", "error"} /\ fwd' = Tail(fwd)
        /\ rev' = Verdict(snk, <<snk.item, "data">>, SnkError(<<snk.item, "data">>, rev))
    BY <1>5, SinkVerdictDoes
  <2>2. Sent /\ rev = <<>> /\ Sending
    BY <1>0, <2>1, FileShape
  <2>3. src.at = "response"
    BY <1>0, <1>2, <2>1, <2>2, SendingTaken
  <2>4. rev' # <<>> /\ rev'[1].m = "error"
    <3> DEFINE e == [m |-> "error", for |-> <<snk.item, "data">>]
    <3>1. SnkError(<<snk.item, "data">>, rev) = <<e>>
      BY <2>1, <2>2 DEF SnkError
    <3>2. \E a : rev' = Append(<<e>>, a)
      BY <2>1, <3>1 DEF Verdict, SnkError, Ga
    <3>3. e.m = "error"
      OBVIOUS
    <3> HIDE DEF e
    <3>4. \A a : Append(<<e>>, a) # <<>> /\ Append(<<e>>, a)[1] = e
      OBVIOUS
    <3> QED BY <3>2, <3>3, <3>4
  <2> QED BY <1>2, <2>3, <2>4 DEF Twice
<1> QED BY <1>1, <1>3, <1>4, <1>5

(* The source goes on, and hears of it.                                     *)
LEMMA TwiceStep == TypeOK /\ Turns /\ Even /\ Stored /\ Twice /\ Next => Twice'
<1> SUFFICES ASSUME TypeOK, Turns, Even, Stored, Twice, Next, snk'.doubled, ~Ended(src'),
                    src'.errs = 0
             PROVE  Twice'
  BY DEF Twice, Ended
<1> SUFFICES ASSUME snk.doubled PROVE Twice'
  BY TwiceBegins
<1>0. /\ rev \in Seq(Answers) /\ copy' = copy /\ ~Ended(src) /\ src.errs = 0 /\ Placed
  BY Grows DEF TypeOK, Ended
<1>1. rev # <<>> /\ Len(rev) \in Nat \ {0}
  BY <1>0 DEF Twice
<1>2. CASE Response
  <2>1. UNCHANGED <<copy, snk, fwd, stored>> /\ src.at = "response" /\ src'.shrunk = src.shrunk
    BY <1>2, ResponseDoes
  <2>2. rev' = Tail(rev) /\ Head(rev).m = "ok"
    BY <1>0, <1>1, <1>2, ResponseDoes
  <2>3. rev[1].m = "ok"
    BY <1>0, <1>1, <2>2
  <2>4. /\ Len(rev) > 1 /\ rev[2].m = "error"
        /\ \/ src.wait = "end" /\ Behind
           \/ src.wait = "name" /\ Item.kind = "file"
    BY <1>0, <2>3 DEF Twice
  <2>5. rev' # <<>> /\ rev'[1].m = "error"
    <3>1. Tail(rev) # <<>> /\ Tail(rev)[1] = rev[2]
      <4>1. /\ Len(Tail(rev)) = Len(rev) - 1
            /\ \A i \in 1 .. Len(Tail(rev)) : Tail(rev)[i] = rev[i + 1]
        BY <1>0, <1>1
      <4>2. 1 \in 1 .. Len(Tail(rev)) /\ 1 + 1 = 2
        BY <1>1, <2>4, <4>1
      <4>3. Tail(rev)[1] = rev[2]
        BY <4>1, <4>2
      <4>4. Tail(rev) # <<>>
        <5>1. Len(Tail(rev)) # 0 /\ Len(<<>>) = 0
          BY <1>1, <2>4, <4>1
        <5> QED BY <5>1
      <4> QED BY <4>3, <4>4
    <3> QED BY <2>2, <2>4, <3>1
  <2>6. src'.at = "next" => Behind'
    <3>1. CASE src.wait = "end" /\ Behind
      <4>1. src'.item = src.item + 1
        BY <1>1, <1>2, <2>2, <3>1, ResponseDoes
      <4>2. Item.kind = "end"
        BY <1>0, <2>1, <3>1 DEF Placed
      <4>3. Whole => Whole'
        BY <2>1, <4>1, <4>2, WholeGrows
      <4> QED BY <2>1, <3>1, <4>3 DEF Behind, Still, Ended
    <3>2. CASE src.wait = "name" /\ Item.kind = "file"
      BY <1>1, <1>2, <2>2, <3>2, ResponseDoes
    <3> QED BY <2>4, <3>1, <3>2
  <2> QED BY <2>5, <2>6 DEF Twice
<1>3. CASE Open \/ Announce \/ Data \/ DataEnd
  <2>1. rev' = rev /\ src.at # "response" /\ src'.at # "next"
    BY <1>0, <1>3, OpenDoes, AnnounceDoes, DataDoes, DataEndDoes
  <2> QED BY <1>0, <2>1 DEF Twice
<1>4. CASE SourceEnd
  BY <1>4, SourceEndDoes DEF Ended
<1>5. CASE SinkStep \/ Dies
  <2>1. UNCHANGED <<copy, src>>
    BY <1>5, StartDoes, SinkEofDoes, SinkEndDoes, SinkOtherDoes, SinkNameDoes, SinkDataDoes,
       SinkCutDoes, SinkCloseDoes, SinkVerdictDoes, DiesDoes DEF SinkStep, Ended
  <2>2. Len(rev') >= Len(rev) /\ \A i \in 1 .. Len(rev) : rev'[i] = rev[i]
    <3>1. Dies => rev' = rev
      BY DiesDoes
    <3> QED BY <1>0, <1>1, <1>5, <3>1, AnswersStay
  <2>3. Behind => Behind'
    BY <1>5, <2>1, StillStays DEF Behind, Whole
  <2>4. Len(rev') \in Nat /\ rev' # <<>> /\ rev'[1] = rev[1] /\ (Len(rev) > 1 => Len(rev') > 1 /\ rev'[2] = rev[2])
    <3>1. Len(rev') \in Nat /\ (rev' = <<>> => Len(rev') = 0)
      <4>1. rev' \in Seq(Answers)
        BY TypeStep DEF TypeOK
      <4> QED BY <4>1
    <3> QED BY <1>1, <2>2, <3>1
  <2> QED BY <1>0, <2>1, <2>3, <2>4 DEF Twice, Item
<1> QED BY <1>2, <1>3, <1>4, <1>5 DEF Next, SourceStep
----------------------------------------------------------------------------
(* The source ends without an error of its own after the last item only,    *)
(* and then all there is is stored, or the error is on its way to the sink. *)
Ran ==
  src.at = "exit" /\ (IF copy.put THEN src.errs = 0 ELSE ~Ended(snk)) =>
    src.item > Len(copy.items) /\ Still /\ (Noted \/ Whole)

(* It ends,                                                                 *)
LEMMA RanBegins ==
  ASSUME TypeOK, Turns, AllYes, Stored, Twice, Next, ~Ended(src), src'.at = "exit",
         IF copy.put THEN src'.errs = 0 ELSE ~Ended(snk')
  PROVE  src'.item > Len(copy'.items) /\ Still' /\ (Noted' \/ Whole')
<1>0. /\ src.errs \in Nat /\ src.errs + 1 # 0 /\ rev \in Seq(Answers) /\ copy' = copy
      /\ ~copy.put => ~Ended(snk)
  BY Grows DEF TypeOK, Sources, Ended
<1>1. ~SinkStep
  BY StartDoes, SinkEofDoes, SinkEndDoes, SinkOtherDoes, SinkNameDoes, SinkDataDoes, SinkCutDoes,
     SinkCloseDoes, SinkVerdictDoes DEF SinkStep, Ended
<1>2. ~Dies
  BY DiesDoes DEF Ended
<1>3. ~(src'.errs = src.errs + 1 /\ copy.put)
  BY <1>0
<1>4. ~Response
  <2> SUFFICES ASSUME Response PROVE FALSE
    OBVIOUS
  <2>1. /\ src'.errs = src.errs + 1
        /\ (rev = <<>> /\ Ended(snk)) \/ (rev # <<>> /\ Head(rev).m # "ok")
    BY ResponseDoes
  <2>2. ~copy.put
    BY <1>3, <2>1
  <2>3. rev # <<>> => Head(rev).m = "ok"
    BY <1>0, <2>2, AnswersTaken DEF AllYes
  <2> QED BY <1>0, <2>1, <2>2, <2>3
<1>5. ~(Open \/ Announce \/ Data)
  BY <1>0, <1>3, OpenDoes, AnnounceDoes, DataDoes
<1>6. ~DataEnd
  <2>1. ~(Ended(snk) /\ src'.errs > 0)
    BY <1>0
  <2> QED BY <2>1, DataEndDoes
<1>7. SourceEnd
  BY <1>1, <1>2, <1>4, <1>5, <1>6 DEF Next, SourceStep
<1>8. /\ UNCHANGED <<copy, snk, fwd, rev, stored>> /\ src.at = "next"
      /\ src.item > Len(copy.items) /\ src'.item = src.item
      /\ src'.errs = src.errs /\ src'.shrunk = src.shrunk
  BY <1>7, SourceEndDoes
<1>9. Still /\ (Noted \/ Whole)
  <2>1. CASE ~snk.doubled
    BY <1>0, <1>8, <2>1, RecordShape DEF Stored, Right, Still
  <2>2. CASE snk.doubled
    <3>1. copy.put
      BY <2>2 DEF Turns, SnkRemote
    <3>2. src.errs = 0
      BY <1>8, <3>1
    <3> QED BY <1>8, <2>2, <3>2 DEF Twice, Behind, Noted
  <2> QED BY <2>1, <2>2
<1> QED BY <1>8, <1>9 DEF Still, Noted, Whole, Errors, Ended

(* and is gone for good.                                                    *)
LEMMA RanStep == TypeOK /\ Turns /\ AllYes /\ Stored /\ Twice /\ Ran /\ Next => Ran'
<1> SUFFICES ASSUME TypeOK, Turns, AllYes, Stored, Twice, Ran, Next, src'.at = "exit",
                    IF copy.put THEN src'.errs = 0 ELSE ~Ended(snk')
             PROVE  src'.item > Len(copy'.items) /\ Still' /\ (Noted' \/ Whole')
  BY Grows DEF Ran
<1>1. CASE ~Ended(src)
  BY <1>1, RanBegins
<1>2. CASE Ended(src)
  <2>1. UNCHANGED <<copy, src>> /\ (~copy.put => ~Ended(snk)) /\ src.at = "exit"
    BY <1>2, Grows DEF Ended
  <2>2. src.item > Len(copy.items) /\ Still /\ (Noted \/ Whole)
    BY <2>1 DEF Ran
  <2>3. ~SourceStep
    BY <2>1, ResponseDoes, OpenDoes, AnnounceDoes, DataDoes, DataEndDoes, SourceEndDoes
       DEF SourceStep
  <2>4. Still' /\ stored' = stored
    BY <2>1, <2>2, <2>3, StillStays DEF Next
  <2>5. ~SinkData
    BY <2>2, SinkDataDoes DEF Still, Ended
  <2>6. Noted => Noted'
    BY <2>5, NotedStays
  <2>7. Whole => Whole'
    BY <2>1, <2>4 DEF Whole
  <2> QED BY <2>1, <2>2, <2>4, <2>6, <2>7
<1> QED BY <1>1, <1>2
----------------------------------------------------------------------------
(* What stands beside an item: what comes next is within it, or after it.   *)
LEMMA Beside ==
  ASSUME copy \in Copies, NEW i \in DOMAIN copy.items
  PROVE  /\ i + 1 \in DOMAIN copy.items => copy.items[i + 1].of = Within(copy.items, i)
         /\ copy.items[i].kind # "end" /\ After(i) \in DOMAIN copy.items =>
              copy.items[After(i)].of = copy.items[i].of
         /\ copy.items[i].kind = "dir" => Within(copy.items, i) = i
         /\ copy.items[i].kind = "file" => Within(copy.items, i) = copy.items[i].of
         /\ copy.items[i].kind = "end" =>
              copy.items[i].of # 0 /\ Within(copy.items, i) = copy.items[copy.items[i].of].of
<1> DEFINE its == copy.items
<1>0. /\ DOMAIN its = 1 .. Len(its) /\ Len(its) \in Nat
      /\ \A k \in DOMAIN its : its[k].kind \in {"file", "dir", "end"}
  BY CopyType DEF Items, Kinds
<1>1. \A k \in DOMAIN its :
        /\ its[k].of = IF k = 1 THEN 0 ELSE Within(its, k - 1)
        /\ its[k].kind = "end" => its[k].of \in 1 .. (k - 1)
        /\ its[k].kind = "dir" => \E j \in k .. Len(its) : its[j].kind = "end" /\ its[j].of = k
  BY CopiesAssumption
<1> HIDE DEF its
<1>2. \A k \in DOMAIN its : k + 1 \in DOMAIN its => its[k + 1].of = Within(its, k)
  <2> SUFFICES ASSUME NEW k \in DOMAIN its, k + 1 \in DOMAIN its PROVE its[k + 1].of = Within(its, k)
    OBVIOUS
  <2>1. k + 1 # 1 /\ (k + 1) - 1 = k
    BY <1>0
  <2> QED BY <1>1, <2>1
<1>3. \A k \in DOMAIN its :
        /\ its[k].kind = "dir" => Within(its, k) = k
        /\ its[k].kind = "file" => Within(its, k) = its[k].of
        /\ its[k].kind = "end" => Within(its, k) = its[its[k].of].of
  BY <1>0 DEF Within
<1>4. its[i].kind = "end" => its[i].of # 0
  BY <1>0, <1>1 DEF its
<1>5. its[i].kind # "end" /\ After(i) \in DOMAIN its => its[After(i)].of = its[i].of
  <2> SUFFICES ASSUME its[i].kind # "end", After(i) \in DOMAIN its
               PROVE  its[After(i)].of = its[i].of
    OBVIOUS
  <2>1. CASE its[i].kind = "dir"
    <3>1. \E j \in i .. Len(its) : its[j].kind = "end" /\ its[j].of = i
      BY <1>1, <2>1 DEF its
    <3>2. EndOf(i) \in i .. Len(its) /\ its[EndOf(i)].kind = "end" /\ its[EndOf(i)].of = i
      BY <3>1 DEF EndOf, its
    <3>3. EndOf(i) \in DOMAIN its
      BY <1>0, <3>2 DEF its
    <3>4. After(i) = EndOf(i) + 1
      BY <2>1 DEF After, its
    <3> QED BY <1>2, <1>3, <3>2, <3>3, <3>4
  <2>2. CASE its[i].kind = "file"
    <3>1. After(i) = i + 1
      BY <2>2 DEF After, its
    <3> QED BY <1>2, <1>3, <2>2, <3>1 DEF its
  <2> QED BY <1>0, <2>1, <2>2 DEF its
<1> QED BY <1>2, <1>3, <1>4, <1>5 DEF its

(* The user's sink is where the source is: in the directory of its item, or *)
(* of what comes after it when the answer is on its way.  So it is in one   *)
(* when it hears of the end of one.                                         *)
Top(q) == IF q = <<>> THEN 0 ELSE Head(q)
Path(q, items) ==
  \A k \in 1 .. Len(q) :
    q[k] \in DOMAIN items /\ items[q[k]].of = IF k < Len(q) THEN q[k + 1] ELSE 0
Nested == Path(snk.in, copy.items)
There ==
  src.item \in DOMAIN copy.items =>
    Top(snk.in) = IF rev # <<>> /\ src.wait \in {"name", "end"}
                  THEN Within(copy.items, src.item) ELSE Item.of
EndLast ==
  \A i \in 1 .. Len(fwd) : fwd[i].m = "E" =>
    snk.in # <<>> /\ snk.at = "record" /\ \A j \in 1 .. (i - 1) : fwd[j].m = "error"
Chain ==
  ~copy.put /\ ~Ended(snk) /\ snk.errs = 0 =>
    /\ ~Ended(src) => Nested /\ There
    /\ EndLast

(* Only the source's Open says that a directory ends.                       *)
LEMMA EndPut ==
  ASSUME fwd \in Seq(Records), NEW r, fwd' = Append(fwd, r), UNCHANGED snk, EndLast,
         r.m = "E" => snk.in # <<>> /\ snk.at = "record" /\ \A j \in 1 .. Len(fwd) : fwd[j].m = "error"
  PROVE  EndLast'
<1> SUFFICES ASSUME NEW i \in 1 .. Len(fwd'), fwd'[i].m = "E"
             PROVE  snk.in # <<>> /\ snk.at = "record" /\ \A j \in 1 .. (i - 1) : fwd'[j].m = "error"
  BY Zenon DEF EndLast
<1>1. CASE i \in 1 .. Len(fwd)
  <2>1. \A j \in 1 .. (i - 1) : j \in 1 .. Len(fwd)
    BY <1>1, Appended
  <2> QED BY <1>1, <2>1, Appended DEF EndLast
<1>2. CASE i = Len(fwd')
  <2>1. r.m = "E" /\ i - 1 = Len(fwd)
    BY <1>2, Appended
  <2> QED BY <2>1, Appended
<1> QED BY <1>1, <1>2, Appended

(* What comes behind a record that is no error is no such end.              *)
LEMMA EndTaken ==
  ASSUME fwd \in Seq(Records), fwd # <<>>, fwd' = Tail(fwd), EndLast, Head(fwd).m # "error"
  PROVE  EndLast'
<1> SUFFICES ASSUME NEW i \in 1 .. Len(fwd'), fwd'[i].m = "E" PROVE FALSE
  BY Zenon DEF EndLast
<1>1. fwd'[i] = fwd[i + 1] /\ i + 1 \in 1 .. Len(fwd) /\ Head(fwd) = fwd[1]
  BY Shorter
<1>2. 1 \in 1 .. ((i + 1) - 1)
  OBVIOUS
<1> QED BY <1>1, <1>2 DEF EndLast

(* A directory is left,                                                     *)
LEMMA NestedLeft ==
  ASSUME snk \in Sinks, Nested, snk.in # <<>>, snk'.in = Tail(snk.in), UNCHANGED copy
  PROVE  Nested' /\ snk.in[1] \in DOMAIN copy.items /\ copy.items[snk.in[1]].of = Top(snk'.in)
<1>0. snk.in \in Seq(Nat)
  BY DEF Sinks
<1> DEFINE q == snk.in
<1>1. /\ Len(q) \in Nat \ {0} /\ Len(Tail(q)) = Len(q) - 1
      /\ \A k \in 1 .. Len(Tail(q)) : Tail(q)[k] = q[k + 1] /\ k + 1 \in 1 .. Len(q)
      /\ \A k \in 1 .. Len(Tail(q)) : k < Len(Tail(q)) => k + 1 \in 1 .. Len(Tail(q))
      /\ \A k \in 1 .. Len(Tail(q)) : k < Len(Tail(q)) <=> k + 1 < Len(q)
      /\ 1 \in 1 .. Len(q)
      /\ 1 < Len(q) => Tail(q) # <<>> /\ Head(Tail(q)) = q[2]
      /\ ~(1 < Len(q)) => Tail(q) = <<>>
  <2>1. /\ Len(q) \in Nat \ {0} /\ Len(Tail(q)) = Len(q) - 1
        /\ \A k \in 1 .. Len(Tail(q)) : Tail(q)[k] = q[k + 1] /\ k + 1 \in 1 .. Len(q)
    BY <1>0
  <2>2. Tail(q) \in Seq(Nat)
    BY <1>0
  <2>3. /\ \A k \in 1 .. Len(Tail(q)) : k < Len(Tail(q)) => k + 1 \in 1 .. Len(Tail(q))
        /\ \A k \in 1 .. Len(Tail(q)) : k < Len(Tail(q)) <=> k + 1 < Len(q)
        /\ 1 \in 1 .. Len(q)
    BY <2>1
  <2>4. ASSUME 1 < Len(q) PROVE Tail(q) # <<>> /\ Head(Tail(q)) = q[2]
    <3>1. 1 \in 1 .. Len(Tail(q)) /\ 1 + 1 = 2
      BY <2>1, <2>4
    <3>2. Tail(q) # <<>> /\ Head(Tail(q)) = Tail(q)[1]
      <4>1. \A s \in Seq(Nat) : 1 \in 1 .. Len(s) => s # <<>> /\ Head(s) = s[1]
        OBVIOUS
      <4> QED BY <2>2, <3>1, <4>1
    <3> QED BY <2>1, <3>1, <3>2
  <2>5. ~(1 < Len(q)) => Tail(q) = <<>>
    BY <2>1, <2>2
  <2> QED BY <2>1, <2>3, <2>4, <2>5
<1>2. \A k \in 1 .. Len(q) :
        /\ q[k] \in DOMAIN copy.items
        /\ copy.items[q[k]].of = IF k < Len(q) THEN q[k + 1] ELSE 0
  BY DEF Nested, Path
<1>3. snk'.in = Tail(q) /\ copy' = copy
  OBVIOUS
<1> HIDE DEF q
<1>4. Nested'
  <2> SUFFICES ASSUME NEW k \in 1 .. Len(Tail(q))
               PROVE  /\ Tail(q)[k] \in DOMAIN copy.items
                      /\ copy.items[Tail(q)[k]].of = IF k < Len(Tail(q)) THEN Tail(q)[k + 1] ELSE 0
    BY <1>3 DEF Nested, Path
  <2>1. Tail(q)[k] = q[k + 1] /\ k + 1 \in 1 .. Len(q)
    BY <1>1
  <2>2. k < Len(Tail(q)) => Tail(q)[k + 1] = q[(k + 1) + 1]
    BY <1>1
  <2>3. k < Len(Tail(q)) <=> k + 1 < Len(q)
    BY <1>1
  <2> QED BY <1>2, <2>1, <2>2, <2>3
<1>5. q[1] \in DOMAIN copy.items /\ copy.items[q[1]].of = Top(Tail(q))
  <2>1. copy.items[q[1]].of = IF 1 < Len(q) THEN q[2] ELSE 0
    BY <1>1, <1>2
  <2> QED BY <1>1, <1>2, <2>1 DEF Top
<1> QED BY <1>3, <1>4, <1>5 DEF q

(* and one is entered.                                                      *)
LEMMA NestedEntered ==
  ASSUME snk \in Sinks, Nested, NEW d \in Nat, d \in DOMAIN copy.items,
         copy.items[d].of = Top(snk.in), snk'.in = <<d>> \o snk.in, UNCHANGED copy
  PROVE  Nested' /\ Top(snk'.in) = d
<1>0. snk.in \in Seq(Nat)
  BY DEF Sinks
<1> DEFINE q == snk.in
           r == <<d>> \o snk.in
<1>1. /\ Len(q) \in Nat /\ Len(r) = Len(q) + 1 /\ r[1] = d
      /\ \A k \in 1 .. Len(q) : r[k + 1] = q[k]
      /\ r # <<>> /\ Head(r) = d
  BY <1>0
<1>2. Top(q) = IF 1 < Len(r) THEN r[2] ELSE 0
  <2>1. CASE q = <<>>
    BY <1>1, <2>1 DEF Top
  <2>2. CASE q # <<>>
    <3>1. 1 \in 1 .. Len(q) /\ Head(q) = q[1]
      BY <1>0, <2>2
    <3>2. r[1 + 1] = q[1]
      BY <1>1, <3>1
    <3> QED BY <1>1, <2>2, <3>1, <3>2 DEF Top
  <2> QED BY <2>1, <2>2
<1>3. \A k \in 1 .. Len(q) :
        /\ q[k] \in DOMAIN copy.items
        /\ copy.items[q[k]].of = IF k < Len(q) THEN q[k + 1] ELSE 0
  BY DEF Nested, Path
<1>4. snk'.in = r /\ copy' = copy /\ copy.items[d].of = Top(q)
  OBVIOUS
<1> HIDE DEF q, r
<1>5. Path(r, copy.items)
  <2> SUFFICES ASSUME NEW k \in 1 .. Len(r)
               PROVE  /\ r[k] \in DOMAIN copy.items
                      /\ copy.items[r[k]].of = IF k < Len(r) THEN r[k + 1] ELSE 0
    BY DEF Path
  <2>1. CASE k = 1
    BY <1>1, <1>2, <1>4, <2>1
  <2>2. CASE k # 1
    <3>1. k - 1 \in 1 .. Len(q) /\ (k - 1) + 1 = k
      BY <1>1, <2>2
    <3>2. r[k] = q[k - 1]
      BY <1>1, <3>1
    <3>3. k < Len(r) => k \in 1 .. Len(q) /\ r[k + 1] = q[k]
      BY <1>1
    <3>4. k < Len(r) <=> k - 1 < Len(q)
      BY <1>1
    <3> QED BY <1>3, <3>1, <3>2, <3>3, <3>4
  <2> QED BY <2>1, <2>2
<1>6. Nested'
  BY <1>4, <1>5 DEF Nested
<1> QED BY <1>1, <1>4, <1>6 DEF Top

(* The source's steps: it goes on to what stands beside or within.          *)
LEMMA ChainSource ==
  ASSUME TypeOK, Turns, AllYes, Next, SourceStep, ~copy.put, ~Ended(snk), snk.errs = 0, Chain
  PROVE  Chain'
<1>0. /\ fwd \in Seq(Records) /\ rev \in Seq(Answers) /\ copy \in Copies /\ Placed /\ EndLast
      /\ ~snk.doubled /\ (src.item \in DOMAIN copy.items => src.item \in Nat)
  BY CopyType DEF TypeOK, Chain, Turns, SnkRemote
<1>1. /\ UNCHANGED <<copy, snk>> /\ ~Ended(src)
  BY ResponseDoes, OpenDoes, AnnounceDoes, DataDoes, DataEndDoes, SourceEndDoes
     DEF SourceStep, Ended
<1>2. Nested /\ There
  BY <1>1 DEF Chain
<1>3. Nested'
  BY <1>1, <1>2 DEF Nested
<1>4. SUFFICES EndLast' /\ (~Ended(src') => There')
  BY <1>1, <1>3 DEF Chain, Ended
<1>5. CASE Response
  <2>1. fwd' = fwd /\ src.at = "response"
    BY <1>5, ResponseDoes
  <2>2. EndLast'
    BY <1>0, <1>1, <2>1 DEF EndLast
  <2>3. ASSUME ~Ended(src') PROVE There'
    <3>1. rev # <<>> /\ Head(rev).m = "ok" /\ rev' = Tail(rev)
      <4>1. rev # <<>> => Head(rev).m = "ok"
        BY <1>0, AnswersTaken DEF AllYes
      <4> QED BY <1>1, <1>5, <2>3, <4>1, ResponseDoes DEF Ended
    <3>2. rev' = <<>>
      <4>1. Told \/ Alone
        BY <1>0, <1>1, <3>1 DEF Turns, AtStart, AtRecord, AtData
      <4>2. Len(rev) = 1
        BY <3>1, <4>1 DEF Told, Alone
      <4> QED BY <1>0, <3>1, <4>2
    <3> SUFFICES ASSUME src'.item \in DOMAIN copy.items
                 PROVE  Top(snk.in) = copy.items[src'.item].of
      BY <1>1, <3>2 DEF There, Item
    <3>3. CASE src.wait \in {"times", "greeting"} /\ src'.item = src.item
      BY <1>2, <3>3 DEF There, Item
    <3>4. CASE src.wait = "name" /\ Item.kind = "file" /\ src'.item = src.item
      BY <1>0, <1>2, <3>1, <3>4, Beside DEF There, Item
    <3>5. CASE /\ src.wait \in {"end", "data"} \/ (src.wait = "name" /\ Item.kind = "dir")
               /\ src'.item = src.item + 1
      <4>1. /\ src.item \in DOMAIN copy.items
            /\ src.wait = "data" => Item.kind = "file"
        BY <1>0, <2>1, <3>5 DEF Placed, Announced, Sent
      <4>2. copy.items[src'.item].of = Within(copy.items, src.item)
        BY <1>0, <3>5, <4>1, Beside
      <4>3. src.wait = "data" => Within(copy.items, src.item) = Item.of
        BY <1>0, <4>1, Beside DEF Item
      <4> QED BY <1>2, <3>1, <3>5, <4>1, <4>2, <4>3 DEF There
    <3> QED BY <1>5, <2>3, <3>1, <3>3, <3>4, <3>5, ResponseDoes DEF Ended
  <2> QED BY <2>2, <2>3
<1>6. CASE Open \/ Announce
  <2>1. /\ rev' = rev /\ src.at \in {"next", "announce"}
    BY <1>6, OpenDoes, AnnounceDoes
  <2>2. rev = <<>> /\ snk.at = "record" /\ \A i \in 1 .. Len(fwd) : fwd[i].m = "error"
    BY <1>0, <1>1, <2>1, RecordShape
  <2>3. src.item \in DOMAIN copy.items => Top(snk.in) = Item.of
    BY <1>2, <2>2 DEF There
  <2>4. fwd' = fwd => EndLast'
    BY <1>0, <1>1 DEF EndLast
  <2>5. CASE src'.item = src.item
    <3>1. There'
      BY <1>1, <2>1, <2>2, <2>3, <2>5 DEF There, Item
    <3>2. EndLast'
      <4>1. CASE fwd' = fwd
        BY <2>4, <4>1
      <4>2. CASE \E r : fwd' = Append(fwd, r) /\ r.m # "E"
        BY <1>0, <1>1, <4>2, EndPut
      <4>3. CASE Item.kind = "end" /\ src.item \in DOMAIN copy.items
                 /\ fwd' = Append(fwd, [m |-> "E", for |-> Request("end")])
        <5>1. snk.in # <<>>
          <6>1. Top(snk.in) # 0
            BY <1>0, <2>3, <4>3, Beside DEF Item
          <6> QED BY <6>1 DEF Top
        <5> QED BY <1>0, <1>1, <2>2, <4>3, <5>1, EndPut
      <4>4. CASE Announce
        <5>1. \E r : r.m \in {"C", "D"} /\ (fwd' = Append(fwd, r) \/ fwd' = fwd)
          BY <4>4, AnnounceDoes DEF Send
        <5> QED BY <4>1, <4>2, <5>1
      <4>5. CASE Open
        <5>1. \/ fwd' = fwd
              \/ fwd' = Append(fwd, [m |-> "T", for |-> Request("times")])
              \/ /\ Item.kind = "end" /\ src.item \in DOMAIN copy.items
                 /\ fwd' = Append(fwd, [m |-> "E", for |-> Request("end")])
              \/ fwd' = Append(fwd, [m |-> "error", for |-> Request("open")])
          BY <4>5, OpenDoes DEF Send, SrcError
        <5>2. \A for : [m |-> "T", for |-> for].m # "E" /\ [m |-> "error", for |-> for].m # "E"
          OBVIOUS
        <5> QED BY <4>1, <4>2, <4>3, <5>1, <5>2
      <4> QED BY <1>6, <4>4, <4>5
    <3> QED BY <3>1, <3>2
  <2>6. CASE src'.item # src.item /\ ~Ended(src')
    <3>1. /\ src.item \in DOMAIN copy.items /\ Item.kind # "end" /\ src'.item = After(src.item)
          /\ fwd' = SrcError(Request("open"), fwd)
      BY <1>1, <1>6, <2>6, OpenDoes, AnnounceDoes
    <3>2. src'.item \in DOMAIN copy.items => copy.items[src'.item].of = Item.of
      BY <1>0, <3>1, Beside DEF Item
    <3>3. There'
      BY <1>1, <2>1, <2>2, <2>3, <3>1, <3>2 DEF There, Item
    <3>4. EndLast'
      BY <1>0, <1>1, <2>4, <3>1, EndPut DEF SrcError
    <3> QED BY <3>3, <3>4
  <2>7. Ended(src') => src'.item = src.item \/ fwd' = fwd
    BY <1>6, OpenDoes, AnnounceDoes DEF Ended
  <2> QED BY <2>4, <2>5, <2>6, <2>7
<1>7. CASE Data \/ DataEnd
  <2>1. /\ rev' = rev /\ src.at = "data" /\ src'.item = src.item
        /\ \E r : r.m # "E" /\ (fwd' = Append(fwd, r) \/ fwd' = fwd)
    <3>1. CASE Data
      BY <3>1, DataDoes DEF Send
    <3>2. CASE DataEnd
      <4>1. \A for : [m |-> "ok", for |-> for].m # "E" /\ [m |-> "error", for |-> for].m # "E"
        OBVIOUS
      <4> QED BY <3>2, <4>1, DataEndDoes DEF Send, SrcError
    <3> QED BY <1>7, <3>1, <3>2
  <2>2. rev = <<>>
    BY <1>0, <1>1, <2>1 DEF Turns, AtStart, AtRecord, Told, AtData, Alone
  <2>3. There'
    BY <1>1, <1>2, <2>1, <2>2 DEF There, Item
  <2>4. EndLast'
    <3>1. CASE fwd' = fwd
      BY <1>0, <1>1, <3>1 DEF EndLast
    <3>2. CASE \E r : fwd' = Append(fwd, r) /\ r.m # "E"
      BY <1>0, <1>1, <3>2, EndPut
    <3> QED BY <2>1, <3>1, <3>2
  <2> QED BY <2>3, <2>4
<1>8. CASE SourceEnd
  <2>1. fwd' = fwd /\ src'.at = "exit"
    BY <1>8, SourceEndDoes
  <2> QED BY <1>0, <1>1, <2>1 DEF EndLast, Ended
<1> QED BY <1>5, <1>6, <1>7, <1>8 DEF SourceStep

(* The sink's: it enters and leaves the directories the source says.        *)
LEMMA ChainSink ==
  ASSUME TypeOK, Turns, Next, SinkStep, ~copy.put, ~Ended(snk), snk.errs = 0, Chain,
         ~Ended(snk'), snk'.errs = 0
  PROVE  Chain'
<1>0. /\ fwd \in Seq(Records) /\ rev \in Seq(Answers) /\ copy \in Copies /\ Placed /\ EndLast
      /\ ~snk.doubled /\ snk \in Sinks /\ snk.errs + 1 # 0
  BY DEF TypeOK, Chain, Turns, SnkRemote
<1>1. /\ UNCHANGED <<copy, src>> /\ ~(snk'.errs = snk.errs + 1) /\ ~(snk'.errs > snk.errs)
  BY <1>0, StartDoes, SinkEofDoes, SinkEndDoes, SinkOtherDoes, SinkNameDoes, SinkDataDoes,
     SinkCutDoes, SinkCloseDoes, SinkVerdictDoes DEF SinkStep
<1>2. ~Ended(src) => Nested /\ There
  BY DEF Chain
<1>3. SUFFICES EndLast' /\ (~Ended(src) => Nested' /\ There')
  BY <1>1 DEF Chain, Ended
<1>4. snk'.in = snk.in => (Nested => Nested')
  BY <1>1 DEF Nested
<1>5. snk.at # "record" /\ (fwd' = fwd \/ (fwd # <<>> /\ fwd' = Tail(fwd))) => EndLast'
  <2>1. snk.at # "record" => \A i \in 1 .. Len(fwd) : fwd[i].m # "E"
    BY <1>0 DEF EndLast
  <2>2. fwd # <<>> /\ fwd' = Tail(fwd) =>
          \A i \in 1 .. Len(fwd') : fwd'[i] = fwd[i + 1] /\ i + 1 \in 1 .. Len(fwd)
    BY <1>0, Shorter
  <2> QED BY <2>1, <2>2 DEF EndLast
<1>6. CASE Start
  <2>1. fwd' = fwd /\ snk.at = "start" /\ snk'.in = snk.in
    BY <1>6, StartDoes
  <2>2. ~Ended(src) => src.wait = "greeting"
    BY <1>0, <2>1 DEF Turns, AtStart, AtRecord, Told, AtData, Alone, Ended
  <2>3. ~Ended(src) => There'
    BY <1>1, <1>2, <2>1, <2>2 DEF There, Item
  <2> QED BY <1>2, <1>4, <1>5, <2>1, <2>3
<1>7. CASE SinkEof
  <2>1. fwd' = <<>> /\ Ended(src)
    BY <1>7, SinkEofDoes
  <2> QED BY <2>1 DEF EndLast
<1>8. CASE SinkEnd
  <2>1. /\ snk.in # <<>> /\ snk'.in = Tail(snk.in) /\ Out /\ Head(fwd).m = "E"
        /\ fwd # <<>> /\ fwd' = Tail(fwd) /\ rev' = Ga(Head(fwd).for, rev)
    BY <1>1, <1>8, SinkEndDoes DEF Out, Ended
  <2>2. EndLast'
    BY <1>0, <2>1, EndTaken
  <2>3. ASSUME ~Ended(src) PROVE Nested' /\ There'
    <3>1. src.at = "response" /\ src.wait = "end" /\ rev = <<>>
      BY <1>0, <2>1, <2>3, TurnsOut DEF Requested
    <3>2. src.item \in DOMAIN copy.items /\ Item.kind = "end"
      BY <1>0, <3>1 DEF Placed
    <3>3. Nested' /\ copy.items[snk.in[1]].of = Top(snk'.in)
      BY <1>0, <1>1, <1>2, <2>1, <2>3, NestedLeft
    <3>4. snk.in[1] = Item.of
      <4>1. Head(snk.in) = snk.in[1]
        BY <1>0, <2>1 DEF Sinks
      <4> QED BY <1>2, <2>1, <2>3, <3>1, <3>2, <4>1 DEF There, Top
    <3>5. Top(snk'.in) = Within(copy.items, src.item)
      BY <1>0, <3>2, <3>3, <3>4, Beside DEF Item
    <3>6. rev' # <<>>
      BY <2>1, <3>1 DEF Ga
    <3> QED BY <1>1, <3>1, <3>3, <3>5, <3>6 DEF There
  <2> QED BY <2>2, <2>3
<1>9. CASE SinkTimes \/ SinkError \/ SinkScrewup
  <2>1. /\ Out /\ Head(fwd).m = "T" /\ snk' = snk /\ fwd # <<>> /\ fwd' = Tail(fwd)
    BY <1>1, <1>9, SinkOtherDoes DEF Out, Ended
  <2>2. EndLast'
    BY <1>0, <2>1, EndTaken
  <2>3. ASSUME ~Ended(src) PROVE There'
    <3>1. src.wait = "times"
      BY <1>0, <2>1, <2>3, TurnsOut DEF Requested
    <3> QED BY <1>1, <1>2, <2>1, <2>3, <3>1 DEF There, Item
  <2> QED BY <1>2, <1>4, <2>1, <2>2, <2>3
<1>10. CASE SinkDir \/ SinkFile
  <2>1. /\ Out /\ Head(fwd).m \in {"C", "D"} /\ fwd # <<>> /\ fwd' = Tail(fwd)
        /\ rev' = Ga(Head(fwd).for, rev)
        /\ \/ Head(fwd).m = "C" /\ snk'.in = snk.in
           \/ Head(fwd).m = "D" /\ snk'.in = <<Head(fwd).item>> \o snk.in
    BY <1>1, <1>10, SinkNameDoes DEF Out
  <2>2. EndLast'
    BY <1>0, <2>1, EndTaken
  <2>3. ASSUME ~Ended(src) PROVE Nested' /\ There'
    <3>1. src.at = "response" /\ rev = <<>> /\ Requested /\ Last = Head(fwd)
      BY <1>0, <2>1, <2>3, TurnsOut
    <3>2. /\ src.wait = "name" /\ Head(fwd).item = src.item /\ src.item \in DOMAIN copy.items
          /\ Head(fwd).m = "C" => Item.kind = "file"
          /\ Head(fwd).m = "D" => Item.kind = "dir"
      BY <1>0, <2>1, <3>1 DEF Requested, Placed, Announced
    <3>3. Top(snk.in) = Item.of /\ Nested
      BY <1>2, <2>3, <3>1, <3>2 DEF There
    <3>4. rev' # <<>>
      BY <2>1, <3>1 DEF Ga
    <3>5. CASE Head(fwd).m = "C"
      <4>1. Within(copy.items, src.item) = Item.of
        BY <1>0, <3>2, <3>5, Beside DEF Item
      <4>2. Nested'
        BY <1>4, <2>1, <3>3, <3>5
      <4>3. snk'.in = snk.in
        BY <2>1, <3>5
      <4> QED BY <1>1, <3>2, <3>3, <3>4, <4>1, <4>2, <4>3 DEF There
    <3>6. CASE Head(fwd).m = "D"
      <4>1. Within(copy.items, src.item) = src.item
        BY <1>0, <3>2, <3>6, Beside DEF Item
      <4>2. src.item \in Nat
        BY <1>0, <3>2, CopyType
      <4>3. snk'.in = <<src.item>> \o snk.in
        BY <2>1, <3>2, <3>6
      <4>4. copy.items[src.item].of = Top(snk.in)
        BY <3>3 DEF Item
      <4>5. Nested' /\ Top(snk'.in) = src.item
        BY <1>0, <1>1, <3>2, <3>3, <4>2, <4>3, <4>4, NestedEntered
      <4> QED BY <1>1, <3>2, <3>4, <4>1, <4>5 DEF There
    <3> QED BY <2>1, <3>5, <3>6
  <2> QED BY <2>2, <2>3
<1>11. CASE SinkData
  <2>1. /\ snk.at = "data" /\ fwd # <<>> /\ fwd' = Tail(fwd) /\ rev' = rev /\ snk'.in = snk.in
    BY <1>11, SinkDataDoes
  <2>2. ~Ended(src) => There'
    BY <1>1, <1>2, <2>1 DEF There, Item
  <2> QED BY <1>2, <1>4, <1>5, <2>1, <2>2
<1>12. CASE SinkCut
  BY <1>1, <1>12, SinkCutDoes
<1>13. CASE SinkClose
  <2>1. snk.at = "data" /\ fwd' = fwd /\ rev' = rev /\ snk'.in = snk.in
    BY <1>1, <1>13, SinkCloseDoes
  <2>2. ~Ended(src) => There'
    BY <1>1, <1>2, <2>1 DEF There, Item
  <2> QED BY <1>2, <1>4, <1>5, <2>1, <2>2
<1>14. CASE SinkVerdict
  <2>1. /\ snk.at = "response" /\ fwd # <<>> /\ fwd' = Tail(fwd) /\ snk'.in = snk.in
        /\ Head(fwd).m \in {"ok", "error"}
    BY <1>1, <1>14, SinkVerdictDoes DEF Ended
  <2>2. ASSUME ~Ended(src) PROVE There'
    <3>1. Sent /\ Sending
      BY <1>0, <2>1, <2>2, FileShape
    <3>2. src.at = "response"
      BY <1>0, <1>1, <2>1, <3>1, SendingTaken
    <3>3. src.wait = "data"
      BY <3>1, <3>2 DEF Sent
    <3> QED BY <1>1, <1>2, <2>1, <2>2, <3>3 DEF There, Item
  <2> QED BY <1>2, <1>4, <1>5, <2>1, <2>2
<1> QED BY <1>6, <1>7, <1>8, <1>9, <1>10, <1>11, <1>12, <1>13, <1>14 DEF SinkStep

(* Every step.                                                              *)
LEMMA ChainStep == TypeOK /\ Turns /\ AllYes /\ Chain /\ Next => Chain'
<1> SUFFICES ASSUME TypeOK, Turns, AllYes, Chain, Next, ~copy'.put, ~Ended(snk'), snk'.errs = 0
             PROVE  Chain'
  BY DEF Chain, Ended
<1>1. ~copy.put /\ ~Ended(snk) /\ snk.errs = 0
  BY Grows DEF Ended
<1>2. CASE SourceStep
  BY <1>1, <1>2, ChainSource
<1>3. CASE SinkStep
  BY <1>1, <1>3, ChainSink
<1>4. CASE Dies
  <2>1. UNCHANGED <<copy, fwd, snk>> /\ src'.at = "dead"
    BY <1>4, DiesDoes DEF Ended
  <2> QED BY <1>1, <2>1 DEF Chain, EndLast, Ended
<1> QED BY <1>2, <1>3, <1>4 DEF Next

(* The user's sink ends without an error only at the end of a connection    *)
(* whose source has come to its end, or has died.                           *)
Got == ~copy.put => Copied
LEMMA GotStep == TypeOK /\ Turns /\ Ran /\ Chain /\ Got /\ Next => Got'
<1> SUFFICES ASSUME TypeOK, Turns, Ran, Chain, Got, Next, ~copy.put, snk'.at = "exit", snk'.errs = 0,
                    ~src'.shrunk, ~snk'.cut
             PROVE  \A i \in DOMAIN stored' : copy.items[i].kind # "end" => stored'[i] = "whole"
  BY Grows DEF Got, Copied, User
<1>0. /\ copy' = copy /\ snk.errs \in Nat /\ snk.errs + 1 # 0 /\ snk.errs = 0 /\ ~src.shrunk
      /\ stored \in [DOMAIN copy.items -> {"none", "whole", "bad"}]
  BY Grows DEF TypeOK
<1>1. CASE Ended(snk)
  <2>1. UNCHANGED <<snk, stored>>
    BY <1>1, Grows
  <2> QED BY <1>0, <2>1 DEF Got, Copied, User
<1>2. CASE ~Ended(snk)
  <2>1. ~SourceStep
    BY <1>2, ResponseDoes, OpenDoes, AnnounceDoes, DataDoes, DataEndDoes, SourceEndDoes
       DEF SourceStep, Ended
  <2>2. ~Dies
    BY <1>2, DiesDoes DEF Ended
  <2>3. ~SinkEnd
    <3> SUFFICES ASSUME SinkEnd PROVE FALSE
      OBVIOUS
    <3>1. snk.in = <<>> /\ fwd # <<>> /\ Head(fwd).m = "E"
      BY SinkEndDoes DEF Out
    <3>2. fwd[1].m = "E" /\ 1 \in 1 .. Len(fwd)
      BY <3>1 DEF TypeOK
    <3> QED BY <1>0, <1>2, <3>1, <3>2 DEF Chain, EndLast
  <2>4. SinkEof
    BY <1>0, <2>1, <2>2, <2>3, StartDoes, SinkOtherDoes, SinkNameDoes, SinkDataDoes, SinkCutDoes,
       SinkCloseDoes, SinkVerdictDoes DEF Next, SinkStep
  <2>5. UNCHANGED <<src, stored>> /\ fwd = <<>> /\ src.at = "exit"
    BY <2>4, SinkEofDoes DEF Ended
  <2>6. src.item > Len(copy.items) /\ (Noted \/ Whole)
    BY <1>2, <2>5 DEF Ran
  <2>7. ~Noted
    BY <1>0, <2>5 DEF Noted, Errors
  <2>8. \A i \in DOMAIN copy.items : i < src.item
    BY <2>6, CopyType DEF TypeOK, Sources
  <2> QED BY <1>0, <2>5, <2>6, <2>7, <2>8 DEF Whole
<1> QED BY <1>1, <1>2
----------------------------------------------------------------------------
(* In the beginning nothing is behind the source, and nothing on its way.   *)
Copying == AllYes /\ Even /\ Stored /\ Twice /\ Ran /\ Chain /\ Got
LEMMA CopyingInit == Init => Copying
<1> SUFFICES ASSUME Init PROVE Copying
  OBVIOUS
<1>1. /\ copy \in Copies /\ fwd = <<>> /\ rev = <<>>
      /\ src.at = "response" /\ src.item = 1 /\ src.errs = 0 /\ ~src.shrunk
      /\ snk.at = "start" /\ snk.in = <<>> /\ ~snk.doubled
  BY DEF Init
<1>2. DOMAIN copy.items = 1 .. Len(copy.items) /\ Len(copy.items) \in Nat
  BY <1>1, CopyType
<1>3. AllYes /\ EndLast /\ Nested
  BY <1>1 DEF AllYes, EndLast, Nested, Path
<1>4. Whole
  BY <1>1, <1>2 DEF Whole
<1>5. Even /\ Twice /\ Ran /\ Got
  BY <1>1 DEF Even, Twice, Ran, Got, Copied, User
<1>6. Stored
  BY <1>1, <1>4 DEF Stored, Right, Answered, InFile
<1>7. There
  <2>1. src.item \in DOMAIN copy.items => copy.items[src.item].of = 0
    BY <1>1, CopiesAssumption
  <2> QED BY <1>1, <2>1 DEF There, Top, Item
<1> QED BY <1>3, <1>5, <1>6, <1>7 DEF Copying, Chain

(* And no step changes what has been said.                                  *)
LEMMA CopyingStep == TypeOK /\ Turns /\ Copying /\ [Next]_vars => Copying'
<1> SUFFICES ASSUME TypeOK, Turns, Copying, [Next]_vars PROVE Copying'
  OBVIOUS
<1>1. CASE Next
  BY <1>1, AllYesStep, EvenStep, StoredStep, TwiceStep, RanStep, ChainStep, GotStep DEF Copying
<1>2. CASE UNCHANGED vars
  <2>1. AllYes' /\ Even'
    BY <1>2 DEF vars, Copying, AllYes, Even, Balance, Ended, Item
  <2>2. Noted' = Noted /\ Whole' = Whole /\ Still' = Still
    BY <1>2 DEF vars, Noted, Errors, Whole, Still, Ended
  <2>3. Stored' /\ Twice' /\ Ran'
    BY <1>2, <2>2 DEF vars, Copying, Stored, Right, Answered, InFile, Misread, Twice, Behind, Ran,
       Ended, Item
  <2>4. Chain' /\ Got'
    BY <1>2 DEF vars, Copying, Chain, Nested, There, EndLast, Got, Copied, User, Ended, Item
  <2> QED BY <2>1, <2>3, <2>4 DEF Copying
<1> QED BY <1>1, <1>2

(* What the user's rcp copies without an error is there and whole, for      *)
(* every list of items and in both directions, whatever fails on either     *)
(* host: an rcp that exits with 0 has stored every file and directory asked *)
(* for, unless a file became shorter while it was read, or the source died  *)
(* and the sink took the end of the connection for the end of the files.    *)
THEOREM CopiedHolds == Spec => []Copied
<1>1. Spec => [](TypeOK /\ Turns /\ Copying)
  BY TypeInit, TypeStep, TurnsInit, TurnsStep, CopyingInit, CopyingStep, PTL DEF Spec
<1>2. TypeOK /\ Copying => Copied
  <2> SUFFICES ASSUME TypeOK, Copying, copy.put, src.at = "exit", src.errs = 0, ~src.shrunk,
                      NEW i \in DOMAIN stored, copy.items[i].kind # "end"
               PROVE  stored[i] = "whole"
    BY DEF Copying, Got, Copied, User
  <2>1. src.item > Len(copy.items) /\ Whole
    BY DEF Copying, Ran, Noted
  <2>2. i \in DOMAIN copy.items /\ i < src.item
    BY <2>1, CopyType DEF TypeOK, Sources
  <2> QED BY <2>1, <2>2 DEF Whole
<1> QED BY <1>1, <1>2, PTL
=============================================================================
