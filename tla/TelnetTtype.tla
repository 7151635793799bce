---------------------------- MODULE TelnetTtype -----------------------------
(* The terminal type.  The client makes a list of the names of its terminal *)
(* and gives the next one at each request; the server asks until it knows   *)
(* the name or sees one twice in a row, the mark of the list's end.         *)
EXTENDS Naturals, Sequences, SequencesExt

CONSTANTS
  Terminals,    \* what TERM is and its entry in the database: [term, entry]
  Known         \* the names the server's database knows

VARIABLES
  term,         \* the client's terminal, fixed
  next,         \* the client: the position in its list, 0 before it is made
  asker,        \* the server: at, first, last, the type it has
  wire          \* a request or an answer on its way

ttypeVars == <<term, next, asker, wire>>
----------------------------------------------------------------------------
(* mklist(): the names of an entry, without those with spaces and those     *)
(* that are there already; the one of TERM first, a two-letter name that    *)
(* opens the entry last, and the last one twice.  An entry is a sequence of *)
(* names; its last field is a description and ends it.                      *)
Names(entry) == Front(entry)
Unique(seq) == FoldLeft(LAMBDA done, n : IF Contains(done, n) THEN done ELSE Append(done, n), <<>>, seq)
Others(t) == Unique(SelectSeq(Names(t.entry), LAMBDA n : n # t.term))
OldName(t) == Others(t) # <<>> /\ Head(t.entry) = "v6" /\ Head(Others(t)) = "v6"
Ordered(t) == IF OldName(t) THEN Append(Tail(Others(t)), "v6") ELSE Others(t)
BugTwice(s) == s
Twice(s) == IF s = <<>> THEN s ELSE Append(s, Last(s))
(* gettermname(): TERM alone, or UNKNOWN, when the database has no entry.   *)
MkList(t) ==
  IF t.entry = <<>> THEN <<IF t.term = "" THEN "UNKNOWN" ELSE t.term>>
  ELSE Twice(<<t.term>> \o Ordered(t))
Position(t) == (next % Len(MkList(t))) + 1
GetTermName ==
  /\ wire = <<"send">>
  /\ next' = Position(term)
  /\ wire' = <<"is", MkList(term)[Position(term)]>>
  /\ UNCHANGED <<term, asker>>
----------------------------------------------------------------------------
(* The first answer, then the loop: the next one, and at the end of the     *)
(* list once more, so that the client is where it began.                    *)
TerminalTypeOk(name) == name = "" \/ name \in Known
Ask(at) == asker' = [asker EXCEPT !.at = at] /\ wire' = <<"send">>
FirstRequest ==
  /\ asker.at = "idle" /\ Ask("first") /\ UNCHANGED <<term, next>>
Told(at) == asker.at = at /\ Len(wire) = 2 /\ UNCHANGED <<term, next>>
Chosen(name) == [asker EXCEPT !.at = "chosen", !.type = name]
FirstAnswer ==
  /\ Told("first")
  /\ IF TerminalTypeOk(wire[2])
     THEN asker' = Chosen(wire[2]) /\ wire' = <<>>
     ELSE asker' = [asker EXCEPT !.at = "next", !.first = wire[2], !.last = wire[2]] /\ wire' = <<"send">>
NextAnswer ==
  /\ Told("next")
  /\ IF TerminalTypeOk(wire[2]) \/ (wire[2] = asker.last /\ wire[2] = asker.first)
     THEN asker' = Chosen(wire[2]) /\ wire' = <<>>
     ELSE /\ wire' = <<"send">>
          /\ asker' = IF wire[2] = asker.last THEN [asker EXCEPT !.at = "again"]
                      ELSE [asker EXCEPT !.last = wire[2]]
LastAnswer ==
  /\ Told("again") /\ asker' = Chosen(asker.first) /\ wire' = <<>>

Idle == [at |-> "idle", first |-> "", last |-> "", type |-> ""]
TtypeInit == term \in Terminals /\ next = 0 /\ asker = Idle /\ wire = <<>>
(* bye() sets resettermname: a new connection begins the list again.        *)
Reset == asker' = Idle /\ wire' = <<>> /\ next' = 0 /\ UNCHANGED term
TtypeStep == GetTermName \/ FirstRequest \/ FirstAnswer \/ NextAnswer \/ LastAnswer
Done == asker.at = "chosen"
----------------------------------------------------------------------------
(* What the server should find: the first name of the client's list that it *)
(* knows, or the first of all.                                              *)
Best(t) ==
  LET known == SelectSeq(MkList(t), LAMBDA n : n \in Known)
  IN IF known = <<>> THEN Head(MkList(t)) ELSE Head(known)
=============================================================================
