-------------------------------- MODULE Utmp --------------------------------
(* pty_update_utmp() of libpty, as functions of the table of who is logged  *)
(* in: which entry an update continues, and what it writes over it.  A      *)
(* terminal is a number, 14 for /dev/pts/14, and the C library's search and *)
(* replacement are external.                                                *)
EXTENDS Naturals, Sequences, SequencesExt

\* An entry of the table; user, id and pid are what the code compares.
Entry(type, pid, id, line, user) ==
  [type |-> type, pid |-> pid, id |-> id, line |-> line, user |-> user]
Live(e) == e.type \in {"login", "user"}
Zero == Entry("none", 0, <<"", 0>>, 0, "")

\* The last characters of the name after a k: one digit has a prefix of its
\* own, and of more than three the first are lost.
IdOf(line) == IF line < 10 THEN <<"k0", line>> ELSE <<"k", line % 1000>>

\* A live entry of the process that has the line or the identifier.
MatchPid(e, search) ==
  /\ Live(e) /\ e.pid = search.pid
  /\ e.line = search.line \/ e.id = search.id

\* Whether a is a better match than b of the search by line.
Better(search, a, b) ==
  \/ search.id # b.id /\ search.id = a.id
  \/ /\ a.id # b.id /\ search.id # b.id
     /\ \/ a.type = "login" /\ b.type # "login"
        \/ search.type = "dead" /\ a.type = "user" /\ b.type # "user"

\* The best of the entries that getutline() finds for the line, Zero for none.
BestOnLine(utmp, search) ==
  LET best[n \in 0..Len(utmp)] ==
        IF n = 0 THEN Zero
        ELSE IF Live(utmp[n]) /\ utmp[n].line = search.line /\ Better(search, utmp[n], best[n - 1])
             THEN utmp[n] ELSE best[n - 1]
  IN  best[Len(utmp)]

\* The entry the update continues, {} for none: the first one of the process,
\* else the best of the line.
BestEntry(utmp, search) ==
  LET own == {i \in DOMAIN utmp : search.pid # 0 /\ MatchPid(utmp[i], search)}
      best == BestOnLine(utmp, search)
  IN  IF own # {} THEN {utmp[CHOOSE i \in own : \A j \in own : i <= j]}
      ELSE IF best = Zero THEN {} ELSE {best}

\* pututline(): over the first entry with the identifier, else at the end.
PutLine(utmp, e) ==
  LET same == {i \in DOMAIN utmp : utmp[i].id = e.id}
  IN  IF same = {} THEN Append(utmp, e)
      ELSE [utmp EXCEPT ![CHOOSE i \in same : \A j \in same : i <= j] = e]

\* What is written: the identifier and the process of the entry continued.
BugWritten(utmp, type, pid, user, line) == Entry(type, pid, IdOf(line), line, user)
Written(utmp, type, pid, user, line) ==
  LET search == Entry(type, pid, IdOf(line), line, user)
      found == IF type = "login" THEN {} ELSE BestEntry(utmp, search)
  IN  IF found = {} THEN search
      ELSE LET old == CHOOSE e \in found : TRUE IN [search EXCEPT !.id = old.id, !.pid = old.pid]

UpdateUtmp(utmp, type, pid, user, line) == PutLine(utmp, Written(utmp, type, pid, user, line))

\* What goes to wtmp, which does not record that a terminal waits for a login.
UpdateWtmp(wtmp, utmp, type, pid, user, line) ==
  IF type = "login" THEN wtmp
  ELSE Append(wtmp, [type |-> type, pid |-> Written(utmp, type, pid, user, line).pid])
=============================================================================
