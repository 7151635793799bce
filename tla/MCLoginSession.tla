-------------------------- MODULE MCLoginSession ---------------------------
(* The sessions of the run: each server alone with every request, two that  *)
(* contend for the one pty, one beside a login of init's without a          *)
(* password, and two logins of init's in turn.                              *)
EXTENDS LoginSession

Ask(name, pre, forward) == [name |-> name, pre |-> pre, forward |-> forward]
Asks == {Ask(name, pre, f) : name \in Accounts, pre, f \in BOOLEAN}
Session(server, asks) == [server |-> server, asks |-> asks]
None == Session("none", {})
Getty(pre) == Session("getty", {Ask("u", pre, FALSE)})

SomeKinds ==
  {<<Session("telnetd", Asks \union {Ask("none", FALSE, f) : f \in BOOLEAN}), None>>,
   <<Session("klogind", Asks), None>>,
   <<Session("telnetd", {Ask("u", TRUE, TRUE)}), Session("klogind", {Ask("u", TRUE, TRUE)})>>,
   <<Getty(FALSE), Getty(TRUE)>>,
   <<Session("telnetd", {Ask("u", TRUE, FALSE)}), Getty(TRUE)>>}
=============================================================================
