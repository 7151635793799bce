--------------------------- MODULE MCFtpSession ---------------------------
EXTENDS FtpSession
MCNames == {"ftp", "anonymous", "alice", "bob", "eve"}
MCAccounts == {"ftp", "alice", "bob", "eve"}
MCDenied == {"eve"}
MCKUserOK == {"alice"}
MCTyped == {"anonymous", "alice", "bob", "eve"}
MCOrdinary == {Send("MKD", "")}
MCQuoted == {Send("RNFR", ""), Send("RNTO", ""), Send("ACCT", ""),
             Send("PASS", "right"), Send("QUIT", ""), Send("PROT", "P")}
Setup(level, creds, auth, encrypt) ==
  [authlevel |-> level, want_creds |-> creds, allow_ccc |-> TRUE,
   autoauth |-> auth, autoencrypt |-> encrypt]
MCSetups == {Setup("none", FALSE, TRUE, TRUE), Setup("none", TRUE, FALSE, FALSE),
             Setup("authenticate", TRUE, TRUE, FALSE), Setup("authorize", FALSE, TRUE, TRUE)}
=============================================================================
