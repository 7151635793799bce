--------------------------- MODULE MCFtpTransfer ---------------------------
(* Who is at the client in the run of FtpTransfer.                          *)
EXTENDS FtpTransfer

\* With what ftp begins with: files longer than a block, restarts and batches.
Ordinary ==
  [passive : {FALSE}, sendport : {TRUE}, turns : {3},
   files : {{<<"a", "nl", "b">>, <<"c", "cr", "nl">>}},
   restarts : {{0, 2}}, batches : {{<<<<"a">>, <<>>>>}}]

\* One turn more, for the addresses that earlier commands leave behind.
Changing ==
  [passive : BOOLEAN, sendport : BOOLEAN, turns : {4},
   files : {{<<"a">>}}, restarts : {{0}}, batches : {{}}]

Both == Ordinary \union Changing
=============================================================================
