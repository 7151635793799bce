-------------------------- MODULE MCTelnetEncrypt --------------------------
(***************************************************************************)
(* The command lines and the user's commands in the run of TelnetEncrypt. *)
(* One other type is enough: all types run in machines of their own.       *)
(***************************************************************************)
EXTENDS TelnetEncrypt

AllSettings == BOOLEAN \X BOOLEAN

CFB == "DES_CFB64"
OFB == "DES_OFB64"

EncryptCommands ==
    {<<"start", CFB, "input">>, <<"start", CFB, "output">>,
     <<"stop", CFB, "input">>, <<"stop", CFB, "output">>,
     <<"enable", OFB, "output">>, <<"type", OFB, "both">>,
     <<"disable", CFB, "both">>,
     <<"autoencrypt", CFB, "both">>, <<"autodecrypt", CFB, "both">>}
=============================================================================
