---------------------------- MODULE MCDirectRoom ----------------------------
(* DirectRoom with one responder.                                          *)
EXTENDS DirectRoom

CONSTANTS chat, none

MCRole == {chat}
===============================================================================
