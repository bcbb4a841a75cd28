----------------------------- MODULE MCEchoService -----------------------------
(* Two callers and three attempts against a breaker that opens on the second    *)
(* failure: attempts of one caller meet the circuit as the other's left it.     *)
EXTENDS EchoService
===============================================================================
