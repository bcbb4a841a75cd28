------------------------------ MODULE MCTcpClient ------------------------------
(* Two subscriptions of a topic, at once or one after the other. *)
EXTENDS TcpClient
===============================================================================
