------------------------------ MODULE MCTcpServer ------------------------------
(* Two connections on one topic: enough for a removal to race another. *)
EXTENDS TcpServer
===============================================================================
