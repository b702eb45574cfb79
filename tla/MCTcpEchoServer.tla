-------------------------- MODULE MCTcpEchoServer --------------------------
(* Model checking of TcpEchoServer.  The specification treats all clients  *)
(* alike, so what is true of one is true of each; TLC would need a search  *)
(* for every client.                                                       *)
EXTENDS TcpEchoServer

AnyClient == CHOOSE c \in Clients : TRUE

(* Attended (TcpServer.hpp:53-90) of a client: its connection is closed    *)
(* when it has left, and its lines are answered.                           *)
EveryClientAttended == Attended(AnyClient)
=============================================================================
