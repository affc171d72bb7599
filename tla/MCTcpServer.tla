---------------------------- MODULE MCTcpServer ----------------------------
(***************************************************************************)
(* TcpServer for TLC: the response to the first chunk of one client takes  *)
(* two attempts to write, the response to its second chunk one; the chunks *)
(* of the other client are only parts of a request.                        *)
(***************************************************************************)
EXTENDS TcpServer

MCSize == [s \in Ids |-> IF s = 1 THEN <<2, 1>> ELSE <<0, 0>>]
=============================================================================
