----------------------------- MODULE MCTcpServer -----------------------------
(***************************************************************************)
(* TcpServer for TLC.  Handles and heap blocks are interchangeable.        *)
(***************************************************************************)
EXTENDS TcpServer, TLC

Symmetry == Permutations(Fds) \cup Permutations(Bufs)
=============================================================================
