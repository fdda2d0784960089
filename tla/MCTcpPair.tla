----------------------------- MODULE MCTcpPair -----------------------------
(***************************************************************************)
(* Instances of TcpPair.  With 16 sequence numbers and the initial number  *)
(* 13, the client's numbers wrap around while it sends.                    *)
(***************************************************************************)
EXTENDS TcpPair

OneChild == <<13, 4>>
FarFromWrap == <<2, 4>>
TwoChildren == <<13, 4, 9>>

Up(units) == [n \in Nodes |-> IF n = "C" THEN units ELSE 0]
ClientWritesOne == Up(1)
ClientWritesThree == Up(3)
ClientWritesFour == Up(4)
ServerWritesOne == [n \in Nodes |-> IF n = "S" THEN 1 ELSE 0]
=============================================================================
