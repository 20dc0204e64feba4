------------------------------ MODULE MCSession ------------------------------
(***************************************************************************)
(* Three connections: two runs of one player's client, one of another's.   *)
(* The first one also plays.  In the instance with MCAddressName the       *)
(* player is called as the worker of the second connection is before its   *)
(* login, and the other two connections come from one address.             *)
(***************************************************************************)
EXTENDS Session

CONSTANTS c1, c2, c3, n1, n2, n3

MCLoginName == [c \in Conn |-> IF c = c3 THEN n2 ELSE n1]
MCAddressName == [c \in Conn |-> IF c = c2 THEN n1 ELSE n3]
MCMaxMessages == [c \in Conn |-> IF c = c1 THEN 1 ELSE 0]
=============================================================================
