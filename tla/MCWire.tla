------------------------------- MODULE MCWire -------------------------------
(***************************************************************************)
(* Headers are in base two, so that a message of three bytes has a header  *)
(* of two digits.                                                          *)
(***************************************************************************)
EXTENDS Wire

\* A request does not fit between client and server; or a broadcast does not
\* fit between server and client, and the client may fail.
MCSettings == {[up |-> 4, down |-> 12, fails |-> FALSE],
               [up |-> 15, down |-> 4, fails |-> TRUE]}

MCHeaderSettings == {[up |-> 20, down |-> 4, fails |-> FALSE]}
=============================================================================
