---------------------------- MODULE MCRendezvous ----------------------------
(* The instance of Rendezvous for TLC: the number of a connection tells its *)
(* subflow index; 11 and 12 are two connections that send index 1.          *)
EXTENDS Rendezvous

Repeated == {11, 12, 20}
IndexOfRepeated == [c \in Repeated |-> c \div 10]
=============================================================================
