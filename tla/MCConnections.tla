--------------------------- MODULE MCConnections ---------------------------
(***************************************************************************)
(* A small instance of Connections: one anime.                             *)
(***************************************************************************)
EXTENDS Connections

CONSTANT a1

MCAnimes == {a1}
MCOwner == [e \in Episodes |-> a1]
=============================================================================
