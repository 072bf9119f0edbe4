-------------------------- MODULE MCShipperServer --------------------------
(* ShipperServer on small instances; the handlers of different clients are  *)
(* interchangeable.                                                         *)
EXTENDS ShipperServer, TLC

CONSTANTS c1, c2, s1

Symmetry == Permutations({c1, c2})
=============================================================================
