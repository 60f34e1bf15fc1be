---------------------------- MODULE MCWmiProvider ----------------------------
(***************************************************************************)
(* The requests module WmiProvider is checked with: one is a query, one a  *)
(* set, the others ask for anything.                                       *)
(***************************************************************************)
EXTENDS WmiProvider

CONSTANTS Query, Set

MCRequests ==
  {f \in [Irp -> Kind] : f[Query] = "QueryDataBlock" /\ f[Set] = "SetDataBlock"}
=============================================================================
