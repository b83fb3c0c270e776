------------------------------ MODULE MCLease -------------------------------
(***************************************************************************)
(* Instances of Lease: a few supervisor processes of equal standing.       *)
(***************************************************************************)
EXTENDS Lease, TLC
=============================================================================
