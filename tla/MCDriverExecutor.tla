-------------------------- MODULE MCDriverExecutor --------------------------
(* Instances of DriverExecutor for TLC. *)
EXTENDS DriverExecutor, TLC

CONSTANTS d1, d2, d3, r1, r2, v1, v2

\* One bus and one device elsewhere, each with a driver of its own.
BusRes == d1 :> r1 @@ d2 :> r1 @@ d3 :> r2
BusDrv == d1 :> v1 @@ d2 :> v1 @@ d3 :> v2

\* One driver for the two devices on the bus and the one elsewhere.
SharedDrv == d1 :> v1 @@ d2 :> v1 @@ d3 :> v1

Symmetry == Permutations(Proc) \cup Permutations(Mutex)
=============================================================================
