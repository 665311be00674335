----------------------------- MODULE MCAdapter -----------------------------
(***************************************************************************)
(* Instances of Adapter for TLC: messages from two devices in turn, so a   *)
(* batch of three holds an earlier and a later message of one device.      *)
(***************************************************************************)
EXTENDS Adapter

MCDevOf == [m \in 1 .. MaxMsg |-> m % 2]

Set(f, faults, timeouts) == [family |-> f, faults |-> faults, timeouts |-> timeouts]

\* Every adapter with a broker that fails, and one with a broker that never does.
MCSettings == {Set("mqtt", TRUE, FALSE), Set("xunji", TRUE, FALSE), Set("pandax", TRUE, TRUE),
               Set("ithings", TRUE, TRUE), Set("sagoo", TRUE, FALSE), Set("ithings", FALSE, FALSE)}
Pandax == {Set("pandax", TRUE, FALSE)}
=============================================================================
