----------------------------- MODULE MCCommands -----------------------------
(* TLC: the commands of the platforms, and the circuit breaker.  The two    *)
(* share no state: every behaviour is one of the one part or of the other.  *)
EXTENDS Commands, Breaker, FiniteSets

CONSTANT MaxRemoved   \* bound: adapters that are removed

ASSUME MCCommandsAssumption == MaxRemoved \in Nat

VARIABLE part

mcVars == <<part, CommandsVars, BreakerVars>>

MCInit == part \in {"commands", "breaker"} /\ CommandsInit /\ BreakerInit

MCNext ==
    \/ /\ part = "commands" /\ CommandsNext /\ UNCHANGED <<part, BreakerVars>>
       /\ Cardinality(CmdAdapter \ enabledAdapters') <= MaxRemoved
    \/ part = "breaker" /\ BreakerNext /\ UNCHANGED <<part, CommandsVars>>

MCSpec == MCInit /\ [][MCNext]_mcVars /\ CommandsFairness
=============================================================================
