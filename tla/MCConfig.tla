------------------------------ MODULE MCConfig ------------------------------
(* TLC: configuration (northbound, resources, runtime settings, the file    *)
(* the process starts from), a reading (the rows it is written as, the      *)
(* fields looked up in it) and the platform's own (system statistics, log   *)
(* files).  They share no state: every behaviour is one of one part, and    *)
(* the others stay at one of their initial states.                          *)
EXTENDS Northbound, Resources, RuntimeConfig, ConfigLoad, CollectBatch,
        FieldLookup, SystemStats, LogRotation, TLC

CONSTANTS MaxDisturbances,  \* bound: faults of a Northbound behaviour; a restart counts for two
          MaxDisturbed,     \* bound: requests of a behaviour with faults, or with several rows
          MaxItems          \* bound: points and fields of a reading looked up after another one

ASSUME MCConfigAssumption == {MaxDisturbances, MaxDisturbed, MaxItems} \subseteq Nat

VARIABLE part

ConfigVars == <<NorthboundVars, ResourcesVars, RuntimeConfigVars, ConfigLoadVars>>
DataVars == <<CollectBatchVars, FieldLookupVars>>
PlatformVars == <<SystemStatsVars, LogRotationVars>>
mcVars == <<part, ConfigVars, DataVars, PlatformVars>>

MCInit ==
    /\ part \in {"northbound", "resource", "settings", "load",
                "batch", "lookup", "stats", "log"}
    /\ RuntimeConfigInit /\ (part # "settings" => ~anew)
    /\ ConfigLoadInit /\ LogRotationInit
    /\ SystemStatsInit /\ (part # "stats" => Len(counters) = 4)
    /\ ResourcesInit /\ (part # "resource" => row.path = "")
    /\ NorthboundInit /\ (part # "northbound" => DOMAIN nbRows = {})
    /\ CollectBatchInit /\ (part # "batch" => fields = {} /\ points = <<>> /\ stored = FALSE)
    /\ FieldLookupInit /\ (part # "lookup" => rawPoints = <<>> /\ DOMAIN raw = {})

Disturbances == initFaults + dbFaults + 2 * restarts

ConfigNext ==
    /\ UNCHANGED <<DataVars, PlatformVars>>
    /\ \/ /\ part = "northbound" /\ NorthboundNext
          /\ Disturbances' <= MaxDisturbances
          /\ nbRequests' > MaxDisturbed => Disturbances' = 0 /\ Cardinality(DOMAIN nbRows') <= 1
          /\ Cardinality(DOMAIN nbRows') > 1 => Disturbances' <= 1
          /\ UNCHANGED <<ResourcesVars, RuntimeConfigVars, ConfigLoadVars>>
       \/ /\ part = "resource" /\ ResourcesNext
          /\ resEdits' > MaxDisturbed => resFaults' = 0
          /\ UNCHANGED <<NorthboundVars, RuntimeConfigVars, ConfigLoadVars>>
       \/ /\ part = "settings" /\ RuntimeConfigNext
          /\ UNCHANGED <<NorthboundVars, ResourcesVars, ConfigLoadVars>>
       \/ /\ part = "load" /\ ConfigLoadNext
          /\ UNCHANGED <<NorthboundVars, ResourcesVars, RuntimeConfigVars>>

DataNext ==
    /\ UNCHANGED <<ConfigVars, PlatformVars>>
    /\ \/ part = "batch" /\ CollectBatchNext /\ UNCHANGED FieldLookupVars
       \/ /\ part = "lookup" /\ FieldLookupNext /\ UNCHANGED CollectBatchVars
          /\ readings' > 1 => Len(rawPoints') + Cardinality(DOMAIN raw') <= MaxItems

PlatformNext ==
    /\ UNCHANGED <<ConfigVars, DataVars>>
    /\ \/ part = "stats" /\ SystemStatsNext /\ UNCHANGED LogRotationVars
       \/ part = "log" /\ LogRotationNext /\ UNCHANGED SystemStatsVars

MCNext == UNCHANGED part /\ (ConfigNext \/ DataNext \/ PlatformNext)

MCSpec == MCInit /\ [][MCNext]_mcVars

\* Fields as a driver may name them: padded, and twice once trimmed.
MCFieldKeys ==
    {{}, {<<"a", FALSE>>}, {<<"a", TRUE>>, <<"b", FALSE>>}, {<<"a", FALSE>>, <<"b", FALSE>>},
     {<<"a", FALSE>>, <<"a", TRUE>>, <<"b", FALSE>>}}

MCLower == [n \in LookupName |-> "t"]

\* Counters close to wrapping around, and a line of too few of them; steps
\* forwards, and steps in which one goes back.
MCCounters0 == {<<31, 5, 0, 30, 8>>, <<1, 2, 3>>, <<30, 2, 3, 31>>}
MCSteps == {<<0, 0, 0, 0, 0>>, <<2, 0, 2, 1, -1>>, <<0, 0, 0, 1, -2>>}

\* Lines of every depth and fault, and settings that are applied in every way.
KeyLine(i, k, v) == [kind |-> "key", indent |-> i, key |-> k, value |-> v]
OtherLine(i, kind) == [kind |-> kind, indent |-> i, key |-> "", value |-> NoValue]
MCConfigLine ==
    {KeyLine(0, "a", NoValue), KeyLine(0, "b", NoValue), KeyLine(2, "a", NoValue),
     KeyLine(0, "a", 1), KeyLine(2, "a", 2), KeyLine(2, "b", 0), KeyLine(2, "b", Unparsable),
     KeyLine(4, "a", 3), KeyLine(3, "a", 1),
     OtherLine(0, "comment"), OtherLine(1, "comment"), OtherLine(0, "junk")}
MCSetting ==
    {[path |-> <<"a", "a">>, file |-> "count", env |-> "fallback"],
     [path |-> <<"a", "b">>, file |-> "duration", env |-> "positive"],
     [path |-> <<"a">>, file |-> "string", env |-> "string"],
     [path |-> <<"b", "a">>, file |-> "duration", env |-> "number"]}
MCDefault == [s \in MCSetting |-> 5]
MCEnvironment == {[s \in MCSetting |-> v] : v \in {NoValue, Unparsable, 0, 7}}

MCSymmetry == Permutations(NbId) \cup Permutations(NbName) \cup Permutations(NbRequest)
=============================================================================
