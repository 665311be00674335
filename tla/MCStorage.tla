----------------------------- MODULE MCStorage -----------------------------
(* TLC: how readings get to disk, and how they are read again.  Storage has *)
(* the sync and the shutdown, History the queries with a sync reduced to    *)
(* what they see of it; they share no state here, and every behaviour is    *)
(* one of one part, while the other stays as it began.  History's disk      *)
(* starts empty or with a row of every field; a deletion leads to the rest. *)
EXTENDS Storage, History, TLC

CONSTANT MaxMishaps   \* bound: ticks and failing statements of one behaviour of Storage

ASSUME MCStorageAssumption == MaxMishaps \in Nat

VARIABLE part

mcVars == <<part, vars, HistoryVars>>

MCInit ==
    /\ part \in {"storage", "history", "latest"}
    /\ Init
    /\ HistoryInit /\ Cardinality(diskRows) # 1 /\ (part = "storage" => diskRows = {})

\* History is followed until its last query is answered.
Answering == queries < MaxQueries \/ query.pc = "disk" \/ latest.pc = "disk"

\* A history query does not look at the cache: where one is asked, only
\* readings that are stored are followed.
OfPart ==
    /\ part = "history" => latest'.pc = "idle" /\ (memRows' = memRows => cacheRows' = cacheRows)
    /\ part = "latest" => query'.pc = "idle"

MCNext ==
    /\ UNCHANGED part
    /\ \/ /\ part = "storage" /\ Next /\ UNCHANGED HistoryVars
          /\ clock' + faults' <= MaxMishaps
       \/ part \in {"history", "latest"} /\ Answering /\ HistoryNext /\ OfPart /\ UNCHANGED vars

MCSpec == MCInit /\ [][MCNext]_mcVars

Symmetry == Permutations(Source)
=============================================================================
