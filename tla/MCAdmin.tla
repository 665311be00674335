------------------------------ MODULE MCAdmin ------------------------------
(* TLC: the drivers, the start of the process and the product keys.  They   *)
(* share no state: every behaviour is one of one part, the others stay at   *)
(* one of their initial states, and only its own part's fairness is asked   *)
(* of it.                                                                   *)
EXTENDS Drivers, Startup, ProductKeys

VARIABLE part

mcVars == <<part, DriversVars, StartupVars, ProductKeysVars>>

\* The two devices share a driver; the key device 1 has is the one the other
\* driver declares, device 2 has none.
FirstDriver == CHOOSE v \in KeyDriver : TRUE
SharedDriver ==
    /\ \A d \in KeyDevice : devRow[d].driver = FirstDriver
    /\ devRow[1].key = "k2" /\ devRow[2].key = ""
    /\ \A v \in KeyDriver : fileKey[v] = IF v = FirstDriver THEN "k1" ELSE "k2"

MCInit ==
    /\ ProductKeysInit /\ SharedDriver
    /\ part \in {"drivers", "startup", "keys"}
    \* The driver there is, if any, is of the device's own type.
    /\ DriversInit /\ (part # "drivers" => DOMAIN rows = {})
    /\ \A i \in DOMAIN rows : rows[i].name = Candidates[1]
    /\ StartupInit /\ (part # "startup" => origin[1] = "fresh")

\* The requests are alike: a new one is the first that is free.
Free(p) == work[p].steps = <<>>
FirstFree(p) == p = CHOOSE q \in DriverRequest : Free(q)
InTurn == \A p \in DriverRequest : Free(p) /\ work'[p].steps # <<>> => FirstFree(p)

\* An edit that enables or disables a device changes nothing else of it.
SmallEdit ==
    \A d \in DOMAIN devRow \cap DOMAIN devRow' :
        devRow'[d].enabled # devRow[d].enabled =>
            devRow'[d] = [devRow[d] EXCEPT !.enabled = devRow'[d].enabled]

MCNext ==
    /\ UNCHANGED part
    /\ \/ part = "drivers" /\ DriversNext /\ InTurn /\ UNCHANGED <<StartupVars, ProductKeysVars>>
       \/ part = "startup" /\ StartupNext /\ UNCHANGED <<DriversVars, ProductKeysVars>>
       \/ part = "keys" /\ ProductKeysNext /\ SmallEdit /\ UNCHANGED <<DriversVars, StartupVars>>

\* DriversFairness, StartupFairness and ProductKeysFairness, each asked of its
\* own part.
MCSpec ==
    /\ MCInit /\ [][MCNext]_mcVars
    /\ WF_DriversVars(part = "drivers" /\ Collection)
    /\ \A p \in DriverRequest :
         WF_DriversVars(part = "drivers" /\ (RowStep(p) \/ FileStep(p) \/ PluginStep(p)))
    /\ WF_StartupVars(part = "startup" /\ Proceed)
    /\ \A d \in KeyDevice : SF_ProductKeysVars(part = "keys" /\ ReadAgain(d))
    /\ \A r \in Reader : SF_ProductKeysVars(part = "keys" /\ ReadingStep(r))
    /\ WF_ProductKeysVars(part = "keys" /\ SyncKeys)

\* A start that keeps being interrupted comes up in the end (ComesUp of
\* Startup, for the behaviours of that part).
StartupComesUp == part = "startup" => ComesUp

\* A device whose driver can be found again is served in the end (DeviceServed
\* of Drivers, for the behaviours of that part).
DeviceServedInTheEnd == part = "drivers" => DeviceServed

\* Every enabled device ends up with the key fixed for its driver (KeysConverge
\* of ProductKeys, for the behaviours of that part).
KeysConvergeInTheEnd == part = "keys" => KeysConverge

MCCandidates == <<"n1", "n2">>
=============================================================================
