---------------------------- MODULE MCCollector ----------------------------
(* Instances of Collector for TLC. *)
EXTENDS Collector, TLC

CONSTANTS fast, slow

\* Two configurations: a device collected every time unit, or every second one.
MCInterval == [c \in Config |-> IF c = fast THEN 1 ELSE 2]

\* Bounds: once a device was edited the limit is the one at the start.  Where
\* calls of Start and Stop overlap, so is it; the table has one device, not edited,
\* with the short interval, and the sync goroutines list no devices but those a
\* list was begun for.
OneFast == \E d \in Device : db = [NoRows EXCEPT ![d] = fast]
Lists(g) == syncer[g].pc # "work" /\ syncer'[g].pc = "work"
FewAtOnce ==
    /\ edits' # 0 => limit' = MaxLimit
    /\ overlap' # "none" =>
         OneFast /\ edits' = 0 /\ limit' = MaxLimit /\ ~\E g \in Run : Lists(g)

\* Bound: a device that is not collected at the start is not in the table.
MCInit == Init /\ \A d \in Device : db[d] # Disabled
MCSpec == MCInit /\ [][Next]_vars

Symmetry == Permutations(Worker) \cup Permutations(Device)
=============================================================================
