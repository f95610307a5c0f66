-------------------------- MODULE MCRolloutAnalyzer --------------------------
(* One replica, polls up to two intervals apart.                                *)
EXTENDS RolloutAnalyzer

MCZero == [desired |-> 1, updated |-> 0, available |-> 0, unavailable |-> 0]
MCCounts == {[desired |-> 1, updated |-> 0, available |-> 0, unavailable |-> 1],
             [desired |-> 1, updated |-> 1, available |-> 0, unavailable |-> 1],
             [desired |-> 1, updated |-> 1, available |-> 1, unavailable |-> 0]}
MCSignalSets == {{}, {"unreadable"}, {"waiting"}, {"restarts"},
                 {"waiting", "restarts"}, {"waiting", "exceeded"}}
==============================================================================
