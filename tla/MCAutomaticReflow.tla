--------------------------- MODULE MCAutomaticReflow ---------------------------
(* Instances of the two halves of automatic reflow: when a slot is arranged again  *)
(* (ReflowScheduler), and how its transition fares among drags and commands          *)
(* (TransitionWorker).  A behaviour is one of one of them: `part` says of which.     *)
EXTENDS MCTransitionWorker, ReflowScheduler

VARIABLE part

One == {1}
Two == {2}
OneTwo == {1, 2}
UndoOnly == {"undo"}

MCInit ==
    /\ part \in {"worker", "rules"}
    /\ Init /\ ReflowInit
    /\ part = "worker" => input = [s \in RuleSet |-> 1]

MCNext ==
    \/ part = "worker" /\ Next /\ UNCHANGED <<part, reflowVars>>
    \/ part = "rules" /\ ReflowNext /\ UNCHANGED <<part, vars>>

\* The fairness of FairSpec and of ReflowFairness.
MCFairness ==
    /\ WF_vars(part = "worker" /\ CommandStep)
    /\ WF_vars(part = "worker" /\ DrainCommand)
    /\ WF_vars(part = "worker" /\ Conclude)
    /\ WF_reflowVars(part = "rules" /\ QuarterPasses)
    /\ WF_reflowVars(part = "rules" /\ Refreshes)
    /\ WF_reflowVars(part = "rules" /\ LooksAgain)
    /\ SF_reflowVars(part = "rules" /\ Pass)

MCSpec == MCInit /\ [][MCNext]_<<part, vars, reflowVars>> /\ MCFairness

-----------------------------------------------------------------------------

\* Where continuous rules run: a change that stays is dealt with, whatever other
\* slots do (ReflowScheduler!DealtWith).
RulesDealtWith == part = "rules" => DealtWith

\* Where the worker runs: one that is asked to shut down stops, whatever it is
\* waiting for (TransitionWorker!ShutdownStops).
WorkerStops == part = "worker" => ShutdownStops
=============================================================================
