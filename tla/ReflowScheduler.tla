---------------------------- MODULE ReflowScheduler ----------------------------
(***************************************************************************)
(* Continuous rules: the worker arranges a slot again when what its layout    *)
(* depends on has changed and has then been the same for a quarter of a        *)
(* second, one transition in each pass over the slots.  It judges by a          *)
(* snapshot, taken now and then, and not at all while somebody works with the    *)
(* windows.  Its loop has time for the rules only when no command comes, no undo   *)
(* waits and what Windows reported has been looked at.  The transition itself is    *)
(* the subject of TransitionWorker.                                                *)
(***************************************************************************)
EXTENDS Naturals, Sequences

CONSTANTS
    NoInput,     \* nothing is due, or finished
    RuleSlots,   \* slots that may have continuous rules, in their order: 1..n
    Inputs,      \* what the layout of a slot may depend on
    Hindrances,  \* of "undo", one is previewed and not applied, "commands", they leave no
                 \* pause of 50 ms, and "unmanaged", the session is not to recover on exit
    Fickle,      \* bound: slots whose layout loses its rule and gets it back
    Watched      \* bound: slots a history is kept of

ASSUME ReflowAssumption ==
    /\ RuleSlots \in Nat \ {0}
    /\ NoInput \notin Inputs
    /\ Hindrances \subseteq {"undo", "commands", "unmanaged"}
    /\ Fickle \cup Watched \subseteq 1..RuleSlots

VARIABLES
    input,    \* what each slot's layout depends on
    ruled,    \* slots presenting a layout with a continuous rule
    busy,     \* somebody works with the windows, or moves one
    dirty,    \* Windows reported a change that no snapshot was taken for yet
    barred,   \* which of Hindrances keep the loop from the rules
    seen,     \* the snapshot: inputs and busy
    quarter,  \* a quarter of a second has passed since the snapshot
    due,      \* ReflowScheduler.pending: input, and whether it is old enough
    finished, \* ReflowScheduler.finished
    shown     \* history: what snapshots have shown since the slot was dealt with
              \* last, and what of it they did a quarter of a second ago

world == <<input, ruled, busy>>
loop == <<dirty, barred>>
reflowVars == <<world, loop, seen, quarter, due, finished, shown>>

RuleSet == 1..RuleSlots
NotPending == [of |-> NoInput, old |-> FALSE]

ReflowInit ==
    /\ input \in [RuleSet -> Inputs]
    /\ ruled = RuleSet
    /\ busy = FALSE
    /\ dirty = FALSE
    /\ barred \in SUBSET (Hindrances \cap {"unmanaged"})
    /\ seen = [input |-> input, busy |-> FALSE]
    /\ quarter = FALSE
    /\ due = [s \in RuleSet |-> NotPending]
    /\ finished = [s \in RuleSet |-> NoInput]
    /\ shown = [s \in Watched |-> [lately |-> {input[s]}, before |-> {}]]

schedule == <<due, finished>>

\* Windows are moved by their applications, monitors change, rules are edited.
WorldChanges ==
    /\ \/ \E s \in RuleSet, i \in Inputs : input' = [input EXCEPT ![s] = i] /\ UNCHANGED <<busy, ruled>>
       \/ busy' = ~busy /\ UNCHANGED <<input, ruled>>
       \/ \E s \in Fickle : ruled' = (ruled \ {s}) \cup ({s} \ ruled) /\ UNCHANGED <<input, busy>>
    /\ UNCHANGED <<loop, seen, quarter, schedule, shown>>

\* NativeEvent::Changed for a bound window, whether or not a layout depends on it.
Reported ==
    /\ dirty' = TRUE
    /\ UNCHANGED <<world, barred, seen, quarter, schedule, shown>>

\* An undo is previewed, or applied; commands begin or cease to come all the time.
Occupied ==
    /\ \E h \in Hindrances \ {"unmanaged"} : barred' = (barred \ {h}) \cup ({h} \ barred)
    /\ UNCHANGED <<world, dirty, seen, quarter, schedule, shown>>

\* A quarter of a second since the snapshot; one that several snapshots share
\* counts where it ends.
QuarterPasses ==
    /\ ~quarter
    /\ quarter' = TRUE
    /\ UNCHANGED <<world, loop, seen, schedule, shown>>

\* Pending inputs grow old; what was shown is remembered.
Aged(pending) ==
    [s \in RuleSet |->
        IF quarter /\ pending[s] # NotPending THEN [of |-> pending[s].of, old |-> TRUE]
        ELSE pending[s]]

\* What snapshots have shown since slots were dealt with is forgotten.
Forget(what, inputs, dealt) ==
    [s \in Watched |-> IF s \in dealt THEN [lately |-> {inputs[s]}, before |-> {}]
                     ELSE what[s]]

\* State::refresh: time goes on in snapshots only.
Snapshot(inputs, dealt) ==
    /\ seen' = [input |-> inputs, busy |-> busy]
    /\ quarter' = FALSE
    /\ shown' = Forget([s \in Watched |->
            [lately |-> shown[s].lately \cup {inputs[s]},
             before |-> IF quarter THEN shown[s].lately ELSE shown[s].before]], inputs, dealt)

\* A second after the last of these snapshots.
Refreshes ==
    /\ Snapshot(input, {})
    /\ due' = Aged(due)
    /\ UNCHANGED <<world, loop, finished>>

\* For what was reported, 150 ms after the last of these.
LooksAgain ==
    /\ dirty
    /\ dirty' = FALSE
    /\ Snapshot(input, {})
    /\ due' = Aged(due)
    /\ UNCHANGED <<world, barred, finished>>

\* Mutant: the time runs from when the slot first changed.
DueSinceFirst(s) ==
    IF due[s] = NotPending THEN [of |-> seen.input[s], old |-> FALSE]
    ELSE [of |-> seen.input[s], old |-> due[s].old]

\* ReflowScheduler::ready: the time runs from when this input was first weighed.
DueSince(s) ==
    IF due[s].of = seen.input[s] THEN due[s]
    ELSE [of |-> seen.input[s], old |-> FALSE]

\* RuleSet that are looked at: not while somebody works with the windows, and not
\* for what has been dealt with (completed).
Weighed == {s \in ruled : ~seen.busy /\ finished[s] # seen.input[s]}
Ready == {s \in Weighed : DueSince(s).old}

\* Mutant: an application that failed is tried again.
DealtIfDone(last, failed) == {s \in Ready : s < last \/ (s = last /\ ~failed)}

\* An input counts as dealt with before anything is done about it.
Dealt(last, failed) == {s \in Ready : s <= last}

\* run: no command came for 50 ms, and nothing is in the way.
Idles == ~dirty /\ barred = {}

\* continuous: a pass over the slots that have a rule, up to the first whose
\* plan is applied.  For others no plan is possible or nothing has to be done.
Pass ==
  /\ Idles
  /\ UNCHANGED loop
  /\ \E last \in Ready \cup {RuleSlots + 1}, failed \in BOOLEAN :
        LET applied == last \in RuleSet /\ ~failed
            dealt == Dealt(last, failed)
            later == [s \in RuleSet |->
                IF s \notin ruled \/ s \in dealt THEN NotPending
                ELSE IF s \in Weighed /\ s < last THEN DueSince(s) ELSE due[s]]
        IN /\ finished' = [s \in RuleSet |->
                IF s \notin ruled THEN NoInput
                ELSE IF s \in dealt THEN seen.input[s] ELSE finished[s]]
           /\ IF applied
              THEN /\ \E i \in Inputs : input' = [input EXCEPT ![last] = i]
                   /\ Snapshot(input', dealt)
                   /\ due' = Aged(later)
              ELSE /\ due' = later
                   /\ shown' = Forget(shown, seen.input, dealt)
                   /\ UNCHANGED <<input, seen, quarter>>
           /\ UNCHANGED <<ruled, busy>>

ReflowNext ==
    \/ WorldChanges \/ Reported \/ Occupied
    \/ QuarterPasses \/ Refreshes \/ LooksAgain \/ Pass

\* Time passes, and the worker takes its snapshots.  It goes from the snapshot for
\* what was reported straight on to wait for a command, and the 250 ms since the
\* last pass stay over once they are: a pass that is possible again and again is made.
ReflowFairness ==
    /\ WF_reflowVars(QuarterPasses)
    /\ WF_reflowVars(Refreshes)
    /\ WF_reflowVars(LooksAgain)
    /\ SF_reflowVars(Pass)

-----------------------------------------------------------------------------

\* A layout is arranged again only for what a snapshot has shown a quarter of a
\* second before, since the last time; never in answer to something just seen.
OnlyWhenSteady ==
    [][\A s \in Watched : finished'[s] \notin {finished[s], NoInput}
        => finished'[s] \in shown[s].before]_reflowVars

\* A change to one slot is dealt with once it stays, if from some time on nobody
\* works with the windows, no undo waits to be applied, commands leave a pause and
\* the session is one to recover: slots that change all the time, or fail, and
\* reports of windows without end (dirty) do not keep it waiting.
DealtWith ==
    \A s \in RuleSet :
        <>[](s \in ruled /\ ~busy /\ barred = {}) /\ <>[][input'[s] = input[s]]_reflowVars
            => <>[](finished[s] = input[s])
=============================================================================
