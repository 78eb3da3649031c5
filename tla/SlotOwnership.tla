------------------------------ MODULE SlotOwnership ------------------------------
(* What the transition worker promises about slots, whatever its planning, its      *)
(* queues and the windows do: a window has at most one owner, an owner shows a view, *)
(* and what a slot shows or owns changes only together with its generation, in one    *)
(* step for all the slots that give or take a window.                                *)
EXTENDS Integers

CONSTANTS Windows, Slots, Nobody

VARIABLES
    owner,          \* the slot a window belongs to, or Nobody
    shown,          \* what a slot shows, or Nobody
    generation      \* counts the changes of a slot

promised == <<owner, shown, generation>>

Init ==
    /\ owner = [w \in Windows |-> Nobody]
    /\ shown = [s \in Slots |-> Nobody]
    /\ generation = [s \in Slots |-> 0]

Counts(slots) ==
    generation' = [s \in Slots |-> generation[s] + (IF s \in slots THEN 1 ELSE 0)]

\* The slots show and own nothing more.
Release(slots) ==
    /\ owner' = [w \in Windows |-> IF owner[w] \in slots THEN Nobody ELSE owner[w]]
    /\ shown' = [s \in Slots |-> IF s \in slots THEN Nobody ELSE shown[s]]
    /\ Counts(slots)

\* What was planned for the slots is void.
Outdate(slots) == Counts(slots) /\ UNCHANGED <<owner, shown>>

\* A transition of the slots ends: those in kept show a view, the others nothing, and
\* a window goes to a slot in kept or is nobody's, unless it was of no slot concerned.
Settle(slots, kept) ==
    /\ DOMAIN shown' = Slots
    /\ \A s \in Slots :
          IF s \in kept THEN shown'[s] # Nobody
          ELSE shown'[s] = IF s \in slots THEN Nobody ELSE shown[s]
    /\ owner' \in [Windows -> Slots \cup {Nobody}]
    /\ \A w \in Windows :
          \/ owner'[w] = owner[w] /\ owner[w] \notin slots \ kept
          \/ owner[w] \in slots \cup {Nobody} /\ owner'[w] \in kept \cup {Nobody}
    /\ Counts(slots)

Next ==
    \E slots \in SUBSET Slots :
       \/ Release(slots)
       \/ Outdate(slots)
       \/ \E kept \in SUBSET slots : Settle(slots, kept)

Spec == Init /\ [][Next]_promised
=============================================================================
