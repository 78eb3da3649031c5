-------------------------- MODULE TransitionPlanner --------------------------
(***************************************************************************)
(* The runtime a transition is planned against, and the planning itself:     *)
(* which windows a request wants where, which domains it falls apart into,   *)
(* what it would change, what makes a plan stale, and how a settled          *)
(* transition is reversed.                                                   *)
(*                                                                          *)
(* A frame is abstracted to the slot it lies in, or Free; the layout engine  *)
(* gives every shown window of a slot its place there.  A view has one root  *)
(* and is presented as a whole: Leaves are the windows of its placements,    *)
(* Shown those of the selected tabs.  The configuration does not change.     *)
(***************************************************************************)
EXTENDS Naturals, Sequences, FiniteSets, Functions

CONSTANTS
    Windows, Slots, Views,
    None,        \* no slot, no view, no change
    Free,        \* a frame in no slot
    Leaves,      \* [Views -> SUBSET Windows]: the placements of a view
    Shown,       \* those in its selected tabs
    Hideable     \* windows that may be hidden

\* Presentation.bindings: the lifetime of each window that a presentation knows.
Bindings == UNION {[S -> Nat] : S \in SUBSET Windows}

ASSUME PlannerAssumption ==
    /\ None \notin Windows \cup Slots \cup Views \cup BOOLEAN
    /\ None \notin [view : Views, bindings : Bindings]
    /\ Free \notin Slots \cup {None}
    /\ Leaves \in [Views -> SUBSET Windows]
    /\ Shown \in [Views -> SUBSET Windows]
    /\ \A v \in Views : Shown[v] \subseteq Leaves[v]
    /\ Hideable \subseteq Windows

VARIABLES
    claims,         \* Runtime.claims: the slot that owns each window
    presentations,  \* Runtime.presentations: what each slot shows
    generations,    \* Runtime.generations
    suspended,      \* Runtime.suspended
    paused,         \* Runtime.paused
    completed,      \* Runtime.completed: requests that were carried out
    topology,       \* Snapshot.topology_revision
    life,           \* the native lifetime each reference is bound to
    alive,          \* it has not ended
    at,             \* where its frame lies
    visible         \* whether it is visible

runtime == <<claims, presentations, generations, suspended, paused, completed>>
screen == <<life, alive, at, visible>>

Places == Slots \cup {Free}
Observation == [life : Nat, at : Places, visible : BOOLEAN]
Mutation == [at : Places \cup {None}, visible : BOOLEAN \cup {None}]

\* State.refresh: the windows whose binding can be observed.
snapshot ==
    [w \in {v \in Windows : alive[v]} |->
        [life |-> life[w], at |-> at[w], visible |-> visible[w]]]

-----------------------------------------------------------------------------
(* Requests.                                                                 *)

\* A request names a view, or None to release it, for each slot of its scope.
Request(Ids) ==
    [id : Ids, mode : {"open", "restore", "reflow"},
     targets : UNION {[S -> Views \cup {None}] : S \in (SUBSET Slots) \ {{}}}]

Scope(request) == DOMAIN request.targets

Targets(request, slot) ==
    IF request.targets[slot] = None THEN {} ELSE Shown[request.targets[slot]]

RootBindings(view) == [w \in Leaves[view] \cap DOMAIN snapshot |-> life[w]]

Presentation(view) ==
    IF view = None THEN None ELSE [view |-> view, bindings |-> RootBindings(view)]

Claimed(slot) == {w \in Windows : claims[w] = slot}

\* A window owned by a slot the scope does not hold.
Foreign(w, scope) == claims[w] \notin scope \cup {None}

\* domains: slots are connected when their placements or what they own meet.
Resources(request, slot) ==
    Claimed(slot) \cup
    (IF request.targets[slot] = None THEN {} ELSE Leaves[request.targets[slot]])

Apart(request, part) ==
    \A s \in part, t \in Scope(request) \ part :
        Resources(request, s) \cap Resources(request, t) = {}

Domains(request) ==
    {part \in (SUBSET Scope(request)) \ {{}} :
        /\ Apart(request, part)
        /\ \A less \in (SUBSET part) \ {{}} : Apart(request, less) => less = part}

\* Carried out before, or an ordinary recall of what is presented already.
Idempotent(request) ==
    \/ request.id \in completed
    \/ /\ request.mode = "open"
       /\ \A s \in Scope(request) :
            /\ presentations[s] = Presentation(request.targets[s])
            /\ request.targets[s] = None => Claimed(s) = {}

\* Each window goes to one slot and is taken from no slot outside the scope.
Satisfiable(request) ==
    /\ \A s, t \in Scope(request) :
        s # t => Targets(request, s) \cap Targets(request, t) = {}
    /\ \A s \in Scope(request) : \A w \in Targets(request, s) :
        ~Foreign(w, Scope(request))

-----------------------------------------------------------------------------
(* Plans.                                                                    *)

Desired(request) ==
    [w \in UNION {Targets(request, s) : s \in Scope(request)} |->
        CHOOSE s \in Scope(request) : w \in Targets(request, s)]

\* Owned windows of the scope and tabs of its views that are no longer shown.
Leaving(request) ==
    {w \in Windows \ DOMAIN Desired(request) :
        /\ ~Foreign(w, Scope(request))
        /\ \E s \in Scope(request) : w \in Resources(request, s)}

LeavingSlot(request, w) ==
    IF claims[w] # None THEN claims[w]
    ELSE CHOOSE s \in Scope(request) : w \in Resources(request, s)

Hides(request) == {w \in Leaving(request) \cap Hideable :
                    w \in DOMAIN snapshot /\ visible[w]}

Change(w, slot) ==
    [at |-> IF at[w] = slot THEN None ELSE slot,
     visible |-> IF visible[w] THEN None ELSE TRUE]

NoChange == [at |-> None, visible |-> None]
Hide == [at |-> None, visible |-> FALSE]

\* plan_pass: base is history, the presentations the plan was made from.
Plan(request) ==
    LET desired == Desired(request)
        live == DOMAIN desired \cap DOMAIN snapshot
        moved == {w \in live : Change(w, desired[w]) # NoChange}
        hides == Hides(request)
        quiet == Idempotent(request)
    IN [id |-> request.id,
        mode |-> request.mode,
        idempotent |-> quiet,
        scope |-> Scope(request),
        domains |-> Domains(request),
        generations |-> Restrict(generations, Scope(request)),
        topology |-> topology,
        presentations |-> [s \in Scope(request) |-> Presentation(request.targets[s])],
        desired |-> IF quiet THEN <<>> ELSE desired,
        expected |-> IF quiet THEN <<>> ELSE Restrict(snapshot, live \cup hides),
        mutations |-> IF quiet THEN <<>>
            ELSE [w \in moved \cup hides |->
                    IF w \in hides THEN Hide ELSE Change(w, desired[w])],
        slots |-> IF quiet THEN <<>>
            ELSE [w \in moved \cup hides |->
                    IF w \in hides THEN LeavingSlot(request, w) ELSE desired[w]],
        blocked |-> FALSE,
        base |-> Restrict(presentations, Scope(request))]

Manageable(scope) == ~paused /\ suspended \cap scope = {}

Within(request, scope) ==
    [request EXCEPT !.targets = Restrict(request.targets, scope)]

\* plan_independent: the whole request, or what can be satisfied of its domains;
\* domains already in place are left out of it, unless all of them are.
Plans(request) ==
    LET part(d) == Within(request, d)
        good == {d \in Domains(request) : Satisfiable(part(d))}
        busy == {d \in good : ~Idempotent(part(d))}
        scope == UNION (IF busy = {} THEN good ELSE busy)
    IN IF ~Manageable(Scope(request)) THEN {}
       ELSE IF Idempotent(request) \/ Satisfiable(request) THEN {Plan(request)}
       ELSE IF good = {} THEN {}
       ELSE {[Plan(part(scope)) EXCEPT !.blocked = TRUE]}

-----------------------------------------------------------------------------
(* Authority: whether a plan still may be carried out.                       *)

\* Mutant of FreshGenerations: an older plan is as good as a new one.
AnyGenerations(plan) == TRUE

\* No slot of the plan has been changed or superseded since it was made.
FreshGenerations(plan) ==
    \A s \in DOMAIN plan.generations : generations[s] = plan.generations[s]

\* No window of the plan has been claimed by a slot outside its scope.
UnclaimedElsewhere(plan) ==
    \A w \in DOMAIN plan.desired \cup DOMAIN plan.mutations : ~Foreign(w, plan.scope)

Authorized(plan) ==
    /\ Manageable(plan.scope)
    /\ FreshGenerations(plan)
    /\ topology = plan.topology
    /\ UnclaimedElsewhere(plan)

Revalidates(plan) ==
    /\ Authorized(plan)
    /\ \A w \in DOMAIN plan.expected :
        w \in DOMAIN snapshot /\ snapshot[w] = plan.expected[w]

\* What the window should look like once the plan has settled.
Asked(change, prior) == IF change = None THEN prior ELSE change

Settling(plan, w) ==
    LET change == IF w \in DOMAIN plan.mutations THEN plan.mutations[w] ELSE NoChange
    IN [plan.expected[w] EXCEPT !.at = Asked(change.at, @),
                                !.visible = Asked(change.visible, @)]

\* Mutant of InPlace: to be there is enough.
Present(plan, w) == w \in DOMAIN snapshot

InPlace(plan, w) == w \in DOMAIN snapshot /\ snapshot[w] = Settling(plan, w)

\* What the plan wants of the windows of some of its slots.
Concerns(plan, w, slots) ==
    \/ w \in DOMAIN plan.desired /\ plan.desired[w] \in slots
    \/ w \in DOMAIN plan.mutations /\ plan.slots[w] \in slots

\* scoped_subset
Subplan(plan, slots) ==
    LET mine == {w \in DOMAIN plan.mutations : plan.slots[w] \in slots} IN
    [plan EXCEPT
        !.scope = @ \cap slots,
        !.domains = {d \cap slots : d \in @} \ {{}},
        !.generations = Restrict(@, DOMAIN @ \cap slots),
        !.presentations = Restrict(@, DOMAIN @ \cap slots),
        !.desired = RestrictValues(@, LAMBDA s : s \in slots),
        !.mutations = Restrict(@, mine),
        !.slots = Restrict(@, mine),
        !.blocked = FALSE,
        !.base = Restrict(@, DOMAIN @ \cap slots)]

\* settled_scope: the domain's windows are in place and its authority is fresh.
SettledScope(plan, domain) ==
    /\ Authorized(Subplan(plan, domain))
    /\ \A w \in DOMAIN plan.expected : Concerns(plan, w, domain) => InPlace(plan, w)

-----------------------------------------------------------------------------
(* Commit, and reversal of what was committed.                               *)

Holds(plan, w, slots) ==
    w \in DOMAIN plan.desired \cap DOMAIN plan.expected /\ plan.desired[w] \in slots

\* Plan::commit for some slots of the plan; the other slots of its scope own
\* nothing any more.
\* Mutant of ClaimsAfter: what the scope owned before is kept.
ClaimsAdded(plan, committed) ==
    [w \in Windows |->
        IF Holds(plan, w, committed) THEN plan.desired[w] ELSE claims[w]]

ClaimsAfter(plan, committed) ==
    [w \in Windows |->
        IF Holds(plan, w, committed) THEN plan.desired[w]
        ELSE IF claims[w] \in plan.scope THEN None ELSE claims[w]]

\* Mutant of PresentationsAfter: a failed slot goes on showing what it did.
PresentationsKept(plan, committed) ==
    [s \in Slots |->
        IF s \in committed THEN plan.presentations[s] ELSE presentations[s]]

PresentationsAfter(plan, committed) ==
    [s \in Slots |->
        IF s \in committed THEN plan.presentations[s]
        ELSE IF s \in plan.scope THEN None ELSE presentations[s]]

Bumped(slots) == [s \in Slots |-> generations[s] + (IF s \in slots THEN 1 ELSE 0)]

\* Mutant of Capture: only the windows that stay are remembered.
CaptureShown(plan, committed) ==
    LET part == Subplan(plan, committed) IN
    [plan |-> part,
     presentations |-> Restrict(presentations, committed),
     claims |-> [w \in {v \in Windows : claims[v] \in committed} |-> claims[w]],
     after |-> Restrict(snapshot, DOMAIN part.desired \cap DOMAIN part.expected
                                   \cap DOMAIN snapshot),
     generations |-> [s \in committed |-> generations[s] + 1]]

\* UndoRecord::capture, before the commit it records.
Capture(plan, committed) ==
    LET part == Subplan(plan, committed)
        touched == DOMAIN part.desired \cup DOMAIN part.mutations
                   \cup {w \in Windows : claims[w] \in committed}
    IN [plan |-> part,
        presentations |-> Restrict(presentations, committed),
        claims |-> [w \in {v \in Windows : claims[v] \in committed} |-> claims[w]],
        after |-> Restrict(snapshot, touched \cap DOMAIN part.expected \cap DOMAIN snapshot),
        generations |-> [s \in committed |-> generations[s] + 1]]

\* The window as it was before the transition, where that differs from now.
Restoration(record, w) ==
    LET prior == record.plan.expected[w]
        now == record.after[w]
        change == record.plan.mutations[w]
    IN [at |-> IF change.at # None /\ prior.at # now.at THEN prior.at ELSE None,
        visible |-> IF change.visible # None /\ prior.visible # now.visible
                    THEN prior.visible ELSE None]

\* UndoRecord::reverse, once it can be derived at all.
Reversal(record, id) ==
    LET back == [w \in DOMAIN record.plan.mutations |-> Restoration(record, w)]
        changed == {w \in DOMAIN back : back[w] # NoChange}
    IN [record.plan EXCEPT
        !.id = id,
        !.mode = "undo",
        !.idempotent = FALSE,
        !.generations = record.generations,
        !.expected = record.after,
        !.presentations = record.presentations,
        !.desired = record.claims,
        !.mutations = Restrict(back, changed),
        !.base = record.plan.presentations]

Reversals(record, id) ==
    LET plan == Reversal(record, id) IN
    {p \in {plan} :
        /\ DOMAIN record.claims \subseteq DOMAIN record.plan.expected
        /\ \A w \in DOMAIN p.mutations : p.mutations[w].visible = FALSE => w \in Hideable
        /\ Revalidates(p)}

\* rebase_after_undo: the record below follows what the undo brought back.
Rebased(record, shown, gens) ==
    IF /\ \A w \in DOMAIN record.after :
            w \in DOMAIN snapshot /\ snapshot[w] = record.after[w]
       /\ \A s \in record.plan.scope : shown[s] = record.plan.presentations[s]
    THEN [record EXCEPT !.generations = Restrict(gens, record.plan.scope)]
    ELSE record
=============================================================================
