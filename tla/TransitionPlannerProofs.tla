------------------------ MODULE TransitionPlannerProofs ------------------------
(***************************************************************************)
(* What the planner's operators return: plans that are sound and made       *)
(* against the present world, undo records that know every window their      *)
(* reversal changes, and reversals that are sound plans again.  None of it    *)
(* depends on the worker's actions.                                          *)
(***************************************************************************)
EXTENDS TransitionWorker, TLAPS

Requests == Request(Nat)

\* The runtime and the screen have their types.
World ==
    /\ claims \in [Windows -> Slots \cup {None}]
    /\ Presents(presentations)
    /\ DOMAIN presentations = Slots
    /\ generations \in [Slots -> Nat]
    /\ topology \in Nat
    /\ life \in [Windows -> Nat]
    /\ alive \in [Windows -> BOOLEAN]
    /\ at \in [Windows -> Places]
    /\ visible \in [Windows -> BOOLEAN]

\* The windows owned are those the slots show, observed in the lifetime shown.
Backed(owned, observed, shown) ==
    \A w \in DOMAIN owned \cap DOMAIN observed :
        LET view == shown[owned[w]] IN
        /\ view # None
        /\ w \in Shown[view.view]
        /\ w \in DOMAIN view.bindings
        /\ view.bindings[w] = observed[w].life

Fields == {"id", "mode", "idempotent", "scope", "domains", "generations", "topology",
           "presentations", "desired", "expected", "mutations", "slots", "blocked", "base"}

Disjoint(domains) == \A d, e \in domains : d \cap e # {} => d = e

\* Once settled, the windows are visible in the slots they are for.
Arrives(p) ==
    p.mode # "undo" => \A w \in DOMAIN p.desired \cap DOMAIN p.expected :
        Settling(p, w).at = p.desired[w] /\ Settling(p, w).visible = TRUE

PlanSound(p) ==
    /\ IsPlan(p)
    /\ DOMAIN p = Fields
    /\ Disjoint(p.domains)
    /\ DOMAIN p.generations = p.scope
    /\ Backed(p.desired, p.expected, p.presentations)
    /\ Arrives(p)

\* While a generation is what it was, so is what its slot shows.
Timely(slots, gens, base) ==
    \A s \in slots :
        /\ gens[s] <= generations[s]
        /\ gens[s] = generations[s] => presentations[s] = base[s]

PlanTimely(p) == Timely(p.scope, p.generations, p.base)

RecordSound(r) ==
    /\ IsRecord(r)
    /\ DOMAIN r = {"plan", "presentations", "claims", "after", "generations"}
    /\ DOMAIN r.plan = Fields
    /\ Disjoint(r.plan.domains)
    /\ DOMAIN r.generations = r.plan.scope
    /\ DOMAIN r.presentations = r.plan.scope
    /\ DOMAIN r.plan.mutations \subseteq DOMAIN r.after
    /\ Backed(r.claims, r.after, r.presentations)

RecordTimely(r) == Timely(r.plan.scope, r.generations, r.plan.presentations)

-----------------------------------------------------------------------------
(* Domains.                                                                  *)

LEMMA ApartMeet ==
    ASSUME NEW request, NEW d \in SUBSET Scope(request), NEW e \in SUBSET Scope(request),
           Apart(request, d), Apart(request, e)
    PROVE  Apart(request, d \cap e)
  BY DEF Apart

LEMMA ApartRest ==
    ASSUME NEW request, NEW d \in SUBSET Scope(request), Apart(request, d)
    PROVE  Apart(request, Scope(request) \ d)
  BY DEF Apart

\* Connected slots fall into domains that have no slot in common.
LEMMA DomainsDisjoint ==
    ASSUME NEW request PROVE Disjoint(Domains(request))
  <1> SUFFICES ASSUME NEW d \in Domains(request), NEW e \in Domains(request), d \cap e # {}
               PROVE  d = e
    BY DEF Disjoint
  <1>1. Apart(request, d \cap e)
    BY ApartMeet DEF Domains
  <1>2. d \cap e = d /\ d \cap e = e
    BY <1>1 DEF Domains
  <1> QED BY <1>2

\* Every slot is in a domain: the least set with the slot that is apart.
LEMMA DomainsCover ==
    ASSUME NEW request PROVE UNION Domains(request) = Scope(request)
  <1>1. ASSUME NEW s \in Scope(request) PROVE \E d \in Domains(request) : s \in d
    <2> DEFINE Least == {t \in Scope(request) :
                           \A part \in SUBSET Scope(request) :
                               Apart(request, part) /\ s \in part => t \in part}
    <2>1. Least \in (SUBSET Scope(request)) \ {{}} /\ s \in Least
      BY <1>1
    <2>2. Apart(request, Least)
      <3> SUFFICES ASSUME NEW t \in Least, NEW u \in Scope(request) \ Least
                   PROVE  Resources(request, t) \cap Resources(request, u) = {}
        BY DEF Apart
      <3>1. PICK part \in SUBSET Scope(request) :
                Apart(request, part) /\ s \in part /\ u \notin part
        OBVIOUS
      <3>2. t \in part
        BY <3>1
      <3> QED BY <3>1, <3>2 DEF Apart
    <2>3. ASSUME NEW less \in (SUBSET Least) \ {{}}, Apart(request, less)
          PROVE  less = Least
      <3>1. less \in SUBSET Scope(request)
        BY <2>1
      <3>2. CASE s \in less
        <4>1. Least \subseteq less
          BY <2>3, <3>1, <3>2
        <4> QED BY <4>1
      <3>3. CASE s \notin less
        <4>1. Apart(request, Scope(request) \ less)
          BY <2>3, <3>1, ApartRest
        <4>2. Least \subseteq Scope(request) \ less
          BY <4>1, <3>3, <2>1
        <4> QED BY <4>2
      <3> QED BY <3>2, <3>3
    <2> HIDE DEF Least
    <2> QED BY <2>1, <2>2, <2>3 DEF Domains
  <1>2. \A d \in Domains(request) : d \subseteq Scope(request)
    BY DEF Domains
  <1> QED BY <1>1, <1>2

-----------------------------------------------------------------------------
(* What a request presents and wants.                                        *)

LEMMA SnapshotFacts ==
    ASSUME World
    PROVE  /\ DOMAIN snapshot \subseteq Windows
           /\ \A w \in DOMAIN snapshot :
                /\ snapshot[w] \in Observation
                /\ snapshot[w] = [life |-> life[w], at |-> at[w], visible |-> visible[w]]
                /\ alive[w]
  BY DEF snapshot, World, Observation

\* A view is presented with the lifetimes of its windows; a release is no presentation.
LEMMA PresentationFacts ==
    ASSUME PlannerAssumption, World, NEW view \in Views
    PROVE  /\ Presentation(view) # None
           /\ Presentation(view).view = view
           /\ Presentation(view).bindings = RootBindings(view)
           /\ IsPresentation(Presentation(view))
  <1>1. RootBindings(view) \in [Leaves[view] \cap DOMAIN snapshot -> Nat]
    BY SnapshotFacts DEF RootBindings, World
  <1>2. Leaves[view] \cap DOMAIN snapshot \in SUBSET Windows
    BY SnapshotFacts
  <1>3. RootBindings(view) \in Bindings
    BY <1>1, <1>2 DEF Bindings
  <1>4. view # None
    BY DEF PlannerAssumption
  <1>5. Presentation(view) = [view |-> view, bindings |-> RootBindings(view)]
    BY <1>4 DEF Presentation
  <1>6. Presentation(view) \in [view : Views, bindings : Bindings]
    BY <1>3, <1>5
  <1>7. Presentation(view) # None
    BY <1>6 DEF PlannerAssumption
  <1> QED BY <1>1, <1>2, <1>5, <1>7 DEF IsPresentation, Partial

LEMMA TargetsFacts ==
    ASSUME PlannerAssumption, NEW request \in Requests
    PROVE  /\ Scope(request) \in (SUBSET Slots) \ {{}}
           /\ \A s \in Scope(request) : request.targets[s] \in Views \cup {None}
           /\ \A s \in Scope(request) : \A w \in Targets(request, s) :
                /\ request.targets[s] \in Views
                /\ w \in Shown[request.targets[s]]
                /\ w \in Leaves[request.targets[s]]
                /\ w \in Windows
  <1>1. PICK S \in (SUBSET Slots) \ {{}} : request.targets \in [S -> Views \cup {None}]
    BY DEF Requests, Request
  <1>2. Scope(request) = S
    BY <1>1 DEF Scope
  <1>3. ASSUME NEW s \in Scope(request), NEW w \in Targets(request, s)
        PROVE  /\ request.targets[s] \in Views
               /\ w \in Shown[request.targets[s]]
    BY <1>1, <1>2, <1>3 DEF Targets
  <1> QED BY <1>1, <1>2, <1>3 DEF PlannerAssumption

\* Every window that is wanted goes to a slot of the scope whose view shows it.
LEMMA DesiredFacts ==
    ASSUME PlannerAssumption, NEW request \in Requests
    PROVE  /\ Partial(Desired(request), Windows, Scope(request))
           /\ \A w \in DOMAIN Desired(request) :
                /\ Desired(request)[w] \in Scope(request)
                /\ request.targets[Desired(request)[w]] \in Views
                /\ w \in Shown[request.targets[Desired(request)[w]]]
                /\ w \in Leaves[request.targets[Desired(request)[w]]]
  <1>1. DOMAIN Desired(request) = UNION {Targets(request, s) : s \in Scope(request)}
    BY DEF Desired
  <1>2. ASSUME NEW w \in DOMAIN Desired(request)
        PROVE  /\ Desired(request)[w] \in Scope(request)
               /\ w \in Targets(request, Desired(request)[w])
    <2>1. \E s \in Scope(request) : w \in Targets(request, s)
      BY <1>1
    <2>2. Desired(request)[w] = CHOOSE s \in Scope(request) : w \in Targets(request, s)
      BY <1>1 DEF Desired
    <2> QED BY <2>1, <2>2
  <1>3. Desired(request) \in [DOMAIN Desired(request) -> Scope(request)]
    BY <1>1, <1>2 DEF Desired
  <1> QED BY <1>2, <1>3, TargetsFacts DEF Partial

\* A window that leaves is one of the scope's, in a slot of the scope.
LEMMA LeavingFacts ==
    ASSUME PlannerAssumption, World, NEW request \in Requests, NEW w \in Leaving(request)
    PROVE  /\ w \in Windows \ DOMAIN Desired(request)
           /\ LeavingSlot(request, w) \in Scope(request)
  <1>1. w \in Windows /\ claims[w] \in Scope(request) \cup {None}
    BY DEF Leaving, Foreign
  <1>2. \E s \in Scope(request) : w \in Resources(request, s)
    BY DEF Leaving
  <1>3. CASE claims[w] # None
    BY <1>1, <1>3 DEF LeavingSlot, Leaving
  <1>4. CASE claims[w] = None
    BY <1>2, <1>4 DEF LeavingSlot, Leaving
  <1> QED BY <1>3, <1>4

LEMMA ChangeFacts ==
    ASSUME PlannerAssumption, World, NEW w \in Windows, NEW s \in Slots
    PROVE  /\ Change(w, s) \in Mutation
           /\ Asked(Change(w, s).at, at[w]) = s
           /\ Asked(Change(w, s).visible, visible[w]) = TRUE
           /\ Change(w, s) = NoChange => at[w] = s /\ visible[w] = TRUE
  BY DEF Change, Mutation, Places, Asked, NoChange, World, PlannerAssumption

-----------------------------------------------------------------------------
(* Plans.                                                                    *)

LEMMA NothingPartial ==
    ASSUME NEW S, NEW T
    PROVE  Partial(<<>>, S, T) /\ DOMAIN <<>> = {}
  <1>1. <<>> \in [{} -> T] /\ DOMAIN <<>> = {}
    OBVIOUS
  <1> QED BY <1>1 DEF Partial

LEMMA PlanTypes ==
    ASSUME PlannerAssumption, World, NEW request \in Requests
    PROVE  IsPlan(Plan(request)) /\ DOMAIN Plan(request) = Fields
  <1> DEFINE p == Plan(request)
             desired == Desired(request)
             live == DOMAIN desired \cap DOMAIN snapshot
             hides == Hides(request)
             moved == {w \in live : Change(w, desired[w]) # NoChange}
             quiet == Idempotent(request)
             scope == Scope(request)
  <1>1. DOMAIN p = Fields
    BY DEF Plan, Fields
  <1>2. /\ p.id = request.id /\ p.mode = request.mode /\ p.idempotent = quiet
        /\ p.scope = scope /\ p.domains = Domains(request)
        /\ p.generations = Restrict(generations, scope)
        /\ p.topology = topology /\ p.blocked = FALSE
        /\ p.presentations = [s \in scope |-> Presentation(request.targets[s])]
        /\ p.base = Restrict(presentations, scope)
    BY DEF Plan
  <1>3. /\ p.desired = IF quiet THEN <<>> ELSE desired
        /\ p.expected = IF quiet THEN <<>> ELSE Restrict(snapshot, live \cup hides)
        /\ p.mutations = IF quiet THEN <<>>
              ELSE [w \in moved \cup hides |->
                      IF w \in hides THEN Hide ELSE Change(w, desired[w])]
        /\ p.slots = IF quiet THEN <<>>
              ELSE [w \in moved \cup hides |->
                      IF w \in hides THEN LeavingSlot(request, w) ELSE desired[w]]
    BY DEF Plan
  <1> HIDE DEF p
  <1>4. /\ request.id \in Nat /\ request.mode \in {"open", "restore", "reflow"}
    BY DEF Requests, Request
  <1>5. scope \in (SUBSET Slots) \ {{}} /\ UNION p.domains = scope
    BY <1>2, TargetsFacts, DomainsCover
  <1>6. Partial(p.generations, p.scope, Nat)
    BY <1>2, <1>5 DEF Partial, Restrict, World
  <1>7. Presents(p.presentations) /\ DOMAIN p.presentations = p.scope
    <2>1. ASSUME NEW s \in scope PROVE IsPresentation(Presentation(request.targets[s]))
      <3>1. CASE request.targets[s] = None
        BY <3>1 DEF Presentation, IsPresentation
      <3>2. CASE request.targets[s] \in Views
        BY <3>2, PresentationFacts
      <3> QED BY <3>1, <3>2, TargetsFacts
    <2> QED BY <1>2, <1>5, <2>1 DEF Presents
  <1>8. Presents(p.base) /\ DOMAIN p.base = p.scope
    BY <1>2, <1>5 DEF Presents, Restrict, World
  <1>9. quiet \in BOOLEAN
    BY DEF Idempotent
  <1>10. hides \subseteq Windows /\ hides \subseteq DOMAIN snapshot
         /\ \A w \in hides : LeavingSlot(request, w) \in scope
    BY LeavingFacts DEF Hides
  <1>11. live \subseteq Windows /\ \A w \in live : desired[w] \in scope /\ desired[w] \in Slots
    BY DesiredFacts, <1>5 DEF Partial
  <1>12. /\ Partial(p.desired, Windows, p.scope)
         /\ Partial(p.expected, Windows, Observation)
         /\ Partial(p.mutations, DOMAIN p.expected, Mutation)
         /\ DOMAIN p.slots \subseteq Windows
         /\ \A w \in DOMAIN p.mutations : p.slots[w] \in p.scope
    <2>1. CASE quiet
      <3>1. p.desired = <<>> /\ p.expected = <<>> /\ p.mutations = <<>> /\ p.slots = <<>>
        BY <1>3, <2>1
      <3> QED
        BY <3>1, NothingPartial
    <2>2. CASE ~quiet
      <3>1. Partial(p.desired, Windows, p.scope)
        BY <1>2, <1>3, <2>2, DesiredFacts
      <3>2. Partial(p.expected, Windows, Observation)
        BY <1>3, <1>10, <1>11, <2>2, SnapshotFacts DEF Partial, Restrict
      <3>3. ASSUME NEW w \in moved \cup hides
            PROVE  (IF w \in hides THEN Hide ELSE Change(w, desired[w])) \in Mutation
        BY <1>10, <1>11, ChangeFacts DEF Hide, Mutation
      <3>4. Partial(p.mutations, DOMAIN p.expected, Mutation)
        BY <1>3, <2>2, <3>3 DEF Partial, Restrict
      <3>5. DOMAIN p.slots \subseteq Windows /\ \A w \in DOMAIN p.mutations : p.slots[w] \in p.scope
        BY <1>2, <1>3, <1>10, <1>11, <2>2
      <3> QED BY <3>1, <3>2, <3>4, <3>5
    <2> QED BY <2>1, <2>2
  <1>13. topology \in Nat
    BY DEF World
  <1> HIDE DEF desired, live, hides, moved, quiet, scope
  <1>14. IsPlan(p)
    BY <1>2, <1>4, <1>5, <1>6, <1>7, <1>8, <1>9, <1>12, <1>13 DEF IsPlan
  <1> QED BY <1>1, <1>14 DEF p

\* What a plan wants is backed by what its slots will show, and will be in place.
LEMMA PlanAims ==
    ASSUME PlannerAssumption, World, NEW request \in Requests
    PROVE  LET p == Plan(request) IN
           Backed(p.desired, p.expected, p.presentations) /\ Arrives(p)
  <1> DEFINE p == Plan(request)
             desired == Desired(request)
             live == DOMAIN desired \cap DOMAIN snapshot
             hides == Hides(request)
             moved == {w \in live : Change(w, desired[w]) # NoChange}
  <1>1. CASE Idempotent(request)
    <2>1. DOMAIN p.desired = {}
      BY <1>1, NothingPartial DEF Plan
    <2> QED BY <2>1 DEF Backed, Arrives
  <1>2. CASE ~Idempotent(request)
    <2>1. /\ p.desired = desired
          /\ p.expected = Restrict(snapshot, live \cup hides)
          /\ p.mutations = [w \in moved \cup hides |->
                               IF w \in hides THEN Hide ELSE Change(w, desired[w])]
          /\ p.presentations = [s \in Scope(request) |-> Presentation(request.targets[s])]
      BY <1>2 DEF Plan
    <2> HIDE DEF p
    <2> SUFFICES ASSUME NEW w \in DOMAIN p.desired \cap DOMAIN p.expected
                 PROVE  /\ LET view == p.presentations[p.desired[w]] IN
                           /\ view # None
                           /\ w \in Shown[view.view]
                           /\ w \in DOMAIN view.bindings
                           /\ view.bindings[w] = p.expected[w].life
                        /\ Settling(p, w).at = p.desired[w]
                        /\ Settling(p, w).visible = TRUE
      BY DEF Backed, Arrives, p
    <2>2. w \notin hides
      BY <2>1, LeavingFacts DEF Hides
    <2>3. w \in live /\ w \in Windows /\ w \in DOMAIN snapshot
      BY <2>1, <2>2, SnapshotFacts DEF Restrict
    <2>4. p.expected[w] = snapshot[w]
      BY <2>1, <2>3 DEF Restrict
    <2> DEFINE s == desired[w]
               v == request.targets[s]
    <2>5. /\ s \in Scope(request) /\ s \in Slots /\ v \in Views
          /\ w \in Shown[v] /\ w \in Leaves[v]
      BY <2>1, DesiredFacts, TargetsFacts
    <2>6. p.presentations[p.desired[w]] = Presentation(v) /\ p.desired[w] = s
      BY <2>1, <2>5
    <2>7. /\ Presentation(v) # None /\ Presentation(v).view = v
          /\ w \in DOMAIN Presentation(v).bindings
          /\ Presentation(v).bindings[w] = snapshot[w].life
      <3> HIDE DEF v
      <3>1. Presentation(v) # None /\ Presentation(v).view = v
            /\ Presentation(v).bindings = RootBindings(v)
        BY <2>5, PresentationFacts
      <3>2. w \in DOMAIN RootBindings(v) /\ RootBindings(v)[w] = life[w]
        BY <2>3, <2>5 DEF RootBindings
      <3>3. snapshot[w].life = life[w]
        BY <2>3, SnapshotFacts
      <3> QED BY <3>1, <3>2, <3>3
    <2>8. Settling(p, w).at = s /\ Settling(p, w).visible = TRUE
      <3> DEFINE change == IF w \in DOMAIN p.mutations THEN p.mutations[w] ELSE NoChange
      <3>1. change = Change(w, s)
        BY <2>1, <2>2, <2>3
      <3>2. snapshot[w] = [life |-> life[w], at |-> at[w], visible |-> visible[w]]
        BY <2>3, SnapshotFacts
      <3>3. Settling(p, w) = [snapshot[w] EXCEPT !.at = Asked(change.at, @),
                                                 !.visible = Asked(change.visible, @)]
        BY <2>4 DEF Settling
      <3> HIDE DEF change
      <3>4. /\ Settling(p, w).at = Asked(change.at, at[w])
            /\ Settling(p, w).visible = Asked(change.visible, visible[w])
        BY <3>2, <3>3
      <3> QED BY <2>3, <2>5, <3>1, <3>4, ChangeFacts
    <2>9. (p.presentations[p.desired[w]]).view = v
      BY <2>6, <2>7
    <2> HIDE DEF s, v
    <2> QED BY <2>4, <2>5, <2>6, <2>7, <2>8, <2>9
  <1> QED BY <1>1, <1>2

LEMMA PlanGood ==
    ASSUME PlannerAssumption, World, NEW request \in Requests
    PROVE  PlanSound(Plan(request)) /\ PlanTimely(Plan(request))
  <1> DEFINE p == Plan(request)
  <1>1. /\ p.domains = Domains(request) /\ p.scope = Scope(request)
        /\ p.generations = Restrict(generations, Scope(request))
        /\ p.base = Restrict(presentations, Scope(request))
    BY DEF Plan
  <1>2. IsPlan(p) /\ DOMAIN p = Fields
    BY PlanTypes
  <1>3. Backed(p.desired, p.expected, p.presentations) /\ Arrives(p)
    BY PlanAims
  <1>4. Disjoint(p.domains)
    BY <1>1, DomainsDisjoint
  <1> HIDE DEF p
  <1>5. DOMAIN p.generations = p.scope
    BY <1>1 DEF Restrict
  <1>6. PlanTimely(p)
    <2>1. p.scope \subseteq Slots
      BY <1>1, TargetsFacts
    <2> QED BY <1>1, <2>1 DEF PlanTimely, Timely, Restrict, World
  <1> QED BY <1>2, <1>3, <1>4, <1>5, <1>6 DEF PlanSound, p

LEMMA WithinRequest ==
    ASSUME PlannerAssumption, NEW request \in Requests,
           NEW scope \in (SUBSET Scope(request)) \ {{}}
    PROVE  Within(request, scope) \in Requests
  <1>1. PICK S \in (SUBSET Slots) \ {{}} : request.targets \in [S -> Views \cup {None}]
    BY DEF Requests, Request
  <1>2. Restrict(request.targets, scope) \in [scope -> Views \cup {None}]
    BY <1>1 DEF Scope, Restrict
  <1>3. scope \in (SUBSET Slots) \ {{}}
    BY <1>1 DEF Scope
  <1> QED BY <1>2, <1>3 DEF Within, Requests, Request

\* Setting `blocked` changes nothing that a sound plan is about.
LEMMA BlockedGood ==
    ASSUME NEW p, PlanSound(p), PlanTimely(p)
    PROVE  PlanSound([p EXCEPT !.blocked = TRUE]) /\ PlanTimely([p EXCEPT !.blocked = TRUE])
  <1> DEFINE q == [p EXCEPT !.blocked = TRUE]
  <1>1. /\ DOMAIN q = Fields /\ q.blocked = TRUE
        /\ q.id = p.id /\ q.mode = p.mode /\ q.idempotent = p.idempotent
        /\ q.scope = p.scope /\ q.domains = p.domains /\ q.generations = p.generations
        /\ q.topology = p.topology /\ q.presentations = p.presentations
        /\ q.desired = p.desired /\ q.expected = p.expected
        /\ q.mutations = p.mutations /\ q.slots = p.slots /\ q.base = p.base
    BY DEF PlanSound, Fields
  <1> HIDE DEF q
  <1>2. IsPlan(q)
    BY <1>1 DEF PlanSound, IsPlan
  <1>3. \A w : Settling(q, w) = Settling(p, w)
    BY <1>1 DEF Settling
  <1>4. Arrives(q)
    BY <1>1, <1>3 DEF PlanSound, Arrives
  <1>5. PlanSound(q) /\ PlanTimely(q)
    BY <1>1, <1>2, <1>4 DEF PlanSound, PlanTimely
  <1> QED BY <1>5 DEF q

\* Whatever is planned for a request is sound and made against the present world.
LEMMA PlansGood ==
    ASSUME PlannerAssumption, World, NEW request \in Requests, NEW p \in Plans(request)
    PROVE  PlanSound(p) /\ PlanTimely(p)
  <1> DEFINE part(d) == Within(request, d)
             good == {d \in Domains(request) : Satisfiable(part(d))}
             busy == {d \in good : ~Idempotent(part(d))}
             scope == UNION (IF busy = {} THEN good ELSE busy)
  <1>1. \/ p = Plan(request)
        \/ good # {} /\ p = [Plan(part(scope)) EXCEPT !.blocked = TRUE]
    BY DEF Plans
  <1>2. CASE p = Plan(request)
    BY <1>2, PlanGood
  <1>3. CASE good # {} /\ p = [Plan(part(scope)) EXCEPT !.blocked = TRUE]
    <2>1. \A d \in good : d \in (SUBSET Scope(request)) \ {{}}
      BY DEF Domains
    <2>2. scope \in (SUBSET Scope(request)) \ {{}}
      BY <1>3, <2>1
    <2>3. part(scope) \in Requests
      BY <2>2, WithinRequest
    <2> HIDE DEF scope
    <2> QED BY <1>3, <2>3, PlanGood, BlockedGood
  <1> QED BY <1>1, <1>2, <1>3

-----------------------------------------------------------------------------
(* Parts of plans, and when they have settled.                               *)

Mine(p, slots) == {w \in DOMAIN p.mutations : p.slots[w] \in slots}

\* What scoped_subset returns, field by field.
IsPart(q, p, slots) ==
    /\ DOMAIN q = Fields /\ q.blocked = FALSE
    /\ q.id = p.id /\ q.mode = p.mode /\ q.idempotent = p.idempotent
    /\ q.topology = p.topology /\ q.expected = p.expected
    /\ q.scope = p.scope \cap slots
    /\ q.domains = {d \cap slots : d \in p.domains} \ {{}}
    /\ q.generations = Restrict(p.generations, DOMAIN p.generations \cap slots)
    /\ q.presentations = Restrict(p.presentations, DOMAIN p.presentations \cap slots)
    /\ DOMAIN q.desired = {w \in DOMAIN p.desired : p.desired[w] \in slots}
    /\ q.desired = [w \in DOMAIN q.desired |-> p.desired[w]]
    /\ q.mutations = Restrict(p.mutations, Mine(p, slots))
    /\ q.slots = Restrict(p.slots, Mine(p, slots))
    /\ q.base = Restrict(p.base, DOMAIN p.base \cap slots)

LEMMA SubplanFields ==
    ASSUME NEW p, DOMAIN p = Fields, NEW slots
    PROVE  IsPart(Subplan(p, slots), p, slots)
  <1> DEFINE q == Subplan(p, slots)
  <1>1. /\ DOMAIN q.desired = {w \in DOMAIN p.desired : p.desired[w] \in slots}
        /\ q.desired = [w \in DOMAIN q.desired |-> p.desired[w]]
    BY DEF Subplan, Fields, RestrictValues, Restrict
  <1>2. /\ DOMAIN q = Fields /\ q.blocked = FALSE
        /\ q.id = p.id /\ q.mode = p.mode /\ q.idempotent = p.idempotent
        /\ q.topology = p.topology /\ q.expected = p.expected
        /\ q.scope = p.scope \cap slots
        /\ q.domains = {d \cap slots : d \in p.domains} \ {{}}
        /\ q.generations = Restrict(p.generations, DOMAIN p.generations \cap slots)
        /\ q.presentations = Restrict(p.presentations, DOMAIN p.presentations \cap slots)
        /\ q.mutations = Restrict(p.mutations, Mine(p, slots))
        /\ q.slots = Restrict(p.slots, Mine(p, slots))
        /\ q.base = Restrict(p.base, DOMAIN p.base \cap slots)
    BY DEF Subplan, Fields, Mine
  <1> HIDE DEF q
  <1> QED BY <1>1, <1>2 DEF IsPart, q

LEMMA RestrictFacts ==
    ASSUME NEW f, NEW S, NEW T
    PROVE  /\ DOMAIN Restrict(f, S) = S
           /\ \A x \in S : Restrict(f, S)[x] = f[x]
  BY DEF Restrict

\* The part of a sound plan for some of its slots is a plan.
LEMMA SubplanSound ==
    ASSUME NEW p, PlanSound(p), NEW slots \in (SUBSET p.scope) \ {{}}
    PROVE  LET q == Subplan(p, slots) IN
           /\ IsPlan(q) /\ DOMAIN q = Fields
           /\ q.scope = slots /\ Disjoint(q.domains)
           /\ DOMAIN q.generations = slots
           /\ q.id = p.id /\ q.expected = p.expected
           /\ DOMAIN q.presentations = slots
           /\ \A s \in slots : q.presentations[s] = p.presentations[s]
           /\ \A w \in DOMAIN q.mutations : w \in DOMAIN p.mutations /\ p.slots[w] \in slots
           /\ \A w \in DOMAIN q.desired : w \in DOMAIN p.desired
  <1> DEFINE q == Subplan(p, slots)
             mine == Mine(p, slots)
  <1>0. IsPart(q, p, slots)
    BY SubplanFields DEF PlanSound
  <1> HIDE DEF q, mine
  <1>1. /\ DOMAIN q = Fields /\ q.blocked = FALSE
        /\ q.id = p.id /\ q.mode = p.mode /\ q.idempotent = p.idempotent
        /\ q.topology = p.topology /\ q.expected = p.expected
        /\ q.scope = p.scope \cap slots
        /\ q.domains = {d \cap slots : d \in p.domains} \ {{}}
        /\ q.generations = Restrict(p.generations, DOMAIN p.generations \cap slots)
        /\ q.presentations = Restrict(p.presentations, DOMAIN p.presentations \cap slots)
        /\ DOMAIN q.desired = {w \in DOMAIN p.desired : p.desired[w] \in slots}
        /\ q.desired = [w \in DOMAIN q.desired |-> p.desired[w]]
        /\ q.mutations = Restrict(p.mutations, mine)
        /\ q.slots = Restrict(p.slots, mine)
        /\ q.base = Restrict(p.base, DOMAIN p.base \cap slots)
    BY <1>0 DEF IsPart, mine
  <1>2. q.scope = slots /\ slots \in (SUBSET Slots) \ {{}} /\ UNION p.domains = p.scope
    BY <1>1 DEF PlanSound, IsPlan
  <1>3. UNION q.domains = slots
    <2>1. ASSUME NEW s \in slots PROVE \E e \in q.domains : s \in e
      <3>1. PICK d \in p.domains : s \in d
        BY <1>2
      <3>2. d \cap slots \in q.domains
        BY <1>1, <2>1, <3>1
      <3> QED BY <3>1, <3>2, <2>1
    <2>2. \A e \in q.domains : e \subseteq slots
      BY <1>1
    <2> QED BY <2>1, <2>2
  <1>4. Disjoint(q.domains)
    <2> SUFFICES ASSUME NEW f \in q.domains, NEW g \in q.domains, f \cap g # {}
                 PROVE  f = g
      BY DEF Disjoint
    <2>1. PICK d \in p.domains : f = d \cap slots
      BY <1>1
    <2>2. PICK e \in p.domains : g = e \cap slots
      BY <1>1
    <2>3. d = e
      BY <2>1, <2>2 DEF PlanSound, Disjoint
    <2> QED BY <2>1, <2>2, <2>3
  <1>5. Partial(q.generations, q.scope, Nat) /\ DOMAIN q.generations = slots
    <2>1. DOMAIN p.generations \cap slots = slots /\ p.generations \in [p.scope -> Nat]
      BY DEF PlanSound, IsPlan, Partial
    <2> QED BY <1>1, <1>2, <2>1 DEF Partial, Restrict
  <1>6. /\ Presents(q.presentations) /\ DOMAIN q.presentations = q.scope
        /\ \A s \in slots : q.presentations[s] = p.presentations[s]
    <2>1. DOMAIN p.presentations \cap slots = slots
      BY DEF PlanSound, IsPlan
    <2>2. \A s \in slots : IsPresentation(p.presentations[s])
      BY <2>1 DEF PlanSound, IsPlan, Presents
    <2> QED BY <1>1, <1>2, <2>1, <2>2 DEF Presents, Restrict
  <1>7. Presents(q.base) /\ DOMAIN q.base = q.scope
    <2>1. DOMAIN p.base \cap slots = slots
      BY DEF PlanSound, IsPlan
    <2>2. \A s \in slots : IsPresentation(p.base[s])
      BY <2>1 DEF PlanSound, IsPlan, Presents
    <2> QED BY <1>1, <1>2, <2>1, <2>2 DEF Presents, Restrict
  <1>8. Partial(q.desired, Windows, q.scope) /\ \A w \in DOMAIN q.desired : w \in DOMAIN p.desired
    <2>1. Partial(p.desired, Windows, p.scope)
      BY DEF PlanSound, IsPlan
    <2> QED BY <1>1, <1>2, <2>1 DEF Partial
  <1>9. /\ Partial(q.mutations, DOMAIN q.expected, Mutation)
        /\ DOMAIN q.slots \subseteq Windows
        /\ \A w \in DOMAIN q.mutations : q.slots[w] \in q.scope
        /\ \A w \in DOMAIN q.mutations : w \in DOMAIN p.mutations /\ p.slots[w] \in slots
    <2> USE DEF mine, Mine
    <2>1. DOMAIN q.mutations = mine /\ DOMAIN q.slots = mine
          /\ \A w \in mine : q.mutations[w] = p.mutations[w] /\ q.slots[w] = p.slots[w]
      BY <1>1, RestrictFacts
    <2>2. Partial(p.mutations, DOMAIN p.expected, Mutation) /\ Partial(p.expected, Windows, Observation)
      BY DEF PlanSound, IsPlan
    <2> QED BY <1>1, <1>2, <2>1, <2>2 DEF Partial, Restrict
  <1>10. IsPlan(q)
    BY <1>1, <1>2, <1>3, <1>5, <1>6, <1>7, <1>8, <1>9 DEF PlanSound, IsPlan
  <1> QED BY <1>1, <1>2, <1>4, <1>5, <1>6, <1>8, <1>9, <1>10 DEF q

\* What has settled is commanded by a plan that still holds, and in place.
LEMMA SettledFacts ==
    ASSUME World, NEW p, PlanSound(p), NEW d \in (SUBSET p.scope) \ {{}}, SettledScope(p, d)
    PROVE  /\ suspended \cap d = {}
           /\ \A s \in d : generations[s] = p.generations[s]
           /\ \A w \in DOMAIN p.desired : p.desired[w] \in d => claims[w] \in d \cup {None}
           /\ \A w \in DOMAIN p.expected : Concerns(p, w, d) => InPlace(p, w)
  <1> DEFINE q == Subplan(p, d)
  <1>0. IsPart(q, p, d)
    BY SubplanFields DEF PlanSound
  <1>2. Authorized(q)
    BY DEF SettledScope
  <1> HIDE DEF q
  <1>1. /\ q.scope = p.scope \cap d
        /\ q.generations = Restrict(p.generations, DOMAIN p.generations \cap d)
        /\ DOMAIN q.desired = {w \in DOMAIN p.desired : p.desired[w] \in d}
    BY <1>0 DEF IsPart
  <1>3. q.scope = d
    BY <1>1
  <1>4. \A s \in d : generations[s] = p.generations[s]
    <2>1. DOMAIN p.generations \cap d = d
      BY DEF PlanSound
    <2> QED BY <1>1, <1>2, <2>1 DEF Authorized, FreshGenerations, Restrict
  <1>5. ASSUME NEW w \in DOMAIN p.desired, p.desired[w] \in d
        PROVE  claims[w] \in d \cup {None}
    <2>1. w \in DOMAIN q.desired
      BY <1>1, <1>5
    <2> QED BY <1>2, <1>3, <2>1 DEF Authorized, UnclaimedElsewhere, Foreign
  <1>6. suspended \cap d = {}
    BY <1>2, <1>3 DEF Authorized, Manageable
  <1> QED BY <1>4, <1>5, <1>6 DEF SettledScope

-----------------------------------------------------------------------------
(* Undo records and reversals.                                               *)

\* A record of what is committed knows every window that its reversal changes, and
\* the slots own what they are recorded to show.
LEMMA CaptureGood ==
    ASSUME PlannerAssumption, World, OwnershipCoherent, NEW p, PlanSound(p),
           NEW committed \in (SUBSET p.scope) \ {{}},
           \A w \in DOMAIN p.mutations : p.slots[w] \in committed => w \in DOMAIN snapshot
    PROVE  LET r == Capture(p, committed) IN
           /\ RecordSound(r)
           /\ r.plan.scope = committed
           /\ \A s \in committed :
                /\ r.generations[s] = generations[s] + 1
                /\ r.plan.presentations[s] = p.presentations[s]
  <1> DEFINE part == Subplan(p, committed)
             owned == {v \in Windows : claims[v] \in committed}
             touched == DOMAIN part.desired \cup DOMAIN part.mutations \cup owned
             r == Capture(p, committed)
  <1>1. /\ IsPlan(part) /\ DOMAIN part = Fields
        /\ part.scope = committed /\ Disjoint(part.domains)
        /\ part.expected = p.expected
        /\ \A s \in committed : part.presentations[s] = p.presentations[s]
        /\ \A w \in DOMAIN part.mutations : w \in DOMAIN p.mutations /\ p.slots[w] \in committed
    BY SubplanSound
  <1>2. r = [plan |-> part,
             presentations |-> Restrict(presentations, committed),
             claims |-> [w \in owned |-> claims[w]],
             after |-> Restrict(snapshot, touched \cap DOMAIN part.expected \cap DOMAIN snapshot),
             generations |-> [s \in committed |-> generations[s] + 1]]
    BY DEF Capture
  <1> HIDE DEF part, r
  <1>3. /\ DOMAIN r = {"plan", "presentations", "claims", "after", "generations"}
        /\ r.plan = part
        /\ r.presentations = Restrict(presentations, committed)
        /\ r.claims = [w \in owned |-> claims[w]]
        /\ r.after = Restrict(snapshot, touched \cap DOMAIN part.expected \cap DOMAIN snapshot)
        /\ r.generations = [s \in committed |-> generations[s] + 1]
    BY <1>2
  <1>4. committed \in (SUBSET Slots) \ {{}} /\ Partial(p.expected, Windows, Observation)
        /\ DOMAIN p.mutations \subseteq DOMAIN p.expected
    BY DEF PlanSound, IsPlan, Partial
  <1>5. Presents(r.presentations) /\ DOMAIN r.presentations = committed
    BY <1>3, <1>4 DEF Presents, Restrict, World
  <1>6. Partial(r.claims, Windows, committed)
    BY <1>3 DEF Partial
  <1>7. /\ DOMAIN r.after = touched \cap DOMAIN part.expected \cap DOMAIN snapshot
        /\ \A w \in DOMAIN r.after : r.after[w] = snapshot[w]
    BY <1>3, RestrictFacts
  <1>8. Partial(r.after, DOMAIN part.expected, Observation)
    BY <1>3, <1>7, SnapshotFacts DEF Partial, Restrict
  <1>9. Partial(r.generations, committed, Nat) /\ DOMAIN r.generations = committed
    BY <1>3, <1>4 DEF Partial, World
  <1>10. DOMAIN part.mutations \subseteq DOMAIN r.after
    BY <1>1, <1>4, <1>7
  <1>11. Backed(r.claims, r.after, r.presentations)
    <2> SUFFICES ASSUME NEW w \in DOMAIN r.claims \cap DOMAIN r.after
                 PROVE  LET view == r.presentations[r.claims[w]] IN
                        /\ view # None
                        /\ w \in Shown[view.view]
                        /\ w \in DOMAIN view.bindings
                        /\ view.bindings[w] = r.after[w].life
      BY DEF Backed
    <2>1. w \in Windows /\ claims[w] \in committed /\ r.claims[w] = claims[w]
      BY <1>3
    <2>2. r.presentations[r.claims[w]] = presentations[claims[w]]
      BY <1>3, <2>1, RestrictFacts
    <2>3. claims[w] # None
      BY <1>4, <2>1 DEF PlannerAssumption
    <2>4. r.after[w].life = life[w]
      BY <1>7, SnapshotFacts
    <2> QED BY <2>1, <2>2, <2>3, <2>4 DEF OwnershipCoherent
  <1>12. IsRecord(r)
    BY <1>1, <1>3, <1>5, <1>6, <1>8, <1>9 DEF IsRecord
  <1>13. RecordSound(r)
    BY <1>1, <1>3, <1>5, <1>9, <1>10, <1>11, <1>12 DEF RecordSound
  <1>14. \A s \in committed : r.generations[s] = generations[s] + 1
    BY <1>3
  <1> QED BY <1>1, <1>3, <1>13, <1>14 DEF r

\* The reversal of a sound record is a sound plan, made against the present world.
LEMMA ReversalGood ==
    ASSUME PlannerAssumption, NEW r, RecordSound(r), RecordTimely(r), NEW id \in Nat
    PROVE  PlanSound(Reversal(r, id)) /\ PlanTimely(Reversal(r, id))
  <1> DEFINE back == [w \in DOMAIN r.plan.mutations |-> Restoration(r, w)]
             changed == {w \in DOMAIN back : back[w] # NoChange}
             p == Reversal(r, id)
  <1>1. DOMAIN r.plan = Fields /\ IsPlan(r.plan) /\ IsRecord(r)
    BY DEF RecordSound, IsRecord
  <1>2. p = [r.plan EXCEPT !.id = id, !.mode = "undo", !.idempotent = FALSE,
                 !.generations = r.generations, !.expected = r.after,
                 !.presentations = r.presentations, !.desired = r.claims,
                 !.mutations = Restrict(back, changed), !.base = r.plan.presentations]
    BY DEF Reversal
  <1> HIDE DEF p
  <1>3. /\ DOMAIN p = Fields
        /\ p.id = id /\ p.mode = "undo" /\ p.idempotent = FALSE
        /\ p.scope = r.plan.scope /\ p.domains = r.plan.domains
        /\ p.topology = r.plan.topology /\ p.slots = r.plan.slots /\ p.blocked = r.plan.blocked
        /\ p.generations = r.generations /\ p.expected = r.after
        /\ p.presentations = r.presentations /\ p.desired = r.claims
        /\ p.mutations = Restrict(back, changed) /\ p.base = r.plan.presentations
    BY <1>1, <1>2 DEF Fields
  <1>4. /\ Partial(r.claims, Windows, r.plan.scope)
        /\ Partial(r.after, DOMAIN r.plan.expected, Observation)
        /\ Partial(r.generations, r.plan.scope, Nat)
        /\ Presents(r.presentations) /\ DOMAIN r.presentations = r.plan.scope
        /\ Partial(r.plan.expected, Windows, Observation)
        /\ Partial(r.plan.mutations, DOMAIN r.plan.expected, Mutation)
        /\ DOMAIN r.plan.mutations \subseteq DOMAIN r.after
    BY <1>1 DEF RecordSound, IsRecord, IsPlan
  <1>5. ASSUME NEW w \in DOMAIN r.plan.mutations PROVE back[w] \in Mutation
    <2>1. w \in DOMAIN r.plan.expected /\ r.plan.expected[w] \in Observation
      BY <1>4 DEF Partial
    <2>2. r.after[w] \in Observation
      BY <1>4 DEF Partial
    <2> QED BY <2>1, <2>2 DEF Restoration, Observation, Mutation
  <1>6. Partial(p.mutations, DOMAIN p.expected, Mutation)
    BY <1>3, <1>4, <1>5 DEF Partial, Restrict
  <1>7. Partial(p.expected, Windows, Observation)
    BY <1>3, <1>4 DEF Partial
  <1>8. \A w \in DOMAIN p.mutations : w \in DOMAIN r.plan.mutations
    BY <1>3 DEF Restrict
  <1>9. IsPlan(p)
    BY <1>1, <1>3, <1>4, <1>6, <1>7, <1>8 DEF IsPlan
  <1>10. PlanSound(p)
    BY <1>3, <1>9 DEF PlanSound, RecordSound, Arrives
  <1>11. PlanTimely(p)
    BY <1>3 DEF PlanTimely, RecordTimely
  <1> QED BY <1>10, <1>11 DEF p

\* A record that is rebased stays sound; it follows the presentations it is about.
LEMMA RebasedGood ==
    ASSUME NEW r, RecordSound(r), NEW shown, NEW gens \in [Slots -> Nat]
    PROVE  LET q == Rebased(r, shown, gens) IN
           /\ RecordSound(q)
           /\ q.plan = r.plan
           /\ \/ q = r
              \/ \A s \in r.plan.scope :
                    q.generations[s] = gens[s] /\ shown[s] = r.plan.presentations[s]
  <1> DEFINE follows == /\ \A w \in DOMAIN r.after :
                              w \in DOMAIN snapshot /\ snapshot[w] = r.after[w]
                        /\ \A s \in r.plan.scope : shown[s] = r.plan.presentations[s]
             q == [r EXCEPT !.generations = Restrict(gens, r.plan.scope)]
  <1>1. CASE ~follows
    BY <1>1 DEF Rebased
  <1>2. CASE follows
    <2>1. Rebased(r, shown, gens) = q
      BY <1>2 DEF Rebased
    <2>2. /\ DOMAIN q = {"plan", "presentations", "claims", "after", "generations"}
          /\ q.plan = r.plan /\ q.presentations = r.presentations
          /\ q.claims = r.claims /\ q.after = r.after
          /\ q.generations = Restrict(gens, r.plan.scope)
      BY DEF RecordSound
    <2> HIDE DEF q
    <2>3. r.plan.scope \subseteq Slots
      BY DEF RecordSound, IsRecord, IsPlan
    <2>4. /\ Partial(q.generations, r.plan.scope, Nat)
          /\ DOMAIN q.generations = r.plan.scope
          /\ \A s \in r.plan.scope : q.generations[s] = gens[s]
      BY <2>2, <2>3 DEF Partial, Restrict
    <2>5. RecordSound(q)
      BY <2>2, <2>4 DEF RecordSound, IsRecord
    <2> QED BY <1>2, <2>1, <2>2, <2>4, <2>5
  <1> QED BY <1>1, <1>2
=============================================================================
