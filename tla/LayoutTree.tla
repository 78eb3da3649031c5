------------------------------ MODULE LayoutTree ------------------------------
(***************************************************************************)
(* The authored trees of a configuration, and what is done to them: groups    *)
(* are wrapped and unwrapped, nodes moved, copied and removed, members that a  *)
(* Collection selects come, retire and return, and whole Views are copied,      *)
(* filtered and installed from packages.  A node is a number; a Group knows its *)
(* children, and the weights they have by their positions.                      *)
(***************************************************************************)
EXTENDS Integers, Sequences, FiniteSets, SequencesExt

CONSTANTS
    Documents,   \* where a behaviour starts: a configuration, what the Collection
                 \* selects, what is done, and how often
    Selections,  \* what the Collection may select, when tags change
    Bindings,    \* a Composition's <<View, root>> pairs
    MaxNodes     \* bound: nodes of a configuration

ASSUME TreeAssumption ==
    /\ MaxNodes \in Nat
    /\ Documents # {}

VARIABLES
    document,  \* Configuration: groups, leaves (the windows of Placements) and roots
    chosen,    \* the windows the Collection selects
    refused,   \* the last edit, if validation turned it down
    tools,     \* what is done to the trees
    edits      \* bound: edits that are left

treeVars == <<document, chosen, refused, tools, edits>>

Unit == 12   \* the weight of a child that has none, 1.0

\* A Group without a Membership, and one with.
Unselective ==
    [selects |-> FALSE, generated |-> <<>>, retired |-> <<>>, kept |-> <<>>,
     include |-> {}, exclude |-> {}]
Selective == [Unselective EXCEPT !.selects = TRUE]
NewGroup == [kids |-> <<>>, shares |-> [base |-> <<>>], member |-> Unselective]

-----------------------------------------------------------------------------
(* Trees                                                                     *)

Drop(f, x) == [y \in DOMAIN f \ {x} |-> f[y]]
Set(f, x, v) == [y \in DOMAIN f \cup {x} |-> IF y = x THEN v ELSE f[y]]
Joined(f, h) == [y \in DOMAIN f \cup DOMAIN h |-> IF y \in DOMAIN h THEN h[y] ELSE f[y]]
Values(f) == {f[y] : y \in DOMAIN f}
At(s, e) == CHOOSE n \in DOMAIN s : s[n] = e
Ascending(S) == SetToSortSeq(S, LAMBDA m, n : m < n)

GroupsIn(c) == DOMAIN c.groups
Roots(c) == UNION {Values(c.roots[v]) : v \in DOMAIN c.roots}

\* A node and what is below it.
Subtree(c, id) ==
    LET reached[n \in 0..Cardinality(GroupsIn(c))] ==
            IF n = 0 THEN {id}
            ELSE reached[n - 1] \cup
                 UNION {ToSet(c.groups[g].kids) : g \in reached[n - 1] \cap GroupsIn(c)}
    IN reached[Cardinality(GroupsIn(c))]

\* The Placements that Groups among these nodes keep for members who may return.
Retained(c, nodes) == UNION {Values(c.groups[g].member.retired) : g \in nodes \cap GroupsIn(c)}

ViewNodes(c, v) == UNION {Subtree(c, root) : root \in Values(c.roots[v])}
AllNodes(c) == UNION {ViewNodes(c, v) : v \in DOMAIN c.roots}

\* What no longer hangs on a root is gone.
Tidy(c) ==
    LET nodes == AllNodes(c)
    IN [c EXCEPT !.groups = [g \in DOMAIN @ \cap nodes |-> @[g]],
                 !.leaves = [p \in DOMAIN @ \cap (nodes \cup Retained(c, nodes)) |-> @[p]]]

Holder(c, id) == CHOOSE g \in GroupsIn(c) : id \in ToSet(c.groups[g].kids)
IsKid(c, id) == \E g \in GroupsIn(c) : id \in ToSet(c.groups[g].kids)

-----------------------------------------------------------------------------
(* Weights travel with their child.                                          *)

WeightsAt(group, n) ==
    LET given == {k \in DOMAIN group.shares : n <= Len(group.shares[k])}
    IN [k \in given |-> group.shares[k][n]]

\* As take_child would be if it left the weights where they are.
TakeOnlyChild(group, n) == [group EXCEPT !.kids = RemoveAt(@, n)]
TakeChild(group, n) ==
    [group EXCEPT !.kids = RemoveAt(@, n),
                  !.shares = [k \in DOMAIN @ |-> IF n <= Len(@[k]) THEN RemoveAt(@[k], n) ELSE @[k]]]

Filled(s, length) == [n \in 1..length |-> IF n <= Len(s) THEN s[n] ELSE Unit]
Weight(weights, k) == IF k \in DOMAIN weights THEN weights[k] ELSE Unit

InsertChild(group, n, id, weights) ==
    LET share(k) == InsertAt(Filled(group.shares[k], Len(group.kids)), n, Weight(weights, k))
    IN [group EXCEPT !.kids = InsertAt(@, n, id),
                     !.shares = [k \in DOMAIN @ |->
                         IF @[k] = <<>> /\ k \notin DOMAIN weights THEN <<>> ELSE share(k)]]
LastPlace(group) == Len(group.kids) + 1

Divided(weights, count) ==
    [k \in DOMAIN weights |-> weights[k] \div (IF count = 0 THEN 1 ELSE count)]

-----------------------------------------------------------------------------
(* Membership: what is inferred, what was retired, and who is left out here.  *)

\* Taking a Placement away says that its window does not belong here.
Forgotten(member, w) ==
    IF ~member.selects THEN member
    ELSE [member EXCEPT !.generated = Drop(@, w), !.retired = Drop(@, w), !.kept = Drop(@, w),
                        !.include = @ \ {w}, !.exclude = @ \cup {w}]

\* As it would be if only the retired Placement went.
WelcomingOnly(member, w) ==
    IF ~member.selects THEN member
    ELSE [member EXCEPT !.exclude = @ \ {w}, !.retired = Drop(@, w), !.kept = Drop(@, w)]

\* Putting one in takes the place of the one that was to return.
Welcoming(member, w) ==
    IF ~member.selects THEN member
    ELSE [member EXCEPT !.exclude = @ \ {w},
                        !.generated = IF w \in DOMAIN member.retired THEN Drop(@, w) ELSE @,
                        !.retired = Drop(@, w), !.kept = Drop(@, w)]

TakeOut(c, id) ==
    IF id \in Roots(c)
    THEN LET others(v) == {r \in DOMAIN c.roots[v] : c.roots[v][r] # id}
         IN [rest |-> [c EXCEPT !.roots = [v \in DOMAIN @ |-> [r \in others(v) |-> c.roots[v][r]]]],
             weights |-> <<>>]
    ELSE LET g == Holder(c, id)
             n == At(c.groups[g].kids, id)
             left == TakeChild(c.groups[g], n)
             member == IF id \in DOMAIN c.leaves THEN Forgotten(left.member, c.leaves[id])
                       ELSE left.member
         IN [rest |-> [c EXCEPT !.groups[g] = [left EXCEPT !.member = member]],
             weights |-> WeightsAt(c.groups[g], n)]

PutIn(c, g, n, id, weights) ==
    LET group == InsertChild(c.groups[g], n, id, weights)
        member == IF id \in DOMAIN c.leaves THEN Welcoming(group.member, c.leaves[id])
                  ELSE group.member
    IN [c EXCEPT !.groups[g] = [group EXCEPT !.member = member]]

ShowsHere(c, group, w) == \E n \in DOMAIN group.kids :
    group.kids[n] \in DOMAIN c.leaves /\ c.leaves[group.kids[n]] = w

WindowsOf(c) == Values(c.leaves)

SelectedHere(member) == (member.include \cup chosen) \ member.exclude

\* Members no longer selected go, and are remembered with their weights.
Retire(c, group, id) ==
    LET w == c.leaves[id]
        n == At(group.kids, id)
    IN [TakeChild(group, n) EXCEPT !.member.retired = Set(@, w, id),
                                   !.member.kept = Set(@, w, WeightsAt(group, n))]
Leaving(c, group) ==
    SelectSeq(group.kids, LAMBDA id :
        /\ id \in DOMAIN c.leaves
        /\ c.leaves[id] \in DOMAIN group.member.generated
        /\ group.member.generated[c.leaves[id]] = id
        /\ c.leaves[id] \notin SelectedHere(group.member))

\* A window that nothing here shows gets the Placement it had, or a new one.
Join(c, g, w) ==
    LET group == c.groups[g]
        returns == w \in DOMAIN group.member.retired
        id == IF returns THEN group.member.retired[w] ELSE c.next
        weights == IF w \in DOMAIN group.member.kept THEN group.member.kept[w] ELSE <<>>
        member == [group.member EXCEPT !.retired = Drop(@, w), !.kept = Drop(@, w),
                                       !.generated = Set(@, w, id)]
    IN IF ShowsHere(c, group, w) THEN c
       ELSE [c EXCEPT !.groups[g] = InsertChild([group EXCEPT !.member = member],
                                                LastPlace(group), id, weights),
                      !.leaves = Set(@, id, w),
                      !.next = IF returns THEN @ ELSE @ + 1]

Reconciled(c, g) ==
    LET group == c.groups[g]
        selected == SelectedHere(group.member)
        without == FoldLeft(LAMBDA acc, id : Retire(c, acc, id), group, Leaving(c, group))
    IN IF ~group.member.selects THEN c
       ELSE FoldLeft(LAMBDA acc, w : Join(acc, g, w),
                     [c EXCEPT !.groups[g] = without], Ascending(selected))

-----------------------------------------------------------------------------
(* Copies                                                                    *)

\* A member's record names the retired Placement, or the first that shows its window.
CopiedGroup(c, g, new) ==
    LET group == c.groups[g]
        first(w) == CHOOSE n \in DOMAIN group.kids :
                        /\ group.kids[n] \in DOMAIN c.leaves /\ c.leaves[group.kids[n]] = w
                        /\ \A m \in 1..n - 1 : ~(/\ group.kids[m] \in DOMAIN c.leaves
                                                 /\ c.leaves[group.kids[m]] = w)
        renamed(w) == IF w \in DOMAIN group.member.retired THEN new[group.member.retired[w]]
                      ELSE IF ShowsHere(c, group, w) THEN new[group.kids[first(w)]]
                      ELSE group.member.generated[w]
    IN [group EXCEPT !.kids = [n \in DOMAIN @ |-> new[@[n]]],
                     !.member.retired = [w \in DOMAIN @ |-> new[@[w]]],
                     !.member.generated = [w \in DOMAIN @ |-> renamed(w)]]

\* The subtree at a node of c, with identities of its own, in d.
WithCopy(c, id, d) ==
    LET nodes == Subtree(c, id)
        all == nodes \cup Retained(c, nodes)
        new == [n \in all |-> d.next + Cardinality({m \in all : m < n})]
        old(n) == CHOOSE m \in all : new[m] = n
    IN [d EXCEPT
            !.groups = Joined(@, [n \in {new[g] : g \in nodes \cap GroupsIn(c)} |->
                                      CopiedGroup(c, old(n), new)]),
            !.leaves = Joined(@, [n \in {new[p] : p \in all \cap DOMAIN c.leaves} |->
                                      c.leaves[old(n)]]),
            !.next = @ + Cardinality(all)]
CopyOf(c, id, d) ==
    LET nodes == Subtree(c, id)
    IN d.next + Cardinality({m \in nodes \cup Retained(c, nodes) : m < id})

\* A View of d like a View of c.
WithView(c, v, d) ==
    LET w == Cardinality(DOMAIN d.roots) + 1
        step(acc, r) == LET id == c.roots[v][r]
                        IN [WithCopy(c, id, acc) EXCEPT !.roots[w] = Set(@, r, CopyOf(c, id, acc))]
    IN FoldLeft(step, [d EXCEPT !.roots = Set(@, w, <<>>)], SetToSeq(DOMAIN c.roots[v]))

\* Trees that nothing is inferred for any more.
Detached(c) == [c EXCEPT !.groups = [g \in DOMAIN @ |-> [@[g] EXCEPT !.member = Unselective]]]

\* What is left of a Group when children go, first to last.
FilteredGroup(group, gone) ==
    FoldLeft(LAMBDA acc, id : TakeChild(acc, At(acc.kids, id)), group,
             SelectSeq(group.kids, LAMBDA id : id \in gone))

\* A View without these windows; a root that goes leaves an empty one.
Filtered(c, v, windows) ==
    LET gone == {p \in DOMAIN c.leaves : c.leaves[p] \notin windows}
        lost == {r \in DOMAIN c.roots[v] : c.roots[v][r] \in gone}
        emptied == Set(c.groups, c.next, NewGroup)
    IN Detached([c EXCEPT
            !.groups = [g \in DOMAIN emptied |-> FilteredGroup(emptied[g], gone)],
            !.roots[v] = [r \in DOMAIN @ |-> IF r \in lost THEN c.next ELSE @[r]]])

\* A package: roles in place of windows; installed with a window for each role.
Packaged(c, v, filling) ==
    Detached([c EXCEPT !.leaves = [p \in DOMAIN @ |->
        IF p \in ViewNodes(c, v) THEN filling[@[p]] ELSE @[p]]])

-----------------------------------------------------------------------------
(* Validation                                                                *)

Occurrences(c, id) ==
    Cardinality(UNION {{<<v, r>> : r \in {q \in DOMAIN c.roots[v] : c.roots[v][q] = id}} :
                           v \in DOMAIN c.roots})
    + Cardinality(UNION {{<<g, n>> : n \in {m \in DOMAIN c.groups[g].kids :
                                                c.groups[g].kids[m] = id}} : g \in GroupsIn(c)})
    + Cardinality({g \in GroupsIn(c) : id \in Values(c.groups[g].member.retired)})

MemberSound(c, g) ==
    LET group == c.groups[g]
        member == group.member
    IN /\ DOMAIN member.kept \subseteq DOMAIN member.retired
       /\ \A w \in DOMAIN member.kept : \A k \in DOMAIN member.kept[w] : member.kept[w][k] > 0
       /\ \A w \in DOMAIN member.retired :
              /\ c.leaves[member.retired[w]] = w
              /\ w \in DOMAIN member.generated /\ member.generated[w] = member.retired[w]
       /\ \A w \in DOMAIN member.generated \ DOMAIN member.retired :
              /\ member.generated[w] \in ToSet(group.kids) \cap DOMAIN c.leaves
              /\ c.leaves[member.generated[w]] = w

Valid(c) ==
    /\ \A id \in GroupsIn(c) \cup DOMAIN c.leaves : Occurrences(c, id) = 1
    /\ \A v \in DOMAIN c.roots : c.roots[v] # <<>>
    /\ \A binding \in Bindings : binding[2] \in DOMAIN c.roots[binding[1]]
    /\ \A g \in GroupsIn(c) :
           /\ MemberSound(c, g)
           /\ \A k \in DOMAIN c.groups[g].shares : \A n \in DOMAIN c.groups[g].shares[k] :
                  c.groups[g].shares[k][n] > 0

-----------------------------------------------------------------------------
(* Edits: a draft is made, validated, and taken or turned down.                *)

TreeInit ==
    /\ \E start \in Documents :
            /\ document = start.tree /\ chosen = start.chosen
            /\ tools = start.tools /\ edits = start.edits
    /\ refused = "nothing"

Fits(draft) == edits > 0 /\ Cardinality(GroupsIn(draft) \cup DOMAIN draft.leaves) <= MaxNodes

\* Configuration::edit_structure and its like.
Edit(kind, change) ==
    LET draft == Tidy(change)
    IN /\ Fits(draft)
       /\ edits' = edits - 1
       /\ IF Valid(draft) THEN document' = draft /\ refused' = "nothing"
          ELSE refused' = kind /\ UNCHANGED document
       /\ UNCHANGED <<chosen, tools>>

\* What the interface does to its draft is validated when the draft is saved.
Draft(change) ==
    /\ Fits(Tidy(change))
    /\ document' = Tidy(change)
    /\ edits' = edits - 1
    /\ UNCHANGED <<chosen, refused, tools>>

Kind(id) == IF id \in Roots(document) THEN "root" ELSE "below"
Places(c, g) == {1, LastPlace(c.groups[g])}

Wrapped(c, g, children) ==
    LET step(acc, id) ==
            LET taken == TakeOut(acc.c, id)
                outer == [k \in DOMAIN acc.outer \cup DOMAIN taken.weights |->
                             (IF k \in DOMAIN acc.outer THEN acc.outer[k] ELSE 0) +
                             (IF k \in DOMAIN taken.weights THEN taken.weights[k] ELSE 0)]
            IN [c |-> taken.rest, outer |-> outer,
                inner |-> InsertChild(acc.inner, LastPlace(acc.inner), id, taken.weights)]
        ordered == SelectSeq(c.groups[g].kids, LAMBDA id : id \in children)
        done == FoldLeft(step, [c |-> c, outer |-> <<>>, inner |-> NewGroup], ordered)
    IN [done.c EXCEPT
            !.groups = Set(Set(@, c.next, done.inner), g,
                           InsertChild(@[g], At(c.groups[g].kids, Head(ordered)), c.next, done.outer)),
            !.next = @ + 1]

Wrap ==
    \E g \in GroupsIn(document) : \E children \in SUBSET ToSet(document.groups[g].kids) \ {{}} :
        Edit("below", Wrapped(document, g, children))

Unwrapped(c, id) ==
    LET g == Holder(c, id)
        n == At(c.groups[g].kids, id)
        nested == c.groups[id].kids
        taken == TakeOut(c, id)
        weights == Divided(taken.weights, Len(nested))
        step(acc, m) == InsertChild(acc, n + m - 1, nested[m], weights)
    IN [taken.rest EXCEPT !.groups[g] = FoldLeft(step, @, [m \in DOMAIN nested |-> m])]

Unwrap == \E id \in GroupsIn(document) : IsKid(document, id) /\ Edit("below", Unwrapped(document, id))

\* A View without roots gets an empty one.
Removed(c, id) ==
    LET rest == TakeOut(c, id).rest
        bare == {v \in DOMAIN c.roots : rest.roots[v] = <<>>}
    IN IF bare = {} THEN rest
       ELSE [rest EXCEPT !.groups = Set(@, c.next, NewGroup), !.next = @ + 1,
                         !.roots = [v \in DOMAIN @ |-> IF v \in bare
                                       THEN [r \in DOMAIN c.roots[v] |-> c.next] ELSE @[v]]]

RemoveNode == \E id \in AllNodes(document) : Edit(Kind(id), Removed(document, id))

Move ==
    \E id \in AllNodes(document) : \E g \in GroupsIn(document) \ Subtree(document, id) :
        LET taken == TakeOut(document, id)
        IN \E n \in Places(taken.rest, g) :
               Edit(Kind(id), PutIn(taken.rest, g, n, id, taken.weights))

Copy ==
    \E id \in AllNodes(document) : \E g \in GroupsIn(document) \ Subtree(document, id) :
        \E n \in Places(document, g) :
            Edit("below", PutIn(WithCopy(document, id, document), g, n,
                                CopyOf(document, id, document), <<>>))

\* stage_memberships: a draft of what is valid, which the interface takes.
Stage ==
    Edit("below", IF Valid(document)
                  THEN FoldLeft(Reconciled, document, Ascending(GroupsIn(document)))
                  ELSE document)

CopyView == \E v \in DOMAIN document.roots : Edit("below", WithView(document, v, document))

SaveFilteredView ==
    \E v \in DOMAIN document.roots : \E windows \in SUBSET WindowsOf(document) \ {WindowsOf(document)} :
        LET filtered == Filtered(document, v, windows)
        IN Edit("below", WithView([filtered EXCEPT !.next = @ + 1], v, [document EXCEPT !.next = @ + 1]))

\* A package of a View, installed with a window for every role.
Install ==
    \E v \in DOMAIN document.roots :
        \E filling \in [WindowsOf(document) -> WindowsOf(document)] :
            Edit("below", WithView(Packaged(document, v, filling), v, document))

\* Tags change.
Retag ==
    /\ \E selection \in Selections \ {chosen} : chosen' = selection
    /\ UNCHANGED <<document, refused, tools, edits>>

-----------------------------------------------------------------------------
(* What the interface does itself.                                           *)

\* A Placement of its own for a window of another.
AddReference ==
    \E g \in GroupsIn(document), w \in WindowsOf(document) :
        LET member == [document.groups[g].member EXCEPT !.include = @ \cup {w}, !.exclude = @ \ {w}]
        IN Edit("below", [document EXCEPT
               !.groups[g].kids = Append(@, document.next),
               !.groups[g].member = IF @.selects THEN member ELSE @,
               !.leaves = Set(@, document.next, w),
               !.next = @ + 1])

DroppedHere(c, g, n) ==
    LET id == c.groups[g].kids[n]
        group == TakeChild(c.groups[g], n)
        generated == group.member.generated
        member == [group.member EXCEPT
                      !.generated = [w \in {v \in DOMAIN generated : generated[v] # id} |-> generated[w]]]
        w == c.leaves[id]
    IN [c EXCEPT !.groups[g] = [group EXCEPT !.member =
           IF ~@.selects THEN @
           ELSE IF id \notin DOMAIN c.leaves THEN member
           ELSE [member EXCEPT !.retired = Drop(@, w), !.kept = Drop(@, w),
                               !.include = @ \ {w}, !.exclude = @ \cup {w}]]]
DropReference ==
    \E g \in GroupsIn(document) : \E n \in DOMAIN document.groups[g].kids :
        Draft(DroppedHere(document, g, n))

\* A child changes places with the one before it.
Reorder ==
    \E g \in GroupsIn(document) : \E n \in 2..Len(document.groups[g].kids) :
        LET swapped(s) == IF n <= Len(s) THEN [s EXCEPT ![n] = s[n - 1], ![n - 1] = s[n]] ELSE s
        IN Draft([document EXCEPT !.groups[g].kids = swapped(@),
                                  !.groups[g].shares = [k \in DOMAIN @ |-> swapped(@[k])]])

\* A window is included here, or excluded, or no longer so; a Group becomes manual.
Override ==
    \E g \in GroupsIn(document), w \in WindowsOf(document) :
        /\ document.groups[g].member.selects
        /\ \/ \E only \in {{w}, {}} : Draft([document EXCEPT !.groups[g].member.include = (@ \ {w}) \cup only])
           \/ \E only \in {{w}, {}} : Draft([document EXCEPT !.groups[g].member.exclude = (@ \ {w}) \cup only])
MakeManual ==
    \E g \in GroupsIn(document) :
        /\ document.groups[g].member.selects
        /\ Draft([document EXCEPT !.groups[g].member = Unselective])
MakeSelective ==
    \E g \in GroupsIn(document) :
        /\ ~document.groups[g].member.selects
        /\ Draft([document EXCEPT !.groups[g].member = Selective])

TreeNext ==
    \/ "structure" \in tools /\ (Wrap \/ Unwrap \/ RemoveNode \/ Move \/ Copy)
    \/ "members" \in tools /\ (Stage \/ Retag)
    \/ "views" \in tools /\ (CopyView \/ SaveFilteredView \/ Install)
    \/ "reorder" \in tools /\ Reorder
    \/ "sources" \in tools /\ (Override \/ MakeManual \/ MakeSelective)
    \/ "references" \in tools /\ (AddReference \/ DropReference)

-----------------------------------------------------------------------------
(* Properties                                                                *)

Keeper(c, id) ==
    {g \in GroupsIn(c) : id \in ToSet(c.groups[g].kids) \cup Values(c.groups[g].member.retired)}

\* The weight a node counts with, or will when it returns.
ShareOf(c, g, id, k) ==
    LET group == c.groups[g]
    IN IF id \in ToSet(group.kids) THEN Weight(WeightsAt(group, At(group.kids, id)), k)
       ELSE Weight(group.member.kept[c.leaves[id]], k)

\* Weights travel with their child, never with its former index (Group::take_child):
\* a node that stays in its Group, moves to another that was there, retires or returns
\* counts as before, in the base arrangement and in each variant the Groups share.
SharesTravel ==
    [][document' # document =>
       \A id \in (GroupsIn(document) \cup DOMAIN document.leaves)
                 \cap (GroupsIn(document') \cup DOMAIN document'.leaves) :
           \A g \in Keeper(document, id) \cap GroupsIn(document'),
              h \in Keeper(document', id) \cap GroupsIn(document) :
               \A k \in DOMAIN document.groups[g].shares \cap DOMAIN document'.groups[h].shares :
                   ShareOf(document', h, id, k) = ShareOf(document, g, id, k)]_document

\* The records of members agree with the trees after any sequence of edits: what the
\* edits' own conditions admit, validation admits, unless a root of a View was taken.
EditsAccepted == Valid(document) /\ refused \in {"nothing", "root"}

\* "Removed generated children retain stable identity": removing a Placement never leaves
\* a record of a member that is nowhere, with which nothing can be saved any more.
DraftSaves == Valid(document)
=============================================================================
