------------------------------ MODULE ViewLayout ------------------------------
(***************************************************************************)
(* Where the planner puts windows: one tree of Groups and Placements is laid  *)
(* out in the area of one slot, again and again, while a user moves windows,  *)
(* protects them and asks for exceptions.  What a layout remembers (bounds of  *)
(* Groups, selected tabs, responsive variants, fallbacks, exceptions) is part   *)
(* of the next one.  Lengths are whole numbers of one kind of pixel.            *)
(***************************************************************************)
EXTENDS Integers, Sequences, FiniteSets, SequencesExt

CONSTANTS
    Nowhere,     \* no rectangle, no choice
    Trees,       \* authored roots; a behaviour has one of them
    WindowCount, \* windows are numbered, in the order of their identities
    Rooms,       \* areas a slot may have
    Spots,       \* where a user leaves windows
    Start,       \* where windows are at first
    Lockable,    \* windows whose geometry may be protected
    Rigid,       \* windows that cannot be resized
    Clicked,     \* windows a user may work with, and minimize
    FlowSize,    \* the size a Flow takes for a child without windows
    MaxUserActs, \* bound: acts of the user between two layouts
    MaxLayouts   \* bound: layouts

Wins == 1..WindowCount
Strategies == {"tabs", "fold", "free", "flow", "across", "down", "grid"}

VARIABLES
    tree,     \* the authored root
    room,     \* the slot's area
    at,       \* frames of the windows
    visible,  \* windows that are not hidden
    iconic,   \* windows that are minimized
    held,     \* windows whose geometry is protected
    focused,  \* the foreground window, or Nowhere
    memory,   \* Runtime: the Presentation of the slot, and its claims
    laid,     \* history: the last request, and what became of it
    acts      \* acts since the last layout, and layouts

layoutVars == <<tree, room, at, visible, iconic, held, focused, memory, laid, acts>>

-----------------------------------------------------------------------------
(* Trees.  A Placement has a window and a size of its own, or Nowhere; a Group    *)
(* has children.  Identities are numbers, since they break ties.                  *)

IsLeaf(node) == "window" \in DOMAIN node

RECURSIVE Leaves(_)
Leaves(node) ==
    IF IsLeaf(node) THEN <<node>>
    ELSE FlattenSeq([n \in DOMAIN node.children |-> Leaves(node.children[n])])

RECURSIVE GroupsOf(_)
GroupsOf(node) ==
    IF IsLeaf(node) THEN {}
    ELSE {node} \cup UNION {GroupsOf(node.children[n]) : n \in DOMAIN node.children}

ASSUME LayoutAssumption ==
    /\ WindowCount \in Nat \ {0}
    /\ Lockable \cup Rigid \cup Clicked \subseteq Wins
    /\ Start \in [Wins -> Spots]
    /\ \A r \in Rooms \cup Spots : r.w > 0 /\ r.h > 0
    /\ \A t \in Trees : \A g \in GroupsOf(t) : {g.how, g.narrow.how} \cup ToSet(g.instead) \subseteq Strategies

Includes(node, w) == \E n \in DOMAIN Leaves(node) : Leaves(node)[n].window = w
GroupIds == UNION {{g.id : g \in GroupsOf(t)} : t \in Trees}
TreeWindows == {w \in Wins : Includes(tree, w)}
Tabbed(how) == how \in {"tabs", "fold"}

\* Shares are given to a child by its index; a child taken out takes its share along.
Share(shares, n) == IF n \in DOMAIN shares THEN shares[n] ELSE 1
Without(shares, n) == IF n \in DOMAIN shares THEN RemoveAt(shares, n) ELSE shares

RECURSIVE Pruned(_, _)
Pruned(node, lost) ==
    IF IsLeaf(node) THEN IF node.id \in lost THEN Nowhere ELSE node
    ELSE LET rest == [n \in DOMAIN node.children |-> Pruned(node.children[n], lost)]
             gone == SelectSeq([n \in DOMAIN rest |-> n], LAMBDA n : rest[n] = Nowhere)
             left == SelectSeq(rest, LAMBDA c : c # Nowhere)
         IN  IF left = <<>> /\ rest # <<>> THEN Nowhere
             ELSE [node EXCEPT
                     !.children = left,
                     !.shares = FoldRight(LAMBDA n, s : Without(s, n), gone, @),
                     !.narrow.shares = FoldRight(LAMBDA n, s : Without(s, n), gone, @)]

-----------------------------------------------------------------------------
(* Membership: which of several Placements of a window is the one shown.          *)

MayFold(g) == Tabbed(g.how) \/ Tabbed(g.narrow.how) \/ "fold" \in ToSet(g.instead)

\* assignment_origins: with the Placements' nearest Group, and whether a Placement is
\* there whatever tabs are selected.
RECURSIVE Origins(_, _, _, _, _)
Origins(node, parent, asked, chosen, certain) ==
    IF IsLeaf(node)
    THEN {[id |-> node.id, window |-> node.window, group |-> parent.id,
           rank |-> parent.rank, inferred |-> node.generated /\ ~chosen,
           certain |-> certain]}
    ELSE UNION {LET child == node.children[n]
                IN  Origins(child, node, asked, chosen \/ asked = <<node.id, child.id>>,
                            certain /\ ~MayFold(node)) : n \in DOMAIN node.children}

Clash(one, other) == one.id = other.id \/ (~one.inferred /\ ~other.inferred)
Lower(one, other) ==
    one.group < other.group \/ (one.group = other.group /\ one.id < other.id)
Beats(one, other) ==
    IF one.inferred # other.inferred THEN ~one.inferred
    ELSE one.rank > other.rank \/ (one.rank = other.rank /\ Lower(one, other))

OriginOf(q, id) == CHOOSE o \in q.origins : o.id = id
Rivals(q) == {<<o, r>> \in q.origins \X q.origins :
                /\ o.certain /\ r.certain
                /\ o.window = r.window /\ o.id # r.id}
LostAtOnce(q) == {pair[1].id : pair \in {p \in Rivals(q) : Beats(p[2], p[1])}}
ClashAtOnce(q) == \E pair \in Rivals(q) : Clash(pair[1], pair[2])

-----------------------------------------------------------------------------
(* Rectangles.                                                                    *)

Least(m, n) == IF m < n THEN m ELSE n
Most(m, n) == IF m < n THEN n ELSE m
Total(lengths) ==
    LET sum[n \in 0..Len(lengths)] == IF n = 0 THEN 0 ELSE sum[n - 1] + lengths[n]
    IN  sum[Len(lengths)]
Size(r) == r.w * r.h
Holds(r, s) == r.x <= s.x /\ r.y <= s.y /\ s.x + s.w <= r.x + r.w /\ s.y + s.h <= r.y + r.h
Meet(r, s) == r.x < s.x + s.w /\ s.x < r.x + r.w /\ r.y < s.y + s.h /\ s.y < r.y + r.h

\* Mutant: what is left above and below is forgotten.
CarvedSideways(r, t) ==
    LET left == Most(r.x, t.x)
        right == Least(r.x + r.w, t.x + t.w)
    IN  SelectSeq(<<[r EXCEPT !.w = left - r.x], [r EXCEPT !.x = right, !.w = r.x + r.w - right]>>,
                  LAMBDA c : c.w > 0)

\* What is left of r beside t: to the left, to the right, above and below.
Carved(r, t) ==
    LET left == Most(r.x, t.x)                   top == Most(r.y, t.y)
        right == Least(r.x + r.w, t.x + t.w)     low == Least(r.y + r.h, t.y + t.h)
    IN  SelectSeq(<<[r EXCEPT !.w = left - r.x],
                    [r EXCEPT !.x = right, !.w = r.x + r.w - right],
                    [r EXCEPT !.h = top - r.y],
                    [r EXCEPT !.y = low, !.h = r.y + r.h - low]>>,
                  LAMBDA c : c.w > 0 /\ c.h > 0)

FreeParts(area, taken) ==
    FoldLeft(LAMBDA parts, t : FlattenSeq([n \in DOMAIN parts |->
                 IF Meet(parts[n], t) THEN Carved(parts[n], t) ELSE <<parts[n]>>]),
             <<area>>, taken)

\* The largest of them, the last of equals; Nowhere when nothing is left.
LargestFree(area, taken) ==
    FoldLeft(LAMBDA best, r : IF best # Nowhere /\ Size(r) < Size(best) THEN best ELSE r,
             Nowhere, FreeParts(area, taken))

\* A minimized window is off the screen.
Away == [x |-> -100, y |-> -100, w |-> 1, h |-> 1]
Seen(w) == IF w \in iconic THEN Away ELSE at[w]
Resized(r, s) == r.w # s.w \/ r.h # s.h

-----------------------------------------------------------------------------
(* One pass over the tree.  q is the request with what is known beforehand: the    *)
(* exceptions, the rectangles they and protected windows have taken, and where     *)
(* Placements come from.  e is what has been arrived at: desired Placements, the    *)
(* Placements that lost, and what the Presentation will remember.                   *)

Fail(e) == [e EXCEPT !.ok = FALSE]
Each(children, e, step(_, _)) ==
    LET done[n \in 0..Len(children)] ==
            IF n = 0 THEN e
            ELSE LET acc == done[n - 1] IN IF acc.ok THEN step(acc, children[n]) ELSE acc
    IN  done[Len(children)]
Put(e, w, id, r, strict) == [e EXCEPT !.desired[w] = [id |-> id, at |-> r, strict |-> strict]]

Stays(q, w) == q.exceptions[w] # Nowhere /\ q.exceptions[w].stays

\* The frame of a Placement in its area: its own size, or that of a protection, an
\* exception, or a parent that preserves sizes.
Framed(q, leaf, area, keeps) ==
    LET w == leaf.window
        kept == q.exceptions[w]
        wish == IF leaf.size = Nowhere THEN area
                ELSE [area EXCEPT !.w = leaf.size.w, !.h = leaf.size.h]
    IN  IF w \in held THEN Seen(w)
        ELSE IF kept # Nowhere
        THEN IF kept.stays THEN kept.at ELSE [wish EXCEPT !.w = kept.at.w, !.h = kept.at.h]
        ELSE IF keeps THEN [wish EXCEPT !.w = Seen(w).w, !.h = Seen(w).h]
        ELSE wish

\* Mutant: what other windows have reserved is not looked at.
PlaceableAnyhow(q, leaf, area, r) == r.w > 0 /\ r.h > 0 /\ Holds(room, r)

Placeable(q, leaf, area, r) ==
    LET w == leaf.window
    IN  /\ r.w > 0 /\ r.h > 0
        /\ w \in Rigid => ~Resized(r, Seen(w))
        /\ Holds(room, r)
        /\ w \in held \/ Stays(q, w) \/ Holds(area, r)
        /\ \A t \in ToSet(q.taken) : r = t \/ ~Meet(r, t)

Placed(q, e, leaf, area, keeps) ==
    LET w == leaf.window
        r == Framed(q, leaf, area, keeps)
    IN  IF w \in iconic THEN e
        ELSE IF Placeable(q, leaf, area, r)
        THEN Put(e, w, leaf.id, r, w \in held \/ q.exceptions[w] # Nowhere \/ keeps)
        ELSE Fail(e)

\* A window that is placed already goes to the Placement that wins.
Place(q, e, leaf, area, keeps) ==
    LET prior == e.desired[leaf.window]
        mine == OriginOf(q, leaf.id)
        other == OriginOf(q, prior.id)
    IN  IF prior = Nowhere THEN Placed(q, e, leaf, area, keeps)
        ELSE IF Clash(mine, other) THEN Fail(e)
        ELSE IF ~Beats(mine, other) THEN [e EXCEPT !.lost = @ \cup {leaf.id}]
        ELSE Placed(q, [e EXCEPT !.lost = @ \cup {prior.id}, !.desired[leaf.window] = Nowhere],
                    leaf, area, keeps)

-----------------------------------------------------------------------------
(* Windows that stay where they are.                                              *)

How(e, g) ==
    IF e.fallen[g.id] # Nowhere THEN e.fallen[g.id]
    ELSE IF e.narrow[g.id] THEN g.narrow.how ELSE g.how

ChildOf(g, id) == SelectSeq(g.children, LAMBDA c : c.id = id)
ChosenChild(e, g) ==
    IF ChildOf(g, e.tabs[g.id]) = <<>> THEN g.children[1] ELSE ChildOf(g, e.tabs[g.id])[1]

RECURSIVE ActiveLeaves(_, _)
ActiveLeaves(e, node) ==
    IF IsLeaf(node) THEN <<node>>
    ELSE IF node.children = <<>> THEN <<>>
    ELSE IF Tabbed(How(e, node)) THEN ActiveLeaves(e, ChosenChild(e, node))
    ELSE FlattenSeq([n \in DOMAIN node.children |-> ActiveLeaves(e, node.children[n])])

\* The least rectangle around some frames.
Around(frames) ==
    LET x == CHOOSE m \in {r.x : r \in frames} : \A r \in frames : m <= r.x
        y == CHOOSE m \in {r.y : r \in frames} : \A r \in frames : m <= r.y
        right == CHOOSE m \in {r.x + r.w : r \in frames} : \A r \in frames : r.x + r.w <= m
        low == CHOOSE m \in {r.y + r.h : r \in frames} : \A r \in frames : r.y + r.h <= m
    IN  [x |-> x, y |-> y, w |-> right - x, h |-> low - y]

AroundAny(frames) == IF frames = {} THEN Nowhere ELSE Around(frames)

SourceBounds(e, g) ==
    IF e.bounds[g.id] # Nowhere THEN e.bounds[g.id]
    ELSE AroundAny({at[leaf.window] : leaf \in {l \in ToSet(ActiveLeaves(e, g)) :
                                                   l.window \in visible \ iconic}})

KeptLeaf(e, leaf, r, area, translate) ==
    IF /\ translate \/ memory.claims[leaf.window] = leaf.id
       /\ leaf.window \notin iconic
       /\ Holds(area, r)
       /\ e.desired[leaf.window] = Nowhere
    THEN Put(e, leaf.window, leaf.id, r, TRUE) ELSE Fail(e)

\* preserve_arrangement: the windows of a Group as they stand to each other, moved
\* along with the Group, or left alone because nothing better was found.
ArrangedIn(e, source, leaves, area, translate) ==
    LET Moved(r) == IF translate
                    THEN [r EXCEPT !.x = area.x + r.x - source.x, !.y = area.y + r.y - source.y]
                    ELSE r
        Keep(acc, leaf) == KeptLeaf(acc, leaf, Moved(at[leaf.window]), area, translate)
    IN  IF source = Nowhere THEN Fail(e) ELSE Each(leaves, e, Keep)

Bounded(e, g, area) == IF e.ok THEN [e EXCEPT !.bounds[g.id] = area] ELSE e

Arranged(q, e, g, area, translate) ==
    Bounded(ArrangedIn(e, SourceBounds(e, g), ActiveLeaves(e, g), area, translate), g, area)

-----------------------------------------------------------------------------
(* The strategies of a Group.                                                     *)

RECURSIVE Layout(_, _, _, _, _)

Asked(q, g) == q.asked # <<>> /\ q.asked[1] = g.id

\* The tab of the focused window, if the tabs are only for want of space; or the one
\* selected; or the first.
TabLayout(q, e, g, area, how, keeps) ==
    LET focal == IF how = "fold" /\ focused # Nowhere /\ ~Asked(q, g)
                 THEN SelectSeq(g.children, LAMBDA c : Includes(c, focused)) ELSE <<>>
        child == IF focal # <<>> THEN focal[1] ELSE ChosenChild(e, g)
    IN  Layout(q, [e EXCEPT !.tabs[g.id] = child.id], child, area, keeps \/ g.sized)

FreeLayout(q, e, g, area, keeps) ==
    Each(g.children, e, LAMBDA acc, child : Layout(q, acc, child, area, keeps \/ g.sized))

\* Rows of windows of their own size: each next to the one before, or below the row.
FrameSizes(q, child) ==
    {IF q.exceptions[l.window] # Nowhere THEN q.exceptions[l.window].at ELSE Seen(l.window)
       : l \in ToSet(Leaves(child))}

SizeOf(frames) ==
    IF frames = {} THEN FlowSize ELSE Around({[f EXCEPT !.x = 0, !.y = 0] : f \in frames})

Wraps(acc, free, s) == acc.x + s.w > free.x + free.w

Spot(acc, gap, free, s) ==
    IF Wraps(acc, free, s)
    THEN [x |-> free.x, y |-> acc.y + acc.row + gap, w |-> s.w, h |-> s.h]
    ELSE [x |-> acc.x, y |-> acc.y, w |-> s.w, h |-> s.h]

InRow(q, acc, child, gap, free, spot) ==
    [e |-> IF ~acc.e.ok \/ spot.w > free.w \/ spot.h > free.h \/ ~Holds(free, spot)
           THEN Fail(acc.e) ELSE Layout(q, acc.e, child, spot, TRUE),
     x |-> spot.x + spot.w + gap, y |-> spot.y,
     row |-> IF Wraps(acc, free, spot) THEN spot.h ELSE Most(acc.row, spot.h)]

InRows(q, e, g, free) ==
    LET Next(acc, child) ==
            InRow(q, acc, child, g.gap, free,
                  Spot(acc, g.gap, free, SizeOf(FrameSizes(q, child))))
    IN  IF free = Nowhere THEN Fail(e)
        ELSE FoldLeft(Next, [e |-> e, x |-> free.x, y |-> free.y, row |-> 0], g.children).e

FlowLayout(q, e, g, area) == InRows(q, e, g, LargestFree(area, q.taken))

\* Children that stay where they are, and those that share what is free.
Fixed(q, child) == IsLeaf(child) /\ (child.window \in held \/ Stays(q, child.window))
Sharing(q, g) == SelectSeq(g.children, LAMBDA c : ~Fixed(q, c))
Available(q, g, area) == IF Sharing(q, g) = <<>> THEN area ELSE LargestFree(area, q.taken)

\* Lay the fixed children out in the whole area, and the n-th of the others in its cell.
InCells(q, e, g, area, keeps, cells) ==
    LET sharing == Sharing(q, g)
        Index(child) == CHOOSE n \in DOMAIN sharing : sharing[n].id = child.id
        Lay(acc, child) ==
            IF Fixed(q, child) THEN Layout(q, acc, child, area, TRUE)
            ELSE LET r == cells[Index(child)]
                 IN  IF r = Nowhere \/ r.w <= 0 \/ r.h <= 0 THEN Fail(acc)
                     ELSE Layout(q, acc, child, r, keeps \/ g.sized)
    IN  Each(g.children, e, Lay)

\* Horizontal and vertical splits: preserved children keep their length, the others
\* divide the rest by their shares, and the last of them takes what is left over.
Preserved(q, g, child, keeps) ==
    /\ IsLeaf(child)
    /\ keeps \/ g.sized \/ q.exceptions[child.window] # Nowhere

OwnLength(child, across) == IF across THEN Seen(child.window).w ELSE Seen(child.window).h

SharedOut(rest, weights) == [n \in DOMAIN weights |-> (rest * weights[n]) \div Total(weights)]

Lengths(own, rest, parts) ==
    [n \in DOMAIN own |->
        IF own[n] # Nowhere THEN own[n]
        ELSE IF \A m \in n + 1 .. Len(own) : own[m] # Nowhere
        THEN rest - Total(SubSeq(parts, 1, n - 1))
        ELSE parts[n]]

Margin(g, rest, total) ==
    IF total > 0 \/ g.align = "start" THEN 0
    ELSE IF g.align = "center" THEN rest \div 2 ELSE rest

SplitCells(g, free, across, lengths, margin) ==
    LET Offset(n) == margin + Total([m \in 1..n - 1 |-> lengths[m] + g.gap])
    IN  [n \in DOMAIN lengths |->
            IF across THEN [free EXCEPT !.x = @ + Offset(n), !.w = lengths[n]]
            ELSE [free EXCEPT !.y = @ + Offset(n), !.h = lengths[n]]]

\* own: the lengths of preserved children; weights: those of the others.
Split(q, e, g, area, keeps, free, across, own, weights) ==
    LET span == (IF across THEN free.w ELSE free.h) - g.gap * Most(Len(own) - 1, 0)
        rest == span - Total([n \in DOMAIN own |-> IF own[n] = Nowhere THEN 0 ELSE own[n]])
    IN  IF free = Nowhere \/ (own # <<>> /\ (span <= 0 \/ rest < 0)) THEN Fail(e)
        ELSE InCells(q, e, g, area, keeps,
                     SplitCells(g, free, across, Lengths(own, rest, SharedOut(rest, weights)),
                                Margin(g, rest, Total(weights))))

SplitLayout(q, e, g, area, how, shares, keeps) ==
    LET sharing == Sharing(q, g)
        own == [n \in DOMAIN sharing |->
                   IF Preserved(q, g, sharing[n], keeps)
                   THEN OwnLength(sharing[n], how = "across") ELSE Nowhere]
    IN  Split(q, e, g, area, keeps, Available(q, g, area), how = "across", own,
              [n \in DOMAIN own |-> IF own[n] # Nowhere THEN 0 ELSE Share(shares, n)])

GridCells(g, free, count, columns, w, h) ==
    [n \in 1..count |->
        [x |-> free.x + ((n - 1) % columns) * (w + g.gap),
         y |-> free.y + ((n - 1) \div columns) * (h + g.gap), w |-> w, h |-> h]]

Grid(q, e, g, area, keeps, free, count, columns) ==
    LET rows == Most((count + columns - 1) \div columns, 1)
    IN  IF free = Nowhere THEN Fail(e)
        ELSE InCells(q, e, g, area, keeps,
                     GridCells(g, free, count, columns,
                               (free.w - g.gap * (columns - 1)) \div columns,
                               (free.h - g.gap * (rows - 1)) \div rows))

GridLayout(q, e, g, area, keeps) ==
    LET count == Len(Sharing(q, g))
    IN  Grid(q, e, g, area, keeps, Available(q, g, area), count,
             Least(g.columns, Most(count, 1)))

-----------------------------------------------------------------------------
\* Mutant: the slack is granted on the way in.
IsNarrowEarly(e, g, area) ==
    area.w < g.narrow.below + (IF e.narrow[g.id] THEN 0 ELSE g.narrow.slack)

(* A Group: its strategy, or an allowed fallback, or what it shows already.        *)

\* The responsive variant, which is left only beyond the width it was entered at.
IsNarrow(e, g, area) ==
    area.w < g.narrow.below + (IF e.narrow[g.id] THEN g.narrow.slack ELSE 0)

ByStrategy(q, e, g, area, keeps) ==
    LET narrow == IsNarrow(e, g, area)
        how == IF narrow /\ g.how # "tabs" THEN g.narrow.how ELSE g.how
        shares == IF narrow THEN g.narrow.shares ELSE g.shares
        next == [e EXCEPT !.bounds[g.id] = area, !.narrow[g.id] = narrow]
    IN  CASE Tabbed(how) -> TabLayout(q, next, g, area, how, keeps)
          [] how = "free" -> FreeLayout(q, next, g, area, keeps)
          [] how = "flow" -> FlowLayout(q, next, g, area)
          [] how \in {"across", "down"} -> SplitLayout(q, next, g, area, how, shares, keeps)
          [] how = "grid" -> GridLayout(q, next, g, area, keeps)

GroupLayout(q, before, g, area, keeps) ==
    LET e == [before EXCEPT !.fallen[g.id] = Nowhere]
        source == SourceBounds(e, g)
    IN  IF g.children = <<>> THEN e
        ELSE CASE g.keep = "outer" ->
                    IF source # Nowhere /\ Holds(area, source)
                    THEN ByStrategy(q, e, g, source, keeps) ELSE Fail(e)
               [] g.keep = "arrangement" -> Arranged(q, e, g, area, TRUE)
               [] OTHER -> ByStrategy(q, e, g, area, keeps \/ g.keep = "children")

\* What an attempt that failed has set aside stays set aside.
Retry(e, failed) == [e EXCEPT !.lost = failed.lost]

Fallen(e, g, how) == IF e.ok THEN [e EXCEPT !.fallen[g.id] = how] ELSE e

OrAsItStands(q, e, g, area, tried) ==
    IF tried.ok \/ ~memory.shown THEN tried
    ELSE Arranged(q, Retry(e, tried), g, area, FALSE)

GroupOrElse(q, e, g, area, keeps) ==
    LET Fallback(acc, how) ==
            IF acc.ok THEN acc
            ELSE Fallen(GroupLayout(q, Retry(e, acc),
                                    [g EXCEPT !.how = how, !.narrow.below = 0], area, keeps), g, how)
    IN  OrAsItStands(q, e, g, area,
                     FoldLeft(Fallback, GroupLayout(q, e, g, area, keeps), g.instead))

\* Automatic reflow leaves a Group without a continuous rule as it is.
StableGroup(q, e, g, area) ==
    LET bounds == IF e.bounds[g.id] # Nowhere THEN e.bounds[g.id] ELSE area
        how == IF e.narrow[g.id] THEN g.narrow.how ELSE g.how
        active == IF Tabbed(how) /\ g.children # <<>> THEN <<ChosenChild(e, g)>> ELSE g.children
        Freeze(acc, child) ==
            IF ~IsLeaf(child)
            THEN Layout(q, acc, child, IF acc.bounds[child.id] # Nowhere
                                       THEN acc.bounds[child.id] ELSE bounds, FALSE)
            ELSE IF memory.claims[child.window] = child.id /\ acc.desired[child.window] = Nowhere
            THEN Put(acc, child.window, child.id, Seen(child.window), TRUE)
            ELSE Fail(acc)
    IN  Each(active, e, Freeze)

\* Mutant: automatic reflow lays every Group out.
LaidOutAgain(q, e, node, area, keeps) ==
    IF IsLeaf(node) THEN Place(q, e, node, area, keeps) ELSE GroupOrElse(q, e, node, area, keeps)

Layout(q, e, node, area, keeps) ==
    IF IsLeaf(node) THEN Place(q, e, node, area, keeps)
    ELSE IF q.mode = "reflow" /\ ~node.continuous
    THEN StableGroup(q, e, node, area)
    ELSE GroupOrElse(q, e, node, area, keeps)

-----------------------------------------------------------------------------
(* A request.                                                                     *)

Prepared(mode, w, asked) ==
    LET kept == IF mode = "restore" THEN [v \in Wins |-> Nowhere] ELSE memory.exceptions
    IN  [mode |-> mode, asked |-> asked,
         exceptions |-> IF mode \in {"size", "here", "bring"}
                        THEN [kept EXCEPT ![w] = [at |-> Seen(w), stays |-> mode = "here"]]
                        ELSE kept,
         taken |-> <<>>,
         origins |-> Origins(tree, [id |-> 0, rank |-> 0],
                             IF mode = "reflow" THEN <<>> ELSE asked, FALSE, TRUE)]

\* The rectangles that are taken before anything is laid out.
Taken(q) ==
    LET staying == SelectSeq([n \in Wins |-> n], LAMBDA w : Stays(q, w))
        locked == SelectSeq(Leaves(tree), LAMBDA l : l.window \in held)
    IN  FoldLeft(LAMBDA acc, l : IF Seen(l.window) \in ToSet(acc) THEN acc
                                 ELSE Append(acc, Seen(l.window)),
                 [n \in DOMAIN staying |-> q.exceptions[staying[n]].at], locked)

Reservable(taken) ==
    /\ \A t \in ToSet(taken) : Holds(room, t)
    /\ \A n, m \in DOMAIN taken : n < m => ~Meet(taken[n], taken[m])

\* Windows with an exception and no place in the layout are carried along.
Carried(q, e) ==
    LET CarriedIn(acc, w) ==
            LET kept == q.exceptions[w]
                r == IF kept.stays THEN kept.at ELSE [kept.at EXCEPT !.x = room.x, !.y = room.y]
            IN  IF /\ Holds(room, r)
                   /\ \A v \in Wins : acc.desired[v] # Nowhere => ~Meet(acc.desired[v].at, r)
                THEN Put(acc, w, 0, r, TRUE) ELSE Fail(acc)
    IN  Each(SelectSeq([n \in Wins |-> n],
                       LAMBDA w : q.exceptions[w] # Nowhere /\ e.desired[w] = Nowhere), e, CarriedIn)

\* What the plan is checked for at the end.
Sound(q, e) ==
    LET wanted == {w \in Wins : e.desired[w] # Nowhere}
        Goes(w) == e.desired[w].at # Seen(w)
        Allowed(w) == /\ Goes(w) => w \notin iconic \cup held
                      /\ w \in Rigid \/ e.desired[w].strict => ~Resized(e.desired[w].at, Seen(w))
    IN  /\ \A w \in wanted : Allowed(w)
        /\ q.mode = "reflow" =>
               \A w, v \in wanted : w # v /\ (Goes(w) \/ Goes(v))
                                      => ~Meet(e.desired[w].at, e.desired[v].at)

WithCarried(q, e) == IF e.ok THEN Carried(q, e) ELSE e
Checked(q, e) == IF e.ok /\ ~Sound(q, e) THEN Fail(e) ELSE e

PlanPass(q, lost) ==
    LET root == Pruned(tree, lost)
        start == [ok |-> TRUE, panics |-> FALSE, lost |-> lost,
                  desired |-> [w \in Wins |-> Nowhere],
                  bounds |-> memory.bounds, fallen |-> memory.fallen, narrow |-> memory.narrow,
                  tabs |-> IF q.asked = <<>> THEN memory.tabs
                           ELSE [memory.tabs EXCEPT ![q.asked[1]] = q.asked[2]]]
    IN  Checked(q, WithCarried(q, IF root = Nowhere THEN start
                                  ELSE Layout(q, start, root, room, FALSE)))

\* Mutant: once nothing changes, nothing is checked.
ArbitratedAtRest(q, e) == e

\* Every Placement that lost has lost to the one shown.  What is shown of a window that
\* is carried along has no origin: looking it up ends the worker.
Arbitrated(q, e) ==
    LET Winner(id) == e.desired[OriginOf(q, id).window]
        Right(id) == LET winner == OriginOf(q, Winner(id).id)
                     IN  ~Clash(winner, OriginOf(q, id)) /\ Beats(winner, OriginOf(q, id))
        Carries(id) == Winner(id) # Nowhere /\ Winner(id).id = 0
        wrong == {id \in e.lost : Winner(id) = Nowhere \/ Carries(id) \/ ~Right(id)}
    IN  IF wrong = {} THEN e
        ELSE [Fail(e) EXCEPT !.panics = \E id \in wrong : Carries(id) /\ \A o \in wrong : id <= o]

\* e is what a pass has found, given what was lost before it.
RECURSIVE Passes(_, _, _, _)
Passes(q, e, lost, left) ==
    IF ~e.ok THEN e
    ELSE IF e.lost = lost THEN Arbitrated(q, e)
    ELSE IF left = 1 THEN Fail(e)
    ELSE Passes(q, PlanPass(q, e.lost), e.lost, left - 1)

\* The plan of a request that is well-formed.
PlanOf(mode, w, asked) ==
    LET bare == Prepared(mode, w, asked)
        q == [bare EXCEPT !.taken = Taken(bare)]
        refused == [ok |-> FALSE, panics |-> FALSE]
    IN  IF ClashAtOnce(q) \/ ~Reservable(q.taken) THEN refused
        ELSE Passes(q, PlanPass(q, LostAtOnce(q)), LostAtOnce(q), 4)

-----------------------------------------------------------------------------
(* Behaviours.                                                                    *)

Fresh ==
    [shown |-> FALSE, room |-> Nowhere,
     bounds |-> [g \in GroupIds |-> Nowhere], fallen |-> [g \in GroupIds |-> Nowhere],
     narrow |-> [g \in GroupIds |-> FALSE], tabs |-> [g \in GroupIds |-> Nowhere],
     exceptions |-> [w \in Wins |-> Nowhere], claims |-> [w \in Wins |-> Nowhere]]

LayoutInit ==
    /\ tree \in Trees
    /\ room \in Rooms
    /\ at = Start
    /\ visible = Wins /\ iconic = {} /\ held = {} /\ focused = Nowhere
    /\ memory = Fresh
    /\ laid = [mode |-> "none", asked |-> <<>>, verdict |-> "none"]
    /\ acts = [user |-> 0, layouts |-> 0]

\* continuous_permission, in an unchanged slot.
MayReflow ==
    /\ memory.shown
    /\ \E g \in GroupsOf(tree) : g.continuous
    /\ focused = Nowhere
    /\ TreeWindows \cap (held \cup iconic) = {}
    /\ \A w \in TreeWindows : memory.exceptions[w] = Nowhere

\* Opening what is shown, where it is shown, changes nothing.
Idempotent(asked) ==
    /\ memory.shown /\ memory.room = room
    /\ asked # <<>> => memory.tabs[asked[1]] = asked[2]

Permitted(mode, w, asked) ==
    CASE mode = "open" -> ~Idempotent(asked)
      [] mode = "reflow" -> MayReflow
      [] mode \in {"size", "here"} -> w \in TreeWindows \/ memory.claims[w] # Nowhere
      [] OTHER -> TRUE

\* What the plan leaves out is hidden, what is minimized excepted.
Commit(q, e) ==
    LET wanted == {w \in Wins : e.desired[w] # Nowhere}
        left == (TreeWindows \cup {w \in Wins : memory.claims[w] # Nowhere}) \ (wanted \cup iconic)
    IN  /\ at' = [w \in Wins |-> IF w \in wanted \ iconic THEN e.desired[w].at ELSE at[w]]
        /\ visible' = (visible \cup wanted) \ left
        /\ memory' = [shown |-> TRUE, room |-> room, bounds |-> e.bounds, fallen |-> e.fallen,
                      narrow |-> e.narrow, tabs |-> e.tabs, exceptions |-> q.exceptions,
                      claims |-> [w \in Wins |-> IF w \in wanted THEN e.desired[w].id
                                                 ELSE Nowhere]]

Present(mode, w, asked) ==
    /\ acts.layouts < MaxLayouts
    /\ Permitted(mode, w, asked)
    /\ \E e \in {PlanOf(mode, w, asked)} :
           /\ laid' = [mode |-> mode, asked |-> asked,
                       verdict |-> IF e.ok THEN "done" ELSE IF e.panics THEN "panic" ELSE "refused"]
           /\ IF e.ok THEN Commit(Prepared(mode, w, asked), e)
              ELSE UNCHANGED <<at, visible, memory>>
    /\ acts' = [user |-> 0, layouts |-> acts.layouts + 1]
    /\ UNCHANGED <<tree, room, iconic, held, focused>>

Open == \E asked \in {<<>>} \cup UNION {{<<g.id, c.id>> : c \in ToSet(g.children)} :
                                      g \in {h \in GroupsOf(tree) : Tabbed(h.how)}} :
            Present("open", 1, asked)
Keep == \E mode \in {"size", "here", "bring"}, w \in Wins : Present(mode, w, <<>>)
Restore == Present("restore", 1, <<>>)
Reflow == Present("reflow", 1, <<>>)

Acts == /\ acts.user < MaxUserActs /\ acts.layouts < MaxLayouts
        /\ acts' = [acts EXCEPT !.user = @ + 1]
        /\ UNCHANGED <<tree, visible, memory, laid>>

Leave(w) ==
    /\ w \in visible \ iconic
    /\ \E r \in Spots : (w \in Rigid => ~Resized(r, at[w])) /\ at' = [at EXCEPT ![w] = r]
    /\ UNCHANGED <<room, iconic, held, focused>>
Protect(w) ==
    /\ held' = IF w \in held THEN held \ {w} ELSE held \cup {w}
    /\ UNCHANGED <<room, at, iconic, focused>>
Minimize(w) ==
    /\ iconic' = IF w \in iconic THEN iconic \ {w} ELSE iconic \cup {w}
    /\ UNCHANGED <<room, at, held, focused>>
Click(w) ==
    /\ focused' = IF focused = w THEN Nowhere ELSE w
    /\ UNCHANGED <<room, at, iconic, held>>
Rearrange ==
    /\ room' \in Rooms \ {room}
    /\ UNCHANGED <<at, iconic, held, focused>>

LayoutNext ==
    \/ Open \/ Keep \/ Restore \/ Reflow
    \/ Acts /\ \/ Rearrange
               \/ \E w \in Wins : Leave(w)
               \/ \E w \in Lockable : Protect(w)
               \/ \E w \in Clicked : Minimize(w) \/ Click(w)

-----------------------------------------------------------------------------
(* Properties.                                                                    *)

\* largest_free finds a rectangle that is free, and no larger one is: compared with all
\* rectangles between the edges of the room and of what is reserved.
FreeIsLargest ==
    LET taken == Taken(Prepared("open", 1, <<>>))
        found == LargestFree(room, taken)
        all == ToSet(taken) \cup {room}
        Edges(from, length) == {r[from] : r \in all} \cup {r[from] + r[length] : r \in all}
        free == {r \in {[x |-> l, y |-> t, w |-> m - l, h |-> b - t] :
                            l, m \in Edges("x", "w"), t, b \in Edges("y", "h")} :
                     /\ r.w > 0 /\ r.h > 0 /\ Holds(room, r)
                     /\ \A t \in ToSet(taken) : ~Meet(r, t)}
    IN  IF found = Nowhere THEN free = {} ELSE found \in free /\ \A r \in free : Size(r) <= Size(found)

\* A layout makes no two of the windows it shows overlap that did not before, whatever
\* sizes, exceptions and protected windows it has to respect; Free Groups may.
NoNewOverlap ==
    [][memory' # memory /\ (\A g \in GroupsOf(tree) : g.how # "free") =>
         \A w, v \in Wins :
             /\ w # v /\ memory'.claims[w] # Nowhere /\ memory'.claims[v] # Nowhere
             /\ Meet(at'[w], at'[v])
             => Meet(at[w], at[v])]_layoutVars

\* Of the Placements of a window that the selected tabs and fallbacks would show, none
\* beats the one that is shown, however attempts and passes went.
BestShown ==
    LET asked == IF laid.mode = "reflow" THEN <<>> ELSE laid.asked
        q == [origins |-> Origins(tree, [id |-> 0, rank |-> 0], asked, FALSE, TRUE)]
    IN  laid.verdict = "done" =>
            \A leaf \in ToSet(ActiveLeaves(memory, tree)) :
                memory.claims[leaf.window] \notin {Nowhere, 0, leaf.id} =>
                    ~Beats(OriginOf(q, leaf.id), OriginOf(q, memory.claims[leaf.window]))

\* Restore is stable: done again at once it would succeed and change nothing, although
\* variants, fallbacks, tabs and bounds are remembered from the first time.
RestoreStable ==
    laid.verdict = "done" /\ laid.mode = "restore" /\ acts.user = 0 =>
        \E e \in {PlanOf("restore", 1, <<>>)} :
            /\ e.ok
            /\ \A w \in Wins :
                  IF memory.claims[w] = Nowhere THEN e.desired[w] = Nowhere
                  ELSE e.desired[w] # Nowhere /\ e.desired[w].id = memory.claims[w]
                       /\ e.desired[w].at = at[w]

\* Automatic reflow leaves the windows of Groups without a continuous rule where they
\* are.
ManualStays ==
    [][laid'.mode = "reflow" /\ laid'.verdict = "done" =>
         \A g \in GroupsOf(tree) : \A leaf \in ToSet(g.children) :
             ~g.continuous /\ IsLeaf(leaf) /\ memory'.claims[leaf.window] = leaf.id
                 => at'[leaf.window] = at[leaf.window]]_layoutVars

\* docs/window-manager.md:137: "unstable branch/arbitration interactions reject while
\* keeping the previous owned arrangement"; they never end the worker.
NoPanic == laid.verdict # "panic"

\* docs/window-management-system-specification.md:418: a window that is kept here keeps
\* its position and size.
KeptInPlace ==
    laid.verdict = "done" /\ acts.user = 0 =>
        \A w \in Wins :
            /\ memory.exceptions[w] # Nowhere /\ memory.claims[w] # Nowhere
            /\ memory.exceptions[w].stays
            => at[w] = memory.exceptions[w].at

=============================================================================
