-------------------------- MODULE MCTransitionWorker --------------------------
(* Instances of TransitionWorker: two windows, two slots, three views.         *)
(* Window w2 is in an unselected tab of view a, and may be hidden.             *)
EXTENDS TransitionWorker, TLC

CONSTANTS w1, w2, s1, s2, a, b, c

TwoWindows == {w1, w2}
TwoSlots == {s1, s2}
ThreeViews == {a, b, c}
TabLeaves == (a :> {w1, w2}) @@ (b :> {w2}) @@ (c :> {w1})
TabShown == (a :> {w1}) @@ (b :> {w2}) @@ (c :> {w1})
OnlyW1 == {w1}
OnlyW2 == {w2}
Nothing == {}

Tabs == s1 :> a
Swapped == (s1 :> b) @@ (s2 :> c)
Release == s1 :> None
Turned == s1 :> b
Single == s1 :> c
Other == s2 :> b

OwnRequests == {Tabs, Swapped, Release}
DisjointRequests == {Single, Other}
OnlyTabs == {Tabs}
OnlySingle == {Single}
TabsAndSwap == {Tabs, Swapped}
TabsAndTurn == {Tabs, Turned}

W1Away == {<<w1, Free, TRUE>>}
W2Hidden == {<<w2, Free, FALSE>>}

\* Drags of a window that reflow moves back, and a shutdown.
DragAndShutdown ==
    {[requests |-> OnlySingle, modes |-> {"open"}, kinds |-> {"shutdown"},
      sends |-> 3, troubled |-> TRUE,
      rules |-> {c}, drags |-> {w1}]}

\* A newer intent than an application under way.
Overtaking ==
    {[requests |-> DisjointRequests, modes |-> {"open"}, kinds |-> {"supersede"},
      sends |-> 5, troubled |-> TRUE,
      rules |-> {}, drags |-> {}]}

\* An undo among other transitions.
Undoing ==
    {[requests |-> DisjointRequests, modes |-> {"open"}, kinds |-> {"undo", "recover"},
      sends |-> 6, troubled |-> FALSE,
      rules |-> {}, drags |-> {}]}

\* Who owns what while windows close or are hidden and displays change; two transitions
\* of a slot with their undo; one, also of two slots, with undo and recovery; a view that is arranged again after a drag; and commands that arrive
\* during a transition.
OwnUndoAndCommands ==
    {[requests |-> OwnRequests, modes |-> {"open"}, kinds |-> {},
      sends |-> 4, troubled |-> TRUE,
      rules |-> {}, drags |-> {}],
     [requests |-> TabsAndTurn, modes |-> {"restore"}, kinds |-> {"undo"},
      sends |-> 6, troubled |-> FALSE,
      rules |-> {}, drags |-> {}],
     [requests |-> TabsAndSwap, modes |-> {"restore"}, kinds |-> {"undo", "recover"},
      sends |-> 5, troubled |-> FALSE,
      rules |-> {}, drags |-> {}],
     [requests |-> OnlySingle, modes |-> {"open"}, kinds |-> {},
      sends |-> 2, troubled |-> FALSE,
      rules |-> {c}, drags |-> {w1}],
     [requests |-> OnlyTabs, modes |-> {"open", "restore"},
      kinds |-> {"protect", "bind", "supersede", "pause", "recover", "shutdown"},
      sends |-> 4, troubled |-> FALSE,
      rules |-> {}, drags |-> {}]}
=============================================================================
