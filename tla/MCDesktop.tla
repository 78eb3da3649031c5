-------------------------------- MODULE MCDesktop --------------------------------
(* Instances of the components that are checked on their own.  A behaviour is    *)
(* one of one of them: `part` says of which, and the others stand still.          *)
EXTENDS MonitorMappings, ProviderRegistry, ManagerUi,
        ViewLayout, LayoutTree, ControlPanel, CablePanel

CONSTANTS
    output1, output2, faint, loud, screen1, m1, m2, ident1, ident2,
    input1, line1,
    Parts,       \* the parts that are run
    MaxTogether      \* bound: saves and intents together, where there are intents

VARIABLE part

\* MonitorMappings: two monitors of one kind, and one without an identifier.
Ports == {"one", "two"}
TwoPanels == {m1, m2}
TwoAlike == [m \in TwoPanels |-> ident1]
TwoIdentities == {ident1, ident2}

\* ProviderRegistry and ManagerUi.
TwoProviders == {"a", "b"}
One == {1}
OneTwo == {1, 2}
Two == {2}
EachAlone == {{1}, {2}}

\* ViewLayout: windows 1, 2 and 3, the last of which cannot be resized.
Rect(left, top, width, height) == [x |-> left, y |-> top, w |-> width, h |-> height]
Shown(id, w) == [id |-> id, window |-> w, size |-> Nowhere, generated |-> FALSE]
Sized(id, w, width, height) == [Shown(id, w) EXCEPT !.size = [w |-> width, h |-> height]]
Group(id, how, nodes) ==
    [id |-> id, how |-> how, children |-> nodes, shares |-> <<>>, keep |-> "none",
     narrow |-> [below |-> 0, how |-> "across", shares |-> <<>>, slack |-> 0],
     sized |-> FALSE, gap |-> 0, columns |-> 2, align |-> "start", instead |-> <<>>,
     continuous |-> FALSE, rank |-> 0]

Responsive ==
    [Group(1, "across", <<Shown(2, 1), Shown(3, 2), Shown(4, 3)>>) EXCEPT
        !.shares = <<1, 2, 1>>, !.gap = 1, !.instead = <<"flow">>, !.continuous = TRUE,
        !.narrow = [below |-> 10, how |-> "fold", shares |-> <<>>, slack |-> 3]]
Together ==
    [Group(1, "across", <<Shown(2, 1), [Group(3, "down", <<Shown(4, 2), Shown(5, 3)>>) EXCEPT
                                            !.keep = "arrangement"]>>) EXCEPT !.instead = <<"fold">>]
Tabs ==
    Group(1, "tabs", <<Group(2, "down", <<Shown(3, 1), Shown(4, 2)>>),
                       Group(5, "grid", <<Shown(6, 1), Shown(7, 3), Sized(8, 2, 3, 2)>>),
                       Group(9, "free", <<Sized(10, 1, 4, 4), Shown(11, 2)>>)>>)
\* Window 1 has two inferred Placements and an explicit one, in a Group that does not fit.
Contested ==
    [Group(1, "across",
        <<[Shown(2, 1) EXCEPT !.generated = TRUE],
          [Group(3, "down", <<Shown(4, 2), Shown(5, 1), Sized(6, 3, 6, 5)>>) EXCEPT
              !.instead = <<"fold">>],
          [Group(7, "across", <<Shown(8, 3), [Shown(9, 1) EXCEPT !.generated = TRUE]>>) EXCEPT
              !.shares = <<2, 1>>, !.narrow.below = 5, !.narrow.how = "fold"]>>) EXCEPT !.rank = 1]
\* A Group without a rule in one with a rule; what it shows first is what the outer one chose.
Mixed ==
    [Group(1, "across", <<[Group(2, "across", <<Shown(3, 1), Shown(4, 2)>>) EXCEPT
                              !.align = "center", !.sized = TRUE, !.instead = <<"flow">>,
                              !.keep = "outer"],
                          Shown(5, 3)>>) EXCEPT
        !.continuous = TRUE, !.sized = TRUE, !.instead = <<"flow">>, !.shares = <<1, 2>>]
FiveTrees == {Responsive, Together, Tabs, Contested, Mixed}
JustContested == {Contested}
JustTogether == {Together}
TwoRooms == {Rect(0, 0, 12, 6), Rect(0, 0, 8, 6)}
ThreeSpots == {Rect(0, 0, 4, 4), Rect(4, 0, 4, 4), Rect(8, 0, 4, 6)}
SideBySide == <<Rect(0, 0, 4, 4), Rect(4, 0, 4, 4), Rect(8, 0, 4, 6)>>
Flowed == [w |-> 4, h |-> 3]
Three == {3}

\* LayoutTree: a Group that windows 1 and 2 may be members of, one of them retired or not.
Manual(nodes, weights) == [NewGroup EXCEPT !.kids = nodes, !.shares.base = weights]
Varying(nodes, weights, narrow) ==
    [Manual(nodes, weights) EXCEPT !.shares = [base |-> weights, narrow |-> narrow]]
Joining(group, generated) ==
    [group EXCEPT !.member = [Selective EXCEPT !.generated = generated]]
Half ==
    [groups |-> (1 :> Joining(Varying(<<2, 3, 4>>, <<24, 36>>, <<48>>), 1 :> 2)) @@
                (4 :> Manual(<<5>>, <<>>)) @@ (6 :> Varying(<<>>, <<>>, <<>>)),
     leaves |-> (2 :> 1) @@ (3 :> 2) @@ (5 :> 1),
     roots |-> <<[main |-> 1], [main |-> 6]>>, next |-> 7]
Whole == [Half EXCEPT !.groups[1].shares = [base |-> <<12, 24, 36>>]]
Absent ==
    [groups |-> (1 :> [Joining(Varying(<<2, 3>>, <<24, 36>>, <<>>), 1 :> 5) EXCEPT
                          !.member.retired = 1 :> 5,
                          !.member.kept = 1 :> [base |-> 48, narrow |-> 24]]) @@
                (3 :> Joining(Manual(<<4>>, <<48>>), <<>>)),
     leaves |-> (2 :> 2) @@ (4 :> 1) @@ (5 :> 1) @@ (6 :> 2),
     roots |-> <<[main |-> 1, side |-> 6]>>, next |-> 7]
Few ==
    [groups |-> 1 :> Joining(Varying(<<2, 3>>, <<24, 36>>, <<48>>), 1 :> 2),
     leaves |-> (2 :> 1) @@ (3 :> 1), roots |-> <<[main |-> 1]>>, next |-> 4]
From(trunk, selected, done, times) ==
    [tree |-> trunk, chosen |-> selected, tools |-> done, edits |-> times]
SixStarts ==
    {From(Half, {1}, {"structure", "members"}, 2),
     From(Absent, {2}, {"structure", "members"}, 2),
     From(Few, {1}, {"structure", "members"}, 2),
     From(Absent, {2}, {"views", "members"}, 2),
     From(Whole, {1}, {"structure", "reorder"}, 2),
     From(Half, {1}, {"references", "sources"}, 3)}
Referring == {From(Absent, {}, {"references", "members"}, 3)}
ThreeSelections == {{}, {1}, {1,2}}
OneBinding == {<<1, "main">>}

\* ControlPanel: two outputs, one display, and a preset of a route and two rows.
Through(target) == [on |-> TRUE, source |-> Default, target |-> target]
BothOutputs == {output1, output2}
OneScreen == {screen1}
ThreeAudios ==
    {Through(output2), [Through(output2) EXCEPT !.on = FALSE],
     [on |-> TRUE, source |-> output2, target |-> Default]}
OneRow == {[on |-> TRUE, screen |-> screen1]}
TwoBooks ==
    {Nil,
     [last |-> FirstSettings,
      presets |-> <<[audio |-> Through(output2),
                     rows |-> [k \in 1..2 |-> [on |-> TRUE, screen |-> screen1]]]>>]}

\* CablePanel: one cable, heard at one of two outputs.
BothVolumes == {faint, loud}
Wire == [playback |-> input1, capture |-> line1, manual |-> FALSE]
ThreePlaybacks == {input1, output1, output2}
OneCapture == {line1}
OneWire == {Wire}
Heard(output, volume) == [cable |-> Wire, output |-> output, volume |-> volume]
TwoPapers ==
    {Unset, [now |-> Heard(output1, faint),
             presets |-> <<Heard(output1, loud), Heard(output2, faint)>>]}

-----------------------------------------------------------------------------

\* The parts that do not run stay in one of their initial states.
Still ==
    /\ part # "monitors" => attached = Empty
    /\ part \notin {"draft", "intents"} => ~safe
    /\ part # "layout" => tree = CHOOSE t \in Trees : TRUE
    /\ part # "layout" => room = CHOOSE r \in Rooms : TRUE
    /\ part # "panel" => file = Nil
    /\ part # "cable" => paper = Unset
    /\ part # "tree" => document = Few /\ tools = {"structure", "members"}

Init ==
    /\ part \in Parts
    /\ MonitorsInit /\ ProvidersInit /\ ManagerInit /\ LayoutInit
    /\ TreeInit /\ ControlInit /\ CableInit
    /\ Still

panelVars == <<controlVars, cableVars>>

\* A step of one part; the variables of the others stay as they are.
Runs(name, step, others) == part = name /\ step /\ UNCHANGED <<part, others>>

\* The interface is checked twice: its draft without intents, and its intents with
\* a draft that is saved when it is changed, and few changes.
DraftOnly == ManagerNext /\ intents' = <<>>
IntentsOnly ==
    /\ ManagerNext
    /\ edited' = config'
    /\ config'.revision + Len(intents') <= MaxTogether
    /\ config'.has \subseteq One

Next ==
    \/ Runs("monitors", MonitorsNext, <<providerVars, managerVars, layoutVars, treeVars, panelVars>>)
    \/ Runs("providers", ProvidersNext, <<monitorVars, managerVars, layoutVars, treeVars, panelVars>>)
    \/ Runs("draft", DraftOnly, <<monitorVars, providerVars, layoutVars, treeVars, panelVars>>)
    \/ Runs("intents", IntentsOnly, <<monitorVars, providerVars, layoutVars, treeVars, panelVars>>)
    \/ Runs("layout", LayoutNext, <<monitorVars, providerVars, managerVars, treeVars, panelVars>>)
    \/ Runs("tree", TreeNext, <<monitorVars, providerVars, managerVars, layoutVars, panelVars>>)
    \/ Runs("panel", ControlNext, <<monitorVars, providerVars, managerVars, layoutVars, treeVars, cableVars>>)
    \/ Runs("cable", CableNext, <<monitorVars, providerVars, managerVars, layoutVars, treeVars, controlVars>>)

vars == <<part, monitorVars, providerVars, managerVars, layoutVars, treeVars, panelVars>>

Fairness ==
    /\ WF_managerVars(part = "intents" /\ Carry)
    /\ WF_managerVars(part = "intents" /\ (PollPreview \/ PollResult \/ PollError \/ PollDrag))

Spec == Init /\ [][Next]_vars /\ Fairness

-----------------------------------------------------------------------------

\* Where intents are applied: the interface does not wait for ever for what is being
\* applied (ManagerUi!ApplyingEnds).
NoEndlessApplying == part = "intents" => ApplyingEnds

\* Where windows are laid out: the largest free rectangle is found (ViewLayout!FreeIsLargest).
LargestFound == part = "layout" => FreeIsLargest

\* Where trees are edited: no edit below the roots is turned down by validation, and
\* every draft is valid (LayoutTree!EditsAccepted).
TreesAccepted == part = "tree" => EditsAccepted
=============================================================================
