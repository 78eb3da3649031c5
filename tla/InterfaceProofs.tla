----------------------------- MODULE InterfaceProofs -----------------------------
(******************************************************************************)
(* What is proved of the parts the user works with, for every number of slots,  *)
(* configurations, intents, outputs and displays: continuous rules              *)
(* (ReflowScheduler), the window manager's interface (ManagerUi), the audio      *)
(* cable (CablePanel) and the control panel (ControlPanel).                      *)
(******************************************************************************)
EXTENDS ManagerUi, ReflowScheduler, CablePanel, ControlPanel, QueueLemmas, FiniteSetTheorems

-----------------------------------------------------------------------------
(* Continuous rules.                                                         *)

ReflowSpec == ReflowInit /\ [][ReflowNext]_reflowVars

\* What is pending for a slot has been shown since the slot was dealt with last, and
\* what is old enough was shown a quarter of a second before the last snapshot.
PendingShown ==
    /\ seen.input \in [RuleSet -> Inputs]
    /\ input \in [RuleSet -> Inputs]
    /\ due \in [RuleSet -> [of : Inputs \cup {NoInput}, old : BOOLEAN]]
    /\ \A s \in Watched :
        /\ seen.input[s] \in shown[s].lately
        /\ shown[s].before \subseteq shown[s].lately
        /\ due[s] # NotPending => due[s].of \in shown[s].lately
        /\ due[s].old => due[s].of \in shown[s].before

LEMMA PendingInit == ReflowInit => PendingShown
  <1> SUFFICES ASSUME ReflowInit PROVE PendingShown
    OBVIOUS
  <1>1. /\ seen.input = input /\ input \in [RuleSet -> Inputs] /\ quarter = FALSE
        /\ due = [s \in RuleSet |-> NotPending]
        /\ \A s \in Watched : shown[s] = [lately |-> {input[s]}, before |-> {}]
    BY DEF ReflowInit
  <1>2. NotPending \in [of : Inputs \cup {NoInput}, old : BOOLEAN] /\ ~NotPending.old
    BY DEF NotPending
  <1>3. due \in [RuleSet -> [of : Inputs \cup {NoInput}, old : BOOLEAN]]
    BY <1>1, <1>2
  <1>4. \A s \in Watched : due[s] = NotPending
    BY <1>1, ReflowAssumption DEF RuleSet
  <1>5. ASSUME NEW s \in Watched
        PROVE  /\ seen.input[s] \in shown[s].lately
               /\ shown[s].before \subseteq shown[s].lately
               /\ due[s] # NotPending => due[s].of \in shown[s].lately
               /\ due[s].old => due[s].of \in shown[s].before
    <2> DEFINE first == [lately |-> {input[s]}, before |-> {}]
    <2>0. shown[s] = first
      BY <1>1
    <2>2. first.lately = {input[s]} /\ first.before = {}
      OBVIOUS
    <2> HIDE DEF first
    <2>1. shown[s].lately = {input[s]} /\ shown[s].before = {}
      BY <2>0, <2>2
    <2> QED BY <1>1, <1>2, <1>4, <2>1
  <1> QED BY <1>1, <1>3, <1>5 DEF PendingShown

\* A snapshot with inputs keeps the invariant, when what was dealt with is not pending.
LEMMA SnapshotKeeps ==
    ASSUME PendingShown, NEW inputs \in [RuleSet -> Inputs], NEW dealt, NEW later,
           later \in [RuleSet -> [of : Inputs \cup {NoInput}, old : BOOLEAN]],
           \A s \in Watched \ dealt :
             /\ later[s] # NotPending => later[s].of \in shown[s].lately
             /\ later[s].old => later[s].of \in shown[s].before,
           \A s \in dealt \cap Watched : later[s] = NotPending,
           input' = inputs, Snapshot(inputs, dealt), due' = Aged(later)
    PROVE  PendingShown'
  <1> USE ReflowAssumption DEF RuleSet
  <1>1. seen'.input = inputs /\ quarter' = FALSE
    BY DEF Snapshot
  <1>2. due' \in [RuleSet -> [of : Inputs \cup {NoInput}, old : BOOLEAN]]
    BY DEF Aged, PendingShown
  <1>3. ASSUME NEW s \in Watched
        PROVE  /\ seen'.input[s] \in shown'[s].lately
               /\ shown'[s].before \subseteq shown'[s].lately
               /\ due'[s] # NotPending => due'[s].of \in shown'[s].lately
               /\ due'[s].old => due'[s].of \in shown'[s].before
    <2>1. s \in RuleSet /\ later[s] \in [of : Inputs \cup {NoInput}, old : BOOLEAN]
      OBVIOUS
    <2>2. due'[s] = IF quarter /\ later[s] # NotPending THEN [of |-> later[s].of, old |-> TRUE]
                    ELSE later[s]
      BY <2>1 DEF Aged
    <2>3. shown'[s] = IF s \in dealt THEN [lately |-> {inputs[s]}, before |-> {}]
                      ELSE [lately |-> shown[s].lately \cup {inputs[s]},
                            before |-> IF quarter THEN shown[s].lately ELSE shown[s].before]
      BY DEF Snapshot, Forget
    <2>4. CASE s \in dealt
      <3>1. shown'[s].lately = {inputs[s]} /\ shown'[s].before = {}
        BY <2>3, <2>4
      <3>2. due'[s] = NotPending
        BY <2>2, <2>4
      <3>3. ~NotPending.old
        BY DEF NotPending
      <3> QED BY <1>1, <3>1, <3>2, <3>3
    <2>5. CASE s \notin dealt
      <3>1. /\ shown'[s].lately = shown[s].lately \cup {inputs[s]}
            /\ shown'[s].before = IF quarter THEN shown[s].lately ELSE shown[s].before
        BY <2>3, <2>5
      <3>2. /\ due'[s].of = later[s].of
            /\ due'[s].old => later[s].old \/ (quarter /\ later[s] # NotPending)
        <4>1. CASE quarter /\ later[s] # NotPending
          BY <2>1, <2>2, <4>1
        <4>2. CASE ~(quarter /\ later[s] # NotPending)
          <5>1. due'[s] = later[s]
            BY <2>2, <4>2
          <5> QED BY <5>1
        <4> QED BY <4>1, <4>2
      <3>3. due'[s] # NotPending => later[s] # NotPending
        BY <2>1, <2>2 DEF NotPending
      <3>4. shown[s].before \subseteq shown[s].lately
        BY DEF PendingShown
      <3> QED BY <1>1, <2>5, <3>1, <3>2, <3>3, <3>4
    <2> QED BY <2>4, <2>5
  <1> QED BY <1>1, <1>2, <1>3 DEF PendingShown

\* What is pending after a pass, as Pass has it.
Waits(last, dealt) ==
    [s \in RuleSet |->
        IF s \notin ruled \/ s \in dealt THEN NotPending
        ELSE IF s \in Weighed /\ s < last THEN DueSince(s) ELSE due[s]]

LEMMA PassKeeps == ASSUME PendingShown, Pass PROVE PendingShown'
  <1> USE ReflowAssumption DEF RuleSet
  <1>1. PICK last \in Ready \cup {RuleSlots + 1}, failed \in BOOLEAN :
          LET applied == last \in RuleSet /\ ~failed
              dealt == Dealt(last, failed)
          IN IF applied
             THEN /\ \E i \in Inputs : input' = [input EXCEPT ![last] = i]
                  /\ Snapshot(input', dealt)
                  /\ due' = Aged(Waits(last, dealt))
             ELSE /\ due' = Waits(last, dealt)
                  /\ shown' = Forget(shown, seen.input, dealt)
                  /\ UNCHANGED <<input, seen, quarter>>
    BY DEF Pass, Waits
  <1> DEFINE dealt == Dealt(last, failed)
             later == Waits(last, dealt)
  <1>2. ASSUME NEW s \in RuleSet
        PROVE  /\ DueSince(s) \in [of : Inputs \cup {NoInput}, old : BOOLEAN]
               /\ DueSince(s) = due[s] \/ (DueSince(s).of = seen.input[s] /\ DueSince(s).old = FALSE)
    BY DEF DueSince, PendingShown
  <1>3. later \in [RuleSet -> [of : Inputs \cup {NoInput}, old : BOOLEAN]]
    BY <1>2 DEF Waits, PendingShown, NotPending
  <1>4. \A s \in dealt \cap Watched : later[s] = NotPending
    BY DEF Waits
  <1>5. ASSUME NEW s \in Watched \ dealt
        PROVE  /\ later[s] # NotPending => later[s].of \in shown[s].lately
               /\ later[s].old => later[s].of \in shown[s].before
    <2>1. later[s] = NotPending \/ later[s] = DueSince(s) \/ later[s] = due[s]
      BY DEF Waits
    <2>2. ~NotPending.old
      BY DEF NotPending
    <2> QED BY <1>2, <2>1, <2>2 DEF PendingShown
  <1> HIDE DEF later, dealt
  <1>6. CASE last \in RuleSet /\ ~failed
    <2>1. /\ input' \in [RuleSet -> Inputs]
          /\ Snapshot(input', dealt) /\ due' = Aged(later)
      BY <1>1, <1>6 DEF PendingShown, later, dealt
    <2> QED BY <1>3, <1>4, <1>5, <2>1, SnapshotKeeps
  <1>7. CASE ~(last \in RuleSet /\ ~failed)
    <2>1. /\ due' = later
          /\ shown' = Forget(shown, seen.input, dealt)
          /\ UNCHANGED <<input, seen, quarter>>
      BY <1>1, <1>7 DEF later, dealt
    <2>2. ASSUME NEW s \in Watched
          PROVE  /\ seen'.input[s] \in shown'[s].lately
                 /\ shown'[s].before \subseteq shown'[s].lately
                 /\ due'[s] # NotPending => due'[s].of \in shown'[s].lately
                 /\ due'[s].old => due'[s].of \in shown'[s].before
      <3>1. CASE s \in dealt
        <4>1. shown'[s] = [lately |-> {seen.input[s]}, before |-> {}]
          BY <2>1, <3>1 DEF Forget
        <4>2. shown'[s].lately = {seen.input[s]} /\ shown'[s].before = {}
          BY <4>1
        <4>3. due'[s] = NotPending /\ ~NotPending.old
          BY <1>4, <2>1, <3>1 DEF NotPending
        <4> QED BY <2>1, <4>2, <4>3
      <3>2. CASE s \notin dealt
        <4>1. shown'[s] = shown[s]
          BY <2>1, <3>2 DEF Forget
        <4> QED BY <1>5, <2>1, <3>2, <4>1 DEF PendingShown
      <3> QED BY <3>1, <3>2
    <2> QED BY <1>3, <2>1, <2>2 DEF PendingShown
  <1> QED BY <1>6, <1>7

LEMMA PendingStep == ASSUME PendingShown, [ReflowNext]_reflowVars PROVE PendingShown'
  <1>1. CASE WorldChanges
    <2>1. input' \in [RuleSet -> Inputs]
      BY <1>1 DEF WorldChanges, PendingShown
    <2> QED BY <1>1, <2>1 DEF WorldChanges, PendingShown, schedule
  <1>2. CASE QuarterPasses \/ Reported \/ Occupied
    BY <1>2 DEF QuarterPasses, Reported, Occupied, PendingShown, schedule, world
  <1>3. CASE Refreshes \/ LooksAgain
    BY <1>3, SnapshotKeeps DEF Refreshes, LooksAgain, PendingShown, world
  <1>4. CASE Pass
    BY <1>4, PassKeeps
  <1>5. CASE UNCHANGED reflowVars
    BY <1>5 DEF reflowVars, world, PendingShown
  <1> QED BY <1>1, <1>2, <1>3, <1>4, <1>5 DEF ReflowNext

LEMMA PassIsSteady ==
    ASSUME PendingShown, Pass, NEW s \in Watched, finished'[s] \notin {finished[s], NoInput}
    PROVE  finished'[s] \in shown[s].before
  <1> USE ReflowAssumption DEF RuleSet
  <1>1. PICK last \in Ready \cup {RuleSlots + 1}, failed \in BOOLEAN :
          finished' = [r \in RuleSet |->
            IF r \notin ruled THEN NoInput
            ELSE IF r \in Dealt(last, failed) THEN seen.input[r] ELSE finished[r]]
    BY DEF Pass
  <1>2. s \in Dealt(last, failed) /\ finished'[s] = seen.input[s]
    BY <1>1
  <1>3. DueSince(s).old
    BY <1>2 DEF Dealt, Ready
  <1>4. due[s].of = seen.input[s] /\ due[s].old
    BY <1>3 DEF DueSince
  <1> QED BY <1>2, <1>4 DEF PendingShown

\* A layout with a continuous rule is arranged again only for an input that a snapshot
\* had shown a quarter of a second before (continuous, ReflowScheduler::ready).
THEOREM RulesWaitUntilSteady == ReflowSpec => OnlyWhenSteady
  <1> DEFINE Steady == \A s \in Watched : finished'[s] \notin {finished[s], NoInput}
                         => finished'[s] \in shown[s].before
  <1>1. ReflowInit => PendingShown
    BY PendingInit
  <1>2. PendingShown /\ [ReflowNext]_reflowVars => PendingShown'
    BY PendingStep
  <1>3. PendingShown /\ [ReflowNext]_reflowVars => [Steady]_reflowVars
    <2> SUFFICES ASSUME PendingShown, ReflowNext, NEW s \in Watched,
                        finished'[s] \notin {finished[s], NoInput}
                 PROVE  finished'[s] \in shown[s].before
      OBVIOUS
    <2>1. CASE Pass
      BY <2>1, PassIsSteady
    <2>2. CASE WorldChanges \/ Reported \/ Occupied \/ QuarterPasses
      BY <2>2 DEF WorldChanges, Reported, Occupied, QuarterPasses, schedule
    <2>3. CASE Refreshes \/ LooksAgain
      BY <2>3 DEF Refreshes, LooksAgain
    <2> QED BY <2>1, <2>2, <2>3 DEF ReflowNext
  <1> HIDE DEF Steady
  <1>4. ReflowSpec => [][Steady]_reflowVars
    BY <1>1, <1>2, <1>3, PTL DEF ReflowSpec
  <1> QED BY <1>4 DEF OnlyWhenSteady, Steady

-----------------------------------------------------------------------------
(* The window manager's interface.                                            *)

ManagerSpec == ManagerInit /\ [][ManagerNext]_managerVars

Configs == [revision : Nat, has : SUBSET Edits]

\* What is on its way to the worker and from it.
MessagesSound ==
    /\ IsQueue(intents) /\ IsQueue(orders) /\ IsQueue(reports)
    /\ \A o \in Range(orders) : o.kind = "preview" => o.intent \in 1..Len(intents)
    /\ \A r \in Range(reports) :
        /\ r.kind = "preview" => r.intent \in 1..Len(intents)
        /\ r.kind = "drag" => r.intent \in Edits

\* An intent that is to be applied when its plan arrives is one that was asked for so.
PlansSound ==
    /\ waiting \subseteq 1..Len(intents)
    /\ latest # NoIntent => latest \in 1..Len(intents)
    /\ auto /\ latest # NoIntent => intents[latest].apply
    /\ PreviewSound

\* The draft, what is reviewed and what can be undone are configurations.
DraftSound ==
    /\ config \in Configs /\ edited \in Configs
    /\ IsQueue(history) /\ Range(history) \subseteq Configs
    /\ reviewed # NoReview =>
        /\ reviewed.before \in Configs /\ reviewed.after \in Configs
        /\ reviewed.after.has = reviewed.before.has \cup {reviewed.edit}
    /\ DraftIsTyped

ManagerSound == MessagesSound /\ PlansSound /\ DraftSound

LEMMA ManagerStart == ManagerInit => ManagerSound
  <1> SUFFICES ASSUME ManagerInit PROVE ManagerSound
    OBVIOUS
  <1>1. config = [revision |-> 0, has |-> {}] /\ edited = config /\ typed = Untouched
    BY DEF ManagerInit
  <1>2. config \in Configs /\ config.has = {}
    BY <1>1 DEF Configs
  <1>3. DraftIsTyped
    BY <1>1, <1>2 DEF DraftIsTyped, Untouched
  <1>4. DraftSound
    BY <1>1, <1>2, <1>3, EmptyQueue DEF DraftSound, ManagerInit
  <1>5. MessagesSound
    BY EmptyQueue DEF MessagesSound, ManagerInit
  <1>6. PlansSound
    BY DEF PlansSound, PreviewSound, ManagerInit
  <1> QED BY <1>4, <1>5, <1>6 DEF ManagerSound

\* Messages stay sound when intents are only added, orders and reports are taken
\* from the front, and sound ones are put to the end.
LEMMA OrdersKeep ==
    ASSUME MessagesSound, NEW more, IsQueue(more), Len(intents) <= Len(more), NEW n \in 1..Len(more),
           NEW kind
    PROVE  LET q == Append(orders, Order(kind, n)) IN
           IsQueue(q) /\ \A o \in Range(q) : o.kind = "preview" => o.intent \in 1..Len(more)
  <1> DEFINE q == Append(orders, Order(kind, n))
  <1>1. IsQueue(q) /\ Range(q) = Range(orders) \cup {Order(kind, n)}
    BY AppendFacts DEF MessagesSound
  <1>2. Len(more) \in Nat /\ Len(intents) \in Nat
    BY QueueFacts DEF MessagesSound
  <1>3. Order(kind, n).intent = n
    BY DEF Order
  <1> HIDE DEF q
  <1>4. ASSUME NEW o \in Range(q), o.kind = "preview" PROVE o.intent \in 1..Len(more)
    <2>1. CASE o \in Range(orders)
      <3>1. o.intent \in 1..Len(intents)
        BY <1>4, <2>1 DEF MessagesSound
      <3> QED BY <1>2, <3>1
    <2>2. CASE o = Order(kind, n)
      BY <1>3, <2>2
    <2> QED BY <1>1, <2>1, <2>2
  <1> QED BY <1>1, <1>4 DEF q

\* Messages of the worker: an intent whose preview was ordered, or what was dragged.
LEMMA ReportsKeep ==
    ASSUME MessagesSound, NEW kind, NEW n,
           kind = "preview" => n \in 1..Len(intents),
           kind = "drag" => n \in Edits
    PROVE  LET q == Append(reports, Report(kind, n)) IN
           /\ IsQueue(q)
           /\ \A r \in Range(q) :
                /\ r.kind = "preview" => r.intent \in 1..Len(intents)
                /\ r.kind = "drag" => r.intent \in Edits
  <1> DEFINE q == Append(reports, Report(kind, n))
  <1>1. IsQueue(q) /\ Range(q) = Range(reports) \cup {Report(kind, n)}
    BY AppendFacts DEF MessagesSound
  <1>2. Report(kind, n).intent = n /\ Report(kind, n).kind = kind
    BY DEF Report
  <1> HIDE DEF q
  <1>3. ASSUME NEW r \in Range(q)
        PROVE  /\ r.kind = "preview" => r.intent \in 1..Len(intents)
               /\ r.kind = "drag" => r.intent \in Edits
    <2>1. r \in Range(reports) \/ r = Report(kind, n)
      BY <1>1
    <2> QED BY <1>2, <2>1 DEF MessagesSound
  <1> QED BY <1>1, <1>3 DEF q

LEMMA PolledKeeps ==
    ASSUME MessagesSound, NEW kinds, Polled(kinds), UNCHANGED intents,
           UNCHANGED orders \/ \E n \in 1..Len(intents), kind \in {"preview", "apply"} :
                                   orders' = Append(orders, Order(kind, n))
    PROVE  MessagesSound' /\ Head(reports) \in Range(reports)
  <1>1. IsQueue(reports') /\ Range(reports') \subseteq Range(reports) /\ Head(reports) \in Range(reports)
    BY TailFacts DEF MessagesSound, Polled
  <1>2. IsQueue(orders') /\ \A o \in Range(orders') : o.kind = "preview" => o.intent \in 1..Len(intents)
    <2>1. CASE UNCHANGED orders
      BY <2>1 DEF MessagesSound
    <2>2. CASE \E n \in 1..Len(intents), kind \in {"preview", "apply"} :
                  orders' = Append(orders, Order(kind, n))
      <3>1. PICK n \in 1..Len(intents), kind \in {"preview", "apply"} :
                  orders' = Append(orders, Order(kind, n))
        BY <2>2
      <3>2. IsQueue(intents) /\ Len(intents) <= Len(intents)
        BY QueueFacts DEF MessagesSound
      <3> QED BY <3>1, <3>2, OrdersKeep
    <2> QED BY <2>1, <2>2
  <1> QED BY <1>1, <1>2 DEF MessagesSound

-----------------------------------------------------------------------------
(* The draft.                                                                 *)

LEMMA Renumbered ==
    ASSUME NEW c \in Configs, NEW r \in Nat
    PROVE  [c EXCEPT !.revision = r] \in Configs /\ [c EXCEPT !.revision = r].has = c.has
  BY DEF Configs

LEMMA EditAdded ==
    ASSUME NEW c \in Configs, NEW e \in Edits
    PROVE  Add(c, e) \in Configs /\ Add(c, e).has = c.has \cup {e}
  BY DEF Configs, Add

LEMMA SavedFacts ==
    ASSUME config \in Configs, NEW c \in Configs, Saved(c)
    PROVE  config' \in Configs /\ config'.has = c.has
  <1>1. config.revision + 1 \in Nat
    BY DEF Configs
  <1> QED BY <1>1, Renumbered DEF Saved

LEMMA CommittedFacts ==
    ASSUME DraftSound, NEW c \in Configs, Committed(c)
    PROVE  /\ config' \in Configs /\ config'.has = c.has
           /\ IsQueue(history') /\ Range(history') \subseteq Configs
  <1>1. config' \in Configs /\ config'.has = c.has
    BY SavedFacts DEF Committed, DraftSound
  <1> DEFINE q == Append(history, config)
  <1>2. IsQueue(q) /\ Len(q) = Len(history) + 1 /\ Range(q) \subseteq Configs
    BY AppendFacts DEF DraftSound
  <1>3. Len(history) \in Nat
    BY QueueFacts DEF DraftSound
  <1>4. history' = Kept(q)
    BY DEF Committed
  <1> HIDE DEF q
  <1>5. q # <<>>
    BY <1>2, <1>3, EmptyQueue
  <1>6. IsQueue(Tail(q)) /\ Range(Tail(q)) \subseteq Range(q)
    BY <1>2, <1>5, TailFacts
  <1>7. Kept(q) = Tail(q) \/ Kept(q) = q
    BY DEF Kept
  <1> QED BY <1>1, <1>2, <1>4, <1>6, <1>7

\* The draft follows what was saved.
LEMMA DraftFollows ==
    ASSUME config' \in Configs, edited' = config', typed' = Untouched
    PROVE  edited' \in Configs /\ DraftIsTyped'
  BY DEF DraftIsTyped, Untouched, Configs

LEMMA CommitKeeps ==
    ASSUME DraftSound, NEW c \in Configs, Committed(c), edited' = config', typed' = Untouched,
           UNCHANGED reviewed
    PROVE  DraftSound'
  BY CommittedFacts, DraftFollows DEF DraftSound

LEMMA MergeKeeps ==
    ASSUME DraftSound, NEW e \in Edits, ManualEdit(e), UNCHANGED reviewed
    PROVE  DraftSound'
  <1>1. Add(config, e) \in Configs /\ Add(config, e).has = config.has \cup {e}
    BY EditAdded DEF DraftSound
  <1>2. /\ config' \in Configs /\ config'.has = config.has \cup {e}
        /\ IsQueue(history') /\ Range(history') \subseteq Configs
    BY <1>1, CommittedFacts DEF ManualEdit
  <1>3. edited' \in Configs /\ DraftIsTyped'
    <2>1. CASE edited.has \cap Removals = {}
      <3>1. /\ edited' = [Add(edited, e) EXCEPT !.revision = config'.revision]
            /\ typed' = [in |-> typed.in \ {e}, out |-> typed.out \ {e}]
        BY <2>1 DEF ManualEdit, Merged
      <3>2. config'.revision \in Nat /\ Add(edited, e) \in Configs
            /\ Add(edited, e).has = edited.has \cup {e}
        BY <1>2, EditAdded DEF DraftSound, Configs
      <3>3. edited' \in Configs /\ edited'.has = edited.has \cup {e}
        BY <3>1, <3>2, Renumbered
      <3>4. typed'.in = typed.in \ {e} /\ typed'.out = typed.out \ {e}
        BY <3>1
      <3> QED BY <1>2, <3>3, <3>4 DEF DraftSound, DraftIsTyped
    <2>2. CASE edited.has \cap Removals # {}
      BY <1>2, <2>2, DraftFollows DEF ManualEdit, Merged
    <2> QED BY <2>1, <2>2
  <1> QED BY <1>2, <1>3 DEF DraftSound

LEMMA TypeKeeps == ASSUME DraftSound, Type PROVE DraftSound'
  <1>1. PICK e \in Edits :
        IF e \in edited.has
        THEN /\ edited' = [edited EXCEPT !.has = @ \ {e}]
             /\ typed' = [in |-> typed.in \ {e}, out |-> typed.out \cup {e}]
        ELSE /\ edited' = Add(edited, e)
             /\ typed' = [in |-> typed.in \cup {e}, out |-> typed.out \ {e}]
    BY DEF Type
  <1>2. edited \in Configs /\ DraftIsTyped
    BY DEF DraftSound
  <1>3. UNCHANGED <<config, history, reviewed>>
    BY DEF Type
  <1>4. CASE e \in edited.has
    <2>1. edited' \in Configs /\ edited'.has = edited.has \ {e}
      BY <1>1, <1>2, <1>4 DEF Configs
    <2>2. typed'.in = typed.in \ {e} /\ typed'.out = typed.out \cup {e}
      BY <1>1, <1>4
    <2>3. DraftIsTyped'
      BY <1>2, <1>3, <2>1, <2>2 DEF DraftIsTyped
    <2> QED BY <1>3, <2>1, <2>3 DEF DraftSound
  <1>5. CASE e \notin edited.has
    <2>1. edited' \in Configs /\ edited'.has = edited.has \cup {e}
      BY <1>1, <1>2, <1>5, EditAdded
    <2>2. typed'.in = typed.in \cup {e} /\ typed'.out = typed.out \ {e}
      BY <1>1, <1>5
    <2>3. DraftIsTyped'
      BY <1>2, <1>3, <2>1, <2>2 DEF DraftIsTyped
    <2> QED BY <1>3, <2>1, <2>3 DEF DraftSound
  <1> QED BY <1>4, <1>5

LEMMA ReviewKeeps == ASSUME DraftSound, Review \/ AcceptReview PROVE DraftSound'
  <1>1. CASE Review
    <2>1. PICK e \in Edits :
            reviewed' = [before |-> edited, edit |-> e,
                         after |-> [Add(edited, e) EXCEPT !.revision = @ + 1]]
      BY <1>1 DEF Review
    <2> DEFINE after == [Add(edited, e) EXCEPT !.revision = @ + 1]
    <2>2. Add(edited, e) \in Configs /\ Add(edited, e).has = edited.has \cup {e}
      BY EditAdded DEF DraftSound
    <2>3. after \in Configs /\ after.has = edited.has \cup {e}
      BY <2>2 DEF Configs
    <2> HIDE DEF after
    <2>4. reviewed'.before = edited /\ reviewed'.edit = e /\ reviewed'.after = after
      BY <2>1 DEF after
    <2>5. UNCHANGED <<config, edited, history, typed>>
      BY <1>1 DEF Review
    <2> QED BY <2>3, <2>4, <2>5 DEF DraftSound, DraftIsTyped
  <1>2. CASE AcceptReview
    <2>1. reviewed # NoReview /\ reviewed' = NoReview /\ UNCHANGED <<config, history>>
      BY <1>2 DEF AcceptReview
    <2>2. CASE reviewed.before = edited
      <3>1. /\ edited' = reviewed.after
            /\ typed' = [in |-> typed.in \cup {reviewed.edit}, out |-> typed.out \ {reviewed.edit}]
        BY <1>2, <2>2 DEF AcceptReview
      <3>2. typed'.in = typed.in \cup {reviewed.edit} /\ typed'.out = typed.out \ {reviewed.edit}
        BY <3>1
      <3>3. edited' \in Configs /\ edited'.has = edited.has \cup {reviewed.edit}
        BY <2>1, <2>2, <3>1 DEF DraftSound
      <3> QED BY <2>1, <3>2, <3>3 DEF DraftSound, DraftIsTyped
    <2>3. CASE reviewed.before # edited
      <3>1. UNCHANGED <<edited, typed>>
        BY <1>2, <2>3 DEF AcceptReview
      <3> QED BY <2>1, <3>1 DEF DraftSound, DraftIsTyped
    <2> QED BY <2>2, <2>3
  <1> QED BY <1>1, <1>2

LEMMA UndoKeeps == ASSUME DraftSound, UndoEdit PROVE DraftSound'
  <1>1. history # <<>> /\ history' = Front(history) /\ UNCHANGED reviewed
    BY DEF UndoEdit
  <1>2. /\ IsQueue(history) /\ Len(history) \in Nat /\ Len(history) > 0
        /\ \A i \in 1..Len(history) : history[i] \in Configs
    BY <1>1, QueueFacts DEF DraftSound
  <1>3. Len(history) - 1 \in Nat /\ 1 <= (Len(history) - 1) + 1 /\ Len(history) - 1 <= Len(history)
    BY <1>2
  <1>4. /\ IsQueue(history')
        /\ \A i \in 1..Len(history') : history'[i] \in Configs
    <2>1. history' = SubSeq(history, 1, Len(history) - 1)
      BY <1>1 DEF Front
    <2>2. /\ IsQueue(history')
          /\ \A i \in 1..Len(history') : 1 + i - 1 \in 1..Len(history) /\ history'[i] = history[1 + i - 1]
      BY <1>2, <1>3, <2>1, CutFacts
    <2> QED BY <1>2, <2>2
  <1>5. Range(history') \subseteq Configs
    BY <1>4, QueueFacts
  <1>6. Last(history) \in Configs
    BY <1>2 DEF Last
  <1>7. CASE Saved(Last(history)) /\ edited' = config' /\ typed' = Untouched
    <2>1. config' \in Configs
      BY <1>6, <1>7, SavedFacts DEF DraftSound
    <2> QED BY <1>1, <1>4, <1>5, <1>7, <2>1, DraftFollows DEF DraftSound
  <1>8. CASE UNCHANGED <<config, edited, typed>>
    BY <1>1, <1>4, <1>5, <1>8 DEF DraftSound, DraftIsTyped
  <1> QED BY <1>7, <1>8 DEF UndoEdit

LEMMA DraftStep ==
    ASSUME ManagerSound, [ManagerNext]_managerVars PROVE DraftSound'
  <1> USE DEF ManagerSound
  <1>1. CASE ChangeSaved
    <2>1. PICK e \in Edits : Committed(Add(config, e))
      BY <1>1 DEF ChangeSaved
    <2>2. Add(config, e) \in Configs
      BY EditAdded DEF DraftSound
    <2> QED BY <1>1, <2>1, <2>2, CommitKeeps DEF ChangeSaved
  <1>2. CASE SaveDraft
    <2>1. edited \in Configs
      BY DEF DraftSound
    <2> QED BY <1>2, <2>1, CommitKeeps DEF SaveDraft
  <1>3. CASE PollDrag
    <2>1. CASE ManualEdit(Head(reports).intent)
      <3>1. Head(reports) \in Range(reports) /\ Head(reports).kind = "drag"
        BY <1>3, TailFacts DEF PollDrag, Polled, MessagesSound
      <3>2. Head(reports).intent \in Edits
        BY <3>1 DEF MessagesSound
      <3> QED BY <1>3, <2>1, <3>2, MergeKeeps DEF PollDrag
    <2>2. CASE UNCHANGED <<config, edited, history, typed>>
      BY <1>3, <2>2 DEF PollDrag, DraftSound, DraftIsTyped
    <2> QED BY <1>3, <2>1, <2>2 DEF PollDrag
  <1>4. CASE UNCHANGED editing
    BY <1>4 DEF editing, DraftSound, DraftIsTyped
  <1> QED BY <1>1, <1>2, <1>3, <1>4, TypeKeeps, ReviewKeeps, UndoKeeps
          DEF ManagerNext, managerVars, Intend, Look, SelectView, ApplyButton, Carry, Speak,
              PollPreview, PollResult, PollError

-----------------------------------------------------------------------------
(* The intents.                                                               *)

LEMMA AskKeeps ==
    ASSUME ManagerSound, NEW n, NEW apply, Ask(n, apply),
           IsQueue(intents'), Len(intents) <= Len(intents'), n \in 1..Len(intents'),
           apply => intents'[n].apply,
           waiting' \subseteq 1..Len(intents'),
           UNCHANGED unbidden
    PROVE  /\ PlansSound'
           /\ IsQueue(orders')
           /\ \A o \in Range(orders') : o.kind = "preview" => o.intent \in 1..Len(intents')
  <1>1. latest' = n /\ preview' = NoIntent /\ auto' = apply
    BY DEF Ask
  <1>2. PreviewSound'
    BY <1>1 DEF PreviewSound, ManagerSound, PlansSound
  <1>3. orders' = Append(orders, Order("preview", n))
    BY DEF Ask
  <1>4. /\ IsQueue(orders')
        /\ \A o \in Range(orders') : o.kind = "preview" => o.intent \in 1..Len(intents')
    BY <1>3, OrdersKeep DEF ManagerSound
  <1> QED BY <1>1, <1>2, <1>4 DEF PlansSound

\* A new intent leaves the others as they are.
LEMMA IntentAdded ==
    ASSUME ManagerSound, NEW i, intents' = Append(intents, i)
    PROVE  /\ IsQueue(intents') /\ Len(intents) \in Nat /\ Len(intents') = Len(intents) + 1
           /\ Len(intents') \in 1..Len(intents') /\ intents'[Len(intents')] = i
           /\ 1..Len(intents) \subseteq 1..Len(intents')
           /\ \A n \in 1..Len(intents) : intents'[n] = intents[n]
  <1>1. Len(intents) \in Nat
    BY QueueFacts DEF ManagerSound, MessagesSound
  <1>2. /\ IsQueue(intents') /\ Len(intents') = Len(intents) + 1
        /\ \A n \in 1..Len(intents) : intents'[n] = intents[n]
        /\ intents'[Len(intents) + 1] = i
    BY AppendFacts DEF ManagerSound, MessagesSound
  <1> QED BY <1>1, <1>2

LEMMA IntendKeeps == ASSUME ManagerSound, Intend PROVE MessagesSound' /\ PlansSound'
  <1>1. PICK scope \in Scopes, apply \in BOOLEAN :
        /\ intents' = Append(intents, [scope |-> scope, apply |-> apply])
        /\ RequestPreview(Len(intents) + 1, apply)
    BY DEF Intend
  <1> DEFINE i == [scope |-> scope, apply |-> apply]
  <1>2. i.apply = apply
    OBVIOUS
  <1> HIDE DEF i
  <1>3. /\ IsQueue(intents') /\ Len(intents) \in Nat /\ Len(intents') = Len(intents) + 1
        /\ Len(intents') \in 1..Len(intents') /\ intents'[Len(intents')] = i
        /\ 1..Len(intents) \subseteq 1..Len(intents')
        /\ \A n \in 1..Len(intents) : intents'[n] = intents[n]
    BY <1>1, IntentAdded DEF i
  <1>4. UNCHANGED <<applying, unbidden, reports>>
    BY DEF Intend
  <1>5. RequestPreview(Len(intents'), apply)
    BY <1>1, <1>3
  <1>6. waiting \subseteq 1..Len(intents')
    BY <1>3 DEF ManagerSound, PlansSound
  <1>7. IsQueue(reports') /\ \A r \in Range(reports') :
            /\ r.kind = "preview" => r.intent \in 1..Len(intents')
            /\ r.kind = "drag" => r.intent \in Edits
    BY <1>3, <1>4 DEF ManagerSound, MessagesSound
  <1>8. CASE applying
    <2>1. Queue(Len(intents')) /\ UNCHANGED <<latest, auto, preview, orders>>
      BY <1>5, <1>8 DEF RequestPreview
    <2>2. waiting' \subseteq 1..Len(intents')
      BY <1>3, <1>6, <2>1 DEF Queue
    <2>3. MessagesSound'
      BY <1>3, <1>7, <2>1 DEF ManagerSound, MessagesSound
    <2>4. PlansSound'
      BY <1>3, <1>4, <2>1, <2>2 DEF ManagerSound, PlansSound, PreviewSound
    <2> QED BY <2>3, <2>4
  <1>9. CASE ~applying
    <2>1. Ask(Len(intents'), apply) /\ UNCHANGED waiting
      BY <1>5, <1>9 DEF RequestPreview
    <2>2. Len(intents) <= Len(intents') /\ waiting' \subseteq 1..Len(intents')
      BY <1>3, <1>6, <2>1
    <2>3. apply => intents'[Len(intents')].apply
      BY <1>2, <1>3
    <2>4. /\ PlansSound' /\ IsQueue(orders')
          /\ \A o \in Range(orders') : o.kind = "preview" => o.intent \in 1..Len(intents')
      BY <1>3, <1>4, <2>1, <2>2, <2>3, AskKeeps
    <2> QED BY <1>3, <1>7, <2>4 DEF MessagesSound
  <1> QED BY <1>8, <1>9

LEMMA LookKeeps == ASSUME ManagerSound, Look PROVE MessagesSound' /\ PlansSound'
  <1>1. PICK scope \in Scopes : intents' = Append(intents, [scope |-> scope, apply |-> FALSE])
    BY DEF Look
  <1>2. /\ IsQueue(intents') /\ Len(intents) \in Nat /\ Len(intents') = Len(intents) + 1
        /\ Len(intents') \in 1..Len(intents')
        /\ 1..Len(intents) \subseteq 1..Len(intents')
    BY <1>1, IntentAdded
  <1>3. Ask(Len(intents'), FALSE) /\ UNCHANGED <<waiting, unbidden, reports>>
    BY DEF Look, Ask, Looks
  <1>4. Len(intents) <= Len(intents') /\ waiting' \subseteq 1..Len(intents')
    BY <1>2, <1>3 DEF ManagerSound, PlansSound
  <1>5. /\ PlansSound' /\ IsQueue(orders')
        /\ \A o \in Range(orders') : o.kind = "preview" => o.intent \in 1..Len(intents')
    BY <1>2, <1>3, <1>4, AskKeeps
  <1> QED BY <1>2, <1>3, <1>5 DEF ManagerSound, MessagesSound

LEMMA ApplyKeeps == ASSUME ManagerSound, ApplyButton PROVE MessagesSound' /\ PlansSound'
  <1>1. /\ preview # NoIntent /\ ApplyPreview(preview)
        /\ UNCHANGED <<preview, latest, auto, waiting, intents, unbidden, reports>>
    BY DEF ApplyButton
  <1>2. preview \in 1..Len(intents)
    BY <1>1 DEF ManagerSound, PlansSound, PreviewSound
  <1>3. /\ IsQueue(orders')
        /\ \A o \in Range(orders') : o.kind = "preview" => o.intent \in 1..Len(intents)
    <2>1. CASE orders' = Append(orders, Order("apply", preview))
      <3>1. IsQueue(intents) /\ Len(intents) <= Len(intents)
        BY QueueFacts DEF ManagerSound, MessagesSound
      <3> QED BY <1>2, <2>1, <3>1, OrdersKeep DEF ManagerSound
    <2>2. CASE UNCHANGED orders
      BY <2>2 DEF ManagerSound, MessagesSound
    <2> QED BY <1>1, <2>1, <2>2 DEF ApplyPreview
  <1> QED BY <1>1, <1>3 DEF ManagerSound, MessagesSound, PlansSound, PreviewSound

LEMMA CarryKeeps == ASSUME ManagerSound, Carry PROVE MessagesSound' /\ PlansSound'
  <1> DEFINE order == Head(orders)
  <1>1. PICK kind \in {"preview", "done", "failed", "error"} :
          /\ reports' = Append(reports, Report(kind, order.intent))
          /\ kind = "preview" => order.kind = "preview"
    BY DEF Carry
  <1>2. /\ order \in Range(orders) /\ IsQueue(orders') /\ Range(orders') \subseteq Range(orders)
    BY TailFacts DEF Carry, ManagerSound, MessagesSound
  <1> HIDE DEF order
  <1>3. kind = "preview" => order.intent \in 1..Len(intents)
    BY <1>1, <1>2 DEF ManagerSound, MessagesSound
  <1>4. UNCHANGED intending
    BY DEF Carry
  <1>5. /\ IsQueue(reports')
        /\ \A r \in Range(reports') :
             /\ r.kind = "preview" => r.intent \in 1..Len(intents)
             /\ r.kind = "drag" => r.intent \in Edits
    BY <1>1, <1>3, ReportsKeep DEF ManagerSound
  <1> QED BY <1>2, <1>4, <1>5 DEF intending, ManagerSound, MessagesSound, PlansSound, PreviewSound

LEMMA SpeakKeeps == ASSUME ManagerSound, Speak PROVE MessagesSound' /\ PlansSound'
  <1>0. PICK kind \in {"error", "done", "failed", "drag"} :
          \E n \in {NoIntent} \cup Edits :
            reports' = Append(reports, Report(kind, n)) /\ (kind = "drag" => n \in Edits)
    BY DEF Speak
  <1>1. PICK n \in {NoIntent} \cup Edits :
          reports' = Append(reports, Report(kind, n)) /\ (kind = "drag" => n \in Edits)
    BY <1>0
  <1>2. UNCHANGED <<intending, orders>>
    BY DEF Speak
  <1>3. /\ IsQueue(reports')
        /\ \A r \in Range(reports') :
             /\ r.kind = "preview" => r.intent \in 1..Len(intents)
             /\ r.kind = "drag" => r.intent \in Edits
    BY <1>1, ReportsKeep DEF ManagerSound
  <1> QED BY <1>2, <1>3 DEF intending, ManagerSound, MessagesSound, PlansSound, PreviewSound

\* Only the plan of the newest intent is shown, and applied only when that was asked for.
LEMMA PollPreviewKeeps == ASSUME ManagerSound, PollPreview PROVE MessagesSound' /\ PlansSound'
  <1> DEFINE n == Head(reports).intent
  <1>1. UNCHANGED <<latest, waiting, intents>> /\ Polled({"preview"})
    BY DEF PollPreview
  <1>2. CASE ~Shows(n)
    <2>1. UNCHANGED <<preview, auto, orders, unbidden>>
      BY <1>2 DEF PollPreview
    <2> QED BY <1>1, <2>1, PolledKeeps DEF ManagerSound, PlansSound, PreviewSound
  <1>3. CASE Shows(n)
    <2>1. /\ preview' = n /\ auto' = FALSE
          /\ IF auto THEN ApplyPreview(n) ELSE UNCHANGED <<applying, orders>>
          /\ unbidden' = IF auto /\ ~intents[n].apply THEN unbidden \cup {n} ELSE unbidden
      BY <1>3 DEF PollPreview
    <2>2. Head(reports) \in Range(reports) /\ Head(reports).kind = "preview"
      BY <1>1, TailFacts DEF Polled, ManagerSound, MessagesSound
    <2>3. n \in 1..Len(intents) /\ latest = n
      BY <1>3, <2>2 DEF ManagerSound, MessagesSound, Shows
    <2>4. n # NoIntent
      <3>1. Len(intents) \in Nat
        BY QueueFacts DEF ManagerSound, MessagesSound
      <3> QED BY <2>3, <3>1, ManagerUiAssumption
    <2> HIDE DEF n
    <2>5. auto => intents[n].apply
      BY <2>3, <2>4 DEF ManagerSound, PlansSound
    <2>6. unbidden' = {}
      BY <2>1, <2>5 DEF ManagerSound, PlansSound, PreviewSound
    <2>7. UNCHANGED orders \/ orders' = Append(orders, Order("apply", n))
      BY <2>1 DEF ApplyPreview
    <2>8. MessagesSound'
      BY <1>1, <2>3, <2>7, PolledKeeps DEF ManagerSound
    <2> QED BY <1>1, <2>1, <2>3, <2>6, <2>8 DEF ManagerSound, PlansSound, PreviewSound
  <1> QED BY <1>2, <1>3

\* The oldest intent that waits is taken up as it was asked for.
LEMMA PollResultKeeps == ASSUME ManagerSound, PollResult PROVE MessagesSound' /\ PlansSound'
  <1>1. UNCHANGED <<intents, unbidden>> /\ Polled({"done", "failed"})
    BY DEF PollResult
  <1>2. PICK suspended \in {{}} \cup Scopes :
          LET left == {m \in waiting : ScopeOf(m) \cap suspended = {}}
              first == CHOOSE m \in left : \A k \in left : m <= k
          IN IF left = {}
             THEN waiting' = {} /\ preview' = NoIntent /\ UNCHANGED <<latest, auto, orders>>
             ELSE waiting' = left \ {first} /\ Ask(first, intents[first].apply)
    BY DEF PollResult
  <1> DEFINE left == {m \in waiting : ScopeOf(m) \cap suspended = {}}
             first == CHOOSE m \in left : \A k \in left : m <= k
  <1>3. left \subseteq 1..Len(intents) /\ Len(intents) \in Nat
    BY QueueFacts DEF ManagerSound, PlansSound, MessagesSound
  <1>4. left # {} => first \in left
    <2> HIDE DEF left
    <2> SUFFICES ASSUME left # {} PROVE first \in left
      OBVIOUS
    <2>1. left \subseteq Nat
      BY <1>3
    <2>2. \E m \in left : \A k \in left : m <= k
      BY ONLY left # {}, <2>1, Least
    <2> QED BY <2>2
  <1> HIDE DEF left, first
  <1>5. CASE left = {}
    <2>1. waiting' = {} /\ preview' = NoIntent /\ UNCHANGED <<latest, auto, orders>>
      BY <1>2, <1>5 DEF left
    <2> QED BY <1>1, <2>1, PolledKeeps DEF ManagerSound, PlansSound, PreviewSound
  <1>6. CASE left # {}
    <2>1. waiting' = left \ {first} /\ Ask(first, intents[first].apply)
      BY <1>2, <1>6 DEF left, first
    <2>7. first \in 1..Len(intents) /\ waiting' \subseteq 1..Len(intents)
      BY <1>3, <1>4, <1>6, <2>1
    <2>8. intents' = intents /\ IsQueue(intents) /\ Len(intents) <= Len(intents)
      BY <1>1, <1>3 DEF ManagerSound, MessagesSound
    <2>2. first \in 1..Len(intents') /\ waiting' \subseteq 1..Len(intents')
          /\ Len(intents) <= Len(intents') /\ IsQueue(intents')
      BY <2>7, <2>8
    <2>3. intents[first].apply => intents'[first].apply
      BY <1>1
    <2>4. PlansSound'
      BY <1>1, <2>1, <2>2, <2>3, AskKeeps
    <2>5. orders' = Append(orders, Order("preview", first)) /\ first \in 1..Len(intents)
      BY <1>1, <2>1, <2>2 DEF Ask
    <2>6. MessagesSound'
      BY <1>1, <2>5, PolledKeeps DEF ManagerSound
    <2> QED BY <2>4, <2>6
  <1> QED BY <1>5, <1>6

\* A saved change takes the plan on show away.
LEMMA SaveHidesPlan ==
    ASSUME ManagerSound, latest' = NoIntent, preview' = NoIntent,
           UNCHANGED <<auto, waiting, intents, unbidden>>
    PROVE  PlansSound'
  BY DEF ManagerSound, PlansSound, PreviewSound

LEMMA IntentStep ==
    ASSUME ManagerSound, [ManagerNext]_managerVars PROVE MessagesSound' /\ PlansSound'
  <1>1. CASE ChangeSaved \/ SaveDraft
    <2>1. latest' = NoIntent /\ preview' = NoIntent /\ UNCHANGED <<auto, waiting, intents, unbidden, worker>>
      BY <1>1 DEF ChangeSaved, SaveDraft, Committed
    <2>2. PlansSound'
      BY <2>1, SaveHidesPlan
    <2> QED BY <2>1, <2>2 DEF ManagerSound, MessagesSound, worker
  <1>2. CASE Type \/ Review \/ AcceptReview \/ UNCHANGED managerVars
    <2>1. UNCHANGED <<intending, worker>>
      BY <1>2 DEF Type, Review, AcceptReview, managerVars
    <2> QED BY <2>1 DEF ManagerSound, MessagesSound, PlansSound, PreviewSound, intending, worker
  <1>3. CASE UndoEdit \/ SelectView
    <2>1. /\ preview' = NoIntent \/ UNCHANGED preview
          /\ UNCHANGED <<latest, auto, waiting, intents, unbidden, worker>>
      BY <1>3 DEF UndoEdit, SelectView
    <2> QED BY <2>1 DEF ManagerSound, MessagesSound, PlansSound, PreviewSound, worker
  <1>4. CASE PollError
    <2>1. auto' = FALSE /\ UNCHANGED <<preview, latest, waiting, intents, unbidden, orders>>
          /\ Polled({"error"})
      BY <1>4 DEF PollError
    <2>2. PlansSound'
      BY <2>1 DEF ManagerSound, PlansSound, PreviewSound
    <2> QED BY <2>1, <2>2, PolledKeeps DEF ManagerSound
  <1>5. CASE PollDrag
    <2>1. Polled({"drag"}) /\ UNCHANGED <<auto, waiting, intents, unbidden, orders>>
      BY <1>5 DEF PollDrag
    <2>2. \/ latest' = NoIntent /\ preview' = NoIntent
          \/ UNCHANGED <<latest, preview>>
      BY <1>5 DEF PollDrag, ManualEdit, Committed
    <2>3. PlansSound'
      BY <2>1, <2>2, SaveHidesPlan DEF ManagerSound, PlansSound, PreviewSound
    <2> QED BY <2>1, <2>3, PolledKeeps DEF ManagerSound
  <1> QED BY <1>1, <1>2, <1>3, <1>4, <1>5, IntendKeeps, LookKeeps, ApplyKeeps, CarryKeeps,
             SpeakKeeps, PollPreviewKeeps, PollResultKeeps DEF ManagerNext

LEMMA ManagerAlwaysSound == ManagerSpec => []ManagerSound
  <1>1. ManagerSound /\ [ManagerNext]_managerVars => ManagerSound'
    BY DraftStep, IntentStep DEF ManagerSound
  <1> QED BY <1>1, ManagerStart, PTL DEF ManagerSpec

\* The draft is the saved configuration with exactly what was typed since, whatever is
\* reviewed, undone or dragged meanwhile (Manager::commit, manual_edit).
THEOREM TypingIsKept == ManagerSpec => []DraftIsTyped
  <1>1. ManagerSound => DraftIsTyped
    BY DEF ManagerSound, DraftSound
  <1> QED BY <1>1, ManagerAlwaysSound, PTL

\* The plan on show is that of the newest intent, and none is applied on its own that was
\* asked for as a preview (Manager::poll, request_preview).
THEOREM PreviewsAreSound == ManagerSpec => []PreviewSound
  <1>1. ManagerSound => PreviewSound
    BY DEF ManagerSound, PlansSound
  <1> QED BY <1>1, ManagerAlwaysSound, PTL

-----------------------------------------------------------------------------
(* The audio cable.                                                           *)

CableSpec == CableInit /\ [][CableNext]_cableVars

Listings == [playback : SUBSET Playbacks, capture : SUBSET Captures, default : Playbacks \cup {Unset}]
CableStates ==
    [now : CableSettings, presets : Seq(CableSettings), known : Listings, cables : SUBSET Cables,
     pending : [asked : BOOLEAN, found : Listings \cup {Unset}],
     worker : CableWorkers \cup {Unset}]

CableTypes ==
    /\ cabling \in CableStates /\ devices \in Listings
    /\ paper \in CablePapers \cup {Unset}

LEMMA OpenedTyped == ASSUME paper \in CablePapers \cup {Unset} PROVE OpenedCable \in CableStates
  <1>1. FirstTuning \in CableSettings
    BY CableAssumption DEF FirstTuning, CableSettings
  <1>2. Loaded.now \in CableSettings /\ Loaded.presets \in Seq(CableSettings)
    <2>1. CASE paper = Unset
      <3>1. Loaded = [now |-> FirstTuning, presets |-> <<>>]
        BY <2>1 DEF Loaded
      <3>2. <<>> \in Seq(CableSettings)
        OBVIOUS
      <3> QED BY <1>1, <3>1, <3>2
    <2>2. CASE paper # Unset
      BY <2>2 DEF Loaded, CablePapers
    <2> QED BY <2>1, <2>2
  <1>3. Unknown \in Listings
    BY DEF Unknown, Listings
  <1>4. Awaiting \in [asked : BOOLEAN, found : Listings \cup {Unset}]
    BY DEF Awaiting
  <1> QED BY <1>2, <1>3, <1>4 DEF OpenedCable, CableStates

LEMMA WithWorker ==
    ASSUME NEW c \in CableStates, NEW w \in CableWorkers \cup {Unset}
    PROVE  LET r == [c EXCEPT !.worker = w] IN
           r \in CableStates /\ r.worker = w /\ r.now = c.now /\ r.known = c.known
  BY DEF CableStates

LEMMA WithNow ==
    ASSUME NEW c \in CableStates, NEW now \in CableSettings
    PROVE  LET r == [c EXCEPT !.now = now] IN
           /\ r \in CableStates /\ r.worker = c.worker /\ r.now = now /\ r.known = c.known
           /\ r.presets = c.presets
  BY DEF CableStates

LEMMA WithPending ==
    ASSUME NEW c \in CableStates, NEW pending \in [asked : BOOLEAN, found : Listings \cup {Unset}]
    PROVE  LET r == [c EXCEPT !.pending = pending] IN
           r \in CableStates /\ r.worker = c.worker
  BY DEF CableStates

LEMMA WithPresets ==
    ASSUME NEW c \in CableStates, NEW presets \in Seq(CableSettings)
    PROVE  LET r == [c EXCEPT !.presets = presets] IN
           /\ r \in CableStates /\ r.worker = c.worker
           /\ [now |-> r.now, presets |-> r.presets] \in CablePapers
  BY DEF CableStates, CablePapers

\* What a step of the program may do to its worker.
WorkerKept == cabling'.worker = cabling.worker
WorkerTaken == cabling'.worker = Unset /\ cabling.worker # Unset /\ cabling.worker.ended
WorkerMarked ==
    /\ cabling.worker # Unset /\ cabling'.worker # Unset
    /\ cabling'.worker.route = cabling.worker.route
    /\ cabling'.worker.volume = cabling.worker.volume
VolumeSent(c, now, w) ==
    /\ c.worker # Unset /\ w # Unset /\ w.route = c.worker.route
    /\ w.route = RouteOf(now) /\ w.volume = now.volume
RouteBegun(now, known, w) ==
    /\ w # Unset /\ RouteValid(now, known)
    /\ w.route = RouteOf(now) /\ w.volume = now.volume

LEMMA WorkerStepSound ==
    ASSUME \/ WorkerKept \/ WorkerTaken \/ WorkerMarked
           \/ VolumeSent(cabling, cabling'.now, cabling'.worker)
           \/ RouteBegun(cabling'.now, cabling'.known, cabling'.worker)
    PROVE  RouteGivenUp
  <1>1. CASE WorkerKept
    BY <1>1 DEF WorkerKept, RouteGivenUp, Plays
  <1>2. CASE WorkerTaken
    BY <1>2 DEF WorkerTaken, RouteGivenUp, Plays
  <1>3. CASE WorkerMarked
    BY <1>3 DEF WorkerMarked, RouteGivenUp, Plays
  <1>4. CASE VolumeSent(cabling, cabling'.now, cabling'.worker)
    BY <1>4 DEF VolumeSent, RouteGivenUp, Plays
  <1>5. CASE RouteBegun(cabling'.now, cabling'.known, cabling'.worker)
    BY <1>5 DEF RouteBegun, RouteGivenUp, Plays
  <1> QED BY <1>1, <1>2, <1>3, <1>4, <1>5

LEMMA RouteTyped ==
    ASSUME NEW now \in CableSettings
    PROVE  RouteOf(now) \in CableRoutes /\ now.volume \in Volumes
  BY DEF CableSettings, CableRoutes, RouteOf

LEMMA VolumeFacts ==
    ASSUME NEW c \in CableStates
    PROVE  LET r == AppliesVolume(c) IN
           /\ r \in CableStates /\ r.now = c.now /\ r.known = c.known
           /\ r.worker = c.worker \/ VolumeSent(c, c.now, r.worker)
  <1>1. c.now \in CableSettings /\ c.worker \in CableWorkers \cup {Unset}
    BY DEF CableStates
  <1>2. CASE c.worker # Unset /\ c.worker.route = RouteOf(c.now)
    <2> DEFINE w == [c.worker EXCEPT !.volume = c.now.volume]
    <2>1. c.worker \in CableWorkers /\ c.now.volume \in Volumes
      BY <1>1, <1>2, RouteTyped
    <2>2. w \in CableWorkers /\ w.route = c.worker.route /\ w.volume = c.now.volume
      BY <2>1 DEF CableWorkers
    <2>3. AppliesVolume(c) = [c EXCEPT !.worker = w]
      BY <1>2 DEF AppliesVolume
    <2> HIDE DEF w
    <2>4. w # Unset
      BY <2>2, CableAssumption
    <2> QED BY <1>2, <2>2, <2>3, <2>4, WithWorker DEF VolumeSent
  <1>3. CASE ~(c.worker # Unset /\ c.worker.route = RouteOf(c.now))
    BY <1>3 DEF AppliesVolume
  <1> QED BY <1>2, <1>3

LEMMA StartFacts ==
    ASSUME NEW c \in CableStates
    PROVE  LET r == StartsRoute(c) IN
           /\ r \in CableStates /\ r.now = c.now /\ r.known = c.known
           /\ \/ r.worker = c.worker
              \/ VolumeSent(c, c.now, r.worker)
              \/ RouteBegun(c.now, c.known, r.worker)
  <1>1. c.now \in CableSettings /\ c.worker \in CableWorkers \cup {Unset}
    BY DEF CableStates
  <1>2. CASE ~RouteValid(c.now, c.known)
    BY <1>2 DEF StartsRoute
  <1>3. CASE /\ RouteValid(c.now, c.known)
             /\ c.worker # Unset /\ c.worker.route = RouteOf(c.now) /\ ~c.worker.stopped
    <2>1. StartsRoute(c) = AppliesVolume(c)
      BY <1>3 DEF StartsRoute
    <2> QED BY <2>1, VolumeFacts
  <1>4. CASE /\ RouteValid(c.now, c.known)
             /\ ~(c.worker # Unset /\ c.worker.route = RouteOf(c.now) /\ ~c.worker.stopped)
    <2> DEFINE w == [route |-> RouteOf(c.now), volume |-> c.now.volume,
                     stopped |-> FALSE, ended |-> FALSE]
    <2>1. w \in CableWorkers /\ w.route = RouteOf(c.now) /\ w.volume = c.now.volume
      BY <1>1, RouteTyped DEF CableWorkers
    <2>2. StartsRoute(c) = [c EXCEPT !.worker = w]
      BY <1>4 DEF StartsRoute
    <2> HIDE DEF w
    <2>3. w # Unset
      BY <2>1, CableAssumption
    <2> QED BY <1>4, <2>1, <2>2, <2>3, WithWorker DEF RouteBegun
  <1> QED BY <1>2, <1>3, <1>4

LEMMA ListingFacts ==
    ASSUME NEW c \in CableStates
    PROVE  TakesListing(c) \in CableStates /\ TakesListing(c).worker = c.worker
  <1> DEFINE known == c.pending.found
             cables == Recognized(known)
             cable == IF c.now.cable = Unset /\ Cardinality(cables) = 1
                        THEN CHOOSE only \in cables : TRUE ELSE c.now.cable
             loops == cable # Unset /\ cable.playback = known.default
             output == IF c.now.output = Unset /\ known.default # Unset /\ ~loops
                         THEN known.default ELSE c.now.output
             now == [c.now EXCEPT !.cable = cable, !.output = output]
  <1>1. c.now \in CableSettings /\ known \in Listings \cup {Unset}
    BY DEF CableStates
  <1>2. NotAwaiting \in [asked : BOOLEAN, found : Listings \cup {Unset}]
    BY DEF NotAwaiting
  <1>3. CASE known = Unset
    BY <1>3 DEF TakesListing
  <1>4. CASE known # Unset /\ known = Unknown
    <2>1. TakesListing(c) = [c EXCEPT !.pending = NotAwaiting]
      BY <1>4 DEF TakesListing
    <2> QED BY <1>2, <2>1, WithPending
  <1>5. CASE known # Unset /\ known # Unknown
    <2>1. TakesListing(c) = [c EXCEPT !.pending = NotAwaiting, !.cables = cables, !.known = known,
                                      !.now = now]
      BY <1>5 DEF TakesListing
    <2>2. known \in Listings
      BY <1>1, <1>5
    <2>3. cables \subseteq Installed
      BY DEF Recognized
    <2>4. cable \in Cables \cup {Unset}
      <3> HIDE DEF cables
      <3>1. Cardinality(cables) = 1 => cables # {}
        BY FS_EmptySet
      <3> QED BY <1>1, <2>3, <3>1 DEF Cables, CableSettings
    <2>5. output \in Playbacks \cup {Unset}
      <3> HIDE DEF known, loops
      <3> QED BY <1>1, <2>2 DEF Listings, CableSettings
    <2> HIDE DEF cable, output, known, cables
    <2>6. now \in CableSettings
      BY <1>1, <2>4, <2>5 DEF CableSettings
    <2> HIDE DEF now
    <2>7. cables \in SUBSET Cables
      BY <2>3 DEF Cables
    <2> DEFINE r == [c EXCEPT !.pending = NotAwaiting, !.cables = cables, !.known = known,
                              !.now = now]
    <2>8. r \in CableStates /\ r.worker = c.worker
      BY <1>2, <2>2, <2>6, <2>7 DEF CableStates
    <2> QED BY <2>1, <2>8
  <1> QED BY <1>3, <1>4, <1>5

LEMMA EndedFacts ==
    ASSUME NEW c \in CableStates
    PROVE  LET r == TakesEnded(c) IN
           /\ r \in CableStates
           /\ \/ r.worker = c.worker
              \/ r.worker = Unset /\ c.worker # Unset /\ c.worker.ended
  <1>1. CASE c.worker # Unset /\ c.worker.ended
    BY <1>1, WithWorker DEF TakesEnded
  <1>2. CASE ~(c.worker # Unset /\ c.worker.ended)
    BY <1>2 DEF TakesEnded
  <1> QED BY <1>1, <1>2

LEMMA PresetFacts ==
    ASSUME NEW c \in CableStates, NEW k \in DOMAIN c.presets
    PROVE  LET r == UsesPreset(c, k) IN
           /\ r \in CableStates
           /\ \/ r.worker = c.worker
              \/ VolumeSent(c, r.now, r.worker)
              \/ RouteBegun(r.now, r.known, r.worker)
  <1>1. c.presets[k] \in CableSettings
    BY ElementOfSeq DEF CableStates
  <1>2. CASE RouteValid(c.presets[k], c.known)
    <2> DEFINE d == [c EXCEPT !.now = c.presets[k]]
    <2>1. d \in CableStates /\ d.worker = c.worker /\ d.now = c.presets[k] /\ d.known = c.known
      BY <1>1, WithNow
    <2>2. UsesPreset(c, k) = StartsRoute(d)
      BY <1>2 DEF UsesPreset
    <2> HIDE DEF d
    <2>3. /\ StartsRoute(d) \in CableStates /\ StartsRoute(d).now = d.now
          /\ StartsRoute(d).known = d.known
          /\ \/ StartsRoute(d).worker = d.worker
             \/ VolumeSent(d, d.now, StartsRoute(d).worker)
             \/ RouteBegun(d.now, d.known, StartsRoute(d).worker)
      BY <2>1, StartFacts
    <2> QED BY <2>1, <2>2, <2>3 DEF VolumeSent
  <1>3. CASE ~RouteValid(c.presets[k], c.known)
    BY <1>3 DEF UsesPreset
  <1> QED BY <1>2, <1>3

LEMMA SavedPresets ==
    ASSUME NEW c \in CableStates, NEW k \in 1..Len(c.presets) + 1
    PROVE  LET r == SavesPreset(c, k) IN
           /\ r \in CableStates /\ r.worker = c.worker
           /\ [now |-> r.now, presets |-> r.presets] \in CablePapers
  <1> DEFINE presets == IF k \in DOMAIN c.presets THEN [c.presets EXCEPT ![k] = c.now]
                        ELSE Append(c.presets, c.now)
  <1>1. c.presets \in Seq(CableSettings) /\ c.now \in CableSettings
    BY DEF CableStates
  <1>2. presets \in Seq(CableSettings)
    <2>1. CASE k \in DOMAIN c.presets
      BY <1>1, <2>1, ExceptSeq
    <2>2. CASE k \notin DOMAIN c.presets
      BY <1>1, <2>2, AppendProperties
    <2> QED BY <2>1, <2>2
  <1>3. SavesPreset(c, k) = [c EXCEPT !.presets = presets]
    BY DEF SavesPreset
  <1> HIDE DEF presets
  <1> QED BY <1>2, <1>3, WithPresets

LEMMA RemovedPresets ==
    ASSUME NEW c \in CableStates, NEW k \in DOMAIN c.presets
    PROVE  RemoveAt(c.presets, k) \in Seq(CableSettings)
  <1>1. /\ c.presets \in Seq(CableSettings) /\ Len(c.presets) \in Nat
        /\ k \in 1..Len(c.presets)
    BY LenProperties DEF CableStates
  <1>2. SubSeq(c.presets, 1, k - 1) \in Seq(CableSettings)
    <2>1. \A i \in 1..k - 1 : c.presets[i] \in CableSettings
      BY <1>1, ElementOfSeq
    <2> QED BY <1>1, <2>1, SubSeqProperties
  <1>3. SubSeq(c.presets, k + 1, Len(c.presets)) \in Seq(CableSettings)
    <2>1. \A i \in k + 1..Len(c.presets) : c.presets[i] \in CableSettings
      BY <1>1, ElementOfSeq
    <2> QED BY <1>1, <2>1, SubSeqProperties
  <1> QED BY <1>2, <1>3, ConcatProperties DEF RemoveAt

-----------------------------------------------------------------------------

LEMMA CableStart == CableInit => CableTypes
  <1> SUFFICES ASSUME CableInit PROVE CableTypes
    OBVIOUS
  <1>1. paper \in CablePapers \cup {Unset}
    BY CableAssumption DEF CableInit
  <1>2. cabling \in CableStates
    BY <1>1, OpenedTyped DEF CableInit
  <1>3. devices \in Listings
    BY CableAssumption DEF CableInit, Listings
  <1> QED BY <1>1, <1>2, <1>3 DEF CableTypes

LEMMA CableKeeps ==
    ASSUME CableTypes, CableNext
    PROVE  CableTypes' /\ RouteGivenUp
  <1> DEFINE RestTyped == paper' \in CablePapers \cup {Unset} /\ devices' \in Listings
             Done == RestTyped /\ cabling' \in CableStates
  <1> USE DEF CableTypes
  <1>0. Done => CableTypes'
    OBVIOUS
  <1>1. CASE PollCable
    <2> DEFINE c == TakesListing(cabling)
    <2>1. c \in CableStates /\ c.worker = cabling.worker
      BY ListingFacts
    <2>2. cabling' = TakesEnded(c) /\ RestTyped
      BY <1>1 DEF PollCable, CableStep
    <2> HIDE DEF c
    <2>3. cabling' \in CableStates /\ (WorkerKept \/ WorkerTaken)
      BY <2>1, <2>2, EndedFacts DEF WorkerKept, WorkerTaken
    <2> QED BY <1>0, <2>2, <2>3, WorkerStepSound
  <1>2. CASE ListenNow
    <2>1. cabling' = StartsRoute(cabling) /\ RestTyped
      BY <1>2 DEF ListenNow, CableStep
    <2>2. /\ cabling' \in CableStates
          /\ \/ WorkerKept \/ VolumeSent(cabling, cabling'.now, cabling'.worker)
             \/ RouteBegun(cabling'.now, cabling'.known, cabling'.worker)
      BY <2>1, StartFacts DEF WorkerKept
    <2> QED BY <1>0, <2>1, <2>2, WorkerStepSound
  <1>3. CASE ActivatePreset
    <2>1. PICK k \in DOMAIN cabling.presets : cabling' = UsesPreset(cabling, k)
      BY <1>3 DEF ActivatePreset, CableStep
    <2>2. RestTyped
      BY <1>3 DEF ActivatePreset, CableStep
    <2>3. /\ cabling' \in CableStates
          /\ \/ WorkerKept \/ VolumeSent(cabling, cabling'.now, cabling'.worker)
             \/ RouteBegun(cabling'.now, cabling'.known, cabling'.worker)
      BY <2>1, PresetFacts DEF WorkerKept
    <2> QED BY <1>0, <2>2, <2>3, WorkerStepSound
  <1>4. CASE KeepPreset
    <2>1. PICK k \in 1..Len(cabling.presets) + 1 : Saves(SavesPreset(cabling, k))
      BY <1>4 DEF KeepPreset
    <2> DEFINE r == SavesPreset(cabling, k)
    <2>2. /\ r \in CableStates /\ r.worker = cabling.worker
          /\ [now |-> r.now, presets |-> r.presets] \in CablePapers
      BY SavedPresets
    <2> HIDE DEF r
    <2>3. cabling' = r /\ paper' = [now |-> r.now, presets |-> r.presets] /\ UNCHANGED devices
      BY <2>1 DEF Saves, r
    <2>4. WorkerKept
      BY <2>2, <2>3 DEF WorkerKept
    <2> QED BY <1>0, <2>2, <2>3, <2>4, WorkerStepSound
  <1>5. CASE RemovePreset
    <2>1. PICK k \in DOMAIN cabling.presets : Saves([cabling EXCEPT !.presets = RemoveAt(@, k)])
      BY <1>5 DEF RemovePreset
    <2> DEFINE presets == RemoveAt(cabling.presets, k)
               r == [cabling EXCEPT !.presets = presets]
    <2>2. presets \in Seq(CableSettings)
      BY RemovedPresets
    <2>3. Saves(r)
      BY <2>1
    <2> HIDE DEF presets
    <2>4. /\ r \in CableStates /\ r.worker = cabling.worker
          /\ [now |-> r.now, presets |-> r.presets] \in CablePapers
      BY <2>2, WithPresets
    <2> HIDE DEF r
    <2>5. cabling' = r /\ paper' = [now |-> r.now, presets |-> r.presets] /\ UNCHANGED devices
      BY <2>3 DEF Saves
    <2>6. WorkerKept
      BY <2>4, <2>5 DEF WorkerKept
    <2> QED BY <1>0, <2>4, <2>5, <2>6, WorkerStepSound
  <1>6. CASE PickCable \/ PickOutput \/ UsePair
    <2>1. cabling.now \in CableSettings
      BY DEF CableStates
    <2>2. \E now \in CableSettings : Tunes(now)
      <3>1. CASE PickCable
        <4>1. PICK cable \in cabling.cables : Tunes([cabling.now EXCEPT !.cable = cable])
          BY <3>1 DEF PickCable
        <4>2. cable \in Cables
          BY DEF CableStates
        <4>3. [cabling.now EXCEPT !.cable = cable] \in CableSettings
          BY <2>1, <4>2 DEF CableSettings
        <4> QED BY <4>1, <4>3
      <3>2. CASE PickOutput
        <4>1. PICK output \in cabling.known.playback : Tunes([cabling.now EXCEPT !.output = output])
          BY <3>2 DEF PickOutput
        <4>2. output \in Playbacks
          BY DEF CableStates, Listings
        <4>3. [cabling.now EXCEPT !.output = output] \in CableSettings
          BY <2>1, <4>2 DEF CableSettings
        <4> QED BY <4>1, <4>3
      <3>3. CASE UsePair
        <4>1. PICK playback \in Playbacks, capture \in Captures :
                Tunes([cabling.now EXCEPT !.cable =
                         [playback |-> playback, capture |-> capture, manual |-> TRUE]])
          BY <3>3 DEF UsePair
        <4> DEFINE cable == [playback |-> playback, capture |-> capture, manual |-> TRUE]
        <4>2. cable \in Cables
          BY DEF Cables
        <4> HIDE DEF cable
        <4>3. [cabling.now EXCEPT !.cable = cable] \in CableSettings
          BY <2>1, <4>2 DEF CableSettings
        <4>4. Tunes([cabling.now EXCEPT !.cable = cable])
          BY <4>1 DEF cable
        <4> QED BY <4>3, <4>4
      <3> QED BY <1>6, <3>1, <3>2, <3>3
    <2>3. PICK now \in CableSettings : cabling' = [cabling EXCEPT !.now = now] /\ RestTyped
      BY <2>2 DEF Tunes
    <2>4. cabling' \in CableStates /\ WorkerKept
      BY <2>3, WithNow DEF WorkerKept
    <2> QED BY <1>0, <2>3, <2>4, WorkerStepSound
  <1>7. CASE SlideVolume
    <2>1. PICK volume \in Volumes : cabling' = AppliesVolume([cabling EXCEPT !.now.volume = volume])
      BY <1>7 DEF SlideVolume
    <2>2. RestTyped
      BY <1>7 DEF SlideVolume
    <2> DEFINE now == [cabling.now EXCEPT !.volume = volume]
               c == [cabling EXCEPT !.now = now]
    <2>3. now \in CableSettings
      BY DEF CableStates, CableSettings
    <2>4. cabling' = AppliesVolume(c)
      BY <2>1
    <2> HIDE DEF now
    <2>5. c \in CableStates /\ c.worker = cabling.worker
      BY <2>3, WithNow
    <2> HIDE DEF c
    <2>6. /\ cabling' \in CableStates
          /\ WorkerKept \/ VolumeSent(cabling, cabling'.now, cabling'.worker)
      BY <2>4, <2>5, VolumeFacts DEF WorkerKept, VolumeSent
    <2> QED BY <1>0, <2>2, <2>6, WorkerStepSound
  <1>8. CASE StopListening \/ RouteEnds
    <2> DEFINE told == [cabling.worker EXCEPT !.stopped = TRUE]
               ended == [cabling.worker EXCEPT !.ended = TRUE]
    <2>1. cabling.worker # Unset /\ cabling.worker \in CableWorkers
      BY <1>8 DEF StopListening, RouteEnds, CableStates
    <2>2. \A w \in {told, ended} : /\ w \in CableWorkers /\ w.route = cabling.worker.route
                                   /\ w.volume = cabling.worker.volume
      BY <2>1 DEF CableWorkers
    <2>3. cabling' = [cabling EXCEPT !.worker = told] \/ cabling' = [cabling EXCEPT !.worker = ended]
      BY <1>8 DEF StopListening, RouteEnds, CableStep
    <2>4. RestTyped
      BY <1>8 DEF StopListening, RouteEnds, CableStep
    <2> HIDE DEF told, ended
    <2>5. cabling' \in CableStates /\ cabling'.worker \in {told, ended}
      <3>1. PICK w \in {told, ended} : cabling' = [cabling EXCEPT !.worker = w]
        BY <2>3
      <3>2. cabling \in CableStates /\ w \in CableWorkers \cup {Unset}
        BY <2>2
      <3>3. cabling' \in CableStates /\ cabling'.worker = w
        BY <3>1, <3>2, WithWorker
      <3> QED BY <3>3
    <2>6. WorkerMarked
      BY <2>1, <2>2, <2>5, CableAssumption DEF WorkerMarked
    <2> QED BY <1>0, <2>4, <2>5, <2>6, WorkerStepSound
  <1>9. CASE RefreshEndpoints \/ EndpointsArrive
    <2>1. \E pending \in [asked : BOOLEAN, found : Listings \cup {Unset}] :
            cabling' = [cabling EXCEPT !.pending = pending]
      <3>1. CASE RefreshEndpoints
        BY <3>1 DEF RefreshEndpoints, CableStep, Awaiting
      <3>2. CASE EndpointsArrive
        <4>1. PICK found \in {devices, Unknown} : cabling' = [cabling EXCEPT !.pending.found = found]
          BY <3>2 DEF EndpointsArrive, CableStep
        <4> DEFINE pending == [cabling.pending EXCEPT !.found = found]
        <4>2. found \in Listings
          BY DEF Unknown, Listings
        <4>3. pending \in [asked : BOOLEAN, found : Listings \cup {Unset}]
          BY <4>2 DEF CableStates
        <4>4. cabling' = [cabling EXCEPT !.pending = pending]
          BY <4>1
        <4> QED BY <4>3, <4>4
      <3> QED BY <1>9, <3>1, <3>2
    <2>2. RestTyped
      BY <1>9 DEF RefreshEndpoints, EndpointsArrive, CableStep
    <2>3. cabling' \in CableStates /\ WorkerKept
      BY <2>1, WithPending DEF WorkerKept
    <2> QED BY <1>0, <2>2, <2>3, WorkerStepSound
  <1>10. CASE DevicesChange
    <2>1. PICK lost \in devices.playback \cup devices.capture, output \in devices.playback :
            devices' = [playback |-> devices.playback \ {lost},
                        capture |-> devices.capture \ {lost}, default |-> output]
      BY <1>10 DEF DevicesChange
    <2>2. devices' \in Listings
      BY <2>1 DEF Listings
    <2>3. UNCHANGED <<cabling, paper>>
      BY <1>10 DEF DevicesChange
    <2> QED BY <1>0, <2>2, <2>3, WorkerStepSound DEF WorkerKept
  <1>11. CASE ReopenCable
    <2>1. cabling' = OpenedCable /\ RestTyped
      BY <1>11 DEF ReopenCable, CableStep
    <2>2. cabling' \in CableStates
      BY <2>1, OpenedTyped
    <2>3. cabling'.worker = Unset
      BY <2>1 DEF OpenedCable
    <2>4. RouteGivenUp
      BY <2>1, <2>3 DEF RouteGivenUp, Plays
    <2> QED BY <1>0, <2>1, <2>2, <2>4
  <1> QED BY <1>1, <1>2, <1>3, <1>4, <1>5, <1>6, <1>7, <1>8, <1>9, <1>10, <1>11 DEF CableNext

\* A route that plays is given up only for another one that can be heard, and what plays
\* after a click is what is selected (CablePanel's start, activate and set_volume).
THEOREM RoutesAreKeptOrReplaced == CableSpec => RouteKeptOrReplaced
  <1>1. CableTypes /\ [CableNext]_cableVars => CableTypes'
    <2> SUFFICES ASSUME CableTypes, [CableNext]_cableVars PROVE CableTypes'
      OBVIOUS
    <2>1. CASE CableNext
      BY <2>1, CableKeeps
    <2>2. CASE UNCHANGED cableVars
      BY <2>2 DEF cableVars, CableTypes
    <2> QED BY <2>1, <2>2
  <1>2. CableTypes /\ [CableNext]_cableVars => [RouteGivenUp]_cabling
    BY CableKeeps DEF cableVars
  <1> HIDE DEF RouteGivenUp
  <1>3. CableSpec => [][RouteGivenUp]_cabling
    BY <1>1, <1>2, CableStart, PTL DEF CableSpec
  <1> QED BY <1>3 DEF RouteKeptOrReplaced

-----------------------------------------------------------------------------
(* The control panel.                                                         *)

ControlSpec == ControlInit /\ [][ControlNext]_controlVars

Slots(S) == [with : S \cup {Nil}, gone : BOOLEAN, exit : BOOLEAN]
SoundLists == [outputs : SUBSET Outputs, default : Outputs \cup {Nil}]
Lookups ==
    {NoLookup} \cup
    [asked : {TRUE}, found : {Nil} \cup [sound : SoundLists, screens : SUBSET Screens]]
PanelStates ==
    [setup : PanelSettings, book : PanelBooks, picked : Nat \cup {Nil}, confirming : BOOLEAN,
     router : Slots(AudioSettings), mirrors : Seq(Slots(RowSettings)),
     sound : SoundLists, screens : SUBSET Screens, lookup : Lookups]
Systems == [default : Outputs, screens : SUBSET Screens, kills : BOOLEAN]

ShownAs(slot, settings) == Living(slot) => slot.with = settings /\ ~slot.exit
RowsSound(mirrors, rows) ==
    /\ Len(mirrors) = Len(rows)
    /\ \A k \in 1..Len(mirrors) : ShownAs(mirrors[k], rows[k])
RouterSound(router, audio) == ShownAs(router, audio) /\ (Living(router) => audio.on)

\* A state that shows what runs; the route is only run where it is enabled.
PanelSound(s) ==
    /\ s \in PanelStates
    /\ RouterSound(s.router, s.setup.audio)
    /\ RowsSound(s.mirrors, s.setup.rows)
    /\ s.picked # Nil => s.picked \in DOMAIN s.book.presets

\* The file is what the panel has saved.
ControlSound ==
    /\ PanelSound(panel) /\ system \in Systems
    /\ file \in PanelBooks \cup {Nil}
    /\ file # Nil => file = panel.book

LEMMA FunctionIsSeq ==
    ASSUME NEW S, NEW n \in Nat, NEW f \in [1..n -> S]
    PROVE  f \in Seq(S) /\ Len(f) = n
  OBVIOUS

LEMMA SeqIsFunction ==
    ASSUME NEW S, NEW q \in Seq(S)
    PROVE  Len(q) \in Nat /\ DOMAIN q = 1..Len(q) /\ q \in [1..Len(q) -> S]
  OBVIOUS

-----------------------------------------------------------------------------
(* Children.                                                                  *)

LEMMA RestingFacts ==
    ASSUME NEW S
    PROVE  Resting \in Slots(S) /\ ~Living(Resting)
  BY DEF Resting, Slots, Living

LEMMA StartedFacts ==
    ASSUME NEW S, NEW slot \in Slots(S), NEW settings \in S
    PROVE  LET r == Started(slot, settings) IN
           r \in Slots(S) /\ r.with = settings /\ ~r.gone /\ ~r.exit
  BY DEF Started, Slots

LEMMA HaltedFacts ==
    ASSUME NEW slot
    PROVE  /\ Halted(slot) = slot \/ Halted(slot) = Resting
           /\ system.kills => Halted(slot) = Resting
           /\ Living(slot) /\ ~slot.gone /\ ~system.kills => Halted(slot) = slot
  BY DEF Halted

\* What a poll makes of a child: as it was, or ended.
After(o, slot) == (o.with = slot.with /\ o.gone = slot.gone) \/ (~Living(o) /\ slot.gone)

LEMMA ObservedFacts ==
    ASSUME NEW S, NEW slot \in Slots(S), NEW o \in Observed(slot)
    PROVE  /\ o \in Slots(S) /\ After(o, slot)
           /\ o.with = slot.with \/ ~Living(o)
           /\ ~slot.exit => ~o.exit \/ ~Living(o)
  <1> DEFINE ended == [Resting EXCEPT !.exit = TRUE]
  <1>1. ended \in Slots(S) /\ ~Living(ended)
    BY DEF Resting, Slots, Living
  <1>2. PICK s \in IF slot.gone THEN {slot, ended} ELSE {slot} :
          o = s \/ o = [s EXCEPT !.exit = FALSE]
    BY DEF Observed
  <1> HIDE DEF ended
  <1>3. s \in Slots(S)
    BY <1>1, <1>2
  <1>4. o \in Slots(S) /\ o.with = s.with /\ o.gone = s.gone /\ (o.exit => s.exit)
    BY <1>2, <1>3 DEF Slots
  <1>5. s = slot \/ (s = ended /\ slot.gone)
    BY <1>2
  <1>6. CASE s = slot
    BY <1>4, <1>6 DEF After
  <1>7. CASE s = ended /\ slot.gone
    <2>1. ~Living(o)
      BY <1>1, <1>4, <1>7 DEF Living
    <2> QED BY <1>4, <1>7, <2>1 DEF After
  <1> QED BY <1>5, <1>6, <1>7

LEMMA AfterFacts ==
    ASSUME NEW o, NEW slot, After(o, slot)
    PROVE  /\ Living(o) => Living(slot) /\ o.with = slot.with
           /\ Living(slot) /\ ~Living(o) => slot.gone
  BY DEF After, Living

LEMMA ObservedShown ==
    ASSUME NEW S, NEW slot \in Slots(S), NEW o \in Observed(slot), NEW settings,
           ShownAs(slot, settings)
    PROVE  ShownAs(o, settings)
  BY ObservedFacts, AfterFacts DEF ShownAs

\* The panel with its children in another state.
LEMMA WithChildren ==
    ASSUME NEW s \in PanelStates, NEW router \in Slots(AudioSettings),
           NEW mirrors \in [DOMAIN s.mirrors -> Slots(RowSettings)],
           s.picked # Nil => s.picked \in DOMAIN s.book.presets,
           RouterSound(router, s.setup.audio),
           Len(s.mirrors) = Len(s.setup.rows),
           \A k \in DOMAIN s.mirrors : ShownAs(mirrors[k], s.setup.rows[k])
    PROVE  LET r == Running(s, router, mirrors) IN
           /\ PanelSound(r) /\ r.router = router /\ r.mirrors = mirrors
           /\ r.setup = s.setup /\ r.book = s.book /\ r.sound = s.sound
           /\ r.lookup = s.lookup /\ r.picked = s.picked /\ DOMAIN r.mirrors = DOMAIN s.mirrors
  <1> DEFINE r == Running(s, router, mirrors)
  <1>1. s.mirrors \in Seq(Slots(RowSettings))
    BY DEF PanelStates
  <1>2. Len(s.mirrors) \in Nat /\ DOMAIN s.mirrors = 1..Len(s.mirrors)
    BY <1>1, SeqIsFunction
  <1>3. mirrors \in Seq(Slots(RowSettings)) /\ Len(mirrors) = Len(s.mirrors)
    BY <1>2, FunctionIsSeq
  <1>4. /\ r \in PanelStates /\ r.router = router /\ r.mirrors = mirrors
        /\ r.setup = s.setup /\ r.book = s.book /\ r.sound = s.sound
        /\ r.lookup = s.lookup /\ r.picked = s.picked
    BY <1>3 DEF PanelStates, Running
  <1>5. DOMAIN mirrors = DOMAIN s.mirrors
    OBVIOUS
  <1> HIDE DEF r
  <1>6. PanelSound(r)
    BY <1>2, <1>3, <1>4 DEF PanelSound, RowsSound
  <1> QED BY <1>4, <1>5, <1>6 DEF r

\* What is used of a sound state.
LEMMA PanelFacts ==
    ASSUME NEW s, PanelSound(s)
    PROVE  /\ s \in PanelStates /\ s.setup \in PanelSettings /\ s.book \in PanelBooks
           /\ s.setup.audio \in AudioSettings /\ s.setup.rows \in Seq(RowSettings)
           /\ s.router \in Slots(AudioSettings)
           /\ s.mirrors \in Seq(Slots(RowSettings))
           /\ Len(s.mirrors) \in Nat /\ DOMAIN s.mirrors = 1..Len(s.mirrors)
           /\ Len(s.mirrors) = Len(s.setup.rows) /\ DOMAIN s.setup.rows = DOMAIN s.mirrors
           /\ \A k \in DOMAIN s.mirrors :
                /\ s.mirrors[k] \in Slots(RowSettings) /\ s.setup.rows[k] \in RowSettings
                /\ ShownAs(s.mirrors[k], s.setup.rows[k])
           /\ RouterSound(s.router, s.setup.audio)
           /\ s.picked # Nil => s.picked \in DOMAIN s.book.presets
  <1>1. /\ s \in PanelStates /\ s.setup \in PanelSettings /\ s.book \in PanelBooks
        /\ s.router \in Slots(AudioSettings) /\ s.mirrors \in Seq(Slots(RowSettings))
    BY DEF PanelSound, PanelStates
  <1>2. s.setup.audio \in AudioSettings /\ s.setup.rows \in Seq(RowSettings)
    BY <1>1 DEF PanelSettings
  <1>3. /\ Len(s.mirrors) \in Nat /\ DOMAIN s.mirrors = 1..Len(s.mirrors)
        /\ s.mirrors \in [1..Len(s.mirrors) -> Slots(RowSettings)]
        /\ DOMAIN s.setup.rows = 1..Len(s.setup.rows)
        /\ s.setup.rows \in [1..Len(s.setup.rows) -> RowSettings]
    BY <1>1, <1>2, SeqIsFunction
  <1>4. /\ Len(s.mirrors) = Len(s.setup.rows)
        /\ \A k \in 1..Len(s.mirrors) : ShownAs(s.mirrors[k], s.setup.rows[k])
        /\ RouterSound(s.router, s.setup.audio)
        /\ s.picked # Nil => s.picked \in DOMAIN s.book.presets
    BY DEF PanelSound, RowsSound
  <1> QED BY <1>1, <1>2, <1>3, <1>4

-----------------------------------------------------------------------------
(* Operations of the panel that begin nothing.                                *)

Quiet(s) == ~Living(s.router) /\ \A k \in DOMAIN s.mirrors : ~Living(s.mirrors[k])

LEMMA QuietFacts == ASSUME NEW s PROVE Quiet(s) <=> ~SomethingRuns(s)
  BY DEF Quiet, SomethingRuns

LEMMA StoredFacts ==
    ASSUME NEW s \in PanelStates, NEW book \in PanelBooks, NEW t \in Stored(s, book)
    PROVE  /\ t \in PanelStates /\ t.book = book /\ file # Nil
           /\ t.setup = s.setup /\ t.router = s.router /\ t.mirrors = s.mirrors
           /\ t.sound = s.sound /\ t.screens = s.screens /\ t.lookup = s.lookup
           /\ t.picked = s.picked
  <1>1. t = [s EXCEPT !.book = book] /\ file # Nil
    BY DEF Stored
  <1> QED BY <1>1 DEF PanelStates

LEMMA BookFacts ==
    ASSUME NEW book \in PanelBooks
    PROVE  /\ book.presets \in Seq(PanelSettings) /\ Len(book.presets) \in Nat
           /\ DOMAIN book.presets = 1..Len(book.presets) /\ book.last \in PanelSettings
           /\ \A k \in DOMAIN book.presets : book.presets[k] \in PanelSettings
  <1>1. book.presets \in Seq(PanelSettings) /\ book.last \in PanelSettings
    BY DEF PanelBooks
  <1> QED BY <1>1, SeqIsFunction, ElementOfSeq

LEMMA SavesCurrentFacts ==
    ASSUME NEW s, PanelSound(s), NEW t \in SavesCurrent(s)
    PROVE  /\ PanelSound(t) /\ file # Nil /\ t.book.last = t.setup
           /\ t.setup = s.setup /\ t.router = s.router /\ t.mirrors = s.mirrors
           /\ t.sound = s.sound /\ t.screens = s.screens /\ t.lookup = s.lookup
           /\ Validated(s.setup)
  <1> DEFINE book == [s.book EXCEPT !.last = s.setup]
  <1>1. s \in PanelStates /\ s.book \in PanelBooks /\ s.setup \in PanelSettings
    BY PanelFacts
  <1>2. book \in PanelBooks /\ book.last = s.setup /\ book.presets = s.book.presets
    BY <1>1 DEF PanelBooks
  <1>3. t \in Stored(s, book) /\ Validated(s.setup)
    BY DEF SavesCurrent
  <1> HIDE DEF book
  <1>4. /\ t \in PanelStates /\ t.book = book /\ file # Nil
        /\ t.setup = s.setup /\ t.router = s.router /\ t.mirrors = s.mirrors
        /\ t.sound = s.sound /\ t.screens = s.screens /\ t.lookup = s.lookup
        /\ t.picked = s.picked
    BY <1>1, <1>2, <1>3, StoredFacts
  <1> QED BY <1>2, <1>3, <1>4 DEF PanelSound

LEMMA UpdatesPresetFacts ==
    ASSUME NEW s, PanelSound(s), NEW k \in DOMAIN s.book.presets, NEW t \in UpdatesPreset(s, k)
    PROVE  PanelSound(t) /\ t.router = s.router /\ t.mirrors = s.mirrors
  <1> DEFINE presets == [s.book.presets EXCEPT ![k] = s.setup]
             book == [last |-> s.setup, presets |-> presets]
  <1>1. s \in PanelStates /\ s.book \in PanelBooks /\ s.setup \in PanelSettings
    BY PanelFacts
  <1>2. presets \in Seq(PanelSettings) /\ DOMAIN presets = DOMAIN s.book.presets
    BY <1>1, BookFacts, ExceptSeq
  <1>3. t \in Stored(s, book)
    BY DEF UpdatesPreset
  <1> HIDE DEF presets
  <1>4. book \in PanelBooks /\ book.presets = presets
    BY <1>1, <1>2 DEF PanelBooks
  <1> HIDE DEF book
  <1>5. /\ t \in PanelStates /\ t.book = book
        /\ t.setup = s.setup /\ t.router = s.router /\ t.mirrors = s.mirrors
        /\ t.picked = s.picked
    BY <1>1, <1>3, <1>4, StoredFacts
  <1> QED BY <1>2, <1>4, <1>5 DEF PanelSound

LEMMA AddsPresetFacts ==
    ASSUME NEW s, PanelSound(s), NEW t \in AddsPreset(s)
    PROVE  PanelSound(t) /\ t.router = s.router /\ t.mirrors = s.mirrors
  <1> DEFINE presets == Append(s.book.presets, s.setup)
             after == [s EXCEPT !.picked = Len(presets)]
             book == [last |-> s.setup, presets |-> presets]
  <1>1. s \in PanelStates /\ s.book \in PanelBooks /\ s.setup \in PanelSettings
    BY PanelFacts
  <1>2. presets \in Seq(PanelSettings) /\ Len(presets) = Len(s.book.presets) + 1
    BY <1>1, BookFacts, AppendProperties
  <1>3. Len(presets) \in Nat /\ Len(presets) \in DOMAIN presets
    BY <1>1, <1>2, BookFacts, SeqIsFunction
  <1>4. t \in Stored(after, book)
    BY DEF AddsPreset
  <1> HIDE DEF presets
  <1>5. book \in PanelBooks /\ book.presets = presets
    BY <1>1, <1>2 DEF PanelBooks
  <1>6. /\ after \in PanelStates /\ after.picked = Len(presets)
        /\ after.setup = s.setup /\ after.router = s.router /\ after.mirrors = s.mirrors
    BY <1>1, <1>3 DEF PanelStates
  <1> HIDE DEF book, after
  <1>7. /\ t \in PanelStates /\ t.book = book
        /\ t.setup = s.setup /\ t.router = s.router /\ t.mirrors = s.mirrors
        /\ t.picked = Len(presets)
    BY <1>4, <1>5, <1>6, StoredFacts
  <1> QED BY <1>3, <1>5, <1>7 DEF PanelSound

LEMMA DeletesPresetFacts ==
    ASSUME NEW s, PanelSound(s), NEW k \in DOMAIN s.book.presets, NEW t \in DeletesPreset(s, k)
    PROVE  PanelSound(t) /\ t.router = s.router /\ t.mirrors = s.mirrors
  <1> DEFINE presets == RemoveAt(s.book.presets, k)
             after == [s EXCEPT !.picked = Nil, !.confirming = FALSE]
             book == [s.book EXCEPT !.presets = presets]
  <1>1. s \in PanelStates /\ s.book \in PanelBooks
    BY PanelFacts
  <1>2. presets \in Seq(PanelSettings)
    <2> DEFINE all == s.book.presets
    <2>1. all \in Seq(PanelSettings) /\ Len(all) \in Nat /\ k \in 1..Len(all)
          /\ \A i \in 1..Len(all) : all[i] \in PanelSettings
      BY <1>1, BookFacts
    <2>2. SubSeq(all, 1, k - 1) \in Seq(PanelSettings)
      BY <2>1, SubSeqProperties
    <2>3. SubSeq(all, k + 1, Len(all)) \in Seq(PanelSettings)
      BY <2>1, SubSeqProperties
    <2> QED BY <2>2, <2>3, ConcatProperties DEF RemoveAt
  <1>3. t \in Stored(after, book)
    BY DEF DeletesPreset
  <1> HIDE DEF presets
  <1>4. book \in PanelBooks
    BY <1>1, <1>2 DEF PanelBooks
  <1>5. /\ after \in PanelStates /\ after.picked = Nil
        /\ after.setup = s.setup /\ after.router = s.router /\ after.mirrors = s.mirrors
    BY <1>1 DEF PanelStates
  <1> HIDE DEF book, after
  <1>6. /\ t \in PanelStates /\ t.setup = s.setup /\ t.router = s.router
        /\ t.mirrors = s.mirrors /\ t.picked = Nil
    BY <1>3, <1>4, <1>5, StoredFacts
  <1> QED BY <1>6 DEF PanelSound

LEMMA RestingRows ==
    ASSUME NEW rows \in Seq(RowSettings)
    PROVE  LET mirrors == [k \in DOMAIN rows |-> Resting] IN
           /\ mirrors \in Seq(Slots(RowSettings)) /\ RowsSound(mirrors, rows)
           /\ \A k \in DOMAIN mirrors : ~Living(mirrors[k])
  <1> DEFINE mirrors == [k \in DOMAIN rows |-> Resting]
  <1>1. Len(rows) \in Nat /\ DOMAIN rows = 1..Len(rows)
    BY SeqIsFunction
  <1>2. mirrors \in [1..Len(rows) -> Slots(RowSettings)]
    BY <1>1, RestingFacts
  <1>3. mirrors \in Seq(Slots(RowSettings)) /\ Len(mirrors) = Len(rows)
    BY <1>1, <1>2, FunctionIsSeq
  <1>4. \A k \in DOMAIN rows : mirrors[k] = Resting /\ ~Living(mirrors[k])
    BY RestingFacts
  <1> HIDE DEF mirrors
  <1>5. DOMAIN mirrors = DOMAIN rows
    BY DEF mirrors
  <1>6. \A k \in 1..Len(mirrors) : ShownAs(mirrors[k], rows[k])
    BY <1>1, <1>3, <1>4 DEF ShownAs
  <1> QED BY <1>3, <1>4, <1>5, <1>6 DEF RowsSound, mirrors

LEMMA LoadsPresetFacts ==
    ASSUME NEW s, PanelSound(s), NEW k \in DOMAIN s.book.presets, NEW t \in LoadsPreset(s, k)
    PROVE  PanelSound(t) /\ Quiet(s) /\ Quiet(t) /\ t.lookup = s.lookup
  <1> DEFINE settings == s.book.presets[k]
             mirrors == [row \in DOMAIN settings.rows |-> Resting]
             after == [s EXCEPT !.setup = settings, !.mirrors = mirrors]
             book == [s.book EXCEPT !.last = settings]
  <1>1. /\ s \in PanelStates /\ s.book \in PanelBooks
        /\ s.picked # Nil => s.picked \in DOMAIN s.book.presets
    BY PanelFacts
  <1>2. t \in Stored(after, book) /\ ~SomethingRuns(s)
    BY DEF LoadsPreset
  <1>3. settings \in PanelSettings
    BY <1>1, BookFacts
  <1> HIDE DEF settings
  <1>4. settings.rows \in Seq(RowSettings)
    BY <1>3 DEF PanelSettings
  <1>5. /\ mirrors \in Seq(Slots(RowSettings)) /\ RowsSound(mirrors, settings.rows)
        /\ \A row \in DOMAIN mirrors : ~Living(mirrors[row])
    BY <1>4, RestingRows
  <1> HIDE DEF mirrors
  <1>6. book \in PanelBooks /\ book.presets = s.book.presets
    BY <1>1, <1>3 DEF PanelBooks
  <1>7. /\ after \in PanelStates /\ after.setup = settings /\ after.mirrors = mirrors
        /\ after.router = s.router /\ after.picked = s.picked /\ after.lookup = s.lookup
    BY <1>1, <1>3, <1>5 DEF PanelStates
  <1> HIDE DEF book, after
  <1>8. /\ t \in PanelStates /\ t.book = book /\ t.setup = settings /\ t.mirrors = mirrors
        /\ t.router = s.router /\ t.picked = s.picked /\ t.lookup = s.lookup
    BY <1>2, <1>6, <1>7, StoredFacts
  <1>9. Quiet(s)
    BY <1>2, QuietFacts
  <1>10. Quiet(t)
    BY <1>5, <1>8, <1>9 DEF Quiet
  <1>11. RouterSound(t.router, t.setup.audio)
    BY <1>10 DEF Quiet, RouterSound, ShownAs
  <1> QED BY <1>1, <1>5, <1>6, <1>8, <1>9, <1>10, <1>11 DEF PanelSound

LEMMA OpenedSound ==
    ASSUME NEW found \in PanelBooks \cup {Nil}
    PROVE  /\ PanelSound(Opened(found)) /\ Quiet(Opened(found))
           /\ found # Nil => Opened(found).book = found
  <1> DEFINE book == IF found = Nil THEN [last |-> FirstSettings, presets |-> <<>>] ELSE found
             mirrors == [k \in DOMAIN book.last.rows |-> Resting]
             picked == FirstWith(book.presets, book.last)
             r == Opened(found)
  <1>1. book \in PanelBooks
    <2>1. FirstSettings.rows \in Seq(RowSettings)
      <3>1. [on |-> FALSE, screen |-> Nil] \in RowSettings
        BY DEF RowSettings
      <3> QED BY <3>1 DEF FirstSettings
    <2>2. FirstSettings.audio \in AudioSettings
      BY DEF FirstSettings, AudioSettings, Selectors
    <2>3. FirstSettings = [audio |-> FirstSettings.audio, rows |-> FirstSettings.rows]
      BY DEF FirstSettings
    <2>4. FirstSettings \in PanelSettings
      BY <2>1, <2>2, <2>3 DEF PanelSettings
    <2>5. <<>> \in Seq(PanelSettings)
      OBVIOUS
    <2>6. [last |-> FirstSettings, presets |-> <<>>] \in PanelBooks
      BY <2>4, <2>5 DEF PanelBooks
    <2> QED BY <2>6
  <1>2. /\ r.setup = book.last /\ r.book = book /\ r.picked = picked /\ r.router = Resting
        /\ r.mirrors = mirrors
        /\ r = [setup |-> book.last, book |-> book, picked |-> picked, confirming |-> FALSE,
                router |-> Resting, mirrors |-> mirrors,
                sound |-> [outputs |-> {}, default |-> Nil], screens |-> {}, lookup |-> NewLookup]
    BY DEF Opened
  <1>3. found # Nil => book = found
    OBVIOUS
  <1> HIDE DEF book, r
  <1>4. book.last \in PanelSettings /\ DOMAIN book.presets \subseteq Nat
    BY <1>1, BookFacts
  <1>5. book.last.rows \in Seq(RowSettings)
    BY <1>4 DEF PanelSettings
  <1>6. /\ mirrors \in Seq(Slots(RowSettings)) /\ RowsSound(mirrors, book.last.rows)
        /\ \A k \in DOMAIN mirrors : ~Living(mirrors[k])
    BY <1>5, RestingRows
  <1> HIDE DEF mirrors
  <1>7. picked = Nil \/ picked \in DOMAIN book.presets
    <2> DEFINE same == {k \in DOMAIN book.presets : book.presets[k] = book.last}
    <2>1. same \subseteq DOMAIN book.presets /\ same \subseteq Nat
      BY <1>4
    <2>2. picked = IF same = {} THEN Nil ELSE CHOOSE k \in same : \A other \in same : k <= other
      BY DEF FirstWith
    <2> HIDE DEF same, picked
    <2>3. CASE same # {}
      <3>1. \E k \in same : \A other \in same : k <= other
        BY ONLY <2>1, <2>3, Least
      <3> QED BY <2>1, <2>2, <2>3, <3>1
    <2> QED BY <2>2, <2>3
  <1> HIDE DEF picked
  <1>8. /\ Resting \in Slots(AudioSettings) /\ ~Living(Resting)
        /\ [outputs |-> {}, default |-> Nil] \in SoundLists /\ NewLookup \in Lookups
    BY RestingFacts DEF SoundLists, Lookups, NewLookup
  <1>9. r \in PanelStates
    BY <1>1, <1>2, <1>4, <1>6, <1>7, <1>8 DEF PanelStates
  <1>10. Quiet(r)
    BY <1>2, <1>6, <1>8 DEF Quiet
  <1>11. PanelSound(r)
    BY <1>2, <1>6, <1>7, <1>8, <1>9 DEF PanelSound, RouterSound, ShownAs
  <1> QED BY <1>2, <1>3, <1>10, <1>11 DEF r

-----------------------------------------------------------------------------
(* Polls.                                                                     *)

LEMMA LookupFacts ==
    ASSUME NEW s \in PanelStates
    PROVE  /\ s.lookup.found = Nil \/ s.lookup.found \in [sound : SoundLists, screens : SUBSET Screens]
           /\ ~s.lookup.asked => s.lookup.found = Nil
  <1>1. s.lookup \in Lookups
    BY DEF PanelStates
  <1>2. CASE s.lookup = NoLookup
    BY <1>2 DEF NoLookup
  <1>3. CASE s.lookup \in [asked : {TRUE}, found : {Nil} \cup [sound : SoundLists, screens : SUBSET Screens]]
    BY <1>3
  <1> QED BY <1>1, <1>2, <1>3 DEF Lookups

\* The panel with what a listing found, or as it was.
LEMMA TakenFacts ==
    ASSUME NEW s \in PanelStates
    PROVE  LET r == ListingTaken(s) IN
           /\ r \in PanelStates /\ r.setup = s.setup /\ r.book = s.book
           /\ r.router = s.router /\ r.mirrors = s.mirrors /\ r.picked = s.picked
  <1> DEFINE sound == s.lookup.found.sound
             screens == s.lookup.found.screens
  <1>1. CASE s.lookup.found = Nil
    BY <1>1 DEF ListingTaken
  <1>2. CASE s.lookup.found # Nil
    <2>1. sound \in SoundLists /\ screens \in SUBSET Screens /\ NoLookup \in Lookups
      BY <1>2, LookupFacts DEF Lookups
    <2>2. ListingTaken(s) = [s EXCEPT !.sound = sound, !.screens = screens, !.lookup = NoLookup]
      BY <1>2 DEF ListingTaken
    <2> HIDE DEF sound, screens
    <2> DEFINE r == [s EXCEPT !.sound = sound, !.screens = screens, !.lookup = NoLookup]
    <2>3. /\ r \in PanelStates /\ r.setup = s.setup /\ r.book = s.book
          /\ r.router = s.router /\ r.mirrors = s.mirrors /\ r.picked = s.picked
      BY <2>1 DEF PanelStates
    <2> QED BY <2>2, <2>3
  <1> QED BY <1>1, <1>2

\* What a poll leaves: the children as they were, or ended.
Watches(s, t) ==
    /\ PanelSound(t) /\ t.setup = s.setup /\ t.book = s.book
    /\ DOMAIN t.mirrors = DOMAIN s.mirrors
    /\ \A k \in DOMAIN s.mirrors : After(t.mirrors[k], s.mirrors[k])
    /\ After(t.router, s.router)

LEMMA PollFacts ==
    ASSUME NEW s, PanelSound(s), NEW t \in Polls(s)
    PROVE  /\ Watches(s, t)
           /\ ~s.lookup.asked => t.lookup = s.lookup /\ t.sound = s.sound
  <1> DEFINE taken == ListingTaken(s)
             rows == DOMAIN s.mirrors
             polled == {noted \in [rows -> UNION {Observed(s.mirrors[k]) : k \in rows}] :
                           \A k \in rows : noted[k] \in Observed(s.mirrors[k])}
  <1>1. PICK router \in Observed(s.router), mirrors \in polled :
          t = Running(taken, router, mirrors)
    <2>1. t \in {Running(taken, router, mirrors) :
                    router \in Observed(s.router), mirrors \in polled}
      BY DEF Polls
    <2> HIDE DEF taken, polled
    <2> QED BY <2>1
  <1>2. s \in PanelStates
    BY PanelFacts
  <1>3. /\ taken \in PanelStates /\ taken.setup = s.setup /\ taken.book = s.book
        /\ taken.router = s.router /\ taken.mirrors = s.mirrors /\ taken.picked = s.picked
    BY <1>2, TakenFacts
  <1>4. ~s.lookup.asked => taken = s
    BY <1>2, LookupFacts DEF ListingTaken
  <1>5. router \in Slots(AudioSettings) /\ After(router, s.router)
        /\ RouterSound(router, s.setup.audio)
    <2>1. s.router \in Slots(AudioSettings) /\ RouterSound(s.router, s.setup.audio)
      BY PanelFacts
    <2>2. router \in Slots(AudioSettings) /\ After(router, s.router)
      BY <2>1, ObservedFacts
    <2>3. ShownAs(router, s.setup.audio)
      BY <2>1, ObservedShown DEF RouterSound
    <2>4. Living(router) => Living(s.router)
      BY <2>2, AfterFacts
    <2> QED BY <2>1, <2>2, <2>3, <2>4 DEF RouterSound
  <1>6. mirrors \in [rows -> UNION {Observed(s.mirrors[k]) : k \in rows}]
        /\ \A k \in rows : mirrors[k] \in Observed(s.mirrors[k])
    OBVIOUS
  <1> HIDE DEF polled
  <1>7. \A k \in rows : /\ mirrors[k] \in Slots(RowSettings) /\ After(mirrors[k], s.mirrors[k])
                        /\ ShownAs(mirrors[k], s.setup.rows[k])
    <2> TAKE k \in rows
    <2>1. s.mirrors[k] \in Slots(RowSettings) /\ ShownAs(s.mirrors[k], s.setup.rows[k])
      BY PanelFacts
    <2>2. mirrors[k] \in Observed(s.mirrors[k])
      BY <1>6
    <2>3. mirrors[k] \in Slots(RowSettings) /\ After(mirrors[k], s.mirrors[k])
      BY <2>1, <2>2, ObservedFacts
    <2>4. ShownAs(mirrors[k], s.setup.rows[k])
      BY <2>1, <2>2, ObservedShown
    <2> QED BY <2>3, <2>4
  <1>8. mirrors \in [rows -> Slots(RowSettings)]
    BY <1>6, <1>7
  <1>9. /\ rows = 1..Len(s.mirrors) /\ Len(s.mirrors) = Len(s.setup.rows)
        /\ s.picked # Nil => s.picked \in DOMAIN s.book.presets
    BY PanelFacts
  <1> HIDE DEF taken
  <1>10. /\ PanelSound(t) /\ t.router = router /\ t.mirrors = mirrors
         /\ t.setup = taken.setup /\ t.book = taken.book /\ t.sound = taken.sound
         /\ t.lookup = taken.lookup /\ DOMAIN t.mirrors = DOMAIN taken.mirrors
    BY <1>1, <1>3, <1>5, <1>7, <1>8, <1>9, WithChildren
  <1>11. Watches(s, t)
    BY <1>3, <1>5, <1>7, <1>10 DEF Watches
  <1> QED BY <1>4, <1>10, <1>11

\* Two polls in a row.
LEMMA AfterTwice ==
    ASSUME NEW a, NEW b, NEW c, After(b, a), After(c, b)
    PROVE  After(c, a)
  BY DEF After, Living

\* A child that was begun, where there was this one before.
IsNew(o, slot) == Living(o) /\ (Living(slot) => slot.gone /\ ~o.gone)

LEMMA AfterIsOld ==
    ASSUME NEW o, NEW slot, After(o, slot) PROVE ~IsNew(o, slot)
  BY DEF After, IsNew, Living

LEMMA AfterIsSame ==
    ASSUME NEW S, NEW o \in Slots(S), NEW slot \in Slots(S), After(o, slot), NEW settings,
           ShownAs(o, settings), ShownAs(slot, settings), Living(slot), ~slot.gone
    PROVE  o = slot
  <1>1. o.with = slot.with /\ o.gone = slot.gone /\ Living(o)
    BY DEF After, Living
  <1>2. ~o.exit /\ ~slot.exit
    BY <1>1 DEF ShownAs
  <1>3. o.exit = slot.exit
    BY <1>2 DEF Slots
  <1> QED BY <1>1, <1>3 DEF Slots

-----------------------------------------------------------------------------
(* Starts.                                                                    *)

\* What ran and had not ended is left alone, and what was begun, of any two states.
Spares(s, t) == \A k \in Children(s) : ~Child(s, k).gone => Child(t, k) = Child(s, k)
BegunIn(s, t) ==
    {k \in Children(t) : k \in Children(s) => Child(s, k).gone /\ ~Child(t, k).gone}

StartSound(s, t) ==
    /\ Spares(s, t)
    /\ 0 \in BegunIn(s, t) =>
          /\ RouteKnown(t.setup.audio, IF Living(s.router) THEN t.sound ELSE Sounds)
          /\ t.book.last = t.setup /\ file # Nil
    /\ system.kills => BegunIn(s, t) = {} \/ AllEnabledRun(t)

\* The route is child 0 and a row's is its place.
LEMMA ChildrenFacts ==
    ASSUME NEW s, PanelSound(s)
    PROVE  /\ 0 \in Children(s) <=> Living(s.router)
           /\ Child(s, 0) = s.router
           /\ 0 \notin DOMAIN s.mirrors
           /\ \A k \in DOMAIN s.mirrors : /\ k \in Children(s) <=> Living(s.mirrors[k])
                                          /\ Child(s, k) = s.mirrors[k]
           /\ Children(s) \subseteq DOMAIN s.mirrors \cup {0}
  <1>1. Len(s.mirrors) \in Nat /\ DOMAIN s.mirrors = 1..Len(s.mirrors)
    BY PanelFacts
  <1>2. 0 \notin DOMAIN s.mirrors
    BY <1>1
  <1> QED BY <1>2 DEF Children, Child

LEMMA BegunFacts ==
    ASSUME NEW s, PanelSound(s), NEW t, PanelSound(t), DOMAIN t.mirrors = DOMAIN s.mirrors
    PROVE  /\ 0 \in BegunIn(s, t) <=> IsNew(t.router, s.router)
           /\ \A k \in DOMAIN s.mirrors :
                k \in BegunIn(s, t) <=> IsNew(t.mirrors[k], s.mirrors[k])
           /\ BegunIn(s, t) \subseteq DOMAIN s.mirrors \cup {0}
  BY ChildrenFacts DEF BegunIn, IsNew

LEMMA SparesFacts ==
    ASSUME NEW s, PanelSound(s), NEW t, PanelSound(t), DOMAIN t.mirrors = DOMAIN s.mirrors,
           Living(s.router) /\ ~s.router.gone => t.router = s.router,
           \A k \in DOMAIN s.mirrors :
              Living(s.mirrors[k]) /\ ~s.mirrors[k].gone => t.mirrors[k] = s.mirrors[k]
    PROVE  Spares(s, t)
  <1> SUFFICES ASSUME NEW k \in Children(s), ~Child(s, k).gone PROVE Child(t, k) = Child(s, k)
    BY DEF Spares
  <1>1. CASE k = 0
    BY <1>1, ChildrenFacts
  <1>2. CASE k # 0
    <2>1. k \in DOMAIN s.mirrors /\ k \in DOMAIN t.mirrors
      BY <1>2, ChildrenFacts
    <2> QED BY <2>1, ChildrenFacts
  <1> QED BY <1>1, <1>2

\* Children that were polled: what is left is what there was.
LEMMA PolledFacts ==
    ASSUME NEW s, PanelSound(s), NEW t, PanelSound(t), t.setup = s.setup,
           DOMAIN t.mirrors = DOMAIN s.mirrors, After(t.router, s.router),
           \A k \in DOMAIN s.mirrors : After(t.mirrors[k], s.mirrors[k])
    PROVE  /\ Living(s.router) /\ ~s.router.gone => t.router = s.router
           /\ \A k \in DOMAIN s.mirrors :
                 Living(s.mirrors[k]) /\ ~s.mirrors[k].gone => t.mirrors[k] = s.mirrors[k]
  <1>1. ASSUME Living(s.router), ~s.router.gone PROVE t.router = s.router
    <2>1. /\ t.router \in Slots(AudioSettings) /\ s.router \in Slots(AudioSettings)
          /\ ShownAs(t.router, s.setup.audio) /\ ShownAs(s.router, s.setup.audio)
      BY PanelFacts DEF RouterSound
    <2> QED BY <1>1, <2>1, AfterIsSame
  <1>2. ASSUME NEW k \in DOMAIN s.mirrors, Living(s.mirrors[k]), ~s.mirrors[k].gone
        PROVE  t.mirrors[k] = s.mirrors[k]
    <2>1. /\ t.mirrors[k] \in Slots(RowSettings) /\ s.mirrors[k] \in Slots(RowSettings)
          /\ ShownAs(t.mirrors[k], s.setup.rows[k]) /\ ShownAs(s.mirrors[k], s.setup.rows[k])
      BY PanelFacts
    <2> QED BY <1>2, <2>1, AfterIsSame
  <1> QED BY <1>1, <1>2

\* A start in which children are only polled begins nothing.
LEMMA PolledIsSound ==
    ASSUME NEW s, PanelSound(s), NEW t, PanelSound(t), t.setup = s.setup,
           DOMAIN t.mirrors = DOMAIN s.mirrors, After(t.router, s.router),
           \A k \in DOMAIN s.mirrors : After(t.mirrors[k], s.mirrors[k])
    PROVE  StartSound(s, t) /\ BegunIn(s, t) = {}
  <1>1. Spares(s, t)
    BY PolledFacts, SparesFacts
  <1>2. BegunIn(s, t) = {}
    BY BegunFacts, AfterIsOld
  <1> QED BY <1>1, <1>2 DEF StartSound

LEMMA StartedLives ==
    ASSUME NEW S, NEW slot \in Slots(S), NEW settings \in S, Nil \notin S
    PROVE  LET r == Started(slot, settings) IN
           /\ r \in Slots(S) /\ Living(r) /\ ShownAs(r, settings)
           /\ Halted(r) \in Slots(S) /\ ShownAs(Halted(r), settings)
           /\ system.kills => ~Living(Halted(r))
           /\ ~system.kills => Halted(r) = r
  <1> DEFINE r == Started(slot, settings)
  <1>1. r \in Slots(S) /\ r.with = settings /\ ~r.gone /\ ~r.exit
    BY StartedFacts
  <1> HIDE DEF r
  <1>2. Living(r)
    BY <1>1 DEF Living
  <1>3. /\ Halted(r) = r \/ Halted(r) = Resting
        /\ system.kills => Halted(r) = Resting
        /\ ~system.kills => Halted(r) = r
    BY <1>1, <1>2, HaltedFacts
  <1>4. Resting \in Slots(S) /\ ~Living(Resting)
    BY RestingFacts
  <1> QED BY <1>1, <1>2, <1>3, <1>4 DEF r, ShownAs

LEMMA HaltedShown ==
    ASSUME NEW S, NEW slot \in Slots(S), NEW settings, ShownAs(slot, settings)
    PROVE  /\ Halted(slot) \in Slots(S) /\ ShownAs(Halted(slot), settings)
           /\ Living(Halted(slot)) => Living(slot)
  BY HaltedFacts, RestingFacts DEF ShownAs

\* A launch that succeeds runs everything that is enabled; one that is given up
\* leaves nothing it began, if that can be stopped; what ran is left alone.
Launched(s, t) ==
    /\ PanelSound(t) /\ t.setup = s.setup /\ t.book = s.book /\ t.sound = s.sound
    /\ DOMAIN t.mirrors = DOMAIN s.mirrors
    /\ Living(s.router) => t.router = s.router
    /\ \A k \in DOMAIN s.mirrors : Living(s.mirrors[k]) => t.mirrors[k] = s.mirrors[k]
    /\ Living(t.router) /\ ~Living(s.router) => s.setup.audio.on
    /\ \/ AllEnabledRun(t)
       \/ ~system.kills
       \/ /\ Living(t.router) => Living(s.router)
          /\ \A k \in DOMAIN s.mirrors : Living(t.mirrors[k]) => Living(s.mirrors[k])

LEMMA LaunchFacts ==
    ASSUME NEW s, PanelSound(s), NEW t \in Launches(s)
    PROVE  Launched(s, t)
  <1> DEFINE todo == StartsRows(s)
             router == IF StartsRouter(s) THEN Started(s.router, s.setup.audio) ELSE s.router
             Begun_(k) == Started(s.mirrors[k], s.setup.rows[k])
             mirrors == [k \in DOMAIN s.mirrors |-> IF k \in todo THEN Begun_(k) ELSE s.mirrors[k]]
             back == IF StartsRouter(s) THEN Halted(router) ELSE s.router
             Back(bad) == [k \in DOMAIN s.mirrors |->
                              IF k \in StartedBefore(s, bad) THEN Halted(Begun_(k))
                              ELSE s.mirrors[k]]
  <1>1. /\ s \in PanelStates /\ s.setup.audio \in AudioSettings
        /\ s.router \in Slots(AudioSettings)
        /\ DOMAIN s.mirrors = 1..Len(s.mirrors) /\ Len(s.mirrors) = Len(s.setup.rows)
        /\ \A k \in DOMAIN s.mirrors :
             /\ s.mirrors[k] \in Slots(RowSettings) /\ s.setup.rows[k] \in RowSettings
             /\ ShownAs(s.mirrors[k], s.setup.rows[k])
        /\ RouterSound(s.router, s.setup.audio)
        /\ s.picked # Nil => s.picked \in DOMAIN s.book.presets
    BY PanelFacts
  <1>2. Nil \notin AudioSettings /\ Nil \notin RowSettings
    BY PanelAssumption
  <1>3. /\ todo \subseteq DOMAIN s.mirrors /\ \A k \in todo : ~Living(s.mirrors[k])
        /\ \A bad : StartedBefore(s, bad) \subseteq todo
    BY DEF StartsRows, StartedBefore
  <1>4. \A k \in DOMAIN s.mirrors :
          /\ Begun_(k) \in Slots(RowSettings) /\ Living(Begun_(k))
          /\ ShownAs(Begun_(k), s.setup.rows[k])
          /\ Halted(Begun_(k)) \in Slots(RowSettings)
          /\ ShownAs(Halted(Begun_(k)), s.setup.rows[k])
          /\ system.kills => ~Living(Halted(Begun_(k)))
    BY <1>1, <1>2, StartedLives
  <1>5. /\ router \in Slots(AudioSettings) /\ RouterSound(router, s.setup.audio)
        /\ s.setup.audio.on => Living(router)
        /\ Living(s.router) => router = s.router
        /\ back \in Slots(AudioSettings) /\ RouterSound(back, s.setup.audio)
        /\ Living(s.router) => back = s.router
        /\ system.kills => (Living(back) => Living(s.router))
        /\ (Living(router) \/ Living(back)) /\ ~Living(s.router) => s.setup.audio.on
    <2>1. CASE StartsRouter(s)
      <3>1. s.setup.audio.on /\ ~Living(s.router)
        BY <2>1 DEF StartsRouter
      <3>2. /\ router = Started(s.router, s.setup.audio)
            /\ back = Halted(router)
        BY <2>1
      <3> QED BY <1>1, <1>2, <3>1, <3>2, StartedLives DEF RouterSound
    <2>2. CASE ~StartsRouter(s)
      <3>1. s.setup.audio.on => Living(s.router)
        BY <2>2 DEF StartsRouter
      <3>2. router = s.router /\ back = s.router
        BY <2>2
      <3> QED BY <1>1, <3>1, <3>2
    <2> QED BY <2>1, <2>2
  <1> HIDE DEF router, back, Begun_
  <1>6. CASE t = Running(s, router, mirrors)
    <2>1. \A k \in DOMAIN s.mirrors :
            /\ mirrors[k] \in Slots(RowSettings) /\ ShownAs(mirrors[k], s.setup.rows[k])
            /\ Living(s.mirrors[k]) => mirrors[k] = s.mirrors[k]
            /\ s.setup.rows[k].on => Living(mirrors[k])
      BY <1>1, <1>4 DEF StartsRows
    <2>2. mirrors \in [DOMAIN s.mirrors -> Slots(RowSettings)]
      BY <2>1
    <2> HIDE DEF mirrors
    <2>3. /\ PanelSound(t) /\ t.router = router /\ t.mirrors = mirrors /\ t.sound = s.sound
          /\ t.setup = s.setup /\ t.book = s.book /\ DOMAIN t.mirrors = DOMAIN s.mirrors
      BY <1>1, <1>5, <1>6, <2>1, <2>2, WithChildren
    <2>4. AllEnabledRun(t)
      BY <1>5, <2>1, <2>3 DEF AllEnabledRun
    <2> QED BY <1>5, <2>1, <2>3, <2>4 DEF Launched
  <1>7. CASE \E bad \in todo : t = Running(s, back, Back(bad))
    <2>0. PICK bad \in todo : t = Running(s, back, Back(bad))
      BY <1>7
    <2> DEFINE left == Back(bad)
    <2>1. \A k \in DOMAIN s.mirrors :
            /\ left[k] \in Slots(RowSettings) /\ ShownAs(left[k], s.setup.rows[k])
            /\ Living(s.mirrors[k]) => left[k] = s.mirrors[k]
            /\ system.kills => (Living(left[k]) => Living(s.mirrors[k]))
      BY <1>1, <1>3, <1>4
    <2>2. left \in [DOMAIN s.mirrors -> Slots(RowSettings)]
      BY <2>1
    <2>3. t = Running(s, back, left)
      BY <2>0
    <2> HIDE DEF left
    <2>4. /\ PanelSound(t) /\ t.router = back /\ t.mirrors = left /\ t.sound = s.sound
          /\ t.setup = s.setup /\ t.book = s.book /\ DOMAIN t.mirrors = DOMAIN s.mirrors
      BY <1>1, <1>5, <2>1, <2>2, <2>3, WithChildren
    <2> QED BY <1>5, <2>1, <2>4 DEF Launched
  <1>8. CASE t = s
    BY <1>8 DEF Launched
  <1>9. \/ t = Running(s, router, mirrors)
        \/ \E bad \in todo : t = Running(s, back, Back(bad))
        \/ t = s
    BY DEF Launches, router, back, Begun_
  <1> QED BY <1>6, <1>7, <1>8, <1>9

\* The panel just before it starts anything: saved, its listings taken up.
Readied(s, r) ==
    /\ PanelSound(r) /\ r.setup = s.setup /\ r.book.last = r.setup /\ file # Nil
    /\ DOMAIN r.mirrors = DOMAIN s.mirrors
    /\ \A k \in DOMAIN s.mirrors : After(r.mirrors[k], s.mirrors[k])
    /\ After(r.router, s.router)
    /\ StartsRouter(r) =>
          RouteKnown(r.setup.audio, IF Living(s.router) THEN r.sound ELSE Sounds)

LEMMA LaunchIsSound ==
    ASSUME NEW s, PanelSound(s), NEW r, Readied(s, r), NEW t \in Launches(r)
    PROVE  PanelSound(t) /\ StartSound(s, t)
  <1>1. PanelSound(r) /\ Launched(r, t)
    BY LaunchFacts DEF Readied
  <1>2. /\ PanelSound(t) /\ t.setup = s.setup /\ t.book.last = t.setup /\ file # Nil
        /\ t.sound = r.sound
        /\ DOMAIN t.mirrors = DOMAIN s.mirrors /\ DOMAIN r.mirrors = DOMAIN s.mirrors
    BY <1>1 DEF Launched, Readied
  <1>3. /\ After(r.router, s.router) /\ (Living(r.router) => t.router = r.router)
        /\ \A k \in DOMAIN s.mirrors :
              /\ After(r.mirrors[k], s.mirrors[k])
              /\ Living(r.mirrors[k]) => t.mirrors[k] = r.mirrors[k]
    BY <1>1, <1>2 DEF Launched, Readied
  <1>4. Spares(s, t)
    <2>1. /\ Living(s.router) /\ ~s.router.gone => r.router = s.router
          /\ \A k \in DOMAIN s.mirrors :
                Living(s.mirrors[k]) /\ ~s.mirrors[k].gone => r.mirrors[k] = s.mirrors[k]
      BY <1>1, PolledFacts DEF Readied
    <2> QED BY <1>2, <1>3, <2>1, SparesFacts
  \* What was begun did not run when the panel was ready.
  <1>5. /\ 0 \in BegunIn(s, t) => Living(t.router) /\ ~Living(r.router)
        /\ \A k \in DOMAIN s.mirrors :
              k \in BegunIn(s, t) => Living(t.mirrors[k]) /\ ~Living(r.mirrors[k])
        /\ BegunIn(s, t) \subseteq DOMAIN s.mirrors \cup {0}
    <2>1. ASSUME NEW o, NEW ready, NEW slot, After(ready, slot), Living(ready) => o = ready,
                 IsNew(o, slot)
          PROVE  Living(o) /\ ~Living(ready)
      BY <2>1, AfterIsOld DEF IsNew
    <2> QED BY <1>2, <1>3, <2>1, BegunFacts
  <1>6. ASSUME 0 \in BegunIn(s, t)
        PROVE  RouteKnown(t.setup.audio, IF Living(s.router) THEN t.sound ELSE Sounds)
    <2>1. ~Living(r.router) /\ r.setup.audio.on
      BY <1>1, <1>5, <1>6 DEF Launched
    <2>2. StartsRouter(r) /\ r.setup = t.setup
      BY <1>2, <2>1 DEF StartsRouter, Readied
    <2> QED BY <1>2, <2>2 DEF Readied
  <1>7. ASSUME system.kills PROVE BegunIn(s, t) = {} \/ AllEnabledRun(t)
    <2>1. CASE AllEnabledRun(t)
      BY <2>1
    <2>2. CASE ~AllEnabledRun(t)
      <3>1. /\ Living(t.router) => Living(r.router)
            /\ \A k \in DOMAIN s.mirrors : Living(t.mirrors[k]) => Living(r.mirrors[k])
        BY <1>1, <1>2, <1>7, <2>2 DEF Launched
      <3> QED BY <1>5, <3>1
    <2> QED BY <2>1, <2>2
  <1> QED BY <1>2, <1>4, <1>6, <1>7 DEF StartSound

LEMMA ListedFacts ==
    ASSUME system \in Systems, NEW s, PanelSound(s)
    PROVE  LET t == Listed(s) IN
           /\ PanelSound(t) /\ t.setup = s.setup /\ t.book = s.book /\ t.lookup = s.lookup
           /\ t.router = s.router /\ t.mirrors = s.mirrors
           /\ StartsRouter(s) => t.sound = Sounds
  <1> DEFINE t == Listed(s)
  <1>1. Sounds \in SoundLists
    BY DEF Sounds, SoundLists, Systems
  <1>2. CASE StartsRouter(s)
    <2>1. t = [s EXCEPT !.sound = Sounds]
      BY <1>2 DEF Listed
    <2> HIDE DEF t
    <2>2. /\ t \in PanelStates /\ t.setup = s.setup /\ t.book = s.book /\ t.lookup = s.lookup
          /\ t.router = s.router /\ t.mirrors = s.mirrors /\ t.sound = Sounds
          /\ t.picked = s.picked
      BY <1>1, <2>1, PanelFacts DEF PanelStates
    <2>3. PanelSound(t)
      BY <2>2 DEF PanelSound
    <2> QED BY <2>2, <2>3 DEF t
  <1>3. CASE ~StartsRouter(s)
    BY <1>3 DEF Listed
  <1> QED BY <1>2, <1>3

LEMMA EndedChild ==
    ASSUME NEW S, NEW slot \in Slots(S), NEW settings, ShownAs(slot, settings)
    PROVE  LET r == [slot EXCEPT !.gone = TRUE] IN
           /\ r \in Slots(S) /\ ShownAs(r, settings) /\ r.with = slot.with
           /\ Living(r) <=> Living(slot)
  BY DEF Slots, ShownAs, Living

LEMMA RouterEnds ==
    ASSUME NEW s, PanelSound(s), NEW t, t = [s EXCEPT !.router.gone = TRUE]
    PROVE  PanelSound(t) /\ t.book = s.book
  <1> DEFINE r == [s.router EXCEPT !.gone = TRUE]
  <1>1. s \in PanelStates /\ s.router \in Slots(AudioSettings) /\ RouterSound(s.router, s.setup.audio)
    BY PanelFacts
  <1>2. /\ r \in Slots(AudioSettings) /\ ShownAs(r, s.setup.audio)
        /\ Living(r) <=> Living(s.router)
    BY <1>1, EndedChild DEF RouterSound
  <1>3. t = [s EXCEPT !.router = r]
    BY <1>1 DEF PanelStates
  <1> HIDE DEF r
  <1>4. /\ t \in PanelStates /\ t.setup = s.setup /\ t.book = s.book
        /\ t.mirrors = s.mirrors /\ t.router = r /\ t.picked = s.picked
    BY <1>1, <1>2, <1>3 DEF PanelStates
  <1> QED BY <1>1, <1>2, <1>4 DEF PanelSound, RouterSound

LEMMA StartsWithResolverFacts ==
    ASSUME NEW s, PanelSound(s), NEW p, Watches(s, p), ~p.lookup.asked,
           ~Living(s.router) /\ s.setup.audio.on => p.sound = Sounds,
           NEW t \in StartsWithResolver(p)
    PROVE  PanelSound(t) /\ StartSound(s, t)
  <1> DEFINE Entered(noted) == IF DevicesValid(noted) THEN SavesCurrent(noted) ELSE {}
             Left(noted) == {noted} \cup UNION {Launches(ready) : ready \in Entered(noted)}
  <1>1. PICK noted \in Polls(p) : t \in Left(noted)
    BY DEF StartsWithResolver
  <1>2. PanelSound(p) /\ Watches(p, noted) /\ noted.sound = p.sound
    BY PollFacts DEF Watches
  <1>3. /\ PanelSound(noted) /\ noted.setup = s.setup /\ DOMAIN noted.mirrors = DOMAIN s.mirrors
        /\ \A k \in DOMAIN s.mirrors : After(noted.mirrors[k], s.mirrors[k])
        /\ After(noted.router, s.router)
    BY <1>2, AfterTwice DEF Watches
  <1>4. CASE t = noted
    BY <1>3, <1>4, PolledIsSound
  <1>5. CASE t # noted
    <2>1. PICK ready \in Entered(noted) : t \in Launches(ready)
      BY <1>1, <1>5
    <2>2. DevicesValid(noted) /\ ready \in SavesCurrent(noted)
      BY <2>1
    <2> HIDE DEF Entered, Left
    <2>3. /\ PanelSound(ready) /\ file # Nil /\ ready.book.last = ready.setup
          /\ ready.setup = noted.setup /\ ready.router = noted.router
          /\ ready.mirrors = noted.mirrors /\ ready.sound = noted.sound
      BY <1>3, <2>2, SavesCurrentFacts
    <2>4. ASSUME StartsRouter(ready)
          PROVE  RouteKnown(ready.setup.audio, IF Living(s.router) THEN ready.sound ELSE Sounds)
      <3>1. StartsRouter(noted) /\ s.setup.audio.on
        BY <1>3, <2>3, <2>4 DEF StartsRouter
      <3>2. RouteKnown(noted.setup.audio, noted.sound)
        BY <2>2, <3>1 DEF DevicesValid
      <3> QED BY <1>2, <2>3, <3>1, <3>2
    <2>5. Readied(s, ready)
      BY <1>3, <2>3, <2>4 DEF Readied
    <2> QED BY <2>1, <2>5, LaunchIsSound
  <1> QED BY <1>4, <1>5

LEMMA StartsFacts ==
    ASSUME system \in Systems, NEW s, PanelSound(s), ~s.lookup.asked, NEW t \in Starts(s)
    PROVE  PanelSound(t) /\ StartSound(s, t)
  <1> DEFINE Left(noted) == {noted} \cup StartsWithResolver(Listed(noted))
  <1>1. PICK noted \in Polls(s) : t \in Left(noted)
    BY DEF Starts
  <1>2. Watches(s, noted) /\ noted.lookup = s.lookup /\ PanelSound(noted)
    BY PollFacts DEF Watches
  <1>3. CASE t = noted
    BY <1>2, <1>3, PolledIsSound DEF Watches
  <1>4. CASE t # noted
    <2> DEFINE fresh == Listed(noted)
    <2>1. t \in StartsWithResolver(fresh)
      BY <1>1, <1>4
    <2>2. /\ PanelSound(fresh) /\ fresh.setup = noted.setup /\ fresh.lookup = noted.lookup
          /\ fresh.router = noted.router /\ fresh.mirrors = noted.mirrors
          /\ fresh.book = noted.book
          /\ StartsRouter(noted) => fresh.sound = Sounds
      BY <1>2, ListedFacts
    <2> HIDE DEF fresh, Left
    <2>3. Watches(s, fresh) /\ ~fresh.lookup.asked
      BY <1>2, <2>2 DEF Watches
    <2>4. ~Living(s.router) /\ s.setup.audio.on => fresh.sound = Sounds
      <3>1. ~Living(s.router) => ~Living(noted.router)
        BY <1>2, AfterFacts DEF Watches
      <3> QED BY <1>2, <2>2, <3>1 DEF Watches, StartsRouter
    <2> QED BY <2>1, <2>3, <2>4, StartsWithResolverFacts
  <1> QED BY <1>3, <1>4

\* A quiet panel may take up another settings first.
LEMMA RunsPresetFacts ==
    ASSUME system \in Systems, NEW s, PanelSound(s), ~s.lookup.asked,
           NEW k \in DOMAIN s.book.presets, NEW t \in RunsPreset(s, k)
    PROVE  PanelSound(t) /\ StartSound(s, t)
  <1>1. PICK loaded \in LoadsPreset(s, k) : t \in Starts(loaded)
    BY DEF RunsPreset
  <1>2. PanelSound(loaded) /\ Quiet(s) /\ Quiet(loaded) /\ ~loaded.lookup.asked
    BY LoadsPresetFacts
  <1>3. PanelSound(t) /\ StartSound(loaded, t)
    BY <1>1, <1>2, StartsFacts
  <1>4. Children(s) = {} /\ Children(loaded) = {}
    BY <1>2 DEF Quiet, Children
  <1>5. BegunIn(s, t) = BegunIn(loaded, t) /\ Spares(s, t)
    BY <1>4 DEF BegunIn, Spares
  <1>6. ~Living(s.router) /\ ~Living(loaded.router)
    BY <1>2 DEF Quiet
  <1> QED BY <1>3, <1>5, <1>6 DEF StartSound

\* One row's child in another state.
LEMMA RowChanged ==
    ASSUME NEW s, PanelSound(s), NEW k \in DOMAIN s.mirrors, NEW slot \in Slots(RowSettings),
           ShownAs(slot, s.setup.rows[k]), NEW t, t = [s EXCEPT !.mirrors[k] = slot]
    PROVE  /\ PanelSound(t) /\ t.setup = s.setup /\ t.router = s.router
           /\ DOMAIN t.mirrors = DOMAIN s.mirrors
           /\ \A j \in DOMAIN s.mirrors : t.mirrors[j] = IF j = k THEN slot ELSE s.mirrors[j]
  <1> DEFINE mirrors == [s.mirrors EXCEPT ![k] = slot]
  <1>1. /\ s \in PanelStates /\ s.mirrors \in Seq(Slots(RowSettings))
        /\ DOMAIN s.mirrors = 1..Len(s.mirrors) /\ Len(s.mirrors) = Len(s.setup.rows)
        /\ \A j \in DOMAIN s.mirrors : ShownAs(s.mirrors[j], s.setup.rows[j])
        /\ RouterSound(s.router, s.setup.audio)
        /\ s.picked # Nil => s.picked \in DOMAIN s.book.presets
    BY PanelFacts
  <1>2. t = [s EXCEPT !.mirrors = mirrors]
    BY <1>1 DEF PanelStates
  <1>3. /\ mirrors \in Seq(Slots(RowSettings)) /\ Len(mirrors) = Len(s.mirrors)
        /\ DOMAIN mirrors = DOMAIN s.mirrors
        /\ \A j \in DOMAIN s.mirrors : mirrors[j] = IF j = k THEN slot ELSE s.mirrors[j]
    BY <1>1, ExceptSeq
  <1> HIDE DEF mirrors
  <1>4. /\ t \in PanelStates /\ t.setup = s.setup /\ t.router = s.router
        /\ t.mirrors = mirrors /\ t.book = s.book /\ t.picked = s.picked
    BY <1>1, <1>2, <1>3 DEF PanelStates
  <1>5. RowsSound(mirrors, s.setup.rows)
    BY <1>1, <1>3 DEF RowsSound
  <1> QED BY <1>1, <1>3, <1>4, <1>5 DEF PanelSound

\* The start of one row begins no more than that row.
LEMMA OpensMirrorFacts ==
    ASSUME NEW s, PanelSound(s), NEW k \in DOMAIN s.mirrors, NEW t \in OpensMirror(s, k)
    PROVE  PanelSound(t) /\ Spares(s, t) /\ BegunIn(s, t) \subseteq {k} /\ k # 0
  <1> DEFINE Left(noted) ==
               {noted} \cup
               IF noted.setup.rows[k].on /\ RowKnown(noted, k) /\ ~Living(noted.mirrors[k])
                 THEN {[noted EXCEPT !.mirrors[k] = Started(@, noted.setup.rows[k])]} ELSE {}
  <1>1. PICK noted \in Polls(s) : t \in Left(noted)
    BY DEF OpensMirror
  <1>2. /\ PanelSound(noted) /\ noted.setup = s.setup /\ DOMAIN noted.mirrors = DOMAIN s.mirrors
        /\ After(noted.router, s.router)
        /\ \A j \in DOMAIN s.mirrors : After(noted.mirrors[j], s.mirrors[j])
    BY PollFacts DEF Watches
  <1>3. k # 0
    BY ChildrenFacts
  <1>4. CASE t = noted
    BY <1>2, <1>3, <1>4, PolledIsSound DEF StartSound
  <1>5. CASE t # noted
    <2> DEFINE slot == Started(noted.mirrors[k], noted.setup.rows[k])
    <2>1. t = [noted EXCEPT !.mirrors[k] = slot] /\ ~Living(noted.mirrors[k])
      BY <1>1, <1>5
    <2>2. noted.mirrors[k] \in Slots(RowSettings) /\ noted.setup.rows[k] \in RowSettings
      BY <1>2, PanelFacts
    <2>3. slot \in Slots(RowSettings) /\ ShownAs(slot, noted.setup.rows[k])
      BY <2>2, PanelAssumption, StartedLives
    <2> HIDE DEF slot, Left
    <2>4. /\ PanelSound(t) /\ t.router = noted.router /\ DOMAIN t.mirrors = DOMAIN s.mirrors
          /\ \A j \in DOMAIN noted.mirrors :
                t.mirrors[j] = IF j = k THEN slot ELSE noted.mirrors[j]
      BY <1>2, <2>1, <2>3, RowChanged
    <2>5. /\ Living(s.router) /\ ~s.router.gone => noted.router = s.router
          /\ \A j \in DOMAIN s.mirrors :
                Living(s.mirrors[j]) /\ ~s.mirrors[j].gone => noted.mirrors[j] = s.mirrors[j]
      BY <1>2, PolledFacts
    <2>6. Living(s.mirrors[k]) => s.mirrors[k].gone
      BY <1>2, <2>1, AfterFacts
    <2>7. Spares(s, t)
      BY <1>2, <2>4, <2>5, <2>6, SparesFacts
    <2>8. BegunIn(s, t) \subseteq {k}
      BY <1>2, <2>4, BegunFacts, AfterIsOld
    <2> QED BY <1>3, <2>4, <2>7, <2>8
  <1> QED BY <1>4, <1>5

-----------------------------------------------------------------------------
(* Clicks, and what happens without one.                                      *)

\* Stops and ends of children.
LEMMA StopsFacts ==
    ASSUME NEW s, PanelSound(s)
    PROVE  PanelSound(Stops(s))
  <1> DEFINE router == Halted(s.router)
             mirrors == [k \in DOMAIN s.mirrors |-> Halted(s.mirrors[k])]
  <1>1. /\ s \in PanelStates /\ s.router \in Slots(AudioSettings)
        /\ RouterSound(s.router, s.setup.audio)
        /\ DOMAIN s.mirrors = 1..Len(s.mirrors) /\ Len(s.mirrors) = Len(s.setup.rows)
        /\ \A k \in DOMAIN s.mirrors : /\ s.mirrors[k] \in Slots(RowSettings)
                                       /\ ShownAs(s.mirrors[k], s.setup.rows[k])
        /\ s.picked # Nil => s.picked \in DOMAIN s.book.presets
    BY PanelFacts
  <1>2. router \in Slots(AudioSettings) /\ RouterSound(router, s.setup.audio)
    BY <1>1, HaltedShown DEF RouterSound
  <1>3. \A k \in DOMAIN s.mirrors :
          mirrors[k] \in Slots(RowSettings) /\ ShownAs(mirrors[k], s.setup.rows[k])
    BY <1>1, HaltedShown
  <1>4. mirrors \in [DOMAIN s.mirrors -> Slots(RowSettings)]
    BY <1>3
  <1> HIDE DEF router, mirrors
  <1>5. PanelSound(Running(s, router, mirrors))
    BY <1>1, <1>2, <1>3, <1>4, WithChildren
  <1> QED BY <1>5 DEF Stops, router, mirrors

LEMMA StopsAudioFacts ==
    ASSUME NEW s, PanelSound(s), NEW t, t = [s EXCEPT !.router = Halted(s.router)]
    PROVE  PanelSound(t)
  <1> DEFINE router == Halted(s.router)
  <1>1. /\ s \in PanelStates /\ s.router \in Slots(AudioSettings)
        /\ RouterSound(s.router, s.setup.audio)
    BY PanelFacts
  <1>2. router \in Slots(AudioSettings) /\ RouterSound(router, s.setup.audio)
    BY <1>1, HaltedShown DEF RouterSound
  <1> HIDE DEF router
  <1>3. t = [s EXCEPT !.router = router]
    BY DEF router
  <1>4. /\ t \in PanelStates /\ t.setup = s.setup /\ t.router = router
        /\ t.mirrors = s.mirrors /\ t.book = s.book /\ t.picked = s.picked
    BY <1>1, <1>2, <1>3 DEF PanelStates
  <1> QED BY <1>2, <1>4 DEF PanelSound

LEMMA RowEndsFacts ==
    ASSUME NEW s, PanelSound(s), NEW k \in DOMAIN s.mirrors, NEW slot,
           slot = Halted(s.mirrors[k]) \/ slot = [s.mirrors[k] EXCEPT !.gone = TRUE],
           NEW t, t = [s EXCEPT !.mirrors[k] = slot]
    PROVE  PanelSound(t)
  <1>1. s.mirrors[k] \in Slots(RowSettings) /\ ShownAs(s.mirrors[k], s.setup.rows[k])
    BY PanelFacts
  <1>2. slot \in Slots(RowSettings) /\ ShownAs(slot, s.setup.rows[k])
    BY <1>1, HaltedShown, EndedChild
  <1> QED BY <1>2, RowChanged

\* A click on the panel.
LEMMA YieldsKeeps ==
    ASSUME ControlSound, NEW states, Yields(states), \A t \in states : PanelSound(t)
    PROVE  ControlSound'
  <1>1. /\ PanelSound(panel') /\ system' = system
        /\ file' = IF panel'.book # panel.book THEN panel'.book ELSE file
    BY DEF Yields
  <1>2. panel'.book \in PanelBooks
    BY <1>1, PanelFacts
  <1> QED BY <1>1, <1>2 DEF ControlSound

\* A step that saves nothing.
LEMMA OtherKeeps ==
    ASSUME ControlSound, PanelSound(panel'), panel'.book = panel.book, system' \in Systems,
           UNCHANGED file
    PROVE  ControlSound'
  BY DEF ControlSound

\* The clicks that only choose, ask, save or load.
LEMMA ChoosesKeep ==
    ASSUME ControlSound, SelectPreset \/ AskDelete \/ CancelDelete \/ RefreshDevices
    PROVE  ControlSound'
  <1>1. PanelSound(panel) /\ panel \in PanelStates
        /\ (panel.picked # Nil => panel.picked \in DOMAIN panel.book.presets)
    BY PanelFacts DEF ControlSound
  <1>2. DOMAIN panel.book.presets \subseteq Nat
    <2>1. panel.book \in PanelBooks
      BY <1>1, PanelFacts
    <2> QED BY <2>1, BookFacts
  <1>3. ASSUME NEW picked \in Nat \cup {Nil}, NEW confirming \in BOOLEAN,
               picked # Nil => picked \in DOMAIN panel.book.presets,
               NEW t, t = [panel EXCEPT !.picked = picked, !.confirming = confirming]
        PROVE  PanelSound(t)
    <2>1. /\ t \in PanelStates /\ t.setup = panel.setup /\ t.router = panel.router
          /\ t.mirrors = panel.mirrors /\ t.book = panel.book /\ t.picked = picked
      BY <1>1, <1>3 DEF PanelStates
    <2> QED BY <1>1, <1>3, <2>1 DEF PanelSound
  <1>4. CASE SelectPreset
    <2>1. PICK k \in DOMAIN panel.book.presets :
            Yields({[panel EXCEPT !.picked = k, !.confirming = FALSE]})
      BY <1>4 DEF SelectPreset
    <2> DEFINE t == [panel EXCEPT !.picked = k, !.confirming = FALSE]
    <2>2. k \in Nat \cup {Nil} /\ (k # Nil => k \in DOMAIN panel.book.presets)
      BY <1>2
    <2>3. PanelSound(t)
      BY <1>3, <2>2
    <2>4. Yields({t})
      BY <2>1
    <2> HIDE DEF t
    <2> QED BY <2>3, <2>4, YieldsKeeps
  <1>5. CASE AskDelete \/ CancelDelete
    <2>1. PICK confirming \in BOOLEAN : Yields({[panel EXCEPT !.confirming = confirming]})
      BY <1>5 DEF AskDelete, CancelDelete
    <2> DEFINE t == [panel EXCEPT !.confirming = confirming]
    <2>2. /\ t \in PanelStates /\ t.setup = panel.setup /\ t.router = panel.router
          /\ t.mirrors = panel.mirrors /\ t.book = panel.book /\ t.picked = panel.picked
      BY <1>1 DEF PanelStates
    <2>3. Yields({t})
      BY <2>1
    <2> HIDE DEF t
    <2>4. PanelSound(t)
      BY <1>1, <2>2 DEF PanelSound
    <2> QED BY <2>3, <2>4, YieldsKeeps
  <1>6. CASE RefreshDevices
    <2> DEFINE t == [panel EXCEPT !.lookup = NewLookup]
    <2>1. NewLookup \in Lookups
      BY DEF NewLookup, Lookups
    <2>2. /\ t \in PanelStates /\ t.setup = panel.setup /\ t.router = panel.router
          /\ t.mirrors = panel.mirrors /\ t.book = panel.book /\ t.picked = panel.picked
      BY <1>1, <2>1 DEF PanelStates
    <2>3. Yields({t})
      BY <1>6 DEF RefreshDevices
    <2> HIDE DEF t
    <2>4. PanelSound(t)
      BY <1>1, <2>2 DEF PanelSound
    <2> QED BY <2>3, <2>4, YieldsKeeps
  <1> QED BY <1>4, <1>5, <1>6

LEMMA SavesKeep ==
    ASSUME ControlSound,
           LoadPreset \/ UpdatePreset \/ DeletePreset \/ AddPreset \/ SaveCurrent
    PROVE  ControlSound'
  <1>1. PanelSound(panel) /\ (Picking => panel.picked \in DOMAIN panel.book.presets)
    BY PanelFacts DEF ControlSound, Picking
  <1>2. CASE LoadPreset
    <2>1. ASSUME NEW t \in LoadsPreset(panel, panel.picked), Picking
          PROVE  PanelSound(t)
      BY <1>1, <2>1, LoadsPresetFacts
    <2> QED BY <1>2, <2>1, YieldsKeeps DEF LoadPreset
  <1>3. CASE UpdatePreset
    <2>1. \A t \in UpdatesPreset(panel, panel.picked) :
            Picking => PanelSound(t)
      BY <1>1, UpdatesPresetFacts
    <2> QED BY <1>3, <2>1, YieldsKeeps DEF UpdatePreset
  <1>4. CASE DeletePreset
    <2>1. \A t \in DeletesPreset(panel, panel.picked) :
            Picking => PanelSound(t)
      BY <1>1, DeletesPresetFacts
    <2> QED BY <1>4, <2>1, YieldsKeeps DEF DeletePreset
  <1>5. CASE AddPreset
    <2>1. \A t \in AddsPreset(panel) : PanelSound(t)
      BY <1>1, AddsPresetFacts
    <2> QED BY <1>5, <2>1, YieldsKeeps DEF AddPreset
  <1>6. CASE SaveCurrent
    <2>1. \A t \in SavesCurrent(panel) : PanelSound(t)
      BY <1>1, SavesCurrentFacts
    <2> QED BY <1>6, <2>1, YieldsKeeps DEF SaveCurrent
  <1> QED BY <1>2, <1>3, <1>4, <1>5, <1>6

\* The clicks that begin or stop children, and the poll of every frame.
LEMMA RunsKeep ==
    ASSUME ControlSound,
           \/ RunPreset \/ StartAll \/ OpenMirror \/ PollPanel
           \/ StopEverything \/ StopAudio \/ StopMirror
    PROVE  ControlSound'
  <1>1. /\ PanelSound(panel) /\ system \in Systems
        /\ Picking => panel.picked \in DOMAIN panel.book.presets
    BY PanelFacts DEF ControlSound, Picking
  <1>2. CASE RunPreset
    <2>1. \A t \in RunsPreset(panel, panel.picked) : PanelSound(t)
      BY <1>1, <1>2, RunsPresetFacts DEF RunPreset, Searching
    <2> QED BY <1>2, <2>1, YieldsKeeps DEF RunPreset
  <1>3. CASE StartAll
    <2>1. \A t \in Starts(panel) : PanelSound(t)
      BY <1>1, <1>3, StartsFacts DEF StartAll, Searching
    <2> QED BY <1>3, <2>1, YieldsKeeps DEF StartAll
  <1>4. CASE OpenMirror
    <2>1. PICK k \in DOMAIN panel.mirrors : Yields(OpensMirror(panel, k))
      BY <1>4 DEF OpenMirror
    <2>2. \A t \in OpensMirror(panel, k) : PanelSound(t)
      BY <1>1, OpensMirrorFacts
    <2> QED BY <2>1, <2>2, YieldsKeeps
  <1>5. CASE PollPanel
    <2>1. \A t \in Polls(panel) : PanelSound(t)
      BY <1>1, PollFacts DEF Watches
    <2> QED BY <1>5, <2>1, YieldsKeeps DEF PollPanel
  <1>6. CASE StopEverything
    <2>1. \A t \in {Stops(panel)} : PanelSound(t)
      BY <1>1, StopsFacts
    <2> QED BY <1>6, <2>1, YieldsKeeps DEF StopEverything
  <1>7. CASE StopAudio
    <2> DEFINE t == [panel EXCEPT !.router = Halted(panel.router)]
    <2>1. PanelSound(t)
      BY <1>1, StopsAudioFacts
    <2>2. Yields({t})
      BY <1>7 DEF StopAudio
    <2> HIDE DEF t
    <2> QED BY <2>1, <2>2, YieldsKeeps
  <1>8. CASE StopMirror
    <2>1. PICK k \in DOMAIN panel.mirrors :
            Yields({[panel EXCEPT !.mirrors[k] = Halted(panel.mirrors[k])]})
      BY <1>8 DEF StopMirror
    <2> DEFINE slot == Halted(panel.mirrors[k])
               t == [panel EXCEPT !.mirrors[k] = slot]
    <2>2. PanelSound(t)
      BY <1>1, RowEndsFacts
    <2>3. Yields({t})
      BY <2>1
    <2> HIDE DEF t
    <2> QED BY <2>2, <2>3, YieldsKeeps
  <1> QED BY <1>2, <1>3, <1>4, <1>5, <1>6, <1>7, <1>8

\* What a start leaves is sound, and what it has saved is in the file.
LEMMA StartKeepsSound ==
    ASSUME ControlSound, StartAll \/ RunPreset \/ OpenMirror
    PROVE  StartIsSound
  <1>1. /\ PanelSound(panel) /\ system \in Systems
        /\ Picking => panel.picked \in DOMAIN panel.book.presets
    BY PanelFacts DEF ControlSound, Picking
  <1>2. ASSUME StartAll \/ RunPreset PROVE StartSound(panel, panel')
    <2>1. ASSUME RunPreset PROVE StartSound(panel, panel')
      BY <1>1, <2>1, RunsPresetFacts DEF RunPreset, Searching, Yields
    <2>2. ASSUME StartAll PROVE StartSound(panel, panel')
      BY <1>1, <2>2, StartsFacts DEF StartAll, Searching, Yields
    <2> QED BY <1>2, <2>1, <2>2
  <1>3. ASSUME OpenMirror
        PROVE  /\ Spares(panel, panel')
               /\ \E k : BegunIn(panel, panel') \subseteq {k} /\ k # 0
    <2>1. PICK k \in DOMAIN panel.mirrors : panel' \in OpensMirror(panel, k)
      BY <1>3 DEF OpenMirror, Yields
    <2> QED BY <1>1, <2>1, OpensMirrorFacts
  <1>4. file # Nil => file' = panel'.book
    BY DEF ControlSound, StartAll, RunPreset, OpenMirror, Yields
  <1>5. Begun = BegunIn(panel, panel')
    BY DEF Begun, BegunIn
  <1> HIDE DEF StartAll, RunPreset, OpenMirror
  <1>6. Spares(panel, panel')
    BY <1>2, <1>3 DEF StartSound
  <1>7. 0 \in Begun =>
          /\ RouteKnown(panel'.setup.audio, IF Living(panel.router) THEN panel'.sound ELSE Sounds)
          /\ panel'.book.last = panel'.setup /\ file' = panel'.book
    BY <1>2, <1>3, <1>4, <1>5 DEF StartSound
  <1>8. (StartAll \/ RunPreset) /\ system.kills => Begun = {} \/ AllEnabledRun(panel')
    BY <1>2, <1>5 DEF StartSound
  <1>9. OpenMirror => \A k, l \in Begun : k = l /\ k # 0
    BY <1>3, <1>5
  <1> QED BY <1>6, <1>7, <1>8, <1>9 DEF StartIsSound, Spares

LEMMA FrontFacts ==
    ASSUME NEW S, NEW q \in Seq(S), Len(q) > 1
    PROVE  /\ Front(q) \in Seq(S) /\ Len(Front(q)) = Len(q) - 1
           /\ \A j \in 1..Len(q) - 1 : Front(q)[j] = q[j]
  <1>1. Len(q) \in Nat /\ 1 \in 1..Len(q) + 1 /\ Len(q) - 1 \in 1..Len(q)
        /\ \A j \in 1..Len(q) : q[j] \in S
    BY SeqIsFunction
  <1>2. /\ SubSeq(q, 1, Len(q) - 1) \in Seq(S) /\ Len(SubSeq(q, 1, Len(q) - 1)) = Len(q) - 1
        /\ \A j \in 1..Len(q) - 1 : SubSeq(q, 1, Len(q) - 1)[j] = q[j]
    BY <1>1
  <1> QED BY <1>2 DEF Front

\* The settings of rows and the rows' children are edited together.
Revised(s, setup, mirrors) == [s EXCEPT !.setup = setup, !.mirrors = mirrors]

LEMMA SetupChanged ==
    ASSUME NEW s, PanelSound(s), NEW setup \in PanelSettings,
           NEW mirrors \in Seq(Slots(RowSettings)), RouterSound(s.router, setup.audio),
           RowsSound(mirrors, setup.rows)
    PROVE  LET t == Revised(s, setup, mirrors) IN
           PanelSound(t) /\ t.book = s.book /\ t.router = s.router /\ t.mirrors = mirrors
  <1> DEFINE t == Revised(s, setup, mirrors)
  <1>1. s \in PanelStates /\ (s.picked # Nil => s.picked \in DOMAIN s.book.presets)
    BY PanelFacts
  <1>2. /\ t \in PanelStates /\ t.setup = setup /\ t.mirrors = mirrors /\ t.router = s.router
        /\ t.book = s.book /\ t.picked = s.picked
    BY <1>1 DEF PanelStates, Revised
  <1> HIDE DEF t
  <1>3. PanelSound(t)
    BY <1>1, <1>2 DEF PanelSound
  <1> QED BY <1>2, <1>3 DEF t

LEMMA TouchKeeps ==
    ASSUME ControlSound, NEW t, Touch(t), PanelSound(t), t.book = panel.book
    PROVE  ControlSound'
  <1>1. /\ PanelSound(panel') /\ panel'.book = panel.book
        /\ system' \in Systems /\ UNCHANGED file
    BY DEF Touch, ControlSound
  <1> QED BY <1>1, OtherKeeps

LEMMA EditsKeep ==
    ASSUME ControlSound, EditAudio \/ EditRow \/ AddMirror \/ RemoveMirror
    PROVE  ControlSound'
  <1> DEFINE setup == panel.setup
             rows == setup.rows
  <1>1. PanelSound(panel)
    BY DEF ControlSound
  <1>2. /\ panel \in PanelStates /\ setup \in PanelSettings
        /\ setup.audio \in AudioSettings /\ rows \in Seq(RowSettings)
        /\ panel.mirrors \in Seq(Slots(RowSettings))
        /\ Len(panel.mirrors) \in Nat /\ DOMAIN panel.mirrors = 1..Len(panel.mirrors)
        /\ Len(panel.mirrors) = Len(rows) /\ DOMAIN rows = DOMAIN panel.mirrors
        /\ \A k \in DOMAIN panel.mirrors :
             /\ panel.mirrors[k] \in Slots(RowSettings) /\ rows[k] \in RowSettings
             /\ ShownAs(panel.mirrors[k], rows[k])
        /\ RouterSound(panel.router, setup.audio)
    BY <1>1, PanelFacts
  <1>3. RowsSound(panel.mirrors, rows)
    BY <1>2 DEF RowsSound
  <1>4. CASE EditAudio
    <2>1. PICK audio \in AudioChoices : Touch([panel EXCEPT !.setup.audio = audio])
      BY <1>4 DEF EditAudio
    <2> DEFINE revised == [setup EXCEPT !.audio = audio]
               t == Revised(panel, revised, panel.mirrors)
    <2>2. audio \in AudioSettings
      BY PanelAssumption
    <2>3. revised \in PanelSettings /\ revised.audio = audio /\ revised.rows = rows
      BY <1>2, <2>2 DEF PanelSettings
    <2>4. RouterSound(panel.router, audio)
      BY <1>4 DEF EditAudio, RouterSound, ShownAs
    <2>5. Touch(t)
      <3>1. t = [panel EXCEPT !.setup.audio = audio]
        BY <1>2 DEF PanelStates, Revised
      <3> QED BY <2>1, <3>1
    <2> HIDE DEF revised, rows, setup
    <2>6. /\ PanelSound(t) /\ t.book = panel.book /\ t.router = panel.router
          /\ t.mirrors = panel.mirrors
      BY <1>1, <1>2, <1>3, <2>3, <2>4, SetupChanged
    <2> HIDE DEF t
    <2> QED BY <2>5, <2>6, TouchKeeps
  <1>5. CASE EditRow
    <2>1. PICK k \in DOMAIN panel.mirrors, row \in RowChoices :
            ~Living(panel.mirrors[k]) /\ Touch([panel EXCEPT !.setup.rows[k] = row])
      BY <1>5 DEF EditRow
    <2> DEFINE changed == [rows EXCEPT ![k] = row]
               revised == [setup EXCEPT !.rows = changed]
               t == Revised(panel, revised, panel.mirrors)
    <2>2. row \in RowSettings
      BY PanelAssumption
    <2>3. /\ changed \in Seq(RowSettings) /\ Len(changed) = Len(rows)
          /\ \A j \in DOMAIN rows : changed[j] = IF j = k THEN row ELSE rows[j]
      BY <1>2, <2>2, ExceptSeq
    <2>4. Touch(t)
      <3>1. t = [panel EXCEPT !.setup.rows[k] = row]
        BY <1>2 DEF PanelStates, PanelSettings, Revised
      <3> QED BY <2>1, <3>1
    <2> HIDE DEF changed
    <2>5. revised \in PanelSettings /\ revised.audio = setup.audio /\ revised.rows = changed
      BY <1>2, <2>3 DEF PanelSettings
    <2> HIDE DEF revised, rows, setup
    <2>6. RowsSound(panel.mirrors, changed)
      BY <1>2, <2>1, <2>3 DEF RowsSound, ShownAs
    <2>7. /\ PanelSound(t) /\ t.book = panel.book /\ t.router = panel.router
          /\ t.mirrors = panel.mirrors
      BY <1>1, <1>2, <2>5, <2>6, SetupChanged
    <2> HIDE DEF t
    <2> QED BY <2>4, <2>7, TouchKeeps
  <1>6. CASE AddMirror
    <2> DEFINE row == [on |-> TRUE, screen |-> Nil]
               more == Append(rows, row)
               mirrors == Append(panel.mirrors, Resting)
               revised == [setup EXCEPT !.rows = more]
               t == Revised(panel, revised, mirrors)
    <2>1. Touch(t)
      <3>1. t = [panel EXCEPT !.setup.rows = Append(@, row), !.mirrors = Append(@, Resting)]
        BY <1>2 DEF PanelStates, Revised
      <3> QED BY <1>6, <3>1 DEF AddMirror
    <2>2. row \in RowSettings /\ Resting \in Slots(RowSettings) /\ ~Living(Resting)
      BY RestingFacts DEF RowSettings
    <2> HIDE DEF row
    <2>3. /\ more \in Seq(RowSettings) /\ Len(more) = Len(rows) + 1
          /\ \A j \in 1..Len(rows) : more[j] = rows[j]
      BY <1>2, <2>2, AppendProperties
    <2>4. /\ mirrors \in Seq(Slots(RowSettings)) /\ Len(mirrors) = Len(panel.mirrors) + 1
          /\ \A j \in 1..Len(panel.mirrors) : mirrors[j] = panel.mirrors[j]
          /\ mirrors[Len(panel.mirrors) + 1] = Resting
      BY <1>2, <2>2, AppendProperties
    <2>5. DOMAIN mirrors = 1..Len(panel.mirrors) + 1
      BY <1>2, <2>4, SeqIsFunction
    <2> HIDE DEF more, mirrors
    <2>6. revised \in PanelSettings /\ revised.audio = setup.audio /\ revised.rows = more
      BY <1>2, <2>3 DEF PanelSettings
    <2> HIDE DEF revised, rows, setup
    <2>7. RowsSound(mirrors, more)
      <3>1. ASSUME NEW j \in 1..Len(mirrors) PROVE ShownAs(mirrors[j], more[j])
        <4>1. CASE j = Len(panel.mirrors) + 1
          BY <2>2, <2>4, <4>1 DEF ShownAs
        <4>2. CASE j # Len(panel.mirrors) + 1
          <5>1. j \in 1..Len(panel.mirrors)
            BY <1>2, <2>4, <4>2
          <5> QED BY <1>2, <2>3, <2>4, <5>1
        <4> QED BY <4>1, <4>2
      <3> QED BY <1>2, <2>3, <2>4, <3>1 DEF RowsSound
    <2>8. /\ PanelSound(t) /\ t.book = panel.book /\ t.router = panel.router
          /\ t.mirrors = mirrors
      BY <1>1, <1>2, <2>4, <2>6, <2>7, SetupChanged
    <2> HIDE DEF t
    <2> QED BY <2>1, <2>8, TouchKeeps
  <1>7. CASE RemoveMirror
    <2> DEFINE fewer == Front(rows)
               mirrors == Front(panel.mirrors)
               revised == [setup EXCEPT !.rows = fewer]
               t == Revised(panel, revised, mirrors)
    <2>1. Touch(t) /\ Len(panel.mirrors) > 1 /\ ~SomethingRuns(panel)
      <3>1. t = [panel EXCEPT !.setup.rows = Front(@), !.mirrors = Front(@)]
        BY <1>2 DEF PanelStates, Revised
      <3> QED BY <1>7, <3>1 DEF RemoveMirror
    <2>2. /\ fewer \in Seq(RowSettings) /\ Len(fewer) = Len(rows) - 1
          /\ \A j \in 1..Len(rows) - 1 : fewer[j] = rows[j]
      BY <1>2, <2>1, FrontFacts
    <2>3. /\ mirrors \in Seq(Slots(RowSettings)) /\ Len(mirrors) = Len(panel.mirrors) - 1
          /\ \A j \in 1..Len(panel.mirrors) - 1 : mirrors[j] = panel.mirrors[j]
      BY <1>2, <2>1, FrontFacts
    <2>4. Len(mirrors) \in Nat /\ DOMAIN mirrors = 1..Len(mirrors)
      BY <2>3, SeqIsFunction
    <2> HIDE DEF fewer, mirrors
    <2>5. revised \in PanelSettings /\ revised.audio = setup.audio /\ revised.rows = fewer
      BY <1>2, <2>2 DEF PanelSettings
    <2> HIDE DEF revised, rows, setup
    <2>6. RowsSound(mirrors, fewer)
      BY <1>2, <2>2, <2>3 DEF RowsSound
    <2>7. /\ PanelSound(t) /\ t.book = panel.book /\ t.router = panel.router
          /\ t.mirrors = mirrors
      BY <1>1, <1>2, <2>3, <2>5, <2>6, SetupChanged
    <2> HIDE DEF t
    <2> QED BY <2>1, <2>7, TouchKeeps
  <1> QED BY <1>4, <1>5, <1>6, <1>7

\* What happens without a click.
LEMMA HappensKeep ==
    ASSUME ControlSound, DevicesArrive \/ ChildEnds \/ SystemChanges \/ Reopen
    PROVE  ControlSound'
  <1>1. /\ PanelSound(panel) /\ panel \in PanelStates /\ system \in Systems
        /\ file \in PanelBooks \cup {Nil} /\ (file # Nil => file = panel.book)
    BY PanelFacts DEF ControlSound
  <1>2. CASE DevicesArrive
    <2>1. PICK sound \in {Sounds, NoSound}, screens \in {system.screens, {}} :
            panel' = [panel EXCEPT !.lookup.found = [sound |-> sound, screens |-> screens]]
      BY <1>2 DEF DevicesArrive
    <2> DEFINE found == [sound |-> sound, screens |-> screens]
               Found == {Nil} \cup [sound : SoundLists, screens : SUBSET Screens]
               lookup == [panel.lookup EXCEPT !.found = found]
    <2>2. sound \in SoundLists /\ screens \in SUBSET Screens
      BY <1>1 DEF Sounds, NoSound, SoundLists, Systems
    <2>3. lookup \in Lookups
      <3>1. panel.lookup \in [asked : {TRUE}, found : Found]
        BY <1>2 DEF DevicesArrive, NewLookup
      <3>2. found \in Found
        BY <2>2
      <3>3. lookup \in [asked : {TRUE}, found : Found]
        <4> HIDE DEF found, Found
        <4> QED BY <3>1, <3>2
      <3> HIDE DEF lookup
      <3> QED BY <3>3 DEF Lookups
    <2>4. panel' = [panel EXCEPT !.lookup = lookup]
      BY <1>1, <2>1 DEF PanelStates
    <2> HIDE DEF lookup
    <2>5. /\ panel' \in PanelStates /\ panel'.setup = panel.setup /\ panel'.book = panel.book
          /\ panel'.router = panel.router /\ panel'.mirrors = panel.mirrors
          /\ panel'.picked = panel.picked
      BY <1>1, <2>3, <2>4 DEF PanelStates
    <2>6. PanelSound(panel')
      BY <1>1, <2>5 DEF PanelSound
    <2>7. system' \in Systems /\ UNCHANGED file
      BY <1>1, <1>2 DEF DevicesArrive
    <2> QED BY <2>5, <2>6, <2>7, OtherKeeps
  <1>3. CASE ChildEnds
    <2>1. system' \in Systems /\ UNCHANGED file
      BY <1>1, <1>3 DEF ChildEnds
    <2>2. CASE panel' = [panel EXCEPT !.router.gone = TRUE]
      <3> DEFINE t == [panel EXCEPT !.router.gone = TRUE]
      <3>1. PanelSound(t) /\ t.book = panel.book
        BY <1>1, RouterEnds
      <3>2. panel' = t
        BY <2>2
      <3> HIDE DEF t
      <3> QED BY <2>1, <3>1, <3>2, OtherKeeps
    <2>3. CASE \E k \in DOMAIN panel.mirrors : panel' = [panel EXCEPT !.mirrors[k].gone = TRUE]
      <3>1. PICK k \in DOMAIN panel.mirrors : panel' = [panel EXCEPT !.mirrors[k].gone = TRUE]
        BY <2>3
      <3> DEFINE slot == [panel.mirrors[k] EXCEPT !.gone = TRUE]
      <3>2. panel' = [panel EXCEPT !.mirrors[k] = slot] /\ panel'.book = panel.book
        BY <1>1, <3>1 DEF PanelStates
      <3>3. slot = [panel.mirrors[k] EXCEPT !.gone = TRUE]
        OBVIOUS
      <3> HIDE DEF slot
      <3>4. PanelSound(panel')
        BY <1>1, <3>2, <3>3, RowEndsFacts
      <3> QED BY <2>1, <3>2, <3>4, OtherKeeps
    <2> QED BY <1>3, <2>2, <2>3 DEF ChildEnds
  <1>4. CASE SystemChanges
    <2>1. panel' = panel /\ UNCHANGED file
      BY <1>4 DEF SystemChanges
    <2>2. system' \in Systems
      <3>1. CASE \E output \in Outputs : system' = [system EXCEPT !.default = output]
        BY <1>1, <3>1 DEF Systems
      <3>2. CASE \E screens \in SUBSET Screens : system' = [system EXCEPT !.screens = screens]
        BY <1>1, <3>2 DEF Systems
      <3>3. CASE system' = [system EXCEPT !.kills = ~@]
        <4>1. \E kills \in BOOLEAN : system' = [system EXCEPT !.kills = kills]
          BY <1>1, <3>3 DEF Systems
        <4>2. PICK kills \in BOOLEAN : system' = [system EXCEPT !.kills = kills]
          BY <4>1
        <4> QED BY <1>1, <4>2 DEF Systems
      <3> QED BY <1>4, <3>1, <3>2, <3>3 DEF SystemChanges
    <2> QED BY <1>1, <2>1, <2>2, OtherKeeps
  <1>5. CASE Reopen
    <2>1. panel' = Opened(file) /\ system' = system /\ UNCHANGED file
      BY <1>5 DEF Reopen
    <2>2. PanelSound(panel') /\ Quiet(panel') /\ (file # Nil => panel'.book = file)
      BY <1>1, <2>1, OpenedSound
    <2> QED BY <1>1, <2>1, <2>2 DEF ControlSound
  <1> QED BY <1>2, <1>3, <1>4, <1>5

LEMMA ControlStart == ControlInit => ControlSound
  <1> SUFFICES ASSUME ControlInit PROVE ControlSound
    OBVIOUS
  <1>1. file \in PanelBooks \cup {Nil} /\ panel = Opened(file)
    BY PanelAssumption DEF ControlInit
  <1>2. PanelSound(panel) /\ (file # Nil => file = panel.book)
    BY <1>1, OpenedSound
  <1>3. system \in Systems
    <2>1. (CHOOSE output \in Outputs : TRUE) \in Outputs
      BY PanelAssumption
    <2> QED BY <2>1 DEF ControlInit, Systems
  <1> QED BY <1>1, <1>2, <1>3 DEF ControlSound

LEMMA ControlStep ==
    ASSUME ControlSound, [ControlNext]_controlVars
    PROVE  ControlSound'
  <1>1. CASE ControlNext
    BY <1>1, ChoosesKeep, SavesKeep, RunsKeep, EditsKeep, HappensKeep DEF ControlNext
  <1>2. CASE UNCHANGED controlVars
    BY <1>2 DEF controlVars, ControlSound
  <1> QED BY <1>1, <1>2

\* Whatever is clicked, and whatever the system does meanwhile, what the panel shows
\* is what runs: a child was started with the settings shown for it, since what runs
\* is locked and no preset is loaded over it.
THEOREM PanelShowsTheChildren == ControlSpec => []PanelShowsWhatRuns
  <1>1. ControlSound => PanelShowsWhatRuns
    <2> SUFFICES ASSUME ControlSound PROVE PanelShowsWhatRuns
      OBVIOUS
    <2>1. /\ Len(panel.mirrors) = Len(panel.setup.rows)
          /\ ShownAs(panel.router, panel.setup.audio)
          /\ \A k \in DOMAIN panel.mirrors : ShownAs(panel.mirrors[k], panel.setup.rows[k])
          /\ panel.picked # Nil => panel.picked \in DOMAIN panel.book.presets
      BY PanelFacts DEF ControlSound, RouterSound
    <2> QED BY <2>1 DEF PanelShowsWhatRuns, ShownAs
  <1> QED BY <1>1, ControlStart, ControlStep, PTL DEF ControlSpec

\* A start is sound whatever ends, is listed or fails between its two polls. What
\* ran and had not ended is left as it is, whether the start succeeds, fails or is
\* refused; a route that is begun anew is resolved as the system is when it starts,
\* or as last listed when the panel still took it to run, and is saved with the
\* settings shown; and where children can be ended all that is enabled runs
\* afterwards or nothing has been begun.
THEOREM StartsOnlySoundly == ControlSpec => StartsAreSound
  <1>1. ControlSound /\ [ControlNext]_controlVars => ControlSound'
    BY ControlStep
  <1>2. ControlSound => [StartIsSound]_panel
    <2>1. ASSUME ~(StartAll \/ RunPreset \/ OpenMirror) PROVE StartIsSound
      BY <2>1 DEF StartIsSound
    <2> QED BY <2>1, StartKeepsSound
  <1> QED BY <1>1, <1>2, ControlStart, PTL DEF ControlSpec, StartsAreSound
=============================================================================
