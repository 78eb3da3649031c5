----------------------------- MODULE WorkspaceProofs -----------------------------
(***************************************************************************)
(* That what the workspace host shows is what its children run with, that an  *)
(* integrated preset keeps to its own parts, and that none it starts leaves    *)
(* the repeater and the monitor feeding each other: for any routes, displays,  *)
(* presets and limits, whatever fails or ends between two steps.               *)
(***************************************************************************)
EXTENDS WorkspaceJobs, QueueLemmas

JobsSpec == JobsInit /\ [][JobsNext]_jobVars

-----------------------------------------------------------------------------
(* Types.                                                                    *)

ChildWith(S) == [real : BOOLEAN, with : S] \cup {Nothing}

DataTypes ==
    /\ draft \in Settings /\ cable \in Cable
    /\ audio \in ChildWith(Audios)
    /\ monitor \in ChildWith(Cable)
    /\ mirrors \in [Mirror -> ChildWith(Row)]

\* What a command or a step of one brings with it.
Typed(step) ==
    /\ step.kind \in {"audio.select", "audio"} => step.audio \in Audios
    /\ step.kind = "cable.select" => step.route \in Cables
    /\ step.kind = "cable.volume" => step.gain \in Gains
    /\ step.kind \in {"cable.preset.load", "cable.preset.run", "cable", "settings.reload"}
        => step.cable \in Cable
    /\ step.kind = "mirror.settings" => step.row \in Row
    /\ step.kind \in {"settings.reload", "preset.load", "audio.preset.load", "display.preset.load",
                      "audio.preset.run", "display.preset.run"}
        => step.settings \in Settings
    /\ step.kind = "displays" => step.rows \in Rows
    /\ step.kind = "bundle" => step.bundle \in Bundle

BundleUnderWay == script.of # Nothing /\ script.of.kind = "bundle"

\* A step that the integrated preset of the command needs.
Brought(step, command) ==
    /\ step.kind \in {"bundle", "poll", "audio", "audio.start", "cable", "cable.start",
                      "displays", "mirror.run", "mirror.start"}
    /\ step.kind = "bundle" => step = command
    /\ step.kind \in {"audio", "audio.start"} => command.bundle.audio # Nothing
    /\ step.kind = "audio" => step.audio = command.bundle.audio
    /\ step.kind \in {"cable", "cable.start"} => command.bundle.cable # Nothing
    /\ step.kind = "cable" => step.cable = command.bundle.cable
    /\ step.kind \in {"displays", "mirror.run", "mirror.start"} => command.bundle.rows # Nothing

ScriptTypes ==
    /\ script = [of |-> script.of, todo |-> script.todo]
    /\ IsQueue(script.todo)
    /\ \A i \in 1..Len(script.todo) : Typed(script.todo[i])
    /\ BundleUnderWay => \A i \in 1..Len(script.todo) : Brought(script.todo[i], script.of)

LEMMA RowsFacts ==
    ASSUME NEW rows \in Rows
    PROVE  /\ rows \in Seq(Row) /\ IsQueue(rows)
           /\ Len(rows) \in 1..MaxRows /\ DOMAIN rows = 1..Len(rows)
           /\ DOMAIN rows \subseteq Mirror
           /\ \A i \in DOMAIN rows : rows[i] \in Row
  <1>1. PICK n \in 1..MaxRows : rows \in [1..n -> Row]
    BY DEF Rows
  <1>2. n \in Nat /\ MaxRows \in Nat
    BY <1>1, WorkspaceAssumption
  <1>3. rows \in Seq(Row) /\ DOMAIN rows = 1..n /\ Len(rows) = n
    BY <1>1, <1>2
  <1> QED BY <1>1, <1>2, <1>3, QueueOf DEF Mirror

LEMMA RowsFrom ==
    ASSUME NEW rows \in Seq(Row), Len(rows) \in 1..MaxRows
    PROVE  rows \in Rows
  BY LenProperties DEF Rows

LEMMA EnabledFacts ==
    ASSUME NEW rows \in Rows PROVE Enabled(rows) \in Rows
  <1>1. PICK n \in 1..MaxRows : rows \in [1..n -> Row]
    BY DEF Rows
  <1>2. 1 \in 1..n
    BY WorkspaceAssumption
  <1>3. rows[1] \in Row
    BY <1>1, <1>2
  <1>4. [rows EXCEPT ![1].on = TRUE] \in [1..n -> Row]
    BY <1>1, <1>2, <1>3 DEF Row
  <1> QED BY <1>1, <1>4 DEF Enabled, Rows

-----------------------------------------------------------------------------
(* How a script goes on.                                                     *)

LEMMA ExecuteFacts ==
    ASSUME NEW command
    PROVE  /\ IsQueue(Execute(command)) /\ Len(Execute(command)) = 2
           /\ Execute(command)[1] = [kind |-> "poll"] /\ Execute(command)[2] = command
  <1>1. Execute(command) \in Seq({[kind |-> "poll"], command})
    BY DEF Execute
  <1> QED BY <1>1, QueueOf DEF Execute

\* Steps that take the place of the one that is done.
Steps(steps) ==
    /\ IsQueue(steps)
    /\ \A i \in 1..Len(steps) :
        /\ Typed(steps[i]) /\ steps[i].kind # "bundle"
        /\ BundleUnderWay => Brought(steps[i], script.of)

Moves == Failed \/ \E steps : Steps(steps) /\ Continue(steps)

LEMMA DoneMoves == ASSUME Done PROVE Moves
  BY EmptyQueue DEF Done, Moves, Steps

LEMMA ExecuteMoves ==
    ASSUME NEW command, Typed(command), command.kind # "bundle", Continue(Execute(command)),
           BundleUnderWay => Brought(command, script.of)
    PROVE  Moves
  <1> DEFINE steps == Execute(command)
  <1>1. IsQueue(steps) /\ Len(steps) = 2 /\ steps[1] = [kind |-> "poll"] /\ steps[2] = command
    BY ExecuteFacts
  <1>2. \A i \in 1..Len(steps) : i = 1 \/ i = 2
    BY <1>1
  <1>3. Typed(steps[1]) /\ steps[1].kind # "bundle" /\ Brought(steps[1], script.of)
    BY <1>1 DEF Typed, Brought
  <1> QED BY <1>1, <1>2, <1>3 DEF Moves, Steps

LEMMA NowFacts ==
    ASSUME ScriptTypes, script.todo # <<>>
    PROVE  Typed(Now) /\ (BundleUnderWay => Brought(Now, script.of)) /\ Now = script.todo[1]
  BY QueueFacts, TailFacts DEF ScriptTypes, Now

\* What is left of a script when steps take the place of the first.
LEMMA TodoFacts ==
    ASSUME ScriptTypes, script.todo # <<>>, NEW steps, Steps(steps)
    PROVE  LET todo == steps \o Tail(script.todo) IN
           /\ IsQueue(todo) /\ Len(todo) = Len(steps) + Len(script.todo) - 1
           /\ \A i \in 1..Len(steps) : todo[i] = steps[i]
           /\ \A i \in 2..Len(script.todo) : \E j \in 1..Len(todo) : todo[j] = script.todo[i]
           /\ \A i \in 1..Len(todo) :
                /\ Typed(todo[i])
                /\ BundleUnderWay => Brought(todo[i], script.of)
  <1> DEFINE t == Tail(script.todo)
             todo == steps \o t
  <1>1. /\ IsQueue(t) /\ Len(t) = Len(script.todo) - 1
        /\ \A i \in 1..Len(t) : t[i] = script.todo[i + 1]
        /\ Len(script.todo) \in Nat /\ Len(steps) \in Nat /\ IsQueue(steps)
    BY TailFacts, QueueFacts DEF ScriptTypes, Steps
  <1> HIDE DEF t
  <1>2. /\ IsQueue(todo) /\ Len(todo) = Len(steps) + Len(t)
        /\ \A i \in 1..Len(steps) : todo[i] = steps[i]
        /\ \A i \in 1..Len(todo) : i > Len(steps) =>
                i - Len(steps) \in 1..Len(t) /\ todo[i] = t[i - Len(steps)]
    BY <1>1, JoinFacts
  <1> HIDE DEF todo
  <1>3. ASSUME NEW i \in 2..Len(script.todo)
        PROVE  \E j \in 1..Len(todo) : todo[j] = script.todo[i]
    <2> DEFINE j == Len(steps) + i - 1
    <2>1. /\ j \in 1..Len(todo) /\ j > Len(steps) /\ j - Len(steps) = i - 1
          /\ i - 1 \in 1..Len(t) /\ (i - 1) + 1 = i
      BY <1>1, <1>2
    <2>2. todo[j] = t[i - 1] /\ t[i - 1] = script.todo[i]
      BY <1>1, <1>2, <2>1
    <2> QED BY <2>1, <2>2
  <1>4. ASSUME NEW i \in 1..Len(todo)
        PROVE  Typed(todo[i]) /\ (BundleUnderWay => Brought(todo[i], script.of))
    <2>1. CASE i \in 1..Len(steps)
      BY <1>2, <2>1 DEF Steps
    <2>2. CASE i > Len(steps)
      <3> DEFINE k == i - Len(steps)
      <3>1. k \in 1..Len(t) /\ todo[i] = t[k] /\ k + 1 \in 1..Len(script.todo)
        BY <1>1, <1>2, <2>2
      <3>2. todo[i] = script.todo[k + 1]
        BY <1>1, <3>1
      <3> QED BY <3>1, <3>2 DEF ScriptTypes
    <2> QED BY <1>1, <1>2, <2>1, <2>2
  <1>5. Len(todo) = Len(steps) + Len(script.todo) - 1
    BY <1>1, <1>2
  <1> QED BY <1>2, <1>3, <1>4, <1>5 DEF t, todo

LEMMA RestingTypes == ASSUME script' = Resting PROVE ScriptTypes'
  <1>1. script'.todo = <<>> /\ script'.of = Nothing /\ script' = [of |-> Nothing, todo |-> <<>>]
    BY DEF Resting
  <1> QED BY <1>1, EmptyQueue DEF ScriptTypes, BundleUnderWay

LEMMA MovesTypes ==
    ASSUME ScriptTypes, script.todo # <<>>, Moves PROVE ScriptTypes'
  <1>1. CASE Failed
    BY <1>1, RestingTypes DEF Failed
  <1>2. ASSUME NEW steps, Steps(steps), Continue(steps) PROVE ScriptTypes'
    <2> DEFINE todo == steps \o Tail(script.todo)
    <2>1. /\ IsQueue(todo)
          /\ \A i \in 1..Len(todo) : Typed(todo[i]) /\ (BundleUnderWay => Brought(todo[i], script.of))
      BY <1>2, TodoFacts
    <2>2. CASE todo = <<>>
      BY <1>2, <2>2, RestingTypes DEF Continue
    <2>3. CASE todo # <<>>
      <3>1. script' = [script EXCEPT !.todo = todo]
        BY <1>2, <2>3 DEF Continue
      <3>2. script' = [of |-> script.of, todo |-> todo]
        BY <3>1 DEF ScriptTypes
      <3> HIDE DEF todo
      <3>3. script'.of = script.of /\ script'.todo = todo /\ (BundleUnderWay' <=> BundleUnderWay)
        BY <3>2 DEF BundleUnderWay
      <3> QED BY <2>1, <3>2, <3>3 DEF ScriptTypes
    <2> QED BY <2>2, <2>3
  <1> QED BY <1>1, <1>2 DEF Moves

-----------------------------------------------------------------------------
(* What a step does to settings and children.                                *)

\* What an integrated preset does not include is let alone; what it does include is
\* set by the step that is for it.
Kept(child, next) == next = PolledChild(child) \/ next = child

KeepsApart ==
    BundleUnderWay =>
        LET bundle == script.of.bundle
        IN /\ bundle.audio = Nothing => draft'.audio = draft.audio /\ Kept(audio, audio')
           /\ bundle.cable = Nothing => cable' = cable /\ Kept(monitor, monitor')
           /\ bundle.rows = Nothing =>
                /\ draft'.rows = draft.rows
                /\ \A i \in Mirror : Kept(mirrors[i], mirrors'[i])

SetsParts ==
    BundleUnderWay =>
        LET bundle == script.of.bundle
        IN /\ IF Now.kind = "audio" THEN Failed \/ draft'.audio = bundle.audio
              ELSE draft'.audio = draft.audio
           /\ IF Now.kind = "cable" THEN Failed \/ cable' = bundle.cable ELSE cable' = cable

StepSound == DataTypes' /\ RunsAsShown' /\ Moves /\ KeepsApart /\ SetsParts

JobsInv ==
    /\ DataTypes /\ ScriptTypes /\ RunsAsShown

LEMMA DraftFacts ==
    ASSUME draft \in Settings
    PROVE  /\ draft = [audio |-> draft.audio, rows |-> draft.rows]
           /\ draft.audio \in Audios /\ draft.rows \in Rows
           /\ DOMAIN draft.rows \subseteq Mirror
  BY RowsFacts DEF Settings

LEMMA PolledFacts ==
    ASSUME NEW S, NEW child \in ChildWith(S)
    PROVE  /\ PolledChild(child) \in ChildWith(S)
           /\ Alive(PolledChild(child)) => PolledChild(child) = child
  BY DEF PolledChild, Alive, ChildWith

LEMMA StopFailsMoves == ASSUME NEW child, StopFails(child) PROVE Moves
  BY DEF StopFails, Moves

\* An action that no integrated preset takes.
Foreign ==
    Now.kind \notin {"bundle", "poll", "audio", "audio.start", "cable", "cable.start",
                     "displays", "mirror.run", "mirror.start"}

LEMMA ForeignFacts ==
    ASSUME ScriptTypes, script.todo # <<>>, Foreign
    PROVE  KeepsApart /\ SetsParts
  BY NowFacts DEF Foreign, Brought, KeepsApart, SetsParts

LEMMA SameData ==
    ASSUME JobsInv, UNCHANGED <<draft, cable, audio, monitor, mirrors>>
    PROVE  DataTypes' /\ RunsAsShown' /\ KeepsApart
  BY DEF JobsInv, DataTypes, RunsAsShown, KeepsApart, Kept

LEMMA RefusedSound == ASSUME JobsInv, Refused PROVE StepSound
  <1>1. UNCHANGED <<draft, cable, audio, monitor, mirrors>> /\ Failed /\ script.todo # <<>>
        /\ Now.kind # "audio" /\ Now.kind # "cable"
    BY DEF Refused, settings, children
  <1> QED BY <1>1, SameData DEF StepSound, Moves, SetsParts

LEMMA PollSound == ASSUME JobsInv, PollChildren PROVE StepSound
  <1>1. /\ script.todo # <<>> /\ Now.kind = "poll" /\ Done
        /\ audio' = PolledChild(audio) /\ monitor' = PolledChild(monitor)
        /\ mirrors' = [i \in Mirror |-> PolledChild(mirrors[i])]
        /\ draft' = draft /\ cable' = cable
    BY DEF PollChildren, AtStep, settings
  <1>2. /\ audio' \in ChildWith(Audios) /\ (Alive(audio') => audio' = audio)
        /\ monitor' \in ChildWith(Cable) /\ (Alive(monitor') => monitor' = monitor)
    BY <1>1, PolledFacts DEF JobsInv, DataTypes
  <1>3. \A i \in Mirror : /\ mirrors'[i] \in ChildWith(Row)
                          /\ mirrors'[i] = PolledChild(mirrors[i])
                          /\ Alive(mirrors'[i]) => mirrors'[i] = mirrors[i]
    BY <1>1, PolledFacts DEF JobsInv, DataTypes
  <1>4. DataTypes'
    BY <1>1, <1>2, <1>3 DEF DataTypes, JobsInv
  <1>5. RunsAsShown'
    <2>1. Alive(audio') => audio'.with = draft'.audio
      BY <1>1, <1>2 DEF JobsInv, RunsAsShown
    <2>2. Alive(monitor') => /\ monitor'.with.route = cable'.route
                             /\ monitor'.real => monitor'.with.gain = cable'.gain
      BY <1>1, <1>2 DEF JobsInv, RunsAsShown
    <2>3. \A i \in Mirror : Alive(mirrors'[i]) =>
             i \in DOMAIN draft'.rows /\ mirrors'[i].with = draft'.rows[i]
      BY <1>1, <1>3 DEF JobsInv, RunsAsShown
    <2> QED BY <2>1, <2>2, <2>3 DEF RunsAsShown
  <1>6. KeepsApart
    BY <1>1, <1>3 DEF KeepsApart, Kept
  <1> QED BY <1>1, <1>4, <1>5, <1>6, DoneMoves DEF StepSound, SetsParts

\* The repeater is stopped, for another route or for none.
LEMMA RepeaterFacts ==
    ASSUME JobsInv, NEW a \in Audios,
           draft' = [draft EXCEPT !.audio = a],
           UNCHANGED <<cable, monitor, mirrors>>,
           audio' \in ChildWith(Audios), Alive(audio') => audio'.with = a
    PROVE  /\ DataTypes' /\ RunsAsShown' /\ draft'.audio = a /\ draft'.rows = draft.rows
           /\ \A i \in Mirror : Kept(mirrors[i], mirrors'[i])
           /\ Kept(monitor, monitor')
  <1>1. draft' = [audio |-> a, rows |-> draft.rows] /\ draft.rows \in Rows
    BY DraftFacts DEF JobsInv, DataTypes
  <1>2. DataTypes'
    BY <1>1 DEF JobsInv, DataTypes, Settings
  <1>3. RunsAsShown'
    BY <1>1 DEF JobsInv, RunsAsShown
  <1> QED BY <1>1, <1>2, <1>3 DEF Kept

LEMMA SameRepeater ==
    ASSUME JobsInv, UNCHANGED <<draft, cable, monitor, mirrors>>,
           audio' \in ChildWith(Audios), Alive(audio') => audio'.with = draft.audio
    PROVE  /\ DataTypes' /\ RunsAsShown'
           /\ \A i \in Mirror : Kept(mirrors[i], mirrors'[i])
           /\ Kept(monitor, monitor')
  BY DEF JobsInv, DataTypes, RunsAsShown, Kept

LEMMA ChildFacts == ASSUME NEW S, NEW with \in S
    PROVE  /\ Child(with) \in ChildWith(S) /\ Child(with).with = with
           /\ Nothing \in ChildWith(S) /\ ~Alive(Nothing)
  BY DEF Child, ChildWith, Alive

LEMMA AudioStopSound == ASSUME JobsInv, AudioStop PROVE StepSound
  <1>1. /\ script.todo # <<>> /\ Foreign /\ audio' = Nothing /\ Moves
        /\ UNCHANGED <<draft, cable, monitor, mirrors>>
    BY DoneMoves, StopFailsMoves DEF AudioStop, AtStep, Foreign, settings
  <1>2. audio' \in ChildWith(Audios) /\ ~Alive(audio')
    BY <1>1 DEF ChildWith, Alive
  <1> QED BY <1>1, <1>2, SameRepeater, ForeignFacts DEF StepSound, JobsInv

LEMMA AudioSelectSound == ASSUME JobsInv, AudioSelect PROVE StepSound
  <1>1. /\ script.todo # <<>> /\ Foreign /\ audio' = Nothing /\ Moves /\ Now.kind = "audio.select"
        /\ UNCHANGED <<cable, monitor, mirrors>>
        /\ draft' = [draft EXCEPT !.audio = Now.audio] \/ UNCHANGED draft
    BY DoneMoves, StopFailsMoves DEF AudioSelect, AtStep, Foreign
  <1>2. audio' \in ChildWith(Audios) /\ ~Alive(audio')
    BY <1>1 DEF ChildWith, Alive
  <1>3. Now.audio \in Audios
    BY <1>1, NowFacts DEF Typed, JobsInv
  <1>4. DataTypes' /\ RunsAsShown'
    BY <1>1, <1>2, <1>3, SameRepeater, RepeaterFacts
  <1> QED BY <1>1, <1>4, ForeignFacts DEF StepSound, JobsInv

LEMMA AudioStartSound == ASSUME JobsInv, AudioStart PROVE StepSound
  <1>1. /\ script.todo # <<>> /\ Now.kind = "audio.start" /\ Moves
        /\ audio' = Child(draft.audio) /\ UNCHANGED <<draft, cable, monitor, mirrors>>
    BY DoneMoves DEF AudioStart, AtStep, settings
  <1>2. audio' \in ChildWith(Audios) /\ audio'.with = draft.audio
    BY <1>1, DraftFacts, ChildFacts DEF JobsInv, DataTypes
  <1>3. DataTypes' /\ RunsAsShown' /\ Kept(monitor, monitor')
        /\ \A i \in Mirror : Kept(mirrors[i], mirrors'[i])
    BY <1>1, <1>2, SameRepeater
  <1>4. BundleUnderWay => script.of.bundle.audio # Nothing
    BY <1>1, NowFacts DEF Brought, JobsInv
  <1> QED BY <1>1, <1>3, <1>4 DEF StepSound, KeepsApart, SetsParts

LEMMA ChangeAudioSound == ASSUME JobsInv, ChangeAudio PROVE StepSound
  <1> DEFINE stays == Now.start /\ draft.audio = Now.audio
             starts == IF Now.start /\ ~Alive(audio') THEN Execute([kind |-> "audio.start"]) ELSE <<>>
  <1>1. /\ script.todo # <<>> /\ Now.kind = "audio" /\ UNCHANGED <<cable, monitor, mirrors>>
        /\ \/ StopFails(audio) /\ audio' = Nothing /\ UNCHANGED draft
           \/ /\ audio' = IF stays THEN audio ELSE Nothing
              /\ draft' = [draft EXCEPT !.audio = Now.audio]
              /\ Continue(starts)
    BY DEF ChangeAudio, AtStep
  <1>2. Now.audio \in Audios
    BY <1>1, NowFacts DEF Typed, JobsInv
  <1>3. BundleUnderWay => script.of.bundle.audio # Nothing /\ Now.audio = script.of.bundle.audio
    BY <1>1, NowFacts DEF Brought, JobsInv
  <1>4. CASE StopFails(audio) /\ audio' = Nothing /\ UNCHANGED draft
    <2>1. audio' \in ChildWith(Audios) /\ ~Alive(audio')
      BY <1>4 DEF ChildWith, Alive
    <2>2. DataTypes' /\ RunsAsShown' /\ Kept(monitor, monitor')
          /\ \A i \in Mirror : Kept(mirrors[i], mirrors'[i])
      BY <1>1, <1>4, <2>1, SameRepeater
    <2>3. Moves /\ Failed
      BY <1>4, StopFailsMoves DEF StopFails
    <2> QED BY <1>1, <1>3, <1>4, <2>2, <2>3 DEF StepSound, KeepsApart, SetsParts
  <1>5. CASE /\ audio' = IF stays THEN audio ELSE Nothing
             /\ draft' = [draft EXCEPT !.audio = Now.audio]
             /\ Continue(starts)
    <2>1. audio' \in ChildWith(Audios) /\ (Alive(audio') => audio'.with = Now.audio)
      BY <1>5 DEF ChildWith, Alive, JobsInv, DataTypes, RunsAsShown
    <2>2. /\ DataTypes' /\ RunsAsShown' /\ Kept(monitor, monitor')
          /\ draft'.audio = Now.audio /\ draft'.rows = draft.rows
          /\ \A i \in Mirror : Kept(mirrors[i], mirrors'[i])
      BY <1>1, <1>2, <1>5, <2>1, RepeaterFacts
    <2>3. Moves
      <3> DEFINE step == [kind |-> "audio.start"]
      <3>1. Typed(step) /\ step.kind # "bundle" /\ (BundleUnderWay => Brought(step, script.of))
        BY <1>3 DEF Typed, Brought
      <3>2. CASE starts = <<>>
        BY <1>5, <3>2, DoneMoves DEF Done
      <3>3. CASE starts = Execute(step)
        BY <1>5, <3>1, <3>3, ExecuteMoves
      <3> QED BY <3>2, <3>3
    <2> QED BY <1>1, <1>3, <2>2, <2>3 DEF StepSound, KeepsApart, SetsParts
  <1> QED BY <1>1, <1>4, <1>5

-----------------------------------------------------------------------------
(* The monitor.                                                              *)

LEMMA MonitorFacts ==
    ASSUME JobsInv, UNCHANGED <<draft, audio, mirrors>>, cable' \in Cable,
           monitor' \in ChildWith(Cable),
           Alive(monitor') => monitor'.with.route = cable'.route,
           Alive(monitor') /\ monitor'.real => monitor'.with.gain = cable'.gain
    PROVE  /\ DataTypes' /\ RunsAsShown'
           /\ \A i \in Mirror : Kept(mirrors[i], mirrors'[i])
           /\ Kept(audio, audio')
  BY DEF JobsInv, DataTypes, RunsAsShown, Kept

LEMMA CableFacts ==
    /\ \A c \in Cable : /\ c = [route |-> c.route, gain |-> c.gain]
                        /\ c.route \in Cables /\ c.gain \in Gains
    /\ \A c \in Cable, route \in Cables : [c EXCEPT !.route = route] \in Cable
    /\ \A c \in Cable, gain \in Gains : /\ [c EXCEPT !.gain = gain] \in Cable
                                        /\ [c EXCEPT !.gain = gain].route = c.route
                                        /\ [c EXCEPT !.gain = gain].gain = gain
  BY DEF Cable

LEMMA WrittenFacts ==
    ASSUME JobsInv, NEW gain \in Gains, Alive(monitor)
    PROVE  /\ Written(gain) \in ChildWith(Cable)
           /\ Written(gain).with.route = cable.route
           /\ Written(gain).with.gain = gain
  <1>1. monitor \in [real : BOOLEAN, with : Cable] /\ monitor.with.route = cable.route
    BY DEF JobsInv, DataTypes, RunsAsShown, ChildWith, Alive
  <1>2. Written(gain) = [real |-> monitor.real, with |-> [monitor.with EXCEPT !.gain = gain]]
    BY <1>1 DEF Written
  <1>3. monitor.with \in Cable /\ monitor.real \in BOOLEAN
    BY <1>1
  <1> QED BY <1>1, <1>2, <1>3, CableFacts DEF ChildWith

\* Nothing is started or stopped when the pipe is broken: the settings may still
\* take another gain.
LEMMA BrokenFacts ==
    ASSUME JobsInv, UNCHANGED <<draft, audio, mirrors>>, BrokenPipe,
           cable' \in Cable, cable'.route = cable.route
    PROVE  /\ DataTypes' /\ RunsAsShown' /\ Failed /\ Moves /\ Kept(audio, audio')
           /\ \A i \in Mirror : Kept(mirrors[i], mirrors'[i])
  <1>1. monitor' = monitor /\ Alive(monitor) /\ ~monitor.real /\ Failed
    BY DEF BrokenPipe
  <1>2. monitor' \in ChildWith(Cable) /\ monitor'.with.route = cable'.route /\ ~monitor'.real
    BY <1>1 DEF JobsInv, DataTypes, RunsAsShown
  <1> QED BY <1>1, <1>2, MonitorFacts DEF Moves

LEMMA CableStopSound == ASSUME JobsInv, CableStop PROVE StepSound
  <1>1. /\ script.todo # <<>> /\ Foreign /\ monitor' = Nothing /\ Moves
        /\ UNCHANGED <<draft, cable, audio, mirrors>>
    BY DoneMoves, StopFailsMoves DEF CableStop, AtStep, Foreign, settings
  <1>2. monitor' \in ChildWith(Cable) /\ ~Alive(monitor') /\ cable' \in Cable
    BY <1>1 DEF ChildWith, Alive, JobsInv, DataTypes
  <1> QED BY <1>1, <1>2, MonitorFacts, ForeignFacts DEF StepSound, JobsInv

LEMMA CableSelectSound == ASSUME JobsInv, CableSelect PROVE StepSound
  <1>1. /\ script.todo # <<>> /\ Foreign /\ monitor' = Nothing /\ Moves /\ Now.kind = "cable.select"
        /\ UNCHANGED <<draft, audio, mirrors>>
        /\ cable' = [cable EXCEPT !.route = Now.route] \/ UNCHANGED cable
    BY DoneMoves, StopFailsMoves DEF CableSelect, AtStep, Foreign
  <1>2. Now.route \in Cables /\ cable \in Cable
    BY <1>1, NowFacts DEF Typed, JobsInv, DataTypes
  <1>3. monitor' \in ChildWith(Cable) /\ ~Alive(monitor') /\ cable' \in Cable
    BY <1>1, <1>2, CableFacts DEF ChildWith, Alive
  <1> QED BY <1>1, <1>3, MonitorFacts, ForeignFacts DEF StepSound, JobsInv

LEMMA CableVolumeSound == ASSUME JobsInv, CableVolume PROVE StepSound
  <1>1. /\ script.todo # <<>> /\ Foreign /\ Now.kind = "cable.volume"
        /\ UNCHANGED <<draft, audio, mirrors>>
        /\ cable' = [cable EXCEPT !.gain = Now.gain]
        /\ \/ Done /\ monitor' = IF Alive(monitor) THEN Written(Now.gain) ELSE monitor
           \/ BrokenPipe
    BY DEF CableVolume, AtStep, Foreign
  <1>2. Now.gain \in Gains /\ cable \in Cable /\ monitor \in ChildWith(Cable)
    BY <1>1, NowFacts DEF Typed, JobsInv, DataTypes
  <1>3. cable' \in Cable /\ cable'.route = cable.route /\ cable'.gain = Now.gain
    BY <1>1, <1>2, CableFacts
  <1>4. CASE BrokenPipe
    BY <1>1, <1>3, <1>4, BrokenFacts, ForeignFacts DEF StepSound, JobsInv
  <1>5. CASE Done /\ monitor' = IF Alive(monitor) THEN Written(Now.gain) ELSE monitor
    <2>1. Alive(monitor) => /\ Written(Now.gain) \in ChildWith(Cable)
                            /\ Written(Now.gain).with.route = cable.route
                            /\ Written(Now.gain).with.gain = Now.gain
      BY <1>2, WrittenFacts
    <2>2. /\ monitor' \in ChildWith(Cable)
          /\ Alive(monitor') => monitor'.with.route = cable'.route /\ monitor'.with.gain = cable'.gain
      <3>1. CASE Alive(monitor)
        BY <1>3, <1>5, <2>1, <3>1
      <3>2. CASE ~Alive(monitor)
        BY <1>2, <1>5, <3>2 DEF Alive
      <3> QED BY <3>1, <3>2
    <2> QED BY <1>1, <1>3, <1>5, <2>2, MonitorFacts, DoneMoves, ForeignFacts DEF StepSound, JobsInv
  <1> QED BY <1>1, <1>4, <1>5

LEMMA CableStartSound == ASSUME JobsInv, CableStart PROVE StepSound
  <1>1. /\ script.todo # <<>> /\ Now.kind = "cable.start" /\ Moves
        /\ monitor' = Child(cable) /\ UNCHANGED <<draft, cable, audio, mirrors>>
    BY DoneMoves DEF CableStart, AtStep, settings
  <1>2. monitor' \in ChildWith(Cable) /\ monitor'.with = cable' /\ cable' \in Cable
    BY <1>1, ChildFacts DEF JobsInv, DataTypes
  <1>3. /\ DataTypes' /\ RunsAsShown' /\ Kept(audio, audio')
        /\ \A i \in Mirror : Kept(mirrors[i], mirrors'[i])
    BY <1>1, <1>2, MonitorFacts
  <1>4. BundleUnderWay => script.of.bundle.cable # Nothing
    BY <1>1, NowFacts DEF Brought, JobsInv
  <1> QED BY <1>1, <1>3, <1>4 DEF StepSound, KeepsApart, SetsParts

LEMMA CablePresetLoadSound == ASSUME JobsInv, CablePresetLoad PROVE StepSound
  <1> DEFINE next == Now.cable
             same == cable.route = next.route
             loaded == CASE ~Alive(monitor) -> monitor
                         [] Alive(monitor) /\ same -> Written(next.gain)
                         [] OTHER -> Child(next)
  <1>1. /\ script.todo # <<>> /\ Foreign /\ Now.kind = "cable.preset.load"
        /\ UNCHANGED <<draft, audio, mirrors>>
        /\ \/ monitor' = loaded /\ cable' = next /\ Done
           \/ same /\ BrokenPipe /\ UNCHANGED cable
           \/ ~same /\ StopFails(monitor) /\ monitor' = Nothing /\ UNCHANGED cable
    BY DEF CablePresetLoad, AtStep, Foreign
  <1>2. next \in Cable /\ cable \in Cable /\ monitor \in ChildWith(Cable)
    BY <1>1, NowFacts DEF Typed, JobsInv, DataTypes
  <1>3. next.gain \in Gains
    BY <1>2, CableFacts
  <1> HIDE DEF next
  <1>4. CASE monitor' = loaded /\ cable' = next /\ Done
    <2>1. /\ monitor' \in ChildWith(Cable)
          /\ Alive(monitor') => monitor'.with.route = next.route /\ monitor'.with.gain = next.gain
      <3>1. CASE ~Alive(monitor)
        BY <1>2, <1>4, <3>1 DEF Alive
      <3>2. CASE Alive(monitor) /\ same
        BY <1>3, <1>4, <3>2, WrittenFacts
      <3>3. CASE Alive(monitor) /\ ~same
        BY <1>2, <1>4, <3>3, ChildFacts
      <3> QED BY <3>1, <3>2, <3>3
    <2> QED BY <1>1, <1>2, <1>4, <2>1, MonitorFacts, DoneMoves, ForeignFacts DEF StepSound, JobsInv
  <1>5. CASE same /\ BrokenPipe /\ UNCHANGED cable
    BY <1>1, <1>2, <1>5, BrokenFacts, ForeignFacts DEF StepSound, JobsInv
  <1>6. CASE ~same /\ StopFails(monitor) /\ monitor' = Nothing /\ UNCHANGED cable
    <2>1. monitor' \in ChildWith(Cable) /\ ~Alive(monitor') /\ cable' \in Cable /\ Moves
      BY <1>2, <1>6, StopFailsMoves DEF ChildWith, Alive
    <2> QED BY <1>1, <2>1, MonitorFacts, ForeignFacts DEF StepSound, JobsInv
  <1> QED BY <1>1, <1>4, <1>5, <1>6

\* A step that only says what is to be done next.
LEMMA AheadFacts ==
    ASSUME JobsInv, script.todo # <<>>, Foreign, Moves,
           UNCHANGED <<draft, cable, audio, monitor, mirrors>>
    PROVE  StepSound
  BY SameData, ForeignFacts DEF StepSound, JobsInv

LEMMA ForeignIsNoBundle ==
    ASSUME ScriptTypes, script.todo # <<>>, Foreign PROVE ~BundleUnderWay
  BY NowFacts DEF Foreign, Brought

LEMMA ThirdFacts ==
    ASSUME NEW q, IsQueue(q), Len(q) = 2, NEW e
    PROVE  LET r == Append(q, e) IN
           /\ IsQueue(r) /\ Len(r) = 3 /\ r[1] = q[1] /\ r[2] = q[2] /\ r[3] = e
  <1> DEFINE r == Append(q, e)
  <1>1. /\ IsQueue(r) /\ Len(r) = Len(q) + 1 /\ r[Len(q) + 1] = e
        /\ \A i \in 1..Len(q) : r[i] = q[i]
    BY ONLY IsQueue(q), AppendFacts
  <1> HIDE DEF r
  <1>2. 1 \in 1..Len(q) /\ 2 \in 1..Len(q) /\ Len(q) + 1 = 3
    OBVIOUS
  <1> QED BY <1>1, <1>2 DEF r

LEMMA CablePresetRunSound == ASSUME JobsInv, CablePresetRun PROVE StepSound
  <1> DEFINE load == [kind |-> "cable.preset.load", cable |-> Now.cable]
             run == [kind |-> "cable.run"]
             steps == Append(Execute(load), run)
  <1>1. /\ script.todo # <<>> /\ Foreign /\ Now.kind = "cable.preset.run" /\ Continue(steps)
        /\ UNCHANGED <<draft, cable, audio, monitor, mirrors>>
    BY DEF CablePresetRun, AtStep, Foreign, settings, children
  <1>2. ~BundleUnderWay /\ Now.cable \in Cable
    BY <1>1, ForeignIsNoBundle, NowFacts DEF Typed, JobsInv
  <1>3. Typed(load) /\ Typed(run) /\ Typed([kind |-> "poll"])
        /\ load.kind # "bundle" /\ run.kind # "bundle"
    BY <1>2 DEF Typed
  <1>4. /\ IsQueue(steps) /\ Len(steps) = 3
        /\ steps[1] = [kind |-> "poll"] /\ steps[2] = load /\ steps[3] = run
    <2>1. /\ IsQueue(Execute(load)) /\ Len(Execute(load)) = 2
          /\ Execute(load)[1] = [kind |-> "poll"] /\ Execute(load)[2] = load
      BY ExecuteFacts
    <2> HIDE DEF load, run
    <2> DEFINE first == Execute(load)
    <2>2. /\ IsQueue(first) /\ Len(first) = 2
          /\ first[1] = [kind |-> "poll"] /\ first[2] = load /\ steps = Append(first, run)
      BY <2>1
    <2> HIDE DEF first, steps
    <2>3. /\ IsQueue(Append(first, run)) /\ Len(Append(first, run)) = 3
          /\ Append(first, run)[1] = first[1] /\ Append(first, run)[2] = first[2]
          /\ Append(first, run)[3] = run
      BY <2>2, ThirdFacts
    <2> QED BY <2>2, <2>3
  <1> HIDE DEF steps, load, run
  <1>5. \A i \in 1..Len(steps) : i = 1 \/ i = 2 \/ i = 3
    BY <1>4
  <1>6. Moves
    BY <1>1, <1>2, <1>3, <1>4, <1>5 DEF Moves, Steps
  <1> QED BY <1>1, <1>6, AheadFacts

LEMMA CableRunSound == ASSUME JobsInv, CableRun PROVE StepSound
  <1> DEFINE step == [kind |-> "cable.start"]
  <1>1. /\ script.todo # <<>> /\ Foreign
        /\ Continue(IF Alive(monitor) THEN <<>> ELSE Execute(step))
        /\ UNCHANGED <<draft, cable, audio, monitor, mirrors>>
    BY DEF CableRun, AtStep, Foreign, settings, children
  <1>2. ~BundleUnderWay
    BY <1>1, ForeignIsNoBundle DEF JobsInv
  <1>3. Typed(step) /\ step.kind # "bundle"
    BY DEF Typed
  <1>4. CASE Alive(monitor)
    <2>1. Done
      BY <1>1, <1>4 DEF Done
    <2> QED BY <1>1, <2>1, DoneMoves, AheadFacts
  <1>5. CASE ~Alive(monitor)
    <2>1. Moves
      BY <1>1, <1>2, <1>3, <1>5, ExecuteMoves
    <2> QED BY <1>1, <2>1, AheadFacts
  <1> QED BY <1>4, <1>5

LEMMA ChangeCableSound == ASSUME JobsInv, ChangeCable PROVE StepSound
  <1> DEFINE next == Now.cable
             stays == Now.start /\ cable.route = next.route
             step == [kind |-> "cable.start"]
             starts == IF Now.start THEN Execute(step) ELSE <<>>
  <1>1. /\ script.todo # <<>> /\ Now.kind = "cable" /\ UNCHANGED <<draft, audio, mirrors>>
        /\ \/ StopFails(monitor) /\ monitor' = Nothing /\ UNCHANGED cable
           \/ /\ cable' = next
              /\ IF stays /\ Alive(monitor)
                 THEN BrokenPipe \/ (Done /\ monitor' = Written(next.gain))
                 ELSE monitor' = Nothing /\ Continue(starts)
    BY DEF ChangeCable, AtStep
  <1>2. next \in Cable /\ cable \in Cable
    BY <1>1, NowFacts DEF Typed, JobsInv, DataTypes
  <1>3. BundleUnderWay => script.of.bundle.cable # Nothing /\ next = script.of.bundle.cable
    BY <1>1, NowFacts DEF Brought, JobsInv
  <1>4. next.gain \in Gains
    BY <1>2, CableFacts
  <1> DEFINE Sound == /\ DataTypes' /\ RunsAsShown' /\ Moves /\ Kept(audio, audio')
                      /\ \A i \in Mirror : Kept(mirrors[i], mirrors'[i])
                      /\ Failed \/ cable' = next
  <1> HIDE DEF next, stays, step
  <1>5. ASSUME monitor' = Nothing, cable' \in Cable
        PROVE  /\ DataTypes' /\ RunsAsShown' /\ Kept(audio, audio')
               /\ \A i \in Mirror : Kept(mirrors[i], mirrors'[i])
    <2>1. monitor' \in ChildWith(Cable) /\ ~Alive(monitor')
      BY <1>5 DEF ChildWith, Alive
    <2> QED BY <1>1, <1>5, <2>1, MonitorFacts
  <1>6. Sound
    <2>1. CASE StopFails(monitor) /\ monitor' = Nothing /\ UNCHANGED cable
      <3>1. Moves /\ Failed /\ cable' \in Cable
        BY <1>2, <2>1, StopFailsMoves DEF StopFails
      <3> QED BY <1>5, <2>1, <3>1
    <2>2. CASE stays /\ Alive(monitor) /\ cable' = next /\ BrokenPipe
      <3>1. cable' \in Cable /\ cable'.route = cable.route
        BY <1>2, <2>2 DEF stays
      <3> QED BY <1>1, <2>2, <3>1, BrokenFacts
    <2>3. CASE stays /\ Alive(monitor) /\ cable' = next /\ Done /\ monitor' = Written(next.gain)
      <3>1. /\ monitor' \in ChildWith(Cable) /\ monitor'.with.route = cable'.route
            /\ monitor'.with.gain = cable'.gain /\ cable' \in Cable
        BY <1>2, <1>4, <2>3, WrittenFacts DEF stays
      <3> QED BY <1>1, <2>3, <3>1, MonitorFacts, DoneMoves
    <2>4. CASE cable' = next /\ monitor' = Nothing /\ Continue(starts)
      <3>1. Moves
        <4>1. Typed(step) /\ step.kind # "bundle" /\ (BundleUnderWay => Brought(step, script.of))
          BY <1>3 DEF Typed, Brought, step
        <4>2. CASE starts = <<>>
          BY <2>4, <4>2, DoneMoves DEF Done
        <4>3. CASE starts = Execute(step)
          BY <2>4, <4>1, <4>3, ExecuteMoves
        <4> QED BY <4>2, <4>3
      <3> QED BY <1>2, <1>5, <2>4, <3>1
    <2> QED BY <1>1, <2>1, <2>2, <2>3, <2>4
  <1> QED BY <1>1, <1>3, <1>6 DEF StepSound, KeepsApart, SetsParts

-----------------------------------------------------------------------------
(* The mirrors.                                                              *)

LEMMA MirrorsFacts ==
    ASSUME JobsInv, UNCHANGED <<cable, audio, monitor>>,
           draft' \in Settings, draft'.audio = draft.audio,
           mirrors' \in [Mirror -> ChildWith(Row)],
           \A i \in Mirror : Alive(mirrors'[i]) =>
                i \in DOMAIN draft'.rows /\ mirrors'[i].with = draft'.rows[i]
    PROVE  DataTypes' /\ RunsAsShown' /\ Kept(audio, audio') /\ Kept(monitor, monitor')
  BY DEF JobsInv, DataTypes, RunsAsShown, Kept

LEMMA StoppedFacts ==
    NoMirrors \in [Mirror -> ChildWith(Row)] /\ \A i \in Mirror : ~Alive(NoMirrors[i])
  BY DEF NoMirrors, ChildWith, Alive

LEMMA MirrorSettingsSound == ASSUME JobsInv, MirrorSettings PROVE StepSound
  <1> DEFINE k == Now.index
             row == Now.row
  <1>1. /\ script.todo # <<>> /\ Foreign /\ Now.kind = "mirror.settings" /\ Done
        /\ k \in DOMAIN draft.rows /\ ~Alive(mirrors[k])
        /\ draft' = [draft EXCEPT !.rows[k] = row]
        /\ UNCHANGED <<cable, audio, monitor, mirrors>>
    BY DEF MirrorSettings, AtStep, Foreign, children
  <1>2. row \in Row
    BY <1>1, NowFacts DEF Typed, JobsInv
  <1> HIDE DEF k, row
  <1> DEFINE rows == [draft.rows EXCEPT ![k] = row]
  <1>3. /\ draft = [audio |-> draft.audio, rows |-> draft.rows] /\ draft.audio \in Audios
        /\ draft.rows \in Rows
    BY DraftFacts DEF JobsInv, DataTypes
  <1>4. /\ rows \in Rows /\ DOMAIN rows = DOMAIN draft.rows
        /\ \A i \in DOMAIN rows : i # k => rows[i] = draft.rows[i]
    BY <1>1, <1>2, <1>3 DEF Rows
  <1>5. draft' = [audio |-> draft.audio, rows |-> rows]
    BY <1>1, <1>3
  <1> HIDE DEF rows
  <1>6. draft' \in Settings /\ draft'.audio = draft.audio /\ draft'.rows = rows
    BY <1>3, <1>4, <1>5 DEF Settings
  <1>7. ASSUME NEW i \in Mirror, Alive(mirrors'[i])
        PROVE  i \in DOMAIN draft'.rows /\ mirrors'[i].with = draft'.rows[i]
    <2>1. Alive(mirrors[i]) /\ i # k
      BY <1>1, <1>7
    <2>2. i \in DOMAIN draft.rows /\ mirrors[i].with = draft.rows[i]
      BY <2>1 DEF JobsInv, RunsAsShown
    <2> QED BY <1>1, <1>4, <1>6, <2>1, <2>2
  <1>8. mirrors' \in [Mirror -> ChildWith(Row)]
    BY <1>1 DEF JobsInv, DataTypes
  <1> QED BY <1>1, <1>6, <1>7, <1>8, MirrorsFacts, DoneMoves, ForeignFacts DEF StepSound, JobsInv

LEMMA MirrorAddSound == ASSUME JobsInv, MirrorAdd PROVE StepSound
  <1>1. PICK to \in Displays :
            /\ script.todo # <<>> /\ Foreign /\ Done /\ Len(draft.rows) < MaxRows
            /\ draft' = [draft EXCEPT !.rows = Append(@, [on |-> FALSE, to |-> to])]
            /\ UNCHANGED <<cable, audio, monitor, mirrors>>
    BY DEF MirrorAdd, AtStep, Foreign, children
  <1> DEFINE row == [on |-> FALSE, to |-> to]
             old == draft.rows
             rows == Append(old, row)
  <1>2. draft = [audio |-> draft.audio, rows |-> old] /\ draft.audio \in Audios /\ old \in Rows
    BY DraftFacts DEF JobsInv, DataTypes
  <1>3. draft' = [audio |-> draft.audio, rows |-> rows] /\ row \in Row /\ Len(old) < MaxRows
    BY <1>1, <1>2 DEF Row
  <1> HIDE DEF old, row
  <1>4. /\ old \in Seq(Row) /\ Len(old) \in 1..MaxRows /\ DOMAIN old = 1..Len(old)
    BY <1>2, RowsFacts
  <1>5. /\ rows \in Seq(Row) /\ Len(rows) = Len(old) + 1
        /\ \A i \in 1..Len(old) : rows[i] = old[i]
    BY <1>3, <1>4, AppendProperties
  <1> HIDE DEF rows
  <1>6. rows \in Rows /\ DOMAIN rows = 1..Len(old) + 1
    <2>1. Len(rows) \in 1..MaxRows
      BY <1>3, <1>4, <1>5, WorkspaceAssumption
    <2> QED BY <1>5, <2>1, RowsFrom, LenProperties
  <1>7. draft' \in Settings /\ draft'.audio = draft.audio /\ draft'.rows = rows
    BY <1>2, <1>3, <1>6 DEF Settings
  <1>8. ASSUME NEW i \in Mirror, Alive(mirrors'[i])
        PROVE  i \in DOMAIN draft'.rows /\ mirrors'[i].with = draft'.rows[i]
    <2>1. i \in DOMAIN old /\ mirrors[i].with = old[i] /\ mirrors' = mirrors
      BY <1>1, <1>8 DEF JobsInv, RunsAsShown, old
    <2>2. i \in 1..Len(old) /\ i \in DOMAIN rows
      BY <1>4, <1>6, <2>1
    <2> QED BY <1>5, <1>7, <2>1, <2>2
  <1>9. mirrors' \in [Mirror -> ChildWith(Row)]
    BY <1>1 DEF JobsInv, DataTypes
  <1> QED BY <1>1, <1>7, <1>8, <1>9, MirrorsFacts, DoneMoves, ForeignFacts DEF StepSound, JobsInv

LEMMA RemovedFacts ==
    ASSUME NEW rows \in Rows, NEW k \in 2..Len(rows)
    PROVE  RemoveAt(rows, k) \in Rows
  <1>1. /\ rows \in Seq(Row) /\ Len(rows) \in 1..MaxRows /\ MaxRows \in Nat
        /\ \A i \in 1..Len(rows) : rows[i] \in Row
    BY RowsFacts, WorkspaceAssumption
  <1> DEFINE p == SubSeq(rows, 1, k - 1)
             q == SubSeq(rows, k + 1, Len(rows))
  <1>2. p \in Seq(Row) /\ Len(p) = k - 1
    <2>1. \A i \in 1..k - 1 : rows[i] \in Row
      BY <1>1
    <2> QED BY <1>1, <2>1, SubSeqProperties
  <1>3. q \in Seq(Row) /\ Len(q) = Len(rows) - k
    <2>1. \A i \in k + 1..Len(rows) : rows[i] \in Row
      BY <1>1
    <2>2. k + 1 <= Len(rows) \/ k = Len(rows)
      BY <1>1
    <2>3. Len(rows) \in Int /\ k + 1 \in Int
      BY <1>1
    <2>4. q \in Seq(Row) /\ Len(q) = IF k + 1 <= Len(rows) THEN Len(rows) - (k + 1) + 1 ELSE 0
      BY <2>1, <2>3, SubSeqProperties
    <2> QED BY <1>1, <2>2, <2>4
  <1> HIDE DEF p, q
  <1>4. p \o q \in Seq(Row) /\ Len(p \o q) = Len(p) + Len(q)
    BY <1>2, <1>3, ConcatProperties
  <1>5. Len(p \o q) \in 1..MaxRows
    BY <1>1, <1>2, <1>3, <1>4
  <1>6. RemoveAt(rows, k) = p \o q
    BY DEF RemoveAt, p, q
  <1> QED BY <1>4, <1>5, <1>6, RowsFrom

LEMMA MirrorRemoveSound == ASSUME JobsInv, MirrorRemove PROVE StepSound
  <1> DEFINE k == Now.index
             rows == RemoveAt(draft.rows, k)
  <1>1. /\ script.todo # <<>> /\ Foreign /\ Done /\ k \in 2..Len(draft.rows)
        /\ draft' = [draft EXCEPT !.rows = RemoveAt(@, k)]
        /\ mirrors' = NoMirrors /\ UNCHANGED <<cable, audio, monitor>>
    BY DEF MirrorRemove, AtStep, Foreign
  <1>2. /\ draft = [audio |-> draft.audio, rows |-> draft.rows] /\ draft.audio \in Audios
        /\ draft.rows \in Rows
    BY DraftFacts DEF JobsInv, DataTypes
  <1>3. rows \in Rows /\ draft' = [audio |-> draft.audio, rows |-> rows]
    BY <1>1, <1>2, RemovedFacts
  <1> HIDE DEF rows
  <1>4. draft' \in Settings /\ draft'.audio = draft.audio
    BY <1>2, <1>3 DEF Settings
  <1> QED BY <1>1, <1>4, StoppedFacts, MirrorsFacts, DoneMoves, ForeignFacts DEF StepSound, JobsInv

LEMMA MirrorStartSound == ASSUME JobsInv, MirrorStart PROVE StepSound
  <1> DEFINE k == Now.index
  <1>1. /\ script.todo # <<>> /\ Now.kind = "mirror.start" /\ Done
        /\ k \in DOMAIN draft.rows
        /\ mirrors' = [mirrors EXCEPT ![k] = Child(draft.rows[k])]
        /\ UNCHANGED <<draft, cable, audio, monitor>>
    BY DEF MirrorStart, AtStep, settings
  <1>2. BundleUnderWay => script.of.bundle.rows # Nothing
    BY <1>1, NowFacts DEF Brought, JobsInv
  <1> HIDE DEF k
  <1>3. draft \in Settings /\ draft.rows \in Rows /\ k \in Mirror
    BY <1>1, DraftFacts DEF JobsInv, DataTypes
  <1>4. draft.rows[k] \in Row
    BY <1>1, <1>3, RowsFacts
  <1>5. Child(draft.rows[k]) \in ChildWith(Row) /\ Child(draft.rows[k]).with = draft.rows[k]
    BY <1>4, ChildFacts
  <1>6. /\ mirrors' \in [Mirror -> ChildWith(Row)]
        /\ mirrors'[k].with = draft.rows[k]
        /\ \A i \in Mirror : i # k => mirrors'[i] = mirrors[i]
    BY <1>1, <1>3, <1>5 DEF JobsInv, DataTypes
  <1>7. ASSUME NEW i \in Mirror, Alive(mirrors'[i])
        PROVE  i \in DOMAIN draft'.rows /\ mirrors'[i].with = draft'.rows[i]
    <2>1. CASE i = k
      BY <1>1, <1>6, <2>1
    <2>2. CASE i # k
      BY <1>1, <1>6, <1>7, <2>2 DEF JobsInv, RunsAsShown
    <2> QED BY <2>1, <2>2
  <1>8. DataTypes' /\ RunsAsShown' /\ Kept(audio, audio') /\ Kept(monitor, monitor')
    BY <1>1, <1>3, <1>6, <1>7, MirrorsFacts
  <1> QED BY <1>1, <1>2, <1>8, DoneMoves DEF StepSound, KeepsApart, SetsParts

LEMMA MirrorStopSound == ASSUME JobsInv, MirrorStop PROVE StepSound
  <1> DEFINE k == Now.index
  <1>1. /\ script.todo # <<>> /\ Foreign /\ Moves
        /\ mirrors' = [mirrors EXCEPT ![k] = Nothing]
        /\ UNCHANGED <<draft, cable, audio, monitor>>
    BY DoneMoves, StopFailsMoves DEF MirrorStop, AtStep, Foreign, settings
  <1> HIDE DEF k
  <1>2. /\ mirrors' \in [Mirror -> ChildWith(Row)]
        /\ \A i \in Mirror : Alive(mirrors'[i]) => mirrors'[i] = mirrors[i]
    BY <1>1 DEF JobsInv, DataTypes, ChildWith, Alive
  <1>3. \A i \in Mirror : Alive(mirrors'[i]) =>
            i \in DOMAIN draft'.rows /\ mirrors'[i].with = draft'.rows[i]
    BY <1>1, <1>2 DEF JobsInv, RunsAsShown
  <1>4. draft' \in Settings /\ draft'.audio = draft.audio
    BY <1>1 DEF JobsInv, DataTypes
  <1> QED BY <1>1, <1>2, <1>3, <1>4, MirrorsFacts, ForeignFacts DEF StepSound, JobsInv

\* The rows are to be run one after the other.
LEMMA RunsFacts ==
    ASSUME NEW n \in Nat, BundleUnderWay => script.of.bundle.rows # Nothing
    PROVE  Steps([i \in 1..n |-> [kind |-> "mirror.run", index |-> i]])
  <1> DEFINE steps == [i \in 1..n |-> [kind |-> "mirror.run", index |-> i]]
             S == {[kind |-> "mirror.run", index |-> i] : i \in 1..n}
  <1>1. \A i \in 1..n : steps[i] \in S /\ steps[i].kind = "mirror.run"
    OBVIOUS
  <1>2. steps \in [1..n -> S] /\ DOMAIN steps = 1..n
    OBVIOUS
  <1> HIDE DEF steps, S
  <1>3. steps \in Seq(S) /\ Len(steps) = n
    BY <1>2
  <1>4. \A i \in 1..Len(steps) : /\ Typed(steps[i]) /\ steps[i].kind # "bundle"
                                 /\ BundleUnderWay => Brought(steps[i], script.of)
    BY <1>1, <1>3 DEF Typed, Brought
  <1>5. Steps(steps)
    BY <1>3, <1>4, QueueOf DEF Steps
  <1> QED BY <1>5 DEF steps

LEMMA ChangeDisplaysSound == ASSUME JobsInv, ChangeDisplays PROVE StepSound
  <1> DEFINE rows == Now.rows
             stays == Now.start /\ draft.rows = rows
             runs == [n \in 1..Len(rows) |-> [kind |-> "mirror.run", index |-> n]]
  <1>1. /\ script.todo # <<>> /\ Now.kind = "displays" /\ UNCHANGED <<cable, audio, monitor>>
        /\ \/ /\ \E i \in Mirror :
                    /\ StopFails(mirrors[i])
                    /\ mirrors' = [k \in Mirror |-> IF k <= i THEN Nothing ELSE mirrors[k]]
              /\ UNCHANGED draft
           \/ /\ mirrors' = IF stays THEN mirrors ELSE NoMirrors
              /\ draft' = [draft EXCEPT !.rows = rows]
              /\ Continue(IF Now.start THEN runs ELSE <<>>)
    BY DEF ChangeDisplays, AtStep
  <1>2. rows \in Rows
    BY <1>1, NowFacts DEF Typed, JobsInv
  <1>3. BundleUnderWay => script.of.bundle.rows # Nothing
    BY <1>1, NowFacts DEF Brought, JobsInv
  <1>4. Len(rows) \in Nat
    BY <1>2, RowsFacts, WorkspaceAssumption
  <1>5. Steps(runs)
    BY <1>3, <1>4, RunsFacts
  <1> HIDE DEF rows, runs
  <1> DEFINE Sound == DataTypes' /\ RunsAsShown' /\ Moves /\ Kept(audio, audio')
                      /\ Kept(monitor, monitor') /\ draft'.audio = draft.audio
  <1>6. Sound
    <2>1. ASSUME NEW i \in Mirror, StopFails(mirrors[i]), UNCHANGED draft,
                 mirrors' = [k \in Mirror |-> IF k <= i THEN Nothing ELSE mirrors[k]]
          PROVE  Sound
      <3>1. /\ mirrors' \in [Mirror -> ChildWith(Row)]
            /\ \A k \in Mirror : Alive(mirrors'[k]) => mirrors'[k] = mirrors[k]
        BY <2>1 DEF JobsInv, DataTypes, ChildWith, Alive
      <3>2. \A k \in Mirror : Alive(mirrors'[k]) =>
                k \in DOMAIN draft'.rows /\ mirrors'[k].with = draft'.rows[k]
        BY <2>1, <3>1 DEF JobsInv, RunsAsShown
      <3>3. draft' \in Settings /\ draft'.audio = draft.audio
        BY <2>1 DEF JobsInv, DataTypes
      <3> QED BY <1>1, <2>1, <3>1, <3>2, <3>3, MirrorsFacts, StopFailsMoves
    <2>2. CASE /\ mirrors' = IF stays THEN mirrors ELSE NoMirrors
               /\ draft' = [draft EXCEPT !.rows = rows]
               /\ Continue(IF Now.start THEN runs ELSE <<>>)
      <3>1. /\ draft = [audio |-> draft.audio, rows |-> draft.rows] /\ draft.audio \in Audios
        BY DraftFacts DEF JobsInv, DataTypes
      <3>2. draft' = [audio |-> draft.audio, rows |-> rows]
        BY <2>2, <3>1
      <3>3. draft' \in Settings /\ draft'.audio = draft.audio /\ draft'.rows = rows
        BY <1>2, <3>1, <3>2 DEF Settings
      <3>4. /\ mirrors' \in [Mirror -> ChildWith(Row)]
            /\ \A i \in Mirror : Alive(mirrors'[i]) =>
                i \in DOMAIN draft'.rows /\ mirrors'[i].with = draft'.rows[i]
        <4>1. CASE stays
          BY <2>2, <3>3, <4>1 DEF JobsInv, DataTypes, RunsAsShown
        <4>2. CASE ~stays
          BY <2>2, <4>2, StoppedFacts
        <4> QED BY <4>1, <4>2
      <3>5. Moves
        <4>1. CASE Now.start
          BY <1>5, <2>2, <4>1 DEF Moves
        <4>2. CASE ~Now.start
          BY <2>2, <4>2, DoneMoves DEF Done
        <4> QED BY <4>1, <4>2
      <3> QED BY <1>1, <3>3, <3>4, <3>5, MirrorsFacts
    <2> QED BY <1>1, <2>1, <2>2
  <1> QED BY <1>1, <1>3, <1>6 DEF StepSound, KeepsApart, SetsParts

LEMMA MirrorRunSound == ASSUME JobsInv, MirrorRun PROVE StepSound
  <1> DEFINE step == [kind |-> "mirror.start", index |-> Now.index]
             rests == Alive(mirrors[Now.index]) \/ ~draft.rows[Now.index].on
  <1>1. /\ script.todo # <<>> /\ Now.kind = "mirror.run"
        /\ Continue(IF rests THEN <<>> ELSE Execute(step))
        /\ UNCHANGED <<draft, cable, audio, monitor, mirrors>>
    BY DEF MirrorRun, AtStep, settings, children
  <1>2. BundleUnderWay => script.of.bundle.rows # Nothing
    BY <1>1, NowFacts DEF Brought, JobsInv
  <1>3. Typed(step) /\ step.kind # "bundle" /\ (BundleUnderWay => Brought(step, script.of))
    BY <1>2 DEF Typed, Brought
  <1>4. Moves
    <2>1. CASE rests
      BY <1>1, <2>1, DoneMoves DEF Done
    <2>2. CASE ~rests
      BY <1>1, <1>3, <2>2, ExecuteMoves
    <2> QED BY <2>1, <2>2
  <1> QED BY <1>1, <1>4, SameData DEF StepSound, SetsParts

-----------------------------------------------------------------------------
(* Settings that are replaced.                                               *)

LEMMA ReloadSound == ASSUME JobsInv, Reload PROVE StepSound
  <1>1. /\ script.todo # <<>> /\ Foreign /\ Now.kind = "settings.reload" /\ Done
        /\ ~Alive(audio) /\ ~Alive(monitor) /\ \A i \in Mirror : ~Alive(mirrors[i])
        /\ draft' = Now.settings /\ cable' = Now.cable
        /\ UNCHANGED <<audio, monitor, mirrors>>
    BY DEF Reload, AtStep, Foreign, Quiet, children
  <1>2. Now.settings \in Settings /\ Now.cable \in Cable
    BY <1>1, NowFacts DEF Typed, JobsInv
  <1>3. DataTypes' /\ RunsAsShown'
    BY <1>1, <1>2 DEF JobsInv, DataTypes, RunsAsShown, Alive
  <1> QED BY <1>1, <1>3, DoneMoves, ForeignFacts DEF StepSound, JobsInv

LEMMA PresetLoadSound == ASSUME JobsInv, PresetLoad PROVE StepSound
  <1>1. /\ script.todo # <<>> /\ Foreign /\ Now.kind = "preset.load" /\ Done
        /\ ~Alive(audio) /\ \A i \in Mirror : ~Alive(mirrors[i])
        /\ draft' = Now.settings /\ UNCHANGED <<cable, audio, monitor, mirrors>>
    BY DEF PresetLoad, AtStep, Foreign, Quiet, children
  <1>2. Now.settings \in Settings
    BY <1>1, NowFacts DEF Typed, JobsInv
  <1>3. DataTypes' /\ RunsAsShown'
    BY <1>1, <1>2 DEF JobsInv, DataTypes, RunsAsShown, Alive
  <1> QED BY <1>1, <1>3, DoneMoves, ForeignFacts DEF StepSound, JobsInv

LEMMA AudioPresetLoadSound == ASSUME JobsInv, AudioPresetLoad PROVE StepSound
  <1> DEFINE a == Now.settings.audio
  <1>1. /\ script.todo # <<>> /\ Foreign /\ Now.kind = "audio.preset.load" /\ Done
        /\ ~Alive(audio) /\ draft' = [draft EXCEPT !.audio = a]
        /\ UNCHANGED <<cable, audio, monitor, mirrors>>
    BY DEF AudioPresetLoad, AtStep, Foreign, children
  <1>2. a \in Audios
    BY <1>1, NowFacts DEF Typed, JobsInv, Settings
  <1> HIDE DEF a
  <1>3. audio' \in ChildWith(Audios) /\ ~Alive(audio')
    BY <1>1 DEF JobsInv, DataTypes, Alive
  <1> QED BY <1>1, <1>2, <1>3, RepeaterFacts, DoneMoves, ForeignFacts DEF StepSound, JobsInv

LEMMA DisplayPresetLoadSound == ASSUME JobsInv, DisplayPresetLoad PROVE StepSound
  <1> DEFINE rows == Now.settings.rows
  <1>1. /\ script.todo # <<>> /\ Foreign /\ Now.kind = "display.preset.load" /\ Done
        /\ \A i \in Mirror : ~Alive(mirrors[i])
        /\ draft' = [draft EXCEPT !.rows = rows]
        /\ UNCHANGED <<cable, audio, monitor, mirrors>>
    BY DEF DisplayPresetLoad, AtStep, Foreign, children
  <1>2. rows \in Rows
    BY <1>1, NowFacts DEF Typed, JobsInv, Settings
  <1> HIDE DEF rows
  <1>3. draft' = [audio |-> draft.audio, rows |-> rows] /\ draft.audio \in Audios
    BY <1>1, DraftFacts DEF JobsInv, DataTypes
  <1>4. draft' \in Settings /\ draft'.audio = draft.audio
    BY <1>2, <1>3 DEF Settings
  <1>5. mirrors' \in [Mirror -> ChildWith(Row)] /\ \A i \in Mirror : ~Alive(mirrors'[i])
    BY <1>1 DEF JobsInv, DataTypes
  <1> QED BY <1>1, <1>4, <1>5, MirrorsFacts, DoneMoves, ForeignFacts DEF StepSound, JobsInv

LEMMA OneStep ==
    ASSUME NEW step, Typed(step), step.kind # "bundle",
           BundleUnderWay => Brought(step, script.of)
    PROVE  Steps(<<step>>)
  <1>1. <<step>> \in Seq({step}) /\ Len(<<step>>) = 1 /\ <<step>>[1] = step
    OBVIOUS
  <1> DEFINE steps == <<step>>
  <1>2. IsQueue(steps) /\ Len(steps) = 1 /\ steps[1] = step
    BY <1>1, QueueOf
  <1> HIDE DEF steps
  <1>3. \A i \in 1..Len(steps) : i = 1
    BY <1>2
  <1>4. Steps(steps)
    BY <1>2, <1>3 DEF Steps
  <1> QED BY <1>4 DEF steps

LEMMA NoStep == Steps(<<>>)
  BY EmptyQueue DEF Steps

LEMMA JoinedSteps ==
    ASSUME NEW p, NEW q, Steps(p), Steps(q) PROVE Steps(p \o q)
  <1> DEFINE r == p \o q
  <1>1. /\ IsQueue(r) /\ Len(r) = Len(p) + Len(q) /\ Len(p) \in Nat /\ Len(q) \in Nat
        /\ \A i \in 1..Len(p) : r[i] = p[i]
        /\ \A i \in 1..Len(r) : i > Len(p) => i - Len(p) \in 1..Len(q) /\ r[i] = q[i - Len(p)]
    BY JoinFacts, QueueFacts DEF Steps
  <1> HIDE DEF r
  <1>2. ASSUME NEW i \in 1..Len(r)
        PROVE  /\ Typed(r[i]) /\ r[i].kind # "bundle"
               /\ BundleUnderWay => Brought(r[i], script.of)
    <2>1. CASE i \in 1..Len(p)
      BY <1>1, <2>1 DEF Steps
    <2>2. CASE i > Len(p)
      <3> DEFINE k == i - Len(p)
      <3>1. k \in 1..Len(q) /\ r[i] = q[k]
        BY <1>1, <2>2
      <3> QED BY <3>1 DEF Steps
    <2> QED BY <1>1, <2>1, <2>2
  <1>3. Steps(r)
    BY <1>1, <1>2 DEF Steps
  <1> QED BY <1>3 DEF r

LEMMA AudioPresetRunSound == ASSUME JobsInv, AudioPresetRun PROVE StepSound
  <1> DEFINE step == [kind |-> "audio", audio |-> Now.settings.audio, start |-> TRUE]
  <1>1. /\ script.todo # <<>> /\ Foreign /\ Now.kind = "audio.preset.run" /\ Continue(<<step>>)
        /\ UNCHANGED <<draft, cable, audio, monitor, mirrors>>
    BY DEF AudioPresetRun, AtStep, Foreign, settings, children
  <1>2. ~BundleUnderWay /\ Now.settings.audio \in Audios
    BY <1>1, ForeignIsNoBundle, NowFacts DEF Typed, JobsInv, Settings
  <1>3. Typed(step) /\ step.kind # "bundle"
    BY <1>2 DEF Typed
  <1> HIDE DEF step
  <1>4. Moves
    BY <1>1, <1>2, <1>3, OneStep DEF Moves
  <1> QED BY <1>1, <1>4, AheadFacts

LEMMA DisplayPresetRunSound == ASSUME JobsInv, DisplayPresetRun PROVE StepSound
  <1> DEFINE step == [kind |-> "displays", rows |-> Enabled(Now.settings.rows), start |-> TRUE]
  <1>1. /\ script.todo # <<>> /\ Foreign /\ Now.kind = "display.preset.run" /\ Continue(<<step>>)
        /\ UNCHANGED <<draft, cable, audio, monitor, mirrors>>
    BY DEF DisplayPresetRun, AtStep, Foreign, settings, children
  <1>2. ~BundleUnderWay /\ Now.settings.rows \in Rows
    BY <1>1, ForeignIsNoBundle, NowFacts DEF Typed, JobsInv, Settings
  <1>3. Enabled(Now.settings.rows) \in Rows
    BY <1>2, EnabledFacts
  <1>4. Typed(step) /\ step.kind # "bundle"
    BY <1>3 DEF Typed
  <1> HIDE DEF step
  <1>5. Moves
    BY <1>1, <1>2, <1>4, OneStep DEF Moves
  <1> QED BY <1>1, <1>5, AheadFacts

Has(todo, kind) == \E i \in 1..Len(todo) : todo[i].kind = kind

\* What the steps of the preset bring, once it has been checked.
Brings(steps) ==
    LET bundle == script.of.bundle IN
    /\ script.of.start => Harmless(bundle)
    /\ bundle.audio # Nothing => Has(steps, "audio")
    /\ bundle.cable # Nothing => Has(steps, "cable")

LEMMA HasFirst == ASSUME NEW p, NEW q, IsQueue(p), IsQueue(q), NEW kind
    PROVE Has(p, kind) \/ Has(q, kind) => Has(p \o q, kind)
  <1> DEFINE r == p \o q
  <1>1. /\ Len(r) = Len(p) + Len(q) /\ Len(p) \in Nat /\ Len(q) \in Nat
        /\ \A i \in 1..Len(p) : r[i] = p[i]
        /\ \A i \in 1..Len(r) : i > Len(p) => i - Len(p) \in 1..Len(q) /\ r[i] = q[i - Len(p)]
    BY JoinFacts, QueueFacts
  <1> HIDE DEF r
  <1>2. ASSUME NEW i \in 1..Len(p), p[i].kind = kind PROVE Has(r, kind)
    <2>1. i \in 1..Len(r)
      BY <1>1
    <2> QED BY <1>1, <1>2, <2>1 DEF Has
  <1>3. ASSUME NEW i \in 1..Len(q), q[i].kind = kind PROVE Has(r, kind)
    <2> DEFINE k == Len(p) + i
    <2>1. k \in 1..Len(r) /\ k > Len(p) /\ k - Len(p) = i
      BY <1>1
    <2>2. r[k] = q[i]
      BY <1>1, <2>1
    <2> HIDE DEF k
    <2> QED BY <1>3, <2>1, <2>2 DEF Has
  <1>4. Has(p, kind) \/ Has(q, kind) => Has(r, kind)
    BY <1>2, <1>3 DEF Has
  <1> QED BY <1>4 DEF r

LEMMA HasOne == ASSUME NEW step PROVE Has(<<step>>, step.kind) /\ IsQueue(<<step>>)
  <1> DEFINE steps == <<step>>
  <1>1. steps \in Seq({step}) /\ Len(steps) = 1 /\ steps[1] = step
    OBVIOUS
  <1>2. IsQueue(steps)
    BY <1>1, QueueOf
  <1> HIDE DEF steps
  <1>3. Has(steps, step.kind) /\ IsQueue(steps)
    BY <1>1, <1>2 DEF Has
  <1> QED BY <1>3 DEF steps

\* The parts of the integrated preset, each with what it says of that part.
LEMMA BundleBrings ==
    ASSUME JobsInv, BundleApply
    PROVE  \E steps : Steps(steps) /\ Continue(steps) /\ (BundleUnderWay => Brings(steps))
  <1> DEFINE bundle == Now.bundle
             start == Now.start
             rows == IF start THEN Enabled(bundle.rows) ELSE bundle.rows
             stepA == [kind |-> "audio", audio |-> bundle.audio, start |-> start]
             stepC == [kind |-> "cable", cable |-> bundle.cable, start |-> start]
             stepD == [kind |-> "displays", start |-> start, rows |-> rows]
             a == IF bundle.audio = Nothing THEN <<>> ELSE <<stepA>>
             c == IF bundle.cable = Nothing THEN <<>> ELSE <<stepC>>
             d == IF bundle.rows = Nothing THEN <<>> ELSE <<stepD>>
  <1>1. /\ script.todo # <<>> /\ Now.kind = "bundle"
        /\ Continue(a \o c \o d) /\ (start => Harmless(bundle))
    BY DEF BundleApply, AtStep
  <1>2. bundle \in Bundle /\ (BundleUnderWay => script.of.bundle = bundle /\ script.of.start = start)
    BY <1>1, NowFacts DEF Typed, Brought, JobsInv
  <1>3. /\ bundle.audio # Nothing => bundle.audio \in Audios
        /\ bundle.cable # Nothing => bundle.cable \in Cable
        /\ bundle.rows # Nothing => bundle.rows \in Rows
    BY <1>2 DEF Bundle
  <1>4. bundle.rows # Nothing => rows \in Rows
    BY <1>3, EnabledFacts
  <1> HIDE DEF bundle, start, rows
  <1>5. Steps(a)
    <2>1. CASE bundle.audio = Nothing
      BY <2>1, NoStep
    <2>2. CASE bundle.audio # Nothing
      <3>1. Typed(stepA) /\ stepA.kind # "bundle" /\ (BundleUnderWay => Brought(stepA, script.of))
        BY <1>2, <1>3, <2>2 DEF Typed, Brought
      <3> HIDE DEF stepA
      <3> QED BY <2>2, <3>1, OneStep
    <2> QED BY <2>1, <2>2
  <1>6. Steps(c)
    <2>1. CASE bundle.cable = Nothing
      BY <2>1, NoStep
    <2>2. CASE bundle.cable # Nothing
      <3>1. Typed(stepC) /\ stepC.kind # "bundle" /\ (BundleUnderWay => Brought(stepC, script.of))
        BY <1>2, <1>3, <2>2 DEF Typed, Brought
      <3> HIDE DEF stepC
      <3> QED BY <2>2, <3>1, OneStep
    <2> QED BY <2>1, <2>2
  <1>7. Steps(d)
    <2>1. CASE bundle.rows = Nothing
      BY <2>1, NoStep
    <2>2. CASE bundle.rows # Nothing
      <3>1. Typed(stepD) /\ stepD.kind # "bundle" /\ (BundleUnderWay => Brought(stepD, script.of))
        BY <1>2, <1>4, <2>2 DEF Typed, Brought
      <3> HIDE DEF stepD
      <3> QED BY <2>2, <3>1, OneStep
    <2> QED BY <2>1, <2>2
  <1>8. /\ bundle.audio # Nothing => Has(a, "audio")
        /\ bundle.cable # Nothing => Has(c, "cable")
    <2>1. stepA.kind = "audio" /\ stepC.kind = "cable"
      OBVIOUS
    <2> HIDE DEF stepA, stepC
    <2> QED BY <2>1, HasOne
  <1> HIDE DEF a, c, d
  <1>9. Steps(a \o c) /\ Steps((a \o c) \o d)
    BY <1>5, <1>6, <1>7, JoinedSteps
  <1>10. /\ bundle.audio # Nothing => Has((a \o c) \o d, "audio")
         /\ bundle.cable # Nothing => Has((a \o c) \o d, "cable")
    <2>1. IsQueue(a) /\ IsQueue(c) /\ IsQueue(a \o c) /\ IsQueue(d)
      BY <1>5, <1>6, <1>7, <1>9 DEF Steps
    <2> QED BY <1>8, <2>1, HasFirst
  <1>11. BundleUnderWay => Brings((a \o c) \o d)
    BY <1>1, <1>2, <1>10 DEF Brings
  <1> QED BY <1>1, <1>9, <1>11

LEMMA BundleApplySound == ASSUME JobsInv, BundleApply PROVE StepSound
  <1>1. /\ Now.kind = "bundle" /\ UNCHANGED <<draft, cable, audio, monitor, mirrors>>
    BY DEF BundleApply, AtStep, settings, children
  <1>2. Moves
    BY BundleBrings DEF Moves
  <1> QED BY <1>1, <1>2, SameData DEF StepSound, SetsParts

LEMMA StopAllSound == ASSUME JobsInv, StopAll PROVE StepSound
  <1>1. /\ script.todo # <<>> /\ Foreign /\ (Done \/ Failed)
        /\ audio' = Nothing /\ monitor' = Nothing /\ mirrors' = NoMirrors
        /\ UNCHANGED <<draft, cable>>
    BY DEF StopAll, AtStep, Foreign, settings
  <1>2. DataTypes' /\ RunsAsShown'
    BY <1>1, StoppedFacts DEF JobsInv, DataTypes, RunsAsShown, Alive, ChildWith
  <1>3. Moves
    BY <1>1, DoneMoves DEF Moves
  <1> QED BY <1>1, <1>2, <1>3, ForeignFacts DEF StepSound, JobsInv

LEMMA JobStepSound == ASSUME JobsInv, JobStep PROVE StepSound /\ script.todo # <<>>
  <1>1. StepSound
    BY RefusedSound, PollSound, AudioStopSound, AudioSelectSound, AudioStartSound,
       ChangeAudioSound, CableStopSound, CableSelectSound, CableVolumeSound, CableStartSound,
       CablePresetLoadSound, CablePresetRunSound, CableRunSound, ChangeCableSound,
       MirrorSettingsSound, MirrorAddSound, MirrorRemoveSound, MirrorStartSound,
       MirrorStopSound, ChangeDisplaysSound, MirrorRunSound, ReloadSound, PresetLoadSound,
       AudioPresetLoadSound, DisplayPresetLoadSound, AudioPresetRunSound,
       DisplayPresetRunSound, BundleApplySound, StopAllSound DEF JobStep
  <1>2. script.todo # <<>>
    BY DEF JobStep, Refused, PollChildren, AtStep, AudioStop, AudioSelect, AudioStart,
           ChangeAudio, CableStop, CableSelect, CableVolume, CableStart, CablePresetLoad,
           CablePresetRun, CableRun, ChangeCable, MirrorSettings, MirrorAdd, MirrorRemove,
           MirrorStart, MirrorStop, ChangeDisplays, MirrorRun, Reload, PresetLoad,
           AudioPresetLoad, DisplayPresetLoad, AudioPresetRun, DisplayPresetRun,
           BundleApply, StopAll
  <1> QED BY <1>1, <1>2

-----------------------------------------------------------------------------
(* What happens between steps.                                               *)

LEMMA CommandFacts ==
    ASSUME NEW command \in Command
    PROVE  Typed(command) /\ (command.kind = "bundle" => Brought(command, command))
  <1>1. \A settings_ \in Presets : settings_ \in Settings
    BY WorkspaceAssumption
  <1>2. \A cable_ \in CablePresets : cable_ \in Cable
    BY WorkspaceAssumption
  <1>3. \A bundle \in Bundles : bundle \in Bundle
    BY WorkspaceAssumption
  <1>4. Typed(command)
    BY <1>1, <1>2, <1>3 DEF Command, Typed, Simple
  <1>5. command.kind = "bundle" => Brought(command, command)
    BY DEF Brought
  <1> QED BY <1>4, <1>5

LEMMA ReceiveSound ==
    ASSUME JobsInv, ReceiveCommand
    PROVE  /\ JobsInv'
           /\ BundleUnderWay' => \E i \in 1..Len(script'.todo) : script'.todo[i].kind = "bundle"
  <1>1. PICK command \in Command : script' = [of |-> command, todo |-> Execute(command)]
    BY DEF ReceiveCommand
  <1>2. UNCHANGED <<draft, cable, audio, monitor, mirrors>>
    BY DEF ReceiveCommand, settings, children
  <1> DEFINE todo == Execute(command)
  <1>3. /\ IsQueue(todo) /\ Len(todo) = 2 /\ todo[1] = [kind |-> "poll"] /\ todo[2] = command
    BY ExecuteFacts
  <1>4. Typed(command) /\ (command.kind = "bundle" => Brought(command, command))
    BY CommandFacts
  <1>5. Typed(todo[1]) /\ Brought(todo[1], command)
    BY <1>3 DEF Typed, Brought
  <1>6. script'.of = command /\ script'.todo = todo /\ script' = [of |-> command, todo |-> todo]
    BY <1>1
  <1> HIDE DEF todo
  <1>7. \A i \in 1..Len(todo) : i = 1 \/ i = 2
    BY <1>3
  <1>8. ScriptTypes'
    BY <1>3, <1>4, <1>5, <1>6, <1>7 DEF ScriptTypes, BundleUnderWay
  <1>9. 2 \in 1..Len(todo)
    BY <1>3
  <1>10. DataTypes' /\ RunsAsShown'
    BY <1>2, SameData
  <1> QED BY <1>3, <1>6, <1>8, <1>9, <1>10 DEF JobsInv, BundleUnderWay

LEMMA EndedFacts ==
    ASSUME NEW S, NEW child \in ChildWith(S), Alive(child)
    PROVE  /\ [child EXCEPT !.real = FALSE] \in ChildWith(S)
           /\ [child EXCEPT !.real = FALSE].with = child.with
           /\ ~[child EXCEPT !.real = FALSE].real
  BY DEF ChildWith, Alive

LEMMA EndSound ==
    ASSUME JobsInv, End
    PROVE  /\ JobsInv' /\ UNCHANGED <<draft, cable, script>>
           /\ Alive(audio') => Alive(audio)
           /\ Alive(monitor') => Alive(monitor)
  <1>1. UNCHANGED <<draft, cable, script>>
    BY DEF End, settings
  <1>2. ScriptTypes'
    BY <1>1 DEF JobsInv, ScriptTypes, BundleUnderWay
  <1>3. CASE EndsAlone(audio) /\ audio' = [audio EXCEPT !.real = FALSE] /\ UNCHANGED <<monitor, mirrors>>
    <2>1. Alive(audio) /\ audio' \in ChildWith(Audios) /\ audio'.with = draft.audio
      BY <1>3, EndedFacts DEF EndsAlone, JobsInv, DataTypes, RunsAsShown
    <2> QED BY <1>1, <1>2, <1>3, <2>1, SameRepeater DEF JobsInv
  <1>4. CASE EndsAlone(monitor) /\ monitor' = [monitor EXCEPT !.real = FALSE] /\ UNCHANGED <<audio, mirrors>>
    <2>1. /\ Alive(monitor) /\ monitor' \in ChildWith(Cable) /\ ~monitor'.real
          /\ monitor'.with.route = cable.route /\ cable \in Cable
      BY <1>4, EndedFacts DEF EndsAlone, JobsInv, DataTypes, RunsAsShown
    <2> QED BY <1>1, <1>2, <1>4, <2>1, MonitorFacts DEF JobsInv
  <1>5. ASSUME NEW i \in Mirror, EndsAlone(mirrors[i]),
               mirrors' = [mirrors EXCEPT ![i].real = FALSE], UNCHANGED <<audio, monitor>>
        PROVE  DataTypes' /\ RunsAsShown'
    <2>1. mirrors[i] \in ChildWith(Row) /\ Alive(mirrors[i])
      BY <1>5 DEF EndsAlone, JobsInv, DataTypes
    <2>2. mirrors' = [mirrors EXCEPT ![i] = [mirrors[i] EXCEPT !.real = FALSE]]
      BY <1>5
    <2>3. /\ mirrors' \in [Mirror -> ChildWith(Row)]
          /\ mirrors'[i].with = mirrors[i].with
          /\ \A k \in Mirror : k # i => mirrors'[k] = mirrors[k]
      BY <2>1, <2>2, EndedFacts DEF JobsInv, DataTypes
    <2>4. ASSUME NEW k \in Mirror, Alive(mirrors'[k])
          PROVE  k \in DOMAIN draft'.rows /\ mirrors'[k].with = draft'.rows[k]
      BY <1>1, <2>1, <2>3, <2>4 DEF JobsInv, RunsAsShown
    <2>5. draft' \in Settings /\ draft'.audio = draft.audio
      BY <1>1 DEF JobsInv, DataTypes
    <2> QED BY <1>1, <1>5, <2>3, <2>4, <2>5, MirrorsFacts
  <1> QED BY <1>1, <1>2, <1>3, <1>4, <1>5 DEF End, JobsInv

LEMMA RestartSound ==
    ASSUME Restart PROVE JobsInv' /\ script' = Resting /\ ~Alive(audio')
  <1>1. /\ audio' = Nothing /\ monitor' = Nothing /\ mirrors' = NoMirrors
        /\ draft' \in Settings /\ cable' \in Cable /\ script' = Resting
    BY WorkspaceAssumption DEF Restart
  <1>2. DataTypes' /\ RunsAsShown'
    BY <1>1, StoppedFacts DEF DataTypes, RunsAsShown, Alive, ChildWith
  <1> QED BY <1>1, <1>2, RestingTypes DEF JobsInv, Alive

LEMMA JobsStart == ASSUME JobsInit PROVE JobsInv
  <1>1. /\ audio = Nothing /\ monitor = Nothing /\ mirrors = NoMirrors
        /\ draft \in Settings /\ cable \in Cable /\ script = Resting
    BY WorkspaceAssumption DEF JobsInit, NoMirrors
  <1>2. DataTypes /\ RunsAsShown
    BY <1>1, StoppedFacts DEF DataTypes, RunsAsShown, Alive, ChildWith
  <1>3. script.todo = <<>> /\ script.of = Nothing /\ script = [of |-> Nothing, todo |-> <<>>]
    BY <1>1 DEF Resting
  <1> QED BY <1>2, <1>3, EmptyQueue DEF JobsInv, ScriptTypes, BundleUnderWay

LEMMA JobsStepSound == ASSUME JobsInv, [JobsNext]_jobVars PROVE JobsInv'
  <1>1. CASE UNCHANGED jobVars
    <2>1. UNCHANGED <<draft, cable, audio, monitor, mirrors>> /\ UNCHANGED script
      BY <1>1 DEF jobVars, settings, children
    <2> QED BY <2>1, SameData DEF JobsInv, ScriptTypes, BundleUnderWay
  <1>2. CASE JobStep
    BY <1>2, JobStepSound, MovesTypes DEF StepSound, JobsInv
  <1> QED BY <1>1, <1>2, EndSound, ReceiveSound, RestartSound DEF JobsNext

\* A child runs with the settings the controller shows for it, whatever is refused,
\* fails or ends between two steps of a command.
THEOREM ChildrenRunAsShown == JobsSpec => []RunsAsShown
  <1>1. JobsInv => RunsAsShown
    BY DEF JobsInv
  <1> QED BY <1>1, JobsStart, JobsStepSound, PTL DEF JobsSpec

\* What an integrated preset does not include keeps its settings, and its children run
\* on as they were unless they end.
THEOREM PresetsKeepApart == JobsSpec => UnselectedUntouched
  <1> DEFINE A == (script.of # Nothing /\ script.of.kind = "bundle" /\ JobStep) =>
        LET bundle == script.of.bundle
            kept(child, next) == next = PolledChild(child) \/ next = child
        IN /\ bundle.audio = Nothing => draft'.audio = draft.audio /\ kept(audio, audio')
           /\ bundle.cable = Nothing => cable' = cable /\ kept(monitor, monitor')
           /\ bundle.rows = Nothing =>
                /\ draft'.rows = draft.rows
                /\ \A i \in Mirror : kept(mirrors[i], mirrors'[i])
  <1>1. JobsInv /\ [JobsNext]_jobVars => A
    BY JobStepSound DEF StepSound, KeepsApart, Kept, BundleUnderWay
  <1>2. JobsInv /\ [JobsNext]_jobVars => [A]_jobVars
    BY <1>1
  <1> HIDE DEF A
  <1>3. JobsSpec => [][A]_jobVars
    BY <1>2, JobsStart, JobsStepSound, PTL DEF JobsSpec
  <1> QED BY <1>3 DEF A, UnselectedUntouched

-----------------------------------------------------------------------------
(* No feedback.                                                              *)

\* While an integrated preset is carried out after its check, what it brings and what
\* runs beside it are harmless, and what it brings is set or still to be set.
Fed(todo, bundle) ==
    /\ Harmless(bundle)
    /\ bundle.audio # Nothing => Has(todo, "audio") \/ draft.audio = bundle.audio
    /\ bundle.cable # Nothing => Has(todo, "cable") \/ cable = bundle.cable

FedInv ==
    BundleUnderWay /\ script.of.start /\ ~Has(script.todo, "bundle")
        => Fed(script.todo, script.of.bundle)

LEMMA HarmlessStays ==
    ASSUME NEW bundle, Harmless(bundle),
           bundle.audio = Nothing => draft'.audio = draft.audio /\ (Alive(audio') => Alive(audio)),
           bundle.cable = Nothing => cable' = cable /\ (Alive(monitor') => Alive(monitor))
    PROVE  Harmless(bundle)'
  BY DEF Harmless, Wanted

LEMMA KeptAlive == ASSUME NEW child, NEW next, Kept(child, next)
    PROVE Alive(next) => Alive(child)
  BY DEF Kept, PolledChild, Alive


LEMMA BundleOnly == ASSUME JobStep, Now.kind = "bundle" PROVE BundleApply \/ Failed
  BY DEF JobStep, Refused, PollChildren, AtStep, AudioStop, AudioSelect, AudioStart,
         ChangeAudio, CableStop, CableSelect, CableVolume, CableStart, CablePresetLoad,
         CablePresetRun, CableRun, ChangeCable, MirrorSettings, MirrorAdd, MirrorRemove,
         MirrorStart, MirrorStop, ChangeDisplays, MirrorRun, Reload, PresetLoad,
         AudioPresetLoad, DisplayPresetLoad, AudioPresetRun, DisplayPresetRun, StopAll

\* A step of the preset that does not fail: what is left of the script, and what then
\* holds of it.
LEMMA FedStep ==
    ASSUME JobsInv, FedInv, JobStep, BundleUnderWay, script.of.start, ~Failed,
           NEW bundle, bundle = script.of.bundle
    PROVE  \E steps :
            LET todo == steps \o Tail(script.todo) IN
            /\ Continue(steps)
            /\ ~Has(todo, "bundle") =>
                /\ Harmless(bundle)'
                /\ bundle.audio # Nothing => Has(todo, "audio") \/ draft'.audio = bundle.audio
                /\ bundle.cable # Nothing => Has(todo, "cable") \/ cable' = bundle.cable
  <1>1. /\ Moves /\ KeepsApart /\ SetsParts /\ ScriptTypes /\ script.todo # <<>>
        /\ Now = script.todo[1] /\ Brought(Now, script.of)
    BY JobStepSound, NowFacts DEF StepSound, JobsInv
  <1>2. Harmless(bundle) => Harmless(bundle)'
    <2>1. /\ bundle.audio = Nothing => draft'.audio = draft.audio /\ (Alive(audio') => Alive(audio))
          /\ bundle.cable = Nothing => cable' = cable /\ (Alive(monitor') => Alive(monitor))
      BY <1>1, KeptAlive DEF KeepsApart
    <2> QED BY <2>1, HarmlessStays
  <1>3. PICK steps : /\ Steps(steps) /\ Continue(steps)
                     /\ Now.kind = "bundle" => Brings(steps)
    <2>1. CASE Now.kind = "bundle"
      BY <2>1, BundleOnly, BundleBrings
    <2>2. CASE Now.kind # "bundle"
      BY <1>1, <2>2 DEF Moves
    <2> QED BY <2>1, <2>2
  <1> DEFINE todo == steps \o Tail(script.todo)
  <1>4. \A i \in 2..Len(script.todo) : \E j \in 1..Len(todo) : todo[j] = script.todo[i]
    BY <1>1, <1>3, TodoFacts
  <1>5. \A kind : Has(steps, kind) => Has(todo, kind)
    <2>1. IsQueue(steps) /\ IsQueue(Tail(script.todo))
      BY <1>1, <1>3, TailFacts DEF Steps, ScriptTypes
    <2> QED BY <2>1, HasFirst
  <1>6. Len(script.todo) \in Nat
    BY <1>1, QueueFacts DEF ScriptTypes
  <1> HIDE DEF todo
  <1>7. \A kind : Has(script.todo, kind) /\ Now.kind # kind => Has(todo, kind)
    <2>1. ASSUME NEW kind, NEW i \in 1..Len(script.todo), script.todo[i].kind = kind, Now.kind # kind
          PROVE  Has(todo, kind)
      <3>1. i \in 2..Len(script.todo)
        BY <1>1, <1>6, <2>1
      <3> QED BY <1>4, <2>1, <3>1 DEF Has
    <2> QED BY <2>1 DEF Has
  <1>8. ASSUME ~Has(todo, "bundle")
        PROVE  /\ Harmless(bundle)'
               /\ bundle.audio # Nothing => Has(todo, "audio") \/ draft'.audio = bundle.audio
               /\ bundle.cable # Nothing => Has(todo, "cable") \/ cable' = bundle.cable
    <2>1. CASE Now.kind = "bundle"
      BY <1>2, <1>3, <1>5, <2>1 DEF Brings
    <2>2. CASE Now.kind # "bundle"
      <3>1. ~Has(script.todo, "bundle")
        BY <1>7, <1>8, <2>2
      <3>2. Fed(script.todo, bundle)
        BY <3>1 DEF FedInv
      <3>3. bundle.audio # Nothing => Has(todo, "audio") \/ draft'.audio = bundle.audio
        <4>1. CASE Now.kind = "audio"
          BY <1>1, <4>1 DEF SetsParts
        <4>2. CASE Now.kind # "audio"
          BY <1>1, <1>7, <3>2, <4>2 DEF Fed, SetsParts
        <4> QED BY <4>1, <4>2
      <3>4. bundle.cable # Nothing => Has(todo, "cable") \/ cable' = bundle.cable
        <4>1. CASE Now.kind = "cable"
          BY <1>1, <4>1 DEF SetsParts
        <4>2. CASE Now.kind # "cable"
          BY <1>1, <1>7, <3>2, <4>2 DEF Fed, SetsParts
        <4> QED BY <4>1, <4>2
      <3> QED BY <1>2, <3>2, <3>3, <3>4 DEF Fed
    <2> QED BY <2>1, <2>2
  <1> QED BY <1>3, <1>8 DEF todo

LEMMA NotUnderWay == ASSUME script = Resting PROVE ~BundleUnderWay
  BY DEF Resting, BundleUnderWay

LEMMA FedInductive == ASSUME JobsInv, FedInv, [JobsNext]_jobVars PROVE FedInv'
  <1>1. script' = Resting => FedInv'
    BY DEF FedInv, BundleUnderWay, Resting
  <1>2. CASE UNCHANGED jobVars
    BY <1>2 DEF jobVars, settings, children, FedInv, BundleUnderWay, Fed, Has, Harmless, Wanted
  <1>3. CASE ReceiveCommand
    BY <1>3, ReceiveSound DEF FedInv, Has
  <1>4. CASE Restart
    BY <1>1, <1>4, RestartSound
  <1>5. CASE End
    <2>1. /\ UNCHANGED <<draft, cable, script>> /\ (Alive(audio') => Alive(audio))
          /\ Alive(monitor') => Alive(monitor)
      BY <1>5, EndSound
    <2>2. ASSUME NEW bundle, Harmless(bundle) PROVE Harmless(bundle)'
      BY <2>1, <2>2, HarmlessStays
    <2>3. SUFFICES ASSUME BundleUnderWay', script'.of.start, ~Has(script'.todo, "bundle")
                   PROVE  Fed(script.todo, script.of.bundle)'
      BY DEF FedInv
    <2>4. Fed(script.todo, script.of.bundle)
      BY <2>1, <2>3 DEF FedInv, BundleUnderWay
    <2>5. PICK bundle : bundle = script.of.bundle
      OBVIOUS
    <2>6. Harmless(bundle)'
      BY <2>2, <2>4, <2>5 DEF Fed
    <2> QED BY <2>1, <2>4, <2>5, <2>6 DEF Fed
  <1>6. CASE JobStep
    <2> SUFFICES ASSUME BundleUnderWay', script'.of.start, ~Has(script'.todo, "bundle")
                 PROVE  Fed(script.todo, script.of.bundle)'
      BY DEF FedInv
    <2>1. script' # Resting
      BY <1>1 DEF BundleUnderWay, Resting
    <2>2. ~Failed
      BY <2>1 DEF Failed
    <2>3. script.todo # <<>> /\ Moves /\ ScriptTypes
      BY <1>6, JobStepSound DEF StepSound, JobsInv
    <2>4. ASSUME NEW steps, Continue(steps)
          PROVE  script' = [of |-> script.of, todo |-> steps \o Tail(script.todo)]
      BY <2>1, <2>3, <2>4 DEF Continue, ScriptTypes
    <2>5. script'.of = script.of
      BY <2>2, <2>3, <2>4 DEF Moves
    <2>6. BundleUnderWay /\ script.of.start
      BY <2>5 DEF BundleUnderWay
    <2>7. PICK bundle : bundle = script.of.bundle
      OBVIOUS
    <2>8. PICK steps :
            LET todo == steps \o Tail(script.todo) IN
            /\ Continue(steps)
            /\ ~Has(todo, "bundle") =>
                /\ Harmless(bundle)'
                /\ bundle.audio # Nothing => Has(todo, "audio") \/ draft'.audio = bundle.audio
                /\ bundle.cable # Nothing => Has(todo, "cable") \/ cable' = bundle.cable
      BY <1>6, <2>2, <2>6, <2>7, FedStep
    <2>9. script'.todo = steps \o Tail(script.todo)
      BY <2>4, <2>8
    <2>10. /\ Harmless(bundle)'
           /\ bundle.audio # Nothing => Has(script'.todo, "audio") \/ draft'.audio = bundle.audio
           /\ bundle.cable # Nothing => Has(script'.todo, "cable") \/ cable' = bundle.cable
      BY <2>8, <2>9
    <2>11. script'.of.bundle = bundle
      BY <2>5, <2>7
    <2> QED BY <2>10, <2>11 DEF Fed
  <1> QED BY <1>2, <1>3, <1>4, <1>5, <1>6 DEF JobsNext

\* Where it ends, the repeater and the monitor do not feed each other.
LEMMA EndsHarmless ==
    ASSUME JobsInv, FedInv, [JobsNext]_jobVars, script.of # Nothing, script' = Resting,
           answer' = "ok", script.of.kind = "bundle", script.of.start,
           Alive(audio'), Alive(monitor')
    PROVE  <<audio'.with, monitor'.with.route>> \notin Loops
  <1>1. script # Resting /\ BundleUnderWay
    BY DEF Resting, BundleUnderWay
  <1>2. JobStep
    <2>1. script' # script
      BY <1>1
    <2> QED BY <1>1, <2>1, EndSound, RestartSound DEF JobsNext, jobVars, ReceiveCommand
  <1>3. ~Failed
    BY DEF Failed
  <1>4. PICK bundle : bundle = script.of.bundle
    OBVIOUS
  <1>5. PICK steps :
            LET todo == steps \o Tail(script.todo) IN
            /\ Continue(steps)
            /\ ~Has(todo, "bundle") =>
                /\ Harmless(bundle)'
                /\ bundle.audio # Nothing => Has(todo, "audio") \/ draft'.audio = bundle.audio
                /\ bundle.cable # Nothing => Has(todo, "cable") \/ cable' = bundle.cable
    BY <1>1, <1>2, <1>3, <1>4, FedStep
  <1> DEFINE todo == steps \o Tail(script.todo)
  <1>6. todo = <<>>
    <2>1. script = [of |-> script.of, todo |-> script.todo]
      BY DEF JobsInv, ScriptTypes
    <2>2. todo # <<>> => script' = [script EXCEPT !.todo = todo]
      BY <1>5 DEF Continue
    <2> HIDE DEF todo
    <2>3. todo # <<>> => script'.of = script.of
      BY <2>1, <2>2
    <2> QED BY <2>3 DEF Resting
  <1>7. \A kind : ~Has(<<>>, kind)
    BY EmptyQueue DEF Has
  <1>8. /\ Harmless(bundle)'
        /\ bundle.audio # Nothing => draft'.audio = bundle.audio
        /\ bundle.cable # Nothing => cable' = bundle.cable
    BY <1>5, <1>6, <1>7
  <1>9. DataTypes' /\ RunsAsShown'
    BY JobsStepSound DEF JobsInv
  <1>10. /\ audio'.with = draft'.audio /\ draft'.audio # Nothing
         /\ monitor'.with.route = cable'.route /\ cable' # Nothing
    BY <1>9, WorkspaceAssumption DEF DataTypes, RunsAsShown, Settings
  <1> QED BY <1>8, <1>10 DEF Harmless, Wanted

\* An integrated preset that was started does not leave the repeater and the monitor
\* feeding each other, whatever ran before, fails or ends meanwhile.
THEOREM NoFeedback == JobsSpec => NoLoopStarted
  <1> DEFINE A == (script.of # Nothing /\ script' = Resting /\ answer' = "ok")
        => ((script.of.kind = "bundle" /\ script.of.start /\ Alive(audio') /\ Alive(monitor'))
            => <<audio'.with, monitor'.with.route>> \notin Loops)
  <1>1. JobsInit => FedInv
    BY NotUnderWay DEF JobsInit, FedInv
  <1>2. JobsInv /\ FedInv /\ [JobsNext]_jobVars => [A]_jobVars
    BY EndsHarmless
  <1> HIDE DEF A
  <1>3. JobsSpec => [][A]_jobVars
    BY <1>1, <1>2, JobsStart, JobsStepSound, FedInductive, PTL DEF JobsSpec
  <1> QED BY <1>3 DEF A, NoLoopStarted
=============================================================================
