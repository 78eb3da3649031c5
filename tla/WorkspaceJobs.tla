----------------------------- MODULE WorkspaceJobs -----------------------------
(***************************************************************************)
(* The controller of the desktop workspace host: the audio repeater, the     *)
(* cable monitor and the mirrors it runs as child processes, and the         *)
(* settings they were started with.  One thread carries out the commands;    *)
(* children end whenever they like, and it learns of it when it polls.  A     *)
(* command that starts several things does so step by step, and what was     *)
(* done stays done when a later step fails.                                  *)
(***************************************************************************)
EXTENDS Naturals, Sequences, SequencesExt

CONSTANTS
    Nothing,
    Audios,        \* routes of the repeater
    Cables,        \* routes of the cable monitor
    Gains,         \* its volumes
    Displays,      \* what a mirror shows, and how
    Loops,         \* <<repeater, monitor>> routes that feed each other
    MaxRows,       \* the limit of mirror rows
    Presets,       \* saved settings of repeater and mirrors
    CablePresets,  \* saved settings of the monitor
    Bundles        \* saved integrated presets

Row == [on : BOOLEAN, to : Displays]
Rows == UNION {[1..n -> Row] : n \in 1..MaxRows}
Cable == [route : Cables, gain : Gains]
Settings == [audio : Audios, rows : Rows]
Bundle == [audio : Audios \cup {Nothing}, cable : Cable \cup {Nothing}, rows : Rows \cup {Nothing}]

ASSUME WorkspaceAssumption ==
    /\ MaxRows \in Nat \ {0}
    /\ Loops \subseteq Audios \X Cables
    /\ Presets \subseteq Settings
    /\ CablePresets \subseteq Cable
    /\ Bundles \subseteq Bundle
    /\ Nothing \notin Audios \cup Cable \cup Rows

VARIABLES
    draft,     \* Controller.draft
    cable,     \* Controller.cable
    audio,     \* the repeater's child, if the controller owns one
    monitor,   \* the monitor's
    mirrors,   \* those of the mirror rows
    script,    \* the command being carried out, and what it has yet to do
    answer     \* to the last command

settings == <<draft, cable>>
children == <<audio, monitor, mirrors>>
jobVars == <<settings, children, script, answer>>

Mirror == 1..MaxRows
Resting == [of |-> Nothing, todo |-> <<>>]

\* OwnedProcess: the settings a child runs with; real until the child ends.
Child(with) == [real |-> TRUE, with |-> with]
Alive(child) == child # Nothing

JobsInit ==
    /\ draft \in Presets
    /\ cable \in CablePresets
    /\ audio = Nothing
    /\ monitor = Nothing
    /\ mirrors = [i \in Mirror |-> Nothing]
    /\ script = Resting
    /\ answer = "ok"

\* Children end on their own, with or without an error.
EndsAlone(child) == Alive(child) /\ child.real
End ==
    /\ \/ /\ EndsAlone(audio) /\ audio' = [audio EXCEPT !.real = FALSE]
          /\ UNCHANGED <<monitor, mirrors>>
       \/ /\ EndsAlone(monitor) /\ monitor' = [monitor EXCEPT !.real = FALSE]
          /\ UNCHANGED <<audio, mirrors>>
       \/ /\ \E i \in Mirror :
                EndsAlone(mirrors[i]) /\ mirrors' = [mirrors EXCEPT ![i].real = FALSE]
          /\ UNCHANGED <<audio, monitor>>
    /\ UNCHANGED <<settings, script, answer>>

-----------------------------------------------------------------------------
(* Commands and their steps.                                                 *)

Simple == {"audio.start", "audio.stop", "cable.start", "cable.stop", "mirror.add", "stop_all"}

Command ==
    [kind : Simple]
    \cup [kind : {"audio.select"}, audio : Audios]
    \cup [kind : {"cable.select"}, route : Cables]
    \cup [kind : {"cable.volume"}, gain : Gains]
    \cup [kind : {"mirror.start", "mirror.stop", "mirror.remove"}, index : Mirror]
    \cup [kind : {"mirror.settings"}, index : Mirror, row : Row]
    \cup [kind : {"settings.reload"}, settings : Presets, cable : CablePresets]
    \cup [kind : {"preset.load", "audio.preset.load", "display.preset.load",
                  "audio.preset.run", "display.preset.run"}, settings : Presets]
    \cup [kind : {"cable.preset.load", "cable.preset.run"}, cable : CablePresets]
    \cup [kind : {"bundle"}, bundle : Bundles, start : BOOLEAN]

\* execute: children are polled, then the command is dispatched.  Commands also
\* execute others on their way.
Execute(command) == <<[kind |-> "poll"], command>>

ReceiveCommand ==
    /\ script = Resting
    /\ \E command \in Command : script' = [of |-> command, todo |-> Execute(command)]
    /\ UNCHANGED <<settings, children, answer>>

Now == Head(script.todo)
AtStep(kind) == script.todo # <<>> /\ Now.kind = kind

\* The step is done; others take its place.
Continue(steps) ==
    LET todo == steps \o Tail(script.todo) IN
    /\ script' = IF todo = <<>> THEN Resting ELSE [script EXCEPT !.todo = todo]
    /\ answer' = IF todo = <<>> THEN "ok" ELSE answer

Done == Continue(<<>>)
Failed == script' = Resting /\ answer' = "error"

\* OwnedProcess::stop gives the child up first; then ending it may fail.
StopFails(child) == Alive(child) /\ Failed

\* A device is missing, the settings are invalid, a child cannot be polled or
\* started, or it is running already.
Refused ==
    /\ script.todo # <<>>
    /\ Now.kind \notin {"audio.stop", "cable.stop", "mirror.stop", "stop_all",
                        "audio", "cable", "displays", "cable.run", "mirror.run"}
    /\ Failed
    /\ UNCHANGED <<settings, children>>

\* poll: children that have ended are given up.
PolledChild(child) == IF Alive(child) /\ ~child.real THEN Nothing ELSE child

PollChildren ==
    /\ AtStep("poll")
    /\ audio' = PolledChild(audio)
    /\ monitor' = PolledChild(monitor)
    /\ mirrors' = [i \in Mirror |-> PolledChild(mirrors[i])]
    /\ Done
    /\ UNCHANGED settings

-----------------------------------------------------------------------------
(* The audio repeater.                                                       *)

AudioStop ==
    /\ AtStep("audio.stop")
    /\ audio' = Nothing
    /\ Done \/ StopFails(audio)
    /\ UNCHANGED <<settings, monitor, mirrors>>

AudioSelect ==
    /\ AtStep("audio.select")
    /\ audio' = Nothing
    /\ \/ Done /\ draft' = [draft EXCEPT !.audio = Now.audio]
       \/ StopFails(audio) /\ UNCHANGED draft
    /\ UNCHANGED <<cable, monitor, mirrors>>

AudioStart ==
    /\ AtStep("audio.start")
    /\ ~Alive(audio)
    /\ audio' = Child(draft.audio)
    /\ Done
    /\ UNCHANGED <<settings, monitor, mirrors>>

\* Mutant: a preset starts from silence.
ChangeFromSilence ==
    /\ AtStep("audio")
    /\ audio' = Nothing /\ monitor' = Nothing
    /\ draft' = [draft EXCEPT !.audio = Now.audio]
    /\ Continue(IF Now.start THEN Execute([kind |-> "audio.start"]) ELSE <<>>)
    /\ UNCHANGED <<cable, mirrors>>

\* A preset's or bundle's repeater: stopped when its route changes, or when
\* nothing is to be started; the new route may then fail to start.
ChangeAudio ==
    /\ AtStep("audio")
    /\ LET stays == Now.start /\ draft.audio = Now.audio IN
        \/ /\ ~stays /\ StopFails(audio)
           /\ audio' = Nothing
           /\ UNCHANGED draft
        \/ /\ audio' = IF stays THEN audio ELSE Nothing
           /\ draft' = [draft EXCEPT !.audio = Now.audio]
           /\ Continue(IF Now.start /\ ~Alive(audio')
                       THEN Execute([kind |-> "audio.start"]) ELSE <<>>)
    /\ UNCHANGED <<cable, monitor, mirrors>>

-----------------------------------------------------------------------------
(* The cable monitor.                                                        *)

CableStop ==
    /\ AtStep("cable.stop")
    /\ monitor' = Nothing
    /\ Done \/ StopFails(monitor)
    /\ UNCHANGED <<settings, audio, mirrors>>

CableSelect ==
    /\ AtStep("cable.select")
    /\ monitor' = Nothing
    /\ \/ Done /\ cable' = [cable EXCEPT !.route = Now.route]
       \/ StopFails(monitor) /\ UNCHANGED cable
    /\ UNCHANGED <<draft, audio, mirrors>>

\* The gain is written to the child; the pipe is broken if it has ended.
Written(gain) == [monitor EXCEPT !.with.gain = gain]
BrokenPipe == Alive(monitor) /\ ~monitor.real /\ UNCHANGED monitor /\ Failed

CableVolume ==
    /\ AtStep("cable.volume")
    /\ cable' = [cable EXCEPT !.gain = Now.gain]
    /\ \/ Done /\ monitor' = IF Alive(monitor) THEN Written(Now.gain) ELSE monitor
       \/ BrokenPipe
    /\ UNCHANGED <<draft, audio, mirrors>>

CableStart ==
    /\ AtStep("cable.start")
    /\ ~Alive(monitor)
    /\ monitor' = Child(cable)
    /\ Done
    /\ UNCHANGED <<settings, audio, mirrors>>

\* CablePresetLoad: a running monitor follows the preset, or is left stopped.
CablePresetLoad ==
    /\ AtStep("cable.preset.load")
    /\ LET same == cable.route = Now.cable.route IN
       \/ /\ monitor' = CASE ~Alive(monitor) -> monitor
                          [] Alive(monitor) /\ same -> Written(Now.cable.gain)
                          [] OTHER -> Child(Now.cable)
          /\ cable' = Now.cable
          /\ Done
       \/ same /\ BrokenPipe /\ UNCHANGED cable
       \/ ~same /\ StopFails(monitor) /\ monitor' = Nothing /\ UNCHANGED cable
    /\ UNCHANGED <<draft, audio, mirrors>>

CablePresetRun ==
    /\ AtStep("cable.preset.run")
    /\ Continue(Append(Execute([kind |-> "cable.preset.load", cable |-> Now.cable]),
                       [kind |-> "cable.run"]))
    /\ UNCHANGED <<settings, children>>

CableRun ==
    /\ AtStep("cable.run")
    /\ Continue(IF Alive(monitor) THEN <<>> ELSE Execute([kind |-> "cable.start"]))
    /\ UNCHANGED <<settings, children>>

\* A bundle's monitor.
ChangeCable ==
    /\ AtStep("cable")
    /\ LET stays == Now.start /\ cable.route = Now.cable.route IN
        \/ ~stays /\ StopFails(monitor) /\ monitor' = Nothing /\ UNCHANGED cable
        \/ /\ cable' = Now.cable
           /\ IF stays /\ Alive(monitor)
              THEN BrokenPipe \/ (Done /\ monitor' = Written(Now.cable.gain))
              ELSE /\ monitor' = Nothing
                   /\ Continue(IF Now.start THEN Execute([kind |-> "cable.start"]) ELSE <<>>)
    /\ UNCHANGED <<draft, audio, mirrors>>

-----------------------------------------------------------------------------
(* The mirrors.                                                              *)

NoMirrors == [i \in Mirror |-> Nothing]

MirrorSettings ==
    /\ AtStep("mirror.settings")
    /\ Now.index \in DOMAIN draft.rows
    /\ ~Alive(mirrors[Now.index])
    /\ draft' = [draft EXCEPT !.rows[Now.index] = Now.row]
    /\ Done
    /\ UNCHANGED <<cable, children>>

\* A new row is the default one.
MirrorAdd ==
    /\ AtStep("mirror.add")
    /\ Len(draft.rows) < MaxRows
    /\ \E to \in Displays :
        draft' = [draft EXCEPT !.rows = Append(@, [on |-> FALSE, to |-> to])]
    /\ Done
    /\ UNCHANGED <<cable, children>>

MirrorRemove ==
    /\ AtStep("mirror.remove")
    /\ Now.index \in 2..Len(draft.rows)
    /\ \A i \in Mirror : ~Alive(mirrors[i])
    /\ draft' = [draft EXCEPT !.rows = RemoveAt(@, Now.index)]
    /\ mirrors' = NoMirrors
    /\ Done
    /\ UNCHANGED <<cable, audio, monitor>>

MirrorStart ==
    /\ AtStep("mirror.start")
    /\ Now.index \in DOMAIN draft.rows
    /\ ~Alive(mirrors[Now.index])
    /\ draft.rows[Now.index].on
    /\ mirrors' = [mirrors EXCEPT ![Now.index] = Child(draft.rows[Now.index])]
    /\ Done
    /\ UNCHANGED <<settings, audio, monitor>>

MirrorStop ==
    /\ AtStep("mirror.stop")
    /\ mirrors' = [mirrors EXCEPT ![Now.index] = Nothing]
    /\ Done \/ StopFails(mirrors[Now.index])
    /\ UNCHANGED <<settings, audio, monitor>>

\* A preset's or bundle's mirrors: all are stopped, one after the other, when
\* any row changes or nothing is to be started; then the rows are started.
ChangeDisplays ==
    /\ AtStep("displays")
    /\ LET stays == Now.start /\ draft.rows = Now.rows IN
       \/ /\ ~stays
          /\ \E i \in Mirror :
                /\ StopFails(mirrors[i])
                /\ mirrors' = [k \in Mirror |-> IF k <= i THEN Nothing ELSE mirrors[k]]
          /\ UNCHANGED draft
       \/ /\ mirrors' = IF stays THEN mirrors ELSE NoMirrors
          /\ draft' = [draft EXCEPT !.rows = Now.rows]
          /\ Continue(IF Now.start
                      THEN [n \in 1..Len(Now.rows) |-> [kind |-> "mirror.run", index |-> n]]
                      ELSE <<>>)
    /\ UNCHANGED <<cable, audio, monitor>>

\* Of a row that is enabled and not running.
MirrorRun ==
    /\ AtStep("mirror.run")
    /\ Continue(IF Alive(mirrors[Now.index]) \/ ~draft.rows[Now.index].on THEN <<>>
                ELSE Execute([kind |-> "mirror.start", index |-> Now.index]))
    /\ UNCHANGED <<settings, children>>

-----------------------------------------------------------------------------
(* Presets of several parts.                                                 *)

\* Mutant: only the repeater is looked at.
RepeaterQuiet == ~Alive(audio)

Quiet == ~Alive(audio) /\ \A i \in Mirror : ~Alive(mirrors[i])

Reload ==
    /\ AtStep("settings.reload")
    /\ Quiet /\ ~Alive(monitor)
    /\ draft' = Now.settings
    /\ cable' = Now.cable
    /\ Done
    /\ UNCHANGED children

PresetLoad ==
    /\ AtStep("preset.load")
    /\ Quiet
    /\ draft' = Now.settings
    /\ Done
    /\ UNCHANGED <<cable, children>>

AudioPresetLoad ==
    /\ AtStep("audio.preset.load")
    /\ ~Alive(audio)
    /\ draft' = [draft EXCEPT !.audio = Now.settings.audio]
    /\ Done
    /\ UNCHANGED <<cable, children>>

DisplayPresetLoad ==
    /\ AtStep("display.preset.load")
    /\ \A i \in Mirror : ~Alive(mirrors[i])
    /\ draft' = [draft EXCEPT !.rows = Now.settings.rows]
    /\ Done
    /\ UNCHANGED <<cable, children>>

AudioPresetRun ==
    /\ AtStep("audio.preset.run")
    /\ Continue(<<[kind |-> "audio", audio |-> Now.settings.audio, start |-> TRUE]>>)
    /\ UNCHANGED <<settings, children>>

\* With no row enabled the first one is.
Enabled(rows) ==
    IF \E i \in DOMAIN rows : rows[i].on THEN rows ELSE [rows EXCEPT ![1].on = TRUE]

DisplayPresetRun ==
    /\ AtStep("display.preset.run")
    /\ Continue(<<[kind |-> "displays", rows |-> Enabled(Now.settings.rows), start |-> TRUE]>>)
    /\ UNCHANGED <<settings, children>>

\* The route a part of the bundle will run with, or is running with.
Wanted(part, child, now) ==
    IF part # Nothing THEN part ELSE IF Alive(child) THEN now ELSE Nothing

\* Mutant: only what the bundle itself brings is looked at.
OwnPartsOnly(bundle) ==
    bundle.audio # Nothing /\ bundle.cable # Nothing
        => <<bundle.audio, bundle.cable.route>> \notin Loops

\* The repeater and the monitor must not feed each other.
Harmless(bundle) ==
    LET repeater == Wanted(bundle.audio, audio, draft.audio)
        second == Wanted(bundle.cable, monitor, cable)
    IN repeater # Nothing /\ second # Nothing => <<repeater, second.route>> \notin Loops

\* apply_bundle: everything is validated before anything is changed.
BundleApply ==
    /\ AtStep("bundle")
    /\ LET bundle == Now.bundle
           start == Now.start
       IN /\ start => Harmless(bundle)
          /\ Continue(
                (IF bundle.audio = Nothing THEN <<>>
                 ELSE <<[kind |-> "audio", audio |-> bundle.audio, start |-> start]>>)
                \o (IF bundle.cable = Nothing THEN <<>>
                    ELSE <<[kind |-> "cable", cable |-> bundle.cable, start |-> start]>>)
                \o (IF bundle.rows = Nothing THEN <<>>
                    ELSE <<[kind |-> "displays", start |-> start,
                            rows |-> IF start THEN Enabled(bundle.rows) ELSE bundle.rows]>>))
    /\ UNCHANGED <<settings, children>>

\* Every stop is tried, whether or not others fail.
StopAll ==
    /\ AtStep("stop_all")
    /\ audio' = Nothing /\ monitor' = Nothing
    /\ mirrors' = NoMirrors
    /\ Done \/ (children' # children /\ Failed)
    /\ UNCHANGED settings

\* The host ends or is killed: its job object takes the children with it.  The
\* next one starts from saved settings.
Restart ==
    /\ audio' = Nothing /\ monitor' = Nothing
    /\ mirrors' = NoMirrors
    /\ draft' \in Presets
    /\ cable' \in CablePresets
    /\ script' = Resting
    /\ answer' = "ok"

JobStep ==
    \/ Refused \/ PollChildren
    \/ AudioStop \/ AudioSelect \/ AudioStart \/ ChangeAudio
    \/ CableStop \/ CableSelect \/ CableVolume \/ CableStart \/ CablePresetLoad
    \/ CablePresetRun \/ CableRun \/ ChangeCable
    \/ MirrorSettings \/ MirrorAdd \/ MirrorRemove \/ MirrorStart \/ MirrorStop
    \/ ChangeDisplays \/ MirrorRun
    \/ Reload \/ PresetLoad \/ AudioPresetLoad \/ DisplayPresetLoad
    \/ AudioPresetRun \/ DisplayPresetRun \/ BundleApply \/ StopAll

JobsNext == End \/ ReceiveCommand \/ JobStep \/ Restart

-----------------------------------------------------------------------------
(* Properties.                                                               *)

\* A child runs with the settings the controller shows for it: its routes for as
\* long as it is owned, its gain while it runs; a mirror that is owned has a row.
RunsAsShown ==
    /\ Alive(audio) => audio.with = draft.audio
    /\ Alive(monitor) => monitor.with.route = cable.route
    /\ Alive(monitor) /\ monitor.real => monitor.with.gain = cable.gain
    /\ \A i \in Mirror : Alive(mirrors[i]) =>
        i \in DOMAIN draft.rows /\ mirrors[i].with = draft.rows[i]

\* What an integrated preset does not include keeps its settings, and its
\* children run on as they were unless they end.
UnselectedUntouched ==
    [][(script.of # Nothing /\ script.of.kind = "bundle" /\ JobStep) =>
        LET bundle == script.of.bundle
            kept(child, next) == next = PolledChild(child) \/ next = child
        IN /\ bundle.audio = Nothing => draft'.audio = draft.audio /\ kept(audio, audio')
           /\ bundle.cable = Nothing => cable' = cable /\ kept(monitor, monitor')
           /\ bundle.rows = Nothing =>
                /\ draft'.rows = draft.rows
                /\ \A i \in Mirror : kept(mirrors[i], mirrors'[i])]_jobVars

\* An integrated preset that was started does not leave the repeater and the
\* monitor feeding each other, whatever ran before or ended meanwhile.
NoLoopStarted ==
    [][(script.of # Nothing /\ script' = Resting /\ answer' = "ok")
        => ((script.of.kind = "bundle" /\ script.of.start /\ Alive(audio') /\ Alive(monitor'))
            => <<audio'.with, monitor'.with.route>> \notin Loops)]_jobVars
=============================================================================
