------------------------------- MODULE ControlPanel -------------------------------
(* The desktop control panel (apps/desktop-control): the settings being edited,   *)
(* the presets and the settings saved last, and the processes it runs: one that    *)
(* copies the sound of an output to another, and one per row that mirrors a        *)
(* display.  `panel` is the program's ControlPanel, and an operation on it is the  *)
(* set of the states it may leave.  The windows' positions, the logs, the messages *)
(* and the options of a row other than its display are left out.                   *)
EXTENDS Integers, Sequences, SequencesExt, FiniteSets

CONSTANTS
    Nil,        \* no process, no choice, nothing selected
    Default,        \* the selector of the system's default output
    Outputs,        \* the outputs, all of which are connected
    Screens,        \* the displays that may be connected
    AudioChoices,   \* what the audio settings are edited to
    RowChoices,     \* what the settings of a row are edited to
    Books,          \* the files the panel may find
    MaxMirrors,     \* bound: rows
    MaxPresets,     \* bound: presets
    MaxTouches,     \* bound: edits of the settings
    MaxShifts       \* bound: changes of the system and processes that end by themselves

\* Settings, and the file they are saved to: those saved last, and the presets.
Selectors == Outputs \cup {Default, Nil}
AudioSettings == [on : BOOLEAN, source : Selectors, target : Selectors]
RowSettings == [on : BOOLEAN, screen : Screens \cup {Nil}]
PanelSettings == [audio : AudioSettings, rows : Seq(RowSettings)]
PanelBooks == [last : PanelSettings, presets : Seq(PanelSettings)]

ASSUME PanelAssumption ==
    /\ Outputs # {}
    /\ AudioChoices \subseteq AudioSettings /\ RowChoices \subseteq RowSettings
    /\ Books \subseteq PanelBooks \cup {Nil}
    /\ Nil \notin AudioSettings \cup RowSettings \cup Nat

VARIABLES
    panel,          \* the state of the program
    system,         \* the default output, the displays connected, whether a kill works
    file,           \* the file it saves to, or Nil while that is not readable
    touches, shifts

controlVars == <<panel, system, file, touches, shifts>>

-----------------------------------------------------------------------------
(* ManagedProcess: what its child was started with, whether the child has ended    *)
(* without being noticed, and whether an exit waits for the last of the logs.      *)

Resting == [with |-> Nil, gone |-> FALSE, exit |-> FALSE]
Living(slot) == slot.with # Nil
\* Mutant of Started: the exit of the child before is still to be reported.
StartedOver(slot, settings) == [slot EXCEPT !.with = settings, !.gone = FALSE]
Started(slot, settings) == [slot EXCEPT !.with = settings, !.gone = FALSE, !.exit = FALSE]

\* A poll notices that the child has ended, unless its state cannot be told or it
\* ends just after the poll, and reports an exit when the logs are complete or
\* 200 ms have passed.
Observed(slot) ==
    LET noticed == IF slot.gone THEN {slot, [Resting EXCEPT !.exit = TRUE]} ELSE {slot}
    IN  noticed \cup {[s EXCEPT !.exit = FALSE] : s \in noticed}

\* A stop that fails leaves the child and everything with it.
Halted(slot) == IF Living(slot) /\ ~slot.gone /\ ~system.kills THEN slot ELSE Resting

-----------------------------------------------------------------------------
(* Settings and presets.                                                           *)

FirstSettings ==
    [audio |-> [on |-> TRUE, source |-> Default, target |-> Nil],
     rows |-> <<[on |-> FALSE, screen |-> Nil]>>]

RowValid(row) == row.on => row.screen # Nil
AudioValid(audio) ==
    audio.on => Nil \notin {audio.source, audio.target} /\ audio.source # audio.target
Validated(settings) ==
    /\ settings.audio.on \/ \E k \in DOMAIN settings.rows : settings.rows[k].on
    /\ AudioValid(settings.audio)
    /\ \A k \in DOMAIN settings.rows : RowValid(settings.rows[k])

\* A listing is asked for or not, and has arrived or not.
NoLookup == [asked |-> FALSE, found |-> Nil]
NewLookup == [asked |-> TRUE, found |-> Nil]

FirstWith(presets, settings) ==
    LET same == {k \in DOMAIN presets : presets[k] = settings}
    IN  IF same = {} THEN Nil ELSE CHOOSE k \in same : \A other \in same : k <= other

\* The panel when it is opened, with a listing of the devices asked for.
Opened(found) ==
    LET book == IF found = Nil THEN [last |-> FirstSettings, presets |-> <<>>] ELSE found
    IN  [setup |-> book.last, book |-> book, picked |-> FirstWith(book.presets, book.last),
         confirming |-> FALSE, router |-> Resting,
         mirrors |-> [k \in DOMAIN book.last.rows |-> Resting],
         sound |-> [outputs |-> {}, default |-> Nil], screens |-> {}, lookup |-> NewLookup]

SomethingRuns(s) == Living(s.router) \/ \E k \in DOMAIN s.mirrors : Living(s.mirrors[k])

-----------------------------------------------------------------------------
(* Operations: the states that one of them may leave.  A refused operation and     *)
(* one whose save fails leave the state as it is.                                  *)

\* The new book is taken over once it is saved; a file that was not readable is kept.
Stored(s, book) == IF file = Nil THEN {} ELSE {[s EXCEPT !.book = book]}

SavesCurrent(s) ==
    IF Validated(s.setup) THEN Stored(s, [s.book EXCEPT !.last = s.setup]) ELSE {}

AddsPreset(s) ==
    LET presets == Append(s.book.presets, s.setup)
        after == [s EXCEPT !.picked = Len(presets)]
    IN  IF Validated(s.setup) /\ Len(presets) <= MaxPresets
          THEN Stored(after, [last |-> s.setup, presets |-> presets]) ELSE {}

LoadsPreset(s, k) ==
    LET settings == s.book.presets[k]
        after == [s EXCEPT !.setup = settings,
                           !.mirrors = [row \in DOMAIN settings.rows |-> Resting]]
    IN  IF ~SomethingRuns(s) THEN Stored(after, [s.book EXCEPT !.last = settings]) ELSE {}

UpdatesPreset(s, k) ==
    IF Validated(s.setup)
      THEN Stored(s, [last |-> s.setup, presets |-> [s.book.presets EXCEPT ![k] = s.setup]])
      ELSE {}

DeletesPreset(s, k) ==
    Stored([s EXCEPT !.picked = Nil, !.confirming = FALSE],
              [s.book EXCEPT !.presets = RemoveAt(@, k)])

\* What a listing says of the outputs; one that fails empties what is known.
NoSound == [outputs |-> {}, default |-> Nil]
Sounds == [outputs |-> Outputs, default |-> system.default]

\* The panel with its processes in these states.
Running(s, router, mirrors) == [s EXCEPT !.router = router, !.mirrors = mirrors]

\* A listing that has arrived is taken up.
ListingTaken(s) ==
    LET found == s.lookup.found
    IN  IF found = Nil THEN s
        ELSE [s EXCEPT !.sound = found.sound, !.screens = found.screens, !.lookup = NoLookup]

\* A poll takes up a listing, and polls every process.
Polls(s) ==
    LET rows == DOMAIN s.mirrors
        polled == {noted \in [rows -> UNION {Observed(s.mirrors[k]) : k \in rows}] :
                      \A k \in rows : noted[k] \in Observed(s.mirrors[k])}
    IN  {Running(ListingTaken(s), router, mirrors) :
            router \in Observed(s.router), mirrors \in polled}

Meant(sound, selector) == IF selector = Default THEN sound.default ELSE selector

\* The route is between two outputs that are known.
RouteKnown(audio, sound) ==
    LET source == Meant(sound, audio.source)
        target == Meant(sound, audio.target)
    IN  source \in sound.outputs /\ target \in sound.outputs /\ source # target

RowKnown(s, k) == RowValid(s.setup.rows[k]) /\ s.setup.rows[k].screen \in s.screens

StartsRouter(s) == s.setup.audio.on /\ ~Living(s.router)
StartsRows(s) == {k \in DOMAIN s.mirrors : s.setup.rows[k].on /\ ~Living(s.mirrors[k])}

DevicesValid(s) ==
    /\ Validated(s.setup) /\ ~s.lookup.asked
    /\ StartsRouter(s) => RouteKnown(s.setup.audio, s.sound)
    /\ \A k \in StartsRows(s) : RowKnown(s, k)

\* The outputs are listed afresh when the route is to be started.  If its child has
\* ended and only the second poll notices, it is started by the listing before.
Listed(s) ==
    IF StartsRouter(s) THEN [s EXCEPT !.sound = Sounds] ELSE s

\* Mutant of StartedBefore: every row before the one that failed.
AnyBefore(s, bad) == {k \in DOMAIN s.mirrors : k < bad}

\* The rows that this start began before the one that failed.
StartedBefore(s, bad) == {k \in StartsRows(s) : k < bad}

\* What is to run is started in order, after the settings are saved.  The first row
\* that fails stops the ones before it, and the route if this start began it.
Launches(s) ==
    LET todo == StartsRows(s)
        router == IF StartsRouter(s) THEN Started(s.router, s.setup.audio) ELSE s.router
        Begun(k) == Started(s.mirrors[k], s.setup.rows[k])
        all == Running(s, router,
                   [k \in DOMAIN s.mirrors |-> IF k \in todo THEN Begun(k) ELSE s.mirrors[k]])
        FailsAt(bad) ==
            Running(s, IF StartsRouter(s) THEN Halted(router) ELSE s.router,
                [k \in DOMAIN s.mirrors |->
                    IF k \in StartedBefore(s, bad) THEN Halted(Begun(k)) ELSE s.mirrors[k]])
    IN  {all} \cup {FailsAt(bad) : bad \in todo} \cup IF StartsRouter(s) THEN {s} ELSE {}

StartsWithResolver(s) ==
    UNION {LET saved == IF DevicesValid(noted) THEN SavesCurrent(noted) ELSE {}
           IN  {noted} \cup UNION {Launches(ready) : ready \in saved} : noted \in Polls(s)}

Starts(s) ==
    UNION {{noted} \cup StartsWithResolver(Listed(noted)) : noted \in Polls(s)}

RunsPreset(s, k) == UNION {Starts(loaded) : loaded \in LoadsPreset(s, k)}

OpensMirror(s, k) ==
    UNION {{noted} \cup IF noted.setup.rows[k].on /\ RowKnown(noted, k) /\ ~Living(noted.mirrors[k])
                         THEN {[noted EXCEPT !.mirrors[k] = Started(@, noted.setup.rows[k])]}
                         ELSE {} : noted \in Polls(s)}

Stops(s) ==
    Running(s, Halted(s.router), [k \in DOMAIN s.mirrors |-> Halted(s.mirrors[k])])

-----------------------------------------------------------------------------
(* What the user may click, and what happens without a click.                      *)

\* A click leaves one of the states, and the file is what was saved last.
Yields(states) ==
    /\ panel' \in states
    /\ file' = IF panel'.book # panel.book THEN panel'.book ELSE file
    /\ UNCHANGED <<system, touches, shifts>>

Picking == panel.picked # Nil /\ ~SomethingRuns(panel)
Searching == panel.lookup.asked

SelectPreset ==
    /\ ~SomethingRuns(panel)
    /\ \E k \in DOMAIN panel.book.presets :
          Yields({[panel EXCEPT !.picked = k, !.confirming = FALSE]})
LoadPreset == Picking /\ Yields(LoadsPreset(panel, panel.picked))
RunPreset == Picking /\ ~Searching /\ Yields(RunsPreset(panel, panel.picked))
UpdatePreset == Picking /\ Yields(UpdatesPreset(panel, panel.picked))
AskDelete == Picking /\ Yields({[panel EXCEPT !.confirming = TRUE]})
CancelDelete == Picking /\ Yields({[panel EXCEPT !.confirming = FALSE]})
DeletePreset == Picking /\ panel.confirming /\ Yields(DeletesPreset(panel, panel.picked))
AddPreset == ~SomethingRuns(panel) /\ Yields(AddsPreset(panel))
SaveCurrent == Yields(SavesCurrent(panel))
StartAll == ~Searching /\ Yields(Starts(panel))
StopEverything == SomethingRuns(panel) /\ Yields({Stops(panel)})
StopAudio == Living(panel.router) /\ Yields({[panel EXCEPT !.router = Halted(@)]})
StopMirror ==
    \E k \in DOMAIN panel.mirrors :
       Living(panel.mirrors[k]) /\ Yields({[panel EXCEPT !.mirrors[k] = Halted(@)]})
OpenMirror ==
    /\ ~Searching
    /\ \E k \in DOMAIN panel.mirrors :
          /\ panel.setup.rows[k].on /\ ~Living(panel.mirrors[k])
          /\ Yields(OpensMirror(panel, k))
RefreshDevices == ~Searching /\ Yields({[panel EXCEPT !.lookup = NewLookup]})
PollPanel == Yields(Polls(panel))

Touch(after) ==
    /\ touches < MaxTouches
    /\ panel' = after
    /\ touches' = touches + 1
    /\ UNCHANGED <<system, file, shifts>>

\* The settings of what runs are locked.
EditAudio ==
    /\ ~Living(panel.router)
    /\ \E audio \in AudioChoices : Touch([panel EXCEPT !.setup.audio = audio])
EditRow ==
    \E k \in DOMAIN panel.mirrors, row \in RowChoices :
       /\ ~Living(panel.mirrors[k])
       /\ Touch([panel EXCEPT !.setup.rows[k] = row])
AddMirror ==
    /\ Len(panel.mirrors) < MaxMirrors
    /\ Touch([panel EXCEPT !.setup.rows = Append(@, [on |-> TRUE, screen |-> Nil]),
                           !.mirrors = Append(@, Resting)])
RemoveMirror ==
    /\ Len(panel.mirrors) > 1 /\ ~SomethingRuns(panel)
    /\ Touch([panel EXCEPT !.setup.rows = Front(@), !.mirrors = Front(@)])

\* A listing is ready: of the outputs and of the displays, each of which may fail.
DevicesArrive ==
    /\ panel.lookup = NewLookup
    /\ \E sound \in {Sounds, NoSound}, screens \in {system.screens, {}} :
          panel' = [panel EXCEPT !.lookup.found = [sound |-> sound, screens |-> screens]]
    /\ UNCHANGED <<system, file, touches, shifts>>

ChildEnds ==
    /\ shifts < MaxShifts
    /\ \/ /\ Living(panel.router) /\ ~panel.router.gone
          /\ panel' = [panel EXCEPT !.router.gone = TRUE]
       \/ \E k \in DOMAIN panel.mirrors :
             /\ Living(panel.mirrors[k]) /\ ~panel.mirrors[k].gone
             /\ panel' = [panel EXCEPT !.mirrors[k].gone = TRUE]
    /\ shifts' = shifts + 1
    /\ UNCHANGED <<system, file, touches>>

SystemChanges ==
    /\ shifts < MaxShifts
    /\ \/ \E output \in Outputs \ {system.default} : system' = [system EXCEPT !.default = output]
       \/ \E screens \in SUBSET Screens \ {system.screens} :
             system' = [system EXCEPT !.screens = screens]
       \/ system' = [system EXCEPT !.kills = ~@]
    /\ shifts' = shifts + 1
    /\ UNCHANGED <<panel, file, touches>>

\* The panel is closed, which stops what runs or at least tries, and opened again.
Reopen ==
    /\ panel' = Opened(file)
    /\ UNCHANGED <<system, file, touches, shifts>>

-----------------------------------------------------------------------------

ControlInit ==
    /\ file \in Books
    /\ panel = Opened(file)
    /\ system = [default |-> CHOOSE output \in Outputs : TRUE, screens |-> Screens, kills |-> TRUE]
    /\ touches = 0 /\ shifts = 0

ControlNext ==
    \/ SelectPreset \/ LoadPreset \/ RunPreset \/ UpdatePreset \/ AskDelete \/ CancelDelete
    \/ DeletePreset \/ AddPreset \/ SaveCurrent \/ StartAll \/ StopEverything \/ StopAudio
    \/ StopMirror \/ OpenMirror \/ RefreshDevices \/ PollPanel \/ EditAudio \/ EditRow
    \/ AddMirror \/ RemoveMirror \/ DevicesArrive \/ ChildEnds \/ SystemChanges \/ Reopen

-----------------------------------------------------------------------------
(* Properties.                                                                     *)

\* What the panel shows is what runs: there is one process per row, a child that
\* runs was started with the settings that are shown for it, no exit waits to be
\* reported for a process that was started again, and the selected preset exists.
\* (audio_settings_ui and mirror_settings_ui lock what runs, load_preset and
\* remove_mirror refuse, ManagedProcess::start drops the pending exit.)
PanelShowsWhatRuns ==
    LET Fits(slot, settings) == Living(slot) => slot.with = settings /\ ~slot.exit
    IN  /\ Len(panel.mirrors) = Len(panel.setup.rows)
        /\ Fits(panel.router, panel.setup.audio)
        /\ \A k \in DOMAIN panel.mirrors : Fits(panel.mirrors[k], panel.setup.rows[k])
        /\ panel.picked # Nil => panel.picked \in DOMAIN panel.book.presets

\* The children of a state by their place: 0 is the route.
Child(s, k) == IF k = 0 THEN s.router ELSE s.mirrors[k]
Children(s) ==
    {k \in DOMAIN s.mirrors : Living(s.mirrors[k])} \cup IF Living(s.router) THEN {0} ELSE {}

\* Those that a step begins, some of which the panel still took to run.
Begun ==
    {k \in Children(panel') :
        k \in Children(panel) => Child(panel, k).gone /\ ~Child(panel', k).gone}

AllEnabledRun(s) ==
    /\ s.setup.audio.on => Living(s.router)
    /\ \A k \in DOMAIN s.mirrors : s.setup.rows[k].on => Living(s.mirrors[k])

\* A start is sound, whether it succeeds, fails or is refused: what ran before and has
\* not ended is left alone ("Roll back only the processes started by this click").
\* A route is begun between two different outputs, as the system is now, or as it
\* was last listed if the panel took it to run still, and is saved first.  Where what
\* it began can be stopped, a start leaves all that is enabled running or begins
\* nothing; the start of one row begins no more than a row.
StartIsSound ==
    /\ StartAll \/ RunPreset \/ OpenMirror =>
          /\ \A k \in Children(panel) : ~Child(panel, k).gone => Child(panel', k) = Child(panel, k)
          /\ 0 \in Begun =>
                /\ RouteKnown(panel'.setup.audio, IF Living(panel.router) THEN panel'.sound
                                                  ELSE Sounds)
                /\ panel'.book.last = panel'.setup /\ file' = panel'.book
    /\ (StartAll \/ RunPreset) /\ system.kills => Begun = {} \/ AllEnabledRun(panel')
    /\ OpenMirror => \A k, l \in Begun : k = l /\ k # 0
StartsAreSound == [][StartIsSound]_panel

=============================================================================
