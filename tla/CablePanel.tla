-------------------------------- MODULE CablePanel --------------------------------
(* The audio cable (apps/audio-cable with audio-cable-core): its settings and      *)
(* presets, the endpoints it knows, and the worker that lets the sound of a cable  *)
(* be heard at an output.  `cabling` is the program's CablePanel, and an operation *)
(* on it is the set of the states it may leave.  A volume is a gain and a mute     *)
(* together; the samples, the reconnection inside the backend and the texts are    *)
(* left out.                                                                       *)
EXTENDS Integers, Sequences, SequencesExt, FiniteSets

CONSTANTS
    Unset,          \* no cable, no output, no worker
    Playbacks,      \* the playback endpoints there may be
    Captures,       \* the capture endpoints there may be
    Installed,      \* the cables a provider recognizes: pairs of endpoints, not `manual`
    Volumes,        \* volumes
    FirstVolume,    \* the volume of the default settings
    Papers,         \* the settings files the program may find
    MaxTunings,     \* bound: changes of the settings and of the presets
    MaxTrouble,     \* bound: changes of the endpoints and routes that end by themselves
    MaxKept         \* bound: presets

\* A pair of endpoints is a provider's, or one picked by hand; settings may lack one.
Cables == Installed \cup [playback : Playbacks, capture : Captures, manual : {TRUE}]
CableRoutes == [cable : Cables \cup {Unset}, output : Playbacks \cup {Unset}]
CableSettings ==
    [cable : Cables \cup {Unset}, output : Playbacks \cup {Unset}, volume : Volumes]
CableWorkers == [route : CableRoutes, volume : Volumes, stopped : BOOLEAN, ended : BOOLEAN]
CablePapers == [now : CableSettings, presets : Seq(CableSettings)]

ASSUME CableAssumption ==
    /\ Playbacks # {}
    /\ FirstVolume \in Volumes
    /\ Papers \subseteq CablePapers \cup {Unset}
    /\ Unset \notin CableWorkers

VARIABLES
    cabling,        \* the state of the program
    devices,        \* the endpoints there are, and the default output
    paper,          \* the settings file, or Unset while it cannot be read
    tunings, trouble

cableVars == <<cabling, devices, paper, tunings, trouble>>

-----------------------------------------------------------------------------
(* Settings (audio-cable-core).                                                    *)

RouteOf(s) == [cable |-> s.cable, output |-> s.output]
FirstTuning == [cable |-> Unset, output |-> Unset, volume |-> FirstVolume]

\* Both endpoints of a cable are known.
CableValid(cable, known) == cable.playback \in known.playback /\ cable.capture \in known.capture

RouteValid(s, known) ==
    /\ s.cable # Unset
    /\ CableValid(s.cable, known)
    /\ s.cable.playback # s.output
    /\ s.output \in known.playback

\* A file that cannot be read leaves the default settings.
Loaded == IF paper = Unset THEN [now |-> FirstTuning, presets |-> <<>>] ELSE paper

Unknown == [playback |-> {}, capture |-> {}, default |-> Unset]
NotAwaiting == [asked |-> FALSE, found |-> Unset]
Awaiting == [asked |-> TRUE, found |-> Unset]

\* The program as it is opened: nothing plays, and the endpoints are asked for.
OpenedCable ==
    [now |-> Loaded.now, presets |-> Loaded.presets, known |-> Unknown, cables |-> {},
     pending |-> Awaiting, worker |-> Unset]

-----------------------------------------------------------------------------
(* Operations.                                                                     *)

Recognized(known) == {cable \in Installed : CableValid(cable, known)}

\* A listing that arrives fills in what the user has not chosen: the only cable, and
\* the default output unless it is the cable's own.  A failed one changes nothing.
TakesListing(c) ==
    LET known == c.pending.found
        cables == Recognized(known)
        cable == IF c.now.cable = Unset /\ Cardinality(cables) = 1
                   THEN CHOOSE only \in cables : TRUE ELSE c.now.cable
        loops == cable # Unset /\ cable.playback = known.default
        output == IF c.now.output = Unset /\ known.default # Unset /\ ~loops
                    THEN known.default ELSE c.now.output
    IN  IF known = Unset THEN c
        ELSE IF known = Unknown THEN [c EXCEPT !.pending = NotAwaiting]
        ELSE [c EXCEPT !.pending = NotAwaiting, !.cables = cables, !.known = known,
                       !.now = [@ EXCEPT !.cable = cable, !.output = output]]

\* A worker that has ended is taken away.
TakesEnded(c) ==
    IF c.worker # Unset /\ c.worker.ended THEN [c EXCEPT !.worker = Unset] ELSE c

\* The volume goes to the worker of the route that is selected.
AppliesVolume(c) ==
    IF c.worker # Unset /\ c.worker.route = RouteOf(c.now)
      THEN [c EXCEPT !.worker.volume = c.now.volume] ELSE c

\* Mutant of StartsRoute: the worker of another route is joined before the validation.
StartsAfterStop(c) ==
    IF c.worker # Unset /\ c.worker.route = RouteOf(c.now) /\ ~c.worker.stopped
      THEN AppliesVolume(c)
    ELSE [c EXCEPT !.worker = IF ~RouteValid(c.now, c.known) THEN Unset
                              ELSE [route |-> RouteOf(c.now), volume |-> c.now.volume,
                                    stopped |-> FALSE, ended |-> FALSE]]

\* The route is validated first; a worker of the same route that was not told to stop
\* gets the volume; any other is joined before the new one is started.
StartsRoute(c) ==
    IF ~RouteValid(c.now, c.known) THEN c
    ELSE IF c.worker # Unset /\ c.worker.route = RouteOf(c.now) /\ ~c.worker.stopped
      THEN AppliesVolume(c)
    ELSE [c EXCEPT !.worker = [route |-> RouteOf(c.now), volume |-> c.now.volume,
                               stopped |-> FALSE, ended |-> FALSE]]

\* A preset is validated before anything of it is taken over.
UsesPreset(c, k) ==
    IF RouteValid(c.presets[k], c.known) THEN StartsRoute([c EXCEPT !.now = c.presets[k]]) ELSE c

\* A preset of the same name is replaced, and a new one comes last.
SavesPreset(c, k) ==
    [c EXCEPT !.presets = IF k \in DOMAIN @ THEN [@ EXCEPT ![k] = c.now] ELSE Append(@, c.now)]

-----------------------------------------------------------------------------
(* What the user does, and what happens without.                                   *)

CableStep(after) == cabling' = after /\ UNCHANGED <<devices, paper, tunings, trouble>>

\* The settings and the presets are saved before they are taken over; a save that
\* fails changes nothing.
Saves(after) ==
    /\ tunings < MaxTunings
    /\ cabling' = after
    /\ paper' = [now |-> after.now, presets |-> after.presets]
    /\ tunings' = tunings + 1
    /\ UNCHANGED <<devices, trouble>>

Tunes(now) ==
    /\ tunings < MaxTunings
    /\ cabling' = [cabling EXCEPT !.now = now]
    /\ tunings' = tunings + 1
    /\ UNCHANGED <<devices, paper, trouble>>

PollCable == CableStep(TakesEnded(TakesListing(cabling)))
RefreshEndpoints == ~cabling.pending.asked /\ CableStep([cabling EXCEPT !.pending = Awaiting])
ListenNow == ~cabling.pending.asked /\ CableStep(StartsRoute(cabling))
ActivatePreset == \E k \in DOMAIN cabling.presets : CableStep(UsesPreset(cabling, k))
KeepPreset ==
    /\ RouteValid(cabling.now, cabling.known)
    /\ \E k \in 1..Len(cabling.presets) + 1 : k <= MaxKept /\ Saves(SavesPreset(cabling, k))
RemovePreset ==
    \E k \in DOMAIN cabling.presets : Saves([cabling EXCEPT !.presets = RemoveAt(@, k)])

PickCable == \E cable \in cabling.cables : Tunes([cabling.now EXCEPT !.cable = cable])
PickOutput ==
    \E output \in cabling.known.playback :
       /\ cabling.now.cable # Unset => output # cabling.now.cable.playback
       /\ Tunes([cabling.now EXCEPT !.output = output])
\* A pair of endpoints picked by hand is validated when it is used.
UsePair ==
    \E playback \in Playbacks, capture \in Captures :
       LET cable == [playback |-> playback, capture |-> capture, manual |-> TRUE]
       IN  CableValid(cable, cabling.known) /\ Tunes([cabling.now EXCEPT !.cable = cable])
SlideVolume ==
    /\ tunings < MaxTunings
    /\ \E volume \in Volumes \ {cabling.now.volume} :
          cabling' = AppliesVolume([cabling EXCEPT !.now.volume = volume])
    /\ tunings' = tunings + 1
    /\ UNCHANGED <<devices, paper, trouble>>

\* Listening is told to stop; the worker is taken away when it has ended.
StopListening ==
    cabling.worker # Unset /\ CableStep([cabling EXCEPT !.worker.stopped = TRUE])

\* A listing is ready, or has failed.
EndpointsArrive ==
    /\ cabling.pending = Awaiting
    /\ \E found \in {devices, Unknown} : CableStep([cabling EXCEPT !.pending.found = found])

\* A worker ends because it was told to, or by itself when its endpoints are lost.
RouteEnds ==
    /\ cabling.worker # Unset /\ ~cabling.worker.ended
    /\ cabling' = [cabling EXCEPT !.worker.ended = TRUE]
    /\ IF cabling.worker.stopped THEN UNCHANGED trouble
       ELSE trouble < MaxTrouble /\ trouble' = trouble + 1
    /\ UNCHANGED <<devices, paper, tunings>>

DevicesChange ==
    /\ trouble < MaxTrouble
    /\ \E lost \in devices.playback \cup devices.capture, output \in devices.playback :
          /\ output # lost
          /\ devices' = [playback |-> devices.playback \ {lost},
                         capture |-> devices.capture \ {lost}, default |-> output]
    /\ trouble' = trouble + 1
    /\ UNCHANGED <<cabling, paper, tunings>>

\* The program is closed, which stops and joins the worker, and opened again.
ReopenCable == CableStep(OpenedCable)

-----------------------------------------------------------------------------

CableInit ==
    /\ paper \in Papers
    /\ cabling = OpenedCable
    /\ devices = [playback |-> Playbacks, capture |-> Captures,
                  default |-> CHOOSE output \in Playbacks : TRUE]
    /\ tunings = 0 /\ trouble = 0

CableNext ==
    \/ PollCable \/ RefreshEndpoints \/ ListenNow \/ ActivatePreset \/ KeepPreset
    \/ RemovePreset \/ PickCable \/ PickOutput \/ UsePair \/ SlideVolume \/ StopListening
    \/ EndpointsArrive \/ RouteEnds \/ DevicesChange \/ ReopenCable

-----------------------------------------------------------------------------
(* Properties.                                                                     *)

\* The worker plays on: it was not told to stop and has not ended.
Plays(worker) == worker # Unset /\ ~worker.stopped /\ ~worker.ended

\* A route that plays is given up only for another one that can be heard ("Clicking an
\* unavailable preset shows an error and preserves the current route"): what plays
\* after a click is the route that is selected, at the volume that is selected, over
\* endpoints that are known, and never back into its own cable.
RouteGivenUp ==
    LET before == cabling.worker
        after == cabling'.worker
        selected == cabling'.now
    IN  /\ Plays(before) => after # Unset \/ cabling' = OpenedCable
        /\ after # Unset /\ after.route # (IF before = Unset THEN Unset ELSE before.route) =>
              /\ RouteValid(selected, cabling'.known)
              /\ after.route = RouteOf(selected) /\ after.volume = selected.volume
        /\ Plays(before) /\ Plays(after) /\ after.volume # before.volume =>
              after.route = RouteOf(selected) /\ after.volume = selected.volume
RouteKeptOrReplaced == [][RouteGivenUp]_cabling

=============================================================================
