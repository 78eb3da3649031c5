# A TLA+ model of the desktop environment

This directory models the parts of the desktop environment in which several
actors meet: the window manager's transition worker, the applications whose
windows it moves, their users, the interface and the session that send it
commands, and the processes that recover windows when it dies; the layout and
the authored trees it works from; and the panels and the host that start and
stop the sound and display tools. Every definition is translated
from the source; `PROJECT.json` names the lines of each (`map`), the runs, the
mutants that show that a property can fail, the hazards and the findings.

## The system

The repository is a set of Windows desktop tools in Rust, with a web interface
for some of them.

| component | source | state it keeps | operations | talks to |
|---|---|---|---|---|
| transition planner | `libs/window-manager-core/src/{planner,domains,undo}.rs` | none; reads `Configuration`, `Runtime`, `Snapshot` | `plan`, `plan_independent`, `revalidate`, `settled_scope`, `commit`, `reverse` | called by the worker |
| transition worker | `apps/window-manager/src/service.rs` | `State`: runtime, bindings, snapshot, journal, undo history, gestures, pending commands | 16 commands, `apply`, `continuous` | clients by channels; native windows by asynchronous requests; the journal file |
| recovery | `platforms/windows-window-manager/src/{lib,native}.rs`, `apps/window-manager/src/cli.rs` | the journal file | `Journal::load/save`, `recover_selected`, the watchdog, `--recover` | worker, watchdog and command line share the file |
| native adapter | `platforms/windows-window-manager/src/{native,monitors}.rs` | monitor mappings, their epoch | bind, observe, submit, inventory, events | Win32 |
| interface | `apps/window-manager/src/ui.rs` | configuration, preview, `applying`, `pending_requests` | previews, applies, edits | the worker's channels; starts the watchdog |
| automation session | `apps/window-manager/src/{session,replay}.rs` | configuration, previews, event log, replay cache | 27 requests over JSON lines | the worker's channels, with a barrier per request |
| configuration | `libs/window-manager-core/src/{model,store,commands,editing,structure,actions}.rs` | the authored document, its revision and backup | load, save, structural edits, packages | files |
| layout | `libs/window-manager-core/src/{expansion,filtering,formula,membership,navigation,parameters,protection,capture}.rs` | none | pure functions of the planner | - |
| automatic reflow | `libs/window-manager-core/src/reflow.rs`, `apps/window-manager/src/reflow.rs` | debouncing, variant history | `continuous_request`, `observe` | the worker |
| status providers | `libs/window-manager-core/src/providers.rs` | providers, their sequence numbers, evidence | register, accept, disconnect | session and worker |
| workspace service and host | `libs/desktop-workspace-service`, `apps/desktop-workspace-host` | child processes, a window session, settings | supervise, request and answer | child processes by pipes |
| workspace interface | `apps/desktop-workspace` | view state | HTTP and Electron | the service |
| control panel | `apps/desktop-control` | child processes, presets | start, poll, stop | child processes |
| audio router and cable | `platforms/windows-audio-router`, `libs/audio-cable-core`, `apps/audio-*` | routes and their status | start, recover, stop | audio threads |
| display relay | `apps/display-relay`, `libs/display-relay-core`, `platforms/windows-desktop-duplication` | relay session | capture, draw, input | graphics |
| presets, placement, input, shortcuts | `libs/desktop-presets`, `platforms/windows-{window-placement,input,shortcuts}` | stored values | one-shot calls | Win32 |

What is hard in it:

- **Asynchrony.** The worker never waits for a foreign window's thread: it
  posts a request (`SWP_ASYNCWINDOWPOS`) and looks for the effect for 900 ms.
  Requests may be carried out later, or never, and users and applications
  change the same windows meanwhile.
- **Authority.** A plan is previewed, held by a client, applied, and committed
  when it has settled. Between any two of these steps bindings, ownership,
  displays and other transitions change. Generations, expected observations
  and claims decide whether it still counts.
- **Partial success.** A request with several slots is cut into connected
  domains; each is committed, suspended or superseded.
- **Re-entrance.** While a transition settles the worker takes commands and
  native events, and sets some of them aside.
- **Crash.** Hidden windows are unreachable for the user. A write-ahead journal
  and a watchdog must bring them back whenever the manager dies.

What makes each component correct: the *journal* names every window that the
manager has hidden, at every instant; the *planner and worker* give each window
at most one owner that shows it, in place; commit connected slots together;
commit only against the state the plan was made from; obey pause, recovery,
shutdown, newer intents and users' hands; the *undo history* reverses exactly
what it recorded; a *session* pairs each answer with its request; a *store*
never loses the last good document; *supervisors* own each child until it ended.

## Modules

| module | models | extends |
|---|---|---|
| `RecoveryJournal` | journal, worker's hides and recovery, watchdog, `--recover`, crashes | - |
| `RecoveryJournalProofs` | theorems about it | `RecoveryJournal`, `TLAPS` |
| `TransitionPlanner` | runtime, requests, domains, plans, authority, commit, undo records | - |
| `TransitionWorker` | the worker's loop, one transition at a time, clients, windows, users | `TransitionPlanner` |
| `QueueLemmas` | what sequence operators do to queues of anything | `SequenceTheorems`, `TLAPS` |
| `TransitionPlannerProofs` | lemmas about plans, undo records and reversals | `TransitionWorker`, `TLAPS` |
| `TransitionWorkerProofs` | theorems about the worker | `TransitionPlannerProofs`, `QueueLemmas` |
| `SlotOwnership` | what planner and worker promise about slots; `TransitionWorker` implements it | - |
| `ViewLayout` | where windows are put: one tree laid out in one slot, again and again | - |
| `LayoutTree` | the authored trees, and every structural edit of them | - |
| `ManagerUi` | the interface's draft, previews and intents against the worker's events | - |
| `ReflowScheduler` | when a continuous rule is applied | - |
| `MonitorMappings` | which monitor is which, and the epochs of inventories | - |
| `ProviderRegistry` | status providers and what they may show | - |
| `RegistryProofs` | theorems about both | `MonitorMappings`, `ProviderRegistry`, `QueueLemmas` |
| `AutomationSession` | `window-manager --session` and the worker's stream of events | - |
| `SessionClients` | the workspace's controller and an automation client talking to it | `AutomationSession` |
| `SessionProofs` | theorems about both | `SessionClients`, `QueueLemmas` |
| `WorkspaceJobs` | the workspace host's controller: output commands, presets, integrated presets, child processes | - |
| `WorkspaceProofs` | theorems about it | `WorkspaceJobs`, `QueueLemmas` |
| `ControlPanel` | the desktop control panel: settings, presets, devices, child processes | - |
| `CablePanel` | the audio cable's panel: settings, presets, endpoints, its route | - |
| `InterfaceProofs` | theorems about what the user works with | `ManagerUi`, `ReflowScheduler`, `ControlPanel`, `CablePanel`, `QueueLemmas` |
| `MCRecoveryJournal`, `MCTransitionWorker` | instances for TLC | the above |
| `MCAutomaticReflow` | the worker under automatic reflow, and its scheduler; a behaviour has one of them (`part`) | `MCTransitionWorker`, `ReflowScheduler` |
| `MCSessions` | the workspace's controller with the session, and with its children; likewise | `SessionClients`, `WorkspaceJobs` |
| `MCDesktop` | the other components, each on its own; likewise | `ManagerUi`, `ViewLayout`, `LayoutTree`, `MonitorMappings`, `ProviderRegistry`, `ControlPanel`, `CablePanel` |

### RecoveryJournal

`alive`, `visible`, `minimized` and `requests` are the native windows: a handle
is one validated lifetime (`validate_binding` compares HWND, process start,
session and a window property, so a lifetime that ended never comes back), and
`requests` the shows and hides posted to its thread. `disk` is the journal
file, `memory` is `State.journal`, `binding` is `State.bindings`, `phase` where
the worker's thread is. `Record` is the first half of `apply` (journal, save),
`Submit` one mutation of `submit_many`, `Settled`/`Unsettled`/`Abandoned` its
three endings. `recover_selected` runs in two processes: `Load`, then for each
entry `Reveal` and `Await`, or `Skip`, then `Finish`, which writes the file.
Each of these is its own step, so that applications, crashes and the other
process come between them.

`Prompt` is the set of lifetimes whose threads have carried out what was posted
before a manager looks at them again; the promises hold for these. For the
others they do not (see findings). `Rebind`, `Overlap` and `Transient` switch
on behaviours the code allows and its promises do not survive, so that each is
seen alone.

### TransitionPlanner and TransitionWorker

A frame is abstracted to the slot it lies in, or `Free`: the layout engine gives
each shown window of a slot one place there. A view has one root and is shown as
a whole; `Leaves` are all its windows and `Shown` those in its selected tabs,
so a window that loses its tab is hidden. A plan is a record with the fields of
`Plan` that decide anything: scope, domains, generations, topology revision,
presentations, desired slots, expected observations, mutations and the slot each
belongs to. `Revalidates` is `Plan::revalidate`, `SettledScope` is
`settled_scope`, `ClaimsAfter`/`PresentationsAfter`/`Bumped` are `commit` and
what `apply` does to failed slots, `Capture`/`Reversal`/`Rebased` are
`UndoRecord`.

`channel` is the command channel and `pending` is `State.pending`; `Receive`
takes the next command as the loop does. `Submit` is `apply` up to the
submission, the `Drain...` actions are the two inner loops, `Conclude` is what
follows them and `Abandon` a `refresh` that fails among them. The worker looks
at windows afresh before it decides (`refresh`), so `snapshot` is a definition
on the screen and not a variable. `Fail` stands for every error return that
changes nothing. `SendSupersede` also notes in the plans of earlier
applications which slots it was meant to overtake; this and a plan's `base` are
history that no action reads.

`repertoire` is the script of a behaviour, one of `Scripts`: which requests in which
modes and which other commands clients send, how many, and whether windows and
displays change by themselves. It is chosen in `Init` and never changes; the worker
does not read it.

`SlotOwnership` states the promise without plans, queues and windows: slots are
released, outdated, or settled together, each time with their generation, and a
window goes only to a slot that took part and shows something afterwards.
`TransitionWorker!Ownership` maps `claims`, `presentations` and `generations` to
it; every step of the worker is one of these or changes none of the three.

### ViewLayout

One root is laid out in one slot with `open`, `restore` or `reflow` (`Arrange`
and its like), by the planner's two passes: origins of each window, the attempts
with their fallbacks, the arbitration between Placements, responsive variants,
all seven strategies, preserved arrangements, exceptions and free space. An
attempt is a record `e` that is thrown away when it fails, except for what the
code keeps of it. Between layouts a user moves, minimizes, protects and focuses
windows, and the room changes. `memory` is the part of `Runtime` the next layout
reads. Lengths are small whole numbers.

### LayoutTree

A configuration's Groups and Placements by their numbers, with the children's
weights (a twelfth of the code's unit), weights of a responsive variant, and the
records of members that a Collection selects: which Placement was generated for
which window, which are retired, with which weights. Each edit stages a changed
copy, which is reconciled (`Tidy`) and validated (`Valid`) as
`Configuration::edit_structure` does; one that is refused is noted in `refused`.
A behaviour starts from one of six documents with two groups of operations.

### ManagerUi

A configuration is its revision and a set of edits. `typed` says what the user
has typed that is not saved. An intent is a request with its scope; `auto` is
`apply_when_previewed`, `waiting` is `pending_requests`: a set, since its intents are
numbered in the order they were asked and the oldest is taken up first. The worker is a queue
of orders and one of reports (`Carry`), and may report at any moment (`Speak`).

### ReflowScheduler, MonitorMappings, ProviderRegistry

`ReflowScheduler` counts time in quarters of a second, as far as it decides
anything: an input is pending, and old or not. The loop comes to the rules
only when `recv_timeout` found no command for 50 ms, and not while `dirty` is set, an
undo is previewed or settled in part (`undoing`), or the session is not to recover on
exit (`Idles`, `service.rs:946-950`). `Reported` sets `dirty`, `LooksAgain` clears it;
what else may be in the way is `barred`, a set of `Hindrances` that come and go
(`Occupied`). `MonitorMappings` has the
worker's mapping, the interface that confirms a monitor from the inventory it was
told last, and both channels between. In `ProviderRegistry` the messages of an
adapter are a set, from which any may be taken at any time and again. An adapter may be
registered again with a new session or with one it had before; `register` compares
nothing, so messages of the earlier registration are then taken for new ones. What
`EvidenceSound` says of earlier messages is about adapters with a new session each time.

### AutomationSession and SessionClients

`task` is the request that is carried out, with what its exchange has yet to do
and what it heard. A command is followed by a barrier; the session waits for its
echo or gives up (`GiveUp`), and what the worker says later, or unasked, is in the
stream of the next exchange. The workspace's controller writes lines and reads
them from another process; it stops waiting when six seconds pass
(`StopWaiting`) and takes up late answers by their identifiers. An automation
client may repeat a request, with or without the same identifier, and reads the
log of events from a cursor. `ghost` records what was carried out.

The replay cache is limited by the number of answers (`MaxReplay`, 256) and by their bytes
(`MaxBytes`, 8 MiB), which `Bulk` gives in units for the kinds of requests whose
successful answers are large; a failure, a receipt and every other answer is one unit, which
includes the request's own bytes (`fingerprint`). An answer that is larger than the whole
cache is kept as a receipt. Entries have the sum of all that was put in before them
(`from`), so that what is kept is a difference. A request that would by itself exceed the
budget is left out.

### WorkspaceJobs

`draft` and `cable` are the controller's settings, `audio`, `monitor` and
`mirrors` the children it owns: `Nothing` when `OwnedProcess.child` is, else the
settings the process was given and whether it is still `real`. A repeater's
source and target are one route, the monitor's cable and output another, and
`gain` stands for its volume and mute. `script` is the call stack of `execute`:
the command, and the steps and nested commands it has yet to carry out, each of
which polls first (`Execute`). Children end (`End`) between any two steps, and
any step may fail (`Refused`, `StopFails`, `Broken`), which ends the command and
leaves what was done. `Restart` is the end of the host at any point: the job
objects take its children with it. `ChangeAudio`, `ChangeCable` and
`ChangeDisplays` are the three parts of `apply_bundle`; the first and last are
also what running a single preset does. The window part of an integrated preset
is left out: it polls children, which the model allows anyway, and changes no
output.

### ControlPanel and CablePanel

`panel` and `cabling` are the programs' structs, and an operation is the set of
the states it may leave: a poll may or may not notice that a child has ended, a
start may fail at any row, a stop may fail (`system.kills`). A `ManagedProcess` is
what its child was started with, whether the child has ended unnoticed, and
whether an exit waits for the last of the logs. Devices are listed by a thread
of their own, whose answer is taken up by a later poll; each list may fail. The
worker of the cable is its route, its volume, whether it was told to stop and
whether it has ended. Each module names the sets its settings and files are from
(`PanelSettings`, `PanelBooks`, `CablePapers`). What a panel saves survives `Reopen` and `ReopenCable`; a
file that cannot be read is `Nil` or `Unset`.

## Runs

All runs use `CHECK_DEADLOCK FALSE`: the manager may be stopped for good, clients
stop after the commands that are bounded (`sends`, `MaxSent`), and users after the acts that are bounded.

| run | shows |
|---|---|
| `RecoveryJournal_crashes` | crashes and failing writes anywhere: a window the manager hid is on the journal (`HiddenIsJournaled`, `MemoryKeepsHidden`), the proof's invariant `JournalInv`, and the watchdog reveals what a dead manager hid (`RevealedAfterExit`) |
| `TransitionWorker_ownership` | five scripts, of which a behaviour follows one. *Ownership*: tabs, two slots that exchange their windows, release, a window that closes, an application that hides its own window, a display change (`OwnershipCoherent`, `ClaimsInPlace`, `DomainAtomic`). *Undo*: two transitions that show one window of a slot after the other, and their undo; one transition, of one slot or of two that exchange windows, with undo and recovery in any order (`UndoComplete`, and `ClaimsInPlace` of the claims a reversal restores: the window is where and as it was before what is reversed). *Drag*: a user drags the window of a view with a continuous rule, before, during and after a transition. *Commands*: rebinding, protection, supersession, pause, recovery and shutdown at every point (`FreshAuthority`, `UrgentWins`). In all of them the worker implements `SlotOwnership` (`OwnershipPromise`) |
| `AutomaticReflow` | part *worker*: `HeldNotCommitted` with dragging and automatic reflow, and `ShutdownStops` (as `WorkerStops`); part *rules*: a rule is applied to an input that was steady (`OnlyWhenSteady`), and a change that stays is dealt with once nobody works with the windows and no undo waits, however often Windows reports changes (`RulesDealtWith`) |
| `Desktop_components` | eight parts, each with its own properties, see below |
| `Sessions_clients` | a control command is not repeated before `MaxReplay` others, or answers of more than `MaxBytes`, were remembered (`AtMostOnceInWindow`), the worker is given a plan once (`AppliedOnce`), no preview of an older configuration is left (`PlansCurrent`), followers of the log know the configuration (`FollowersKnow`), the workspace takes no answer for another's (`NotMixedUp`); part *jobs*: a child runs with what is shown for it (`RunsAsShown`); an integrated preset leaves the rest alone (`UnselectedUntouched`) and starts no feedback loop (`NoLoopStarted`) |
| `RecoveryJournal_late` | violation: a hide carried out after recovery looked (`RemainsEligible`) |
| `TransitionWorker_overtaken` | violation: a supersession that is dropped (`SupersededNeverCommits`) |
| `TransitionWorker_undone` | violation: a settled undo removes another record (`UndoRemovesItsRecord`) |
| `ViewLayout_panic` | violation: a Placement that was set aside by an attempt that failed makes the planner panic (`NoPanic`) |
| `ViewLayout_kept` | violation: a window kept here moves with its preserved Group (`KeptInPlace`) |
| `LayoutTree_unsaved` | violation: a Placement dropped in the tree editor leaves a draft that cannot be saved (`DraftSaves`) |
| `ManagerUi_newest` | violation: an unrelated error lets a newer intent overtake one that waits and comes after it (`NewestIntentWins`) |

The parts of `Desktop_components`, whose other variables stand still:

| part | properties |
|---|---|
| monitors | an alias is for a monitor as the user saw it, and a topology revision stands for one set of displays (`MappingsSound`) |
| providers | what asks for attention is granted now; with a new session per registration, what is known is of the registration that holds, and nothing said before replaces it (`EvidenceSound`) |
| draft | the draft is the saved configuration with what was typed since (`DraftIsTyped`) |
| intents | what is on show is the newest intent's plan and nothing is applied unasked (`PreviewSound`); applying ends (`NoEndlessApplying`) |
| layout | the largest free rectangle is found (`LargestFound`); no new overlap (`NoNewOverlap`); the best Placement is shown (`BestShown`); restoring again changes nothing (`RestoreStable`); reflow leaves manual Groups alone (`ManualStays`) |
| tree | validation accepts what edits leave (`TreesAccepted`); weights travel with their child (`SharesTravel`) |
| panel | what is shown is what runs (`PanelShowsWhatRuns`); a start works with the devices as they are, or is rolled back, and leaves alone what ran, whether it succeeds or fails (`StartsAreSound`) |
| cable | a route that plays is given up only for one that can be heard (`RouteKeptOrReplaced`) |

Each run that ends in a violation is a finding of `PROJECT.json`. Some more
things the code does, met while modelling, have no run of their own:

- Recovery drops the entry of a hidden window that cannot be observed at that
  moment (`native.rs:643`): `Transient = TRUE` in `RecoveryJournal_late.cfg`
  shows it even with all windows prompt.
- After `Command::Bind` connected a reference to another, visible window, the
  next settled transition prunes the entry of the window it named before, which
  may still be hidden (`service.rs:771`): `Rebind = TRUE`.
- `--recover` takes no lock (`cli.rs:136`) and may overwrite the journal of a
  running manager with what it read before: `Overlap = TRUE`.
- Commands set aside during a transition change their order: of resume followed
  by pause, the pause goes to the front (`service.rs:588`). And a gesture whose
  window's reference is rebound meanwhile never ends for the worker
  (`service.rs:895`).
- An integrated preset starts its repeater before it replaces the monitor, so the
  new repeater and the old monitor may feed each other for that moment
  (`bundle.rs:270`); the commands that start one of the two by itself do not look
  at the other at all. `NoLoopStarted` is about what a preset leaves running.
  `Loops` is a constant: a change of the default output between the check and the start
  is not covered.
- An undo that is previewed and not applied, or settles in part, leaves `undoing`
  set, and automatic reflow stays off (`service.rs:950`); so do commands that leave no
  pause of 50 ms. `RulesDealtWith` has both as premises.
- An adapter that is registered again under a session it had before is taken for the
  earlier one: a message of then with a higher number replaces what it says now
  (`providers.rs:77`).
- Disconnected providers count towards the limit of 32 (`providers.rs:51`).
- A copied Group binds a member's record to the first occurrence of its window
  (`store.rs:227`).
- The control panel lists the outputs afresh before it starts a route. If a route
  that ran ends between the two polls of a start (`panel.rs:309` and 322), it is
  started again with the older list, though the comment at `panel.rs:313` promises current
  endpoints; `StartsAreSound` allows this one case. A delete confirmation stays when a preset is
  added, and is then about the new one (`panel.rs:215`). With an unreadable settings file it says that running
  is blocked, but a single mirror can be opened (`panel.rs:410`).
- The audio cable overwrites a settings file it could not read when a preset is
  saved (`audio-cable panel.rs:224`). A volume changed while another route is
  selected is shown, but not applied, when the route that plays is selected again
  (`panel.rs:182`).

**Bounds.** Two windows and two slots are enough for every relation the
code decides on: owned here, owned elsewhere, unowned; shown, in a hidden tab,
leaving; connected, disjoint. Exchanging two windows needs two slots. The `sends` of a
script is the number of commands: preview, apply, and
two or three that come between; an undo that restores a claim needs six (two transitions of two,
an undo preview and its application), one beside a recovery five. A script
also says which views have a continuous rule and which windows are dragged. `MaxRequests = 2`
leaves a stale request behind a newer one; `MaxRuns = 2` lets a second manager
read the journal of the first. `MaxGeneration`, `MaxPosted` and
`MaxEvents` bound automatic reflow and the dragging that causes it. `UndoLimit` and `CompletedLimit` are the code's 50 and 256, small
so that they are reached. Part jobs has two routes of each kind
with one pair that feeds back, two mirror rows (the second may come and go) and
integrated presets with one, two and three parts, applied over each other.
Part layout has five trees, which between them have all strategies, variants,
fallbacks, tabs, sizes, kept arrangements and contested windows; three windows,
one of them rigid and one that may be protected; two rooms; and two layouts with
at most one act of the user before each, since what a layout remembers is read by the next. Part
tree has two or three edits in a row of two groups of operations, from documents in
which members are present, retired and weighted; a third node position adds
nothing to weights that are looked up by position. Part intents has two intents
over disjoint or equal scopes and one unasked event. Sessions: four requests of an
automation client with two identifiers, which either follows the log or plans and
applies, seven lines of the workspace with its
scripts, one thing that comes late or unasked, a replay cache of two answers and three units,
in which one large answer leaves no room for another and the largest is kept as a receipt, and a
log of two, so that all three limits are met; three identifiers, so that one is sent again after
two others. Part monitors has three inventories (`MaxTopology`) of two monitors of one kind, so
that a confirmation of the second arrives under the third. Part providers registers an adapter
twice, with sessions new or the same. The panels have two outputs, of which either may be the
default and a route may have the default as its source or its target, a display and two rows, one
change of the settings and one of the system: with the steps of the program free,
one change at any point is what a check made before can miss.

**Fairness.** `RecoveryJournal`: the watchdog's loop comes round, a recovery that
began is carried to its end, prompt applications serve their queues. Nothing is
assumed of the worker. `TransitionWorker`: the loop takes commands
(`CommandStep`), drains them (`DrainCommand`), and stops waiting at the 900 ms
deadline (`Conclude`). No application is assumed to answer. Part rules: quarters of a
second pass, the worker refreshes each second, and 150 ms after the last of these it looks
at what was reported (weak fairness). A pass over the slots is not always possible: reports
disable it. It has strong fairness, since the loop goes from the refresh that clears `dirty`
straight on to wait for a command, with the 250 ms since the last pass over; if none
comes for 50 ms the pass is made. That commands leave such a pause, that no undo
waits and that the session recovers on exit is not assumed of the program: it is a premise
of the property. The run has `"undo"` come and go; `"commands"` and `"unmanaged"` are in the
same guard. Part intents: the worker goes on with its commands and the interface
polls in each frame (`update` asks for the next one). Nothing is assumed of users,
providers, devices or child processes; the sessions' properties need no fairness.

## What is proved

`RecoveryJournalProofs` proves for all windows, lifetimes and bounds:

- `JournalTypes`: `Spec => []TypeOK`.
- `JournalSafe`: `Spec => []JournalInv`, and from it `HiddenIsSafe`
  (`[]HiddenIsJournaled`) and `MemoryIsSafe` (`[]MemoryKeepsHidden`), under
  `Undisturbed`: no rebinding over a journaled live window, no helper beside a
  running manager, no observation that fails for a live window. With
  any one of them dropped TLC finds the invariant violated.

`HiddenIsJournaled` is not inductive: a hide may still be on its way, an entry may
be held by a recovery that has not written yet, and the next save comes from
memory. `JournalInv` adds three facts. `OneRecovers`: one process recovers at a
time, and what it holds is on disk until it writes. `Covered`: a prompt window
that is hidden, whose hide is queued or about to be submitted, is named by the
file, by a running manager's memory, and by every recovery in progress.
`Attached`: a journaled live window is the one its reference is bound to, so
pruning by reference forgets only what was seen visible. The proof has a lemma
per group of actions and per conjunct.

`TransitionWorkerProofs` proves for all windows, slots, views, layouts and scripts
that satisfy `PlannerAssumption` and `WorkerAssumption` (`None` and `Free` are no
member of anything else, shown windows are leaves, limits are positive):

- `WorkerSafe`: `Spec => []WorkerInv`, the inductive invariant; from it
  `WorkerTypes`, `OwnershipIsCoherent` and `UndoIsComplete`.
- The action properties `AuthorityIsFresh`, `DomainsAreAtomic`, `ClaimsAreInPlace`,
  `HeldIsNotCommitted` and `UrgentCommandsWin`.
- `PromiseKept`: the worker implements `SlotOwnership`. The end of a transition is a
  `Settle` of its scope that keeps the slots committed to a view; `Recover` is a
  `Release` of what was presented and `Bind` of the slot that owned the window;
  `Supersede` and `Protect` are `Outdate`; every other step leaves slots alone.

`OwnershipCoherent` is not inductive: what a transition commits comes from a plan
made long before. `WorkerInv` adds what every plan is that may still be carried out,
whether a client holds it, a queue carries it, or it is under way (`PlansHold`):
it is sound (`PlanSound`: its domains are disjoint, what it wants is shown by its own
presentations in the lifetimes it observed, and once settled its windows are visible
where they are wanted) and timely (`PlanTimely`: while a slot's generation is the
plan's, the slot shows what the plan was made from). `RecordsHold` says the same of
undo records, whose reversals become plans. `UrgentFirst` (urgent commands are set
aside before the others, and have superseded the whole transition) and `HandsOff`
(the slot of a held window is superseded) are what the last two action properties
need. `TransitionPlannerProofs` shows that planning, capture, rebasing and
reversal return sound plans and records; `VerifiedGood` that what settles is a union
of whole domains of fresh authority and windows in place (`CommitSound`); each
group of actions has its lemma.

`SessionProofs` proves for all clients, limits and orders of what the worker says
(`SessionAssumption` and `ClientAssumption`: `None` is no number, limits are positive,
clients send commands that exist):

- `AnswersAreNotMixedUp`: `Spec => []NotMixedUp`. The identifiers in the pipes, in the
  replay cache and under way are no newer than the last line written, and the one waited
  for comes only with the command that is wanted (`LinesPaired`).
- `CommandsAreCarriedOutOnce`: `Spec => []AtMostOnceInWindow`. The cache holds the last
  commands that were carried out, in their order, with the sums they were put in at
  (`CacheIsLatest`), and room is only made where the next answer has none: what is not in it
  was carried out `MaxReplay` commands or `MaxBytes` ago.
- `PlansAreAppliedOnce`: `Spec => []AppliedOnce`. The number of a plan is in one place at
  a time (`PlansOnce`): asked of the worker, among what it said, among what an exchange
  heard, held as a preview, taken by `apply`, on its way to the worker, or carried out.
- `PreviewsAreCurrent`: `Spec => []PlansCurrent`. The barrier waited for is the last
  thing the worker says of what it was asked (`BarrierIsLast`), so what is left behind
  comes from an exchange that was given up; while there is one of these at most, only
  the exchange that ends an edit meets a preview of an earlier revision, and nothing
  looks at what that one heard (`StaleAreTaken`).

They rest on the types (`TypesAlways`) and on the shape of what a request has yet to do
(`ShapedAlways`: an edit ends with a refresh, a plan is followed by its preview, `apply`
comes after `take`).

`RegistryProofs` proves for all monitors, identifiers, adapters and messages:

- `MappingsAreSound`: `MonitorsSpec => []MappingsSound`. What was told of an inventory
  belongs to an earlier epoch or is the present one (`Remembers`, of the news on its way,
  the inventory the interface has and the confirmation it sent), so that a confirmation
  of the present epoch is about the present inventory (`AliasesAsserted`). A revision
  advances whenever displays do (`RevisionsOnce`).
- `EvidenceIsSound`: `ProvidersSpec => EvidenceSound`. What is known of a window was
  said under the grant its provider has now, with a sequence number no greater than
  the registered one (`EvidenceGranted`); a message of a session the adapter has for the
  first time was said under the registration that holds (`WireSaid`).

`WorkspaceProofs` proves for all routes, displays, presets and limits of rows
(`WorkspaceAssumption`: presets are settings, `Nothing` is none):

- `ChildrenRunAsShown`: `JobsSpec => []RunsAsShown`. With the types of settings and
  children (`DataTypes`) and of what each step yet to be done brings with it
  (`ScriptTypes`) it is inductive; there is a lemma for each step.
- `PresetsKeepApart`: `JobsSpec => UnselectedUntouched`. The script of an integrated
  preset has only steps of its own parts (`Brought`).
- `NoFeedback`: `JobsSpec => NoLoopStarted`. The check is made once, before anything is
  carried out; it would still succeed at every later step, with what has ended and was
  started meanwhile, and what the preset brings is set by the time no step for it is
  left (`FedInv`).

`InterfaceProofs` proves for all slots, edits, intents, endpoints, settings, rows and
files:

- `RulesWaitUntilSteady`: `ReflowSpec => OnlyWhenSteady`. What is pending for a slot has
  been shown since the slot was dealt with, and what counts as old was shown before the
  last quarter of a second (`PendingShown`); a snapshot or a pass that forgets a slot
  forgets both together.
- `TypingIsKept`: `ManagerSpec => []DraftIsTyped`, and `PreviewsAreSound`:
  `ManagerSpec => []PreviewSound`. `ManagerSound` adds what is under way: orders, reports
  and waiting intents name intents that were asked, an intent whose plan is to be applied on
  arrival is one that was asked so, and a review adds one edit to a draft that was, so that
  what it takes over is what has been typed.
- `RoutesAreKeptOrReplaced`: `CableSpec => RouteKeptOrReplaced`. With the types
  (`CableTypes`) each operation leaves the worker, takes up one that has ended, marks it,
  sends it a volume or replaces it (`WorkerStepSound`), and only a valid route is begun (`RouteBegun`).
- `PanelShowsTheChildren`: `ControlSpec => []PanelShowsWhatRuns`, and `StartsOnlySoundly`:
  `ControlSpec => StartsAreSound`. `ControlSound` adds to what is shown that the route
  only runs where it is enabled, and that a readable file is what the panel has saved.
  The second theorem follows a start through its parts: the poll, the listing, a child
  that ends in between, the second poll and the save (`Readied`), and what is launched and
  taken back (`LaunchIsSound`), with two relations between the state before and after:
  nothing that has not ended is touched (`Spares`), and what is begun is begun as it should be
  (`StartSound`). It covers starts that fail or are refused.

They assume of the constants (`ReflowAssumption`, `ManagerUiAssumption`, `CableAssumption`,
`PanelAssumption`) only that choices and files are of the types the code reads them at,
that `NoInput`, `NoIntent`, `Nil` and `Unset` are none of them, that slots are numbered,
and that there is an output, or a playback endpoint, to begin with.

What TLC alone checks:

- Liveness under fairness (`RevealedAfterExit`, `WorkerStops`, `RulesDealtWith`,
  `NoEndlessApplying`), which is out of the prover's reach.
- `FollowersKnow`: what a client learns from a list of events, and what the log keeps of
  a batch of reports, are folds over them, and need an induction over data.
- `LargestFound`, `BestShown`, `RestoreStable`, `NoNewOverlap`, `ManualStays`: `ViewLayout`
  lays trees out with recursive operators.
- `TreesAccepted`, `SharesTravel`: reconciling and validating a document (`LayoutTree`)
  goes down its trees, and needs an induction over them.

## What is not modelled

- *Planner and worker* (`TransitionPlanner`): frames within a slot, which
  `ViewLayout` has for one slot; expansion, retention, several roots per view,
  configuration revisions; a window's minimized state (it is in the journal's
  model); promote, attention and refresh commands. The application
  being carried out cannot observe time, so a deadline is a choice that may be
  taken at any moment.
- *Layout* (`ViewLayout`): dpi and decorations, formulas and parameters, sorted
  Groups, minimum sizes, preferred positions, tabs within tabs by path, the
  oscillation of variants. They change lengths or choose a variant; the control
  around them is there.
- *Configuration*: how files and backups are written and replaced (`store.rs:387`),
  names and budgets, commands resolved by name, sizes and preferences of nodes.
- *Tools*: sound and graphics themselves. `windows-audio-router`,
  `windows-desktop-duplication` and `display-relay` are native loops whose
  interaction with the rest is being started, ending and being stopped, and that
  is in `ControlPanel`, `CablePanel` and `WorkspaceJobs`.
- *Electron and React*: the interface over the workspace service; what it may ask
  for is in the service's models.
- Input, shortcuts, window placement, scripts: one-shot native calls.

`PROJECT.json` lists each component with what its models leave out.

## Plan

What is left, in this order:

1. Proofs: `FollowersKnow`, with an exchange that hears one report per step, so that the
   log is pushed to once a step and no fold is left.
2. `ConfigurationStore`: revision, backup, atomic replacement, exclusive lock, crash.
3. Continuous rules with the oscillation of variants, over `ViewLayout`.
4. A larger composition: `ManagerUi` with `TransitionWorker` as its worker.
