--------------------------- MODULE TransitionWorker ---------------------------
(***************************************************************************)
(* The worker thread that owns the runtime: it takes commands from clients   *)
(* (the window-manager GUI and its automation session), plans, executes one  *)
(* transition at a time against windows that other threads own, and keeps    *)
(* taking commands and native events while it waits for them to settle.      *)
(*                                                                          *)
(* A window is changed by requests posted to its thread (SWP_ASYNCWINDOWPOS),*)
(* by its user and by its application.  What recovery knows of hidden        *)
(* windows is the subject of RecoveryJournal; here it shows any of them.     *)
(***************************************************************************)
EXTENDS TransitionPlanner, SequencesExt

CONSTANTS
    Scripts,        \* what clients, users and displays may do in a behaviour
    Disturbances,   \* what users and applications make of windows
    Closable,       \* windows that they close
    UndoLimit,      \* records of the undo history
    CompletedLimit, \* requests remembered as carried out
    MaxGeneration,  \* bound: generations at which automatic reflow starts
    MaxTopology,    \* bound: topology revisions
    MaxLife,        \* bound: lifetimes a reference is bound to
    MaxEvents,      \* bound: native events not yet taken
    MaxPosted       \* bound: requests posted to a window when reflow starts

\* Of a script: the targets of its requests, their modes, the other commands, how
\* many are sent (a bound), whether windows and displays change by themselves, the
\* views with a continuous layout rule, and the windows that users drag.
IsScript(script) ==
    /\ script.requests \subseteq
           UNION {[S -> Views \cup {None}] : S \in (SUBSET Slots) \ {{}}}
    /\ script.modes \subseteq {"open", "restore"}
    /\ script.kinds \subseteq {"undo", "protect", "bind", "supersede", "pause",
                               "recover", "shutdown"}
    /\ script.sends \in Nat
    /\ script.troubled \in BOOLEAN
    /\ script.rules \subseteq Views
    /\ script.drags \subseteq Windows

ASSUME WorkerAssumption ==
    /\ \A script \in Scripts : IsScript(script)
    /\ Disturbances \subseteq Windows \X (Slots \cup {Free}) \X BOOLEAN
    /\ Closable \subseteq Windows
    /\ {UndoLimit, CompletedLimit} \subseteq Nat \ {0}
    /\ {MaxGeneration, MaxTopology, MaxLife, MaxEvents, MaxPosted} \subseteq Nat

VARIABLES
    posted,     \* requests in the queue of each window's thread
    dragging,   \* the handle a user is dragging, if any
    nevents,    \* native gesture events not yet taken
    repertoire, \* the script of this behaviour
    sent,       \* commands sent so far
    held,       \* previews the clients hold
    channel,    \* commands not yet received
    pending,    \* commands received during a transition, State.pending
    phase,      \* what the worker does
    cur,        \* the plan being executed, with what superseded it (history)
    refused,    \* its mutations the native layer refused
    superseded, \* its slots a newer intent superseded
    undo,       \* State.undo
    undoing,    \* State.undoing
    gestures    \* State.gestures: handles by window

native == <<posted, dragging, nevents>>
client == <<repertoire, sent, held>>
execution == <<phase, cur, refused, superseded>>
history == <<undo, undoing>>
vars == <<runtime, screen, topology, native, client, channel, pending,
          execution, history, gestures>>

Handle(w) == <<w, life[w]>>
Handles == Windows \X Nat
NoPlan == [plan |-> None, overtaken |-> {}]

Init ==
    /\ claims = [w \in Windows |-> None]
    /\ presentations = [s \in Slots |-> None]
    /\ generations = [s \in Slots |-> 0]
    /\ suspended = {}
    /\ paused = FALSE
    /\ completed = {}
    /\ topology = 0
    /\ life = [w \in Windows |-> 1]
    /\ alive = [w \in Windows |-> TRUE]
    /\ at = [w \in Windows |-> Free]
    /\ visible = [w \in Windows |-> TRUE]
    /\ posted = [w \in Windows |-> <<>>]
    /\ dragging = {}
    /\ nevents = <<>>
    /\ repertoire \in Scripts
    /\ sent = 0
    /\ held = {}
    /\ channel = <<>>
    /\ pending = <<>>
    /\ phase = "idle"
    /\ cur = NoPlan
    /\ refused = {}
    /\ superseded = {}
    /\ undo = <<>>
    /\ undoing = None
    /\ gestures = {}

-----------------------------------------------------------------------------
(* Clients.                                                                  *)

Send(command) ==
    /\ phase # "stopped"
    /\ sent < repertoire.sends
    /\ sent' = sent + 1
    /\ channel' = Append(channel, command)
    /\ UNCHANGED <<runtime, screen, topology, native, repertoire, pending, phase,
                   refused, history, gestures>>

\* A request has a new identifier, or that of one that is sent again.
SendPreview ==
    \E targets \in repertoire.requests, mode \in repertoire.modes,
       id \in completed \cup {sent + 1} :
        /\ Send([kind |-> "preview",
                 request |-> [id |-> id, mode |-> mode, targets |-> targets]])
        /\ UNCHANGED <<held, cur, superseded>>

\* A preview is used once.
SendApply ==
    \E plan \in held :
        /\ Send([kind |-> "apply", plan |-> plan, overtaken |-> {}])
        /\ held' = held \ {plan}
        /\ UNCHANGED <<cur, superseded>>

SendPause ==
    /\ "pause" \in repertoire.kinds
    /\ \E value \in BOOLEAN :
        /\ Send([kind |-> "pause", value |-> value])
        /\ UNCHANGED <<held, cur, superseded>>

SendSimple ==
    \E kind \in repertoire.kinds \cap {"recover", "shutdown"} :
        /\ Send([kind |-> kind])
        /\ UNCHANGED <<held, cur, superseded>>

SendUndo ==
    /\ "undo" \in repertoire.kinds
    /\ Send([kind |-> "undo", id |-> sent + 1])
    /\ UNCHANGED <<held, cur, superseded>>

SendBind ==
    /\ "bind" \in repertoire.kinds
    /\ \E w \in Windows : Send([kind |-> "bind", window |-> w])
    /\ UNCHANGED <<held, cur, superseded>>

SendProtect ==
    /\ "protect" \in repertoire.kinds
    /\ \E s \in Slots : Send([kind |-> "protect", slot |-> s])
    /\ UNCHANGED <<held, cur, superseded>>

\* What a newer intent overtakes: the applications sent before it (history).
Overtaken(commands, scope) ==
    [i \in DOMAIN commands |->
        IF commands[i].kind = "apply"
        THEN [commands[i] EXCEPT !.overtaken = @ \cup scope]
        ELSE commands[i]]

SendSupersede ==
    /\ "supersede" \in repertoire.kinds
    /\ phase # "stopped"
    /\ sent < repertoire.sends
    /\ sent' = sent + 1
    /\ \E scope \in {DOMAIN targets : targets \in repertoire.requests} :
        /\ channel' = Append(Overtaken(channel, scope),
                             [kind |-> "supersede", scope |-> scope])
        /\ pending' = Overtaken(pending, scope)
        /\ cur' = IF phase = "settling" THEN [cur EXCEPT !.overtaken = @ \cup scope] ELSE cur
    /\ UNCHANGED <<runtime, screen, topology, native, repertoire, held, phase,
                   refused, superseded, history, gestures>>

ClientStep ==
    \/ SendPreview \/ SendApply \/ SendPause \/ SendSimple
    \/ SendUndo \/ SendBind \/ SendProtect \/ SendSupersede

-----------------------------------------------------------------------------
(* Windows, their users and the displays.                                    *)

Environment ==
    UNCHANGED <<runtime, client, channel, pending, execution, history, gestures>>

\* A window's thread carries out what was posted to it.
Deliver(w) ==
    /\ posted[w] # <<>>
    /\ LET change == Head(posted[w]) IN
        /\ at' = [at EXCEPT ![w] = Asked(change.at, @)]
        /\ visible' = [visible EXCEPT ![w] = Asked(change.visible, @)]
    /\ posted' = [posted EXCEPT ![w] = Tail(@)]
    /\ UNCHANGED <<life, alive, topology, dragging, nevents>>
    /\ Environment

\* Its user or its application moves, shows or hides it.
Disturb(w) ==
    /\ repertoire.troubled
    /\ alive[w]
    /\ \E d \in {e \in Disturbances : e[1] = w} :
        /\ at' = [at EXCEPT ![w] = d[2]]
        /\ visible' = [visible EXCEPT ![w] = d[3]]
    /\ UNCHANGED <<life, alive, topology, native>>
    /\ Environment

\* A window is not closed while it is being dragged.
Close(w) ==
    /\ repertoire.troubled
    /\ w \in Closable
    /\ alive[w]
    /\ Handle(w) \notin dragging
    /\ alive' = [alive EXCEPT ![w] = FALSE]
    /\ posted' = [posted EXCEPT ![w] = <<>>]
    /\ UNCHANGED <<life, at, visible, topology, dragging, nevents>>
    /\ Environment

\* EVENT_SYSTEM_MOVESIZESTART; one pointer drags one window.
DragStart(w) ==
    /\ w \in repertoire.drags
    /\ alive[w]
    /\ dragging = {}
    /\ Len(nevents) < MaxEvents
    /\ phase # "stopped"
    /\ dragging' = {Handle(w)}
    /\ nevents' = Append(nevents, [kind |-> "started", handle |-> Handle(w)])
    /\ UNCHANGED <<screen, topology, posted>>
    /\ Environment

\* EVENT_SYSTEM_MOVESIZEEND; a window no reference names any more moves unseen.
DragEnd ==
    /\ Len(nevents) < MaxEvents
    /\ \E handle \in dragging, place \in Places :
        /\ at' = IF Handle(handle[1]) = handle
                 THEN [at EXCEPT ![handle[1]] = place] ELSE at
        /\ nevents' = Append(nevents, [kind |-> "ended", handle |-> handle])
    /\ dragging' = {}
    /\ UNCHANGED <<life, alive, visible, topology, posted>>
    /\ Environment

\* A display or its work area changed.
TopologyChange ==
    /\ repertoire.troubled
    /\ topology < MaxTopology
    /\ topology' = topology + 1
    /\ UNCHANGED <<screen, native>>
    /\ Environment

EnvironmentStep ==
    \/ \E w \in Windows : Deliver(w) \/ Disturb(w) \/ Close(w) \/ DragStart(w)
    \/ DragEnd
    \/ TopologyChange

-----------------------------------------------------------------------------
(* The worker between transitions.                                           *)

\* The next command: those set aside during a transition come first.
Receive(kind) ==
    /\ phase = "idle"
    /\ Head(pending \o channel).kind = kind
    /\ pending' = IF pending = <<>> THEN <<>> ELSE Tail(pending)
    /\ channel' = IF pending = <<>> THEN Tail(channel) ELSE channel

Command == Head(pending \o channel)
Waiting == pending \o channel # <<>>

\* The handler returns an error, because what it needs cannot be observed or
\* stored or is not allowed, or the plan is idempotent.  Nothing is changed.
Fail ==
    /\ \E kind \in {"preview", "apply", "undo", "bind", "protect"} : Receive(kind)
    /\ UNCHANGED <<runtime, screen, topology, native, client, execution,
                   history, gestures>>

Preview ==
    /\ Receive("preview")
    /\ \E plan \in Plans(Command.request) : held' = held \cup {plan}
    /\ UNCHANGED <<runtime, screen, topology, native, repertoire, sent,
                   execution, history, gestures>>

\* apply: the mutations of a plan that still holds are posted.
Submit(plan, overtaken) ==
    /\ gestures = {}
    /\ Revalidates(plan)
    /\ ~plan.idempotent
    /\ \E no \in SUBSET DOMAIN plan.mutations :
        /\ refused' = no
        /\ posted' = [w \in Windows |->
                        IF w \in DOMAIN plan.mutations \ no
                        THEN Append(posted[w], plan.mutations[w]) ELSE posted[w]]
    /\ phase' = "settling"
    /\ cur' = [plan |-> plan, overtaken |-> overtaken]
    /\ superseded' = {}
    /\ UNCHANGED <<runtime, screen, topology, dragging, nevents, repertoire,
                   sent, history, gestures>>

Apply ==
    /\ Receive("apply")
    /\ Submit(Command.plan, Command.overtaken)
    /\ UNCHANGED held

\* Command::Undo previews the reversal of the last record.
Undo ==
    /\ Receive("undo")
    /\ undo # <<>>
    /\ \E plan \in Reversals(undo[Len(undo)], Command.id) : held' = held \cup {plan}
    /\ undoing' = Command.id
    /\ UNCHANGED <<runtime, screen, topology, native, repertoire, sent,
                   execution, undo, gestures>>

Pause ==
    /\ Receive("pause")
    /\ paused' = Command.value
    /\ suspended' = IF Command.value THEN suspended ELSE {}
    /\ UNCHANGED <<claims, presentations, generations, completed, screen, topology,
                   native, client, execution, history, gestures>>

\* recover_selected posts a show to hidden windows that are in its journal.
Reveal(some) ==
    \E journaled \in SUBSET {w \in some : alive[w] /\ ~visible[w]} :
        posted' = [w \in Windows |->
            IF w \in journaled THEN Append(posted[w], [at |-> None, visible |-> TRUE])
            ELSE posted[w]]

\* Mutant of Presented: the generations are counted after the reset.
PresentedAfter == {}

Presented == {s \in Slots : presentations[s] # None}

Disowned(slots) ==
    [w \in Windows |-> IF claims[w] \in slots THEN None ELSE claims[w]]

Unpresented(slots) ==
    [s \in Slots |-> IF s \in slots THEN None ELSE presentations[s]]

Recover ==
    /\ Receive("recover")
    /\ Reveal(Windows)
    /\ claims' = Disowned(Slots)
    /\ presentations' = Unpresented(Slots)
    /\ generations' = Bumped(Presented)
    /\ UNCHANGED <<suspended, paused, completed, screen, topology, dragging,
                   nevents, client, execution, history, gestures>>

\* The journal cannot be written or read back: windows were shown all the same.
RecoverPartly ==
    /\ Receive("recover")
    /\ Reveal(Windows)
    /\ UNCHANGED <<runtime, screen, topology, dragging, nevents, client, execution,
                   history, gestures>>

\* Outside a transition a newer intent makes the plans of its scope stale.
Supersede ==
    /\ Receive("supersede")
    /\ generations' = Bumped(Command.scope)
    /\ UNCHANGED <<claims, presentations, suspended, paused, completed, screen,
                   topology, native, client, execution, history, gestures>>

\* The reference's new window is anywhere; the slot that owned it loses all.
Bind ==
    /\ Receive("bind")
    /\ LET w == Command.window
           owner == {claims[w]} \ {None}
       IN /\ \/ /\ alive[w]
                /\ UNCHANGED <<screen, posted>>
             \/ /\ life[w] < MaxLife
                /\ \E place \in Places, shown \in BOOLEAN :
                    /\ at' = [at EXCEPT ![w] = place]
                    /\ visible' = [visible EXCEPT ![w] = shown]
                /\ life' = [life EXCEPT ![w] = @ + 1]
                /\ alive' = [alive EXCEPT ![w] = TRUE]
                /\ posted' = [posted EXCEPT ![w] = <<>>]
          /\ claims' = Disowned(owner)
          /\ presentations' = Unpresented(owner)
          /\ generations' = Bumped(owner)
    /\ UNCHANGED <<suspended, paused, completed, topology, dragging, nevents,
                   client, execution, history, gestures>>

\* ProtectPresentation: new protection invalidates the plans of the slot.
Protect ==
    /\ Receive("protect")
    /\ Command.slot \in Presented
    /\ generations' = Bumped({Command.slot})
    /\ UNCHANGED <<claims, presentations, suspended, paused, completed, screen,
                   topology, native, client, execution, history, gestures>>

\* The loop ends, and the process with it.
Shutdown ==
    /\ Receive("shutdown")
    /\ Reveal(Windows)
    /\ phase' = "stopped"
    /\ UNCHANGED <<runtime, screen, topology, dragging, nevents, client, cur,
                   refused, superseded, history, gestures>>

\* continuous_permission
Permitted(slot) ==
    /\ presentations[slot] # None
    /\ presentations[slot].view \in repertoire.rules
    /\ Manageable({slot})

ReflowRequest(slot) ==
    [id |-> 0, mode |-> "reflow", targets |-> [s \in {slot} |-> presentations[s].view]]

\* continuous: nothing else to do, the rule of a slot moves its windows back.
Reflow(slot) ==
    /\ phase = "idle"
    /\ ~Waiting
    /\ undoing = None
    /\ generations[slot] < MaxGeneration
    /\ \A w \in Windows : Len(posted[w]) < MaxPosted
    /\ Permitted(slot)
    /\ presentations[slot] = Presentation(presentations[slot].view)
    /\ \E plan \in Plans(ReflowRequest(slot)) :
        /\ DOMAIN plan.mutations # {}
        /\ Submit(plan, {})
    /\ UNCHANGED <<held, channel, pending>>

Keep == UNCHANGED <<runtime, screen, topology, posted, dragging, client, channel,
                    pending, phase, cur, refused, history>>

Event(kind) ==
    /\ nevents # <<>>
    /\ Head(nevents).kind = kind
    /\ nevents' = Tail(nevents)

\* The windows the worker observes under a handle.
Named(handle) == {w \in DOMAIN snapshot : Handle(w) = handle}

Gesturing(handle) ==
    {g \in gestures : g[1] \notin Named(handle)}
        \cup {Handle(w) : w \in Named(handle)}

IdleGestureStarted ==
    /\ phase = "idle"
    /\ Event("started")
    /\ gestures' = Gesturing(Head(nevents).handle)
    /\ UNCHANGED superseded
    /\ Keep

\* It ends the gesture of the reference now bound to the handle, if any.
IdleGestureEnded ==
    /\ phase = "idle"
    /\ Event("ended")
    /\ gestures' = {g \in gestures : Handle(g[1]) # Head(nevents).handle}
    /\ UNCHANGED superseded
    /\ Keep

-----------------------------------------------------------------------------
(* The worker during a transition.                                           *)

Urgent(command) ==
    \/ command.kind \in {"recover", "shutdown"}
    \/ command.kind = "pause" /\ command.value

\* Mutant of DrainCommand: an urgent command waits, and supersedes nothing.
DrainPatiently ==
    /\ phase = "settling"
    /\ channel # <<>>
    /\ pending' = Append(pending, Head(channel))
    /\ channel' = Tail(channel)
    /\ UNCHANGED superseded
    /\ UNCHANGED <<runtime, screen, topology, native, client, phase, cur, refused,
                   history, gestures>>

\* Mutant of DrainCommand: what arrives during a transition is dropped.
DrainAway ==
    /\ phase = "settling"
    /\ channel # <<>>
    /\ channel' = Tail(channel)
    /\ UNCHANGED <<pending, superseded>>
    /\ UNCHANGED <<runtime, screen, topology, native, client, phase, cur, refused,
                   history, gestures>>

DrainCommand ==
    /\ phase = "settling"
    /\ channel # <<>>
    /\ LET command == Head(channel) IN
        /\ superseded' =
            IF command.kind = "supersede" THEN superseded \cup (cur.plan.scope \cap command.scope)
            ELSE IF Urgent(command) THEN cur.plan.scope
            ELSE superseded
        /\ pending' =
            IF command.kind = "supersede" THEN pending
            ELSE IF Urgent(command) THEN <<command>> \o pending
            ELSE Append(pending, command)
    /\ channel' = Tail(channel)
    /\ UNCHANGED <<runtime, screen, topology, native, client, phase, cur, refused,
                   history, gestures>>

\* Mutant of DrainGestureStarted: the transition goes on under the user's hand.
DrainGestureOnly ==
    /\ phase = "settling"
    /\ Event("started")
    /\ gestures' = Gesturing(Head(nevents).handle)
    /\ UNCHANGED superseded
    /\ Keep

\* A user who takes hold of a window of the plan supersedes its slot.
DrainGestureStarted ==
    /\ phase = "settling"
    /\ Event("started")
    /\ LET handle == Head(nevents).handle IN
        /\ gestures' = Gesturing(handle)
        /\ superseded' = superseded \cup
            {cur.plan.desired[w] : w \in Named(handle) \cap DOMAIN cur.plan.desired}
    /\ Keep

DrainGestureEnded ==
    /\ phase = "settling"
    /\ Event("ended")
    /\ gestures' = gestures \ {Head(nevents).handle}
    /\ UNCHANGED superseded
    /\ Keep

\* A domain with a superseded slot is superseded.
Lost == UNION {d \in cur.plan.domains : d \cap superseded # {}}

\* Mutant of Verified: every slot for itself.
VerifiedSlots(focused) ==
    {s \in cur.plan.scope \ Lost :
        /\ cur.plan.mode = "reflow" => ~focused /\ Permitted(s)
        /\ SettledScope(cur.plan, {s})}

\* The domains whose windows have settled; only automatic reflow yields to a
\* managed window in the foreground.
Verified(focused) ==
    UNION {d \in cur.plan.domains :
            /\ d \cap Lost = {}
            /\ cur.plan.mode = "reflow" =>
                ~focused /\ \A s \in d : Permitted(s)
            /\ SettledScope(cur.plan, d)}

\* Mutant of Remember: requests carried out are never forgotten.
RememberAll(id) == completed \cup {id}

Remember(id) ==
    (IF Cardinality(completed) >= CompletedLimit THEN {} ELSE completed) \cup {id}

Recorded(committed) ==
    LET grown == Append(undo, Capture(cur.plan, committed)) IN
    IF Len(grown) > UndoLimit THEN Tail(grown) ELSE grown

Undone(rest) ==
    IF rest = <<>> THEN rest
    ELSE [rest EXCEPT ![Len(rest)] = Rebased(@, presentations', generations')]

\* The end of apply: at the deadline at the latest, commits the domains that
\* have settled and suspends or drops the others, then starts over.
Conclude ==
    /\ phase = "settling"
    /\ channel = <<>>
    /\ \E focused \in BOOLEAN :
        LET plan == cur.plan
            committed == Verified(focused)
            settled == refused = {} /\ committed = plan.scope
            failed == {w \in DOMAIN plan.mutations : plan.slots[w] \notin committed}
            own == undoing = plan.id
        IN /\ claims' = ClaimsAfter(plan, committed)
           /\ presentations' = PresentationsAfter(plan, committed)
           /\ generations' = Bumped(plan.scope)
           /\ suspended' = suspended \cup (plan.scope \ (Lost \cup committed))
           /\ completed' =
                (IF committed = {} THEN completed ELSE Remember(plan.id))
                \ (IF settled /\ ~plan.blocked THEN {0} ELSE {0, plan.id})
           /\ undo' = IF settled /\ own
                        THEN Undone(IF undo = <<>> THEN undo ELSE Front(undo))
                      ELSE IF committed # {} /\ ~own THEN Recorded(committed)
                      ELSE undo
           /\ undoing' = IF settled /\ own THEN None ELSE undoing
           /\ IF settled THEN UNCHANGED posted ELSE Reveal(failed)
    /\ phase' = "idle"
    /\ cur' = NoPlan
    /\ refused' = {}
    /\ superseded' = {}
    /\ UNCHANGED <<paused, screen, topology, dragging, nevents, client, channel,
                   pending, gestures>>

\* refresh fails while the windows settle: apply returns an error and leaves the
\* runtime as it was, whatever has been posted.
Abandon ==
    /\ phase = "settling"
    /\ channel = <<>>
    /\ Lost # cur.plan.scope
    /\ phase' = "idle"
    /\ cur' = NoPlan
    /\ refused' = {}
    /\ superseded' = {}
    /\ UNCHANGED <<runtime, screen, topology, native, client, channel, pending,
                   history, gestures>>

CommandStep ==
    Waiting /\ (\/ Fail \/ Preview \/ Apply \/ Undo \/ Pause
                \/ Recover \/ RecoverPartly \/ Supersede \/ Bind \/ Protect \/ Shutdown)

WorkerStep ==
    \/ CommandStep
    \/ \E s \in Slots : Reflow(s)
    \/ IdleGestureStarted \/ IdleGestureEnded
    \/ DrainCommand \/ DrainGestureStarted \/ DrainGestureEnded
    \/ Conclude \/ Abandon

Next == ClientStep \/ EnvironmentStep \/ WorkerStep

Spec == Init /\ [][Next]_vars

\* A worker that is not blocked takes commands, drains them while a transition
\* settles, and gives up on settling at the deadline.
FairSpec ==
    Spec /\ WF_vars(CommandStep) /\ WF_vars(DrainCommand) /\ WF_vars(Conclude)

-----------------------------------------------------------------------------
(* Types.                                                                    *)

Partial(f, S, T) == DOMAIN f \subseteq S /\ f \in [DOMAIN f -> T]

IsPresentation(p) ==
    p # None => p.view \in Views /\ Partial(p.bindings, Windows, Nat)

Presents(f) ==
    DOMAIN f \subseteq Slots /\ \A s \in DOMAIN f : IsPresentation(f[s])

IsPlan(p) ==
    /\ p.id \in Nat /\ p.mode \in {"open", "restore", "reflow", "undo"}
    /\ {p.idempotent, p.blocked} \subseteq BOOLEAN /\ p.topology \in Nat
    /\ p.scope \in (SUBSET Slots) \ {{}} /\ UNION p.domains = p.scope
    /\ Partial(p.generations, p.scope, Nat)
    /\ Presents(p.presentations) /\ DOMAIN p.presentations = p.scope
    /\ Presents(p.base) /\ DOMAIN p.base = p.scope
    /\ Partial(p.desired, Windows, p.scope)
    /\ Partial(p.expected, Windows, Observation)
    /\ Partial(p.mutations, DOMAIN p.expected, Mutation)
    /\ DOMAIN p.slots \subseteq Windows
    /\ \A w \in DOMAIN p.mutations : p.slots[w] \in p.scope

IsRecord(r) ==
    /\ IsPlan(r.plan) /\ Presents(r.presentations)
    /\ Partial(r.claims, Windows, r.plan.scope)
    /\ Partial(r.after, DOMAIN r.plan.expected, Observation)
    /\ Partial(r.generations, r.plan.scope, Nat)

\* Every variable of the runtime, the screen and the worker has its type, and
\* the undo history keeps within its limit.
TypeOK ==
    /\ claims \in [Windows -> Slots \cup {None}]
    /\ Presents(presentations)
    /\ generations \in [Slots -> Nat]
    /\ suspended \subseteq Slots
    /\ paused \in BOOLEAN
    /\ completed \subseteq Nat
    /\ Cardinality(completed) <= CompletedLimit
    /\ life \in [Windows -> Nat]
    /\ alive \in [Windows -> BOOLEAN]
    /\ at \in [Windows -> Places]
    /\ visible \in [Windows -> BOOLEAN]
    /\ posted \in [Windows -> Seq(Mutation)]
    /\ \A plan \in held : IsPlan(plan)
    /\ phase \in {"idle", "settling", "stopped"}
    /\ phase # "settling" => cur = NoPlan
    /\ phase = "settling" => IsPlan(cur.plan) /\ superseded \subseteq cur.plan.scope
    /\ \A i \in DOMAIN undo : IsRecord(undo[i])
    /\ Len(undo) <= UndoLimit
    /\ undoing \in Nat \cup {None}
    /\ gestures \subseteq Handles

-----------------------------------------------------------------------------
(* Safety.                                                                   *)

\* A window belongs to a slot only while the slot shows a view with the window
\* in a selected tab, and only in the lifetime the slot was presented with.  A slot
\* whose transition failed shows nothing until the user resumes management.
OwnershipCoherent ==
    /\ \A w \in Windows : claims[w] # None =>
         LET shown == presentations[claims[w]] IN
         /\ shown # None
         /\ w \in Shown[shown.view]
         /\ w \in DOMAIN shown.bindings
         /\ shown.bindings[w] = life[w]
    /\ \A s \in suspended : presentations[s] = None

\* An undo record knows the settled state of every window its reversal changes;
\* UndoRecord::reverse indexes `after` by them.
UndoComplete ==
    \A i \in DOMAIN undo : DOMAIN undo[i].plan.mutations \subseteq DOMAIN undo[i].after

\* What the worker promises about slots, whatever it plans, queues and waits for:
\* every change of what a slot shows or owns comes with a new generation, which is
\* all that makes the plans made before stale, and a window passes from one slot to
\* another in one step of both.
Ownership == INSTANCE SlotOwnership WITH
    owner <- claims, shown <- presentations, generation <- generations, Nobody <- None
OwnershipPromise == Ownership!Spec

\* The transition ends with an outcome; an abandoned one has none.
Concludes == phase = "settling" /\ phase' = "idle" /\ generations' # generations

\* Slots of the transition that end up showing something.
Committed == {s \in cur.plan.scope : presentations'[s] # None}

\* A slot is only committed from the presentation its plan was made against,
\* whatever happened between preview, application and settlement.
FreshAuthority ==
    [][Concludes =>
        \A s \in Committed : presentations[s] = cur.plan.base[s]]_vars

\* A window is claimed only while it is the window the plan was made for, and only once
\* it is as the plan wants it: visible and in the slot that claims it, or, where a
\* reversal restores the claim, where and as it was before what is reversed.
ClaimsInPlace ==
    [][\A w \in Windows : claims'[w] \notin {None, claims[w]} =>
        LET settled == Settling(cur.plan, w) IN
        /\ alive[w] /\ life[w] = cur.plan.expected[w].life
        /\ at[w] = settled.at /\ visible[w] = settled.visible
        /\ cur.plan.mode # "undo" => visible[w] /\ at[w] = claims'[w]]_vars

\* The slots of a connected domain are committed together or not at all.
DomainAtomic ==
    [][Concludes =>
        \A d \in cur.plan.domains : Committed \cap d # {} =>
            \A s \in d : presentations'[s] = cur.plan.presentations[s]]_vars

\* A slot is not committed while the user holds a window the plan places there.
HeldNotCommitted ==
    [][Concludes =>
        \A g \in gestures : g[1] \in DOMAIN cur.plan.desired =>
            cur.plan.desired[g[1]] \notin Committed]_vars

\* Nothing is committed once a pause, recovery or shutdown has been received.
UrgentWins ==
    [][(Concludes /\ \E i \in DOMAIN pending : Urgent(pending[i])) =>
        Committed = {}]_vars

\* Liveness: a worker asked to shut down stops, whatever it is waiting for.
ShutdownStops ==
    (\E i \in DOMAIN channel : channel[i].kind = "shutdown") ~> (phase = "stopped")

-----------------------------------------------------------------------------
(* What the documentation says and the code does not do.                     *)

\* A slot that a newer intent has overtaken is not committed.
SupersededNeverCommits ==
    [][Concludes => Committed \cap cur.overtaken = {}]_vars

\* The record a settled undo removes is the one it has reversed.
UndoRemovesItsRecord ==
    [][(Concludes /\ cur.plan.mode = "undo" /\ undoing # undoing') =>
        LET removed == undo[Len(undo)] IN
        /\ removed.plan.scope = cur.plan.scope
        /\ removed.generations = cur.plan.generations]_vars
=============================================================================
