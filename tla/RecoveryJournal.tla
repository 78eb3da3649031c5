-------------------------- MODULE RecoveryJournal --------------------------
(***************************************************************************)
(* The write-ahead journal of hidden windows: how the transition worker     *)
(* hides application windows, what it keeps on disk about them, and how a   *)
(* worker, the watchdog and `--recover` bring them back.                    *)
(*                                                                          *)
(* A handle stands for one validated window lifetime (HWND, process start,  *)
(* session, window-property token): `validate_binding` succeeds exactly     *)
(* while it is alive, and a lifetime that ended never comes back.  A window *)
(* is an authored Window reference; Bind connects it to a lifetime.         *)
(* SetWindowPos is called with SWP_ASYNCWINDOWPOS, so a show or a hide is a *)
(* request in the queue of the application's thread until Deliver.          *)
(***************************************************************************)
EXTENDS Naturals, Sequences, FiniteSets

CONSTANTS
    Windows,     \* Window references of the configuration
    Handles,     \* lifetimes of native top-level windows
    None,        \* no binding
    Prompt,      \* lifetimes that accept every request and have carried it
                 \* out by the next time a manager process looks at them
    Rebind,      \* may a reference be bound anew while its earlier live
                 \* window is still journaled?
    Overlap,     \* may the watchdog of an earlier run, or `--recover`, work
                 \* while a manager is running?
    Transient,   \* may observing a live window fail (monitor information)?
    MaxRequests, \* bound: requests waiting in one application's queue
    MaxRuns      \* bound: manager processes started

ASSUME RecoveryAssumption ==
    /\ None \notin Handles
    /\ Prompt \subseteq Handles
    /\ {Rebind, Overlap, Transient} \subseteq BOOLEAN
    /\ MaxRequests \in Nat \ {0}
    /\ MaxRuns \in Nat

Entry == [window : Windows, handle : Handles]
Mutation == [window : Windows, handle : Handles, to : {"hide", "show", "move"}]
Request == {"hide", "show"}
Process == {"worker", "helper"}

VARIABLES
    alive,      \* the lifetime has not ended
    visible,    \* IsWindowVisible
    minimized,  \* IsIconic
    requests,   \* shows and hides posted to the application, not carried out
    hidden,     \* history: invisible because a manager's hide was carried out
    phase,      \* what the worker thread is doing
    binding,    \* State.bindings
    memory,     \* State.journal
    disk,       \* the journal file
    cur,        \* mutations of the plan being executed
    unsent,     \* those not yet handed to submit_many
    accepted,   \* those whose submission was accepted
    active,     \* recover_selected is running in each process
    todo,       \* entries it has not visited yet
    waiting,    \* the entry whose reveal it is waiting for
    keep,       \* entries it will write back
    due,        \* a watchdog's parent has exited; it has not recovered yet
    runs        \* managers started so far

native == <<alive, visible, minimized, requests, hidden>>
worker == <<phase, binding, memory, cur, unsent, accepted>>
recovery == <<active, todo, waiting, keep>>
vars == <<native, worker, recovery, disk, due, runs>>

Phases == {"down", "idle", "submitting", "settling",
           "revealing", "recovering", "exiting"}

TypeOK ==
    /\ alive \in [Handles -> BOOLEAN]
    /\ visible \in [Handles -> BOOLEAN]
    /\ minimized \in [Handles -> BOOLEAN]
    /\ requests \in [Handles -> Seq(Request)]
    /\ hidden \in [Handles -> BOOLEAN]
    /\ phase \in Phases
    /\ binding \in [Windows -> Handles \cup {None}]
    /\ memory \subseteq Entry
    /\ disk \subseteq Entry
    /\ cur \subseteq Mutation
    /\ unsent \subseteq cur
    /\ accepted \subseteq cur
    /\ active \in [Process -> BOOLEAN]
    /\ todo \in [Process -> SUBSET Entry]
    /\ waiting \in [Process -> SUBSET Entry]
    /\ keep \in [Process -> SUBSET Entry]
    /\ due \in BOOLEAN
    /\ runs \in Nat

Init ==
    /\ alive = [h \in Handles |-> TRUE]
    /\ visible = [h \in Handles |-> TRUE]
    /\ minimized = [h \in Handles |-> FALSE]
    /\ requests = [h \in Handles |-> <<>>]
    /\ hidden = [h \in Handles |-> FALSE]
    /\ phase = "down"
    /\ binding = [w \in Windows |-> None]
    /\ memory = {} /\ disk = {}
    /\ cur = {} /\ unsent = {} /\ accepted = {}
    /\ active = [p \in Process |-> FALSE]
    /\ todo = [p \in Process |-> {}]
    /\ waiting = [p \in Process |-> {}]
    /\ keep = [p \in Process |-> {}]
    /\ due = FALSE
    /\ runs = 0

-----------------------------------------------------------------------------
(* What the manager's code can see and ask of native windows.               *)

\* A prompt application has carried out its requests when a manager looks.
LookAt(h) == h \in Prompt => requests[h] = <<>>

\* State.refresh: the snapshot holds a bound window exactly when observing
\* its binding succeeds.
Observed(w) == binding[w] # None /\ alive[binding[w]]

\* Windows a planner may change: bound, live, not minimized; a hide or a move
\* is planned for a visible window, a show for an invisible one.
Plannable(m) ==
    /\ binding[m.window] = m.handle
    /\ alive[m.handle]
    /\ ~minimized[m.handle]
    /\ visible[m.handle] = (m.to # "show")

\* The window is as the mutation asked; whether a move also reached its frame
\* is left open.
InPlace(m) ==
    alive[m.handle] /\ (m.to # "move" => visible[m.handle] = (m.to = "show"))

\* submit: an asynchronous SetWindowPos, refused when the lifetime ended and
\* whenever the application is free to refuse it.
Post(h, request) ==
    /\ alive[h]
    /\ Len(requests[h]) < MaxRequests
    /\ requests' = [requests EXCEPT ![h] = Append(@, request)]

Refuse(h) == (h \in Prompt => ~alive[h]) /\ UNCHANGED requests

-----------------------------------------------------------------------------
(* recover_selected: load the journal, visit each selected entry, write what *)
(* is kept.  Entries are visited in any order.                               *)

Load(p, selected) ==
    /\ active' = [active EXCEPT ![p] = TRUE]
    /\ todo' = [todo EXCEPT ![p] = {e \in disk : e.window \in selected}]
    /\ keep' = [keep EXCEPT ![p] = {e \in disk : e.window \notin selected}]
    /\ UNCHANGED waiting

Revealable(h) == alive[h] /\ ~visible[h] /\ ~minimized[h]

\* The next selected entry is looked at.
Visit(p, e) ==
    /\ waiting[p] = {} /\ e \in todo[p]
    /\ LookAt(e.handle)
    /\ todo' = [todo EXCEPT ![p] = @ \ {e}]

Keep(p, e) == keep' = [keep EXCEPT ![p] = @ \cup {e}]

\* Its window is invisible and not minimized: ask to show it, and keep the
\* entry at once if the request is refused.
Reveal(p, e) ==
    /\ Visit(p, e) /\ Revealable(e.handle)
    /\ \/ /\ Post(e.handle, "show")
          /\ waiting' = [waiting EXCEPT ![p] = {e}]
          /\ UNCHANGED keep
       \/ Refuse(e.handle) /\ Keep(p, e) /\ UNCHANGED waiting
    /\ UNCHANGED <<alive, visible, minimized, hidden, worker, active, disk,
                   due, runs>>

\* Up to 900 ms later: revealed, or kept for another attempt.
Await(p, e) ==
    /\ waiting[p] = {e}
    /\ LookAt(e.handle)
    /\ waiting' = [waiting EXCEPT ![p] = {}]
    /\ IF alive[e.handle] /\ visible[e.handle] THEN UNCHANGED keep ELSE Keep(p, e)
    /\ UNCHANGED <<native, worker, active, todo, disk, due, runs>>

\* Visible, user-minimized, gone, or not observable: the entry is dropped.
Skip(p, e) ==
    /\ Visit(p, e) /\ (~Revealable(e.handle) \/ Transient)
    /\ UNCHANGED <<native, worker, active, waiting, keep, disk, due, runs>>

Visited(p) == active[p] /\ todo[p] = {} /\ waiting[p] = {}

\* journal.save(path): the whole file is replaced, or the write fails.
Write(entries) == disk' = entries \/ UNCHANGED disk

\* Its last step: the kept entries are written and the process moves on.
Finish(p) ==
    /\ Visited(p)
    /\ Write(keep[p])
    /\ active' = [active EXCEPT ![p] = FALSE]
    /\ keep' = [keep EXCEPT ![p] = {}]
    /\ UNCHANGED <<todo, waiting>>

-----------------------------------------------------------------------------
(* The transition worker.                                                    *)

\* Journal::load, whatever the last run left.
Loaded == disk

\* Only windows of this run's own journal are bound without asking; of several
\* entries for a reference any may be the last.
Resumes(resumed, w) ==
    LET own == {e.handle : e \in {e \in disk : e.window = w}} IN
    IF own = {} THEN resumed[w] = None ELSE resumed[w] \in own

\* run: the journal of the last run is loaded and its bindings resumed.
Start ==
    /\ phase = "down" /\ runs < MaxRuns
    /\ Overlap \/ (~due /\ ~active["helper"])
    /\ phase' = "idle"
    /\ memory' = Loaded
    /\ binding' \in {resumed \in [Windows -> Handles \cup {None}] :
                        \A w \in Windows : Resumes(resumed, w)}
    /\ runs' = runs + 1
    /\ UNCHANGED <<native, disk, cur, unsent, accepted, recovery, due>>

Journaled(entries, h) == \E e \in entries : e.handle = h

\* Command::Bind: a candidate registered under another reference is refused.
Bind(w, h) ==
    /\ phase = "idle" /\ alive[h]
    /\ \A other \in Windows \ {w} : binding[other] # h
    /\ Rebind \/ \A e \in memory \cup disk :
                    e.window = w /\ e.handle # h => ~alive[e.handle]
    /\ binding' = [binding EXCEPT ![w] = h]
    /\ UNCHANGED <<native, phase, memory, disk, cur, unsent, accepted, recovery, due, runs>>

\* Hides that are not journaled yet, and the write that precedes their submission.
NewEntries(plan) ==
    {[window |-> m.window, handle |-> m.handle] :
        m \in {m \in plan : m.to = "hide" /\ ~Journaled(memory, m.handle)}}

\* Mutant: the hides are submitted before the journal reaches the disk.
DeferredSave(entries) == UNCHANGED disk

Save(entries) == disk' = entries

\* apply, first half: journal every hide that is not journaled yet, save, and
\* only then submit.  When the save fails apply returns and nothing changed.
Record(plan) ==
    /\ phase = "idle"
    /\ \A m \in plan : Plannable(m) /\ LookAt(m.handle)
    /\ \A m, n \in plan : m.window = n.window => m = n
    /\ memory' = memory \cup NewEntries(plan)
    /\ Save(memory')
    /\ phase' = IF plan = {} THEN "settling" ELSE "submitting"
    /\ cur' = plan /\ unsent' = plan /\ accepted' = {}
    /\ UNCHANGED <<native, binding, recovery, due, runs>>

\* submit_many, one mutation at a time; the next phase begins with the last.
\* A move waits in the application's queue too, but changes nothing here.
Submit(m) ==
    /\ phase = "submitting" /\ m \in unsent
    /\ unsent' = unsent \ {m}
    /\ phase' = IF unsent' = {} THEN "settling" ELSE "submitting"
    /\ \/ /\ IF m.to = "move" THEN alive[m.handle] /\ UNCHANGED requests
                             ELSE Post(m.handle, m.to)
          /\ accepted' = accepted \cup {m}
       \/ Refuse(m.handle) /\ UNCHANGED accepted
    /\ UNCHANGED <<alive, visible, minimized, hidden, binding, memory, cur,
                   disk, recovery, due, runs>>

\* Mutant: submission results outlive their plan.
ForgottenResults == cur' = {} /\ unsent' = {} /\ UNCHANGED accepted

\* The plan is over, however it ended.
Discard == cur' = {} /\ unsent' = {} /\ accepted' = {}

\* Mutant: the journal retains the visible windows instead of the invisible ones.
VisibleOnly == {e \in memory : Observed(e.window) => visible[binding[e.window]]}

\* Mutant: only the windows of the plan that settled are kept.
PlannedOnly == {e \in memory : \E m \in cur : m.window = e.window}

\* journal.retain after a settled slot: entries whose reference is seen visible
\* are forgotten.
Remembered == {e \in memory : Observed(e.window) => ~visible[binding[e.window]]}

\* apply, settled: entries whose reference is seen visible are forgotten.
Settled ==
    /\ phase = "settling"
    /\ \A w \in Windows : Observed(w) => LookAt(binding[w])
    /\ cur \subseteq accepted /\ \A m \in cur : InPlace(m)
    /\ memory' = Remembered
    /\ Write(memory')
    /\ phase' = "idle"
    /\ Discard
    /\ UNCHANGED <<native, binding, recovery, due, runs>>

\* apply, superseded, refused, timed out or invalidated: the windows of the
\* failed slots are revealed; every window out of place is among them.
Unsettled(failed) ==
    /\ phase = "settling"
    /\ failed \subseteq {m.window : m \in cur}
    /\ \A m \in cur : ~InPlace(m) => m.window \in failed
    /\ Load("worker", failed)
    /\ phase' = "revealing"
    /\ Discard
    /\ UNCHANGED <<native, binding, memory, disk, due, runs>>

\* apply, refresh fails inside the settlement loop: it returns at once.
Abandoned ==
    /\ phase = "settling"
    /\ phase' = "idle"
    /\ Discard
    /\ UNCHANGED <<native, binding, memory, disk, recovery, due, runs>>

\* Command::Recover, and the recovery that follows Command::Shutdown.
RecoverAll(next) ==
    /\ phase = "idle"
    /\ Load("worker", Windows)
    /\ phase' = next
    /\ UNCHANGED <<native, binding, memory, disk, cur, unsent, accepted, due, runs>>

RecoverCommand == RecoverAll("recovering")
Shutdown == RecoverAll("exiting")

\* Mutant: the watchdog's wait never returns.
NoExit == UNCHANGED due

\* parent_alive: the wait of this manager's watchdog returns.
ParentExit == due' = TRUE

Exit ==
    /\ phase' = "down"
    /\ ParentExit
    /\ memory' = {}
    /\ binding' = [w \in Windows |-> None]

\* The worker's recovery ends: after apply the file is read back whatever
\* happened, after Command::Recover only if the write succeeded, and after
\* Shutdown the process exits and its watchdog notices.
Recovered ==
    /\ Finish("worker")
    /\ IF phase = "exiting"
       THEN Exit
       ELSE /\ phase' = "idle" /\ UNCHANGED <<due, binding>>
            /\ memory' = IF phase = "revealing" \/ disk' = keep["worker"]
                         THEN disk' ELSE memory
    /\ UNCHANGED <<native, cur, unsent, accepted, runs>>

\* The manager process dies at any point; the watchdog notices its exit.
Crash ==
    /\ phase # "down"
    /\ Exit
    /\ Discard
    /\ active' = [active EXCEPT !["worker"] = FALSE]
    /\ todo' = [todo EXCEPT !["worker"] = {}]
    /\ waiting' = [waiting EXCEPT !["worker"] = {}]
    /\ keep' = [keep EXCEPT !["worker"] = {}]
    /\ UNCHANGED <<native, disk, runs>>

-----------------------------------------------------------------------------
(* The watchdog and the command line: processes that only recover.           *)

Watch ==
    /\ due /\ ~active["helper"]
    /\ Load("helper", Windows)
    /\ due' = FALSE
    /\ UNCHANGED <<native, worker, disk, runs>>

RecoverCli ==
    /\ phase = "down" \/ Overlap
    /\ ~active["helper"]
    /\ Load("helper", Windows)
    /\ UNCHANGED <<native, worker, disk, due, runs>>

HelperDone ==
    /\ Finish("helper")
    /\ UNCHANGED <<native, worker, due, runs>>

-----------------------------------------------------------------------------
(* Applications and their users.                                             *)

\* The application's thread carries out the oldest request of its queue.
Deliver(h) ==
    /\ alive[h] /\ requests[h] # <<>>
    /\ requests' = [requests EXCEPT ![h] = Tail(@)]
    /\ visible' = [visible EXCEPT ![h] = Head(requests[h]) = "show"]
    /\ hidden' = [hidden EXCEPT ![h] =
                    Head(requests[h]) = "hide" /\ (visible[h] \/ hidden[h])]
    /\ UNCHANGED <<alive, minimized, worker, disk, recovery, due, runs>>

Minimize(h) ==
    /\ alive[h] /\ ~minimized[h]
    /\ minimized' = [minimized EXCEPT ![h] = TRUE]
    /\ UNCHANGED <<alive, visible, requests, hidden, worker, disk, recovery, due, runs>>

\* Restored by its user, or shown by the application itself.
Appear(h) ==
    /\ alive[h] /\ (minimized[h] \/ ~visible[h])
    /\ minimized' = [minimized EXCEPT ![h] = FALSE]
    /\ visible' = [visible EXCEPT ![h] = TRUE]
    /\ hidden' = [hidden EXCEPT ![h] = FALSE]
    /\ UNCHANGED <<alive, requests, worker, disk, recovery, due, runs>>

\* Hidden by the application itself.
Vanish(h) ==
    /\ alive[h] /\ visible[h]
    /\ visible' = [visible EXCEPT ![h] = FALSE]
    /\ UNCHANGED <<alive, minimized, requests, hidden, worker, disk, recovery, due, runs>>

Close(h) ==
    /\ alive[h]
    /\ alive' = [alive EXCEPT ![h] = FALSE]
    /\ requests' = [requests EXCEPT ![h] = <<>>]
    /\ UNCHANGED <<visible, minimized, hidden, worker, disk, recovery, due, runs>>

-----------------------------------------------------------------------------
Recovering(p) == \E e \in Entry : Reveal(p, e) \/ Await(p, e) \/ Skip(p, e)

Applications == \E h \in Handles :
    Deliver(h) \/ Minimize(h) \/ Appear(h) \/ Vanish(h) \/ Close(h)

Next ==
    \/ Start
    \/ \E w \in Windows, h \in Handles : Bind(w, h)
    \/ \E plan \in SUBSET {m \in Mutation : Plannable(m)} : Record(plan)
    \/ \E m \in Mutation : Submit(m)
    \/ Settled
    \/ \E failed \in SUBSET Windows : Unsettled(failed)
    \/ Abandoned
    \/ RecoverCommand
    \/ Shutdown
    \/ Recovered
    \/ Crash
    \/ Watch
    \/ RecoverCli
    \/ HelperDone
    \/ \E p \in Process : Recovering(p)
    \/ Applications

Spec == Init /\ [][Next]_vars

\* The watchdog is a process of its own whose loop always comes round, a
\* recovery that began runs to its end, and prompt applications serve their
\* queues.  Nothing is assumed of the worker, which may crash, of commands,
\* or of the other applications.
Fairness ==
    /\ WF_vars(Watch)
    /\ WF_vars(HelperDone)
    /\ WF_vars(Recovering("helper"))
    /\ \A h \in Prompt : WF_vars(Deliver(h))

FairSpec == Spec /\ Fairness

-----------------------------------------------------------------------------
(* Properties.                                                               *)

\* A window that only the manager made unreachable.
ManagerHidden(h) == alive[h] /\ hidden[h] /\ ~visible[h] /\ ~minimized[h]

\* Every prompt window the manager has hidden is on disk, whatever crashed in
\* between: a helper started now would find it.  (apply journals before it
\* submits; prune and recover_selected forget only what they saw visible.)
HiddenIsJournaled == \A h \in Prompt : ManagerHidden(h) => Journaled(disk, h)

\* While a manager is idle its in-memory journal, from which the next save
\* overwrites the file, still names every prompt window it has hidden.
MemoryKeepsHidden ==
    \A h \in Prompt : phase = "idle" /\ ManagerHidden(h) => Journaled(memory, h)

\* The same promise for every window, prompt or not, as the documentation
\* states it: a hidden window remains eligible for reveal.
RemainsEligible == \A h \in Handles : ManagerHidden(h) => Journaled(disk, h)

\* After the manager is gone each prompt window it hid comes back, unless its
\* user minimized it, it was closed, or a new manager started.
RevealedAfterExit ==
    \A h \in Prompt :
        (phase = "down" /\ ManagerHidden(h)) ~> (phase # "down" \/ ~ManagerHidden(h))
-----------------------------------------------------------------------------
(* Why HiddenIsJournaled holds: an inductive strengthening, for managers     *)
(* whose references are not rebound over a journaled window, that do not     *)
(* overlap with a helper, and whose observations do not fail.                *)

Promised(h) ==
    \/ ManagerHidden(h)
    \/ alive[h] /\ \E i \in 1..Len(requests[h]) : requests[h][i] = "hide"

RecoveryPhases == {"revealing", "recovering", "exiting"}
Held(p) == todo[p] \cup keep[p] \cup waiting[p]

\* Only one process recovers, no helper while a manager runs, and what a
\* recovery holds is on disk until it writes.
OneRecovers ==
    /\ active["worker"] <=> phase \in RecoveryPhases
    /\ due \/ active["helper"] => phase = "down"
    /\ \A p \in Process : Held(p) \subseteq IF active[p] THEN disk ELSE {}

\* The handle is named by the file, by the journal in memory and by every
\* recovery in progress.
Named(h) ==
    /\ Journaled(disk, h)
    /\ phase # "down" => Journaled(memory, h)
    /\ \A p \in Process : active[p] => Journaled(Held(p), h)

\* So is every window that is hidden, whose hide is on its way, or whose hide
\* is yet to be submitted.
Covered ==
    /\ \A h \in Handles : hidden[h] => ~visible[h]
    /\ \A h \in Prompt : Promised(h) => Named(h)
    /\ unsent # {} => phase = "submitting"
    /\ \A m \in unsent : m.to = "hide" => Named(m.handle)

\* A journaled live window is the one its reference is bound to.
Attached ==
    /\ \A e, f \in memory \cup disk :
        e.window = f.window /\ alive[e.handle] /\ alive[f.handle] => e.handle = f.handle
    /\ \A e \in memory \cup disk :
        phase # "down" /\ Observed(e.window) /\ alive[e.handle]
            => binding[e.window] = e.handle
    /\ phase = "down" => memory = {}

JournalInv == TypeOK /\ OneRecovers /\ Covered /\ Attached
=============================================================================
