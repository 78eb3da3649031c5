------------------------------- MODULE ManagerUi -------------------------------
(***************************************************************************)
(* The window manager's interface: a draft of the configuration that is typed  *)
(* into, saved, and merged with what the user drags; and the intents of the     *)
(* user, which are previewed and applied one at a time by the worker, in a       *)
(* thread of its own, that also speaks unasked.                                *)
(* A configuration is a revision and the edits it has.                         *)
(***************************************************************************)
EXTENDS Naturals, Sequences, FiniteSets, SequencesExt

CONSTANTS
    NoIntent,     \* no request, no plan
    Edits,        \* things a configuration may have or not
    Removals,     \* those of them that remove what the user may drag
    Scopes,       \* sets of slots an intent may be about
    MaxIntents,   \* bound: intents of the user
    MaxRevisions, \* bound: saves
    MaxUndo,      \* the limit of the undo history
    MaxUnasked    \* bound: events the worker sends unasked

ASSUME ManagerUiAssumption ==
    /\ Removals \subseteq Edits
    /\ {MaxIntents, MaxRevisions, MaxUndo, MaxUnasked} \subseteq Nat
    /\ NoIntent \notin Nat

VARIABLES
    config,     \* Manager.config: revision and edits
    edited,     \* Manager.draft
    history,    \* Manager.undo
    reviewed,   \* Manager.structure_preview: the draft before and after
    disk,       \* the configuration file
    safe,       \* Manager.safe_mode
    preview,    \* Manager.preview
    latest,     \* Manager.latest_request
    auto,       \* Manager.apply_when_previewed
    waiting,    \* Manager.pending_requests: a set of intents, taken oldest first
    applying,   \* Manager.applying
    orders,     \* commands on their way to the worker, or being carried out
    reports,    \* its events
    intents,    \* history: the scope of each intent, and whether to apply it
    typed,      \* history: what was typed into the draft, and taken out of it
    previewed,  \* history: intents in the order they were asked to be previewed
    unbidden,   \* history: plans that were applied without their preview's approval
    unasked     \* bound: events sent unasked

editing == <<config, edited, history, reviewed, disk, typed>>
intending == <<preview, latest, auto, waiting, applying, intents, previewed, unbidden>>
worker == <<orders, reports, unasked>>
managerVars == <<editing, intending, worker, safe>>

Untouched == [in |-> {}, out |-> {}]
Broken == [revision |-> 0, has |-> NoIntent]
NoReview == [before |-> NoIntent]

ManagerInit ==
    /\ safe \in BOOLEAN
    /\ config = [revision |-> 0, has |-> {}]
    /\ edited = config
    /\ history = <<>>
    /\ reviewed = NoReview
    /\ disk = IF safe THEN Broken ELSE config
    /\ typed = Untouched
    /\ preview = NoIntent /\ latest = NoIntent
    /\ auto = FALSE /\ waiting = {} /\ applying = FALSE
    /\ orders = <<>> /\ reports = <<>> /\ unasked = 0
    /\ intents = <<>> /\ previewed = <<>> /\ unbidden = {}

-----------------------------------------------------------------------------
(* Editing.  Other commands a step sends to the worker (Refresh, Promote, Bind) *)
(* are seen here by the error they may be answered with: Complain.             *)

Add(c, e) == [c EXCEPT !.has = @ \cup {e}]
Kept(records) == IF Len(records) > MaxUndo THEN Tail(records) ELSE records

\* Configuration::save replaces a file that can be read, or fails and leaves it.
Saved(c) ==
    /\ disk # Broken
    /\ config' = [c EXCEPT !.revision = config.revision + 1]
    /\ disk' = config'
    /\ config.revision < MaxRevisions

Commits == ~safe /\ ~applying

\* Manager::commit, when the save succeeds, but for the draft.
Committed(c) ==
    /\ Commits
    /\ Saved(c)
    /\ history' = Kept(Append(history, config))
    /\ preview' = NoIntent
    /\ latest' = NoIntent

\* Buttons that change the saved configuration directly: the draft follows.
ChangeSaved ==
    /\ \E e \in Edits : Committed(Add(config, e))
    /\ edited' = config' /\ typed' = Untouched
    /\ UNCHANGED <<reviewed, safe, auto, waiting, applying, intents, previewed,
                   unbidden, worker>>

\* Typing into the draft; it need not be saved.
Type ==
    /\ \E e \in Edits :
        IF e \in edited.has
        THEN /\ edited' = [edited EXCEPT !.has = @ \ {e}]
             /\ typed' = [in |-> typed.in \ {e}, out |-> typed.out \cup {e}]
        ELSE /\ edited' = Add(edited, e)
             /\ typed' = [in |-> typed.in \cup {e}, out |-> typed.out \ {e}]
    /\ UNCHANGED <<config, history, reviewed, disk, safe, intending, worker>>

SaveDraft ==
    /\ Committed(edited)
    /\ edited' = config' /\ typed' = Untouched
    /\ UNCHANGED <<reviewed, safe, auto, waiting, applying, intents, previewed,
                   unbidden, worker>>

\* A structural change of the draft is shown first, and applied or given up.
Review ==
    /\ \E e \in Edits \ edited.has :
        reviewed' = [before |-> edited, edit |-> e,
                     after |-> [Add(edited, e) EXCEPT !.revision = @ + 1]]
    /\ edited.revision <= MaxRevisions
    /\ UNCHANGED <<config, edited, history, disk, typed, safe, intending, worker>>

AcceptReview ==
    /\ reviewed # NoReview
    /\ reviewed' = NoReview
    /\ IF reviewed.before = edited
       THEN /\ edited' = reviewed.after
            /\ typed' = [in |-> typed.in \cup {reviewed.edit},
                         out |-> typed.out \ {reviewed.edit}]
       ELSE UNCHANGED <<edited, typed>>
    /\ UNCHANGED <<config, history, disk, safe, intending, worker>>

\* The undo of an edit; when it cannot be saved the record is gone all the same.
UndoEdit ==
    /\ history # <<>>
    /\ history' = Front(history)
    /\ \/ /\ Saved(Last(history))
          /\ edited' = config' /\ typed' = Untouched
          /\ preview' = NoIntent
       \/ UNCHANGED <<config, edited, disk, typed, preview>>
    /\ UNCHANGED <<reviewed, safe, latest, auto, waiting, applying, intents,
                   previewed, unbidden, worker>>

\* Mutant: the draft is left as it is.
MergedNot(e) == edited' = [edited EXCEPT !.revision = config'.revision] /\ UNCHANGED typed

\* What was dragged is put into the draft, unless its place is gone there.
Merged(e) ==
    IF edited.has \cap Removals = {}
    THEN /\ edited' = [Add(edited, e) EXCEPT !.revision = config'.revision]
         /\ typed' = [in |-> typed.in \ {e}, out |-> typed.out \ {e}]
    ELSE edited' = config' /\ typed' = Untouched

\* Manager::manual_edit.
ManualEdit(e) ==
    /\ config.has \cap Removals = {}
    /\ Committed(Add(config, e))
    /\ Merged(e)

-----------------------------------------------------------------------------
(* Intents.                                                                  *)

ScopeOf(n) == intents[n].scope
Overlap(m, n) == ScopeOf(m) \cap ScopeOf(n) # {}
Order(kind, n) == [kind |-> kind, intent |-> n]

\* request_preview, when nothing is being applied.
Ask(n, apply) ==
    /\ latest' = n
    /\ auto' = apply
    /\ preview' = NoIntent
    /\ orders' = Append(orders, Order("preview", n))
    /\ previewed' = Append(previewed, n)

\* request_preview: one waits for what is being applied.  The Supersede that
\* goes with it lets the worker give up, which Carry allows at any time.  The
\* newest intent goes to the end of the list, so its order is that of the numbers.
Queue(n) ==
    waiting' = {m \in waiting : intents'[m].scope \cap intents'[n].scope = {}} \cup {n}

RequestPreview(n, apply) ==
    IF applying
    THEN Queue(n) /\ UNCHANGED <<latest, auto, preview, orders, previewed>>
    ELSE Ask(n, apply) /\ UNCHANGED waiting

\* The buttons that preview a layout, and shortcuts and attention, which apply.
Intend ==
    /\ ~safe
    /\ Len(intents) < MaxIntents
    /\ \E scope \in Scopes, apply \in BOOLEAN :
        /\ intents' = Append(intents, [scope |-> scope, apply |-> apply])
        /\ RequestPreview(Len(intents) + 1, apply)
    /\ UNCHANGED <<editing, safe, applying, unbidden, reports, unasked>>

Looks(apply) == FALSE

\* Previews of a window's state, and of the undo of a transition.
Look ==
    /\ ~applying
    /\ Len(intents) < MaxIntents
    /\ \E scope \in Scopes :
        intents' = Append(intents, [scope |-> scope, apply |-> FALSE])
    /\ latest' = Len(intents')
    /\ preview' = NoIntent
    /\ auto' = Looks(auto)
    /\ orders' = Append(orders, Order("preview", Len(intents')))
    /\ previewed' = Append(previewed, Len(intents'))
    /\ UNCHANGED <<editing, safe, waiting, applying, unbidden, reports, unasked>>

SelectView ==
    /\ preview # NoIntent
    /\ preview' = NoIntent
    /\ UNCHANGED <<editing, safe, latest, auto, waiting, applying, intents,
                   previewed, unbidden, worker>>

\* apply_preview: plans that hide windows are refused without a watchdog.
ApplyPreview(plan) ==
    \/ /\ applying' = TRUE
       /\ orders' = Append(orders, Order("apply", plan))
    \/ UNCHANGED <<applying, orders>>

ApplyButton ==
    /\ ~applying /\ preview # NoIntent
    /\ ApplyPreview(preview)
    /\ UNCHANGED <<editing, safe, preview, latest, auto, waiting, intents,
                   previewed, unbidden, reports, unasked>>

-----------------------------------------------------------------------------
(* The worker.  Only its own thread's order is known.                         *)

Report(kind, n) == [kind |-> kind, intent |-> n]

\* A command is carried out, refused, or fails.
Carry ==
    /\ orders # <<>>
    /\ LET order == Head(orders)
           kinds == IF order.kind = "preview" THEN {"preview", "error"}
                    ELSE {"done", "failed", "error"}
       IN \E kind \in IF safe THEN {"error"} ELSE kinds :
            reports' = Append(reports, Report(kind, order.intent))
    /\ orders' = Tail(orders)
    /\ UNCHANGED <<editing, intending, safe, unasked>>

\* An automatic reflow is reported, other commands and refreshes fail, and what
\* the user dragged is sent to be saved.
Speak ==
    /\ unasked < MaxUnasked
    /\ unasked' = unasked + 1
    /\ \/ reports' = Append(reports, Report("error", NoIntent))
       \/ ~safe /\ \E kind \in {"done", "failed"} :
            reports' = Append(reports, Report(kind, NoIntent))
       \/ ~safe /\ \E e \in Edits : reports' = Append(reports, Report("drag", e))
    /\ UNCHANGED <<editing, intending, safe, orders>>

\* Manager::poll takes one report at a time.
Polled(kinds) ==
    /\ reports # <<>>
    /\ Head(reports).kind \in kinds
    /\ reports' = Tail(reports)
    /\ UNCHANGED <<safe, unasked>>

\* Mutant: any plan that arrives is shown.
ShowsAny(n) == TRUE

Shows(n) == latest = n

PollPreview ==
    /\ Polled({"preview"})
    /\ LET n == Head(reports).intent IN
       IF ~Shows(n) THEN UNCHANGED <<preview, auto, applying, orders, unbidden>>
       ELSE /\ preview' = n
            /\ auto' = FALSE
            /\ IF auto THEN ApplyPreview(n) ELSE UNCHANGED <<applying, orders>>
            /\ unbidden' = IF auto /\ ~intents[n].apply THEN unbidden \cup {n} ELSE unbidden
    /\ UNCHANGED <<editing, latest, waiting, intents, previewed>>

\* Whatever was applied: what waits is taken up.  When it failed, intents for
\* slots that are known to be suspended are forgotten first.
PollResult ==
    /\ Polled({"done", "failed"})
    /\ applying' = FALSE
    /\ \E suspended \in {{}} \cup {s \in Scopes : Head(reports).kind = "failed"} :
        LET left == {m \in waiting : ScopeOf(m) \cap suspended = {}}
            first == CHOOSE m \in left : \A n \in left : m <= n
        IN IF left = {}
           THEN waiting' = {} /\ preview' = NoIntent /\ UNCHANGED <<latest, auto, orders, previewed>>
           ELSE waiting' = left \ {first} /\ Ask(first, intents[first].apply)
    /\ UNCHANGED <<editing, intents, unbidden>>

\* Mutant: an error says nothing of what is being applied.
EndsWithout(was) == was

Ends(was) == FALSE

PollError ==
    /\ Polled({"error"})
    /\ applying' = Ends(applying)
    /\ auto' = FALSE
    /\ UNCHANGED <<editing, preview, latest, waiting, intents, previewed, unbidden, orders>>

PollDrag ==
    /\ Polled({"drag"})
    /\ \/ ManualEdit(Head(reports).intent)
       \/ UNCHANGED <<config, edited, history, disk, typed, preview, latest>>
    /\ UNCHANGED <<reviewed, auto, waiting, applying, intents, previewed, unbidden, orders>>

ManagerNext ==
    \/ ChangeSaved \/ Type \/ SaveDraft \/ Review \/ AcceptReview \/ UndoEdit
    \/ Intend \/ Look \/ SelectView \/ ApplyButton
    \/ Carry \/ Speak
    \/ PollPreview \/ PollResult \/ PollError \/ PollDrag

\* The worker goes on with its commands, and the interface polls in each frame.
ManagerFairness ==
    /\ WF_managerVars(Carry)
    /\ WF_managerVars(PollPreview \/ PollResult \/ PollError \/ PollDrag)

-----------------------------------------------------------------------------

\* The draft is the saved configuration with exactly what was typed since: a
\* drag that is saved meanwhile neither takes typing away nor is taken away by
\* the next save, and a review of what the draft was changes nothing.
DraftIsTyped == edited.has = (config.has \cup typed.in) \ typed.out

\* The plan on show is that of the newest intent, however late plans arrive, and what was
\* asked for as a preview is not applied before the user has said so.
PreviewSound ==
    /\ preview # NoIntent => preview = latest
    /\ unbidden = {}

\* The interface does not wait for ever for what is being applied.
ApplyingEnds == applying ~> ~applying

\* An intent to apply is not taken up after a newer one for some of the same slots.
NewestIntentWins ==
    \A i, j \in DOMAIN previewed :
        (i < j /\ previewed[i] > previewed[j])
        => ~(/\ intents[previewed[i]].apply /\ intents[previewed[j]].apply
             /\ Overlap(previewed[i], previewed[j]))
=============================================================================
