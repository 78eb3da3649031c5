--------------------------- MODULE AutomationSession ---------------------------
(***************************************************************************)
(* The process behind `window-manager --session`: it takes one request per   *)
(* line, carries it out with the help of the worker thread, and answers with  *)
(* one line.  The worker works through a queue of commands and reports        *)
(* events; a barrier sent behind a command tells the session that everything   *)
(* the command had to say has been said, unless it gives up waiting first.     *)
(* What the worker says unasked, or too late, is in the same stream.           *)
(*                                                                          *)
(* What a plan does to windows is the subject of TransitionWorker.            *)
(***************************************************************************)
EXTENDS Naturals, Sequences, SequencesExt, FiniteSets

CONSTANTS
    None,
    Oversized,   \* kinds of events too large for the log to keep anything
    MaxLog,      \* events the log keeps
    MaxReplay,   \* responses the replay cache keeps
    MaxBytes,    \* bytes they may have, in units
    Bulk,        \* the units of a success of those kinds whose answers are large
    MaxPlans,    \* previews that may be held
    MaxHistory,  \* configurations that can be undone
    MaxRevision, \* bound: configuration revisions
    MaxTokens,   \* bound: preview and candidate tokens issued
    MaxDisturbed \* bound: exchanges given up, and things the worker says unasked

ASSUME SessionAssumption ==
    /\ {MaxLog, MaxReplay, MaxBytes, MaxPlans, MaxHistory} \subseteq Nat \ {0}
    /\ \A kind \in DOMAIN Bulk : Bulk[kind] \in Nat \ {0}
    /\ {MaxRevision, MaxTokens, MaxDisturbed} \subseteq Nat
    /\ None \notin Nat
    /\ Oversized \subseteq {"state", "result", "error", "configuration", "recovery"}

VARIABLES
    inbox,      \* request lines not yet read
    outbox,     \* response lines not yet read
    task,       \* the request being carried out, and what it has yet to do
    config,     \* Session.config.revision
    file,       \* the revision saved
    history,    \* Session.history
    plans,      \* Session.plans: tokens, with the plan
    candidates, \* Session.candidates
    replay,     \* Session.replay, oldest first
    log,        \* Session.log
    queue,      \* commands the worker has yet to take
    events,     \* events the session has yet to take
    spent,      \* tokens issued, exchanges given up, things said unasked
    ghost       \* history: requests executed, with the bytes remembered before;
                \* plans the worker was given, carried out or refused; one of them twice

authored == <<config, file, history>>
tokens == <<plans, candidates>>
memory == <<authored, tokens, replay, log>>
worker == <<queue, events>>
sessionVars == <<inbox, outbox, task, memory, worker, spent, ghost>>

Idle == [id |-> None, of |-> None, todo |-> <<>>, heard |-> <<>>, plan |-> None]
EmptyLog == [last |-> 0, kept |-> <<>>]

\* run: the configuration is loaded, and everything else starts empty.
Fresh(revision) ==
    /\ inbox' = <<>> /\ outbox' = <<>> /\ task' = Idle
    /\ config' = revision /\ history' = <<>>
    /\ plans' = {} /\ candidates' = {}
    /\ replay' = <<>> /\ log' = EmptyLog
    /\ queue' = <<>> /\ events' = <<>>
    /\ ghost' = [ghost EXCEPT !.executed = <<>>]

SessionInit ==
    /\ inbox = <<>> /\ outbox = <<>> /\ task = Idle
    /\ config = 0 /\ file = 0 /\ history = <<>>
    /\ plans = {} /\ candidates = {}
    /\ replay = <<>> /\ log = EmptyLog
    /\ queue = <<>> /\ events = <<>>
    /\ spent = [tokens |-> 0, late |-> 0, unasked |-> 0]
    /\ ghost = [executed |-> <<>>, applied |-> {}, twice |-> FALSE]

-----------------------------------------------------------------------------
(* The worker thread, as the session sees it.                                *)

Says(kind, of) == [kind |-> kind, of |-> of]

\* What a command makes the worker say.  A plan is carried out as far as it
\* goes; one that is not refused is reported, unless that cannot be recorded.
Outcomes(command) ==
    LET of == command.of
        told == <<Says("state", of)>>
        failed == <<Says("error", of)>>
    IN CASE command.kind = "refresh" ->
                {told, told \o failed}
         [] command.kind = "preview" ->
                {<<Says("preview", command.plan)>>, failed}
         [] command.kind = "apply" ->
                {<<Says("result", of)>> \o told, failed}
         [] command.kind = "tell" -> {told, failed, <<>>}
         [] command.kind = "barrier" -> {<<Says("barrier", of)>>}

WorkerTakes ==
    /\ queue # <<>>
    /\ \E said \in Outcomes(Head(queue)) :
        /\ events' = events \o said
        /\ ghost' = IF Head(queue).kind = "apply"
                    THEN [ghost EXCEPT !.applied = @ \cup {Head(queue).plan},
                                       !.twice = @ \/ Head(queue).plan \in ghost.applied]
                    ELSE ghost
    /\ queue' = Tail(queue)
    /\ UNCHANGED <<inbox, outbox, task, memory, spent>>

\* Windows and monitors change, and a continuous rule is applied or fails.
WorkerSpeaks ==
    /\ spent.late + spent.unasked < MaxDisturbed
    /\ \E said \in {<<Says("state", None)>>, <<Says("error", None)>>,
                    <<Says("result", None), Says("state", None)>>} :
        events' = events \o said
    /\ spent' = [spent EXCEPT !.unasked = @ + 1]
    /\ UNCHANGED <<inbox, outbox, task, memory, queue, ghost>>

-----------------------------------------------------------------------------
(* The log of domain events.                                                 *)

\* EventLog::push: the oldest events go when there are too many.
Push(l, kind, revision) ==
    LET kept == IF kind \in Oversized THEN <<>>
                ELSE Append(l.kept, [n |-> l.last + 1, revision |-> revision])
    IN [last |-> l.last + 1,
        kept |-> IF Len(kept) > MaxLog THEN Tail(kept) ELSE kept]

DroppedThrough(l) == l.last - Len(l.kept)

\* EventLog::since.
Available(l, cursor) == cursor \in DroppedThrough(l)..l.last
Since(l, cursor) == SelectSeq(l.kept, LAMBDA event : event.n > cursor)

\* exchange: what is taken from the worker is told to those who follow the log.
Told(l, event) ==
    CASE event.kind = "state" -> Push(l, "state", config)
      [] event.kind \in {"result", "error"} -> Push(l, event.kind, None)
      [] OTHER -> l

-----------------------------------------------------------------------------
(* Requests.                                                                 *)

\* SessionCommand; what only has the worker do something is a "tell".
Kinds == {"snapshot", "inventory", "configuration", "events", "configure", "capture",
          "configuration_undo", "bind", "preview", "navigate", "collapse", "apply",
          "discard", "recover", "confirm", "tell"}

Cacheable(command) == command.kind \notin {"configuration", "events", "snapshot", "inventory"}

Request(id, command) == [id |-> id, command |-> command]
Response(id, of, ok, value, l) ==
    [id |-> id, of |-> of, ok |-> ok, value |-> value, cursor |-> l.last]

Entry(id) == {entry \in Range(replay) : entry.request.id = id}

\* What an answer takes up.
Size(response) ==
    IF response.ok /\ response.of.kind \in DOMAIN Bulk THEN Bulk[response.of.kind] ELSE 1

\* What is kept instead of an answer that is larger than the cache.
Receipt(response) == [response EXCEPT !.ok = FALSE, !.value = None]
Stored(response) == IF Size(response) <= MaxBytes THEN response ELSE Receipt(response)

\* What was ever put into the cache; entries hold what was put in before them,
\* so that ReplayCache.bytes is the difference to the oldest.
Total == IF replay = <<>> THEN 0 ELSE Last(replay).from + Last(replay).size

\* The n-th answer and those after it leave room for one more of that size.
LeavesRoom(n, size) ==
    /\ Len(replay) - n + 1 < MaxReplay
    /\ Total - replay[n].from + size <= MaxBytes

\* The oldest answers go until there is room: here is the first that stays.
FirstKept(size) ==
    Min({n \in 1..Len(replay) + 1 : n <= Len(replay) => LeavesRoom(n, size)})

\* Mutant: room is made for the answer where only its receipt is kept.
RememberWhole(request, response) ==
    IF ~Cacheable(request.command) THEN replay
    ELSE Append(SubSeq(replay, FirstKept(Size(response)), Len(replay)),
                [request |-> request, response |-> Stored(response),
                 from |-> Total, size |-> Size(Stored(response))])

\* ReplayCache::insert: also of failures.
Remember(request, response) ==
    IF ~Cacheable(request.command) THEN replay
    ELSE LET size == Size(Stored(response)) IN
         Append(SubSeq(replay, FirstKept(size), Len(replay)),
                [request |-> request, response |-> Stored(response),
                 from |-> Total, size |-> size])

\* The request is answered; the answer is written and remembered.
AnswerWith(ok, value, l) ==
    LET request == Request(task.id, task.of)
        response == Response(task.id, task.of, ok, value, l)
    IN /\ outbox' = Append(outbox, response)
       /\ replay' = Remember(request, response)
       /\ log' = l
       /\ task' = Idle
       /\ UNCHANGED ghost

Fail == AnswerWith(FALSE, None, log)

\* receive: a request that was carried out is answered as it was then.
Replays ==
    /\ task = Idle /\ inbox # <<>>
    /\ LET request == Head(inbox) IN
        /\ Cacheable(request.command)
        /\ \E entry \in Entry(request.id) :
            outbox' = Append(outbox,
                IF entry.request = request THEN entry.response
                ELSE Response(request.id, request.command, FALSE, None, log))
    /\ inbox' = Tail(inbox)
    /\ UNCHANGED <<task, memory, worker, spent, ghost>>

\* Mutant: nobody is told.
UndoingSilently == <<"current", "restore", "done">>

Undoing == <<"current", "restore", "refresh", "done">>

\* What each request does: exchanges with the worker, and steps of its own.
Steps(command) ==
    LET kind == command.kind IN
    CASE kind \in {"snapshot", "inventory"} -> <<"refresh", kind>>
      [] kind = "events" -> <<"poll", kind>>
      [] kind = "configure" -> <<"current", "save", "refresh", "done">>
      [] kind = "capture" -> <<"current", "refresh", "save", "refresh", "done">>
      [] kind = "configuration_undo" -> Undoing
      [] kind = "bind" -> <<"current", "candidate", "tell", "forget">>
      [] kind = "preview" -> <<"room", "plan", "preview">>
      [] kind = "navigate" -> <<"current", "room", "plan", "preview">>
      [] kind = "collapse" -> <<"refresh", "room", "plan", "preview">>
      [] kind = "apply" -> <<"take", "apply">>
      [] kind \in {"recover", "confirm"} -> <<"tell", "forget">>
      [] kind = "tell" -> <<"tell", "done">>
      [] OTHER -> <<kind>>

Receive ==
    /\ task = Idle /\ inbox # <<>>
    /\ LET request == Head(inbox) IN
        /\ Cacheable(request.command) => Entry(request.id) = {}
        /\ task' = [Idle EXCEPT !.id = request.id, !.of = request.command,
                                !.todo = Steps(request.command)]
        /\ ghost' = IF Cacheable(request.command)
                    THEN [ghost EXCEPT !.executed =
                                Append(@, [id |-> request.id, from |-> Total])]
                    ELSE ghost
    /\ inbox' = Tail(inbox)
    /\ UNCHANGED <<outbox, memory, worker, spent>>

Doing(step) == task.todo # <<>> /\ Head(task.todo) = step
Rest == [task EXCEPT !.todo = Tail(@)]
Goes == task' = Rest /\ UNCHANGED <<outbox, replay, log, ghost>>

\* The request was made of an earlier revision, or of none that exists.
Current ==
    /\ Doing("current")
    /\ IF task.of.revision = config THEN Goes ELSE Fail
    /\ UNCHANGED <<inbox, authored, tokens, worker, spent>>

Room ==
    /\ Doing("room")
    /\ IF Cardinality(plans) < MaxPlans THEN Goes ELSE Fail
    /\ UNCHANGED <<inbox, authored, tokens, worker, spent>>

\* Mutant: the token stays valid.
TakeKeeps ==
    /\ Doing("take")
    /\ IF \E plan \in plans : plan.number = task.of.token
       THEN /\ task' = [Rest EXCEPT !.plan =
                            CHOOSE plan \in plans : plan.number = task.of.token]
            /\ UNCHANGED <<outbox, replay, log, ghost>>
       ELSE Fail
    /\ UNCHANGED <<inbox, authored, tokens, worker, spent>>

\* A token is good for one application, whatever becomes of it.
Take ==
    /\ Doing("take")
    /\ plans' = {plan \in plans : plan.number # task.of.token}
    /\ IF plans' # plans
       THEN /\ task' = [Rest EXCEPT !.plan =
                            CHOOSE plan \in plans : plan.number = task.of.token]
            /\ UNCHANGED <<outbox, replay, log, ghost>>
       ELSE Fail
    /\ UNCHANGED <<inbox, authored, candidates, worker, spent>>

Candidate ==
    /\ Doing("candidate")
    /\ candidates' = candidates \ {task.of.token}
    /\ IF candidates' # candidates THEN Goes ELSE Fail
    /\ UNCHANGED <<inbox, authored, plans, worker, spent>>

\* Mutant: previews of the configuration of before stay.
SaveKeepsPlans ==
    /\ Doing("save")
    /\ \/ Fail /\ UNCHANGED authored
       \/ /\ config < MaxRevision
          /\ config' = config + 1
          /\ file' = config'
          /\ history' = IF Len(history) < MaxHistory THEN Append(history, config)
                        ELSE Append(Tail(history), config)
          /\ log' = Push(log, "configuration", config')
          /\ task' = Rest
          /\ UNCHANGED <<outbox, replay, ghost>>
    /\ UNCHANGED <<inbox, tokens, worker, spent>>

\* save_configuration, up to the exchange: what cannot be saved changes nothing.
Save ==
    /\ Doing("save")
    /\ \/ /\ Fail
          /\ UNCHANGED <<authored, plans>>
       \/ /\ config < MaxRevision
          /\ config' = config + 1
          /\ file' = config'
          /\ history' = IF Len(history) < MaxHistory THEN Append(history, config)
                        ELSE Append(Tail(history), config)
          /\ plans' = {}
          /\ log' = Push(log, "configuration", config')
          /\ task' = Rest
          /\ UNCHANGED <<outbox, replay, ghost>>
    /\ UNCHANGED <<inbox, candidates, worker, spent>>

\* ConfigurationUndo: the configuration of before the last edit gets a new
\* revision.  The log is told of it by the exchange that follows.
Restore ==
    /\ Doing("restore")
    /\ \/ Fail /\ UNCHANGED <<authored, plans>>
       \/ /\ history # <<>>
          /\ config < MaxRevision
          /\ config' = config + 1
          /\ file' = config'
          /\ history' = Front(history)
          /\ plans' = {}
          /\ Goes
    /\ UNCHANGED <<inbox, candidates, worker, spent>>

\* exchange: the command is sent, and a barrier behind it.
Sent(step) ==
    CASE step = "refresh" -> [kind |-> "refresh", of |-> task.id]
      [] step = "poll" -> [kind |-> "barrier", of |-> None]
      [] step = "tell" -> [kind |-> "tell", of |-> task.id]
      [] step = "apply" -> [kind |-> "apply", of |-> task.id, plan |-> task.plan]
      [] step = "plan" -> [kind |-> "preview", of |-> task.id,
                           plan |-> [number |-> spent.tokens + 1, revision |-> config,
                                     by |-> task.id]]

Exchange ==
    /\ task.todo # <<>>
    /\ Head(task.todo) \in {"refresh", "poll", "tell", "apply", "plan"}
    /\ Head(task.todo) = "plan" => spent.tokens < MaxTokens
    /\ queue' = queue \o <<Sent(Head(task.todo)), [kind |-> "barrier", of |-> spent.late]>>
    /\ task' = [task EXCEPT !.todo = <<"wait">> \o
                    (IF Head(task.todo) = "apply" THEN <<"apply.done">> ELSE Tail(@))]
    /\ spent' = IF Head(task.todo) = "plan" THEN [spent EXCEPT !.tokens = @ + 1] ELSE spent
    /\ UNCHANGED <<inbox, outbox, memory, events, ghost>>

Barrier == Says("barrier", spent.late)

\* Everything up to the barrier is heard; any error among it is the answer.
Wait ==
    /\ Doing("wait")
    /\ Contains(events, Barrier)
    /\ LET i == CHOOSE n \in DOMAIN events : events[n] = Barrier
           said == SubSeq(events, 1, i - 1)
           told == FoldLeft(Told, log, said)
       IN /\ events' = SubSeq(events, i + 1, Len(events))
          /\ IF \E n \in DOMAIN said : said[n].kind = "error"
             THEN AnswerWith(FALSE, None, told)
             ELSE /\ task' = [Rest EXCEPT !.heard = said]
                  /\ log' = told
                  /\ UNCHANGED <<outbox, replay, ghost>>
    /\ UNCHANGED <<inbox, authored, tokens, queue, spent>>

\* After four seconds the session answers without the worker.
GiveUp ==
    /\ Doing("wait")
    /\ ~Contains(events, Barrier)
    /\ spent.late + spent.unasked < MaxDisturbed
    /\ spent' = [spent EXCEPT !.late = @ + 1]
    /\ AnswerWith(FALSE, None, FoldLeft(Told, log, events))
    /\ events' = <<>>
    /\ UNCHANGED <<inbox, authored, tokens, queue>>

\* Answers.
Heard(kind) == {n \in DOMAIN task.heard : task.heard[n].kind = kind}
FirstHeard(kind) == task.heard[CHOOSE n \in Heard(kind) : \A m \in Heard(kind) : n <= m].of

Answer ==
    /\ \/ /\ Doing("snapshot") \/ Doing("configuration") \/ Doing("done")
          /\ AnswerWith(TRUE, config, log)
          /\ UNCHANGED <<tokens, spent>>
       \/ /\ Doing("discard")
          /\ plans' = {plan \in plans : plan.number # task.of.token}
          /\ AnswerWith(TRUE, config, log)
          /\ UNCHANGED <<candidates, spent>>
       \/ /\ Doing("events")
          /\ IF Available(log, task.of.cursor)
             THEN AnswerWith(TRUE, Since(log, task.of.cursor), log)
             ELSE Fail
          /\ UNCHANGED <<tokens, spent>>
       \/ /\ Doing("forget")
          /\ plans' = {}
          /\ AnswerWith(TRUE, config,
                IF task.of.kind = "recover" THEN Push(log, "recovery", None) ELSE log)
          /\ UNCHANGED <<candidates, spent>>
       \/ /\ Doing("inventory")
          /\ spent.tokens < MaxTokens
          /\ spent' = [spent EXCEPT !.tokens = @ + 1]
          /\ candidates' = {spent'.tokens}
          /\ AnswerWith(TRUE, spent'.tokens, log)
          /\ UNCHANGED plans
       \/ /\ Doing("preview")
          /\ IF Heard("preview") = {}
             THEN Fail /\ UNCHANGED plans
             ELSE /\ plans' = plans \cup {FirstHeard("preview")}
                  /\ AnswerWith(TRUE, FirstHeard("preview"), log)
          /\ UNCHANGED <<candidates, spent>>
       \/ /\ Doing("apply.done")
          /\ IF Heard("result") = {} THEN Fail
             ELSE AnswerWith(TRUE, FirstHeard("result"), log)
          /\ UNCHANGED <<tokens, spent>>
    /\ UNCHANGED <<inbox, authored, worker>>

SessionStep ==
    \/ Replays \/ Receive
    \/ Current \/ Room \/ Take \/ Candidate \/ Save \/ Restore
    \/ Exchange \/ Wait \/ GiveUp \/ Answer

SessionNext == SessionStep \/ WorkerTakes \/ WorkerSpeaks
=============================================================================
