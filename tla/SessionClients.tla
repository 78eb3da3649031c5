----------------------------- MODULE SessionClients -----------------------------
(***************************************************************************)
(* Who talks to the automation session.  The controller of the desktop        *)
(* workspace asks one question at a time, gives up after six seconds, and      *)
(* tells answers apart by the identifier they carry; an automation client       *)
(* may send a request again, and follows the log of events.                     *)
(***************************************************************************)
EXTENDS AutomationSession

CONSTANTS
    Clients,     \* who may own the session
    Asks,        \* the sets of kinds of requests an automation client may choose from
    Commands,    \* kinds of window commands of the workspace
    Ids,         \* identifiers an automation client uses
    MaxSent,     \* bound: request lines either client writes
    MaxUnread,   \* bound: request lines written ahead
    MaxWaits     \* bound: times the controller stops waiting

ASSUME ClientAssumption ==
    /\ Clients \subseteq {"workspace", "automation"}
    /\ Commands \subseteq Kinds /\ \A kinds \in Asks : kinds \subseteq Kinds
    /\ MaxSent \in [{"workspace", "automation"} -> Nat]
    /\ {MaxUnread, MaxWaits} \subseteq Nat
    /\ Ids \subseteq Nat

VARIABLES
    client,   \* who owns the session
    sent,     \* request lines written
    known,    \* what an automation client asks for, and what it has been told
    host      \* Controller.session, .sequence, .wm and the command it carries out

clientVars == <<client, sent, known, host>>
vars == <<sessionVars, clientVars>>

NoScript == [purpose |-> None, todo |-> <<>>]

Init ==
    /\ SessionInit
    /\ client \in Clients
    /\ sent = 0
    /\ known \in [asks : IF client = "automation" THEN Asks ELSE {{}},
                 revision : {0}, tokens : {{}}, at : {0}]
    /\ host = [up |-> FALSE, script |-> NoScript, asked |-> None, wanted |-> None,
               revision |-> 0, plan |-> None, candidate |-> None,
               waits |-> 0, mixed |-> FALSE]

Running == client = "automation" \/ host.up
Write(request) ==
    /\ sent < MaxSent[client]
    /\ sent' = sent + 1
    /\ inbox' = Append(inbox, request)
    /\ UNCHANGED <<outbox, task, memory, worker, spent, ghost, client>>

-----------------------------------------------------------------------------
(* An automation client.                                                     *)

Fill(kind) ==
    CASE kind \in {"configure", "capture", "navigate", "configuration_undo"} ->
            [kind : {kind}, revision : {known.revision}]
      [] kind \in {"apply", "discard"} -> [kind : {kind}, token : known.tokens]
      [] kind = "bind" -> [kind : {kind}, revision : {known.revision}, token : known.tokens]
      [] kind = "events" -> [kind : {kind}, cursor : {known.at}]
      [] OTHER -> [kind : {kind}]

\* It sends a request, or one with an identifier it has used before.  Identifiers
\* differ in nothing, so that new ones are taken in order.
Ask ==
    /\ client = "automation"
    /\ Len(inbox) + Len(outbox) < MaxUnread
    /\ \E id \in Ids, kind \in known.asks : \E command \in Fill(kind) :
        id <= sent + 1 /\ Write(Request(id, command))
    /\ UNCHANGED <<known, host>>

\* What events tell of revisions, newest last.
Newest(list, revision) ==
    FoldLeft(LAMBDA known_, event :
                IF event.revision = None THEN known_ ELSE event.revision, revision, list)

\* A snapshot is a new beginning; events continue from where the client was.
Learn ==
    /\ client = "automation"
    /\ outbox # <<>>
    /\ LET response == Head(outbox)
           kind == response.of.kind
       IN known' =
            IF ~response.ok THEN known
            ELSE CASE kind = "snapshot" ->
                        [known EXCEPT !.revision = response.value, !.at = response.cursor]
                   [] kind = "events" ->
                        [known EXCEPT !.revision = Newest(response.value, @),
                                      !.at = response.cursor]
                   [] kind \in {"preview", "navigate", "collapse"} ->
                        [known EXCEPT !.tokens = @ \cup {response.value.number}]
                   [] kind = "inventory" -> [known EXCEPT !.tokens = @ \cup {response.value}]
                   [] OTHER -> known
    /\ outbox' = Tail(outbox)
    /\ UNCHANGED <<inbox, task, memory, worker, spent, ghost, client, sent, host>>

-----------------------------------------------------------------------------
(* The controller of the desktop workspace.                                  *)

Previewing == {"preview", "navigate", "collapse"}
Refresh == <<"configuration", "snapshot">>
RefreshAll == Refresh \o <<"inventory", "snapshot">>

HostIdle == client = "workspace" /\ host.script = NoScript
Runs(purpose, todo) == host' = [host EXCEPT !.script = [purpose |-> purpose, todo |-> todo]]

\* WindowsConnect: a session is started if there is none.
Connect ==
    /\ HostIdle /\ sent < MaxSent[client]
    /\ host' = [host EXCEPT !.up = TRUE,
                            !.script = [purpose |-> "connect", todo |-> RefreshAll]]
    /\ IF host.up THEN UNCHANGED sessionVars
       ELSE Fresh(file) /\ UNCHANGED <<file, spent>>
    /\ UNCHANGED <<client, sent, known>>

\* Snapshot: every two seconds the session is asked for its state.
Poll ==
    /\ HostIdle /\ host.up
    /\ Runs("poll", <<"snapshot">>)
    /\ UNCHANGED <<sessionVars, client, sent, known>>

\* WindowsSession: the previous preview is given up before a new one.
WindowCommand ==
    /\ HostIdle /\ host.up
    /\ \E kind \in Commands :
        /\ kind \in {"apply", "discard"} => host.plan # None
        /\ kind = "bind" => host.candidate # None
        /\ Runs("command",
                CASE kind \in Previewing ->
                        (IF host.plan = None THEN <<>> ELSE <<"discard">>) \o <<kind>>
                  [] kind \in {"inventory", "snapshot"} -> <<kind>>
                  [] OTHER -> <<kind>> \o Refresh)
    /\ UNCHANGED <<sessionVars, client, sent, known>>

\* WindowsAdd, WindowsSlotAdd: edits that take several requests.
AddWindows ==
    /\ HostIdle /\ host.up /\ host.candidate # None
    /\ Runs("add", <<"configure", "bind">> \o RefreshAll)
    /\ UNCHANGED <<sessionVars, client, sent, known>>

AddSlot ==
    /\ HostIdle /\ host.up
    /\ Runs("add", <<"confirm", "configure">> \o Refresh)
    /\ UNCHANGED <<sessionVars, client, sent, known>>

\* Drop for WindowSession: its input is closed and the process ends or is killed.
Dropped == Fresh(file) /\ UNCHANGED <<file, spent>>

Disconnect ==
    /\ HostIdle /\ host.up
    /\ host' = [host EXCEPT !.up = FALSE]
    /\ Dropped
    /\ UNCHANGED <<client, sent, known>>

Step == Head(host.script.todo)
InScript == client = "workspace" /\ host.script.todo # <<>>
Built ==
    CASE Step \in {"configure", "capture", "navigate", "configuration_undo"} ->
            [kind |-> Step, revision |-> host.revision]
      [] Step = "bind" ->
            [kind |-> Step, token |-> host.candidate,
             revision |-> host.revision + (IF host.script.purpose = "add" THEN 1 ELSE 0)]
      [] Step \in {"apply", "discard"} -> [kind |-> Step, token |-> host.plan]
      [] OTHER -> [kind |-> Step]

\* wm_request, WindowSession::request.
SendLine ==
    /\ InScript /\ host.asked = None
    /\ Write(Request(sent + 1, Built))
    /\ host' = [host EXCEPT !.asked = sent + 1, !.wanted = Built]
    /\ UNCHANGED known

\* A request failed: what was still to be done is not done, and where the
\* session is not worth keeping it is dropped.
GivesUp(waits) ==
    /\ host' = [host EXCEPT !.asked = None, !.script = NoScript, !.waits = waits,
                            !.up = host.script.purpose \notin {"connect", "poll"}]
    /\ IF host'.up THEN UNCHANGED <<task, inbox, memory, worker, ghost>> ELSE Dropped

\* Mutant: the answer is taken whatever it answers.
TakeAny(response) == response.ok

Accepted(response) == response.id = host.asked /\ response.ok

\* wm_refresh, and the fields of wm that commands set.
Shown(response) ==
    CASE Step = "configuration" -> [host EXCEPT !.revision = response.value]
      [] Step = "inventory" -> [host EXCEPT !.candidate = response.value,
                                            !.plan = IF host.script.purpose = "command"
                                                     THEN None ELSE @]
      [] Step = "snapshot" -> [host EXCEPT !.plan = IF host.script.purpose = "command"
                                                       /\ Len(host.script.todo) = 1
                                                    THEN None ELSE @]
      [] Step \in Previewing -> [host EXCEPT !.plan = response.value.number]
      [] Step = "discard" -> host
      [] OTHER -> [host EXCEPT !.plan = IF host.script.purpose = "command"
                                        THEN None ELSE @]

ReadLine ==
    /\ InScript /\ host.asked # None
    /\ outbox # <<>>
    /\ LET response == Head(outbox)
           todo == Tail(host.script.todo)
       IN IF Accepted(response)
          THEN /\ host' = [Shown(response) EXCEPT !.asked = None,
                            !.script = IF todo = <<>> THEN NoScript
                                       ELSE [@ EXCEPT !.todo = todo],
                            !.mixed = @ \/ response.of # host.wanted]
               /\ outbox' = Tail(outbox)
               /\ UNCHANGED <<inbox, task, memory, worker, ghost>>
          ELSE GivesUp(host.waits) /\ (host'.up => outbox' = Tail(outbox))
    /\ UNCHANGED <<spent, file, client, sent, known>>

\* After six seconds the controller stops waiting; the answer may still come.
StopWaiting ==
    /\ InScript /\ host.asked # None
    /\ outbox = <<>>
    /\ host.waits < MaxWaits
    /\ GivesUp(host.waits + 1) /\ (host'.up => UNCHANGED outbox)
    /\ UNCHANGED <<spent, file, client, sent, known>>

-----------------------------------------------------------------------------

Next ==
    \/ Running /\ SessionNext /\ UNCHANGED clientVars
    \/ Ask \/ Learn
    \/ Connect \/ Poll \/ WindowCommand \/ AddWindows \/ AddSlot \/ Disconnect
    \/ SendLine \/ ReadLine \/ StopWaiting

Spec == Init /\ [][Next]_vars

-----------------------------------------------------------------------------
(* Properties.                                                               *)

\* A control command is carried out a second time only after MaxReplay others, or
\* after answers, its own the first, that together exceed MaxBytes: until then
\* its answer, failed or not, is remembered, or a receipt for one that is too large.
AtMostOnceInWindow ==
    \A i, j \in DOMAIN ghost.executed :
        i < j /\ ghost.executed[i].id = ghost.executed[j].id =>
            \/ j - i > MaxReplay
            \/ ghost.executed[j].from - ghost.executed[i].from > MaxBytes

\* The worker is never given the same plan to carry out twice, whether it carried it
\* out, refused it or could not record it.
AppliedOnce == ~ghost.twice

\* Unless two exchanges were given up, the session holds no preview of an
\* earlier configuration.
PlansCurrent == spent.late < 2 => \A plan \in plans : plan.revision = config

\* A client that is up to date with the log of events knows the revision of the
\* configuration, unless the worker has yet to report it.
FollowersKnow ==
    (/\ client = "automation"
     /\ task = Idle /\ queue = <<>> /\ outbox = <<>>
     /\ ~\E n \in DOMAIN events : events[n].kind = "state"
     /\ known.at = log.last)
    => known.revision = config

\* The workspace never takes the answer to one request for that to another,
\* however often it stopped waiting.
NotMixedUp == ~host.mixed
=============================================================================
