------------------------------- MODULE MCSessions -------------------------------
(* Instances of SessionClients and of WorkspaceJobs: what the workspace's         *)
(* controller does with the window session, and with its children.  A behaviour   *)
(* is one of one of them: `part` says of which, and the other stands still.        *)
EXTENDS SessionClients, WorkspaceJobs

CONSTANTS output1, output2, cable1, cable2, faint, loud, screen1

VARIABLE part

\* SessionClients.
Both == {"workspace", "automation"}
FourAndSeven == [c \in Both |-> IF c = "automation" THEN 4 ELSE 7]
Large == {"error"}
ThreeIds == {1, 2, 3}
\* Two answers of which one is large do not fit, nor does the largest on its own.
Sizes == [kind \in {"configure", "preview"} |-> IF kind = "preview" THEN 4 ELSE 3]
FollowOrPlan ==
    {{"snapshot", "events", "configure", "configuration_undo"},
     {"configure", "configuration_undo", "preview", "apply"}}
HostCommands == {"configure", "collapse", "apply", "inventory"}

\* WorkspaceJobs: two routes of each kind, one pair of which feeds back.
SomeAudios == {output1, output2}
SomeCables == {cable1, cable2}
SomeGains == {faint, loud}
SomeDisplays == {screen1}
OneLoop == {<<output1, cable1>>}
On == [on |-> TRUE, to |-> screen1]
Off == [on |-> FALSE, to |-> screen1]
SomePresets == {[audio |-> output2, rows |-> <<Off, On>>]}
SomeCablePresets == {[route |-> cable2, gain |-> loud]}
SomeBundles ==
    {[audio |-> output1, cable |-> Nothing, rows |-> Nothing],
     [audio |-> Nothing, cable |-> [route |-> cable1, gain |-> loud], rows |-> <<Off, On>>],
     [audio |-> output2, cable |-> [route |-> cable2, gain |-> faint], rows |-> <<Off>>]}

-----------------------------------------------------------------------------

MCInit ==
    /\ part \in {"session", "jobs"}
    /\ Init /\ JobsInit
    /\ part = "jobs" => client = "workspace"

MCNext ==
    \/ part = "session" /\ Next /\ UNCHANGED <<part, jobVars>>
    \/ part = "jobs" /\ JobsNext /\ UNCHANGED <<part, vars>>

MCSpec == MCInit /\ [][MCNext]_<<part, vars, jobVars>>
=============================================================================
