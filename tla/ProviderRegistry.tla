---------------------------- MODULE ProviderRegistry ----------------------------
(***************************************************************************)
(* Status providers: local adapters that are granted some windows and report   *)
(* what needs attention there.  Their messages may arrive late, twice or out    *)
(* of order, after the adapter disconnected or was registered anew; evidence    *)
(* is shown for a limited time.                                                *)
(***************************************************************************)
EXTENDS Naturals, FiniteSets

CONSTANTS
    NoProvider,   \* nothing is registered, or known
    Providers,    \* names adapters register with
    Sessions,     \* sessions of theirs
    Resources,    \* windows of the configuration
    MaxProviders, \* the limit of registered providers
    MaxSequence,  \* bound: messages an adapter sends in a session
    MaxGrants,    \* bound: registrations of an adapter
    MaxTime       \* bound: time, in units of which evidence lives one

ASSUME ProviderAssumption ==
    /\ {MaxProviders, MaxSequence, MaxGrants, MaxTime} \subseteq Nat
    /\ NoProvider \notin Sessions

VARIABLES
    registry,  \* ProviderRegistry.providers
    evidence,  \* ProviderRegistry.evidence, by provider and window
    adapter,   \* what each adapter is at: session and last sequence; history: how often
               \* it was registered, and in which sessions before this one
    wire,      \* messages sent; any may arrive, at any time and more than once
    time       \* unix_millis

providerVars == <<registry, evidence, adapter, wire, time>>

\* grant is history: the registration the message was said under.
Message ==
    [provider : Providers, session : Sessions, sequence : 1..MaxSequence,
     window : Resources, observed : 0..MaxTime, attention : BOOLEAN, grant : 1..MaxGrants]

Nothing == [e \in Providers \X Resources |-> NoProvider]
Registered == {p \in Providers : registry[p] # NoProvider}

ProvidersInit ==
    /\ registry = [p \in Providers |-> NoProvider]
    /\ evidence = Nothing
    /\ adapter = [p \in Providers |->
            [session |-> NoProvider, sequence |-> 0, grant |-> 0, before |-> {}]]
    /\ wire = {}
    /\ time = 0

\* ProviderRegistry::register, of windows that are in the configuration: an
\* adapter starts, and numbers its messages from one.  Its session may be a new
\* one, or that of before.
Register ==
    \E p \in Providers, session \in Sessions, granted \in SUBSET Resources, may \in BOOLEAN :
        /\ p \in Registered \/ Cardinality(Registered) < MaxProviders
        /\ adapter[p].grant < MaxGrants
        /\ registry' = [registry EXCEPT ![p] =
                [session |-> session, sequence |-> 0, resources |-> granted,
                 attention |-> may, connected |-> TRUE]]
        /\ evidence' = [e \in Providers \X Resources |->
                IF e[1] = p THEN NoProvider ELSE evidence[e]]
        /\ adapter' = [adapter EXCEPT ![p] =
                [session |-> session, sequence |-> 0, grant |-> @.grant + 1,
                 before |-> @.before \cup {@.session}]]
        /\ UNCHANGED <<wire, time>>

Send ==
    \E p \in Providers, w \in Resources, attention \in BOOLEAN :
        /\ adapter[p].session # NoProvider
        /\ adapter[p].sequence < MaxSequence
        /\ adapter' = [adapter EXCEPT ![p].sequence = @ + 1]
        /\ wire' = wire \cup {[provider |-> p, session |-> adapter[p].session,
                               sequence |-> adapter'[p].sequence, window |-> w,
                               observed |-> time, attention |-> attention,
                               grant |-> adapter[p].grant]}
        /\ UNCHANGED <<registry, evidence, time>>

Timely(message) == message.observed <= time /\ time - message.observed < 1

\* Mutant: messages are taken in the order they arrive.
AcceptableInAnyOrder(message) ==
    LET provider == registry[message.provider] IN
    /\ provider # NoProvider /\ provider.connected
    /\ provider.session = message.session
    /\ message.window \in provider.resources
    /\ message.attention => provider.attention
    /\ Timely(message)

\* ProviderRegistry::accept.
Acceptable(message) ==
    LET provider == registry[message.provider] IN
    /\ provider # NoProvider /\ provider.connected
    /\ provider.session = message.session
    /\ message.sequence > provider.sequence
    /\ message.window \in provider.resources
    /\ message.attention => provider.attention
    /\ Timely(message)

Accept ==
    \E message \in wire :
        /\ Acceptable(message)
        /\ registry' = [registry EXCEPT ![message.provider].sequence = message.sequence]
        /\ evidence' = [evidence EXCEPT ![<<message.provider, message.window>>] = message]
        /\ UNCHANGED <<adapter, wire, time>>

\* ProviderRegistry::disconnect.
Disconnected ==
    \E p \in Registered :
        /\ registry' = [registry EXCEPT ![p].connected = FALSE]
        /\ UNCHANGED <<evidence, adapter, wire, time>>

\* The clock goes on, or is set back.
Clock ==
    /\ time' \in 0..MaxTime \ {time}
    /\ UNCHANGED <<registry, evidence, adapter, wire>>

ProvidersNext == Register \/ Send \/ Accept \/ Disconnected \/ Clock

-----------------------------------------------------------------------------

\* ProviderRegistry::fresh and attention.
FreshEvidence(message) ==
    LET provider == registry[message.provider] IN
    /\ provider # NoProvider /\ provider.connected
    /\ provider.session = message.session
    /\ Timely(message)

Attention ==
    {message \in {evidence[e] : e \in DOMAIN evidence} \ {NoProvider} :
        message.attention /\ FreshEvidence(message)}

\* What asks for attention is about a window its provider is granted now, with
\* the right to ask.
ShownIsGranted ==
    \A message \in Attention :
        /\ message.window \in registry[message.provider].resources
        /\ registry[message.provider].attention

\* An adapter was registered with a session it did not have before.  One that takes up
\* a session again is taken for the one of before (register compares nothing).
NewSession(p) == adapter[p].session \notin adapter[p].before

\* What is known was said under the registration that holds.
KnownIsCurrent ==
    \A e \in DOMAIN evidence :
        evidence[e] # NoProvider /\ NewSession(e[1]) => evidence[e].grant = adapter[e[1]].grant

\* The order in which an adapter said things: by registration, then by number.
SaidBefore(old, new) ==
    \/ old.grant < new.grant
    \/ old.grant = new.grant /\ old.sequence < new.sequence

\* What is shown is granted.  While adapters have a new session for every registration,
\* what is known was said under the registration that holds, and gives way only to what
\* the adapter said later, in whatever order messages arrive, and however often.
EvidenceSound ==
    /\ []ShownIsGranted
    /\ []KnownIsCurrent
    /\ [][\A e \in DOMAIN evidence :
            evidence[e] # NoProvider /\ NewSession(e[1])
            => evidence'[e] \in {evidence[e], NoProvider} \/ SaidBefore(evidence[e], evidence'[e])
       ]_providerVars
=============================================================================
