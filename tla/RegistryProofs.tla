----------------------------- MODULE RegistryProofs -----------------------------
(***************************************************************************)
(* That the two registries the worker keeps stay sound, for any number of     *)
(* monitors, identifiers, adapters and messages: the names of monitors, and   *)
(* what status providers are granted.                                        *)
(***************************************************************************)
EXTENDS MonitorMappings, ProviderRegistry, QueueLemmas

-----------------------------------------------------------------------------
(* Names of monitors.                                                        *)

MonitorsSpec == MonitorsInit /\ [][MonitorsNext]_monitorVars

\* What was told of an inventory is of an earlier epoch, or is what the worker has.
Remembers(news) ==
    /\ news.epoch \in Nat /\ news.epoch <= mappings.epoch
    /\ news.epoch = mappings.epoch => news.inventory = mappings.inventory

MappingTypes ==
    /\ mappings = [epoch |-> mappings.epoch, inventory |-> mappings.inventory,
                   aliases |-> mappings.aliases]
    /\ mappings.epoch \in Nat
    /\ topology \in Nat
    /\ IsQueue(monitorNews)

NewsRemembered ==
    /\ \A i \in 1..Len(monitorNews) : Remembers(monitorNews[i])
    /\ Remembers(monitorsSeen)
    /\ confirming # NoId => Remembers(confirming.seen)

AliasesAsserted ==
    \A device \in DOMAIN mappings.aliases :
        device \in DOMAIN asserted /\ asserted[device] = mappings.inventory

\* A revision says no more than one thing, and the present one what is on show.
RevisionsOnce ==
    /\ \A p \in published : p[1] \in Nat /\ p[1] <= topology
    /\ \A p \in published : p[1] = topology => p[2] = displays
    /\ \A p, q \in published : p[1] = q[1] => p[2] = q[2]

MappingInv == MappingTypes /\ NewsRemembered /\ AliasesAsserted /\ RevisionsOnce

\* The worker takes note of the monitors as they are: of m it keeps everything, or
\* begins a new epoch.
LEMMA UpdatedFacts ==
    ASSUME NEW m, NEW inventory,
           m = [epoch |-> m.epoch, inventory |-> m.inventory, aliases |-> m.aliases],
           m.epoch \in Nat
    PROVE  \/ Updated(m, inventory) = m
           \/ /\ Updated(m, inventory).epoch = m.epoch + 1
              /\ Updated(m, inventory).aliases = Empty
              /\ Updated(m, inventory) = [epoch |-> Updated(m, inventory).epoch,
                                          inventory |-> Updated(m, inventory).inventory,
                                          aliases |-> Updated(m, inventory).aliases]
  BY DEF Updated

LEMMA RefreshFacts ==
    ASSUME MappingInv, NEW m, m.epoch = mappings.epoch, m.inventory = mappings.inventory,
           m = [epoch |-> m.epoch, inventory |-> m.inventory, aliases |-> m.aliases],
           RefreshFrom(m)
    PROVE  /\ topology' \in Nat /\ mappings'.epoch \in Nat
           /\ mappings' = [epoch |-> mappings'.epoch, inventory |-> mappings'.inventory,
                           aliases |-> mappings'.aliases]
           /\ \/ mappings' = m
              \/ mappings'.epoch = mappings.epoch + 1 /\ mappings'.aliases = Empty
           /\ RevisionsOnce'
  <1> DEFINE after == Updated(m, attached)
  <1>1. /\ mappings' = after /\ displays' = DisplaysOf(after)
        /\ topology' = IF after.epoch # m.epoch \/ displays # DisplaysOf(after)
                       THEN topology + 1 ELSE topology
        /\ published' = published \cup {<<topology', displays'>>}
    BY DEF RefreshFrom, Advances
  <1>2. topology \in Nat /\ mappings.epoch \in Nat
    BY DEF MappingInv, MappingTypes
  <1>3. \/ after = m
        \/ /\ after.epoch = m.epoch + 1 /\ after.aliases = Empty
           /\ after = [epoch |-> after.epoch, inventory |-> after.inventory,
                       aliases |-> after.aliases]
    BY <1>2, UpdatedFacts
  <1> HIDE DEF after
  <1>4. topology' \in Nat /\ topology' >= topology
    BY <1>1, <1>2
  <1>5. topology' = topology => displays' = displays
    BY <1>1, <1>2
  <1>6. \A p \in published : p[1] \in Nat /\ p[1] <= topology /\ (p[1] = topology => p[2] = displays)
    BY DEF MappingInv, RevisionsOnce
  <1>7. RevisionsOnce'
    <2> DEFINE now == <<topology', displays'>>
    <2>1. \A p \in published' : p \in published \/ p = now
      BY <1>1
    <2>2. now[1] = topology' /\ now[2] = displays'
      OBVIOUS
    <2> HIDE DEF now
    <2>3. \A p \in published : p[1] <= topology' /\ (p[1] = topology' => p[2] = displays')
      BY <1>2, <1>4, <1>5, <1>6
    <2> QED BY <1>4, <1>6, <2>1, <2>2, <2>3 DEF RevisionsOnce, MappingInv
  <1> QED BY <1>1, <1>2, <1>3, <1>4, <1>7

LEMMA RememberedOn ==
    ASSUME NEW news, Remembers(news), mappings.epoch \in Nat,
           \/ mappings'.epoch = mappings.epoch /\ mappings'.inventory = mappings.inventory
           \/ mappings'.epoch = mappings.epoch + 1
    PROVE  /\ news.epoch \in Nat /\ news.epoch <= mappings'.epoch
           /\ news.epoch = mappings'.epoch => news.inventory = mappings'.inventory
  BY DEF Remembers

LEMMA LastTwoFacts ==
    ASSUME NEW news, IsQueue(news), NEW e
    PROVE  LET told == LastTwo(Append(news, e))
           IN /\ IsQueue(told)
              /\ \A i \in 1..Len(told) : told[i] = e \/ \E j \in 1..Len(news) : told[i] = news[j]
  <1> DEFINE more == Append(news, e)
             told == LastTwo(more)
  <1>1. /\ IsQueue(more) /\ Len(more) = Len(news) + 1 /\ Len(news) \in Nat
        /\ \A i \in 1..Len(news) : more[i] = news[i]
        /\ more[Len(news) + 1] = e
    BY AppendFacts, QueueFacts
  <1> HIDE DEF more
  <1>2. \A i \in 1..Len(more) : more[i] = e \/ \E j \in 1..Len(news) : more[i] = news[j]
    <2>1. \A i \in 1..Len(more) : i \in 1..Len(news) \/ i = Len(news) + 1
      BY <1>1
    <2> QED BY <1>1, <2>1
  <1>3. CASE Len(more) > 2
    <2>1. more # <<>> /\ told = Tail(more)
      BY <1>3, EmptyQueue DEF LastTwo
    <2>2. /\ IsQueue(told) /\ Len(told) = Len(more) - 1
          /\ \A i \in 1..Len(told) : told[i] = more[i + 1]
      BY <1>1, <2>1, TailFacts
    <2> HIDE DEF told
    <2>3. \A i \in 1..Len(told) : i + 1 \in 1..Len(more)
      BY <1>1, <2>2
    <2>4. \A i \in 1..Len(told) : told[i] = e \/ \E j \in 1..Len(news) : told[i] = news[j]
      BY <1>2, <2>2, <2>3
    <2> QED BY <2>2, <2>4 DEF told, more
  <1>4. CASE ~(Len(more) > 2)
    <2>1. told = more
      BY <1>4 DEF LastTwo
    <2> QED BY <1>1, <1>2, <2>1 DEF more
  <1> QED BY <1>3, <1>4

LEMMA MappingInductive ==
    ASSUME MappingInv, [MonitorsNext]_monitorVars PROVE MappingInv'
  <1> USE DEF MappingInv
  <1>1. ASSUME UNCHANGED <<mappings, displays, topology, asserted, published>>
        PROVE  AliasesAsserted' /\ RevisionsOnce' /\ (\A news : Remembers(news)' <=> Remembers(news'))
    BY <1>1 DEF AliasesAsserted, RevisionsOnce, Remembers
  <1>2. CASE Plug \/ UNCHANGED monitorVars
    BY <1>2 DEF Plug, monitorVars, MappingTypes, NewsRemembered, AliasesAsserted, RevisionsOnce,
                Remembers
  <1>3. CASE TakeNews
    <2>1. /\ monitorNews # <<>> /\ monitorsSeen' = Head(monitorNews)
          /\ monitorNews' = Tail(monitorNews)
          /\ UNCHANGED <<mappings, displays, topology, confirming, asserted, published>>
      BY <1>3 DEF TakeNews
    <2>2. /\ IsQueue(monitorNews') /\ Len(monitorNews') = Len(monitorNews) - 1
          /\ \A i \in 1..Len(monitorNews') : monitorNews'[i] = monitorNews[i + 1]
          /\ monitorsSeen' = monitorNews[1] /\ Len(monitorNews) \in Nat /\ Len(monitorNews) > 0
      BY <2>1, TailFacts, QueueFacts DEF MappingTypes
    <2>3. 1 \in 1..Len(monitorNews) /\ \A i \in 1..Len(monitorNews') : i + 1 \in 1..Len(monitorNews)
      BY <2>2
    <2>4. NewsRemembered'
      BY <2>1, <2>2, <2>3 DEF NewsRemembered, Remembers
    <2> QED BY <2>1, <2>2, <2>4 DEF MappingTypes, AliasesAsserted, RevisionsOnce
  <1>4. CASE AskConfirm
    <2>1. PICK device, alias : confirming' = [seen |-> monitorsSeen, device |-> device, alias |-> alias]
      BY <1>4 DEF AskConfirm
    <2>2. confirming'.seen = monitorsSeen
      BY <2>1
    <2>3. UNCHANGED <<mappings, displays, topology, monitorNews, monitorsSeen, asserted, published>>
      BY <1>4 DEF AskConfirm
    <2> QED BY <2>2, <2>3 DEF MappingTypes, NewsRemembered, Remembers, AliasesAsserted, RevisionsOnce
  \* News of what the worker has now is as good as what is remembered.
  <1>5. ASSUME /\ mappings'.epoch \in Nat /\ topology' \in Nat
               /\ mappings' = [epoch |-> mappings'.epoch, inventory |-> mappings'.inventory,
                               aliases |-> mappings'.aliases]
               /\ \/ mappings'.epoch = mappings.epoch /\ mappings'.inventory = mappings.inventory
                  \/ mappings'.epoch = mappings.epoch + 1,
               monitorNews' = monitorNews
                \/ monitorNews' = LastTwo(Append(monitorNews, News(mappings'))),
               confirming' = confirming \/ confirming' = NoId,
               monitorsSeen' = monitorsSeen
        PROVE  MappingTypes' /\ NewsRemembered'
    <2>1. \A news : Remembers(news) =>
            /\ news.epoch \in Nat /\ news.epoch <= mappings'.epoch
            /\ news.epoch = mappings'.epoch => news.inventory = mappings'.inventory
      BY <1>5, RememberedOn DEF MappingTypes
    <2> DEFINE now == News(mappings')
    <2>2. now.epoch = mappings'.epoch /\ now.inventory = mappings'.inventory
      BY DEF News
    <2>3. now.epoch \in Nat /\ now.epoch <= mappings'.epoch
      BY <1>5, <2>2
    <2> HIDE DEF now
    <2>4. /\ IsQueue(monitorNews')
          /\ \A i \in 1..Len(monitorNews') :
                monitorNews'[i] = now \/ \E j \in 1..Len(monitorNews) : monitorNews'[i] = monitorNews[j]
      BY <1>5, LastTwoFacts DEF MappingTypes, now
    <2>5. MappingTypes'
      BY <1>5, <2>4 DEF MappingTypes
    <2>6. NewsRemembered'
      <3>1. \A i \in 1..Len(monitorNews') :
                /\ monitorNews'[i].epoch \in Nat /\ monitorNews'[i].epoch <= mappings'.epoch
                /\ monitorNews'[i].epoch = mappings'.epoch =>
                        monitorNews'[i].inventory = mappings'.inventory
        BY <2>1, <2>2, <2>3, <2>4 DEF NewsRemembered
      <3>2. /\ monitorsSeen'.epoch \in Nat /\ monitorsSeen'.epoch <= mappings'.epoch
            /\ monitorsSeen'.epoch = mappings'.epoch => monitorsSeen'.inventory = mappings'.inventory
        BY <1>5, <2>1 DEF NewsRemembered
      <3>3. confirming' # NoId =>
                /\ confirming'.seen.epoch \in Nat /\ confirming'.seen.epoch <= mappings'.epoch
                /\ confirming'.seen.epoch = mappings'.epoch =>
                        confirming'.seen.inventory = mappings'.inventory
        BY <1>5, <2>1 DEF NewsRemembered
      <3> QED BY <3>1, <3>2, <3>3 DEF NewsRemembered, Remembers
    <2> QED BY <2>5, <2>6
  <1>6. CASE RefreshMonitors
    <2>1. /\ RefreshFrom(mappings)
          /\ monitorNews' = monitorNews
             \/ monitorNews' = LastTwo(Append(monitorNews, News(mappings')))
          /\ UNCHANGED <<monitorsSeen, confirming, asserted>>
      BY <1>6 DEF RefreshMonitors
    <2>2. /\ topology' \in Nat /\ mappings'.epoch \in Nat
          /\ mappings' = [epoch |-> mappings'.epoch, inventory |-> mappings'.inventory,
                          aliases |-> mappings'.aliases]
          /\ \/ mappings' = mappings
             \/ mappings'.epoch = mappings.epoch + 1 /\ mappings'.aliases = Empty
          /\ RevisionsOnce'
      BY <2>1, RefreshFacts DEF MappingTypes
    <2>3. AliasesAsserted'
      <3>1. DOMAIN Empty = {}
        BY DEF Empty
      <3> QED BY <2>1, <2>2, <3>1 DEF AliasesAsserted
    <2> QED BY <1>5, <2>1, <2>2, <2>3
  <1>7. CASE Confirm
    <2> DEFINE device == confirming.device
               named == [mappings EXCEPT !.aliases = Inserted(@, device, confirming.alias)]
    <2>1. confirming # NoId /\ confirming' = NoId /\ UNCHANGED <<attached, monitorsSeen>>
      BY <1>7 DEF Confirm
    <2>2. CASE ~Confirmable(mappings, confirming)
      <3>1. UNCHANGED <<mappings, displays, topology, monitorNews, asserted, published>>
        BY <1>7, <2>2 DEF Confirm
      <3> QED BY <2>1, <3>1
              DEF MappingTypes, NewsRemembered, Remembers, AliasesAsserted, RevisionsOnce
    <2>3. CASE Confirmable(mappings, confirming)
      <3>1. confirming.seen.epoch = mappings.epoch /\ confirming.seen.inventory = mappings.inventory
        BY <2>1, <2>3 DEF Confirmable, NewsRemembered, Remembers
      <3>2. /\ asserted' = Inserted(asserted, device, confirming.seen.inventory)
            /\ \/ /\ RefreshFrom(named)
                  /\ monitorNews' = LastTwo(Append(monitorNews, News(mappings')))
               \/ mappings' = named /\ UNCHANGED <<displays, topology, monitorNews, published>>
        BY <1>7, <2>3 DEF Confirm
      <3> DEFINE aliases == Inserted(mappings.aliases, device, confirming.alias)
      <3>3. \A d \in DOMAIN aliases : d = device \/ d \in DOMAIN mappings.aliases
        BY DEF Inserted
      <3>4. /\ device \in DOMAIN asserted' /\ asserted'[device] = mappings.inventory
            /\ \A d \in DOMAIN mappings.aliases :
                    d \in DOMAIN asserted' /\ asserted'[d] = mappings.inventory
        <4>1. \A d \in DOMAIN mappings.aliases :
                    d \in DOMAIN asserted /\ asserted[d] = mappings.inventory
          BY DEF AliasesAsserted
        <4> QED BY <3>1, <3>2, <4>1 DEF Inserted
      <3> HIDE DEF device, aliases
      <3>5. named = [epoch |-> mappings.epoch, inventory |-> mappings.inventory, aliases |-> aliases]
        BY DEF MappingTypes, aliases
      <3>6. /\ named.epoch = mappings.epoch /\ named.inventory = mappings.inventory
            /\ named.aliases = aliases
            /\ named = [epoch |-> named.epoch, inventory |-> named.inventory,
                        aliases |-> named.aliases]
        BY <3>5
      <3> HIDE DEF named
      <3>7. /\ topology' \in Nat /\ mappings'.epoch \in Nat
            /\ mappings' = [epoch |-> mappings'.epoch, inventory |-> mappings'.inventory,
                            aliases |-> mappings'.aliases]
            /\ \/ mappings' = named
               \/ mappings'.epoch = mappings.epoch + 1 /\ mappings'.aliases = Empty
            /\ RevisionsOnce'
        <4>1. CASE RefreshFrom(named)
          BY <3>6, <4>1, RefreshFacts
        <4>2. CASE mappings' = named /\ UNCHANGED <<displays, topology, monitorNews, published>>
          BY <3>6, <4>2 DEF MappingTypes, RevisionsOnce
        <4> QED BY <3>2, <4>1, <4>2
      <3>8. AliasesAsserted'
        <4>1. DOMAIN Empty = {}
          BY DEF Empty
        <4>2. CASE mappings' = named
          <5>1. mappings'.inventory = mappings.inventory /\ mappings'.aliases = aliases
            BY <3>6, <4>2
          <5> QED BY <3>3, <3>4, <5>1 DEF AliasesAsserted
        <4> QED BY <3>7, <4>1, <4>2 DEF AliasesAsserted
      <3> QED BY <1>5, <2>1, <3>2, <3>6, <3>7, <3>8
    <2> QED BY <2>2, <2>3
  <1> QED BY <1>2, <1>3, <1>4, <1>6, <1>7 DEF MonitorsNext

\* An alias is in force only while the monitors are those of the inventory the user
\* confirmed it from, and a topology revision stands for one set of displays, however
\* monitors come and go and confirmations are delayed.
THEOREM MappingsAreSound == MonitorsSpec => []MappingsSound
  <1>1. MonitorsInit => MappingInv
    <2> SUFFICES ASSUME MonitorsInit PROVE MappingInv
      OBVIOUS
    <2>1. DOMAIN Empty = {} /\ Len(<<>>) = 0 /\ IsQueue(<<>>)
      BY EmptyQueue DEF Empty
    <2> QED BY <2>1 DEF MonitorsInit, MappingInv, MappingTypes, NewsRemembered, Remembers,
                        AliasesAsserted, RevisionsOnce
  <1>2. MappingInv /\ [MonitorsNext]_monitorVars => MappingInv'
    BY MappingInductive
  <1>3. MappingInv => MappingsSound
    BY DEF MappingInv, AliasesAsserted, RevisionsOnce, MappingsSound
  <1> QED BY <1>1, <1>2, <1>3, PTL DEF MonitorsSpec

-----------------------------------------------------------------------------
(* Status providers.                                                         *)

ProvidersSpec == ProvidersInit /\ [][ProvidersNext]_providerVars

Registration ==
    [session : Sessions, sequence : Nat, resources : SUBSET Resources,
     attention : BOOLEAN, connected : BOOLEAN]

Adapter ==
    [session : Sessions \cup {NoProvider}, sequence : Nat, grant : Nat,
     before : SUBSET (Sessions \cup {NoProvider})]

ProviderTypes ==
    /\ registry \in [Providers -> Registration \cup {NoProvider}]
    /\ evidence \in [Providers \X Resources -> Message \cup {NoProvider}]
    /\ adapter \in [Providers -> Adapter]
    /\ \A p \in Providers : adapter[p].sequence <= MaxSequence /\ adapter[p].grant <= MaxGrants
    /\ \A p \in Providers : adapter[p].session # NoProvider => adapter[p].grant > 0
    /\ wire \subseteq Message
    /\ time \in 0..MaxTime

\* What is known of a window was said under the grant its provider has now, and by
\* none of the messages it has yet to send.
EvidenceGranted ==
    \A e \in Providers \X Resources :
        evidence[e] # NoProvider =>
            /\ evidence[e].provider = e[1] /\ evidence[e].window = e[2]
            /\ registry[e[1]] \in Registration
            /\ evidence[e].window \in registry[e[1]].resources
            /\ evidence[e].attention => registry[e[1]].attention
            /\ evidence[e].sequence <= registry[e[1]].sequence

\* A message of a session that an adapter has for the first time was said under the
\* registration that holds.
WireSaid ==
    \A message \in wire :
        LET p == message.provider IN
        message.session \notin adapter[p].before =>
            message.session = adapter[p].session /\ message.grant = adapter[p].grant

\* Who is registered is who the adapter is, and what is known was sent in its session.
EvidenceSent ==
    /\ \A p \in Providers : registry[p] # NoProvider => registry[p].session = adapter[p].session
    /\ \A e \in Providers \X Resources : evidence[e] # NoProvider =>
            evidence[e] \in wire /\ evidence[e].session = adapter[e[1]].session

ProviderInv == ProviderTypes /\ EvidenceGranted /\ WireSaid /\ EvidenceSent

\* Nothing known gives way to something said earlier.
NeverOlder ==
    \A e \in DOMAIN evidence :
        evidence[e] # NoProvider /\ NewSession(e[1])
        => evidence'[e] \in {evidence[e], NoProvider} \/ SaidBefore(evidence[e], evidence'[e])

LEMMA MessageFacts ==
    ASSUME NEW message \in Message
    PROVE  /\ message.provider \in Providers /\ message.session \in Sessions
           /\ message.sequence \in Nat /\ message.window \in Resources
           /\ message.attention \in BOOLEAN /\ message.grant \in Nat
  BY ProviderAssumption DEF Message

LEMMA ProviderStep ==
    ASSUME ProviderInv, [ProvidersNext]_providerVars PROVE ProviderInv' /\ NeverOlder
  <1> USE DEF ProviderInv
  <1>0. \A e \in Providers \X Resources : e[1] \in Providers /\ e[2] \in Resources
    OBVIOUS
  <1>1. UNCHANGED evidence => NeverOlder
    BY DEF NeverOlder
  <1>2. CASE UNCHANGED providerVars
    BY <1>1, <1>2 DEF providerVars, ProviderTypes, EvidenceGranted, WireSaid, EvidenceSent
  <1>3. CASE Clock
    BY <1>1, <1>3 DEF Clock, ProviderTypes, EvidenceGranted, WireSaid, EvidenceSent
  <1>4. CASE Disconnected
    <2>1. PICK p \in Registered : /\ registry' = [registry EXCEPT ![p].connected = FALSE]
                                  /\ UNCHANGED <<evidence, adapter, wire, time>>
      BY <1>4 DEF Disconnected
    <2>2. p \in Providers /\ registry[p] \in Registration
      BY DEF Registered, ProviderTypes
    <2>3. /\ registry'[p] \in Registration
          /\ registry'[p].resources = registry[p].resources
          /\ registry'[p].attention = registry[p].attention
          /\ registry'[p].sequence = registry[p].sequence
          /\ registry'[p].session = registry[p].session
          /\ \A q \in Providers \ {p} : registry'[q] = registry[q]
          /\ registry' \in [Providers -> Registration \cup {NoProvider}]
      BY <2>1, <2>2 DEF ProviderTypes, Registration
    <2>4. ProviderTypes' /\ NeverOlder
      BY <1>1, <2>1, <2>3 DEF ProviderTypes
    <2>5. EvidenceGranted'
      <3>1. ASSUME NEW e \in Providers \X Resources, evidence[e] # NoProvider
            PROVE  /\ registry'[e[1]] \in Registration
                   /\ registry'[e[1]].resources = registry[e[1]].resources
                   /\ registry'[e[1]].attention = registry[e[1]].attention
                   /\ registry'[e[1]].sequence = registry[e[1]].sequence
        BY <1>0, <2>3, <3>1 DEF EvidenceGranted
      <3> QED BY <2>1, <3>1 DEF EvidenceGranted
    <2>6. WireSaid' /\ EvidenceSent'
      <3>1. registry[p] # NoProvider
        BY DEF Registered
      <3> QED BY <2>1, <2>2, <2>3, <3>1 DEF WireSaid, EvidenceSent
    <2> QED BY <2>4, <2>5, <2>6
  <1>5. CASE Send
    <2>1. PICK p \in Providers, w \in Resources, attention \in BOOLEAN :
            /\ adapter[p].session # NoProvider
            /\ adapter[p].sequence < MaxSequence
            /\ adapter' = [adapter EXCEPT ![p].sequence = @ + 1]
            /\ wire' = wire \cup {[provider |-> p, session |-> adapter[p].session,
                                   sequence |-> adapter'[p].sequence, window |-> w,
                                   observed |-> time, attention |-> attention,
                                   grant |-> adapter[p].grant]}
            /\ UNCHANGED <<registry, evidence, time>>
      BY <1>5 DEF Send
    <2>2. adapter[p] \in Adapter /\ MaxSequence \in Nat /\ MaxGrants \in Nat
      BY <2>1, ProviderAssumption DEF ProviderTypes
    <2>3. /\ adapter'[p].session = adapter[p].session /\ adapter'[p].grant = adapter[p].grant
          /\ adapter'[p].before = adapter[p].before
          /\ adapter'[p].sequence = adapter[p].sequence + 1
          /\ \A q \in Providers \ {p} : adapter'[q] = adapter[q]
          /\ adapter' \in [Providers -> Adapter]
      BY <2>1, <2>2 DEF ProviderTypes, Adapter
    <2>4. /\ adapter'[p].sequence \in 1..MaxSequence
          /\ adapter[p].session \in Sessions /\ adapter[p].grant \in 1..MaxGrants
      BY <2>1, <2>2, <2>3 DEF ProviderTypes, Adapter
    <2> DEFINE said == [provider |-> p, session |-> adapter[p].session,
                        sequence |-> adapter'[p].sequence, window |-> w,
                        observed |-> time, attention |-> attention,
                        grant |-> adapter[p].grant]
    <2>5. /\ said \in Message /\ said.provider = p
          /\ said.session = adapter[p].session /\ said.grant = adapter[p].grant
      BY <2>1, <2>4 DEF ProviderTypes, Message
    <2> HIDE DEF said
    <2>6. wire' = wire \cup {said}
      BY <2>1 DEF said
    <2>7. \A q \in Providers : /\ adapter'[q].session = adapter[q].session
                               /\ adapter'[q].grant = adapter[q].grant
                               /\ adapter'[q].before = adapter[q].before
                               /\ adapter'[q].sequence <= MaxSequence
      BY <2>2, <2>3, <2>4 DEF ProviderTypes
    <2>8. ProviderTypes'
      BY <2>1, <2>3, <2>5, <2>6, <2>7 DEF ProviderTypes
    <2>9. WireSaid'
      <3> SUFFICES ASSUME NEW message \in wire', message.session \notin adapter'[message.provider].before
                   PROVE  /\ message.session = adapter'[message.provider].session
                          /\ message.grant = adapter'[message.provider].grant
        BY DEF WireSaid
      <3>1. CASE message = said
        BY <2>5, <2>7, <3>1
      <3>2. CASE message \in wire
        <4>1. message.provider \in Providers
          BY <3>2, MessageFacts DEF ProviderTypes
        <4> QED BY <2>7, <3>2, <4>1 DEF WireSaid
      <3> QED BY <2>6, <3>1, <3>2
    <2>10. EvidenceSent' /\ EvidenceGranted'
      BY <1>0, <2>1, <2>6, <2>7 DEF EvidenceSent, EvidenceGranted
    <2> QED BY <1>1, <2>1, <2>8, <2>9, <2>10
  <1>6. CASE Register
    <2>1. PICK p \in Providers, session \in Sessions, granted \in SUBSET Resources, may \in BOOLEAN :
            /\ adapter[p].grant < MaxGrants
            /\ registry' = [registry EXCEPT ![p] =
                    [session |-> session, sequence |-> 0, resources |-> granted,
                     attention |-> may, connected |-> TRUE]]
            /\ evidence' = [e \in Providers \X Resources |->
                    IF e[1] = p THEN NoProvider ELSE evidence[e]]
            /\ adapter' = [adapter EXCEPT ![p] =
                    [session |-> session, sequence |-> 0, grant |-> @.grant + 1,
                     before |-> @.before \cup {@.session}]]
            /\ UNCHANGED <<wire, time>>
      BY <1>6 DEF Register
    <2>2. registry' \in [Providers -> Registration \cup {NoProvider}]
          /\ registry'[p].session = session
          /\ \A q \in Providers \ {p} : registry'[q] = registry[q]
      BY <2>1 DEF ProviderTypes, Registration
    <2>3. /\ MaxSequence \in Nat /\ 0 <= MaxSequence /\ MaxGrants \in Nat
          /\ adapter[p] \in Adapter /\ session # NoProvider
      BY ProviderAssumption DEF ProviderTypes
    <2> DEFINE anew == [session |-> session, sequence |-> 0, grant |-> adapter[p].grant + 1,
                        before |-> adapter[p].before \cup {adapter[p].session}]
    <2>4. /\ anew \in Adapter /\ anew.session = session /\ anew.sequence = 0
          /\ anew.grant = adapter[p].grant + 1
          /\ anew.before = adapter[p].before \cup {adapter[p].session}
      BY <2>3 DEF Adapter
    <2>5. adapter' = [adapter EXCEPT ![p] = anew]
      BY <2>1
    <2> HIDE DEF anew
    <2>6. /\ adapter' \in [Providers -> Adapter] /\ adapter'[p] = anew
          /\ \A q \in Providers \ {p} : adapter'[q] = adapter[q]
      BY <2>4, <2>5 DEF ProviderTypes
    <2>7. evidence' \in [Providers \X Resources -> Message \cup {NoProvider}]
      BY <2>1 DEF ProviderTypes
    <2>8. ProviderTypes'
      <3>1. adapter[p].grant \in Nat /\ anew.grant <= MaxGrants /\ anew.grant > 0
        BY <2>1, <2>3, <2>4 DEF Adapter
      <3>2. \A q \in Providers : /\ adapter'[q].sequence <= MaxSequence
                                 /\ adapter'[q].grant <= MaxGrants
                                 /\ adapter'[q].session # NoProvider => adapter'[q].grant > 0
        BY <2>3, <2>4, <2>6, <3>1 DEF ProviderTypes
      <3> QED BY <2>1, <2>2, <2>6, <2>7, <3>2 DEF ProviderTypes
    <2>9. EvidenceGranted'
      BY <1>0, <2>1, <2>2 DEF EvidenceGranted
    <2>10. WireSaid'
      <3> SUFFICES ASSUME NEW message \in wire, message.session \notin adapter'[message.provider].before
                   PROVE  /\ message.session = adapter'[message.provider].session
                          /\ message.grant = adapter'[message.provider].grant
        BY <2>1 DEF WireSaid
      <3>1. message.provider \in Providers
        BY MessageFacts DEF ProviderTypes
      <3>2. CASE message.provider = p
        BY <2>4, <2>6, <3>2 DEF WireSaid
      <3>3. CASE message.provider # p
        BY <2>6, <3>1, <3>3 DEF WireSaid
      <3> QED BY <3>2, <3>3
    <2>11. EvidenceSent'
      <3>1. \A q \in Providers : registry'[q] # NoProvider => registry'[q].session = adapter'[q].session
        BY <2>2, <2>4, <2>6 DEF EvidenceSent
      <3>2. ASSUME NEW e \in Providers \X Resources, evidence'[e] # NoProvider
            PROVE  evidence'[e] \in wire' /\ evidence'[e].session = adapter'[e[1]].session
        <4>1. e[1] # p /\ evidence'[e] = evidence[e]
          BY <2>1, <3>2
        <4> QED BY <1>0, <2>1, <2>6, <3>2, <4>1 DEF EvidenceSent
      <3> QED BY <3>1, <3>2 DEF EvidenceSent
    <2>12. NeverOlder
      <3>1. \A e \in Providers \X Resources : evidence'[e] \in {evidence[e], NoProvider}
        BY <2>1
      <3> QED BY <3>1 DEF NeverOlder, ProviderTypes
    <2> QED BY <2>8, <2>9, <2>10, <2>11, <2>12
  <1>7. CASE Accept
    <2>1. PICK message \in wire :
            /\ Acceptable(message)
            /\ registry' = [registry EXCEPT ![message.provider].sequence = message.sequence]
            /\ evidence' = [evidence EXCEPT ![<<message.provider, message.window>>] = message]
            /\ UNCHANGED <<adapter, wire, time>>
      BY <1>7 DEF Accept
    <2> DEFINE p == message.provider
               w == message.window
               place == <<p, w>>
    <2>2. /\ message \in Message /\ p \in Providers /\ w \in Resources /\ message.sequence \in Nat
          /\ place \in Providers \X Resources /\ place[1] = p /\ place[2] = w
      BY MessageFacts DEF ProviderTypes
    <2>3. /\ registry[p] \in Registration /\ message.sequence > registry[p].sequence
          /\ w \in registry[p].resources
          /\ message.attention => registry[p].attention
      BY <2>1, <2>2 DEF Acceptable, ProviderTypes
    <2> HIDE DEF p, w, place
    <2>4. /\ registry'[p] \in Registration
          /\ registry'[p].resources = registry[p].resources
          /\ registry'[p].attention = registry[p].attention
          /\ registry'[p].sequence = message.sequence
          /\ registry'[p].session = registry[p].session
          /\ \A q \in Providers \ {p} : registry'[q] = registry[q]
          /\ registry' \in [Providers -> Registration \cup {NoProvider}]
      BY <2>1, <2>2, <2>3 DEF ProviderTypes, Registration, p
    <2>5. /\ evidence'[place] = message
          /\ \A e \in Providers \X Resources : e # place => evidence'[e] = evidence[e]
          /\ evidence' \in [Providers \X Resources -> Message \cup {NoProvider}]
      BY <2>1, <2>2 DEF ProviderTypes, place, p, w
    <2>6. message.provider = p /\ message.window = w
      BY DEF p, w
    <2>7. ProviderTypes'
      BY <2>1, <2>4, <2>5 DEF ProviderTypes
    <2>8. \A e \in Providers \X Resources : evidence[e] # NoProvider /\ e[1] = p =>
            evidence[e].sequence \in Nat /\ evidence[e].sequence <= registry[p].sequence
      BY MessageFacts DEF EvidenceGranted, ProviderTypes
    <2>9. registry[p].sequence \in Nat
      BY <2>3 DEF Registration
    <2>10. ASSUME NEW e \in Providers \X Resources, evidence'[e] # NoProvider
           PROVE  /\ evidence'[e].provider = e[1] /\ evidence'[e].window = e[2]
                  /\ registry'[e[1]] \in Registration
                  /\ evidence'[e].window \in registry'[e[1]].resources
                  /\ evidence'[e].attention => registry'[e[1]].attention
                  /\ evidence'[e].sequence <= registry'[e[1]].sequence
      <3>1. CASE e = place
        BY <2>2, <2>3, <2>4, <2>5, <2>6, <3>1
      <3>2. CASE e # place /\ e[1] # p
        BY <1>0, <2>4, <2>5, <2>10, <3>2 DEF EvidenceGranted
      <3>3. CASE e # place /\ e[1] = p
        <4>1. evidence'[e] = evidence[e] /\ evidence[e] # NoProvider
          BY <2>5, <2>10, <3>3
        <4>2. evidence[e].sequence <= registry'[p].sequence
          BY <2>2, <2>3, <2>4, <2>8, <2>9, <3>3, <4>1
        <4> QED BY <2>4, <3>3, <4>1, <4>2 DEF EvidenceGranted
      <3> QED BY <3>1, <3>2, <3>3
    <2>11. NeverOlder
      <3> SUFFICES ASSUME NEW e \in Providers \X Resources, evidence[e] # NoProvider,
                          NewSession(e[1]), evidence'[e] # evidence[e]
                   PROVE  SaidBefore(evidence[e], evidence'[e])
        BY DEF NeverOlder, ProviderTypes
      <3>1. e = place /\ e[1] = p /\ evidence'[e] = message
        BY <2>2, <2>5
      <3>2. evidence[e].provider = p /\ evidence[e] \in wire
            /\ evidence[e].session = adapter[p].session
        BY <3>1 DEF EvidenceGranted, EvidenceSent
      <3>3. message.session = adapter[p].session
        BY <2>1, <2>2 DEF Acceptable, EvidenceSent, p
      <3>4. adapter[p].session \notin adapter[p].before
        BY <3>1 DEF NewSession
      <3>5. evidence[e].grant = adapter[p].grant /\ message.grant = adapter[p].grant
        BY <2>1, <2>6, <3>2, <3>3, <3>4 DEF WireSaid
      <3>6. evidence[e].sequence \in Nat /\ evidence[e].sequence <= registry[p].sequence
        BY <2>8, <3>1
      <3> QED BY <2>2, <2>3, <2>9, <3>1, <3>5, <3>6 DEF SaidBefore
    <2>12. WireSaid'
      BY <2>1 DEF WireSaid
    <2>13. EvidenceSent'
      <3>1. message.session = adapter[p].session
        BY <2>1, <2>2 DEF Acceptable, EvidenceSent, p
      <3>2. ASSUME NEW e \in Providers \X Resources, evidence'[e] # NoProvider
            PROVE  evidence'[e] \in wire' /\ evidence'[e].session = adapter'[e[1]].session
        BY <2>1, <2>2, <2>5, <3>1, <3>2 DEF EvidenceSent
      <3>3. registry[p] # NoProvider
        BY <2>1 DEF Acceptable, p
      <3>4. \A q \in Providers : registry'[q] # NoProvider => registry'[q].session = adapter'[q].session
        BY <2>1, <2>2, <2>4, <3>3 DEF EvidenceSent
      <3> QED BY <3>2, <3>4 DEF EvidenceSent
    <2> QED BY <2>7, <2>10, <2>11, <2>12, <2>13 DEF EvidenceGranted
  <1> QED BY <1>2, <1>3, <1>4, <1>5, <1>6, <1>7 DEF ProvidersNext

\* What asks for attention is granted now.  While adapters have a new session for every
\* registration, what is known was said under the registration that holds and gives way
\* only to what the adapter said later, in whatever order, and however often, messages
\* arrive (ProviderRegistry::register, accept).
THEOREM EvidenceIsSound == ProvidersSpec => EvidenceSound
  <1>1. ProvidersInit => ProviderInv
    <2> SUFFICES ASSUME ProvidersInit PROVE ProviderInv
      OBVIOUS
    <2>1. {MaxTime, MaxSequence, MaxGrants} \subseteq Nat
      BY ProviderAssumption
    <2> DEFINE first == [session |-> NoProvider, sequence |-> 0, grant |-> 0, before |-> {}]
    <2>2. first \in Adapter /\ first.session = NoProvider /\ first.sequence = 0 /\ first.grant = 0
      BY DEF Adapter
    <2>3. adapter = [p \in Providers |-> first]
      BY DEF ProvidersInit
    <2> HIDE DEF first
    <2>4. /\ adapter \in [Providers -> Adapter]
          /\ \A p \in Providers : /\ adapter[p].session = NoProvider
                                  /\ adapter[p].sequence <= MaxSequence
                                  /\ adapter[p].grant <= MaxGrants
      BY <2>1, <2>2, <2>3
    <2>5. /\ registry = [p \in Providers |-> NoProvider] /\ evidence = Nothing
          /\ wire = {} /\ time = 0
      BY DEF ProvidersInit
    <2>6. ProviderTypes
      BY <2>1, <2>4, <2>5 DEF ProviderTypes, Nothing
    <2>7. EvidenceGranted /\ WireSaid /\ EvidenceSent
      BY <2>5 DEF EvidenceGranted, WireSaid, EvidenceSent, Nothing
    <2> QED BY <2>6, <2>7 DEF ProviderInv
  <1>2. ProviderInv /\ [ProvidersNext]_providerVars => ProviderInv'
    BY ProviderStep
  <1>3. ProviderInv /\ [ProvidersNext]_providerVars => [NeverOlder]_providerVars
    BY ProviderStep
  <1>4. ProviderInv => ShownIsGranted
    <2> SUFFICES ASSUME ProviderInv, NEW message \in Attention
                 PROVE  /\ message.window \in registry[message.provider].resources
                        /\ registry[message.provider].attention
      BY DEF ShownIsGranted
    <2>1. PICK e \in Providers \X Resources :
            evidence[e] = message /\ message # NoProvider /\ message.attention
      BY DEF Attention, ProviderInv, ProviderTypes
    <2> QED BY <2>1 DEF ProviderInv, EvidenceGranted
  <1>5. ProviderInv => KnownIsCurrent
    <2> SUFFICES ASSUME ProviderInv, NEW e \in Providers \X Resources, evidence[e] # NoProvider,
                        NewSession(e[1])
                 PROVE  evidence[e].grant = adapter[e[1]].grant
      BY DEF KnownIsCurrent, ProviderInv, ProviderTypes
    <2> QED BY DEF ProviderInv, EvidenceGranted, EvidenceSent, WireSaid, NewSession
  <1>6. ProvidersSpec => []ShownIsGranted /\ []KnownIsCurrent /\ [][NeverOlder]_providerVars
    BY <1>1, <1>2, <1>3, <1>4, <1>5, PTL DEF ProvidersSpec
  <1> QED BY <1>6 DEF EvidenceSound, NeverOlder
=============================================================================
