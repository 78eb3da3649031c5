------------------------- MODULE TransitionWorkerProofs -------------------------
(***************************************************************************)
(* That the worker keeps what slots own in agreement with what they show,   *)
(* commits only from fresh authority and in place, and implements            *)
(* SlotOwnership, for every set of windows, slots and views.  The inductive   *)
(* invariant is WorkerInv.                                                   *)
(***************************************************************************)
EXTENDS TransitionPlannerProofs, QueueLemmas, FiniteSetTheorems

-----------------------------------------------------------------------------
(* The inductive invariant.                                                  *)

Kinds == {"preview", "apply", "pause", "recover", "shutdown", "undo", "bind",
          "protect", "supersede"}

\* A command carries what its handler reads.
SoundCommand(c) ==
    /\ c.kind \in Kinds
    /\ c.kind = "preview" => c.request \in Requests
    /\ c.kind = "apply" => DOMAIN c = {"kind", "plan", "overtaken"} /\ PlanSound(c.plan)
    /\ c.kind = "pause" => c.value \in BOOLEAN
    /\ c.kind = "undo" => c.id \in Nat
    /\ c.kind = "bind" => c.window \in Windows

QueueSound(q) == IsQueue(q) /\ \A c \in Range(q) : SoundCommand(c)

\* The plans that applications of a queue carry.
PlansOf(q) == {c.plan : c \in {x \in Range(q) : x.kind = "apply"}}

\* Every plan that may still be carried out: held by a client, sent, or under way.
Known == held \cup PlansOf(channel) \cup PlansOf(pending)
              \cup (IF phase = "settling" THEN {cur.plan} ELSE {})

\* None of them is unsound, or takes a slot for unchanged that has changed.
PlansHold == \A p \in Known : PlanSound(p) /\ PlanTimely(p)

\* Nor is any record of the undo history.
RecordsHold ==
    /\ IsQueue(undo)
    /\ \A i \in DOMAIN undo : RecordSound(undo[i]) /\ RecordTimely(undo[i])

QueuesHold == QueueSound(channel) /\ QueueSound(pending)

RuntimeTypes ==
    /\ claims \in [Windows -> Slots \cup {None}]
    /\ Presents(presentations) /\ DOMAIN presentations = Slots
    /\ generations \in [Slots -> Nat]
    /\ suspended \subseteq Slots
    /\ paused \in BOOLEAN
    /\ completed \subseteq Nat /\ IsFiniteSet(completed)
    /\ Cardinality(completed) <= CompletedLimit

ScreenTypes ==
    /\ topology \in Nat
    /\ life \in [Windows -> Nat]
    /\ alive \in [Windows -> BOOLEAN]
    /\ at \in [Windows -> Places]
    /\ visible \in [Windows -> BOOLEAN]
    /\ posted \in [Windows -> Seq(Mutation)]

ClientTypes == sent \in Nat /\ repertoire \in Scripts

WorkTypes ==
    /\ phase \in {"idle", "settling", "stopped"}
    /\ phase # "settling" => cur = NoPlan
    /\ phase = "settling" =>
         DOMAIN cur = {"plan", "overtaken"} /\ superseded \subseteq cur.plan.scope
    /\ Len(undo) <= UndoLimit
    /\ undoing \in Nat \cup {None}
    /\ gestures \subseteq Handles

\* Urgent commands are set aside before the others, and end the transition.
UrgentFirst ==
    /\ \A i, j \in DOMAIN pending : i < j /\ Urgent(pending[j]) => Urgent(pending[i])
    /\ phase = "settling" /\ (\E i \in DOMAIN pending : Urgent(pending[i]))
        => superseded = cur.plan.scope

\* The slot of a window that the user holds is superseded.
HandsOff ==
    phase = "settling" => \A g \in gestures :
        g[1] \in DOMAIN cur.plan.desired => cur.plan.desired[g[1]] \in superseded

WorkerInv ==
    /\ RuntimeTypes /\ ScreenTypes /\ ClientTypes /\ WorkTypes
    /\ OwnershipCoherent
    /\ PlansHold
    /\ QueuesHold
    /\ RecordsHold
    /\ UrgentFirst
    /\ HandsOff

LEMMA InvTypes == ASSUME WorkerInv PROVE TypeOK
  <1>1. RuntimeTypes /\ ScreenTypes /\ ClientTypes /\ WorkTypes /\ PlansHold /\ RecordsHold
    BY DEF WorkerInv
  <1>2. /\ \A plan \in held : IsPlan(plan)
        /\ phase = "settling" => IsPlan(cur.plan)
    BY <1>1 DEF PlansHold, Known, PlanSound
  <1>3. \A i \in DOMAIN undo : IsRecord(undo[i])
    BY <1>1 DEF RecordsHold, RecordSound
  <1> QED BY <1>1, <1>2, <1>3 DEF TypeOK, RuntimeTypes, ScreenTypes, WorkTypes

LEMMA InvWorld == ASSUME WorkerInv PROVE World
  BY DEF WorkerInv, RuntimeTypes, ScreenTypes, World

\* Generations grow, and while one stays its slot shows what it did.
Advances ==
    \A s \in Slots :
        /\ generations[s] \in Nat /\ generations'[s] \in Nat
        /\ generations[s] <= generations'[s]
        /\ generations'[s] = generations[s] => presentations'[s] = presentations[s]

LEMMA TimelyStays ==
    ASSUME Advances, NEW slots \in SUBSET Slots, NEW gens \in [slots -> Nat], NEW base,
           Timely(slots, gens, base)
    PROVE  Timely(slots, gens, base)'
  <1> SUFFICES ASSUME NEW s \in slots
               PROVE  /\ gens[s] <= generations'[s]
                      /\ gens[s] = generations'[s] => presentations'[s] = base[s]
    BY DEF Timely
  <1>1. /\ gens[s] \in Nat /\ generations[s] \in Nat /\ generations'[s] \in Nat
        /\ gens[s] <= generations[s] /\ generations[s] <= generations'[s]
        /\ gens[s] = generations[s] => presentations[s] = base[s]
        /\ generations'[s] = generations[s] => presentations'[s] = presentations[s]
    BY DEF Timely, Advances
  <1>2. gens[s] <= generations'[s]
    BY <1>1
  <1>3. ASSUME gens[s] = generations'[s] PROVE presentations'[s] = base[s]
    <2>1. gens[s] = generations[s] /\ generations'[s] = generations[s]
      BY <1>1, <1>3
    <2> QED BY <1>1, <2>1
  <1> QED BY <1>2, <1>3

LEMMA PlanStays ==
    ASSUME Advances, NEW p, PlanSound(p), PlanTimely(p)
    PROVE  PlanTimely(p)'
  <1>1. /\ p.scope \in SUBSET Slots /\ p.generations \in [p.scope -> Nat]
    BY DEF PlanSound, IsPlan, Partial
  <1>2. Timely(p.scope, p.generations, p.base)'
    BY <1>1, TimelyStays DEF PlanTimely
  <1> QED BY <1>2 DEF PlanTimely

LEMMA RecordStays ==
    ASSUME Advances, NEW r, RecordSound(r), RecordTimely(r)
    PROVE  RecordTimely(r)'
  <1>1. /\ r.plan.scope \in SUBSET Slots /\ r.generations \in [r.plan.scope -> Nat]
    BY DEF RecordSound, IsRecord, IsPlan, Partial
  <1>2. Timely(r.plan.scope, r.generations, r.plan.presentations)'
    BY <1>1, TimelyStays DEF RecordTimely
  <1> QED BY <1>2 DEF RecordTimely

LEMMA OvertakenFacts ==
    ASSUME NEW q, QueueSound(q), NEW scope
    PROVE  LET r == Overtaken(q, scope) IN
           /\ QueueSound(r) /\ DOMAIN r = DOMAIN q
           /\ PlansOf(r) \subseteq PlansOf(q)
           /\ \A i \in DOMAIN q : Urgent(r[i]) <=> Urgent(q[i])
  <1> DEFINE r == Overtaken(q, scope)
  <1>1. Len(q) \in Nat /\ DOMAIN q = 1..Len(q) /\ IsQueue(q)
    BY QueueFacts DEF QueueSound
  <1>2. DOMAIN r = DOMAIN q
        /\ \A i \in DOMAIN q :
              r[i] = IF q[i].kind = "apply" THEN [q[i] EXCEPT !.overtaken = @ \cup scope]
                     ELSE q[i]
    BY DEF Overtaken
  <1>3. r = [i \in 1..Len(q) |-> r[i]]
    BY <1>1 DEF Overtaken
  <1> HIDE DEF r
  <1>4. ASSUME NEW i \in DOMAIN q
        PROVE  /\ SoundCommand(r[i]) /\ r[i].kind = q[i].kind
               /\ q[i].kind = "apply" => r[i].plan = q[i].plan
               /\ Urgent(r[i]) <=> Urgent(q[i])
    <2>1. SoundCommand(q[i])
      BY <1>1 DEF QueueSound, Range
    <2>2. CASE q[i].kind = "apply"
      <3>1. DOMAIN q[i] = {"kind", "plan", "overtaken"} /\ PlanSound(q[i].plan)
        BY <2>1, <2>2 DEF SoundCommand
      <3>2. r[i] = [q[i] EXCEPT !.overtaken = @ \cup scope]
        BY <1>2, <2>2
      <3>3. /\ DOMAIN r[i] = {"kind", "plan", "overtaken"}
            /\ r[i].kind = "apply" /\ r[i].plan = q[i].plan
        BY <2>2, <3>1, <3>2
      <3>4. SoundCommand(r[i])
        BY <3>1, <3>3 DEF SoundCommand, Kinds
      <3> QED BY <2>2, <3>3, <3>4 DEF Urgent
    <2>3. CASE q[i].kind # "apply"
      BY <1>2, <2>1, <2>3
    <2> QED BY <2>2, <2>3
  <1>5. IsQueue(r)
    <2>1. r \in [1..Len(q) -> Range(r)]
      BY <1>1, <1>2, <1>3 DEF Range
    <2>2. r \in Seq(Range(r))
      BY <1>1, <2>1, SeqDef
    <2> QED BY <2>2 DEF IsQueue
  <1>6. QueueSound(r)
    BY <1>2, <1>4, <1>5 DEF QueueSound, Range
  <1>7. PlansOf(r) \subseteq PlansOf(q)
    BY <1>2, <1>4 DEF PlansOf, Range
  <1> QED BY <1>2, <1>4, <1>6, <1>7 DEF r

-----------------------------------------------------------------------------
(* What several actions have in common.                                      *)

\* Where neither the runtime nor the lifetimes of windows change.
LEMMA StillInv ==
    ASSUME WorkerInv, UNCHANGED <<runtime, life>>
    PROVE  Advances /\ RuntimeTypes' /\ OwnershipCoherent'
  <1> USE DEF runtime
  <1>1. Advances
    BY DEF Advances, WorkerInv, RuntimeTypes
  <1>2. OwnershipCoherent'
    BY DEF WorkerInv, OwnershipCoherent
  <1>3. RuntimeTypes'
    BY DEF WorkerInv, RuntimeTypes
  <1> QED BY <1>1, <1>2, <1>3

LEMMA ScreenStays ==
    ASSUME ScreenTypes, UNCHANGED <<screen, topology, posted>> PROVE ScreenTypes'
  BY DEF ScreenTypes, screen

LEMMA RecordsStay ==
    ASSUME WorkerInv, Advances, UNCHANGED undo PROVE RecordsHold'
  BY RecordStays DEF WorkerInv, RecordsHold

LEMMA KnownStays ==
    ASSUME WorkerInv, Advances,
           \A p \in Known' : p \in Known \/ (PlanSound(p) /\ PlanTimely(p)')
    PROVE  PlansHold'
  <1> SUFFICES ASSUME NEW p \in Known' PROVE PlanSound(p) /\ PlanTimely(p)'
    BY DEF PlansHold
  <1>1. p \in Known => PlanSound(p) /\ PlanTimely(p)
    BY DEF WorkerInv, PlansHold
  <1> QED BY <1>1, PlanStays

-----------------------------------------------------------------------------
(* Clients.                                                                  *)

LEMMA SendGood ==
    ASSUME WorkerInv, NEW command, SoundCommand(command), Send(command),
           command.kind = "apply" => command.plan \in held,
           held' \subseteq held, UNCHANGED <<cur, superseded>>
    PROVE  WorkerInv'
  <1> USE DEF screen, native, history
  <1>1. UNCHANGED <<runtime, screen, topology, native, repertoire, pending, phase,
                    refused, history, gestures>>
        /\ channel' = Append(channel, command) /\ sent' \in Nat
    BY DEF Send, WorkerInv, ClientTypes
  <1>2. Advances /\ RuntimeTypes' /\ OwnershipCoherent' /\ RecordsHold'
    BY <1>1, StillInv, RecordsStay
  <1>3. Range(channel') = Range(channel) \cup {command} /\ IsQueue(channel')
    BY <1>1, AppendFacts DEF WorkerInv, QueuesHold, QueueSound
  <1>4. QueuesHold'
    BY <1>1, <1>3 DEF WorkerInv, QueuesHold, QueueSound
  <1>5. PlansOf(channel') \subseteq PlansOf(channel) \cup held
    BY <1>3 DEF PlansOf
  <1>6. PlansOf(pending') = PlansOf(pending)
    BY <1>1
  <1>7. Known' \subseteq Known
    BY <1>1, <1>5, <1>6 DEF Known
  <1>8. PlansHold'
    BY <1>2, <1>7, KnownStays
  <1>9. ScreenTypes' /\ ClientTypes' /\ WorkTypes'
    BY <1>1, ScreenStays DEF WorkerInv, ClientTypes, WorkTypes
  <1>10. UrgentFirst' /\ HandsOff'
    BY <1>1 DEF WorkerInv, UrgentFirst, HandsOff
  <1> QED BY <1>2, <1>4, <1>8, <1>9, <1>10 DEF WorkerInv

LEMMA ClientGood ==
    ASSUME WorkerAssumption, WorkerInv, ClientStep PROVE WorkerInv'
  <1>1. CASE SendPreview
    <2>1. PICK targets \in repertoire.requests, mode \in repertoire.modes,
               id \in completed \cup {sent + 1} :
            /\ Send([kind |-> "preview",
                     request |-> [id |-> id, mode |-> mode, targets |-> targets]])
            /\ UNCHANGED <<held, cur, superseded>>
      BY <1>1 DEF SendPreview
    <2>2. id \in Nat /\ IsScript(repertoire)
      BY DEF WorkerInv, RuntimeTypes, ClientTypes, WorkerAssumption
    <2>3. [id |-> id, mode |-> mode, targets |-> targets] \in Requests
      BY <2>2 DEF Requests, Request, IsScript
    <2>4. SoundCommand([kind |-> "preview",
                        request |-> [id |-> id, mode |-> mode, targets |-> targets]])
      BY <2>3 DEF SoundCommand, Kinds
    <2> QED BY <2>1, <2>4, SendGood
  <1>2. CASE SendApply
    <2>1. PICK plan \in held :
            /\ Send([kind |-> "apply", plan |-> plan, overtaken |-> {}])
            /\ held' = held \ {plan} /\ UNCHANGED <<cur, superseded>>
      BY <1>2 DEF SendApply
    <2>2. PlanSound(plan)
      BY DEF WorkerInv, PlansHold, Known
    <2>3. SoundCommand([kind |-> "apply", plan |-> plan, overtaken |-> {}])
      BY <2>2 DEF SoundCommand, Kinds
    <2> QED BY <2>1, <2>3, SendGood
  <1>3. CASE SendPause
    <2>1. PICK value \in BOOLEAN :
            Send([kind |-> "pause", value |-> value]) /\ UNCHANGED <<held, cur, superseded>>
      BY <1>3 DEF SendPause
    <2>2. SoundCommand([kind |-> "pause", value |-> value])
      BY DEF SoundCommand, Kinds
    <2> QED BY <2>1, <2>2, SendGood
  <1>4. CASE SendSimple
    <2>1. PICK kind \in {"recover", "shutdown"} :
            Send([kind |-> kind]) /\ UNCHANGED <<held, cur, superseded>>
      BY <1>4 DEF SendSimple
    <2>2. SoundCommand([kind |-> kind])
      BY DEF SoundCommand, Kinds
    <2> QED BY <2>1, <2>2, SendGood
  <1>5. CASE SendUndo
    <2>1. SoundCommand([kind |-> "undo", id |-> sent + 1])
      BY DEF SoundCommand, Kinds, WorkerInv, ClientTypes
    <2> QED BY <1>5, <2>1, SendGood DEF SendUndo
  <1>6. CASE SendBind
    <2>1. PICK w \in Windows :
            Send([kind |-> "bind", window |-> w]) /\ UNCHANGED <<held, cur, superseded>>
      BY <1>6 DEF SendBind
    <2>2. SoundCommand([kind |-> "bind", window |-> w])
      BY DEF SoundCommand, Kinds
    <2> QED BY <2>1, <2>2, SendGood
  <1>7. CASE SendProtect
    <2>1. PICK s \in Slots :
            Send([kind |-> "protect", slot |-> s]) /\ UNCHANGED <<held, cur, superseded>>
      BY <1>7 DEF SendProtect
    <2>2. SoundCommand([kind |-> "protect", slot |-> s])
      BY DEF SoundCommand, Kinds
    <2> QED BY <2>1, <2>2, SendGood
  <1>8. CASE SendSupersede
    <2> USE DEF screen, native, history
    <2>1. PICK scope : /\ channel' = Append(Overtaken(channel, scope),
                                           [kind |-> "supersede", scope |-> scope])
                       /\ pending' = Overtaken(pending, scope)
                       /\ cur' = IF phase = "settling"
                                 THEN [cur EXCEPT !.overtaken = @ \cup scope] ELSE cur
      BY <1>8 DEF SendSupersede
    <2>2. /\ UNCHANGED <<runtime, screen, topology, native, repertoire, held, phase,
                         refused, superseded, history, gestures>>
          /\ sent' \in Nat
      BY <1>8 DEF SendSupersede, WorkerInv, ClientTypes
    <2>3. phase = "settling" => cur'.plan = cur.plan /\ DOMAIN cur' = {"plan", "overtaken"}
      BY <2>1 DEF WorkerInv, WorkTypes
    <2>4. Advances /\ RuntimeTypes' /\ OwnershipCoherent' /\ RecordsHold'
      BY <2>2, StillInv, RecordsStay
    <2> DEFINE q == Overtaken(channel, scope)
               command == [kind |-> "supersede", scope |-> scope]
    <2>5. /\ QueueSound(q) /\ PlansOf(q) \subseteq PlansOf(channel)
          /\ QueueSound(pending') /\ DOMAIN pending' = DOMAIN pending
          /\ PlansOf(pending') \subseteq PlansOf(pending)
          /\ \A i \in DOMAIN pending : Urgent(pending'[i]) <=> Urgent(pending[i])
      BY <2>1, OvertakenFacts DEF WorkerInv, QueuesHold
    <2>6. SoundCommand(command) /\ command.kind # "apply"
      BY DEF SoundCommand, Kinds
    <2> HIDE DEF q, command
    <2>7. IsQueue(channel') /\ Range(channel') = Range(q) \cup {command}
      BY <2>1, <2>5, AppendFacts DEF QueueSound, q, command
    <2>8. QueuesHold'
      BY <2>5, <2>6, <2>7 DEF QueuesHold, QueueSound
    <2>9. PlansOf(channel') \subseteq PlansOf(channel)
      BY <2>5, <2>6, <2>7 DEF PlansOf
    <2>10. Known' \subseteq Known
      BY <2>2, <2>3, <2>5, <2>9 DEF Known
    <2>11. PlansHold'
      BY <2>4, <2>10, KnownStays
    <2>12. ScreenTypes' /\ ClientTypes' /\ WorkTypes'
      BY <2>1, <2>2, <2>3, ScreenStays DEF WorkerInv, ClientTypes, WorkTypes
    <2>13. UrgentFirst'
      BY <2>2, <2>3, <2>5 DEF WorkerInv, UrgentFirst
    <2>14. HandsOff'
      BY <2>2, <2>3 DEF WorkerInv, HandsOff
    <2> QED BY <2>4, <2>8, <2>11, <2>12, <2>13, <2>14 DEF WorkerInv
  <1> QED BY <1>1, <1>2, <1>3, <1>4, <1>5, <1>6, <1>7, <1>8 DEF ClientStep

-----------------------------------------------------------------------------
(* Windows, their users and the displays.                                    *)

LEMMA EnvironmentGood ==
    ASSUME PlannerAssumption, WorkerAssumption, WorkerInv, EnvironmentStep
    PROVE  WorkerInv'
  <1>1. /\ UNCHANGED <<runtime, client, channel, pending, execution, history, gestures>>
        /\ life' = life
    BY DEF EnvironmentStep, Deliver, Disturb, Close, DragStart, DragEnd, TopologyChange,
           Environment, screen
  <1>2. Advances /\ RuntimeTypes' /\ OwnershipCoherent' /\ RecordsHold'
    BY <1>1, StillInv, RecordsStay DEF history
  <1>3. ClientTypes' /\ WorkTypes'
    BY <1>1 DEF WorkerInv, ClientTypes, WorkTypes, client, execution, history
  <1>4. QueuesHold' /\ UrgentFirst' /\ HandsOff'
    BY <1>1 DEF WorkerInv, QueuesHold, UrgentFirst, HandsOff, execution
  <1>5. Known' = Known
    BY <1>1 DEF Known, client, execution
  <1>6. PlansHold'
    BY <1>2, <1>5, KnownStays
  <1>7. ScreenTypes'
    <2> USE DEF WorkerInv, ScreenTypes, screen, native
    <2>1. CASE \E w \in Windows : Deliver(w)
      <3>1. PICK w \in Windows : Deliver(w)
        BY <2>1
      <3> DEFINE change == Head(posted[w])
      <3>2. /\ posted[w] \in Seq(Mutation) /\ posted[w] # <<>>
            /\ at' = [at EXCEPT ![w] = Asked(change.at, @)]
            /\ visible' = [visible EXCEPT ![w] = Asked(change.visible, @)]
            /\ posted' = [posted EXCEPT ![w] = Tail(@)]
            /\ UNCHANGED <<life, alive, topology>>
        BY <3>1 DEF Deliver
      <3>3. change \in Mutation /\ Tail(posted[w]) \in Seq(Mutation)
        BY <3>2, HeadTailProperties
      <3>4. /\ Asked(change.at, at[w]) \in Places
            /\ Asked(change.visible, visible[w]) \in BOOLEAN
        BY <3>3 DEF Asked, Mutation
      <3> HIDE DEF change
      <3>5. at' \in [Windows -> Places] /\ visible' \in [Windows -> BOOLEAN]
        BY <3>2, <3>4
      <3>6. posted' \in [Windows -> Seq(Mutation)]
        BY <3>2, <3>3
      <3> QED BY <3>2, <3>5, <3>6
    <2>2. CASE \E w \in Windows : Disturb(w)
      <3>1. PICK w \in Windows, d \in Disturbances :
              /\ at' = [at EXCEPT ![w] = d[2]]
              /\ visible' = [visible EXCEPT ![w] = d[3]]
              /\ UNCHANGED <<life, alive, topology, native>>
        BY <2>2 DEF Disturb
      <3>2. d[2] \in Places /\ d[3] \in BOOLEAN
        BY DEF WorkerAssumption, Places
      <3> QED BY <3>1, <3>2
    <2>3. CASE \E w \in Windows : Close(w)
      <3>1. PICK w \in Windows :
              /\ alive' = [alive EXCEPT ![w] = FALSE]
              /\ posted' = [posted EXCEPT ![w] = <<>>]
              /\ UNCHANGED <<life, at, visible, topology>>
        BY <2>3 DEF Close
      <3>2. <<>> \in Seq(Mutation)
        BY EmptySeq
      <3> QED BY <3>1, <3>2
    <2>4. CASE \E w \in Windows : DragStart(w)
      BY <2>4, ScreenStays DEF DragStart
    <2>5. CASE DragEnd
      <3>1. PICK handle \in dragging, place \in Places :
              at' = IF Handle(handle[1]) = handle
                    THEN [at EXCEPT ![handle[1]] = place] ELSE at
        BY <2>5 DEF DragEnd
      <3>2. UNCHANGED <<life, alive, visible, topology, posted>>
        BY <2>5 DEF DragEnd
      <3>3. at' \in [Windows -> Places]
        BY <3>1
      <3> QED BY <3>2, <3>3
    <2>6. CASE TopologyChange
      BY <2>6 DEF TopologyChange
    <2> QED BY <2>1, <2>2, <2>3, <2>4, <2>5, <2>6 DEF EnvironmentStep
  <1> QED BY <1>2, <1>3, <1>4, <1>6, <1>7 DEF WorkerInv

-----------------------------------------------------------------------------
(* The worker between transitions.                                           *)

LEMMA SetAside ==
    ASSUME QueuesHold, UrgentFirst, NEW kind, Waiting, Receive(kind)
    PROVE  /\ SoundCommand(Command) /\ Command.kind = kind
           /\ kind = "apply" => Command.plan \in PlansOf(channel) \cup PlansOf(pending)
           /\ QueuesHold'
           /\ PlansOf(channel') \subseteq PlansOf(channel)
           /\ PlansOf(pending') \subseteq PlansOf(pending)
           /\ \A i, j \in DOMAIN pending' :
                 i < j /\ Urgent(pending'[j]) => Urgent(pending'[i])
           /\ ~Urgent(Command) => \A i \in DOMAIN pending' : ~Urgent(pending'[i])
  <1>1. IsQueue(pending) /\ IsQueue(channel)
    BY DEF QueuesHold, QueueSound
  <1>2. /\ Command.kind = kind
        /\ pending' = IF pending = <<>> THEN <<>> ELSE Tail(pending)
        /\ channel' = IF pending = <<>> THEN Tail(channel) ELSE channel
    BY DEF Receive, Command
  <1>3. CASE pending = <<>>
    <2>1. channel # <<>> /\ Command = Head(channel)
      BY <1>1, <1>3, FirstFacts DEF Waiting, Command
    <2>2. /\ IsQueue(channel') /\ Range(channel') \subseteq Range(channel)
          /\ Command \in Range(channel)
      BY <1>1, <1>2, <1>3, <2>1, TailFacts
    <2>3. pending' = <<>> /\ DOMAIN pending' = {}
      BY <1>2, <1>3
    <2>4. QueuesHold' /\ SoundCommand(Command)
      BY <1>3, <2>2, <2>3 DEF QueuesHold, QueueSound
    <2>5. PlansOf(channel') \subseteq PlansOf(channel) /\ PlansOf(pending') = PlansOf(pending)
      BY <1>3, <2>2, <2>3 DEF PlansOf
    <2>6. kind = "apply" => Command.plan \in PlansOf(channel)
      BY <1>2, <2>2 DEF PlansOf
    <2> QED BY <1>2, <2>3, <2>4, <2>5, <2>6
  <1>4. CASE pending # <<>>
    <2>1. Command = Head(pending)
      BY <1>1, <1>4, FirstFacts DEF Command
    <2>2. pending' = Tail(pending) /\ channel' = channel
      BY <1>2, <1>4
    <2>3. /\ IsQueue(pending') /\ Range(pending') \subseteq Range(pending)
          /\ Command \in Range(pending) /\ Command = pending[1]
          /\ Len(pending') = Len(pending) - 1
          /\ \A i \in 1..Len(pending') : pending'[i] = pending[i + 1]
      BY <1>1, <1>4, <2>1, <2>2, TailFacts
    <2>4. QueuesHold' /\ SoundCommand(Command)
      BY <2>2, <2>3 DEF QueuesHold, QueueSound
    <2>5. PlansOf(channel') = PlansOf(channel) /\ PlansOf(pending') \subseteq PlansOf(pending)
      BY <2>2, <2>3 DEF PlansOf
    <2>6. kind = "apply" => Command.plan \in PlansOf(pending)
      BY <1>2, <2>3 DEF PlansOf
    <2>7. /\ Len(pending) \in Nat /\ Len(pending) > 0
          /\ DOMAIN pending = 1..Len(pending) /\ DOMAIN pending' = 1..(Len(pending) - 1)
      BY <1>1, <1>4, <2>3, QueueFacts
    <2>8. ASSUME NEW i \in DOMAIN pending', NEW j \in DOMAIN pending', i < j,
                 Urgent(pending'[j])
          PROVE  Urgent(pending'[i])
      <3>1. /\ i + 1 \in DOMAIN pending /\ j + 1 \in DOMAIN pending /\ i + 1 < j + 1
            /\ pending'[i] = pending[i + 1] /\ pending'[j] = pending[j + 1]
        BY <2>3, <2>7, <2>8
      <3> QED BY <2>8, <3>1 DEF UrgentFirst
    <2>9. ASSUME NEW i \in DOMAIN pending', Urgent(pending'[i]) PROVE Urgent(Command)
      <3>1. /\ 1 \in DOMAIN pending /\ i + 1 \in DOMAIN pending /\ 1 < i + 1
            /\ pending'[i] = pending[i + 1]
        BY <2>3, <2>7
      <3> QED BY <2>3, <2>9, <3>1 DEF UrgentFirst
    <2> QED BY <1>2, <2>4, <2>5, <2>6, <2>8, <2>9
  <1> QED BY <1>3, <1>4

LEMMA RevealTypes ==
    ASSUME ScreenTypes, NEW some, Reveal(some)
    PROVE  posted' \in [Windows -> Seq(Mutation)]
  <1>1. [at |-> None, visible |-> TRUE] \in Mutation
    BY DEF Mutation
  <1>2. \A w \in Windows :
          Append(posted[w], [at |-> None, visible |-> TRUE]) \in Seq(Mutation)
    BY <1>1, AppendProperties DEF ScreenTypes
  <1>3. PICK journaled : posted' =
          [w \in Windows |->
            IF w \in journaled THEN Append(posted[w], [at |-> None, visible |-> TRUE])
            ELSE posted[w]]
    BY DEF Reveal
  <1> QED BY <1>2, <1>3 DEF ScreenTypes

\* What is left to show of a command that starts no transition.
LEMMA HandledGood ==
    ASSUME WorkerInv, NEW kind, Waiting, Receive(kind), phase' # "settling",
           Advances, RuntimeTypes', ScreenTypes', WorkTypes', OwnershipCoherent',
           UNCHANGED <<repertoire, sent, undo>>,
           \A p \in held' : p \in held \/ (PlanSound(p) /\ PlanTimely(p))
    PROVE  WorkerInv'
  <1>1. QueuesHold /\ UrgentFirst
    BY DEF WorkerInv
  <1>2. /\ QueuesHold'
        /\ PlansOf(channel') \subseteq PlansOf(channel)
        /\ PlansOf(pending') \subseteq PlansOf(pending)
        /\ \A i, j \in DOMAIN pending' :
              i < j /\ Urgent(pending'[j]) => Urgent(pending'[i])
    BY <1>1, SetAside
  <1>3. UrgentFirst' /\ HandsOff'
    BY <1>2 DEF UrgentFirst, HandsOff
  <1>4. ClientTypes' /\ RecordsHold'
    BY RecordsStay DEF WorkerInv, ClientTypes
  <1>5. \A p \in Known' : p \in Known \/ (PlanSound(p) /\ PlanTimely(p)')
    <2>1. \A p \in held' : p \in held \/ (PlanSound(p) /\ PlanTimely(p)')
      BY PlanStays
    <2> QED BY <1>2, <2>1 DEF Known
  <1>6. PlansHold'
    BY <1>5, KnownStays
  <1> QED BY <1>2, <1>3, <1>4, <1>6 DEF WorkerInv

\* The submission of a sound plan.
LEMMA SubmitGood ==
    ASSUME WorkerInv, phase = "idle", NEW plan, PlanSound(plan), PlanTimely(plan),
           NEW overtaken, Submit(plan, overtaken), held' = held,
           QueuesHold', PlansOf(channel') \subseteq PlansOf(channel),
           PlansOf(pending') \subseteq PlansOf(pending),
           \A i \in DOMAIN pending' : ~Urgent(pending'[i])
    PROVE  WorkerInv'
  <1>1. PICK no \in SUBSET DOMAIN plan.mutations :
            posted' = [w \in Windows |->
                        IF w \in DOMAIN plan.mutations \ no
                        THEN Append(posted[w], plan.mutations[w]) ELSE posted[w]]
    BY DEF Submit
  <1>2. /\ gestures = {} /\ phase' = "settling"
        /\ cur' = [plan |-> plan, overtaken |-> overtaken] /\ superseded' = {}
        /\ UNCHANGED <<runtime, screen, topology, dragging, nevents, repertoire,
                       sent, history, gestures>>
    BY DEF Submit
  <1>3. Advances /\ RuntimeTypes' /\ OwnershipCoherent' /\ RecordsHold'
    BY <1>2, StillInv, RecordsStay DEF screen, history
  <1>4. ScreenTypes'
    <2>1. \A w \in DOMAIN plan.mutations : plan.mutations[w] \in Mutation
      BY DEF PlanSound, IsPlan, Partial
    <2>2. \A w \in Windows : w \in DOMAIN plan.mutations =>
            Append(posted[w], plan.mutations[w]) \in Seq(Mutation)
      BY <2>1, AppendProperties DEF WorkerInv, ScreenTypes
    <2>3. posted' \in [Windows -> Seq(Mutation)]
      BY <1>1, <2>2 DEF WorkerInv, ScreenTypes
    <2> QED BY <1>2, <2>3 DEF WorkerInv, ScreenTypes, screen
  <1>5. ClientTypes'
    BY <1>2 DEF WorkerInv, ClientTypes
  <1>6. WorkTypes'
    BY <1>2 DEF WorkerInv, WorkTypes, history
  <1>7. PlansHold'
    <2>1. \A p \in Known' : p \in Known \/ p = plan
      BY <1>2 DEF Known
    <2>2. \A p \in Known' : p \in Known \/ (PlanSound(p) /\ PlanTimely(p)')
      BY <1>3, <2>1, PlanStays
    <2> QED BY <1>3, <2>2, KnownStays
  <1>8. UrgentFirst' /\ HandsOff'
    BY <1>2 DEF UrgentFirst, HandsOff
  <1> QED BY <1>3, <1>4, <1>5, <1>6, <1>7, <1>8 DEF WorkerInv

LEMMA BumpedFacts ==
    ASSUME RuntimeTypes, NEW slots
    PROVE  /\ Bumped(slots) \in [Slots -> Nat]
           /\ \A s \in Slots : /\ generations[s] <= Bumped(slots)[s]
                              /\ Bumped(slots)[s] = generations[s] <=> s \notin slots
  BY DEF RuntimeTypes, Bumped

\* What shows something else has a new generation.
LEMMA BumpAdvances ==
    ASSUME RuntimeTypes, NEW slots, generations' = Bumped(slots),
           \A s \in Slots \ slots : presentations'[s] = presentations[s]
    PROVE  Advances
  <1> SUFFICES ASSUME NEW s \in Slots
               PROVE  /\ generations[s] \in Nat /\ generations'[s] \in Nat
                      /\ generations[s] <= generations'[s]
                      /\ generations'[s] = generations[s] => presentations'[s] = presentations[s]
    BY DEF Advances
  <1>1. generations[s] \in Nat /\ generations'[s] = generations[s] + (IF s \in slots THEN 1 ELSE 0)
    BY DEF RuntimeTypes, Bumped
  <1>2. CASE s \in slots
    BY <1>1, <1>2
  <1>3. CASE s \notin slots
    BY <1>1, <1>3
  <1> QED BY <1>2, <1>3

LEMMA CommandGood ==
    ASSUME PlannerAssumption, WorkerAssumption, WorkerInv, CommandStep
    PROVE  WorkerInv'
  <1>1. Waiting /\ QueuesHold /\ UrgentFirst /\ World
    BY InvWorld DEF CommandStep, WorkerInv
  <1>2. CASE Fail
    <2>1. PICK kind : Receive(kind)
      BY <1>2 DEF Fail
    <2>2. /\ UNCHANGED <<runtime, screen, topology, native, client, execution,
                         history, gestures>>
          /\ phase = "idle"
      BY <1>2, <2>1 DEF Fail, Receive
    <2>3. Advances /\ RuntimeTypes' /\ OwnershipCoherent'
      BY <2>2, StillInv DEF screen
    <2>4. ScreenTypes'
      BY <2>2, ScreenStays DEF WorkerInv, native
    <2>5. WorkTypes' /\ phase' = "idle"
      BY <2>2 DEF WorkerInv, WorkTypes, execution, history
    <2> QED BY <1>1, <2>1, <2>2, <2>3, <2>4, <2>5, HandledGood DEF client, history
  <1>3. CASE Preview
    <2>1. PICK plan \in Plans(Command.request) : held' = held \cup {plan}
      BY <1>3 DEF Preview
    <2>2. /\ Receive("preview") /\ phase = "idle"
          /\ UNCHANGED <<runtime, screen, topology, native, repertoire, sent,
                         execution, history, gestures>>
      BY <1>3 DEF Preview, Receive
    <2>3. Command.request \in Requests
      BY <1>1, <2>2, SetAside DEF SoundCommand
    <2>4. PlanSound(plan) /\ PlanTimely(plan)
      BY <1>1, <2>3, PlansGood
    <2>5. Advances /\ RuntimeTypes' /\ OwnershipCoherent'
      BY <2>2, StillInv DEF screen
    <2>6. ScreenTypes'
      BY <2>2, ScreenStays DEF WorkerInv, native
    <2>7. WorkTypes' /\ phase' = "idle"
      BY <2>2 DEF WorkerInv, WorkTypes, execution, history
    <2>8. \A p \in held' : p \in held \/ (PlanSound(p) /\ PlanTimely(p))
      BY <2>1, <2>4
    <2> QED BY <1>1, <2>2, <2>5, <2>6, <2>7, <2>8, HandledGood DEF history
  <1>4. CASE Apply
    <2>1. Receive("apply") /\ Submit(Command.plan, Command.overtaken) /\ held' = held
      BY <1>4 DEF Apply
    <2>2. /\ Command.plan \in Known /\ ~Urgent(Command)
          /\ QueuesHold'
          /\ PlansOf(channel') \subseteq PlansOf(channel)
          /\ PlansOf(pending') \subseteq PlansOf(pending)
          /\ ~Urgent(Command) => \A i \in DOMAIN pending' : ~Urgent(pending'[i])
      BY <1>1, <2>1, SetAside DEF Known, Urgent
    <2>3. PlanSound(Command.plan) /\ PlanTimely(Command.plan)
      BY <2>2 DEF WorkerInv, PlansHold
    <2>4. phase = "idle"
      BY <2>1 DEF Receive
    <2> QED BY <2>1, <2>2, <2>3, <2>4, SubmitGood
  <1>5. CASE Undo
    <2>1. PICK plan \in Reversals(undo[Len(undo)], Command.id) : held' = held \cup {plan}
      BY <1>5 DEF Undo
    <2>2. /\ Receive("undo") /\ phase = "idle" /\ undo # <<>> /\ undoing' = Command.id
          /\ UNCHANGED <<runtime, screen, topology, native, repertoire, sent,
                         execution, undo, gestures>>
      BY <1>5 DEF Undo, Receive
    <2>3. Command.id \in Nat
      BY <1>1, <2>2, SetAside DEF SoundCommand
    <2>4. RecordSound(undo[Len(undo)]) /\ RecordTimely(undo[Len(undo)])
      <3>1. IsQueue(undo)
        BY DEF WorkerInv, RecordsHold
      <3>2. Len(undo) \in DOMAIN undo
        BY <2>2, <3>1, QueueFacts
      <3> QED BY <3>2 DEF WorkerInv, RecordsHold
    <2>5. PlanSound(plan) /\ PlanTimely(plan)
      BY <2>3, <2>4, ReversalGood DEF Reversals
    <2>6. Advances /\ RuntimeTypes' /\ OwnershipCoherent'
      BY <2>2, StillInv DEF screen
    <2>7. ScreenTypes'
      BY <2>2, ScreenStays DEF WorkerInv, native
    <2>8. WorkTypes' /\ phase' = "idle"
      BY <2>2, <2>3 DEF WorkerInv, WorkTypes, execution
    <2>9. \A p \in held' : p \in held \/ (PlanSound(p) /\ PlanTimely(p))
      BY <2>1, <2>5
    <2> QED BY <1>1, <2>2, <2>6, <2>7, <2>8, <2>9, HandledGood
  <1>6. CASE Pause
    <2>1. /\ Receive("pause") /\ phase = "idle" /\ paused' = Command.value
          /\ suspended' \subseteq suspended
          /\ UNCHANGED <<claims, presentations, generations, completed, screen, topology,
                         native, client, execution, history, gestures>>
      BY <1>6 DEF Pause, Receive
    <2>2. Command.value \in BOOLEAN
      BY <1>1, <2>1, SetAside DEF SoundCommand
    <2>3. Advances
      BY <2>1 DEF Advances, WorkerInv, RuntimeTypes
    <2>4. RuntimeTypes'
      BY <2>1, <2>2 DEF WorkerInv, RuntimeTypes
    <2>5. OwnershipCoherent'
      BY <2>1 DEF WorkerInv, OwnershipCoherent, screen
    <2>6. ScreenTypes'
      BY <2>1, ScreenStays DEF WorkerInv, native
    <2>7. WorkTypes' /\ phase' = "idle"
      BY <2>1 DEF WorkerInv, WorkTypes, execution, history
    <2> QED BY <1>1, <2>1, <2>3, <2>4, <2>5, <2>6, <2>7, HandledGood DEF client, history
  <1>7. CASE Recover
    <2>1. /\ Receive("recover") /\ phase = "idle" /\ Reveal(Windows)
          /\ claims' = Disowned(Slots)
          /\ presentations' = Unpresented(Slots)
          /\ generations' = Bumped(Presented)
          /\ UNCHANGED <<suspended, paused, completed, screen, topology, dragging,
                         nevents, client, execution, history, gestures>>
      BY <1>7 DEF Recover, Receive
    <2>2. /\ claims' = [w \in Windows |-> None]
          /\ presentations' = [s \in Slots |-> None]
      BY <2>1 DEF Disowned, Unpresented, WorkerInv, RuntimeTypes
    <2>3. Advances
      BY <2>1, <2>2, BumpAdvances DEF WorkerInv, Presented
    <2>4. RuntimeTypes'
      BY <2>1, <2>2, BumpedFacts DEF WorkerInv, RuntimeTypes, Presents, IsPresentation
    <2>5. OwnershipCoherent'
      BY <2>1, <2>2 DEF WorkerInv, OwnershipCoherent, RuntimeTypes
    <2>6. ScreenTypes'
      BY <2>1, RevealTypes DEF WorkerInv, ScreenTypes, screen
    <2>7. WorkTypes' /\ phase' = "idle"
      BY <2>1 DEF WorkerInv, WorkTypes, execution, history
    <2> QED BY <1>1, <2>1, <2>3, <2>4, <2>5, <2>6, <2>7, HandledGood DEF client, history
  <1>8. CASE RecoverPartly
    <2>1. /\ Receive("recover") /\ phase = "idle" /\ Reveal(Windows)
          /\ UNCHANGED <<runtime, screen, topology, dragging, nevents, client, execution,
                         history, gestures>>
      BY <1>8 DEF RecoverPartly, Receive
    <2>2. Advances /\ RuntimeTypes' /\ OwnershipCoherent'
      BY <2>1, StillInv DEF screen
    <2>3. ScreenTypes'
      BY <2>1, RevealTypes DEF WorkerInv, ScreenTypes, screen
    <2>4. WorkTypes' /\ phase' = "idle"
      BY <2>1 DEF WorkerInv, WorkTypes, execution, history
    <2> QED BY <1>1, <2>1, <2>2, <2>3, <2>4, HandledGood DEF client, history
  <1>9. CASE Supersede
    <2>1. /\ Receive("supersede") /\ phase = "idle" /\ generations' = Bumped(Command.scope)
          /\ UNCHANGED <<claims, presentations, suspended, paused, completed, screen,
                         topology, native, client, execution, history, gestures>>
      BY <1>9 DEF Supersede, Receive
    <2>2. Advances
      BY <2>1, BumpAdvances DEF WorkerInv
    <2>3. RuntimeTypes'
      BY <2>1, BumpedFacts DEF WorkerInv, RuntimeTypes
    <2>4. OwnershipCoherent'
      BY <2>1 DEF WorkerInv, OwnershipCoherent, screen
    <2>5. ScreenTypes'
      BY <2>1, ScreenStays DEF WorkerInv, native
    <2>6. WorkTypes' /\ phase' = "idle"
      BY <2>1 DEF WorkerInv, WorkTypes, execution, history
    <2> QED BY <1>1, <2>1, <2>2, <2>3, <2>4, <2>5, <2>6, HandledGood DEF client, history
  <1>10. CASE Bind
    <2> DEFINE w == Command.window
               owner == {claims[w]} \ {None}
    <2>1. /\ Receive("bind") /\ phase = "idle"
          /\ \/ UNCHANGED <<screen, posted>>
             \/ /\ \E place \in Places, shown \in BOOLEAN :
                    /\ at' = [at EXCEPT ![w] = place]
                    /\ visible' = [visible EXCEPT ![w] = shown]
                /\ life' = [life EXCEPT ![w] = @ + 1]
                /\ alive' = [alive EXCEPT ![w] = TRUE]
                /\ posted' = [posted EXCEPT ![w] = <<>>]
          /\ claims' = Disowned(owner)
          /\ presentations' = Unpresented(owner)
          /\ generations' = Bumped(owner)
          /\ UNCHANGED <<suspended, paused, completed, topology, dragging, nevents,
                         client, execution, history, gestures>>
      BY <1>10 DEF Bind, Receive
    <2>2. w \in Windows
      BY <1>1, <2>1, SetAside DEF SoundCommand
    <2> HIDE DEF w
    <2>3. Advances
      BY <2>1, BumpAdvances DEF WorkerInv, Unpresented
    <2>4. RuntimeTypes'
      BY <2>1, BumpedFacts DEF WorkerInv, RuntimeTypes, Unpresented, Disowned,
         Presents, IsPresentation
    <2>5. OwnershipCoherent'
      <3>1. \A u \in Windows : claims'[u] # None => claims'[u] = claims[u] /\ claims[u] \notin owner
        BY <2>1 DEF Disowned
      <3>2. \A u \in Windows : claims'[u] # None => u # w /\ claims'[u] \in Slots
        BY <3>1, <2>2 DEF WorkerInv, RuntimeTypes
      <3>3. \A u \in Windows : claims'[u] # None =>
              presentations'[claims'[u]] = presentations[claims[u]]
        BY <2>1, <3>1, <3>2 DEF Unpresented
      <3>5. \A u \in Windows : u # w => life'[u] = life[u]
        BY <2>1 DEF screen, WorkerInv, ScreenTypes
      <3>4. \A s \in suspended' : presentations'[s] = None
        BY <2>1 DEF Unpresented, WorkerInv, OwnershipCoherent, RuntimeTypes
      <3> QED BY <3>1, <3>2, <3>3, <3>4, <3>5 DEF WorkerInv, OwnershipCoherent
    <2>6. ScreenTypes'
      <3>1. CASE UNCHANGED <<screen, posted>>
        BY <2>1, <3>1, ScreenStays DEF WorkerInv
      <3>2. CASE life' # life
        <4>1. <<>> \in Seq(Mutation)
          BY EmptySeq
        <4>2. PICK place \in Places, shown \in BOOLEAN :
                /\ at' = [at EXCEPT ![w] = place]
                /\ visible' = [visible EXCEPT ![w] = shown]
                /\ life' = [life EXCEPT ![w] = @ + 1]
                /\ alive' = [alive EXCEPT ![w] = TRUE]
                /\ posted' = [posted EXCEPT ![w] = <<>>]
          BY <2>1, <3>2 DEF screen
        <4> QED BY <2>1, <2>2, <4>1, <4>2 DEF WorkerInv, ScreenTypes
      <3>3. UNCHANGED <<screen, posted>> \/ life' # life
        BY <2>1, <2>2 DEF WorkerInv, ScreenTypes
      <3> QED BY <3>1, <3>2, <3>3
    <2>7. WorkTypes' /\ phase' = "idle"
      BY <2>1 DEF WorkerInv, WorkTypes, execution, history
    <2> QED BY <1>1, <2>1, <2>3, <2>4, <2>5, <2>6, <2>7, HandledGood DEF client, history
  <1>11. CASE Protect
    <2>1. /\ Receive("protect") /\ phase = "idle" /\ generations' = Bumped({Command.slot})
          /\ UNCHANGED <<claims, presentations, suspended, paused, completed, screen,
                         topology, native, client, execution, history, gestures>>
      BY <1>11 DEF Protect, Receive
    <2>2. Advances
      BY <2>1, BumpAdvances DEF WorkerInv
    <2>3. RuntimeTypes'
      BY <2>1, BumpedFacts DEF WorkerInv, RuntimeTypes
    <2>4. OwnershipCoherent'
      BY <2>1 DEF WorkerInv, OwnershipCoherent, screen
    <2>5. ScreenTypes'
      BY <2>1, ScreenStays DEF WorkerInv, native
    <2>6. WorkTypes' /\ phase' = "idle"
      BY <2>1 DEF WorkerInv, WorkTypes, execution, history
    <2> QED BY <1>1, <2>1, <2>2, <2>3, <2>4, <2>5, <2>6, HandledGood DEF client, history
  <1>12. CASE Shutdown
    <2>1. /\ Receive("shutdown") /\ phase = "idle" /\ Reveal(Windows) /\ phase' = "stopped"
          /\ UNCHANGED <<runtime, screen, topology, dragging, nevents, client, cur,
                         refused, superseded, history, gestures>>
      BY <1>12 DEF Shutdown, Receive
    <2>2. Advances /\ RuntimeTypes' /\ OwnershipCoherent'
      BY <2>1, StillInv DEF screen
    <2>3. ScreenTypes'
      BY <2>1, RevealTypes DEF WorkerInv, ScreenTypes, screen
    <2>4. WorkTypes'
      BY <2>1 DEF WorkerInv, WorkTypes, history
    <2> QED BY <1>1, <2>1, <2>2, <2>3, <2>4, HandledGood DEF client, history
  <1> QED BY <1>2, <1>3, <1>4, <1>5, <1>6, <1>7, <1>8, <1>9, <1>10, <1>11, <1>12
       DEF CommandStep

-----------------------------------------------------------------------------
(* The worker during a transition, and what starts one by itself.            *)

LEMMA ReflowGood ==
    ASSUME PlannerAssumption, WorkerInv, NEW slot \in Slots, Reflow(slot)
    PROVE  WorkerInv'
  <1>1. /\ phase = "idle" /\ ~Waiting /\ Permitted(slot)
        /\ UNCHANGED <<held, channel, pending>>
    BY DEF Reflow
  <1>2. PICK plan \in Plans(ReflowRequest(slot)) : Submit(plan, {})
    BY DEF Reflow
  <1>3. World
    BY InvWorld
  <1>4. presentations[slot].view \in Views
    BY <1>1, <1>3 DEF Permitted, World, Presents, IsPresentation
  <1>5. ReflowRequest(slot) \in Requests
    <2>1. [s \in {slot} |-> presentations[s].view] \in [{slot} -> Views \cup {None}]
      BY <1>4
    <2>2. {slot} \in (SUBSET Slots) \ {{}}
      OBVIOUS
    <2> QED BY <2>1, <2>2 DEF ReflowRequest, Requests, Request
  <1>6. PlanSound(plan) /\ PlanTimely(plan)
    BY <1>3, <1>5, PlansGood
  <1>7. pending = <<>>
    <2>1. IsQueue(pending) /\ IsQueue(channel)
      BY DEF WorkerInv, QueuesHold, QueueSound
    <2> QED BY <1>1, <2>1, FirstFacts DEF Waiting
  <1>8. QueuesHold' /\ \A i \in DOMAIN pending' : ~Urgent(pending'[i])
    BY <1>1, <1>7 DEF WorkerInv, QueuesHold
  <1>9. PlansOf(channel') = PlansOf(channel) /\ PlansOf(pending') = PlansOf(pending)
    BY <1>1
  <1> QED BY <1>1, <1>2, <1>6, <1>8, <1>9, SubmitGood

\* What a gesture changes: the gestures, and what they supersede.
LEMMA KeepGood ==
    ASSUME WorkerInv, NEW kind, Event(kind), Keep, gestures' \subseteq Handles,
           superseded \subseteq superseded',
           phase = "settling" => superseded' \subseteq cur.plan.scope,
           HandsOff'
    PROVE  WorkerInv'
  <1>1. UNCHANGED <<runtime, screen, topology, posted, client, channel, pending, phase, cur,
                    history>>
    BY DEF Keep
  <1>2. Advances /\ RuntimeTypes' /\ OwnershipCoherent' /\ RecordsHold'
    BY <1>1, StillInv, RecordsStay DEF screen, history
  <1>3. ScreenTypes'
    BY <1>1, ScreenStays DEF WorkerInv
  <1>4. ClientTypes' /\ WorkTypes'
    BY <1>1 DEF WorkerInv, ClientTypes, WorkTypes, client, history
  <1>5. QueuesHold'
    BY <1>1 DEF WorkerInv, QueuesHold
  <1>6. Known' = Known
    BY <1>1 DEF Known, client
  <1>7. PlansHold'
    BY <1>2, <1>6, KnownStays
  <1>8. UrgentFirst'
    BY <1>1 DEF WorkerInv, UrgentFirst
  <1> QED BY <1>2, <1>3, <1>4, <1>5, <1>7, <1>8 DEF WorkerInv

LEMMA GesturingFacts ==
    ASSUME WorkerInv, NEW handle
    PROVE  /\ Gesturing(handle) \subseteq Handles
           /\ \A g \in Gesturing(handle) :
                \/ g \in gestures /\ g[1] \notin Named(handle)
                \/ g[1] \in Named(handle)
  <1>1. \A w \in Named(handle) : Handle(w) \in Handles /\ Handle(w)[1] = w
    BY InvWorld, SnapshotFacts DEF Named, Handle, Handles, World
  <1>2. gestures \subseteq Handles
    BY DEF WorkerInv, WorkTypes
  <1> QED BY <1>1, <1>2 DEF Gesturing

LEMMA GestureGood ==
    ASSUME WorkerInv,
           IdleGestureStarted \/ IdleGestureEnded \/ DrainGestureStarted \/ DrainGestureEnded
    PROVE  WorkerInv'
  <1>1. CASE IdleGestureStarted
    <2>1. /\ Event("started") /\ Keep /\ phase = "idle" /\ superseded' = superseded
          /\ gestures' = Gesturing(Head(nevents).handle)
      BY <1>1 DEF IdleGestureStarted
    <2>2. phase' = "idle"
      BY <2>1 DEF Keep
    <2>3. HandsOff'
      BY <2>2 DEF HandsOff
    <2> QED BY <2>1, <2>3, GesturingFacts, KeepGood
  <1>2. CASE IdleGestureEnded
    <2>1. /\ Event("ended") /\ Keep /\ phase = "idle" /\ superseded' = superseded
          /\ gestures' \subseteq gestures
      BY <1>2 DEF IdleGestureEnded
    <2>2. phase' = "idle"
      BY <2>1 DEF Keep
    <2>3. HandsOff'
      BY <2>2 DEF HandsOff
    <2>4. gestures' \subseteq Handles
      BY <2>1 DEF WorkerInv, WorkTypes
    <2> QED BY <2>1, <2>3, <2>4, KeepGood
  <1>3. CASE DrainGestureStarted
    <2> DEFINE handle == Head(nevents).handle
               taken == {cur.plan.desired[w] : w \in Named(handle) \cap DOMAIN cur.plan.desired}
    <2>1. /\ Event("started") /\ Keep /\ phase = "settling"
          /\ gestures' = Gesturing(handle) /\ superseded' = superseded \cup taken
      BY <1>3 DEF DrainGestureStarted
    <2>2. cur' = cur
      BY <2>1 DEF Keep
    <2>3. taken \subseteq cur.plan.scope
      <3>1. IsPlan(cur.plan)
        BY <2>1 DEF WorkerInv, PlansHold, Known, PlanSound
      <3> QED BY <3>1 DEF IsPlan, Partial
    <2>4. HandsOff'
      <3> SUFFICES ASSUME NEW g \in Gesturing(handle), g[1] \in DOMAIN cur.plan.desired
                   PROVE  cur.plan.desired[g[1]] \in superseded'
        BY <2>1, <2>2 DEF HandsOff
      <3>1. CASE g \in gestures /\ g[1] \notin Named(handle)
        BY <2>1, <3>1 DEF WorkerInv, HandsOff
      <3>2. CASE g[1] \in Named(handle)
        BY <2>1, <3>2
      <3> HIDE DEF handle
      <3> QED BY <3>1, <3>2, GesturingFacts
    <2>5. superseded \subseteq superseded' /\ superseded' \subseteq cur.plan.scope
      BY <2>1, <2>3 DEF WorkerInv, WorkTypes
    <2> HIDE DEF handle, taken
    <2> QED BY <2>1, <2>4, <2>5, GesturingFacts, KeepGood
  <1>4. CASE DrainGestureEnded
    <2>1. /\ Event("ended") /\ Keep /\ phase = "settling" /\ superseded' = superseded
          /\ gestures' \subseteq gestures
      BY <1>4 DEF DrainGestureEnded
    <2>2. phase' = phase /\ cur' = cur
      BY <2>1 DEF Keep
    <2>3. HandsOff'
      BY <2>1, <2>2 DEF WorkerInv, HandsOff
    <2>4. gestures' \subseteq Handles /\ superseded \subseteq cur.plan.scope
      BY <2>1 DEF WorkerInv, WorkTypes
    <2> QED BY <2>1, <2>3, <2>4, KeepGood
  <1> QED BY <1>1, <1>2, <1>3, <1>4

LEMMA DrainGood ==
    ASSUME WorkerInv, DrainCommand PROVE WorkerInv'
  <1> DEFINE command == Head(channel)
             scope == cur.plan.scope
  <1>1. /\ phase = "settling" /\ channel # <<>> /\ channel' = Tail(channel)
        /\ superseded' =
            IF command.kind = "supersede" THEN superseded \cup (scope \cap command.scope)
            ELSE IF Urgent(command) THEN scope
            ELSE superseded
        /\ pending' =
            IF command.kind = "supersede" THEN pending
            ELSE IF Urgent(command) THEN <<command>> \o pending
            ELSE Append(pending, command)
        /\ UNCHANGED <<runtime, screen, topology, native, client, phase, cur, refused,
                       history, gestures>>
    BY DEF DrainCommand
  <1>2. Advances /\ RuntimeTypes' /\ OwnershipCoherent' /\ RecordsHold'
    BY <1>1, StillInv, RecordsStay DEF screen, history
  <1>3. ScreenTypes'
    BY <1>1, ScreenStays DEF WorkerInv, native
  <1>4. superseded \subseteq scope /\ superseded \subseteq superseded' /\ superseded' \subseteq scope
    BY <1>1 DEF WorkerInv, WorkTypes
  <1>5. ClientTypes' /\ WorkTypes'
    BY <1>1, <1>4 DEF WorkerInv, ClientTypes, WorkTypes, client, history
  <1>6. HandsOff'
    BY <1>1, <1>4 DEF WorkerInv, HandsOff
  <1>7. IsQueue(channel) /\ IsQueue(pending)
        /\ \A c \in Range(channel) \cup Range(pending) : SoundCommand(c)
    BY DEF WorkerInv, QueuesHold, QueueSound
  <1>8. /\ command \in Range(channel) /\ IsQueue(channel')
        /\ Range(channel') \subseteq Range(channel)
    BY <1>1, <1>7, TailFacts
  <1> HIDE DEF command
  <1>9. /\ IsQueue(pending') /\ Range(pending') \subseteq Range(pending) \cup {command}
    BY <1>1, <1>7, AppendFacts, ConsFacts
  <1>10. QueuesHold'
    BY <1>7, <1>8, <1>9 DEF QueuesHold, QueueSound
  <1>11. /\ PlansOf(channel') \subseteq PlansOf(channel)
         /\ PlansOf(pending') \subseteq PlansOf(pending) \cup PlansOf(channel)
    BY <1>8, <1>9 DEF PlansOf
  <1>12. Known' \subseteq Known
    BY <1>1, <1>11 DEF Known, client
  <1>13. PlansHold'
    BY <1>2, <1>12, KnownStays
  <1>14. UrgentFirst'
    <2>1. /\ Len(pending) \in Nat /\ DOMAIN pending = 1..Len(pending)
          /\ DOMAIN pending' = 1..Len(pending')
      BY <1>7, <1>9, QueueFacts
    <2>2. CASE command.kind = "supersede"
      <3>1. pending' = pending /\ superseded' = superseded \cup (scope \cap command.scope)
        BY <1>1, <2>2
      <3> QED BY <1>1, <1>4, <3>1 DEF WorkerInv, UrgentFirst
    <2>3. CASE command.kind # "supersede" /\ Urgent(command)
      <3>1. /\ superseded' = scope /\ Len(pending') = Len(pending) + 1 /\ pending'[1] = command
            /\ \A i \in 1..Len(pending) : pending'[i + 1] = pending[i]
        BY <1>1, <1>7, <2>3, ConsFacts
      <3>2. ASSUME NEW i \in DOMAIN pending', NEW j \in DOMAIN pending', i < j,
                   Urgent(pending'[j])
            PROVE  Urgent(pending'[i])
        <4>1. CASE i = 1
          BY <2>3, <3>1, <4>1
        <4>2. CASE i # 1
          <5>1. /\ i - 1 \in DOMAIN pending /\ j - 1 \in DOMAIN pending /\ i - 1 < j - 1
                /\ (i - 1) + 1 = i /\ (j - 1) + 1 = j
            BY <2>1, <3>1, <3>2, <4>2
          <5>2. pending'[i] = pending[i - 1] /\ pending'[j] = pending[j - 1]
            BY <2>1, <3>1, <5>1
          <5> QED BY <3>2, <5>1, <5>2 DEF WorkerInv, UrgentFirst
        <4> QED BY <4>1, <4>2
      <3> QED BY <1>1, <3>1, <3>2 DEF UrgentFirst
    <2>4. CASE command.kind # "supersede" /\ ~Urgent(command)
      <3>1. /\ superseded' = superseded /\ Len(pending') = Len(pending) + 1
            /\ pending'[Len(pending) + 1] = command
            /\ \A i \in 1..Len(pending) : pending'[i] = pending[i]
        BY <1>1, <1>7, <2>4, AppendFacts
      <3>2. \A j \in DOMAIN pending' : Urgent(pending'[j]) =>
              j \in DOMAIN pending /\ Urgent(pending[j])
        <4> SUFFICES ASSUME NEW j \in DOMAIN pending', Urgent(pending'[j])
                     PROVE  j \in DOMAIN pending /\ Urgent(pending[j])
          OBVIOUS
        <4>1. j # Len(pending) + 1
          BY <2>4, <3>1
        <4> QED BY <2>1, <3>1, <4>1
      <3>3. ASSUME NEW i \in DOMAIN pending', NEW j \in DOMAIN pending', i < j,
                   Urgent(pending'[j])
            PROVE  Urgent(pending'[i])
        <4>1. j \in DOMAIN pending /\ i \in DOMAIN pending /\ Urgent(pending[j])
          BY <2>1, <3>1, <3>2, <3>3
        <4> QED BY <2>1, <3>1, <3>3, <4>1 DEF WorkerInv, UrgentFirst
      <3> QED BY <1>1, <3>1, <3>2, <3>3 DEF WorkerInv, UrgentFirst
    <2> QED BY <2>2, <2>3, <2>4
  <1> QED BY <1>2, <1>3, <1>5, <1>6, <1>10, <1>13, <1>14 DEF WorkerInv

LEMMA AbandonGood ==
    ASSUME WorkerInv, Abandon PROVE WorkerInv'
  <1>1. /\ phase' = "idle" /\ cur' = NoPlan /\ superseded' = {}
        /\ UNCHANGED <<runtime, screen, topology, native, client, channel, pending,
                       history, gestures>>
    BY DEF Abandon
  <1>2. Advances /\ RuntimeTypes' /\ OwnershipCoherent' /\ RecordsHold'
    BY <1>1, StillInv, RecordsStay DEF screen, history
  <1>3. ScreenTypes'
    BY <1>1, ScreenStays DEF WorkerInv, native
  <1>4. ClientTypes' /\ WorkTypes'
    BY <1>1 DEF WorkerInv, ClientTypes, WorkTypes, client, history
  <1>5. QueuesHold' /\ UrgentFirst' /\ HandsOff'
    BY <1>1 DEF WorkerInv, QueuesHold, UrgentFirst, HandsOff
  <1>6. Known' \subseteq Known
    BY <1>1 DEF Known, client
  <1>7. PlansHold'
    BY <1>2, <1>6, KnownStays
  <1> QED BY <1>2, <1>3, <1>4, <1>5, <1>7 DEF WorkerInv

-----------------------------------------------------------------------------
(* The end of a transition.                                                  *)

\* What is committed: whole domains that have settled under fresh authority.
CommitSound(p, committed) ==
    /\ committed \subseteq p.scope
    /\ suspended \cap committed = {}
    /\ \A s \in committed : presentations[s] = p.base[s]
    /\ \A w \in DOMAIN p.desired :
         p.desired[w] \in committed => claims[w] \in committed \cup {None}
    /\ \A w \in DOMAIN p.expected : Concerns(p, w, committed) => InPlace(p, w)
    /\ \A d \in p.domains : d \cap committed # {} => d \subseteq committed
    /\ committed \cap superseded = {}

LEMMA VerifiedGood ==
    ASSUME World, PlanSound(cur.plan), PlanTimely(cur.plan), NEW focused
    PROVE  CommitSound(cur.plan, Verified(focused))
  <1> DEFINE p == cur.plan
             committed == Verified(focused)
  <1>1. \A s \in committed : \E d \in p.domains :
          s \in d /\ d \subseteq committed /\ d \cap Lost = {} /\ SettledScope(p, d)
    BY DEF Verified
  <1>2. \A d \in p.domains : d \subseteq p.scope
    BY DEF PlanSound, IsPlan
  <1> HIDE DEF committed, p
  <1>3. ASSUME NEW s \in committed
        PROVE  \E d \in p.domains :
                 /\ s \in d /\ d \subseteq committed /\ d \cap Lost = {}
                 /\ s \in p.scope
                 /\ suspended \cap d = {}
                 /\ presentations[s] = p.base[s]
                 /\ \A w \in DOMAIN p.desired : p.desired[w] \in d => claims[w] \in d \cup {None}
                 /\ \A w \in DOMAIN p.expected : Concerns(p, w, d) => InPlace(p, w)
    <2>1. PICK d \in p.domains :
            s \in d /\ d \subseteq committed /\ d \cap Lost = {} /\ SettledScope(p, d)
      BY <1>1
    <2>2. d \in (SUBSET p.scope) \ {{}}
      BY <1>2, <2>1
    <2>3. /\ suspended \cap d = {}
          /\ generations[s] = p.generations[s]
          /\ \A w \in DOMAIN p.desired : p.desired[w] \in d => claims[w] \in d \cup {None}
          /\ \A w \in DOMAIN p.expected : Concerns(p, w, d) => InPlace(p, w)
      BY <2>1, <2>2, SettledFacts DEF p
    <2>4. presentations[s] = p.base[s]
      BY <2>1, <2>2, <2>3 DEF PlanTimely, Timely, p
    <2> QED BY <2>1, <2>2, <2>3, <2>4
  <1>4. ASSUME NEW w \in DOMAIN p.desired, p.desired[w] \in committed
        PROVE  claims[w] \in committed \cup {None}
    BY <1>3, <1>4
  <1>5. ASSUME NEW w \in DOMAIN p.expected, Concerns(p, w, committed)
        PROVE  InPlace(p, w)
    <2>1. \E s \in committed : \/ w \in DOMAIN p.desired /\ p.desired[w] = s
                               \/ w \in DOMAIN p.mutations /\ p.slots[w] = s
      BY <1>5 DEF Concerns
    <2>2. PICK s \in committed : \/ w \in DOMAIN p.desired /\ p.desired[w] = s
                                 \/ w \in DOMAIN p.mutations /\ p.slots[w] = s
      BY <2>1
    <2>3. PICK d \in p.domains :
            s \in d /\ (\A v \in DOMAIN p.expected : Concerns(p, v, d) => InPlace(p, v))
      BY <1>3
    <2>4. Concerns(p, w, d)
      BY <2>2, <2>3 DEF Concerns
    <2> QED BY <2>3, <2>4
  <1>6. ASSUME NEW d \in p.domains, d \cap committed # {}
        PROVE  d \subseteq committed
    <2>1. PICK s \in d \cap committed : TRUE
      BY <1>6
    <2>2. PICK e \in p.domains : s \in e /\ e \subseteq committed
      BY <1>3, <2>1
    <2>3. d = e
      BY <2>1, <2>2 DEF PlanSound, Disjoint, p
    <2> QED BY <2>2, <2>3
  <1>7. committed \cap superseded = {}
    <2> SUFFICES ASSUME NEW s \in committed, s \in superseded PROVE FALSE
      OBVIOUS
    <2>1. PICK d \in p.domains : s \in d /\ d \cap Lost = {}
      BY <1>3
    <2>2. s \in Lost
      BY <2>1 DEF Lost, p
    <2> QED BY <2>1, <2>2
  <1>8. suspended \cap committed = {} /\ committed \subseteq p.scope
    BY <1>3
  <1>9. \A s \in committed : presentations[s] = p.base[s]
    BY <1>3
  <1>10. CommitSound(p, committed)
    BY <1>4, <1>5, <1>6, <1>7, <1>8, <1>9 DEF CommitSound
  <1> QED BY <1>10 DEF p, committed

\* What the end of a transition does to each variable.
ConcludesWith(p, committed) ==
    /\ claims' = ClaimsAfter(p, committed)
    /\ presentations' = PresentationsAfter(p, committed)
    /\ generations' = Bumped(p.scope)
    /\ suspended' = suspended \cup (p.scope \ (Lost \cup committed))
    /\ completed' \subseteq completed \/ completed' \subseteq Remember(p.id)
    /\ \/ undo' = Undone(IF undo = <<>> THEN undo ELSE Front(undo))
       \/ /\ committed # {}
          /\ LET grown == Append(undo, Capture(p, committed)) IN
             undo' = IF Len(grown) > UndoLimit THEN Tail(grown) ELSE grown
       \/ undo' = undo
    /\ undoing' \in {undoing, None}
    /\ UNCHANGED posted \/ (\E failed : Reveal(failed))

LEMMA ConcludeFacts ==
    ASSUME Conclude
    PROVE  /\ phase = "settling" /\ phase' = "idle" /\ cur' = NoPlan /\ superseded' = {}
           /\ UNCHANGED <<paused, screen, topology, dragging, nevents, client, channel,
                          pending, gestures>>
           /\ \E focused \in BOOLEAN : ConcludesWith(cur.plan, Verified(focused))
  <1>1. /\ phase = "settling" /\ phase' = "idle" /\ cur' = NoPlan /\ superseded' = {}
        /\ UNCHANGED <<paused, screen, topology, dragging, nevents, client, channel,
                       pending, gestures>>
    BY DEF Conclude
  <1>2. PICK focused \in BOOLEAN :
        LET plan == cur.plan
            committed == Verified(focused)
            settled == refused = {} /\ committed = plan.scope
            failed == {w \in DOMAIN plan.mutations : plan.slots[w] \notin committed}
            own == undoing = plan.id
        IN /\ claims' = ClaimsAfter(plan, committed)
           /\ presentations' = PresentationsAfter(plan, committed)
           /\ generations' = Bumped(plan.scope)
           /\ suspended' = suspended \cup (plan.scope \ (Lost \cup committed))
           /\ completed' =
                (IF committed = {} THEN completed ELSE Remember(plan.id))
                \ (IF settled /\ ~plan.blocked THEN {0} ELSE {0, plan.id})
           /\ undo' = IF settled /\ own
                        THEN Undone(IF undo = <<>> THEN undo ELSE Front(undo))
                      ELSE IF committed # {} /\ ~own THEN Recorded(committed)
                      ELSE undo
           /\ undoing' = IF settled /\ own THEN None ELSE undoing
           /\ IF settled THEN UNCHANGED posted ELSE Reveal(failed)
    BY DEF Conclude
  <1> DEFINE p == cur.plan
             committed == Verified(focused)
             settled == refused = {} /\ committed = p.scope
             failed == {w \in DOMAIN p.mutations : p.slots[w] \notin committed}
             own == undoing = p.id
             grown == Append(undo, Capture(p, committed))
  <1>3. /\ claims' = ClaimsAfter(p, committed)
        /\ presentations' = PresentationsAfter(p, committed)
        /\ generations' = Bumped(p.scope)
        /\ suspended' = suspended \cup (p.scope \ (Lost \cup committed))
        /\ completed' = (IF committed = {} THEN completed ELSE Remember(p.id))
                        \ (IF settled /\ ~p.blocked THEN {0} ELSE {0, p.id})
        /\ undo' = IF settled /\ own
                     THEN Undone(IF undo = <<>> THEN undo ELSE Front(undo))
                   ELSE IF committed # {} /\ ~own THEN Recorded(committed)
                   ELSE undo
        /\ undoing' = IF settled /\ own THEN None ELSE undoing
        /\ IF settled THEN UNCHANGED posted ELSE Reveal(failed)
    BY <1>2
  <1>4. Recorded(committed) = IF Len(grown) > UndoLimit THEN Tail(grown) ELSE grown
    BY DEF Recorded
  <1> HIDE DEF committed, settled, failed, own, grown
  <1>5. completed' \subseteq completed \/ completed' \subseteq Remember(p.id)
    BY <1>3
  <1>6. \/ undo' = Undone(IF undo = <<>> THEN undo ELSE Front(undo))
        \/ committed # {} /\ undo' = IF Len(grown) > UndoLimit THEN Tail(grown) ELSE grown
        \/ undo' = undo
    BY <1>3, <1>4
  <1>7. undoing' \in {undoing, None} /\ (UNCHANGED posted \/ (\E some : Reveal(some)))
    BY <1>3
  <1> HIDE DEF p
  <1>8. ConcludesWith(p, committed)
    BY <1>3, <1>5, <1>6, <1>7 DEF ConcludesWith, grown
  <1> QED BY <1>1, <1>8 DEF p, committed


LEMMA RememberGood ==
    ASSUME RuntimeTypes, WorkerAssumption, NEW id \in Nat
    PROVE  /\ Remember(id) \subseteq Nat /\ IsFiniteSet(Remember(id))
           /\ Cardinality(Remember(id)) <= CompletedLimit
  <1>1. UndoLimit \in Nat \ {0} /\ CompletedLimit \in Nat \ {0}
    BY DEF WorkerAssumption
  <1>2. CASE Cardinality(completed) >= CompletedLimit
    <2>1. Remember(id) = {id}
      BY <1>2 DEF Remember
    <2>2. IsFiniteSet({id}) /\ Cardinality({id}) = 1
      BY FS_Singleton
    <2> QED BY <1>1, <2>1, <2>2
  <1>3. CASE ~(Cardinality(completed) >= CompletedLimit)
    <2>1. Remember(id) = completed \cup {id}
      BY <1>3 DEF Remember
    <2>2. /\ IsFiniteSet(completed) /\ Cardinality(completed) \in Nat
          /\ completed \subseteq Nat
      BY FS_CardinalityType DEF RuntimeTypes
    <2>3. /\ IsFiniteSet(completed \cup {id})
          /\ \/ Cardinality(completed \cup {id}) = Cardinality(completed) + 1
             \/ Cardinality(completed \cup {id}) = Cardinality(completed)
      BY <2>2, FS_AddElement
    <2>4. Cardinality(completed \cup {id}) \in Nat
      BY <2>3, FS_CardinalityType
    <2> QED BY <1>1, <1>3, <2>1, <2>2, <2>3, <2>4
  <1> QED BY <1>2, <1>3

\* A record that is timely after the step; the record itself is given.
TimelyAfter(r) ==
    \A s \in r.plan.scope :
        /\ r.generations[s] <= generations'[s]
        /\ r.generations[s] = generations'[s] => presentations'[s] = r.plan.presentations[s]

LEMMA HistoryAfter ==
    ASSUME IsQueue(undo'),
           \A i \in DOMAIN undo' : RecordSound(undo'[i]) /\ TimelyAfter(undo'[i])
    PROVE  RecordsHold'
  BY DEF RecordsHold, RecordTimely, Timely, TimelyAfter

LEMMA RecordAfter ==
    ASSUME Advances, NEW r, RecordSound(r), RecordTimely(r) PROVE TimelyAfter(r)
  BY RecordStays DEF RecordTimely, Timely, TimelyAfter

\* The history after the end of a transition.
LEMMA HistoryGood ==
    ASSUME PlannerAssumption, WorkerAssumption, WorkerInv, Advances,
           NEW p, PlanSound(p), NEW committed, CommitSound(p, committed),
           ConcludesWith(p, committed), RuntimeTypes'
    PROVE  RecordsHold' /\ Len(undo') <= UndoLimit
  <1>1. IsQueue(undo) /\ Len(undo) <= UndoLimit
    BY DEF WorkerInv, RecordsHold, WorkTypes
  <1>2. Len(undo) \in Nat /\ DOMAIN undo = 1..Len(undo) /\ UndoLimit \in Nat \ {0}
    BY <1>1, QueueFacts DEF WorkerAssumption
  <1>3. \A i \in DOMAIN undo : RecordSound(undo[i]) /\ RecordTimely(undo[i])
    BY DEF WorkerInv, RecordsHold
  <1>4. \A i \in DOMAIN undo : RecordSound(undo[i]) /\ TimelyAfter(undo[i])
    BY <1>3, RecordAfter
  <1>5. CASE undo' = Undone(IF undo = <<>> THEN undo ELSE Front(undo))
    <2> DEFINE rest == IF undo = <<>> THEN undo ELSE Front(undo)
    <2>1. /\ IsQueue(rest) /\ Len(rest) \in Nat /\ Len(rest) <= Len(undo)
          /\ DOMAIN rest = 1..Len(rest)
          /\ \A i \in 1..Len(rest) : i \in DOMAIN undo /\ rest[i] = undo[i]
      <3>1. CASE undo = <<>>
        BY <1>1, <1>2, <3>1
      <3>2. CASE undo # <<>>
        <4>1. Len(undo) > 0
          BY <1>1, <3>2, QueueFacts
        <4>2. \A i \in 1..(Len(undo) - 1) : undo[i] \in Range(undo)
          BY <1>1, <1>2, QueueFacts
        <4>3. rest = SubSeq(undo, 1, Len(undo) - 1)
          BY <3>2 DEF Front
        <4> HIDE DEF rest
        <4>4. /\ rest \in Seq(Range(undo))
              /\ Len(rest) = Len(undo) - 1
              /\ \A i \in 1..(Len(undo) - 1) : rest[i] = undo[i]
          BY <1>2, <4>1, <4>2, <4>3, SubSeqProperties
        <4>5. IsQueue(rest)
          BY <4>4, QueueOf
        <4> QED BY <1>2, <4>1, <4>4, <4>5, QueueFacts
      <3> QED BY <3>1, <3>2
    <2>2. undo' = Undone(rest)
      BY <1>5
    <2> HIDE DEF rest
    <2>3. CASE rest = <<>>
      <3>1. undo' = rest
        BY <2>2, <2>3 DEF Undone
      <3> QED BY <1>1, <1>2, <1>4, <2>1, <3>1, HistoryAfter
    <2>4. CASE rest # <<>>
      <3> DEFINE n == Len(rest)
                 r == undo[n]
                 q == Rebased(r, presentations', generations')
      <3>1. n \in 1..Len(rest) /\ n \in DOMAIN undo /\ rest[n] = r
        BY <2>1, <2>4, QueueFacts
      <3>2. generations' \in [Slots -> Nat]
        BY DEF RuntimeTypes
      <3>3. RecordSound(r) /\ TimelyAfter(r)
        BY <1>4, <3>1
      <3>4. undo' = [rest EXCEPT ![n] = q]
        BY <2>2, <2>4, <3>1 DEF Undone
      <3> HIDE DEF q, r
      <3>5. /\ RecordSound(q) /\ q.plan = r.plan
            /\ \/ q = r
               \/ \A s \in r.plan.scope :
                     q.generations[s] = generations'[s] /\ presentations'[s] = r.plan.presentations[s]
        BY <3>2, <3>3, RebasedGood DEF q
      <3>6. TimelyAfter(q)
        <4>1. CASE q = r
          BY <3>3, <4>1
        <4>2. CASE \A s \in r.plan.scope :
                     q.generations[s] = generations'[s] /\ presentations'[s] = r.plan.presentations[s]
          <5>1. r.plan.scope \subseteq Slots
            BY <3>3 DEF RecordSound, IsRecord, IsPlan
          <5> QED BY <3>2, <3>5, <4>2, <5>1 DEF TimelyAfter
        <4> QED BY <3>5, <4>1, <4>2
      <3>7. /\ DOMAIN undo' = 1..Len(rest)
            /\ \A i \in 1..Len(rest) : undo'[i] = IF i = n THEN q ELSE undo[i]
        BY <2>1, <3>4
      <3>8. \A i \in DOMAIN undo' : RecordSound(undo'[i]) /\ TimelyAfter(undo'[i])
        BY <1>4, <2>1, <3>5, <3>6, <3>7
      <3>9. IsQueue(undo') /\ Len(undo') = Len(rest)
        <4>1. undo' \in [1..Len(rest) -> Range(undo')]
          BY <3>4, <3>7 DEF Range
        <4>2. undo' \in Seq(Range(undo')) /\ Len(undo') = Len(rest)
          BY <2>1, <4>1, SeqDef, LenProperties
        <4> QED BY <4>2 DEF IsQueue
      <3> QED BY <1>1, <1>2, <2>1, <3>8, <3>9, HistoryAfter
    <2> QED BY <2>3, <2>4
  <1>6. CASE /\ committed # {}
             /\ LET grown == Append(undo, Capture(p, committed)) IN
                undo' = IF Len(grown) > UndoLimit THEN Tail(grown) ELSE grown
    <2> DEFINE r == Capture(p, committed)
               grown == Append(undo, r)
    <2>1. committed # {} /\ undo' = IF Len(grown) > UndoLimit THEN Tail(grown) ELSE grown
      BY <1>6
    <2>2. committed \in (SUBSET p.scope) \ {{}}
      BY <2>1 DEF CommitSound
    <2>3. \A w \in DOMAIN p.mutations : p.slots[w] \in committed => w \in DOMAIN snapshot
      <3>1. DOMAIN p.mutations \subseteq DOMAIN p.expected
        BY DEF PlanSound, IsPlan, Partial
      <3> QED BY <3>1 DEF CommitSound, Concerns, InPlace
    <2>4. /\ RecordSound(r) /\ r.plan.scope = committed
          /\ \A s \in committed :
               /\ r.generations[s] = generations[s] + 1
               /\ r.plan.presentations[s] = p.presentations[s]
      BY <2>2, <2>3, InvWorld, CaptureGood DEF WorkerInv
    <2> HIDE DEF r
    <2>5. TimelyAfter(r)
      <3>1. p.scope \subseteq Slots
        BY DEF PlanSound, IsPlan
      <3>2. \A s \in committed : generations[s] \in Nat /\ generations'[s] = generations[s] + 1
        BY <2>2, <3>1 DEF ConcludesWith, Bumped, WorkerInv, RuntimeTypes
      <3>3. \A s \in committed : presentations'[s] = p.presentations[s]
        BY <2>2, <3>1 DEF ConcludesWith, PresentationsAfter
      <3> QED BY <2>4, <3>2, <3>3 DEF TimelyAfter
    <2>6. /\ IsQueue(grown) /\ Len(grown) = Len(undo) + 1
          /\ \A i \in 1..Len(undo) : grown[i] = undo[i]
          /\ grown[Len(undo) + 1] = r
      BY <1>1, AppendFacts
    <2> HIDE DEF grown
    <2>7. DOMAIN grown = 1..(Len(undo) + 1) /\ grown # <<>>
      BY <1>2, <2>6, QueueFacts, EmptyQueue
    <2>8. \A i \in DOMAIN grown : RecordSound(grown[i]) /\ TimelyAfter(grown[i])
      <3>1. \A i \in DOMAIN grown : i \in DOMAIN undo \/ i = Len(undo) + 1
        BY <1>2, <2>7
      <3> QED BY <1>2, <1>4, <2>4, <2>5, <2>6, <3>1
    <2>9. CASE Len(grown) > UndoLimit
      <3>1. undo' = Tail(grown)
        BY <2>1, <2>9
      <3>2. /\ IsQueue(undo') /\ Len(undo') = Len(grown) - 1
            /\ \A i \in 1..Len(undo') : undo'[i] = grown[i + 1]
        BY <2>6, <2>7, <3>1, TailFacts
      <3>3. DOMAIN undo' = 1..Len(undo) /\ \A i \in DOMAIN undo' : i + 1 \in DOMAIN grown
        BY <1>2, <2>6, <2>7, <3>2, QueueFacts
      <3>4. \A i \in DOMAIN undo' : RecordSound(undo'[i]) /\ TimelyAfter(undo'[i])
        BY <1>2, <2>6, <2>8, <3>2, <3>3
      <3> QED BY <1>1, <1>2, <2>6, <3>2, <3>4, HistoryAfter
    <2>10. CASE ~(Len(grown) > UndoLimit)
      <3>1. undo' = grown
        BY <2>1, <2>10
      <3> QED BY <1>2, <2>6, <2>8, <2>10, <3>1, HistoryAfter
    <2> QED BY <2>9, <2>10
  <1>7. CASE undo' = undo
    BY <1>1, <1>4, <1>7, HistoryAfter
  <1> QED BY <1>5, <1>6, <1>7 DEF ConcludesWith

\* What the slots own after the end of a transition is what they show.
LEMMA CommitCoherent ==
    ASSUME PlannerAssumption, WorkerInv, NEW p, PlanSound(p),
           NEW committed, CommitSound(p, committed), ConcludesWith(p, committed),
           life' = life
    PROVE  OwnershipCoherent'
  <1>1. /\ claims' = ClaimsAfter(p, committed)
        /\ presentations' = PresentationsAfter(p, committed)
        /\ suspended' = suspended \cup (p.scope \ (Lost \cup committed))
    BY DEF ConcludesWith
  <1>2. /\ p.scope \subseteq Slots /\ Partial(p.desired, Windows, p.scope)
        /\ Partial(p.expected, Windows, Observation)
        /\ Partial(p.mutations, DOMAIN p.expected, Mutation)
        /\ Backed(p.desired, p.expected, p.presentations)
    BY DEF PlanSound, IsPlan
  <1>3. ASSUME NEW w \in Windows, claims'[w] # None
        PROVE  LET shown == presentations'[claims'[w]] IN
               /\ shown # None
               /\ w \in Shown[shown.view]
               /\ w \in DOMAIN shown.bindings
               /\ shown.bindings[w] = life'[w]
    <2>1. CASE Holds(p, w, committed)
      <3>1. /\ w \in DOMAIN p.desired /\ w \in DOMAIN p.expected
            /\ p.desired[w] \in committed /\ claims'[w] = p.desired[w]
        BY <1>1, <2>1 DEF Holds, ClaimsAfter
      <3>2. presentations'[claims'[w]] = p.presentations[p.desired[w]]
        BY <1>1, <1>2, <3>1 DEF PresentationsAfter, CommitSound
      <3>3. InPlace(p, w)
        BY <3>1 DEF CommitSound, Concerns
      <3>4. life[w] = p.expected[w].life
        <4>1. p.expected[w] \in Observation
          BY <1>2, <3>1 DEF Partial
        <4>2. Settling(p, w).life = p.expected[w].life
          BY <4>1 DEF Settling, Observation
        <4> QED BY <3>3, <4>2, InvWorld, SnapshotFacts DEF InPlace
      <3> QED BY <1>2, <3>1, <3>2, <3>4 DEF Backed
    <2>2. CASE ~Holds(p, w, committed)
      <3>1. claims'[w] = claims[w] /\ claims[w] \notin p.scope
        BY <1>1, <1>3, <2>2 DEF ClaimsAfter
      <3>2. claims[w] \in Slots
        BY <1>3, <3>1 DEF WorkerInv, RuntimeTypes
      <3>3. presentations'[claims'[w]] = presentations[claims[w]]
        BY <1>1, <3>1, <3>2 DEF PresentationsAfter, CommitSound
      <3> QED BY <1>3, <3>1, <3>3 DEF WorkerInv, OwnershipCoherent
    <2> QED BY <2>1, <2>2
  <1>4. ASSUME NEW s \in suspended' PROVE presentations'[s] = None
    <2>1. s \in Slots /\ s \notin committed
      BY <1>1, <1>2 DEF CommitSound, WorkerInv, RuntimeTypes
    <2>2. s \in p.scope \/ s \in suspended
      BY <1>1
    <2> QED BY <1>1, <2>1, <2>2 DEF PresentationsAfter, WorkerInv, OwnershipCoherent
  <1> QED BY <1>3, <1>4 DEF OwnershipCoherent

LEMMA ConcludeGood ==
    ASSUME PlannerAssumption, WorkerAssumption, WorkerInv, Conclude
    PROVE  WorkerInv'
  <1> DEFINE p == cur.plan
  <1>1. /\ phase = "settling" /\ phase' = "idle" /\ cur' = NoPlan /\ superseded' = {}
        /\ UNCHANGED <<paused, screen, topology, dragging, nevents, client, channel,
                       pending, gestures>>
    BY ConcludeFacts
  <1>2. PICK focused \in BOOLEAN : ConcludesWith(p, Verified(focused))
    BY ConcludeFacts
  <1>3. PlanSound(p) /\ PlanTimely(p)
    BY <1>1 DEF WorkerInv, PlansHold, Known
  <1> DEFINE committed == Verified(focused)
  <1>4. CommitSound(p, committed)
    BY <1>3, InvWorld, VerifiedGood
  <1> HIDE DEF committed, p
  <1>5. ConcludesWith(p, committed)
    BY <1>2 DEF committed
  <1>6. p.scope \subseteq Slots /\ p.id \in Nat
    BY <1>3 DEF PlanSound, IsPlan
  <1>7. Advances
    <2>1. \A s \in Slots \ p.scope : presentations'[s] = presentations[s]
      BY <1>4, <1>5 DEF ConcludesWith, PresentationsAfter, CommitSound
    <2> QED BY <1>5, <2>1, BumpAdvances DEF WorkerInv, ConcludesWith
  <1>8. RuntimeTypes'
    <2>1. claims' \in [Windows -> Slots \cup {None}]
      <3>1. \A w \in Windows : Holds(p, w, committed) => p.desired[w] \in Slots
        BY <1>4, <1>6 DEF Holds, CommitSound
      <3> QED BY <1>5, <3>1 DEF ConcludesWith, ClaimsAfter, WorkerInv, RuntimeTypes
    <2>2. Presents(presentations') /\ DOMAIN presentations' = Slots
      <3>1. \A s \in committed : IsPresentation(p.presentations[s])
        BY <1>3, <1>4 DEF PlanSound, IsPlan, Presents, CommitSound
      <3>2. IsPresentation(None)
        BY DEF IsPresentation
      <3> QED BY <1>5, <3>1, <3>2
           DEF ConcludesWith, PresentationsAfter, Presents, WorkerInv, RuntimeTypes
    <2>3. generations' \in [Slots -> Nat]
      BY <1>5, BumpedFacts DEF ConcludesWith, WorkerInv
    <2>4. suspended' \subseteq Slots /\ paused' \in BOOLEAN
      BY <1>1, <1>5, <1>6 DEF ConcludesWith, WorkerInv, RuntimeTypes
    <2>5. /\ completed' \subseteq Nat /\ IsFiniteSet(completed')
          /\ Cardinality(completed') <= CompletedLimit
      <3>1. PICK larger \in {completed, Remember(p.id)} : completed' \subseteq larger
        BY <1>5 DEF ConcludesWith
      <3>2. /\ larger \subseteq Nat /\ IsFiniteSet(larger)
            /\ Cardinality(larger) <= CompletedLimit
        BY <1>6, RememberGood DEF WorkerInv, RuntimeTypes
      <3>3. IsFiniteSet(completed') /\ Cardinality(completed') <= Cardinality(larger)
        BY <3>1, <3>2, FS_Subset
      <3>4. Cardinality(completed') \in Nat /\ Cardinality(larger) \in Nat /\ CompletedLimit \in Nat
        BY <3>2, <3>3, FS_CardinalityType DEF WorkerAssumption
      <3> QED BY <3>1, <3>2, <3>3, <3>4
    <2> QED BY <2>1, <2>2, <2>3, <2>4, <2>5 DEF RuntimeTypes
  <1>9. OwnershipCoherent'
    BY <1>1, <1>3, <1>4, <1>5, <1>8, CommitCoherent DEF screen
  <1>10. RecordsHold' /\ Len(undo') <= UndoLimit
    BY <1>3, <1>4, <1>5, <1>7, <1>8, HistoryGood
  <1>11. ScreenTypes'
    <2>1. UNCHANGED posted \/ (\E failed : Reveal(failed))
      BY <1>5 DEF ConcludesWith
    <2>2. posted' \in [Windows -> Seq(Mutation)]
      BY <2>1, RevealTypes DEF WorkerInv, ScreenTypes
    <2> QED BY <1>1, <2>2 DEF WorkerInv, ScreenTypes, screen
  <1>12. ClientTypes'
    BY <1>1 DEF WorkerInv, ClientTypes, client
  <1>13. WorkTypes'
    BY <1>1, <1>5, <1>10 DEF ConcludesWith, WorkerInv, WorkTypes
  <1>14. QueuesHold' /\ UrgentFirst' /\ HandsOff'
    BY <1>1 DEF WorkerInv, QueuesHold, UrgentFirst, HandsOff
  <1>15. Known' \subseteq Known
    BY <1>1 DEF Known, client
  <1>16. PlansHold'
    BY <1>7, <1>15, KnownStays
  <1> QED BY <1>8, <1>9, <1>10, <1>11, <1>12, <1>13, <1>14, <1>16 DEF WorkerInv

-----------------------------------------------------------------------------
(* The invariant.                                                            *)

LEMMA InitGood == ASSUME PlannerAssumption, WorkerAssumption, Init PROVE WorkerInv
  <1> USE DEF Init
  <1>1. RuntimeTypes
    <2>1. Presents(presentations) /\ DOMAIN presentations = Slots
      BY DEF Presents, IsPresentation
    <2>2. completed \subseteq Nat /\ IsFiniteSet(completed) /\ Cardinality(completed) = 0
      BY FS_EmptySet
    <2>3. Cardinality(completed) <= CompletedLimit
      BY <2>2 DEF WorkerAssumption
    <2> QED BY <2>1, <2>2, <2>3 DEF RuntimeTypes
  <1>2. ScreenTypes
    <2>1. Free \in Places
      BY DEF Places
    <2>2. posted \in [Windows -> Seq(Mutation)]
      OBVIOUS
    <2> QED BY <2>1, <2>2 DEF ScreenTypes
  <1>3. ClientTypes
    BY DEF ClientTypes
  <1>4. WorkTypes
    BY EmptyQueue DEF WorkTypes, WorkerAssumption
  <1>5. OwnershipCoherent
    BY DEF OwnershipCoherent
  <1>6. QueuesHold /\ PlansOf(channel) = {} /\ PlansOf(pending) = {}
    BY EmptyQueue DEF QueuesHold, QueueSound, PlansOf
  <1>7. PlansHold
    BY <1>6 DEF PlansHold, Known
  <1>8. DOMAIN undo = {} /\ DOMAIN pending = {}
    OBVIOUS
  <1>9. RecordsHold
    BY <1>8, EmptyQueue DEF RecordsHold
  <1>10. UrgentFirst /\ HandsOff
    BY <1>8 DEF UrgentFirst, HandsOff
  <1> QED BY <1>1, <1>2, <1>3, <1>4, <1>5, <1>6, <1>7, <1>9, <1>10 DEF WorkerInv

LEMMA StutterGood == ASSUME WorkerInv, UNCHANGED vars PROVE WorkerInv'
  <1>1. /\ UNCHANGED <<runtime, screen, topology, posted, channel, pending, phase, cur,
                       superseded, undo, undoing, gestures>>
        /\ UNCHANGED <<repertoire, sent, held>>
    BY DEF vars, native, client, execution, history
  <1>2. Advances /\ RuntimeTypes' /\ OwnershipCoherent' /\ RecordsHold'
    BY <1>1, StillInv, RecordsStay DEF screen
  <1>3. ScreenTypes'
    BY <1>1, ScreenStays DEF WorkerInv
  <1>4. ClientTypes' /\ WorkTypes'
    BY <1>1 DEF WorkerInv, ClientTypes, WorkTypes
  <1>5. QueuesHold' /\ UrgentFirst' /\ HandsOff'
    BY <1>1 DEF WorkerInv, QueuesHold, UrgentFirst, HandsOff
  <1>6. Known' = Known
    BY <1>1 DEF Known
  <1>7. PlansHold'
    BY <1>2, <1>6, KnownStays
  <1> QED BY <1>2, <1>3, <1>4, <1>5, <1>7 DEF WorkerInv

LEMMA NextGood ==
    ASSUME PlannerAssumption, WorkerAssumption, WorkerInv, [Next]_vars
    PROVE  WorkerInv'
  <1>1. CASE ClientStep
    BY <1>1, ClientGood
  <1>2. CASE EnvironmentStep
    BY <1>2, EnvironmentGood
  <1>3. CASE WorkerStep
    <2>1. CASE CommandStep
      BY <2>1, CommandGood
    <2>2. CASE \E s \in Slots : Reflow(s)
      BY <2>2, ReflowGood
    <2>3. CASE IdleGestureStarted \/ IdleGestureEnded
               \/ DrainGestureStarted \/ DrainGestureEnded
      BY <2>3, GestureGood
    <2>4. CASE DrainCommand
      BY <2>4, DrainGood
    <2>5. CASE Conclude
      BY <2>5, ConcludeGood
    <2>6. CASE Abandon
      BY <2>6, AbandonGood
    <2> QED BY <1>3, <2>1, <2>2, <2>3, <2>4, <2>5, <2>6 DEF WorkerStep
  <1>4. CASE UNCHANGED vars
    BY <1>4, StutterGood
  <1> QED BY <1>1, <1>2, <1>3, <1>4 DEF Next

\* The worker's invariant holds in every reachable state: of every plan and undo
\* record that may still be carried out, every queue and every slot.
THEOREM WorkerSafe ==
    ASSUME PlannerAssumption, WorkerAssumption PROVE Spec => []WorkerInv
  <1>1. Init => WorkerInv
    BY InitGood
  <1>2. WorkerInv /\ [Next]_vars => WorkerInv'
    BY NextGood
  <1> QED BY <1>1, <1>2, PTL DEF Spec

\* Every variable of the runtime, the screen and the worker has its type; the
\* undo history and the completed requests keep within their limits.
THEOREM WorkerTypes ==
    ASSUME PlannerAssumption, WorkerAssumption PROVE Spec => []TypeOK
  <1>1. WorkerInv => TypeOK
    BY InvTypes
  <1> QED BY <1>1, WorkerSafe, PTL

\* A window belongs to a slot only while the slot shows a view with the window
\* in a selected tab, in the lifetime presented; suspended slots show nothing.
THEOREM OwnershipIsCoherent ==
    ASSUME PlannerAssumption, WorkerAssumption PROVE Spec => []OwnershipCoherent
  <1>1. WorkerInv => OwnershipCoherent
    BY DEF WorkerInv
  <1> QED BY <1>1, WorkerSafe, PTL

\* UndoRecord::reverse finds in `after` every window that it changes back.
THEOREM UndoIsComplete ==
    ASSUME PlannerAssumption, WorkerAssumption PROVE Spec => []UndoComplete
  <1>1. WorkerInv => UndoComplete
    BY DEF WorkerInv, RecordsHold, RecordSound, UndoComplete
  <1> QED BY <1>1, WorkerSafe, PTL

-----------------------------------------------------------------------------
(* What a step does to the slots.                                            *)

LEMMA SlotSteps ==
    ASSUME Next
    PROVE  \/ Conclude \/ Recover \/ Supersede \/ (Bind /\ Waiting) \/ Protect
           \/ UNCHANGED <<claims, presentations, generations>>
  <1> USE DEF runtime
  <1>1. CASE ClientStep
    BY <1>1 DEF ClientStep, SendPreview, SendApply, SendPause, SendSimple, SendUndo,
                SendBind, SendProtect, SendSupersede, Send
  <1>2. CASE EnvironmentStep
    BY <1>2 DEF EnvironmentStep, Deliver, Disturb, Close, DragStart, DragEnd,
                TopologyChange, Environment
  <1>3. CASE CommandStep
    BY <1>3 DEF CommandStep, Fail, Preview, Apply, Submit, Undo, Pause, RecoverPartly,
                Shutdown
  <1>4. CASE \E s \in Slots : Reflow(s)
    BY <1>4 DEF Reflow, Submit
  <1>5. CASE \/ IdleGestureStarted \/ IdleGestureEnded
             \/ DrainGestureStarted \/ DrainGestureEnded \/ DrainCommand \/ Abandon
    BY <1>5 DEF IdleGestureStarted, IdleGestureEnded, DrainGestureStarted,
                DrainGestureEnded, DrainCommand, Abandon, Keep
  <1> QED BY <1>1, <1>2, <1>3, <1>4, <1>5 DEF Next, WorkerStep

LEMMA IdleReceives == ASSUME NEW kind, Receive(kind) PROVE phase = "idle"
  BY DEF Receive

LEMMA ConcludesFacts ==
    ASSUME PlannerAssumption, WorkerAssumption, WorkerInv, [Next]_vars, Concludes
    PROVE  /\ Conclude
           /\ PlanSound(cur.plan)
           /\ \E committed : /\ CommitSound(cur.plan, committed)
                             /\ ConcludesWith(cur.plan, committed)
  <1>1. phase = "settling" /\ generations' # generations
    BY DEF Concludes
  <1>2. Next
    BY <1>1 DEF vars, runtime
  <1>3. Conclude
    BY <1>1, <1>2, SlotSteps, IdleReceives DEF Recover, Supersede, Bind, Protect
  <1>4. PlanSound(cur.plan) /\ PlanTimely(cur.plan)
    BY <1>1 DEF WorkerInv, PlansHold, Known
  <1> QED BY <1>3, <1>4, InvWorld, VerifiedGood, ConcludeFacts

\* A slot that ends up showing something has been committed.
LEMMA CommittedFacts ==
    ASSUME NEW committed, CommitSound(cur.plan, committed), PlanSound(cur.plan),
           ConcludesWith(cur.plan, committed)
    PROVE  /\ Committed \subseteq committed
           /\ \A s \in committed : presentations'[s] = cur.plan.presentations[s]
  <1>1. /\ presentations' = PresentationsAfter(cur.plan, committed)
        /\ cur.plan.scope \subseteq Slots /\ committed \subseteq cur.plan.scope
    BY DEF ConcludesWith, PlanSound, IsPlan, CommitSound
  <1> QED BY <1>1 DEF Committed, PresentationsAfter

\* A slot is committed only from the presentation its plan was made against.
THEOREM AuthorityIsFresh ==
    ASSUME PlannerAssumption, WorkerAssumption PROVE Spec => FreshAuthority
  <1>1. WorkerInv /\ [Next]_vars =>
          [Concludes => \A s \in Committed : presentations[s] = cur.plan.base[s]]_vars
    <2> SUFFICES ASSUME WorkerInv, [Next]_vars, Concludes
                 PROVE  \A s \in Committed : presentations[s] = cur.plan.base[s]
      OBVIOUS
    <2> QED BY ConcludesFacts, CommittedFacts DEF CommitSound
  <1> QED BY <1>1, WorkerSafe, PTL DEF Spec, FreshAuthority

\* The slots of a connected domain are committed together or not at all.
THEOREM DomainsAreAtomic ==
    ASSUME PlannerAssumption, WorkerAssumption PROVE Spec => DomainAtomic
  <1>1. WorkerInv /\ [Next]_vars =>
          [Concludes => \A d \in cur.plan.domains : Committed \cap d # {} =>
             \A s \in d : presentations'[s] = cur.plan.presentations[s]]_vars
    <2> SUFFICES ASSUME WorkerInv, [Next]_vars, Concludes,
                        NEW d \in cur.plan.domains, Committed \cap d # {}
                 PROVE  \A s \in d : presentations'[s] = cur.plan.presentations[s]
      OBVIOUS
    <2>1. PICK committed : /\ CommitSound(cur.plan, committed)
                           /\ ConcludesWith(cur.plan, committed)
      BY ConcludesFacts
    <2>2. /\ Committed \subseteq committed
          /\ \A s \in committed : presentations'[s] = cur.plan.presentations[s]
      BY <2>1, ConcludesFacts, CommittedFacts
    <2>3. d \subseteq committed
      BY <2>1, <2>2 DEF CommitSound
    <2> QED BY <2>2, <2>3
  <1> QED BY <1>1, WorkerSafe, PTL DEF Spec, DomainAtomic

\* A slot is not committed while the user holds a window placed there.
THEOREM HeldIsNotCommitted ==
    ASSUME PlannerAssumption, WorkerAssumption PROVE Spec => HeldNotCommitted
  <1>1. WorkerInv /\ [Next]_vars =>
          [Concludes => \A g \in gestures : g[1] \in DOMAIN cur.plan.desired =>
             cur.plan.desired[g[1]] \notin Committed]_vars
    <2> SUFFICES ASSUME WorkerInv, [Next]_vars, Concludes,
                        NEW g \in gestures, g[1] \in DOMAIN cur.plan.desired
                 PROVE  cur.plan.desired[g[1]] \notin Committed
      OBVIOUS
    <2>1. PICK committed : /\ CommitSound(cur.plan, committed)
                           /\ ConcludesWith(cur.plan, committed)
      BY ConcludesFacts
    <2>2. Committed \subseteq committed /\ committed \cap superseded = {}
      BY <2>1, ConcludesFacts, CommittedFacts DEF CommitSound
    <2>3. cur.plan.desired[g[1]] \in superseded
      BY DEF WorkerInv, HandsOff, Concludes
    <2> QED BY <2>2, <2>3
  <1> QED BY <1>1, WorkerSafe, PTL DEF Spec, HeldNotCommitted

\* Nothing is committed once a pause, recovery or shutdown has been received.
THEOREM UrgentCommandsWin ==
    ASSUME PlannerAssumption, WorkerAssumption PROVE Spec => UrgentWins
  <1>1. WorkerInv /\ [Next]_vars =>
          [(Concludes /\ \E i \in DOMAIN pending : Urgent(pending[i])) =>
             Committed = {}]_vars
    <2> SUFFICES ASSUME WorkerInv, [Next]_vars, Concludes,
                        \E i \in DOMAIN pending : Urgent(pending[i])
                 PROVE  Committed = {}
      OBVIOUS
    <2>1. PICK committed : /\ CommitSound(cur.plan, committed)
                           /\ ConcludesWith(cur.plan, committed)
      BY ConcludesFacts
    <2>2. /\ Committed \subseteq committed
          /\ committed \cap superseded = {} /\ committed \subseteq cur.plan.scope
      BY <2>1, ConcludesFacts, CommittedFacts DEF CommitSound
    <2>3. superseded = cur.plan.scope
      BY DEF WorkerInv, UrgentFirst, Concludes
    <2> QED BY <2>2, <2>3
  <1> QED BY <1>1, WorkerSafe, PTL DEF Spec, UrgentWins

\* Windows are claimed only by the end of a transition; the other steps that
\* change ownership release windows.
LEMMA ReleaseSteps ==
    ASSUME Recover \/ Supersede \/ Bind \/ Protect, claims \in [Windows -> Slots \cup {None}]
    PROVE  \A w \in Windows : claims'[w] \in {None, claims[w]}
  <1>1. CASE Recover
    BY <1>1 DEF Recover, Disowned
  <1>2. CASE Supersede
    BY <1>2 DEF Supersede
  <1>3. CASE Bind
    BY <1>3 DEF Bind, Disowned
  <1>4. CASE Protect
    BY <1>4 DEF Protect
  <1> QED BY <1>1, <1>2, <1>3, <1>4

\* A window is claimed only while it is the window the plan was made for, and as the plan
\* wants it: visible in its slot, or, by a reversal, where and as it was (Plan::commit,
\* Plan::settled_scope, UndoRecord::reverse).
THEOREM ClaimsAreInPlace ==
    ASSUME PlannerAssumption, WorkerAssumption PROVE Spec => ClaimsInPlace
  <1>1. WorkerInv /\ [Next]_vars =>
          [\A w \in Windows : claims'[w] \notin {None, claims[w]} =>
            LET settled == Settling(cur.plan, w) IN
            /\ alive[w] /\ life[w] = cur.plan.expected[w].life
            /\ at[w] = settled.at /\ visible[w] = settled.visible
            /\ cur.plan.mode # "undo" => visible[w] /\ at[w] = claims'[w]]_vars
    <2> SUFFICES ASSUME WorkerInv, [Next]_vars, NEW w \in Windows,
                        claims'[w] \notin {None, claims[w]}
                 PROVE  /\ alive[w] /\ life[w] = cur.plan.expected[w].life
                        /\ at[w] = Settling(cur.plan, w).at
                        /\ visible[w] = Settling(cur.plan, w).visible
                        /\ cur.plan.mode # "undo" => visible[w] /\ at[w] = claims'[w]
      OBVIOUS
    <2> DEFINE p == cur.plan
    <2>1. World /\ claims \in [Windows -> Slots \cup {None}]
      BY InvWorld DEF World
    <2>2. Next
      BY DEF vars, runtime
    <2>3. Conclude
      BY <2>1, <2>2, SlotSteps, ReleaseSteps
    <2>4. phase = "settling"
      BY <2>3, ConcludeFacts
    <2>5. PlanSound(p) /\ PlanTimely(p)
      BY <2>4 DEF WorkerInv, PlansHold, Known
    <2>6. PICK committed : CommitSound(p, committed) /\ ConcludesWith(p, committed)
      BY <2>1, <2>3, <2>5, VerifiedGood, ConcludeFacts
    <2> HIDE DEF p
    <2>7. Holds(p, w, committed) /\ claims'[w] = p.desired[w]
      BY <2>6 DEF ConcludesWith, ClaimsAfter
    <2>8. w \in DOMAIN p.desired /\ w \in DOMAIN p.expected /\ InPlace(p, w)
      BY <2>6, <2>7 DEF Holds, CommitSound, Concerns
    <2>9. p.mode # "undo" => Settling(p, w).at = p.desired[w] /\ Settling(p, w).visible = TRUE
      BY <2>5, <2>8 DEF PlanSound, Arrives, p
    <2>10. Settling(p, w).life = p.expected[w].life
      <3>1. p.expected[w] \in Observation
        BY <2>5, <2>8 DEF PlanSound, IsPlan, Partial
      <3> QED BY <3>1 DEF Settling, Observation
    <2>11. alive[w] /\ Settling(p, w) = [life |-> life[w], at |-> at[w], visible |-> visible[w]]
      BY <2>1, <2>8, SnapshotFacts DEF InPlace
    <2>12. /\ alive[w] /\ life[w] = p.expected[w].life
           /\ at[w] = Settling(p, w).at /\ visible[w] = Settling(p, w).visible
      BY <2>10, <2>11
    <2>13. p.mode # "undo" => visible[w] /\ at[w] = claims'[w]
      BY <2>7, <2>9, <2>12
    <2> QED BY <2>12, <2>13 DEF p
  <1> QED BY <1>1, WorkerSafe, PTL DEF Spec, ClaimsInPlace

-----------------------------------------------------------------------------
(* The promise about slots.                                                  *)

LEMMA CountsFacts ==
    ASSUME NEW slots, generations' = Bumped(slots) PROVE Ownership!Counts(slots \cap Slots)
  BY DEF Bumped, Ownership!Counts

LEMMA RecoverReleases ==
    ASSUME PlannerAssumption, WorkerInv, Recover PROVE Ownership!Release(Presented)
  <1>1. /\ claims' = Disowned(Slots) /\ presentations' = Unpresented(Slots)
        /\ generations' = Bumped(Presented)
    BY DEF Recover
  <1>2. \A w \in Windows : claims[w] = None \/ claims[w] \in Presented
    BY DEF WorkerInv, RuntimeTypes, OwnershipCoherent, Presented
  <1>3. None \notin Slots /\ Presented \subseteq Slots
    BY DEF PlannerAssumption, Presented
  <1>4. Disowned(Slots) = Disowned(Presented)
    BY <1>2, <1>3 DEF Disowned
  <1>5. Unpresented(Slots) = Unpresented(Presented)
    BY DEF Unpresented, Presented
  <1>6. Ownership!Counts(Presented \cap Slots) /\ Presented \cap Slots = Presented
    BY <1>1, <1>3, CountsFacts
  <1> QED BY <1>1, <1>4, <1>5, <1>6 DEF Disowned, Unpresented, Ownership!Release

LEMMA BindReleases ==
    ASSUME WorkerInv, Bind, Waiting
    PROVE  \E slots \in SUBSET Slots : Ownership!Release(slots)
  <1> DEFINE owner == {claims[Command.window]} \ {None}
  <1>1. /\ claims' = Disowned(owner) /\ presentations' = Unpresented(owner)
        /\ generations' = Bumped(owner) /\ Receive("bind")
    BY DEF Bind
  <1>2. Command.window \in Windows
    BY <1>1, SetAside DEF WorkerInv, SoundCommand
  <1>3. owner \subseteq Slots
    BY <1>2 DEF WorkerInv, RuntimeTypes
  <1> HIDE DEF owner
  <1>4. Ownership!Counts(owner)
    <2>1. owner \cap Slots = owner
      BY <1>3
    <2> QED BY <1>1, <2>1, CountsFacts
  <1>5. Ownership!Release(owner)
    BY <1>1, <1>4 DEF Disowned, Unpresented, Ownership!Release
  <1> QED BY <1>3, <1>5

LEMMA ConcludeSettles ==
    ASSUME PlannerAssumption, WorkerAssumption, WorkerInv, Conclude
    PROVE  \E slots \in SUBSET Slots : \E kept \in SUBSET slots : Ownership!Settle(slots, kept)
  <1> DEFINE p == cur.plan
  <1>1. phase = "settling"
    BY ConcludeFacts
  <1>2. PlanSound(p) /\ PlanTimely(p)
    BY <1>1 DEF WorkerInv, PlansHold, Known
  <1>3. PICK committed : CommitSound(p, committed) /\ ConcludesWith(p, committed)
    BY <1>2, InvWorld, VerifiedGood, ConcludeFacts
  <1> HIDE DEF p
  <1> DEFINE kept == {s \in committed : p.presentations[s] # None}
  <1>4. /\ claims' = ClaimsAfter(p, committed)
        /\ presentations' = PresentationsAfter(p, committed)
        /\ generations' = Bumped(p.scope)
    BY <1>3 DEF ConcludesWith
  <1>5. p.scope \subseteq Slots /\ committed \subseteq p.scope /\ kept \subseteq committed
    BY <1>2, <1>3 DEF PlanSound, IsPlan, CommitSound
  <1>6. Ownership!Counts(p.scope)
    <2>1. p.scope \cap Slots = p.scope
      BY <1>5
    <2> QED BY <1>4, <2>1, CountsFacts
  <1>7. DOMAIN presentations' = Slots
    BY <1>4 DEF PresentationsAfter
  <1>8. claims' \in [Windows -> Slots \cup {None}]
    BY ConcludeGood DEF WorkerInv, RuntimeTypes
  <1>9. ASSUME NEW s \in Slots
        PROVE  IF s \in kept THEN presentations'[s] # None
               ELSE presentations'[s] = IF s \in p.scope THEN None ELSE presentations[s]
    BY <1>4, <1>5 DEF PresentationsAfter
  <1>10. ASSUME NEW w \in Windows
         PROVE  \/ claims'[w] = claims[w] /\ claims[w] \notin p.scope \ kept
                \/ claims[w] \in p.scope \cup {None} /\ claims'[w] \in kept \cup {None}
    <2>1. CASE Holds(p, w, committed)
      <3>1. /\ w \in DOMAIN p.desired /\ w \in DOMAIN p.expected /\ p.desired[w] \in committed
            /\ claims'[w] = p.desired[w]
        BY <1>4, <2>1 DEF Holds, ClaimsAfter
      <3>2. claims[w] \in committed \cup {None}
        BY <1>3, <3>1 DEF CommitSound
      <3>3. p.desired[w] \in kept
        BY <1>2, <3>1 DEF PlanSound, Backed
      <3> QED BY <1>5, <3>1, <3>2, <3>3
    <2>2. CASE ~Holds(p, w, committed)
      BY <1>4, <2>2 DEF ClaimsAfter
    <2> QED BY <2>1, <2>2
  <1> HIDE DEF kept
  <1>11. Ownership!Settle(p.scope, kept)
    BY <1>6, <1>7, <1>8, <1>9, <1>10 DEF Ownership!Settle
  <1> QED BY <1>5, <1>11

LEMMA PromisedStep ==
    ASSUME PlannerAssumption, WorkerAssumption, WorkerInv, [Next]_vars
    PROVE  [Ownership!Next]_(Ownership!promised)
  <1>1. CASE Conclude
    BY <1>1, ConcludeSettles DEF Ownership!Next
  <1>2. CASE Recover
    <2>1. Presented \subseteq Slots
      BY DEF Presented
    <2> QED BY <1>2, <2>1, RecoverReleases DEF Ownership!Next
  <1>3. CASE Bind /\ Waiting
    BY <1>3, BindReleases DEF Ownership!Next
  <1>4. CASE Supersede
    <2>1. generations' = Bumped(Command.scope) /\ UNCHANGED <<claims, presentations>>
      BY <1>4 DEF Supersede
    <2>2. Ownership!Outdate(Command.scope \cap Slots)
      BY <2>1, CountsFacts DEF Ownership!Outdate
    <2>3. Command.scope \cap Slots \subseteq Slots
      OBVIOUS
    <2> QED BY <2>2, <2>3 DEF Ownership!Next
  <1>5. CASE Protect
    <2>1. generations' = Bumped({Command.slot}) /\ UNCHANGED <<claims, presentations>>
      BY <1>5 DEF Protect
    <2>2. Ownership!Outdate({Command.slot} \cap Slots)
      BY <2>1, CountsFacts DEF Ownership!Outdate
    <2>3. {Command.slot} \cap Slots \subseteq Slots
      OBVIOUS
    <2> QED BY <2>2, <2>3 DEF Ownership!Next
  <1>6. CASE UNCHANGED <<claims, presentations, generations>>
    BY <1>6 DEF Ownership!promised
  <1>7. UNCHANGED vars => UNCHANGED <<claims, presentations, generations>>
    BY DEF vars, runtime
  <1> QED BY <1>1, <1>2, <1>3, <1>4, <1>5, <1>6, <1>7, SlotSteps

\* The worker implements SlotOwnership: what a slot shows or owns changes only with
\* its generation, and a window passes between slots in one step of both.
THEOREM PromiseKept ==
    ASSUME PlannerAssumption, WorkerAssumption PROVE Spec => OwnershipPromise
  <1>1. Init => Ownership!Init
    BY DEF Init, Ownership!Init
  <1>2. WorkerInv /\ [Next]_vars => [Ownership!Next]_(Ownership!promised)
    BY PromisedStep
  <1> QED BY <1>1, <1>2, WorkerSafe, PTL DEF Spec, OwnershipPromise, Ownership!Spec
=============================================================================
