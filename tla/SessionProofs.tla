------------------------------ MODULE SessionProofs ------------------------------
(***************************************************************************)
(* That the automation session answers each request once, carries out no    *)
(* plan twice, and that the workspace pairs each answer with its request,     *)
(* for every client, limit and order of what the worker says.                 *)
(***************************************************************************)
EXTENDS SessionClients, QueueLemmas

-----------------------------------------------------------------------------
(* What is in each variable.                                                 *)

TaskTypes ==
    /\ task = [id |-> task.id, of |-> task.of, todo |-> task.todo, heard |-> task.heard,
               plan |-> task.plan]
    /\ IsQueue(task.todo) /\ IsQueue(task.heard)
    /\ task.id \in Nat \/ task = Idle

LineTypes ==
    /\ IsQueue(inbox) /\ IsQueue(outbox)
    /\ \A i \in 1..Len(inbox) : inbox[i] = Request(inbox[i].id, inbox[i].command)
                                /\ inbox[i].id \in Nat /\ inbox[i].command.kind \in Kinds

ReplayTypes ==
    /\ IsQueue(replay)
    /\ ghost = [executed |-> ghost.executed, applied |-> ghost.applied, twice |-> ghost.twice]
    /\ IsQueue(ghost.executed)

CommandKinds == {"refresh", "preview", "apply", "tell", "barrier"}

WorkerTypes ==
    /\ IsQueue(queue) /\ IsQueue(events)
    /\ \A i \in 1..Len(queue) : queue[i].kind \in CommandKinds
    /\ spent = [tokens |-> spent.tokens, late |-> spent.late, unasked |-> spent.unasked]
    /\ spent.tokens \in Nat /\ spent.late \in Nat /\ spent.unasked \in Nat

\* Commands the controller will send.
KindList(q) == IsQueue(q) /\ \A i \in 1..Len(q) : q[i] \in Kinds

HostTypes ==
    /\ sent \in Nat
    /\ host = [up |-> host.up, script |-> host.script, asked |-> host.asked,
               wanted |-> host.wanted, revision |-> host.revision, plan |-> host.plan,
               candidate |-> host.candidate, waits |-> host.waits, mixed |-> host.mixed]
    /\ host.asked = None \/ host.asked \in Nat
    /\ host.script = [purpose |-> host.script.purpose, todo |-> host.script.todo]
    /\ KindList(host.script.todo)
    /\ known = [asks |-> known.asks, revision |-> known.revision, tokens |-> known.tokens,
                at |-> known.at]
    /\ known.asks \subseteq Kinds

SessionTypes == TaskTypes /\ LineTypes /\ ReplayTypes /\ WorkerTypes /\ HostTypes

-----------------------------------------------------------------------------
(* What a step may do, in a few words.                                       *)

\* The request goes on.
Moves ==
    /\ \E todo, heard, plan :
        /\ task' = [task EXCEPT !.todo = todo, !.heard = heard, !.plan = plan]
        /\ IsQueue(todo) /\ IsQueue(heard)
    /\ UNCHANGED <<outbox, replay, ghost>>

Answers == \E ok, value, l : AnswerWith(ok, value, l)

\* The client starts the session anew.
Renewed == Fresh(file) /\ UNCHANGED <<file, spent>>

\* It does nothing but write and read lines.
Kept == UNCHANGED <<task, memory, worker, spent, ghost>>

LEMMA TaskBusy ==
    ASSUME TaskTypes, task.todo # <<>> PROVE task # Idle /\ task.id \in Nat
  BY DEF TaskTypes, Idle

LEMMA RestMoves ==
    ASSUME TaskTypes, task.todo # <<>>, task' = Rest, UNCHANGED <<outbox, replay, ghost>>
    PROVE  Moves
  <1>1. IsQueue(Tail(task.todo)) /\ IsQueue(task.heard)
    BY TailFacts DEF TaskTypes
  <1>2. task' = [task EXCEPT !.todo = Tail(task.todo), !.heard = task.heard,
                             !.plan = task.plan]
    BY DEF Rest, TaskTypes
  <1> QED BY <1>1, <1>2 DEF Moves

\* Where the barrier waited for is.
Until == CHOOSE n \in DOMAIN events : events[n] = Barrier

LEMMA UntilFacts ==
    ASSUME WorkerTypes, Contains(events, Barrier)
    PROVE  Until \in 1..Len(events) /\ Len(events) \in Nat /\ events[Until] = Barrier
  <1>1. DOMAIN events = 1..Len(events) /\ Len(events) \in Nat
    BY QueueFacts DEF WorkerTypes
  <1>2. \E n \in DOMAIN events : events[n] = Barrier
    BY <1>1 DEF Contains
  <1>3. Until \in DOMAIN events /\ events[Until] = Barrier
    BY <1>2 DEF Until
  <1> QED BY <1>1, <1>3

LEMMA StepEffect ==
    ASSUME SessionTypes, SessionStep
    PROVE  \/ Receive
           \/ Replays
           \/ task.todo # <<>> /\ inbox' = inbox /\ (Moves \/ Answers)
  <1> USE DEF SessionTypes
  <1>1. CASE Receive \/ Replays
    BY <1>1
  <1>2. ASSUME NEW step, Doing(step), Goes PROVE Moves
    BY <1>2, RestMoves DEF Doing, Goes
  <1>3. ASSUME Fail PROVE Answers
    BY <1>3 DEF Fail, Answers
  <1>4. CASE Current \/ Room \/ Candidate
    BY <1>2, <1>3, <1>4 DEF Current, Room, Candidate, Doing
  <1>5. CASE Take
    <2>1. CASE Fail
      BY <1>3, <1>5, <2>1 DEF Take, Doing
    <2>2. CASE ~Fail
      <3> DEFINE plan == CHOOSE p \in plans : p.number = task.of.token
      <3>1. task.todo # <<>> /\ inbox' = inbox /\ UNCHANGED <<outbox, replay, ghost>>
        BY <1>5, <2>2 DEF Take, Doing
      <3>2. task' = [Rest EXCEPT !.plan = plan]
        BY <1>5, <2>2 DEF Take
      <3>3. IsQueue(Tail(task.todo)) /\ IsQueue(task.heard)
        BY <3>1, TailFacts DEF TaskTypes
      <3> HIDE DEF plan
      <3>4. task' = [task EXCEPT !.todo = Tail(task.todo), !.heard = task.heard,
                                 !.plan = plan]
        BY <3>2 DEF Rest, TaskTypes
      <3> QED BY <3>1, <3>3, <3>4 DEF Moves
    <2> QED BY <2>1, <2>2
  <1>6. CASE Save \/ Restore
    <2>1. task.todo # <<>> /\ inbox' = inbox
      BY <1>6 DEF Save, Restore, Doing
    <2>2. Fail \/ (task' = Rest /\ UNCHANGED <<outbox, replay, ghost>>)
      BY <1>6 DEF Save, Restore, Goes
    <2> QED BY <1>3, <2>1, <2>2, RestMoves
  <1>7. CASE Exchange
    <2> DEFINE todo == <<"wait">> \o (IF Head(task.todo) = "apply" THEN <<"apply.done">>
                                      ELSE Tail(task.todo))
    <2>1. /\ task.todo # <<>> /\ inbox' = inbox /\ UNCHANGED <<outbox, replay, ghost>>
          /\ task' = [task EXCEPT !.todo = todo]
      BY <1>7 DEF Exchange, memory
    <2>2. IsQueue(<<"apply.done">>) /\ IsQueue(Tail(task.todo))
      <3>1. <<"apply.done">> \in Seq({"apply.done"})
        OBVIOUS
      <3> QED BY <2>1, <3>1, QueueOf, TailFacts DEF TaskTypes
    <2>3. IsQueue(todo) /\ IsQueue(task.heard)
      BY <2>2, ConsFacts DEF TaskTypes
    <2> HIDE DEF todo
    <2>4. task' = [task EXCEPT !.todo = todo, !.heard = task.heard, !.plan = task.plan]
      BY <2>1 DEF TaskTypes
    <2> QED BY <2>1, <2>3, <2>4 DEF Moves
  <1>8. CASE Wait
    <2> DEFINE i == CHOOSE n \in DOMAIN events : events[n] = Barrier
               said == SubSeq(events, 1, i - 1)
               told == FoldLeft(Told, log, said)
    <2>1. task.todo # <<>> /\ inbox' = inbox
      BY <1>8 DEF Wait, Doing
    <2>2. AnswerWith(FALSE, None, told)
          \/ (task' = [Rest EXCEPT !.heard = said] /\ UNCHANGED <<outbox, replay, ghost>>)
      BY <1>8 DEF Wait
    <2>3. IsQueue(said)
      <3>1. i \in 1..Len(events) /\ Len(events) \in Nat
        <4>1. Contains(events, Barrier)
          BY <1>8 DEF Wait
        <4>2. i = Until
          BY DEF Until
        <4> HIDE DEF i
        <4> QED BY <4>1, <4>2, UntilFacts
      <3> HIDE DEF i
      <3> DEFINE b == i - 1
      <3>2. 1 \in Nat /\ b \in Nat /\ 1 <= 1 /\ 1 <= b + 1 /\ b <= Len(events)
        BY <3>1
      <3>3. IsQueue(events)
        BY DEF WorkerTypes
      <3>4. IsQueue(SubSeq(events, 1, b))
        <4> HIDE DEF b
        <4> QED BY <3>2, <3>3, CutFacts
      <3> QED BY <3>4
    <2>4. IsQueue(Tail(task.todo))
      BY <2>1, TailFacts DEF TaskTypes
    <2> HIDE DEF i, said, told
    <2>5. CASE AnswerWith(FALSE, None, told)
      BY <2>1, <2>5 DEF Answers
    <2>6. CASE task' = [Rest EXCEPT !.heard = said] /\ UNCHANGED <<outbox, replay, ghost>>
      <3>1. task' = [task EXCEPT !.todo = Tail(task.todo), !.heard = said, !.plan = task.plan]
        BY <2>6 DEF Rest, TaskTypes
      <3> QED BY <2>1, <2>3, <2>4, <2>6, <3>1 DEF Moves
    <2> QED BY <2>2, <2>5, <2>6
  <1>9. CASE GiveUp
    BY <1>9 DEF GiveUp, Doing, Answers
  <1>10. CASE Answer
    <2>1. task.todo # <<>> /\ inbox' = inbox
      BY <1>10 DEF Answer, Doing
    <2>2. Answers
      BY <1>10 DEF Answer, Answers, Fail
    <2> QED BY <2>1, <2>2
  <1> QED BY <1>1, <1>4, <1>5, <1>6, <1>7, <1>8, <1>9, <1>10 DEF SessionStep

LEMMA ClientEffect ==
    ASSUME Next
    PROVE  \/ Running /\ SessionNext /\ UNCHANGED clientVars
           \/ Renewed
           \/ Kept
  <1> USE DEF Renewed, Kept
  <1>1. CASE Ask
    BY <1>1 DEF Ask, Write
  <1>2. CASE Learn
    BY <1>2 DEF Learn
  <1>3. CASE Connect
    BY <1>3 DEF Connect, sessionVars
  <1>4. CASE Poll \/ WindowCommand \/ AddWindows \/ AddSlot
    BY <1>4 DEF Poll, WindowCommand, AddWindows, AddSlot, sessionVars
  <1>5. CASE Disconnect
    BY <1>5 DEF Disconnect, Dropped
  <1>6. CASE SendLine
    BY <1>6 DEF SendLine, Write
  <1>7. ASSUME NEW waits, GivesUp(waits), UNCHANGED <<spent, file>> PROVE Renewed \/ Kept
    BY <1>7 DEF GivesUp, Dropped
  <1>8. CASE ReadLine
    <2>1. CASE GivesUp(host.waits)
      BY <1>7, <1>8, <2>1 DEF ReadLine
    <2>2. CASE ~GivesUp(host.waits)
      BY <1>8, <2>2 DEF ReadLine
    <2> QED BY <2>1, <2>2
  <1>9. CASE StopWaiting
    BY <1>7, <1>9 DEF StopWaiting
  <1> QED BY <1>1, <1>2, <1>3, <1>4, <1>5, <1>6, <1>8, <1>9 DEF Next

LEMMA IdleTypes ==
    ASSUME task' = Idle PROVE TaskTypes'
  <1>1. IsQueue(<<>>)
    BY EmptyQueue
  <1> QED BY <1>1 DEF TaskTypes, Idle

LEMMA StepsAreQueues == ASSUME NEW command PROVE IsQueue(Steps(command))
  <1> DEFINE kind == command.kind
             S == {kind, "refresh", "poll", "current", "save", "done", "restore", "candidate",
                   "tell", "forget", "room", "plan", "preview", "take", "apply"}
  <1>1. /\ <<"refresh", kind>> \in Seq(S) /\ <<"poll", kind>> \in Seq(S)
        /\ <<"take", "apply">> \in Seq(S) /\ <<"tell", "forget">> \in Seq(S)
        /\ <<"tell", "done">> \in Seq(S) /\ <<kind>> \in Seq(S)
    OBVIOUS
  <1>2. <<"room", "plan", "preview">> \in Seq(S)
    OBVIOUS
  <1>3. /\ <<"current", "save", "refresh", "done">> \in Seq(S)
        /\ <<"current", "restore", "refresh", "done">> \in Seq(S)
        /\ <<"current", "candidate", "tell", "forget">> \in Seq(S)
    OBVIOUS
  <1>4. /\ <<"current", "room", "plan", "preview">> \in Seq(S)
        /\ <<"refresh", "room", "plan", "preview">> \in Seq(S)
    OBVIOUS
  <1>5. <<"current", "refresh", "save", "refresh", "done">> \in Seq(S)
    OBVIOUS
  <1>6. Steps(command) \in Seq(S)
    <2> HIDE DEF S
    <2> QED BY <1>1, <1>2, <1>3, <1>4, <1>5 DEF Steps, Undoing
  <1> QED BY <1>6, QueueOf

LEMMA InitTypes ==
    ASSUME Init PROVE SessionTypes
  <1> USE DEF Init, SessionInit
  <1>1. TaskTypes
    BY EmptyQueue DEF TaskTypes, Idle
  <1>2. LineTypes
    BY EmptyQueue DEF LineTypes
  <1>3. ReplayTypes
    BY EmptyQueue DEF ReplayTypes
  <1>4. WorkerTypes
    BY EmptyQueue DEF WorkerTypes
  <1>5. HostTypes
    <2>1. sent \in Nat
      OBVIOUS
    <2>2. host = [up |-> FALSE, script |-> NoScript, asked |-> None, wanted |-> None,
               revision |-> 0, plan |-> None, candidate |-> None,
               waits |-> 0, mixed |-> FALSE]
      OBVIOUS
    <2>3. /\ known = [asks |-> known.asks, revision |-> known.revision,
                      tokens |-> known.tokens, at |-> known.at]
          /\ known.asks \subseteq Kinds
      BY ClientAssumption
    <2>4. NoScript.todo = <<>> /\ NoScript = [purpose |-> NoScript.purpose, todo |-> NoScript.todo]
      BY DEF NoScript
    <2>5. KindList(<<>>)
      BY EmptyQueue DEF KindList
    <2> QED BY ONLY <2>1, <2>2, <2>3, <2>4, <2>5 DEF HostTypes
  <1> QED BY <1>1, <1>2, <1>3, <1>4, <1>5 DEF SessionTypes

LEMMA RenewedTypes ==
    ASSUME SessionTypes, Renewed PROVE TaskTypes' /\ LineTypes' /\ ReplayTypes' /\ WorkerTypes'
  <1> USE DEF SessionTypes, Renewed, Fresh
  <1>1. TaskTypes'
    BY IdleTypes
  <1>2. LineTypes'
    BY EmptyQueue DEF LineTypes
  <1>3. ReplayTypes'
    BY EmptyQueue DEF ReplayTypes
  <1>4. WorkerTypes'
    BY EmptyQueue DEF WorkerTypes
  <1> QED BY <1>1, <1>2, <1>3, <1>4

LEMMA TaskTyped ==
    ASSUME SessionTypes, SessionStep PROVE TaskTypes'
  <1> USE DEF SessionTypes
  <1>1. CASE Receive
    <2>1. inbox # <<>>
      BY <1>1 DEF Receive
    <2>2. Head(inbox).id \in Nat
      BY <2>1, TailFacts, QueueFacts DEF LineTypes
    <2>3. IsQueue(Steps(Head(inbox).command)) /\ IsQueue(<<>>)
      BY StepsAreQueues, EmptyQueue
    <2>4. task' = [Idle EXCEPT !.id = Head(inbox).id, !.of = Head(inbox).command,
                               !.todo = Steps(Head(inbox).command)]
      BY <1>1 DEF Receive
    <2> QED BY <2>2, <2>3, <2>4 DEF TaskTypes, Idle
  <1>2. CASE Replays
    BY <1>2 DEF Replays, TaskTypes
  <1>3. CASE task.todo # <<>> /\ Moves
    <2>1. task.id \in Nat
      BY <1>3, TaskBusy
    <2> QED BY <1>3, <2>1 DEF Moves, TaskTypes
  <1>4. CASE Answers
    BY <1>4, IdleTypes DEF Answers, AnswerWith
  <1> QED BY <1>1, <1>2, <1>3, <1>4, StepEffect

LEMMA LinesTyped ==
    ASSUME SessionTypes, SessionStep PROVE LineTypes'
  <1> USE DEF SessionTypes
  <1>1. IsQueue(outbox')
    <2>1. UNCHANGED outbox \/ \E e : outbox' = Append(outbox, e)
      <3>1. CASE Replays
        BY <3>1 DEF Replays
      <3>2. CASE Receive
        BY <3>2 DEF Receive
      <3>3. CASE Moves
        BY <3>3 DEF Moves
      <3>4. CASE Answers
        BY <3>4 DEF Answers, AnswerWith
      <3> QED BY <3>1, <3>2, <3>3, <3>4, StepEffect
    <2>2. IsQueue(outbox) /\ \A e : IsQueue(Append(outbox, e))
      <3>1. IsQueue(outbox)
        BY DEF LineTypes
      <3> QED BY <3>1, AppendFacts
    <2> QED BY <2>1, <2>2
  <1>2. inbox' = inbox \/ (inbox # <<>> /\ inbox' = Tail(inbox))
    BY StepEffect DEF Receive, Replays
  <1>3. CASE inbox' = inbox
    BY <1>1, <1>3 DEF LineTypes
  <1>4. CASE inbox # <<>> /\ inbox' = Tail(inbox)
    <2>1. /\ IsQueue(inbox') /\ Len(inbox') = Len(inbox) - 1 /\ Len(inbox) \in Nat
          /\ \A n \in 1..Len(inbox') : inbox'[n] = inbox[n + 1]
      BY <1>4, TailFacts, QueueFacts DEF LineTypes
    <2>2. \A n \in 1..Len(inbox') : n + 1 \in 1..Len(inbox)
      BY <2>1
    <2> QED BY <1>1, <2>1, <2>2 DEF LineTypes
  <1> QED BY <1>2, <1>3, <1>4

\* What stays in the cache, and what is put behind it.
Suffix(size) == SubSeq(replay, FirstKept(size), Len(replay))
Remembered(request, response, size) ==
    [request |-> request, response |-> Stored(response), from |-> Total, size |-> size]

LEMMA SizeFacts ==
    ASSUME NEW response
    PROVE  Size(response) \in Nat \ {0}
  BY SessionAssumption DEF Size

LEMMA SuffixFacts ==
    ASSUME SessionTypes, NEW size
    PROVE  LET f == FirstKept(size)
               kept == Suffix(size)
           IN /\ f \in 1..Len(replay) + 1
              /\ f <= Len(replay) => LeavesRoom(f, size)
              /\ \A n \in 1..Len(replay) : n < f => ~LeavesRoom(n, size)
              /\ IsQueue(kept) /\ Len(kept) = Len(replay) + 1 - f
              /\ \A i \in 1..Len(kept) : f + i - 1 \in 1..Len(replay)
                                         /\ kept[i] = replay[f + i - 1]
  <1> DEFINE l == Len(replay)
             S == {n \in 1..l + 1 : n <= l => LeavesRoom(n, size)}
             f == FirstKept(size)
  <1>1. IsQueue(replay) /\ l \in Nat
    BY QueueFacts DEF SessionTypes, ReplayTypes
  <1>2. S \subseteq Nat /\ S # {}
    <2>1. l + 1 \in S
      BY <1>1
    <2> QED BY <1>1, <2>1
  <1>3. f \in S /\ \A m \in S : f <= m
    <2>1. \E n \in S : \A m \in S : n <= m
      <3> HIDE DEF S
      <3> QED BY ONLY <1>2, Least
    <2>2. f = CHOOSE n \in S : \A m \in S : n <= m
      BY DEF FirstKept, Min
    <2> HIDE DEF S, f
    <2> QED BY <2>1, <2>2
  <1>4. f \in 1..l + 1 /\ (f <= l => LeavesRoom(f, size))
    BY <1>3
  <1>5. ASSUME NEW n \in 1..l, n < f PROVE ~LeavesRoom(n, size)
    <2>1. f \in Nat /\ ~(f <= n)
      BY <1>1, <1>4, <1>5
    <2>2. n \notin S
      BY <1>3, <2>1
    <2> QED BY <1>1, <2>2
  <1>6. f \in Nat /\ 1 <= f /\ f <= l + 1 /\ l <= Len(replay)
    BY <1>1, <1>4
  <1> HIDE DEF f
  <1>7. LET r == SubSeq(replay, f, l) IN
        /\ IsQueue(r) /\ Len(r) = l - f + 1
        /\ \A i \in 1..Len(r) : f + i - 1 \in 1..Len(replay) /\ r[i] = replay[f + i - 1]
    BY <1>1, <1>6, CutFacts
  <1>8. Suffix(size) = SubSeq(replay, f, l) /\ l - f + 1 = l + 1 - f
    BY <1>1, <1>6 DEF Suffix, f
  <1> QED BY <1>4, <1>5, <1>7, <1>8 DEF f

LEMMA RememberFacts ==
    ASSUME SessionTypes, NEW request, NEW response
    PROVE  /\ IsQueue(Remember(request, response))
           /\ ~Cacheable(request.command) => Remember(request, response) = replay
           /\ Cacheable(request.command) =>
                \E size \in Nat \ {0} :
                    Remember(request, response)
                    = Append(Suffix(size), Remembered(request, response, size))
  <1> DEFINE size == Size(Stored(response))
  <1>1. size \in Nat \ {0}
    BY SizeFacts
  <1>2. IsQueue(Suffix(size))
    BY SuffixFacts
  <1>3. IsQueue(Append(Suffix(size), Remembered(request, response, size)))
    BY <1>2, AppendFacts
  <1>4. Cacheable(request.command) =>
            Remember(request, response)
            = Append(Suffix(size), Remembered(request, response, size))
    BY DEF Remember, Suffix, Remembered
  <1>5. ~Cacheable(request.command) => Remember(request, response) = replay
    BY DEF Remember
  <1>6. IsQueue(replay)
    BY DEF SessionTypes, ReplayTypes
  <1> HIDE DEF size
  <1> QED BY <1>1, <1>3, <1>4, <1>5, <1>6

LEMMA ReplayTyped ==
    ASSUME SessionTypes, SessionStep PROVE ReplayTypes'
  <1> USE DEF SessionTypes
  <1>1. IsQueue(replay')
    <2>1. UNCHANGED replay \/ \E request, response : replay' = Remember(request, response)
      <3>1. CASE Replays
        BY <3>1 DEF Replays, memory
      <3>2. CASE Receive
        BY <3>2 DEF Receive, memory
      <3>3. CASE Moves
        BY <3>3 DEF Moves
      <3>4. CASE Answers
        BY <3>4 DEF Answers, AnswerWith
      <3> QED BY <3>1, <3>2, <3>3, <3>4, StepEffect
    <2> QED BY <2>1, RememberFacts DEF ReplayTypes
  <1>2. \/ ghost' = ghost
        \/ \E id : ghost' = [ghost EXCEPT !.executed = Append(ghost.executed, id)]
    <2>1. CASE Replays
      BY <2>1 DEF Replays
    <2>2. CASE Receive
      BY <2>2 DEF Receive
    <2>3. CASE Moves
      BY <2>3 DEF Moves
    <2>4. CASE Answers
      BY <2>4 DEF Answers, AnswerWith
    <2> QED BY <2>1, <2>2, <2>3, <2>4, StepEffect
  <1>3. CASE ghost' = ghost
    BY <1>1, <1>3 DEF ReplayTypes
  <1>4. ASSUME NEW id, ghost' = [ghost EXCEPT !.executed = Append(ghost.executed, id)]
        PROVE  ReplayTypes'
    <2>1. IsQueue(Append(ghost.executed, id))
      BY AppendFacts DEF ReplayTypes
    <2> QED BY <1>1, <1>4, <2>1 DEF ReplayTypes
  <1> QED BY <1>2, <1>3, <1>4

LEMMA WorkerTyped ==
    ASSUME SessionTypes, SessionStep PROVE WorkerTypes'
  <1> USE DEF SessionTypes, WorkerTypes
  <1>1. CASE Replays \/ Receive \/ Current \/ Room \/ Take \/ Candidate \/ Save \/ Restore
    BY <1>1 DEF Replays, Receive, Current, Room, Take, Candidate, Save, Restore, worker
  <1>2. CASE Exchange
    <2> DEFINE p == <<Sent(Head(task.todo)), [kind |-> "barrier", of |-> spent.late]>>
    <2>1. queue' = queue \o p /\ events' = events
      BY <1>2 DEF Exchange
    <2>2. IsQueue(p)
      <3>1. p \in Seq({Sent(Head(task.todo)), [kind |-> "barrier", of |-> spent.late]})
        OBVIOUS
      <3> QED BY <3>1, QueueOf
    <2>5. Len(p) = 2 /\ p[1].kind \in CommandKinds /\ p[2].kind \in CommandKinds
      <3>1. Head(task.todo) \in {"refresh", "poll", "tell", "apply", "plan"}
        BY <1>2 DEF Exchange
      <3> QED BY <3>1 DEF Sent, CommandKinds
    <2>3. spent' = spent \/ spent' = [spent EXCEPT !.tokens = spent.tokens + 1]
      BY <1>2 DEF Exchange
    <2> HIDE DEF p
    <2>4. /\ IsQueue(queue') /\ Len(queue') = Len(queue) + 2 /\ Len(queue) \in Nat
          /\ \A i \in 1..Len(queue) : queue'[i] = queue[i]
          /\ \A i \in 1..Len(queue') : i > Len(queue) =>
                i - Len(queue) \in 1..2 /\ queue'[i] = p[i - Len(queue)]
      <3>1. IsQueue(queue) /\ Len(queue) \in Nat
        BY QueueFacts
      <3>2. LET r == queue \o p IN
            /\ IsQueue(r) /\ Len(r) = Len(queue) + Len(p)
            /\ \A i \in 1..Len(queue) : r[i] = queue[i]
            /\ \A i \in 1..Len(r) : i > Len(queue) =>
                    i - Len(queue) \in 1..Len(p) /\ r[i] = p[i - Len(queue)]
        BY ONLY <3>1, <2>2, JoinFacts
      <3> QED BY <2>1, <2>5, <3>1, <3>2
    <2>6. ASSUME NEW i \in 1..Len(queue') PROVE queue'[i].kind \in CommandKinds
      <3>1. CASE i <= Len(queue)
        BY <2>4, <3>1
      <3>2. CASE i > Len(queue)
        <4>1. i - Len(queue) = 1 \/ i - Len(queue) = 2
          BY <2>4, <3>2
        <4> QED BY <2>4, <2>5, <3>2, <4>1
      <3> QED BY <2>4, <3>1, <3>2
    <2> QED BY <2>1, <2>3, <2>4, <2>6
  <1>3. CASE Wait
    <2>1. /\ UNCHANGED <<queue, spent>>
          /\ Contains(events, Barrier)
          /\ events' = SubSeq(events, Until + 1, Len(events))
      BY <1>3 DEF Wait, Until
    <2> DEFINE a == Until + 1
               b == Len(events)
    <2>2. a \in Nat /\ b \in Nat /\ 1 <= a /\ a <= b + 1 /\ b <= Len(events)
      BY <2>1, UntilFacts
    <2>3. IsQueue(SubSeq(events, a, b))
      <3> HIDE DEF a, b
      <3> QED BY <2>2, CutFacts
    <2> QED BY <2>1, <2>3
  <1>4. CASE GiveUp
    <2>1. /\ UNCHANGED queue /\ events' = <<>>
          /\ spent' = [spent EXCEPT !.late = spent.late + 1]
      BY <1>4 DEF GiveUp
    <2> QED BY <2>1, EmptyQueue
  <1>5. CASE Answer
    <2>1. UNCHANGED <<queue, events>>
      BY <1>5 DEF Answer, worker
    <2>2. spent' = spent \/ spent' = [spent EXCEPT !.tokens = spent.tokens + 1]
      BY <1>5 DEF Answer
    <2> QED BY <2>1, <2>2
  <1> QED BY <1>1, <1>2, <1>3, <1>4, <1>5 DEF SessionStep

\* What a command makes the worker say is a short list.
LEMMA OutcomesAreQueues ==
    ASSUME NEW command, NEW said \in Outcomes(command),
           command.kind \in CommandKinds
    PROVE  IsQueue(said)
  <1> DEFINE told == <<Says("state", command.of)>>
             failed == <<Says("error", command.of)>>
  <1>1. /\ IsQueue(told) /\ IsQueue(failed) /\ IsQueue(<<>>)
        /\ IsQueue(<<Says("result", command.of)>>) /\ IsQueue(<<Says("barrier", command.of)>>)
        /\ IsQueue(<<Says("preview", command.plan)>>)
    <2>1. ASSUME NEW e PROVE IsQueue(<<e>>)
      <3>1. <<e>> \in Seq({e})
        OBVIOUS
      <3> QED BY <3>1, QueueOf
    <2> QED BY <2>1, EmptyQueue
  <1>2. \/ said \in {told, failed, <<>>}
        \/ said = told \o failed \/ said = <<Says("result", command.of)>> \o told
        \/ said = <<Says("barrier", command.of)>>
        \/ said = <<Says("preview", command.plan)>>
    BY DEF Outcomes, CommandKinds
  <1> HIDE DEF told, failed
  <1> QED BY <1>1, <1>2, JoinFacts

\* What the worker does to its queue and to what it has said.
LEMMA WorkerEffect ==
    ASSUME WorkerTypes, WorkerTakes
    PROVE  /\ queue # <<>> /\ IsQueue(queue') /\ Len(queue') = Len(queue) - 1
           /\ \A i \in 1..Len(queue') : i + 1 \in 1..Len(queue) /\ queue'[i] = queue[i + 1]
           /\ 1 \in 1..Len(queue) /\ Head(queue) = queue[1]
           /\ \E said \in Outcomes(queue[1]) :
                /\ IsQueue(said) /\ events' = events \o said
                /\ ghost' = IF queue[1].kind = "apply"
                            THEN [ghost EXCEPT !.applied = @ \cup {queue[1].plan},
                                               !.twice = @ \/ queue[1].plan \in ghost.applied]
                            ELSE ghost
           /\ UNCHANGED <<inbox, outbox, task, memory, spent>>
  <1>1. queue # <<>> /\ queue' = Tail(queue) /\ UNCHANGED <<inbox, outbox, task, memory, spent>>
    BY DEF WorkerTakes
  <1>2. /\ IsQueue(queue') /\ Len(queue') = Len(queue) - 1
        /\ \A i \in 1..Len(queue') : queue'[i] = queue[i + 1]
        /\ Head(queue) = queue[1] /\ Len(queue) \in Nat /\ Len(queue) > 0
    BY <1>1, TailFacts, QueueFacts DEF WorkerTypes
  <1>3. 1 \in 1..Len(queue) /\ \A i \in 1..Len(queue') : i + 1 \in 1..Len(queue)
    BY <1>2
  <1>4. \A said \in Outcomes(queue[1]) : IsQueue(said)
    BY <1>3, OutcomesAreQueues DEF WorkerTypes
  <1> QED BY <1>1, <1>2, <1>3, <1>4 DEF WorkerTakes

\* What it may say unasked.
Unasked == {<<Says("state", None)>>, <<Says("error", None)>>,
            <<Says("result", None), Says("state", None)>>}

LEMMA SpeaksEffect ==
    ASSUME WorkerTypes, WorkerSpeaks
    PROVE  \E said \in Unasked : IsQueue(said) /\ events' = events \o said
  <1>1. \A said \in Unasked : IsQueue(said)
    <2> DEFINE S == {Says("state", None), Says("error", None), Says("result", None)}
    <2>1. \A said \in Unasked : said \in Seq(S)
      BY DEF Unasked
    <2> QED BY <2>1, QueueOf
  <1> QED BY <1>1 DEF WorkerSpeaks, Unasked

LEMMA SessionTyped ==
    ASSUME SessionTypes, SessionNext
    PROVE  TaskTypes' /\ LineTypes' /\ ReplayTypes' /\ WorkerTypes'
  <1> USE DEF SessionTypes
  <1>1. CASE SessionStep
    BY <1>1, TaskTyped, LinesTyped, ReplayTyped, WorkerTyped
  <1>2. CASE WorkerTakes
    <2>1. TaskTypes' /\ LineTypes'
      BY <1>2 DEF WorkerTakes, TaskTypes, LineTypes
    <2>2. IsQueue(events')
      <3>1. PICK said \in Outcomes(queue[1]) : IsQueue(said) /\ events' = events \o said
        BY <1>2, WorkerEffect
      <3> QED BY <3>1, JoinFacts DEF WorkerTypes
    <2>3. WorkerTypes'
      BY <1>2, <2>2, WorkerEffect DEF WorkerTypes
    <2>4. UNCHANGED replay
      BY <1>2 DEF WorkerTakes, memory
    <2>5. ghost' = ghost \/ \E applied, twice :
                ghost' = [ghost EXCEPT !.applied = applied, !.twice = twice]
      BY <1>2 DEF WorkerTakes
    <2>6. ReplayTypes'
      BY <2>4, <2>5 DEF ReplayTypes
    <2> QED BY <2>1, <2>3, <2>6
  <1>3. CASE WorkerSpeaks
    <2>1. TaskTypes' /\ LineTypes' /\ ReplayTypes'
      BY <1>3 DEF WorkerSpeaks, TaskTypes, LineTypes, ReplayTypes, memory
    <2>2. IsQueue(events')
      BY <1>3, SpeaksEffect, JoinFacts DEF WorkerTypes
    <2>3. spent' = [spent EXCEPT !.unasked = spent.unasked + 1] /\ queue' = queue
      BY <1>3 DEF WorkerSpeaks
    <2>4. WorkerTypes'
      BY <2>2, <2>3 DEF WorkerTypes
    <2> QED BY <2>1, <2>4
  <1> QED BY <1>1, <1>2, <1>3 DEF SessionNext

\* What an answer changes in what the controller shows.
LEMMA ShownFacts ==
    ASSUME HostTypes, NEW response
    PROVE  \E revision, plan, candidate : Shown(response) =
                [host EXCEPT !.revision = revision, !.plan = plan, !.candidate = candidate]
  <1> DEFINE Showing(revision, plan, candidate) ==
                [host EXCEPT !.revision = revision, !.plan = plan, !.candidate = candidate]
  <1>1. SUFFICES \E revision, plan, candidate :
                    Shown(response) = Showing(revision, plan, candidate)
    OBVIOUS
  <1>2. CASE Step = "configuration"
    <2>1. Shown(response) = [host EXCEPT !.revision = response.value]
      BY <1>2 DEF Shown, Previewing
    <2>2. Shown(response) = Showing(response.value, host.plan, host.candidate)
      BY <2>1 DEF HostTypes
    <2> HIDE DEF Showing
    <2> QED BY <2>2
  <1>3. CASE Step = "inventory"
    <2> DEFINE plan == IF host.script.purpose = "command" THEN None ELSE host.plan
    <2>1. Shown(response) = [host EXCEPT !.candidate = response.value, !.plan = plan]
      BY <1>3 DEF Shown, Previewing
    <2>2. Shown(response) = Showing(host.revision, plan, response.value)
      <3> HIDE DEF plan
      <3> QED BY <2>1 DEF HostTypes
    <2> HIDE DEF Showing
    <2> QED BY <2>2
  <1>4. ASSUME NEW plan, Shown(response) = [host EXCEPT !.plan = plan]
        PROVE  \E p : Shown(response) = Showing(host.revision, p, host.candidate)
    <2>1. Shown(response) = Showing(host.revision, plan, host.candidate)
      BY <1>4 DEF HostTypes
    <2> HIDE DEF Showing
    <2> QED BY <2>1
  <1>5. CASE Step = "snapshot"
    <2> DEFINE plan == IF host.script.purpose = "command" /\ Len(host.script.todo) = 1
                       THEN None ELSE host.plan
    <2>1. Shown(response) = [host EXCEPT !.plan = plan]
      BY <1>5 DEF Shown, Previewing
    <2> HIDE DEF plan, Showing
    <2> QED BY <1>4, <2>1
  <1>6. CASE Step \in Previewing
    <2>1. Shown(response) = [host EXCEPT !.plan = response.value.number]
      BY <1>6 DEF Shown, Previewing
    <2> HIDE DEF Showing
    <2> QED BY <1>4, <2>1
  <1>7. CASE Step = "discard"
    <2>1. Shown(response) = host
      BY <1>7 DEF Shown, Previewing
    <2>2. Shown(response) = [host EXCEPT !.plan = host.plan]
      BY <2>1 DEF HostTypes
    <2> HIDE DEF Showing
    <2> QED BY <1>4, <2>2
  <1>8. CASE Step \notin {"configuration", "inventory", "snapshot", "discard"} \cup Previewing
    <2> DEFINE plan == IF host.script.purpose = "command" THEN None ELSE host.plan
    <2>1. Shown(response) = [host EXCEPT !.plan = plan]
      BY <1>8 DEF Shown, Previewing
    <2> HIDE DEF plan, Showing
    <2> QED BY <1>4, <2>1
  <1> HIDE DEF Showing
  <1> QED BY <1>2, <1>3, <1>5, <1>6, <1>7, <1>8

LEMMA KindLists ==
    /\ KindList(<<>>)
    /\ \A p, q : KindList(p) /\ KindList(q) => KindList(p \o q)
    /\ \A q : KindList(q) /\ q # <<>> => Head(q) \in Kinds /\ KindList(Tail(q))
    /\ \A kind \in Kinds : KindList(<<kind>>)
    /\ KindList(Refresh) /\ KindList(RefreshAll) /\ KindList(<<"configure", "bind">>)
    /\ KindList(<<"confirm", "configure">>)
  <1>1. KindList(<<>>)
    BY EmptyQueue DEF KindList
  <1>2. ASSUME NEW p, NEW q, KindList(p), KindList(q) PROVE KindList(p \o q)
    <2> DEFINE r == p \o q
    <2>1. IsQueue(p) /\ IsQueue(q) /\ Len(p) \in Nat /\ Len(q) \in Nat
      BY <1>2, QueueFacts DEF KindList
    <2>2. /\ IsQueue(r) /\ Len(r) = Len(p) + Len(q)
          /\ \A i \in 1..Len(p) : r[i] = p[i]
          /\ \A i \in 1..Len(r) : i > Len(p) => i - Len(p) \in 1..Len(q) /\ r[i] = q[i - Len(p)]
      BY <2>1, JoinFacts
    <2> HIDE DEF r
    <2>3. \A i \in 1..Len(r) : i \in 1..Len(p) \/ i > Len(p)
      BY <2>1, <2>2
    <2>4. KindList(r)
      BY <1>2, <2>2, <2>3 DEF KindList
    <2> QED BY <2>4 DEF r
  <1>3. ASSUME NEW q, KindList(q), q # <<>> PROVE Head(q) \in Kinds /\ KindList(Tail(q))
    <2>1. /\ IsQueue(q) /\ IsQueue(Tail(q)) /\ Len(Tail(q)) = Len(q) - 1 /\ Len(q) \in Nat
          /\ Len(q) > 0 /\ Head(q) = q[1] /\ \A i \in 1..Len(Tail(q)) : Tail(q)[i] = q[i + 1]
      BY <1>3, TailFacts, QueueFacts DEF KindList
    <2>2. 1 \in 1..Len(q) /\ \A i \in 1..Len(Tail(q)) : i + 1 \in 1..Len(q)
      BY <2>1
    <2> QED BY <1>3, <2>1, <2>2 DEF KindList
  <1>4. ASSUME NEW q \in Seq(Kinds) PROVE KindList(q)
    <2>1. IsQueue(q)
      BY QueueOf
    <2> QED BY <2>1 DEF KindList
  <1>5. \A kind \in Kinds : <<kind>> \in Seq(Kinds)
    OBVIOUS
  <1>6. /\ "configuration" \in Kinds /\ "snapshot" \in Kinds /\ "inventory" \in Kinds
        /\ "configure" \in Kinds /\ "bind" \in Kinds /\ "confirm" \in Kinds
    BY DEF Kinds
  <1>7. /\ Refresh \in Seq(Kinds) /\ <<"inventory", "snapshot">> \in Seq(Kinds)
        /\ <<"configure", "bind">> \in Seq(Kinds) /\ <<"confirm", "configure">> \in Seq(Kinds)
    BY <1>6 DEF Refresh
  <1>8. KindList(RefreshAll)
    BY <1>2, <1>4, <1>7 DEF RefreshAll
  <1> QED BY <1>1, <1>2, <1>3, <1>4, <1>5, <1>7, <1>8

LEMMA FillKind ==
    ASSUME NEW kind, NEW command \in Fill(kind) PROVE command.kind = kind
  BY DEF Fill

LEMMA BuiltKind == Built.kind = Step
  BY DEF Built

LEMMA ClientTyped ==
    ASSUME SessionTypes, Next, ~(SessionNext /\ UNCHANGED clientVars)
    PROVE  LineTypes' /\ HostTypes'
  <1> USE DEF SessionTypes
  <1>1. ASSUME NEW id \in Nat, NEW command, command.kind \in Kinds, Write(Request(id, command))
        PROVE  LineTypes' /\ sent' \in Nat
    <2> DEFINE request == Request(id, command)
    <2>1. /\ IsQueue(inbox') /\ Len(inbox') = Len(inbox) + 1 /\ Len(inbox) \in Nat
          /\ \A i \in 1..Len(inbox) : inbox'[i] = inbox[i]
          /\ inbox'[Len(inbox) + 1] = request
      BY <1>1, AppendFacts, QueueFacts DEF Write, LineTypes
    <2>2. \A i \in 1..Len(inbox') : i \in 1..Len(inbox) \/ i = Len(inbox) + 1
      BY <2>1
    <2>3. outbox' = outbox /\ sent' = sent + 1
      BY <1>1 DEF Write
    <2>4. request = Request(request.id, request.command) /\ request.id = id
          /\ request.command = command
      BY DEF Request
    <2> HIDE DEF request
    <2> QED BY <1>1, <2>1, <2>2, <2>3, <2>4 DEF LineTypes, HostTypes
  <1>2. CASE Ask
    <2>1. PICK id \in Ids, kind \in known.asks : \E command \in Fill(kind) :
            Write(Request(id, command))
      BY <1>2 DEF Ask
    <2>4. PICK command \in Fill(kind) : Write(Request(id, command))
      BY <2>1
    <2>2. id \in Nat /\ UNCHANGED <<known, host>>
      BY <1>2, ClientAssumption DEF Ask
    <2>3. command.kind \in Kinds
      BY <2>1, FillKind DEF HostTypes
    <2> QED BY <1>1, <2>4, <2>2, <2>3 DEF HostTypes
  <1>3. CASE SendLine
    <2>1. /\ Write(Request(sent + 1, Built)) /\ sent + 1 \in Nat /\ known' = known
          /\ host' = [host EXCEPT !.asked = sent + 1, !.wanted = Built]
      BY <1>3 DEF SendLine, HostTypes
    <2>2. Built.kind \in Kinds
      BY <1>3, BuiltKind, KindLists DEF SendLine, InScript, Step, HostTypes
    <2>3. LineTypes' /\ sent' \in Nat
      BY <1>1, <2>1, <2>2
    <2> QED BY <2>1, <2>3 DEF HostTypes
  <1>4. ASSUME UNCHANGED inbox, outbox' = outbox \/ (outbox # <<>> /\ outbox' = Tail(outbox))
        PROVE  LineTypes'
    BY <1>4, TailFacts DEF LineTypes
  <1>5. ASSUME Fresh(file) PROVE LineTypes'
    BY <1>5, EmptyQueue DEF Fresh, LineTypes
  <1>6. CASE Learn
    <2>1. LineTypes' /\ UNCHANGED <<sent, host>>
      BY <1>4, <1>6 DEF Learn
    <2>2. \/ known' = known
          \/ \E revision, at : known' = [known EXCEPT !.revision = revision, !.at = at]
          \/ \E told : known' = [known EXCEPT !.tokens = told]
      BY <1>6 DEF Learn
    <2> QED BY <2>1, <2>2 DEF HostTypes
  <1>7. ASSUME UNCHANGED <<sent, known>>, NEW up, NEW purpose, NEW todo, KindList(todo),
               host' = [host EXCEPT !.up = up, !.script = [purpose |-> purpose, todo |-> todo]]
        PROVE  HostTypes'
    BY <1>7 DEF HostTypes
  <1>8. CASE Connect
    <2>1. LineTypes'
      BY <1>5, <1>8 DEF Connect, sessionVars, LineTypes
    <2>2. UNCHANGED <<sent, known>>
          /\ host' = [host EXCEPT !.up = TRUE,
                            !.script = [purpose |-> "connect", todo |-> RefreshAll]]
      BY <1>8 DEF Connect
    <2> QED BY <1>7, <2>1, <2>2, KindLists
  <1>9. ASSUME UNCHANGED <<sessionVars, client, sent, known>>, NEW purpose, NEW todo,
               KindList(todo), Runs(purpose, todo)
        PROVE  LineTypes' /\ HostTypes'
    BY <1>9 DEF Runs, LineTypes, HostTypes, sessionVars
  <1>10. CASE Poll
    BY <1>9, <1>10, KindLists DEF Poll, Kinds
  <1>11. CASE AddWindows \/ AddSlot
    <2>1. KindList(<<"configure", "bind">> \o RefreshAll)
          /\ KindList(<<"confirm", "configure">> \o Refresh)
      BY KindLists
    <2> QED BY <1>9, <1>11, <2>1 DEF AddWindows, AddSlot
  <1>12. CASE WindowCommand
    <2>1. PICK kind \in Commands : Runs("command",
                CASE kind \in Previewing ->
                        (IF host.plan = None THEN <<>> ELSE <<"discard">>) \o <<kind>>
                  [] kind \in {"inventory", "snapshot"} -> <<kind>>
                  [] OTHER -> <<kind>> \o Refresh)
      BY <1>12 DEF WindowCommand
    <2> DEFINE todo == CASE kind \in Previewing ->
                        (IF host.plan = None THEN <<>> ELSE <<"discard">>) \o <<kind>>
                  [] kind \in {"inventory", "snapshot"} -> <<kind>>
                  [] OTHER -> <<kind>> \o Refresh
    <2>2. kind \in Kinds /\ "discard" \in Kinds
      BY ClientAssumption DEF Kinds
    <2>3. /\ KindList(<<kind>>) /\ KindList(<<kind>> \o Refresh)
          /\ KindList(<<>> \o <<kind>>) /\ KindList(<<"discard">> \o <<kind>>)
      BY <2>2, KindLists
    <2>4. KindList(todo)
      BY <2>3 DEF Previewing
    <2>5. Runs("command", todo) /\ UNCHANGED <<sessionVars, client, sent, known>>
      BY <1>12, <2>1 DEF WindowCommand
    <2> HIDE DEF todo
    <2> QED BY <1>9, <2>4, <2>5
  <1>13. CASE Disconnect
    <2>1. LineTypes' /\ UNCHANGED <<sent, known>> /\ host' = [host EXCEPT !.up = FALSE]
      BY <1>5, <1>13 DEF Disconnect, Dropped
    <2> QED BY <2>1 DEF HostTypes
  <1>14. ASSUME NEW waits, GivesUp(waits), UNCHANGED <<sent, known>> PROVE HostTypes'
    <2>1. \E up : host' = [host EXCEPT !.asked = None, !.script = NoScript, !.waits = waits,
                                      !.up = up]
      BY <1>14 DEF GivesUp
    <2>2. KindList(NoScript.todo)
          /\ NoScript = [purpose |-> NoScript.purpose, todo |-> NoScript.todo]
      BY KindLists DEF NoScript
    <2> QED BY <1>14, <2>1, <2>2 DEF HostTypes
  <1>15. CASE ReadLine
    <2>1. CASE ~Accepted(Head(outbox))
      <3>1. LineTypes'
        BY <1>4, <1>5, <1>15, <2>1 DEF ReadLine, GivesUp, Dropped
      <3> QED BY <1>14, <1>15, <2>1, <3>1 DEF ReadLine
    <2>2. CASE Accepted(Head(outbox))
      <3> DEFINE todo == Tail(host.script.todo)
                 script == IF todo = <<>> THEN NoScript ELSE [host.script EXCEPT !.todo = todo]
      <3>1. LineTypes' /\ UNCHANGED <<sent, known>>
        BY <1>4, <1>15, <2>2 DEF ReadLine
      <3>2. PICK revision, plan, candidate : Shown(Head(outbox)) =
                [host EXCEPT !.revision = revision, !.plan = plan, !.candidate = candidate]
        BY ShownFacts DEF HostTypes
      <3>3. Shown(Head(outbox)).script = host.script
        BY <3>2 DEF HostTypes
      <3>4. \E mixed : host' = [Shown(Head(outbox)) EXCEPT !.asked = None,
                                      !.script = script, !.mixed = mixed]
        BY <1>15, <2>2, <3>3 DEF ReadLine
      <3>5. KindList(script.todo)
            /\ script = [purpose |-> script.purpose, todo |-> script.todo]
        <4>1. KindList(todo)
          BY <1>15, KindLists DEF ReadLine, InScript, HostTypes
        <4>2. [host.script EXCEPT !.todo = todo] =
                    [purpose |-> host.script.purpose, todo |-> todo]
          <5> HIDE DEF todo
          <5>1. host.script = [purpose |-> host.script.purpose, todo |-> host.script.todo]
            BY DEF HostTypes
          <5>2. PICK script_ : script_ = host.script
            OBVIOUS
          <5>3. /\ script_ = [purpose |-> script_.purpose, todo |-> script_.todo]
                /\ script_.purpose = host.script.purpose
            BY ONLY <5>1, <5>2
          <5>4. [script_ EXCEPT !.todo = todo] = [purpose |-> script_.purpose, todo |-> todo]
            BY ONLY <5>3
          <5> QED BY <5>2, <5>3, <5>4
        <4>3. CASE todo = <<>>
          <5>1. script = [purpose |-> None, todo |-> <<>>]
            BY <4>3 DEF NoScript
          <5> HIDE DEF script
          <5> QED BY <5>1, KindLists
        <4>4. CASE todo # <<>>
          <5>1. script = [purpose |-> host.script.purpose, todo |-> todo]
            BY <4>2, <4>4
          <5> HIDE DEF script, todo
          <5> QED BY <4>1, <5>1
        <4> QED BY <4>3, <4>4
      <3> QED BY <3>1, <3>2, <3>4, <3>5 DEF HostTypes
    <2> QED BY <2>1, <2>2
  <1>16. CASE StopWaiting
    <2>1. LineTypes'
      BY <1>4, <1>5, <1>16 DEF StopWaiting, GivesUp, Dropped
    <2> QED BY <1>14, <1>16, <2>1 DEF StopWaiting
  <1> QED BY <1>2, <1>3, <1>6, <1>8, <1>10, <1>11, <1>12, <1>13, <1>15, <1>16 DEF Next

LEMMA TypesInductive ==
    ASSUME SessionTypes, [Next]_vars PROVE SessionTypes'
  <1>1. CASE SessionNext /\ UNCHANGED clientVars
    <2>1. HostTypes'
      BY <1>1 DEF clientVars, HostTypes, SessionTypes
    <2> QED BY <1>1, <2>1, SessionTyped DEF SessionTypes
  <1>2. CASE Next /\ ~(SessionNext /\ UNCHANGED clientVars)
    <2>1. LineTypes' /\ HostTypes'
      BY <1>2, ClientTyped
    <2>2. CASE Renewed
      BY <2>1, <2>2, RenewedTypes DEF SessionTypes
    <2>3. CASE Kept
      <3>1. TaskTypes' /\ ReplayTypes' /\ WorkerTypes'
        BY <2>3 DEF Kept, memory, worker, TaskTypes, ReplayTypes, WorkerTypes, SessionTypes
      <3> QED BY <2>1, <3>1 DEF SessionTypes
    <2> QED BY <1>2, <2>2, <2>3, ClientEffect
  <1>3. CASE UNCHANGED vars
    BY <1>3 DEF vars, sessionVars, clientVars, memory, worker, SessionTypes, TaskTypes,
                LineTypes, ReplayTypes, WorkerTypes, HostTypes
  <1> QED BY <1>1, <1>2, <1>3

-----------------------------------------------------------------------------
(* Which answer is to which request.                                         *)

\* The identifiers in use, with what was asked under each.
InboxLines == {<<inbox[i].id, inbox[i].command>> : i \in 1..Len(inbox)}
OutboxLines == {<<outbox[i].id, outbox[i].of>> : i \in 1..Len(outbox)}
ReplayLines ==
    {<<replay[i].request.id, replay[i].request.command>> : i \in 1..Len(replay)}
        \cup {<<replay[i].response.id, replay[i].response.of>> : i \in 1..Len(replay)}
TaskLines == IF task.todo = <<>> THEN {} ELSE {<<task.id, task.of>>}

Lines == InboxLines \cup OutboxLines \cup ReplayLines \cup TaskLines

\* The workspace's last request is the only one of its identifier, and no
\* identifier is larger.
Paired(line) ==
    client = "workspace" =>
        /\ line[1] \in Nat /\ line[1] <= sent
        /\ host.asked # None /\ line[1] = host.asked => line[2] = host.wanted

LinesPaired ==
    /\ \A line \in Lines : Paired(line)
    /\ ~host.mixed

LEMMA StoredFacts ==
    ASSUME NEW id, NEW command, NEW ok, NEW value, NEW l
    PROVE  LET stored == Stored(Response(id, command, ok, value, l)) IN
           stored.id = id /\ stored.of = command
  BY DEF Stored, Receipt, Response

LEMMA RememberLines ==
    ASSUME SessionTypes, NEW id, NEW command, NEW response,
           Stored(response).id = id, Stored(response).of = command,
           replay' = Remember(Request(id, command), response)
    PROVE  ReplayLines' \subseteq ReplayLines \cup {<<id, command>>}
  <1> DEFINE request == Request(id, command)
  <1>1. CASE ~Cacheable(command)
    BY <1>1, RememberFacts DEF Request, ReplayLines
  <1>2. CASE Cacheable(command)
    <2>1. PICK size : replay' = Append(Suffix(size), Remembered(request, response, size))
      BY <1>2, RememberFacts DEF Request
    <2> DEFINE kept == Suffix(size)
               entry == Remembered(request, response, size)
    <2>2. /\ IsQueue(kept) /\ Len(kept) \in Nat
          /\ \A i \in 1..Len(kept) : \E j \in 1..Len(replay) : kept[i] = replay[j]
      <3>1. IsQueue(kept)
        BY SuffixFacts
      <3>2. \A i \in 1..Len(kept) : \E j \in 1..Len(replay) : kept[i] = replay[j]
        BY SuffixFacts
      <3> HIDE DEF kept
      <3> QED BY <3>1, <3>2, QueueFacts
    <2>3. /\ Len(replay') = Len(kept) + 1
          /\ \A i \in 1..Len(kept) : replay'[i] = kept[i]
          /\ replay'[Len(kept) + 1] = entry
      <3> HIDE DEF kept, entry
      <3>1. replay' = Append(kept, entry)
        BY <2>1 DEF kept, entry
      <3> QED BY <2>2, <3>1, AppendFacts
    <2>4. /\ <<entry.request.id, entry.request.command>> = <<id, command>>
          /\ <<entry.response.id, entry.response.of>> = <<id, command>>
      BY DEF Request, Remembered
    <2> HIDE DEF kept, entry
    <2>5. \A i \in 1..Len(replay') : replay'[i] = entry
                                     \/ \E j \in 1..Len(replay) : replay'[i] = replay[j]
      BY <2>2, <2>3
    <2> QED BY <2>4, <2>5 DEF ReplayLines
  <1> QED BY <1>1, <1>2

LEMMA AppendedLine ==
    ASSUME SessionTypes, NEW response, outbox' = Append(outbox, response)
    PROVE  OutboxLines' \subseteq OutboxLines \cup {<<response.id, response.of>>}
  <1>1. /\ Len(outbox') = Len(outbox) + 1 /\ Len(outbox) \in Nat
        /\ \A i \in 1..Len(outbox) : outbox'[i] = outbox[i]
        /\ outbox'[Len(outbox) + 1] = response
    BY AppendFacts, QueueFacts DEF SessionTypes, LineTypes
  <1>2. \A i \in 1..Len(outbox') : i \in 1..Len(outbox) \/ i = Len(outbox) + 1
    BY <1>1
  <1> QED BY <1>1, <1>2 DEF OutboxLines

LEMMA TakenLines ==
    ASSUME SessionTypes
    PROVE  /\ inbox # <<>> =>
                /\ <<Head(inbox).id, Head(inbox).command>> \in InboxLines
                /\ inbox' = Tail(inbox) => InboxLines' \subseteq InboxLines
           /\ outbox # <<>> =>
                /\ <<Head(outbox).id, Head(outbox).of>> \in OutboxLines
                /\ outbox' = Tail(outbox) => OutboxLines' \subseteq OutboxLines
  <1>1. ASSUME NEW q, IsQueue(q), q # <<>>
        PROVE  /\ 1 \in 1..Len(q) /\ Head(q) = q[1]
               /\ \A i \in 1..Len(Tail(q)) : i + 1 \in 1..Len(q) /\ Tail(q)[i] = q[i + 1]
    <2>1. /\ Len(q) \in Nat /\ Len(q) > 0 /\ Head(q) = q[1] /\ Len(Tail(q)) = Len(q) - 1
          /\ \A i \in 1..Len(Tail(q)) : Tail(q)[i] = q[i + 1]
      BY <1>1, TailFacts, QueueFacts
    <2> QED BY <2>1
  <1>2. IsQueue(inbox) /\ IsQueue(outbox)
    BY DEF SessionTypes, LineTypes
  <1>3. ASSUME inbox # <<>>
        PROVE  /\ <<Head(inbox).id, Head(inbox).command>> \in InboxLines
               /\ inbox' = Tail(inbox) => InboxLines' \subseteq InboxLines
    <2>1. /\ 1 \in 1..Len(inbox) /\ Head(inbox) = inbox[1]
          /\ \A i \in 1..Len(Tail(inbox)) :
                i + 1 \in 1..Len(inbox) /\ Tail(inbox)[i] = inbox[i + 1]
      BY <1>1, <1>2, <1>3
    <2> QED BY <2>1 DEF InboxLines
  <1>4. ASSUME outbox # <<>>
        PROVE  /\ <<Head(outbox).id, Head(outbox).of>> \in OutboxLines
               /\ outbox' = Tail(outbox) => OutboxLines' \subseteq OutboxLines
    <2>1. /\ 1 \in 1..Len(outbox) /\ Head(outbox) = outbox[1]
          /\ \A i \in 1..Len(Tail(outbox)) :
                i + 1 \in 1..Len(outbox) /\ Tail(outbox)[i] = outbox[i + 1]
      BY <1>1, <1>2, <1>4
    <2> QED BY <2>1 DEF OutboxLines
  <1> QED BY <1>3, <1>4

LEMMA StepLines ==
    ASSUME SessionTypes, SessionStep PROVE Lines' \subseteq Lines
  <1>1. CASE Receive
    <2>1. /\ inbox # <<>> /\ inbox' = Tail(inbox) /\ UNCHANGED <<outbox, replay>>
          /\ task' = [Idle EXCEPT !.id = Head(inbox).id, !.of = Head(inbox).command,
                                  !.todo = Steps(Head(inbox).command)]
      BY <1>1 DEF Receive, memory
    <2>2. UNCHANGED <<OutboxLines, ReplayLines>>
      BY <2>1 DEF OutboxLines, ReplayLines
    <2>3. TaskLines' \subseteq {<<Head(inbox).id, Head(inbox).command>>}
      BY <2>1 DEF TaskLines, Idle
    <2> QED BY <2>1, <2>2, <2>3, TakenLines DEF Lines
  <1>2. CASE Replays
    <2> DEFINE request == Head(inbox)
    <2>1. /\ inbox # <<>> /\ inbox' = Tail(inbox) /\ UNCHANGED <<task, replay>>
          /\ \E entry \in Entry(request.id) : outbox' = Append(outbox,
                IF entry.request = request THEN entry.response
                ELSE Response(request.id, request.command, FALSE, None, log))
      BY <1>2 DEF Replays, memory
    <2>2. PICK response : /\ outbox' = Append(outbox, response)
                          /\ <<response.id, response.of>> \in Lines
      <3>1. PICK entry \in Entry(request.id) : outbox' = Append(outbox,
                IF entry.request = request THEN entry.response
                ELSE Response(request.id, request.command, FALSE, None, log))
        BY <2>1
      <3>2. \E i \in 1..Len(replay) : entry = replay[i]
        BY QueueFacts DEF Entry, SessionTypes, ReplayTypes
      <3>3. <<entry.response.id, entry.response.of>> \in Lines
        BY <3>2 DEF Lines, ReplayLines
      <3>4. LET r == Response(request.id, request.command, FALSE, None, log)
            IN <<r.id, r.of>> \in Lines
        BY <2>1, TakenLines DEF Response, Lines
      <3> QED BY <3>1, <3>3, <3>4
    <2>3. UNCHANGED <<TaskLines, ReplayLines>>
      BY <2>1 DEF TaskLines, ReplayLines
    <2> QED BY <2>1, <2>2, <2>3, TakenLines, AppendedLine DEF Lines
  <1>3. CASE task.todo # <<>> /\ inbox' = inbox /\ Moves
    <2>1. UNCHANGED <<InboxLines, OutboxLines, ReplayLines>>
      BY <1>3 DEF Moves, InboxLines, OutboxLines, ReplayLines
    <2>2. task'.id = task.id /\ task'.of = task.of
      BY <1>3 DEF Moves, SessionTypes, TaskTypes
    <2>3. TaskLines' \subseteq TaskLines
      BY <1>3, <2>2 DEF TaskLines
    <2> QED BY <2>1, <2>3 DEF Lines
  <1>4. CASE task.todo # <<>> /\ inbox' = inbox /\ Answers
    <2>1. PICK ok, value, l : AnswerWith(ok, value, l)
      BY <1>4 DEF Answers
    <2> DEFINE response == Response(task.id, task.of, ok, value, l)
    <2>2. /\ outbox' = Append(outbox, response) /\ task' = Idle
          /\ replay' = Remember(Request(task.id, task.of), response)
      BY <2>1 DEF AnswerWith
    <2>3. /\ response.id = task.id /\ response.of = task.of
          /\ Stored(response).id = task.id /\ Stored(response).of = task.of
      BY StoredFacts DEF Response
    <2> HIDE DEF response
    <2>4. TaskLines = {<<task.id, task.of>>} /\ TaskLines' = {}
      BY <1>4, <2>2 DEF TaskLines, Idle
    <2>5. InboxLines' = InboxLines
      BY <1>4 DEF InboxLines
    <2>6. ReplayLines' \subseteq ReplayLines \cup {<<task.id, task.of>>}
      BY <2>2, <2>3, RememberLines
    <2> QED BY <2>2, <2>3, <2>4, <2>5, <2>6, AppendedLine DEF Lines
  <1> QED BY <1>1, <1>2, <1>3, <1>4, StepEffect

LEMMA RenewedLines ==
    ASSUME Renewed PROVE Lines' = {}
  <1>1. inbox' = <<>> /\ outbox' = <<>> /\ replay' = <<>> /\ task'.todo = <<>>
    BY DEF Renewed, Fresh, Idle
  <1> QED BY <1>1, EmptyQueue
          DEF Lines, InboxLines, OutboxLines, ReplayLines, TaskLines

LEMMA KeptLines ==
    ASSUME SessionTypes, Kept,
           inbox' = inbox \/ (inbox # <<>> /\ inbox' = Tail(inbox)),
           outbox' = outbox \/ (outbox # <<>> /\ outbox' = Tail(outbox))
    PROVE  Lines' \subseteq Lines
  <1>1. UNCHANGED <<TaskLines, ReplayLines>>
    BY DEF Kept, memory, TaskLines, ReplayLines
  <1>2. InboxLines' \subseteq InboxLines
    BY TakenLines DEF InboxLines
  <1>3. OutboxLines' \subseteq OutboxLines
    BY TakenLines DEF OutboxLines
  <1> QED BY <1>1, <1>2, <1>3 DEF Lines

LEMMA WrittenLine ==
    ASSUME SessionTypes, NEW id, NEW command, Write(Request(id, command))
    PROVE  Lines' \subseteq Lines \cup {<<id, command>>}
  <1>1. /\ Len(inbox') = Len(inbox) + 1 /\ Len(inbox) \in Nat
        /\ \A i \in 1..Len(inbox) : inbox'[i] = inbox[i]
        /\ inbox'[Len(inbox) + 1] = Request(id, command)
    BY AppendFacts, QueueFacts DEF SessionTypes, LineTypes, Write
  <1>2. \A i \in 1..Len(inbox') : i \in 1..Len(inbox) \/ i = Len(inbox) + 1
    BY <1>1
  <1>3. InboxLines' \subseteq InboxLines \cup {<<id, command>>}
    BY <1>1, <1>2 DEF InboxLines, Request
  <1>4. UNCHANGED <<TaskLines, ReplayLines, OutboxLines>>
    BY DEF Write, memory, TaskLines, ReplayLines, OutboxLines
  <1> QED BY <1>3, <1>4 DEF Lines

\* Only its own script changes what the workspace waits for.
LEMMA StillPaired ==
    ASSUME NEW line, Paired(line), UNCHANGED <<client, sent>>,
           \/ host'.asked = None
           \/ host'.asked = host.asked /\ host'.wanted = host.wanted
    PROVE  Paired(line)'
  BY DEF Paired

LEMMA PairedInductive ==
    ASSUME SessionTypes, LinesPaired, [Next]_vars PROVE LinesPaired'
  <1>1. ASSUME Lines' \subseteq Lines, UNCHANGED <<client, sent>>, ~host'.mixed,
               \/ host'.asked = None
               \/ host'.asked = host.asked /\ host'.wanted = host.wanted
        PROVE  LinesPaired'
    BY <1>1, StillPaired DEF LinesPaired
  <1>2. CASE SessionNext /\ UNCHANGED clientVars
    <2>1. Lines' \subseteq Lines
      <3>1. CASE WorkerTakes \/ WorkerSpeaks
        <4>1. UNCHANGED <<inbox, outbox, task, replay>>
          BY <3>1 DEF WorkerTakes, WorkerSpeaks, memory
        <4> QED BY <4>1 DEF Lines, InboxLines, OutboxLines, ReplayLines, TaskLines
      <3> QED BY <1>2, <3>1, StepLines DEF SessionNext
    <2>2. UNCHANGED <<client, sent, host>>
      BY <1>2 DEF clientVars
    <2> QED BY <1>1, <2>1, <2>2 DEF LinesPaired
  <1>3. CASE Ask
    <2>1. PICK id, command : Write(Request(id, command)) /\ client = "automation"
      BY <1>3 DEF Ask
    <2>2. client' = "automation" /\ UNCHANGED host
      BY <1>3, <2>1 DEF Ask, Write
    <2> QED BY <2>2 DEF LinesPaired, Paired
  <1>4. CASE SendLine
    <2>1. /\ Write(Request(sent + 1, Built)) /\ client = "workspace" /\ client' = client
          /\ host' = [host EXCEPT !.asked = sent + 1, !.wanted = Built] /\ sent' = sent + 1
      BY <1>4 DEF SendLine, InScript, Write
    <2>2. /\ host'.asked = sent + 1 /\ host'.wanted = Built /\ host'.mixed = host.mixed
          /\ sent \in Nat
      BY <2>1 DEF SessionTypes, HostTypes
    <2>3. \A line \in Lines : Paired(line)'
      BY <2>1, <2>2 DEF LinesPaired, Paired
    <2>4. PICK new : new = <<sent + 1, Built>>
      OBVIOUS
    <2>5. Paired(new)'
      BY <2>1, <2>2, <2>4 DEF Paired
    <2>6. Lines' \subseteq Lines \cup {new}
      BY <2>1, <2>4, WrittenLine
    <2>7. \A line \in Lines' : Paired(line)'
      BY <2>3, <2>5, <2>6
    <2> QED BY <2>2, <2>7 DEF LinesPaired
  <1>5. CASE Learn
    <2>1. Kept /\ inbox' = inbox /\ outbox # <<>> /\ outbox' = Tail(outbox)
      BY <1>5 DEF Learn, Kept
    <2> QED BY <1>1, <1>5, <2>1, KeptLines DEF Learn, LinesPaired
  <1>6. ASSUME Fresh(file), UNCHANGED <<file, spent>> PROVE Lines' \subseteq Lines
    BY <1>6, RenewedLines DEF Renewed
  <1>7. ASSUME UNCHANGED sessionVars PROVE Lines' \subseteq Lines
    BY <1>7 DEF sessionVars, memory, Lines, InboxLines, OutboxLines, ReplayLines, TaskLines
  <1>8. CASE Connect
    <2>1. Lines' \subseteq Lines
      BY <1>6, <1>7, <1>8 DEF Connect
    <2>2. /\ host'.asked = host.asked /\ host'.wanted = host.wanted /\ host'.mixed = host.mixed
          /\ UNCHANGED <<client, sent>>
      BY <1>8 DEF Connect, SessionTypes, HostTypes
    <2> QED BY <1>1, <2>1, <2>2 DEF LinesPaired
  <1>9. CASE Poll \/ WindowCommand \/ AddWindows \/ AddSlot
    <2>1. UNCHANGED <<sessionVars, client, sent>> /\ \E purpose, todo : Runs(purpose, todo)
      BY <1>9 DEF Poll, WindowCommand, AddWindows, AddSlot
    <2>2. host'.asked = host.asked /\ host'.wanted = host.wanted /\ host'.mixed = host.mixed
      BY <2>1 DEF Runs, SessionTypes, HostTypes
    <2> QED BY <1>1, <1>7, <2>1, <2>2 DEF LinesPaired
  <1>10. CASE Disconnect
    <2>1. Lines' \subseteq Lines /\ UNCHANGED <<client, sent>>
      BY <1>6, <1>10 DEF Disconnect, Dropped
    <2>2. host'.asked = host.asked /\ host'.wanted = host.wanted /\ host'.mixed = host.mixed
      BY <1>10 DEF Disconnect, SessionTypes, HostTypes
    <2> QED BY <1>1, <2>1, <2>2 DEF LinesPaired
  <1>11. ASSUME NEW waits, GivesUp(waits), UNCHANGED <<spent, file, client, sent>>,
                host'.up => (outbox' = outbox \/ (outbox # <<>> /\ outbox' = Tail(outbox)))
         PROVE  LinesPaired'
    <2>1. host'.asked = None /\ host'.mixed = host.mixed
      BY <1>11 DEF GivesUp, SessionTypes, HostTypes
    <2>2. Lines' \subseteq Lines
      <3>1. CASE host'.up
        BY <1>11, <3>1, KeptLines DEF GivesUp, Kept
      <3>2. CASE ~host'.up
        BY <1>6, <1>11, <3>2 DEF GivesUp, Dropped
      <3> QED BY <3>1, <3>2
    <2> QED BY <1>1, <1>11, <2>1, <2>2 DEF LinesPaired
  <1>12. CASE ReadLine
    <2> DEFINE response == Head(outbox)
    <2>1. /\ outbox # <<>> /\ client = "workspace" /\ host.asked # None
          /\ UNCHANGED <<spent, file, client, sent>>
      BY <1>12 DEF ReadLine, InScript
    <2>2. CASE ~Accepted(response)
      <3>1. GivesUp(host.waits) /\ (host'.up => outbox' = Tail(outbox))
        BY <1>12, <2>2 DEF ReadLine
      <3> QED BY <1>11, <2>1, <3>1
    <2>3. CASE Accepted(response)
      <3>1. /\ UNCHANGED <<inbox, task, memory, worker, ghost>> /\ outbox' = Tail(outbox)
            /\ \E script : host' = [Shown(response) EXCEPT !.asked = None, !.script = script,
                                !.mixed = Shown(response).mixed \/ response.of # host.wanted]
        BY <1>12, <2>3 DEF ReadLine
      <3>2. Lines' \subseteq Lines
        BY <2>1, <3>1, KeptLines DEF Kept
      <3>3. PICK revision, plan, candidate : Shown(response) =
                [host EXCEPT !.revision = revision, !.plan = plan, !.candidate = candidate]
        BY ShownFacts DEF SessionTypes
      <3>4. /\ host'.asked = None
            /\ host'.mixed = (host.mixed \/ response.of # host.wanted)
        BY <3>1, <3>3 DEF SessionTypes, HostTypes
      <3>5. response.of = host.wanted
        <4>1. <<response.id, response.of>> \in Lines
          BY <2>1, TakenLines DEF Lines
        <4>2. Paired(<<response.id, response.of>>)
          BY <4>1 DEF LinesPaired
        <4> QED BY <2>1, <2>3, <4>2 DEF Paired, Accepted
      <3>6. ~host'.mixed
        BY <3>4, <3>5 DEF LinesPaired
      <3> QED BY <1>1, <2>1, <3>2, <3>4, <3>6
    <2> QED BY <2>2, <2>3
  <1>13. CASE StopWaiting
    <2>1. GivesUp(host.waits + 1) /\ (host'.up => UNCHANGED outbox)
          /\ UNCHANGED <<spent, file, client, sent>>
      BY <1>13 DEF StopWaiting
    <2> QED BY <1>11, <2>1
  <1>14. CASE UNCHANGED vars
    <2>1. UNCHANGED sessionVars /\ UNCHANGED <<client, sent, host>>
      BY <1>14 DEF vars, clientVars
    <2> QED BY <1>1, <1>7, <2>1 DEF LinesPaired
  <1> QED BY <1>2, <1>3, <1>4, <1>5, <1>8, <1>9, <1>10, <1>12, <1>13, <1>14 DEF Next

LEMMA TypesAlways == Spec => []SessionTypes
  <1>1. Init => SessionTypes
    BY InitTypes
  <1>2. SessionTypes /\ [Next]_vars => SessionTypes'
    BY TypesInductive
  <1> QED BY <1>1, <1>2, PTL DEF Spec

\* The workspace's controller takes an answer to one request for that to another
\* never, whatever the session answers late, again or not at all.
THEOREM AnswersAreNotMixedUp == Spec => []NotMixedUp
  <1>1. Init => LinesPaired
    <2> SUFFICES ASSUME Init PROVE LinesPaired
      OBVIOUS
    <2>1. /\ inbox = <<>> /\ outbox = <<>> /\ replay = <<>> /\ task.todo = <<>> /\ ~host.mixed
      BY DEF Init, SessionInit, Idle
    <2>2. Lines = {}
      BY <2>1, EmptyQueue DEF Lines, InboxLines, OutboxLines, ReplayLines, TaskLines
    <2> QED BY <2>1, <2>2 DEF LinesPaired
  <1>2. SessionTypes /\ LinesPaired /\ [Next]_vars => LinesPaired'
    BY PairedInductive
  <1>3. LinesPaired => NotMixedUp
    BY DEF LinesPaired, NotMixedUp
  <1> QED BY <1>1, <1>2, <1>3, TypesAlways, PTL DEF Spec

-----------------------------------------------------------------------------
(* What was carried out, and what of it is remembered.                       *)

\* Positions counted from the end of a longer and of a shorter sequence.
LEMMA CountedFromEnd ==
    ASSUME NEW n \in Nat, NEW l \in Nat, NEW i \in 1..n, i > n - l
    PROVE  i - (n - l) \in 1..l /\ n - l + (i - (n - l)) = i
  OBVIOUS

\* A request that will be remembered is being carried out.
Executing == task # Idle /\ Cacheable(task.of)
Done == IF Executing THEN Len(ghost.executed) - 1 ELSE Len(ghost.executed)

\* The replay cache holds the answers to the last requests carried out.  One that
\* is gone was followed by as many as it keeps, or by more bytes than it keeps.
CacheIsLatest ==
    /\ Executing => /\ Len(ghost.executed) > 0
                    /\ ghost.executed[Len(ghost.executed)].id = task.id
                    /\ ghost.executed[Len(ghost.executed)].from = Total
    /\ Total \in Nat
    /\ \A i \in 1..Len(ghost.executed) : ghost.executed[i].from \in Nat
    /\ Len(replay) <= Done
    /\ \A i \in 1..Len(replay) :
            /\ replay[i].request.id = ghost.executed[Done - Len(replay) + i].id
            /\ replay[i].from = ghost.executed[Done - Len(replay) + i].from
    /\ \A i \in 1..Done - Len(replay) :
            \/ Done + 1 - i > MaxReplay
            \/ Total - ghost.executed[i].from > MaxBytes

Window == CacheIsLatest /\ AtMostOnceInWindow

LEMMA WindowKept ==
    ASSUME SessionTypes, Window, UNCHANGED replay, ghost'.executed = ghost.executed,
           Executing' = Executing, task'.id = task.id
    PROVE  Window'
  BY DEF Window, CacheIsLatest, AtMostOnceInWindow, Done, Total

LEMMA WindowReceives ==
    ASSUME SessionTypes, Window, Receive PROVE Window'
  <1> DEFINE request == Head(inbox)
             n == Len(ghost.executed)
             new == [id |-> request.id, from |-> Total]
  <1>1. /\ inbox # <<>> /\ task = Idle /\ UNCHANGED replay
        /\ Cacheable(request.command) => Entry(request.id) = {}
        /\ task' = [Idle EXCEPT !.id = request.id, !.of = request.command,
                                !.todo = Steps(request.command)]
        /\ ghost' = IF Cacheable(request.command)
                    THEN [ghost EXCEPT !.executed = Append(@, new)] ELSE ghost
    BY DEF Receive, memory
  <1>2. request.id \in Nat
    BY <1>1, TailFacts, QueueFacts DEF SessionTypes, LineTypes
  <1>3. task' # Idle /\ task'.id = request.id /\ task'.of = request.command
    BY <1>1, <1>2, SessionAssumption DEF Idle
  <1>4. /\ ~Executing /\ Done = n /\ n \in Nat /\ Len(replay) \in Nat
        /\ Total' = Total /\ Total \in Nat
    BY <1>1, QueueFacts DEF Executing, Done, SessionTypes, ReplayTypes, Total,
                            Window, CacheIsLatest
  <1>5. CASE ~Cacheable(request.command)
    BY <1>1, <1>3, <1>4, <1>5
       DEF Window, CacheIsLatest, AtMostOnceInWindow, Done, Executing
  <1>6. CASE Cacheable(request.command)
    <2>1. /\ ghost'.executed = Append(ghost.executed, new)
          /\ IsQueue(ghost.executed)
      BY <1>1, <1>6 DEF SessionTypes, ReplayTypes
    <2>9. new.id = request.id /\ new.from = Total
      OBVIOUS
    <2> HIDE DEF request, new
    <2>2. /\ Len(ghost'.executed) = n + 1 /\ IsQueue(ghost'.executed)
          /\ \A i \in 1..n : ghost'.executed[i] = ghost.executed[i]
          /\ ghost'.executed[n + 1] = new
      BY <2>1, AppendFacts
    <2>3. Executing' /\ Done' = n
      BY <1>3, <1>4, <1>6, <2>2 DEF Executing, Done
    <2>4. CacheIsLatest'
      <3>1. ASSUME NEW i \in 1..Len(replay)
            PROVE  /\ replay[i].request.id = ghost'.executed[n - Len(replay) + i].id
                   /\ replay[i].from = ghost'.executed[n - Len(replay) + i].from
        <4>1. n - Len(replay) + i \in 1..n
          BY <1>4 DEF Window, CacheIsLatest
        <4> QED BY <1>4, <2>2, <4>1 DEF Window, CacheIsLatest
      <3>2. ASSUME NEW i \in 1..n - Len(replay)
            PROVE  n + 1 - i > MaxReplay \/ Total - ghost'.executed[i].from > MaxBytes
        <4>1. i \in 1..n
          BY <1>4
        <4> QED BY <1>4, <2>2, <4>1 DEF Window, CacheIsLatest
      <3>3. ASSUME NEW i \in 1..n + 1 PROVE ghost'.executed[i].from \in Nat
        <4>1. i \in 1..n \/ i = n + 1
          BY <1>4
        <4> QED BY <1>4, <2>2, <2>9, <4>1 DEF Window, CacheIsLatest
      <3>4. Len(replay) <= n
        BY <1>4 DEF Window, CacheIsLatest
      <3>5. n + 1 > 0
        BY <1>4
      <3> HIDE DEF n
      <3> QED BY <1>1, <1>3, <1>4, <2>2, <2>3, <2>9, <3>1, <3>2, <3>3, <3>4, <3>5
              DEF CacheIsLatest
    <2>5. ASSUME NEW i \in 1..n, ghost.executed[i].id = request.id
          PROVE  \/ (n + 1) - i > MaxReplay
                 \/ Total - ghost.executed[i].from > MaxBytes
      <3>1. i \in 1..n - Len(replay)
        <4>1. SUFFICES ASSUME i > n - Len(replay) PROVE FALSE
          BY <1>4
        <4> DEFINE k == i - (n - Len(replay))
        <4>2. k \in 1..Len(replay) /\ n - Len(replay) + k = i
          <5>1. i \in Int /\ i <= n /\ n \in Int /\ Len(replay) \in Int
            BY <1>4, <2>5
          <5>2. n \in Nat /\ Len(replay) \in Nat /\ i > n - Len(replay)
            BY <1>4, <4>1
          <5> HIDE DEF n
          <5> QED BY ONLY <5>1, <5>2, i \in 1..n, CountedFromEnd
        <4>3. replay[k].request.id = request.id
          BY <1>4, <2>5, <4>2 DEF Window, CacheIsLatest
        <4>4. replay[k] \in Entry(request.id)
          <5> HIDE DEF k
          <5> QED BY <4>2, <4>3, QueueFacts DEF Entry, SessionTypes, ReplayTypes
        <4> QED BY <1>1, <1>6, <4>4
      <3> QED BY <1>4, <3>1 DEF Window, CacheIsLatest
    <2>6. AtMostOnceInWindow'
      <3>1. SUFFICES ASSUME NEW i \in DOMAIN ghost'.executed, NEW j \in DOMAIN ghost'.executed,
                            i < j, ghost'.executed[i].id = ghost'.executed[j].id
                     PROVE  \/ j - i > MaxReplay
                            \/ ghost'.executed[j].from - ghost'.executed[i].from > MaxBytes
        BY DEF AtMostOnceInWindow
      <3>2. i \in 1..(n + 1) /\ j \in 1..(n + 1) /\ DOMAIN ghost.executed = 1..n
        BY <2>1, <2>2, QueueFacts
      <3>3. CASE j = n + 1
        <4>1. i \in 1..n
          BY <1>4, <3>1, <3>2, <3>3
        <4>2. ghost.executed[i].id = request.id
          BY <2>2, <2>9, <3>1, <3>3, <4>1
        <4>3. /\ ghost'.executed[i].from = ghost.executed[i].from
              /\ ghost'.executed[j].from = Total
          BY <2>2, <2>9, <3>3, <4>1
        <4> QED BY <2>5, <3>3, <4>1, <4>2, <4>3
      <3>4. CASE j # n + 1
        <4>1. i \in 1..n /\ j \in 1..n
          BY <1>4, <3>1, <3>2, <3>4
        <4> QED BY <2>2, <3>1, <3>2, <4>1 DEF Window, AtMostOnceInWindow
      <3> QED BY <3>3, <3>4
    <2> QED BY <2>4, <2>6 DEF Window
  <1> QED BY <1>5, <1>6

LEMMA WindowAnswers ==
    ASSUME SessionTypes, Window, task.todo # <<>>, Answers PROVE Window'
  <1> DEFINE request == Request(task.id, task.of)
             n == Len(ghost.executed)
             l == Len(replay)
  <1>1. PICK response : task' = Idle /\ UNCHANGED ghost /\ replay' = Remember(request, response)
    BY DEF Answers, AnswerWith
  <1>2. /\ n \in Nat /\ l \in Nat /\ IsQueue(replay)
        /\ MaxReplay \in Nat \ {0} /\ MaxBytes \in Nat
        /\ task # Idle /\ Total \in Nat
    BY SessionAssumption, TaskBusy, QueueFacts
       DEF SessionTypes, ReplayTypes, Window, CacheIsLatest
  <1>3. ~Executing' /\ Done' = n /\ request.command = task.of /\ request.id = task.id
    BY <1>1 DEF Executing, Done, Request
  <1> HIDE DEF request
  <1>4. CASE ~Cacheable(task.of)
    <2>1. replay' = replay
      BY <1>1, <1>3, <1>4, RememberFacts
    <2>2. ~Executing /\ Done = n
      BY <1>4 DEF Executing, Done
    <2> QED BY <1>1, <1>3, <2>1, <2>2 DEF Window, CacheIsLatest, AtMostOnceInWindow, Total
  <1>5. CASE Cacheable(task.of)
    <2>1. Executing /\ Done = n - 1
      BY <1>2, <1>5 DEF Executing, Done
    <2>2. /\ n > 0 /\ ghost.executed[n].id = task.id /\ ghost.executed[n].from = Total
          /\ l <= n - 1
          /\ \A i \in 1..n : ghost.executed[i].from \in Nat
          /\ \A i \in 1..l : /\ replay[i].request.id = ghost.executed[(n - 1) - l + i].id
                             /\ replay[i].from = ghost.executed[(n - 1) - l + i].from
          /\ \A i \in 1..(n - 1) - l : \/ (n - 1) + 1 - i > MaxReplay
                                       \/ Total - ghost.executed[i].from > MaxBytes
      BY <2>1 DEF Window, CacheIsLatest
    <2>3. PICK size \in Nat \ {0} :
                replay' = Append(Suffix(size), Remembered(request, response, size))
      BY <1>1, <1>3, <1>5, RememberFacts
    <2> DEFINE kept == Suffix(size)
               entry == Remembered(request, response, size)
               f == FirstKept(size)
    <2>4. /\ f \in 1..l + 1
          /\ \A i \in 1..l : i < f => ~LeavesRoom(i, size)
          /\ IsQueue(kept) /\ Len(kept) = l + 1 - f
          /\ \A i \in 1..Len(kept) : f + i - 1 \in 1..l /\ kept[i] = replay[f + i - 1]
      BY SuffixFacts
    <2>5. entry.request = request /\ entry.from = Total /\ entry.size = size
      BY DEF Remembered
    <2>6. replay' = Append(kept, entry)
      BY <2>3
    <2> HIDE DEF kept, entry, f, n, l
    <2>7. /\ IsQueue(replay') /\ Len(replay') = l + 2 - f
          /\ \A i \in 1..Len(kept) : replay'[i] = kept[i]
          /\ replay'[Len(replay')] = entry
      <3>1. /\ IsQueue(replay') /\ Len(replay') = Len(kept) + 1
            /\ \A i \in 1..Len(kept) : replay'[i] = kept[i]
            /\ replay'[Len(kept) + 1] = entry
        BY <2>4, <2>6, AppendFacts
      <3>2. Len(kept) + 1 = l + 2 - f
        BY <1>2, <2>4
      <3> QED BY <2>4, <3>1, <3>2
    <2>8. Total' = Total + size /\ Total' \in Nat
      <3>1. Len(replay') > 0
        BY <1>2, <2>4, <2>7
      <3>2. replay' # <<>>
        BY <3>1, EmptyQueue
      <3>3. Last(replay') = entry
        BY <2>7 DEF Last
      <3> QED BY <1>2, <2>5, <3>2, <3>3 DEF Total
    <2>9. ASSUME NEW i \in 1..Len(replay')
          PROVE  /\ replay'[i].request.id = ghost.executed[n - Len(replay') + i].id
                 /\ replay'[i].from = ghost.executed[n - Len(replay') + i].from
      <3>1. CASE i = Len(replay')
        <4>1. n - Len(replay') + i = n
          BY <1>2, <2>4, <2>7, <3>1
        <4> QED BY <1>3, <2>2, <2>5, <2>7, <3>1, <4>1
      <3>2. CASE i # Len(replay')
        <4>1. i \in 1..Len(kept)
          BY <1>2, <2>4, <2>7, <3>2
        <4>2. f + i - 1 \in 1..l /\ replay'[i] = replay[f + i - 1]
          BY <2>4, <2>7, <4>1
        <4>3. (n - 1) - l + (f + i - 1) = n - Len(replay') + i
          BY <1>2, <2>4, <2>7
        <4> QED BY <2>2, <4>2, <4>3
      <3> QED BY <3>1, <3>2
    <2>10. ASSUME NEW i \in 1..n - Len(replay')
           PROVE  n + 1 - i > MaxReplay \/ Total' - ghost.executed[i].from > MaxBytes
      <3>1. i \in 1..n /\ ghost.executed[i].from \in Nat
        <4>1. i \in 1..n
          BY <1>2, <2>4, <2>7
        <4> QED BY <2>2, <4>1
      <3>2. CASE i <= (n - 1) - l
        <4>1. (n - 1) + 1 - i > MaxReplay \/ Total - ghost.executed[i].from > MaxBytes
          BY <1>2, <2>2, <3>1, <3>2
        <4> QED BY <1>2, <2>8, <3>1, <4>1
      <3>3. CASE i > (n - 1) - l
        <4> DEFINE k == i - ((n - 1) - l)
        <4>1. k \in 1..l /\ k < f /\ (n - 1) - l + k = i
          BY <1>2, <2>4, <2>7, <3>1, <3>3
        <4>2. replay[k].from = ghost.executed[i].from /\ ~LeavesRoom(k, size)
          BY <2>2, <2>4, <4>1
        <4>3. l - k + 1 >= MaxReplay \/ Total - ghost.executed[i].from + size > MaxBytes
          <5> HIDE DEF k
          <5>1. ~(l - k + 1 < MaxReplay) \/ ~(Total - replay[k].from + size <= MaxBytes)
            BY <4>2 DEF LeavesRoom, l
          <5>2. l - k + 1 \in Int /\ Total - replay[k].from + size \in Int
            BY <1>2, <3>1, <4>1, <4>2
          <5> QED BY <1>2, <4>2, <5>1, <5>2
        <4> QED BY <1>2, <2>8, <3>1, <4>1, <4>3
      <3> QED BY <1>2, <3>1, <3>2, <3>3
    <2>11. Len(replay') <= n
      BY <1>2, <2>2, <2>4, <2>7
    <2>12. CacheIsLatest'
      <3>1. ghost' = ghost /\ Len(ghost.executed) = n
        BY <1>1 DEF n
      <3> QED BY <1>3, <2>2, <2>8, <2>9, <2>10, <2>11, <3>1 DEF CacheIsLatest
    <2> QED BY <1>1, <2>12 DEF Window, AtMostOnceInWindow
  <1> QED BY <1>4, <1>5

LEMMA WindowInductive ==
    ASSUME SessionTypes, Window, [Next]_vars PROVE Window'
  <1>1. CASE Kept \/ UNCHANGED vars
    <2>1. UNCHANGED <<task, replay, ghost>>
      BY <1>1 DEF Kept, memory, vars, sessionVars
    <2> QED BY <2>1, WindowKept DEF Executing
  <1>2. CASE Renewed
    <2>1. replay' = <<>> /\ ghost'.executed = <<>> /\ task' = Idle
      BY <1>2 DEF Renewed, Fresh, SessionTypes, ReplayTypes
    <2>2. Len(<<>>) = 0 /\ DOMAIN <<>> = {} /\ MaxReplay \in Nat
      BY SessionAssumption
    <2> QED BY <2>1, <2>2
            DEF Window, CacheIsLatest, AtMostOnceInWindow, Executing, Done, Total
  <1>3. CASE SessionNext
    <2>1. CASE WorkerTakes \/ WorkerSpeaks
      <3>1. UNCHANGED <<task, replay>> /\ ghost'.executed = ghost.executed
        BY <2>1 DEF WorkerTakes, WorkerSpeaks, memory, SessionTypes, ReplayTypes
      <3> QED BY <3>1, WindowKept DEF Executing
    <2>2. CASE Replays
      <3>1. UNCHANGED <<task, replay, ghost>>
        BY <2>2 DEF Replays, memory
      <3> QED BY <3>1, WindowKept DEF Executing
    <2>3. CASE task.todo # <<>> /\ Moves
      <3>1. task.id \in Nat /\ task # Idle
        BY <2>3, TaskBusy DEF SessionTypes
      <3>2. /\ UNCHANGED <<replay, ghost>> /\ task'.id = task.id /\ task'.of = task.of
            /\ task' # Idle
        <4>1. PICK todo, heard, plan :
                    task' = [task EXCEPT !.todo = todo, !.heard = heard, !.plan = plan]
          BY <2>3 DEF Moves
        <4>2. task'.id = task.id /\ task'.of = task.of
          BY <4>1 DEF SessionTypes, TaskTypes
        <4>3. Idle.id = None
          BY DEF Idle
        <4> QED BY <2>3, <3>1, <4>2, <4>3, SessionAssumption DEF Moves
      <3> QED BY <3>1, <3>2, WindowKept DEF Executing
    <2> QED BY <1>3, <2>1, <2>2, <2>3, StepEffect, WindowReceives, WindowAnswers
            DEF SessionNext
  <1> QED BY <1>1, <1>2, <1>3, ClientEffect

\* However its client repeats it, a control command is not carried out again before
\* MaxReplay others were, or answers of more than MaxBytes from its own on were
\* remembered: until then its answer, good or bad, is in the cache, or a receipt.
THEOREM CommandsAreCarriedOutOnce == Spec => []AtMostOnceInWindow
  <1>1. Init => Window
    <2> SUFFICES ASSUME Init PROVE Window
      OBVIOUS
    <2>1. replay = <<>> /\ ghost.executed = <<>> /\ task = Idle
      BY DEF Init, SessionInit
    <2>2. Len(<<>>) = 0 /\ DOMAIN <<>> = {} /\ MaxReplay \in Nat
      BY SessionAssumption
    <2> QED BY <2>1, <2>2
            DEF Window, CacheIsLatest, AtMostOnceInWindow, Executing, Done, Total
  <1>2. SessionTypes /\ Window /\ [Next]_vars => Window'
    BY WindowInductive
  <1>3. Window => AtMostOnceInWindow
    BY DEF Window
  <1> QED BY <1>1, <1>2, <1>3, TypesAlways, PTL DEF Spec

-----------------------------------------------------------------------------
(* Where the number of a plan can be.                                        *)

\* Previews the worker has told of, and plans it is to compute or carry out.
PreviewsIn(q) == {q[i].of.number : i \in {n \in 1..Len(q) : q[n].kind = "preview"}}
CommandsOf(kind) == {queue[i].plan.number : i \in {n \in 1..Len(queue) : queue[n].kind = kind}}

\* Plans the session holds, is about to have carried out, and has had carried out.
Held == {plan.number : plan \in plans}
Taken == IF task.todo # <<>> /\ Head(task.todo) = "apply" THEN {task.plan.number} ELSE {}
Applied == {plan.number : plan \in ghost.applied}

Flying == PreviewsIn(task.heard) \cup PreviewsIn(events) \cup CommandsOf("preview")
Used == Held \cup Taken \cup CommandsOf("apply") \cup Applied

\* A plan is taken before it is applied.
AfterTake(todo) == \A i \in 2..Len(todo) : todo[i] = "apply" => i = 2 /\ todo[1] = "take"

EventsOnce ==
    \A i, j \in 1..Len(events) :
        /\ events[i].kind = "preview" /\ events[j].kind = "preview"
        /\ events[i].of.number = events[j].of.number
        => i = j

QueueOnce ==
    \A i, j \in 1..Len(queue) :
        /\ queue[i].kind \in {"preview", "apply"} /\ queue[j].kind = queue[i].kind
        /\ queue[i].plan.number = queue[j].plan.number
        => i = j

Disjoint(S, T) == \A n \in S : n \notin T

\* A number is in one place at a time.
NumbersApart ==
    /\ Disjoint(PreviewsIn(task.heard), PreviewsIn(events))
    /\ Disjoint(PreviewsIn(task.heard), CommandsOf("preview"))
    /\ Disjoint(PreviewsIn(events), CommandsOf("preview"))
    /\ Disjoint(Used, Flying)
    /\ Disjoint(Held, Taken) /\ Disjoint(Held, CommandsOf("apply")) /\ Disjoint(Held, Applied)
    /\ Disjoint(Taken, CommandsOf("apply")) /\ Disjoint(Taken, Applied)
    /\ Disjoint(CommandsOf("apply"), Applied)

NumbersIssued == \A n \in Used \cup Flying : n \in Nat /\ n <= spent.tokens

PlansOnce ==
    /\ EventsOnce /\ QueueOnce /\ NumbersApart /\ NumbersIssued
    /\ ~ghost.twice

-----------------------------------------------------------------------------
(* Which previews can be of an earlier configuration.                        *)

Waiting == task.todo # <<>> /\ Head(task.todo) = "wait"

\* The barrier of the exchange waited for is the last thing the worker will say
\* of what it was asked; those of exchanges given up have another number.
BarrierIsLast ==
    /\ \A i \in 1..Len(queue) : queue[i].kind = "barrier" =>
            queue[i].of = None \/ (queue[i].of \in Nat /\ queue[i].of <= spent.late)
    /\ \A i \in 1..Len(events) : events[i].kind = "barrier" =>
            events[i].of = None \/ (events[i].of \in Nat /\ events[i].of <= spent.late)
    /\ \A i \in 1..Len(queue) : queue[i].kind = "barrier" /\ queue[i].of = spent.late =>
            /\ Waiting /\ i = Len(queue)
            /\ \A j \in 1..Len(events) : events[j] # Barrier
    /\ \A i \in 1..Len(events) : events[i] = Barrier =>
            /\ Waiting /\ queue = <<>>
            /\ \A j \in 1..Len(events) : j > i => events[j].kind \notin {"preview", "barrier"}

\* What follows an edit of the configuration, and the computation of a plan.
EditsRefresh(todo) ==
    \A i \in 1..Len(todo) :
        /\ todo[i] \in {"save", "restore"} =>
                Len(todo) = i + 2 /\ todo[i + 1] = "refresh" /\ todo[i + 2] = "done"
        /\ todo[i] = "plan" => Len(todo) = i + 1 /\ todo[i + 1] = "preview"

RefreshPending == task.todo \in {<<"refresh", "done">>, <<"wait", "done">>}

CurrentIn(q) == \A i \in 1..Len(q) : q[i].kind = "preview" => q[i].of.revision = config
CurrentQueued ==
    \A i \in 1..Len(queue) : queue[i].kind = "preview" => queue[i].plan.revision = config
NonePending ==
    /\ \A i \in 1..Len(events) : events[i].kind # "preview"
    /\ \A i \in 1..Len(queue) : queue[i].kind # "preview"

\* Only an exchange that was given up leaves previews behind, and the exchange
\* that every edit ends with takes them before anything looks at them.
StaleAreTaken ==
    spent.late < 2 =>
        /\ \A plan \in plans : plan.revision = config
        /\ RefreshPending \/ (CurrentIn(events) /\ CurrentQueued)
        /\ RefreshPending \/ task.todo = <<"done">> \/ CurrentIn(task.heard)
        /\ spent.late = 0 /\ task.todo # <<"wait", "preview">> => NonePending

PreviewsCurrent == BarrierIsLast /\ StaleAreTaken

-----------------------------------------------------------------------------
(* What a request has yet to do.                                             *)

TodoShape(todo) == AfterTake(todo) /\ EditsRefresh(todo)

LEMMA ShapeOne ==
    ASSUME NEW a, a \notin {"save", "restore", "plan"} PROVE TodoShape(<<a>>)
  BY DEF TodoShape, AfterTake, EditsRefresh

LEMMA ShapeTwo ==
    ASSUME NEW a, NEW b, a \notin {"save", "restore", "plan"},
           b \notin {"save", "restore", "plan"}, b = "apply" => a = "take"
    PROVE  TodoShape(<<a, b>>)
  <1> DEFINE q == <<a, b>>
  <1>1. Len(q) = 2 /\ q[1] = a /\ q[2] = b
    OBVIOUS
  <1> HIDE DEF q
  <1>2. \A i \in 1..Len(q) : i = 1 \/ i = 2
    BY <1>1
  <1>3. TodoShape(q)
    BY <1>1, <1>2 DEF TodoShape, AfterTake, EditsRefresh
  <1> QED BY <1>3 DEF q

LEMMA ShapeThree == TodoShape(<<"room", "plan", "preview">>)
  <1> DEFINE q == <<"room", "plan", "preview">>
  <1>1. Len(q) = 3 /\ q[1] = "room" /\ q[2] = "plan" /\ q[3] = "preview"
    OBVIOUS
  <1> HIDE DEF q
  <1>2. \A i \in 1..Len(q) : i = 1 \/ i = 2 \/ i = 3
    BY <1>1
  <1>3. TodoShape(q)
    BY <1>1, <1>2 DEF TodoShape, AfterTake, EditsRefresh
  <1> QED BY <1>3 DEF q

LEMMA ShapeFour ==
    ASSUME NEW a, NEW b, NEW c, NEW d, a \in {"current", "refresh"},
           <<b, c, d>> \in {<<"save", "refresh", "done">>, <<"restore", "refresh", "done">>,
                            <<"candidate", "tell", "forget">>, <<"room", "plan", "preview">>}
    PROVE  TodoShape(<<a, b, c, d>>)
  <1> DEFINE q == <<a, b, c, d>>
  <1>1. Len(q) = 4 /\ q[1] = a /\ q[2] = b /\ q[3] = c /\ q[4] = d
    OBVIOUS
  <1> HIDE DEF q
  <1>2. \A i \in 1..Len(q) : i = 1 \/ i = 2 \/ i = 3 \/ i = 4
    BY <1>1
  <1>3. \/ b \in {"save", "restore"} /\ c = "refresh" /\ d = "done"
        \/ b = "candidate" /\ c = "tell" /\ d = "forget"
        \/ b = "room" /\ c = "plan" /\ d = "preview"
    OBVIOUS
  <1>4. TodoShape(q)
    BY <1>1, <1>2, <1>3 DEF TodoShape, AfterTake, EditsRefresh
  <1> QED BY <1>4 DEF q

LEMMA ShapeFive == TodoShape(<<"current", "refresh", "save", "refresh", "done">>)
  <1> DEFINE q == <<"current", "refresh", "save", "refresh", "done">>
  <1>1. /\ Len(q) = 5 /\ q[1] = "current" /\ q[2] = "refresh" /\ q[3] = "save"
        /\ q[4] = "refresh" /\ q[5] = "done"
    OBVIOUS
  <1> HIDE DEF q
  <1>2. \A i \in 1..Len(q) : i = 1 \/ i = 2 \/ i = 3 \/ i = 4 \/ i = 5
    BY <1>1
  <1>3. TodoShape(q)
    BY <1>1, <1>2 DEF TodoShape, AfterTake, EditsRefresh
  <1> QED BY <1>3 DEF q

LEMMA StepsShape ==
    ASSUME NEW command, command.kind \in Kinds
    PROVE  LET todo == Steps(command)
           IN TodoShape(todo) /\ todo # <<>> /\ Head(todo) \notin {"apply", "wait"}
  <1> DEFINE kind == command.kind
  <1>1. CASE kind \in {"snapshot", "inventory", "events", "apply", "recover", "confirm", "tell"}
    <2>1. PICK a, b : /\ Steps(command) = <<a, b>>
                      /\ a \in {"refresh", "poll", "take", "tell"}
                      /\ b \notin {"save", "restore", "plan"}
                      /\ b = "apply" => a = "take"
      BY <1>1 DEF Steps
    <2>2. <<a, b>> # <<>> /\ Head(<<a, b>>) = a
      OBVIOUS
    <2> QED BY <2>1, <2>2, ShapeTwo
  <1>2. CASE kind \in {"configure", "configuration_undo", "bind", "navigate", "collapse"}
    <2>1. PICK a, b, c, d : /\ Steps(command) = <<a, b, c, d>>
                            /\ a \in {"current", "refresh"}
                            /\ <<b, c, d>> \in {<<"save", "refresh", "done">>,
                                 <<"restore", "refresh", "done">>,
                                 <<"candidate", "tell", "forget">>, <<"room", "plan", "preview">>}
      BY <1>2 DEF Steps, Undoing
    <2>2. <<a, b, c, d>> # <<>> /\ Head(<<a, b, c, d>>) = a
      OBVIOUS
    <2> QED BY <2>1, <2>2, ShapeFour
  <1>3. CASE kind = "capture"
    <2>1. Steps(command) = <<"current", "refresh", "save", "refresh", "done">>
      BY <1>3 DEF Steps
    <2> QED BY <2>1, ShapeFive
  <1>4. CASE kind = "preview"
    <2>1. Steps(command) = <<"room", "plan", "preview">>
      BY <1>4 DEF Steps
    <2> QED BY <2>1, ShapeThree
  <1>5. CASE kind \in {"configuration", "discard"}
    <2>1. Steps(command) = <<kind>>
      BY <1>5 DEF Steps
    <2>2. <<kind>> # <<>> /\ Head(<<kind>>) = kind
      OBVIOUS
    <2> HIDE DEF kind
    <2> QED BY <1>5, <2>1, <2>2, ShapeOne
  <1> QED BY <1>1, <1>2, <1>3, <1>4, <1>5 DEF Kinds

LEMMA OneIs == ASSUME NEW q, IsQueue(q), Len(q) = 1 PROVE q = <<q[1]>>
  BY DEF IsQueue

LEMMA TwoIs == ASSUME NEW q, IsQueue(q), Len(q) = 2 PROVE q = <<q[1], q[2]>>
  BY DEF IsQueue

LEMMA TailShape ==
    ASSUME NEW todo, IsQueue(todo), todo # <<>>, TodoShape(todo)
    PROVE  LET rest == Tail(todo) IN
           /\ TodoShape(rest)
           /\ IsQueue(rest)
           /\ rest # <<>> /\ Head(rest) = "apply" => Head(todo) = "take"
           /\ \A i \in 1..Len(rest) : rest[i] = "apply" => Head(todo) = "take"
           /\ Head(todo) \in {"save", "restore"} => rest = <<"refresh", "done">>
           /\ Head(todo) = "plan" => rest = <<"preview">>
  <1> DEFINE rest == Tail(todo)
  <1>1. /\ IsQueue(rest) /\ Len(rest) = Len(todo) - 1 /\ Len(todo) \in Nat /\ Len(todo) > 0
        /\ Head(todo) = todo[1] /\ \A i \in 1..Len(rest) : rest[i] = todo[i + 1]
    BY TailFacts, QueueFacts
  <1> HIDE DEF rest
  <1>2. 1 \in 1..Len(todo) /\ \A i \in 1..Len(rest) : i + 1 \in 1..Len(todo)
    BY <1>1
  <1>3. AfterTake(rest)
    <2>1. ASSUME NEW i \in 2..Len(rest) PROVE rest[i] # "apply"
      <3>1. i \in 1..Len(rest) /\ i + 1 \in 2..Len(todo) /\ i + 1 # 2
        BY <1>1
      <3> QED BY <1>1, <3>1 DEF TodoShape, AfterTake
    <2> QED BY <2>1 DEF AfterTake
  <1>4. EditsRefresh(rest)
    <2>1. ASSUME NEW i \in 1..Len(rest)
          PROVE  /\ rest[i] \in {"save", "restore"} =>
                        Len(rest) = i + 2 /\ rest[i + 1] = "refresh" /\ rest[i + 2] = "done"
                 /\ rest[i] = "plan" => Len(rest) = i + 1 /\ rest[i + 1] = "preview"
      <3>1. rest[i] = todo[i + 1] /\ i + 1 \in 1..Len(todo)
        BY <1>1, <1>2
      <3>2. CASE rest[i] \in {"save", "restore"}
        <4>1. /\ Len(todo) = (i + 1) + 2
              /\ todo[(i + 1) + 1] = "refresh" /\ todo[(i + 1) + 2] = "done"
          BY <3>1, <3>2 DEF TodoShape, EditsRefresh
        <4>2. i + 1 \in 1..Len(rest) /\ i + 2 \in 1..Len(rest) /\ Len(rest) = i + 2
              /\ (i + 2) + 1 = (i + 1) + 2
          BY <1>1, <4>1
        <4>3. rest[i + 1] = todo[(i + 1) + 1] /\ rest[i + 2] = todo[(i + 2) + 1]
          BY <1>1, <4>2
        <4> QED BY <3>2, <4>1, <4>2, <4>3
      <3>3. CASE rest[i] = "plan"
        <4>1. Len(todo) = (i + 1) + 1 /\ todo[(i + 1) + 1] = "preview"
          BY <3>1, <3>3 DEF TodoShape, EditsRefresh
        <4>2. i + 1 \in 1..Len(rest) /\ Len(rest) = i + 1
          BY <1>1, <4>1
        <4>3. rest[i + 1] = todo[(i + 1) + 1]
          BY <1>1, <4>2
        <4> QED BY <3>3, <4>1, <4>2, <4>3
      <3> QED BY <3>2, <3>3
    <2> QED BY <2>1 DEF EditsRefresh
  <1>5. ASSUME NEW i \in 1..Len(rest), rest[i] = "apply" PROVE Head(todo) = "take"
    <2>1. i + 1 \in 2..Len(todo) /\ rest[i] = todo[i + 1]
      BY <1>1
    <2> QED BY <1>1, <1>5, <2>1 DEF TodoShape, AfterTake
  <1>8. ASSUME rest # <<>>, Head(rest) = "apply" PROVE Head(todo) = "take"
    <2>1. Head(rest) = rest[1] /\ Len(rest) > 0
      BY <1>1, <1>8, TailFacts, QueueFacts
    <2>2. 1 \in 1..Len(rest)
      BY <1>1, <2>1
    <2> QED BY <1>5, <1>8, <2>1, <2>2
  <1>6. ASSUME Head(todo) \in {"save", "restore"} PROVE rest = <<"refresh", "done">>
    <2>1. Len(todo) = 1 + 2 /\ todo[1 + 1] = "refresh" /\ todo[1 + 2] = "done"
      BY <1>1, <1>2, <1>6 DEF TodoShape, EditsRefresh
    <2>2. Len(rest) = 2 /\ rest[1] = "refresh" /\ rest[2] = "done"
      BY <1>1, <2>1
    <2> QED BY <1>1, <2>2, TwoIs
  <1>7. ASSUME Head(todo) = "plan" PROVE rest = <<"preview">>
    <2>1. Len(todo) = 1 + 1 /\ todo[1 + 1] = "preview"
      BY <1>1, <1>2, <1>7 DEF TodoShape, EditsRefresh
    <2>2. Len(rest) = 1 /\ rest[1] = "preview"
      BY <1>1, <2>1
    <2> QED BY <1>1, <2>2, OneIs
  <1> QED BY <1>1, <1>3, <1>4, <1>5, <1>6, <1>7, <1>8 DEF rest, TodoShape

LEMMA WaitFor ==
    /\ <<"wait">> \o <<"preview">> = <<"wait", "preview">>
    /\ <<"wait">> \o <<"done">> = <<"wait", "done">>
  <1>1. ASSUME NEW e PROVE <<"wait">> \o <<e>> = <<"wait", e>>
    <2> DEFINE p == <<e>>
               q == <<"wait">> \o p
    <2>1. p \in Seq({e}) /\ Len(p) = 1 /\ p[1] = e
      OBVIOUS
    <2> HIDE DEF p
    <2>6. IsQueue(p)
      BY <2>1, QueueOf
    <2>7. /\ IsQueue(q) /\ Len(q) = Len(p) + 1 /\ q[1] = "wait"
          /\ \A i \in 1..Len(p) : q[i + 1] = p[i]
      BY <2>6, ConsFacts
    <2> HIDE DEF q
    <2>2. IsQueue(q) /\ Len(q) = 2 /\ q[1] = "wait"
      BY <2>1, <2>7
    <2>3. q[2] = e
      <3>1. 1 \in 1..Len(p) /\ 1 + 1 = 2
        BY <2>1
      <3> QED BY <2>1, <2>7, <3>1
    <2>4. q = <<q[1], q[2]>>
      BY <2>2, TwoIs
    <2>5. q = <<"wait", e>>
      BY <2>2, <2>3, <2>4
    <2> QED BY <2>5 DEF p, q
  <1> QED BY <1>1

\* What an exchange leaves to do.
Awaits == <<"wait">> \o (IF Head(task.todo) = "apply" THEN <<"apply.done">>
                         ELSE Tail(task.todo))

LEMMA AwaitsShape ==
    ASSUME TaskTypes, TodoShape(task.todo), Exchange
    PROVE  /\ TodoShape(Awaits) /\ Awaits # <<>> /\ Head(Awaits) = "wait"
           /\ task' = [task EXCEPT !.todo = Awaits]
           /\ task.todo = <<"refresh", "done">> => Awaits = <<"wait", "done">>
           /\ Head(task.todo) = "plan" => Awaits = <<"wait", "preview">>
  <1> DEFINE todo == task.todo
             rest == IF Head(todo) = "apply" THEN <<"apply.done">> ELSE Tail(todo)
  <1>1. /\ todo # <<>> /\ Head(todo) \in {"refresh", "poll", "tell", "apply", "plan"}
        /\ task' = [task EXCEPT !.todo = Awaits]
    BY DEF Exchange, Awaits
  <1>2. IsQueue(todo)
    BY DEF TaskTypes
  <1>3. /\ IsQueue(rest) /\ TodoShape(rest)
        /\ \A i \in 1..Len(rest) : rest[i] # "apply"
    <2>1. CASE Head(todo) = "apply"
      <3>1. rest = <<"apply.done">>
        BY <2>1
      <3>2. <<"apply.done">> \in Seq({"apply.done"}) /\ Len(<<"apply.done">>) = 1
            /\ <<"apply.done">>[1] = "apply.done"
        OBVIOUS
      <3>3. IsQueue(<<"apply.done">>) /\ TodoShape(<<"apply.done">>)
        BY <3>2, QueueOf, ShapeOne
      <3>4. \A i \in 1..Len(<<"apply.done">>) : i = 1
        BY <3>2
      <3> HIDE DEF rest
      <3> QED BY <3>1, <3>2, <3>3, <3>4
    <2>2. CASE Head(todo) # "apply"
      BY <1>1, <1>2, <2>2, TailShape DEF TaskTypes
    <2> QED BY <2>1, <2>2
  <1>4. /\ Head(todo) = "plan" => rest = <<"preview">>
        /\ todo = <<"refresh", "done">> => rest = <<"done">>
    <2>1. Head(todo) = "plan" => rest = <<"preview">>
      BY <1>1, <1>2, TailShape
    <2>2. Head(<<"refresh", "done">>) = "refresh" /\ Tail(<<"refresh", "done">>) = <<"done">>
      OBVIOUS
    <2> QED BY <2>1, <2>2
  <1> HIDE DEF rest
  <1> DEFINE q == <<"wait">> \o rest
  <1>5. /\ IsQueue(q) /\ Len(q) = Len(rest) + 1 /\ q[1] = "wait" /\ Len(rest) \in Nat
        /\ \A i \in 1..Len(rest) : q[i + 1] = rest[i]
    BY <1>3, ConsFacts, QueueFacts
  <1>6. q = Awaits
    BY DEF Awaits, rest
  <1>7. /\ rest = <<"preview">> => q = <<"wait", "preview">>
        /\ rest = <<"done">> => q = <<"wait", "done">>
    BY WaitFor
  <1> HIDE DEF q
  <1>8. q # <<>> /\ Head(q) = "wait"
    <2>1. q # <<>>
      BY <1>5, EmptyQueue
    <2> QED BY <1>5, <2>1, TailFacts
  <1>9. \A i \in 1..Len(q) : i = 1 \/ (i > 1 /\ i - 1 \in 1..Len(rest) /\ q[i] = rest[i - 1])
    <2>1. ASSUME NEW i \in 1..Len(q), i # 1
          PROVE  i > 1 /\ i - 1 \in 1..Len(rest) /\ q[i] = rest[i - 1]
      <3>1. i > 1 /\ i - 1 \in 1..Len(rest) /\ (i - 1) + 1 = i
        BY <1>5, <2>1
      <3> QED BY <1>5, <3>1
    <2> QED BY <2>1
  <1>10. AfterTake(q)
    <2>1. \A i \in 2..Len(q) : i \in 1..Len(q) /\ i # 1
      BY <1>5
    <2> QED BY <1>3, <1>9, <2>1 DEF AfterTake
  <1>11. EditsRefresh(q)
    <2>1. ASSUME NEW i \in 1..Len(q)
          PROVE  /\ q[i] \in {"save", "restore"} =>
                        Len(q) = i + 2 /\ q[i + 1] = "refresh" /\ q[i + 2] = "done"
                 /\ q[i] = "plan" => Len(q) = i + 1 /\ q[i + 1] = "preview"
      <3>1. CASE i = 1
        BY <1>5, <3>1
      <3>2. CASE i # 1
        <4> DEFINE j == i - 1
        <4>1. j \in 1..Len(rest) /\ q[i] = rest[j] /\ i = j + 1
          BY <1>9, <3>2
        <4> HIDE DEF j
        <4>2. CASE q[i] \in {"save", "restore"}
          <5>1. Len(rest) = j + 2 /\ rest[j + 1] = "refresh" /\ rest[j + 2] = "done"
            BY <1>3, <4>1, <4>2 DEF TodoShape, EditsRefresh
          <5>2. j + 1 \in 1..Len(rest) /\ j + 2 \in 1..Len(rest)
            BY <4>1, <5>1
          <5>3. q[(j + 1) + 1] = "refresh" /\ q[(j + 2) + 1] = "done"
            BY <1>5, <5>1, <5>2
          <5>4. (j + 1) + 1 = i + 1 /\ (j + 2) + 1 = i + 2 /\ Len(q) = i + 2
            BY <1>5, <4>1, <5>1
          <5> QED BY <4>2, <5>3, <5>4
        <4>3. CASE q[i] = "plan"
          <5>1. Len(rest) = j + 1 /\ rest[j + 1] = "preview"
            BY <1>3, <4>1, <4>3 DEF TodoShape, EditsRefresh
          <5>2. j + 1 \in 1..Len(rest)
            BY <4>1, <5>1
          <5>3. q[(j + 1) + 1] = "preview"
            BY <1>5, <5>1, <5>2
          <5>4. (j + 1) + 1 = i + 1 /\ Len(q) = i + 1
            BY <1>5, <4>1, <5>1
          <5> QED BY <4>3, <5>3, <5>4
        <4> QED BY <4>2, <4>3
      <3> QED BY <3>1, <3>2
    <2> QED BY <2>1 DEF EditsRefresh
  <1> QED BY <1>1, <1>4, <1>6, <1>7, <1>8, <1>10, <1>11 DEF TodoShape

Shaped == TodoShape(task.todo)

LEMMA IdleShape == TodoShape(Idle.todo)
  <1>1. Idle.todo = <<>> /\ Len(<<>>) = 0
    BY DEF Idle
  <1> QED BY <1>1 DEF TodoShape, AfterTake, EditsRefresh

\* What a step leaves to do, and has heard.
LEMMA TodoEffect ==
    ASSUME SessionTypes, Shaped, SessionStep
    PROVE  \/ Receive /\ \E todo : /\ task'.todo = todo /\ TodoShape(todo)
                                   /\ todo # <<>> /\ Head(todo) \notin {"apply", "wait"}
                                   /\ task'.heard = <<>> /\ task = Idle
           \/ Replays /\ UNCHANGED task
           \/ /\ task.todo # <<>> /\ task'.todo = Tail(task.todo)
              /\ Current \/ Room \/ Take \/ Candidate \/ Save \/ Restore
              /\ task'.heard = task.heard
           \/ Exchange /\ task'.todo = Awaits /\ task'.heard = task.heard
           \/ Wait /\ task.todo # <<>> /\ task'.todo = Tail(task.todo)
           \/ task.todo # <<>> /\ task' = Idle /\ UNCHANGED ghost
  <1> USE DEF SessionTypes
  <1>1. CASE Receive
    <2>1. /\ inbox # <<>> /\ task = Idle
          /\ task' = [Idle EXCEPT !.id = Head(inbox).id, !.of = Head(inbox).command,
                                  !.todo = Steps(Head(inbox).command)]
      BY <1>1 DEF Receive
    <2>2. Head(inbox).command.kind \in Kinds
      BY <2>1, TailFacts, QueueFacts DEF LineTypes
    <2>3. task'.todo = Steps(Head(inbox).command) /\ task'.heard = <<>>
      BY <2>1 DEF Idle
    <2> QED BY <1>1, <2>1, <2>2, <2>3, StepsShape
  <1>2. CASE Replays
    BY <1>2 DEF Replays
  <1>3. ASSUME Fail PROVE task' = Idle /\ UNCHANGED ghost
    BY <1>3 DEF Fail, AnswerWith
  <1>4. ASSUME task' = Rest PROVE task'.todo = Tail(task.todo) /\ task'.heard = task.heard
    BY <1>4 DEF Rest, TaskTypes
  <1>5. CASE Current \/ Room \/ Candidate \/ Save \/ Restore
    <2>1. task.todo # <<>>
      BY <1>5 DEF Current, Room, Candidate, Save, Restore, Doing
    <2>2. Fail \/ task' = Rest
      BY <1>5 DEF Current, Room, Candidate, Save, Restore, Goes
    <2> QED BY <1>3, <1>4, <1>5, <2>1, <2>2
  <1>6. CASE Take
    <2>1. task.todo # <<>> /\ (Fail \/ \E plan : task' = [Rest EXCEPT !.plan = plan])
      BY <1>6 DEF Take, Doing
    <2>2. ASSUME NEW plan, task' = [Rest EXCEPT !.plan = plan]
          PROVE  task'.todo = Tail(task.todo) /\ task'.heard = task.heard
      BY <2>2 DEF Rest, TaskTypes
    <2> QED BY <1>3, <1>6, <2>1, <2>2
  <1>7. CASE Exchange
    <2>1. task'.todo = Awaits /\ task'.heard = task.heard
      BY <1>7, AwaitsShape DEF TaskTypes, Shaped
    <2> QED BY <1>7, <2>1
  <1>8. CASE Wait
    <2>1. task.todo # <<>> /\ \/ \E l : AnswerWith(FALSE, None, l)
                              \/ \E said : task' = [Rest EXCEPT !.heard = said]
      BY <1>8 DEF Wait, Doing
    <2>2. ASSUME NEW said, task' = [Rest EXCEPT !.heard = said]
          PROVE  task'.todo = Tail(task.todo)
      BY <2>2 DEF Rest, TaskTypes
    <2>3. ASSUME NEW l, AnswerWith(FALSE, None, l) PROVE task' = Idle /\ UNCHANGED ghost
      BY <2>3 DEF AnswerWith
    <2> QED BY <1>8, <2>1, <2>2, <2>3
  <1>9. CASE GiveUp \/ Answer
    <2>1. task.todo # <<>>
      BY <1>9 DEF GiveUp, Answer, Doing
    <2>2. Answers
      BY <1>9 DEF GiveUp, Answer, Answers, Fail
    <2> QED BY <2>1, <2>2 DEF Answers, AnswerWith
  <1> QED BY <1>1, <1>2, <1>5, <1>6, <1>7, <1>8, <1>9 DEF SessionStep

LEMMA ShapeInductive ==
    ASSUME SessionTypes, Shaped, [Next]_vars PROVE Shaped'
  <1>1. CASE SessionStep
    <2>1. IsQueue(task.todo)
      BY DEF SessionTypes, TaskTypes
    <2>2. CASE Exchange
      BY <1>1, <2>2, AwaitsShape, TodoEffect DEF Shaped, SessionTypes, TaskTypes
    <2>3. task.todo # <<>> => TodoShape(Tail(task.todo))
      BY <2>1, TailShape DEF Shaped
    <2> QED BY <1>1, <2>2, <2>3, TodoEffect, IdleShape DEF Shaped
  <1>2. CASE WorkerTakes \/ WorkerSpeaks \/ Kept \/ UNCHANGED vars
    BY <1>2 DEF WorkerTakes, WorkerSpeaks, Kept, vars, sessionVars, Shaped
  <1>3. CASE Renewed
    BY <1>3, IdleShape DEF Renewed, Fresh, Shaped
  <1> QED BY <1>1, <1>2, <1>3, ClientEffect DEF SessionNext

LEMMA ShapedAlways == Spec => []Shaped
  <1>1. Init => Shaped
    BY IdleShape DEF Init, SessionInit, Shaped
  <1>2. SessionTypes /\ Shaped /\ [Next]_vars => Shaped'
    BY ShapeInductive
  <1> QED BY <1>1, <1>2, TypesAlways, PTL DEF Spec

-----------------------------------------------------------------------------
(* No plan is carried out twice.                                             *)

LEMMA FewerNumbers ==
    ASSUME PlansOnce, EventsOnce', QueueOnce', ~ghost'.twice,
           PreviewsIn(task.heard)' \subseteq PreviewsIn(task.heard),
           PreviewsIn(events)' \subseteq PreviewsIn(events),
           CommandsOf("preview")' \subseteq CommandsOf("preview"),
           CommandsOf("apply")' \subseteq CommandsOf("apply"),
           Held' \subseteq Held, Taken' \subseteq Taken, Applied' \subseteq Applied,
           spent.tokens \in Nat, spent'.tokens \in Nat, spent'.tokens >= spent.tokens
    PROVE  PlansOnce'
  <1>1. Used' \subseteq Used /\ Flying' \subseteq Flying
    BY DEF Used, Flying
  <1>2. NumbersApart'
    BY <1>1 DEF PlansOnce, NumbersApart, Disjoint
  <1>3. NumbersIssued'
    BY <1>1 DEF PlansOnce, NumbersIssued
  <1> QED BY <1>2, <1>3 DEF PlansOnce

LEMMA NoNumbers == PreviewsIn(<<>>) = {} /\ PreviewsIn(Idle.heard) = {}
  <1>1. Idle.heard = <<>> /\ Len(<<>>) = 0
    BY DEF Idle
  <1> QED BY <1>1 DEF PreviewsIn

LEMMA SameWorker ==
    ASSUME PlansOnce, UNCHANGED <<queue, events>>
    PROVE  /\ EventsOnce' /\ QueueOnce'
           /\ UNCHANGED <<PreviewsIn(events), CommandsOf("preview"), CommandsOf("apply")>>
  BY DEF PlansOnce, EventsOnce, QueueOnce, PreviewsIn, CommandsOf

\* The request is answered, or goes on with nothing to do with plans.
LEMMA PlainSteps ==
    ASSUME SessionTypes, SessionTypes', PlansOnce, UNCHANGED <<queue, events>>,
           Held' \subseteq Held, Taken' \subseteq Taken,
           ghost'.applied = ghost.applied, ghost'.twice = ghost.twice,
           spent'.tokens >= spent.tokens,
           task'.heard = task.heard \/ task'.heard = <<>>
    PROVE  PlansOnce'
  <1>1. PreviewsIn(task.heard)' \subseteq PreviewsIn(task.heard)
    BY NoNumbers DEF PreviewsIn
  <1>2. Applied' \subseteq Applied
    BY DEF Applied
  <1>3. spent.tokens \in Nat /\ spent'.tokens \in Nat
    BY DEF SessionTypes, WorkerTypes
  <1> QED BY <1>1, <1>2, <1>3, SameWorker, FewerNumbers DEF PlansOnce

LEMMA IdleTaken ==
    ASSUME task' = Idle PROVE Taken' = {} /\ task'.heard = <<>>
  BY DEF Taken, Idle

LEMMA OnceTake ==
    ASSUME SessionTypes, SessionTypes', Shaped, PlansOnce, Take PROVE PlansOnce'
  <1> USE DEF SessionTypes
  <1> DEFINE token == task.of.token
             plan == CHOOSE p \in plans : p.number = token
  <1>1. /\ task.todo # <<>> /\ Head(task.todo) = "take"
        /\ plans' = {p \in plans : p.number # token}
        /\ UNCHANGED <<queue, events, spent, ghost>>
        /\ Fail \/ (plans' # plans /\ task' = [Rest EXCEPT !.plan = plan])
    BY DEF Take, Doing, worker, Fail, AnswerWith
  <1>2. Held' \subseteq Held /\ token \notin Held'
    BY <1>1 DEF Held
  <1>3. Taken = {}
    BY <1>1 DEF Taken
  <1>4. CASE Fail
    <2>1. task' = Idle
      BY <1>4 DEF Fail, AnswerWith
    <2>2. spent'.tokens >= spent.tokens
      BY <1>1 DEF WorkerTypes
    <2> QED BY <1>1, <1>2, <2>1, <2>2, IdleTaken, PlainSteps
  <1>5. CASE plans' # plans /\ task' = [Rest EXCEPT !.plan = plan]
    <2>1. plan \in plans /\ plan.number = token
      <3>1. \E p \in plans : p.number = token
        BY <1>1, <1>5
      <3> QED BY <3>1
    <2>2. task'.heard = task.heard /\ task'.plan = plan
      <3> HIDE DEF plan
      <3> QED BY <1>5 DEF Rest, TaskTypes
    <2> HIDE DEF plan, token
    <2>3. token \in Held /\ Taken' \subseteq {token}
      BY <2>1, <2>2 DEF Held, Taken
    <2>4. /\ EventsOnce' /\ QueueOnce' /\ ~ghost'.twice
          /\ UNCHANGED <<PreviewsIn(events), CommandsOf("preview"), CommandsOf("apply"), Applied,
                         PreviewsIn(task.heard)>>
      BY <1>1, <2>2, SameWorker DEF PlansOnce, Applied
    <2>5. Used' \subseteq Used /\ Flying' = Flying
      BY <1>2, <1>3, <2>3, <2>4 DEF Used, Flying
    <2>6. NumbersApart'
      BY <1>2, <1>3, <2>3, <2>4, <2>5 DEF PlansOnce, NumbersApart, Disjoint
    <2>7. NumbersIssued'
      BY <1>1, <2>5 DEF PlansOnce, NumbersIssued
    <2> QED BY <2>4, <2>6, <2>7 DEF PlansOnce
  <1> QED BY <1>1, <1>4, <1>5

\* The two commands an exchange puts in the queue.
LEMMA SentFacts ==
    ASSUME SessionTypes, Exchange
    PROVE  /\ IsQueue(queue') /\ Len(queue') = Len(queue) + 2 /\ Len(queue) \in Nat
           /\ \A i \in 1..Len(queue) : queue'[i] = queue[i]
           /\ queue'[Len(queue) + 1] = Sent(Head(task.todo))
           /\ queue'[Len(queue) + 2] = [kind |-> "barrier", of |-> spent.late]
           /\ \A i \in 1..Len(queue') :
                i \in 1..Len(queue) \/ i = Len(queue) + 1 \/ i = Len(queue) + 2
           /\ Head(task.todo) \in {"refresh", "poll", "tell", "apply", "plan"}
           /\ Sent(Head(task.todo)).kind =
                IF Head(task.todo) = "plan" THEN "preview"
                ELSE IF Head(task.todo) = "poll" THEN "barrier" ELSE Head(task.todo)
           /\ Head(task.todo) = "plan" => Sent(Head(task.todo)).plan =
                    [number |-> spent.tokens + 1, revision |-> config, by |-> task.id]
           /\ Head(task.todo) = "apply" => Sent(Head(task.todo)).plan = task.plan
           /\ Head(task.todo) = "poll" => Sent(Head(task.todo)).of = None
  <1> DEFINE p == <<Sent(Head(task.todo)), [kind |-> "barrier", of |-> spent.late]>>
  <1>1. queue' = queue \o p /\ Head(task.todo) \in {"refresh", "poll", "tell", "apply", "plan"}
    BY DEF Exchange
  <1>2. IsQueue(queue) /\ Len(queue) \in Nat
    BY QueueFacts DEF SessionTypes, WorkerTypes
  <1>3. /\ IsQueue(p) /\ Len(p) = 2 /\ p[1] = Sent(Head(task.todo))
        /\ p[2] = [kind |-> "barrier", of |-> spent.late]
    <2>1. p \in Seq({Sent(Head(task.todo)), [kind |-> "barrier", of |-> spent.late]})
      OBVIOUS
    <2>2. IsQueue(p)
      BY <2>1, QueueOf
    <2> QED BY <2>2
  <1> HIDE DEF p
  <1>4. LET r == queue \o p IN
        /\ IsQueue(r) /\ Len(r) = Len(queue) + Len(p)
        /\ \A i \in 1..Len(queue) : r[i] = queue[i]
        /\ \A i \in 1..Len(r) : i > Len(queue) =>
                i - Len(queue) \in 1..Len(p) /\ r[i] = p[i - Len(queue)]
    BY ONLY <1>2, <1>3, JoinFacts
  <1>5. /\ IsQueue(queue') /\ Len(queue') = Len(queue) + 2
        /\ \A i \in 1..Len(queue) : queue'[i] = queue[i]
        /\ \A i \in 1..Len(queue') : i > Len(queue) => queue'[i] = p[i - Len(queue)]
    BY <1>1, <1>3, <1>4
  <1> DEFINE n == Len(queue)
  <1>6. queue'[n + 1] = p[1] /\ queue'[n + 2] = p[2]
    <2>1. /\ n + 1 \in 1..Len(queue') /\ n + 1 > n /\ (n + 1) - n = 1
          /\ n + 2 \in 1..Len(queue') /\ n + 2 > n /\ (n + 2) - n = 2
      BY <1>2, <1>5
    <2> QED BY <1>5, <2>1
  <1>7. \A i \in 1..Len(queue') : i \in 1..n \/ i = n + 1 \/ i = n + 2
    BY <1>2, <1>5
  <1>8. /\ Sent(Head(task.todo)).kind =
                IF Head(task.todo) = "plan" THEN "preview"
                ELSE IF Head(task.todo) = "poll" THEN "barrier" ELSE Head(task.todo)
        /\ Head(task.todo) = "plan" => Sent(Head(task.todo)).plan =
                    [number |-> spent.tokens + 1, revision |-> config, by |-> task.id]
        /\ Head(task.todo) = "apply" => Sent(Head(task.todo)).plan = task.plan
        /\ Head(task.todo) = "poll" => Sent(Head(task.todo)).of = None
    BY <1>1 DEF Sent
  <1> QED BY <1>1, <1>2, <1>3, <1>5, <1>6, <1>7, <1>8

LEMMA OnceExchange ==
    ASSUME SessionTypes, SessionTypes', Shaped, PlansOnce, Exchange PROVE PlansOnce'
  <1> USE DEF SessionTypes
  <1> DEFINE head == Head(task.todo)
             n == Len(queue)
             sent_ == Sent(head)
             number == IF head = "plan" THEN spent.tokens + 1 ELSE task.plan.number
  <1>1. /\ task.todo # <<>> /\ UNCHANGED <<events, plans, ghost>>
        /\ spent' = IF head = "plan" THEN [spent EXCEPT !.tokens = @ + 1] ELSE spent
    BY DEF Exchange, memory, tokens
  <1>2. /\ n \in Nat /\ Len(queue') = n + 2
        /\ \A i \in 1..n : queue'[i] = queue[i]
        /\ queue'[n + 1] = sent_ /\ queue'[n + 2].kind = "barrier"
        /\ \A i \in 1..Len(queue') : i \in 1..n \/ i = n + 1 \/ i = n + 2
        /\ head \in {"refresh", "poll", "tell", "apply", "plan"}
        /\ sent_.kind = "preview" <=> head = "plan"
        /\ sent_.kind = "apply" <=> head = "apply"
        /\ head \in {"plan", "apply"} => sent_.plan.number = number
    BY SentFacts
  <1>3. /\ task'.heard = task.heard
        /\ task'.todo = Awaits /\ Awaits # <<>> /\ Head(Awaits) = "wait"
    <2>1. task' = [task EXCEPT !.todo = Awaits] /\ Awaits # <<>> /\ Head(Awaits) = "wait"
      BY AwaitsShape DEF Shaped
    <2> QED BY <2>1 DEF TaskTypes
  <1>4. Taken' = {} /\ Taken = IF head = "apply" THEN {number} ELSE {}
    BY <1>1, <1>3 DEF Taken
  <1>5. /\ UNCHANGED <<Held, Applied, PreviewsIn(events), PreviewsIn(task.heard)>>
        /\ EventsOnce' /\ ~ghost'.twice
    BY <1>1, <1>3 DEF Held, Applied, PreviewsIn, EventsOnce, PlansOnce
  <1>6. head = "plan" => number \notin Used \cup Flying /\ number \in Nat
    BY DEF PlansOnce, NumbersIssued, WorkerTypes
  <1>7. spent.tokens \in Nat /\ spent'.tokens \in Nat /\ spent'.tokens >= spent.tokens
        /\ (head = "plan" => number <= spent'.tokens)
    BY <1>1 DEF WorkerTypes
  <1> HIDE DEF head, sent_, number
  <1>8. CommandsOf("preview")' \subseteq
            CommandsOf("preview") \cup (IF head = "plan" THEN {number} ELSE {})
    BY <1>2 DEF CommandsOf
  <1>9. CommandsOf("apply")' \subseteq
            CommandsOf("apply") \cup (IF head = "apply" THEN {number} ELSE {})
    BY <1>2 DEF CommandsOf
  <1>10. QueueOnce'
    <2>1. SUFFICES ASSUME NEW i \in 1..Len(queue'), NEW j \in 1..Len(queue'),
                          queue'[i].kind \in {"preview", "apply"},
                          queue'[j].kind = queue'[i].kind,
                          queue'[i].plan.number = queue'[j].plan.number
                   PROVE  i = j
      BY DEF QueueOnce
    <2>2. i # n + 2 /\ j # n + 2
      BY <1>2, <2>1
    <2>3. ASSUME NEW k \in 1..n, queue[k].kind \in {"preview", "apply"},
                 queue[k].kind = sent_.kind
          PROVE  queue[k].plan.number # sent_.plan.number
      <3>1. queue[k].plan.number \in CommandsOf(queue[k].kind)
        BY DEF CommandsOf
      <3>2. CASE head = "plan"
        BY <1>2, <1>6, <2>3, <3>1, <3>2 DEF Used, Flying
      <3>3. CASE head = "apply"
        BY <1>2, <1>4, <2>3, <3>1, <3>3 DEF PlansOnce, NumbersApart, Disjoint
      <3>4. head = "plan" \/ head = "apply"
        BY <1>2, <2>3
      <3> QED BY <3>2, <3>3, <3>4
    <2>4. CASE i \in 1..n /\ j \in 1..n
      BY <1>2, <2>1, <2>4 DEF PlansOnce, QueueOnce
    <2>5. CASE i \in 1..n /\ j = n + 1
      BY <1>2, <2>1, <2>3, <2>5
    <2>6. CASE i = n + 1 /\ j \in 1..n
      BY <1>2, <2>1, <2>3, <2>6
    <2> QED BY <1>2, <2>2, <2>4, <2>5, <2>6
  <1>11. Flying' \subseteq Flying \cup (IF head = "plan" THEN {number} ELSE {})
         /\ Used' \subseteq Used
    BY <1>4, <1>5, <1>8, <1>9 DEF Flying, Used
  <1>12. NumbersIssued'
    BY <1>6, <1>7, <1>11 DEF PlansOnce, NumbersIssued
  <1>13. NumbersApart'
    <2>1. CASE head = "plan"
      BY <1>4, <1>5, <1>6, <1>8, <1>9, <1>11, <2>1
         DEF PlansOnce, NumbersApart, Disjoint, Used, Flying
    <2>2. CASE head = "apply"
      BY <1>4, <1>5, <1>8, <1>9, <1>11, <2>2 DEF PlansOnce, NumbersApart, Disjoint
    <2>3. CASE head \notin {"plan", "apply"}
      BY <1>4, <1>5, <1>8, <1>9, <1>11, <2>3 DEF PlansOnce, NumbersApart, Disjoint
    <2> QED BY <2>1, <2>2, <2>3
  <1> QED BY <1>5, <1>10, <1>12, <1>13 DEF PlansOnce

\* What an exchange has heard is what came before the barrier; the rest stays.
LEMMA WaitFacts ==
    ASSUME SessionTypes, Wait
    PROVE  /\ Until \in 1..Len(events) /\ Len(events) \in Nat /\ events[Until] = Barrier
           /\ Len(events') = Len(events) - Until
           /\ \A i \in 1..Len(events') :
                Until + i \in 1..Len(events) /\ events'[i] = events[Until + i]
           /\ \/ task' = Idle
              \/ /\ task'.todo = Tail(task.todo)
                 /\ Len(task'.heard) = Until - 1
                 /\ \A i \in 1..Len(task'.heard) :
                        i \in 1..Len(events) /\ i < Until /\ task'.heard[i] = events[i]
           /\ task.todo # <<>> /\ Head(task.todo) = "wait"
           /\ UNCHANGED <<authored, tokens, queue, spent, ghost>>
  <1> USE DEF SessionTypes
  <1> DEFINE u == Until
             a == u + 1
             b == Len(events)
             said == SubSeq(events, 1, u - 1)
  <1>1. /\ Contains(events, Barrier) /\ events' = SubSeq(events, u + 1, Len(events))
        /\ task.todo # <<>> /\ Head(task.todo) = "wait"
        /\ UNCHANGED <<authored, tokens, queue, spent>>
        /\ \/ \E l : AnswerWith(FALSE, None, l)
           \/ task' = [Rest EXCEPT !.heard = said] /\ UNCHANGED ghost
    BY DEF Wait, Doing, Until
  <1>2. u \in 1..Len(events) /\ Len(events) \in Nat /\ events[u] = Barrier
    BY <1>1, UntilFacts
  <1>3. IsQueue(events)
    BY DEF WorkerTypes
  <1> HIDE DEF u
  <1>4. a \in Nat /\ b \in Nat /\ 1 <= a /\ a <= b + 1 /\ b <= Len(events)
    BY <1>2
  <1>5. LET r == SubSeq(events, a, b) IN
        /\ Len(r) = b - a + 1
        /\ \A i \in 1..Len(r) : a + i - 1 \in 1..Len(events) /\ r[i] = events[a + i - 1]
    <2> HIDE DEF a, b
    <2> QED BY <1>3, <1>4, CutFacts
  <1>6. /\ Len(events') = Len(events) - u
        /\ \A i \in 1..Len(events') : u + i \in 1..Len(events) /\ events'[i] = events[u + i]
    <2>1. events' = SubSeq(events, a, b)
      BY <1>1
    <2>2. Len(events') = b - a + 1 /\ b - a + 1 = Len(events) - u
      BY <1>2, <1>5, <2>1
    <2>3. ASSUME NEW i \in 1..Len(events')
          PROVE  u + i \in 1..Len(events) /\ events'[i] = events[u + i]
      <3>1. a + i - 1 = u + i
        BY <1>2, <2>2
      <3>2. a + i - 1 \in 1..Len(events) /\ events'[i] = events[a + i - 1]
        BY <1>5, <2>1
      <3> QED BY <3>1, <3>2
    <2> QED BY <2>2, <2>3
  <1> DEFINE c == u - 1
  <1>7. LET r == SubSeq(events, 1, c) IN
        /\ Len(r) = c - 1 + 1
        /\ \A i \in 1..Len(r) : 1 + i - 1 \in 1..Len(events) /\ r[i] = events[1 + i - 1]
    <2>1. 1 \in Nat /\ c \in Nat /\ 1 <= 1 /\ 1 <= c + 1 /\ c <= Len(events)
      BY <1>2
    <2> HIDE DEF c
    <2> QED BY <1>3, <2>1, CutFacts
  <1>8. /\ Len(said) = u - 1
        /\ \A i \in 1..Len(said) : i \in 1..Len(events) /\ i < u /\ said[i] = events[i]
    <2>1. Len(said) = u - 1
      BY <1>2, <1>7
    <2>2. ASSUME NEW i \in 1..Len(said)
          PROVE  i \in 1..Len(events) /\ i < u /\ said[i] = events[i]
      <3>1. 1 + i - 1 = i /\ i < u
        BY <1>2, <2>1
      <3> QED BY <1>7, <3>1
    <2> QED BY <2>1, <2>2
  <1> HIDE DEF said
  <1>9. CASE \E l : AnswerWith(FALSE, None, l)
    BY <1>1, <1>2, <1>6, <1>9 DEF AnswerWith, u
  <1>10. CASE task' = [Rest EXCEPT !.heard = said] /\ UNCHANGED ghost
    <2>1. task'.todo = Tail(task.todo) /\ task'.heard = said
      BY <1>10 DEF Rest, TaskTypes
    <2> QED BY <1>1, <1>2, <1>6, <1>8, <1>10, <2>1 DEF u
  <1> QED BY <1>1, <1>9, <1>10

LEMMA OnceWait ==
    ASSUME SessionTypes, SessionTypes', Shaped, PlansOnce, Wait PROVE PlansOnce'
  <1> DEFINE u == Until
  <1>1. /\ u \in 1..Len(events) /\ Len(events) \in Nat
        /\ Len(events') = Len(events) - u
        /\ \A i \in 1..Len(events') : u + i \in 1..Len(events) /\ events'[i] = events[u + i]
        /\ \/ task' = Idle
           \/ /\ task'.todo = Tail(task.todo)
              /\ \A i \in 1..Len(task'.heard) :
                        i \in 1..Len(events) /\ i < u /\ task'.heard[i] = events[i]
        /\ task.todo # <<>> /\ Head(task.todo) = "wait"
        /\ UNCHANGED <<plans, queue, spent, ghost>>
    BY WaitFacts DEF tokens
  <1> HIDE DEF u
  <1>2. Taken' = {}
    <2>1. CASE task' = Idle
      BY <2>1, IdleTaken
    <2>2. CASE task'.todo = Tail(task.todo)
      <3>1. ~(task'.todo # <<>> /\ Head(task'.todo) = "apply")
        BY <1>1, <2>2, TailShape DEF SessionTypes, TaskTypes, Shaped
      <3> QED BY <3>1 DEF Taken
    <2> QED BY <1>1, <2>1, <2>2
  <1>3. UNCHANGED <<Held, Applied, CommandsOf("preview"), CommandsOf("apply")>>
        /\ QueueOnce' /\ ~ghost'.twice /\ Taken = {}
    BY <1>1 DEF Held, Applied, CommandsOf, PlansOnce, QueueOnce, Taken
  <1>4. EventsOnce'
    <2>1. SUFFICES ASSUME NEW i \in 1..Len(events'), NEW j \in 1..Len(events'),
                          events'[i].kind = "preview", events'[j].kind = "preview",
                          events'[i].of.number = events'[j].of.number
                   PROVE  i = j
      BY DEF EventsOnce
    <2>2. u + i = u + j
      BY <1>1, <2>1 DEF PlansOnce, EventsOnce
    <2> QED BY <1>1, <2>2
  <1>5. PreviewsIn(events)' \subseteq PreviewsIn(events)
    BY <1>1 DEF PreviewsIn
  <1>6. /\ PreviewsIn(task.heard)' \subseteq PreviewsIn(events)
        /\ Disjoint(PreviewsIn(task.heard)', PreviewsIn(events)')
    <2>1. CASE task' = Idle
      <3>1. PreviewsIn(task.heard)' = {}
        BY <2>1, NoNumbers
      <3> QED BY <3>1 DEF Disjoint
    <2>2. CASE \A i \in 1..Len(task'.heard) :
                        i \in 1..Len(events) /\ i < u /\ task'.heard[i] = events[i]
      <3>1. PreviewsIn(task'.heard) \subseteq PreviewsIn(events)
        BY <2>2 DEF PreviewsIn
      <3>2. ASSUME NEW n \in PreviewsIn(task'.heard), n \in PreviewsIn(events') PROVE FALSE
        <4>1. PICK i \in 1..Len(task'.heard) :
                    task'.heard[i].kind = "preview" /\ task'.heard[i].of.number = n
          BY DEF PreviewsIn
        <4>2. PICK j \in 1..Len(events') : events'[j].kind = "preview" /\ events'[j].of.number = n
          BY <3>2 DEF PreviewsIn
        <4>3. i = u + j
          BY <1>1, <2>2, <4>1, <4>2 DEF PlansOnce, EventsOnce
        <4>4. i < u /\ i \in Nat /\ u \in Nat /\ j \in Nat
          BY <1>1, <2>2, <4>1, <4>2
        <4> QED BY <4>3, <4>4
      <3> QED BY <3>1, <3>2 DEF Disjoint
    <2> QED BY <1>1, <2>1, <2>2
  <1>7. Used' \subseteq Used /\ Flying' \subseteq Flying
    BY <1>2, <1>3, <1>5, <1>6 DEF Used, Flying
  <1>8. NumbersIssued'
    BY <1>1, <1>7 DEF PlansOnce, NumbersIssued
  <1>9. NumbersApart'
    BY <1>2, <1>3, <1>5, <1>6, <1>7 DEF PlansOnce, NumbersApart, Disjoint
  <1> QED BY <1>3, <1>4, <1>8, <1>9 DEF PlansOnce

LEMMA OnceGiveUp ==
    ASSUME SessionTypes, SessionTypes', PlansOnce, GiveUp PROVE PlansOnce'
  <1>1. /\ task' = Idle /\ events' = <<>> /\ UNCHANGED <<queue, plans, ghost>>
        /\ spent' = [spent EXCEPT !.late = @ + 1]
    BY DEF GiveUp, AnswerWith, tokens
  <1>2. /\ UNCHANGED <<Held, Applied, CommandsOf("preview"), CommandsOf("apply")>>
        /\ QueueOnce' /\ ~ghost'.twice
    BY <1>1 DEF Held, Applied, CommandsOf, PlansOnce, QueueOnce
  <1>3. EventsOnce' /\ PreviewsIn(events)' = {} /\ PreviewsIn(task.heard)' = {} /\ Taken' = {}
    <2>1. Len(<<>>) = 0
      OBVIOUS
    <2> QED BY <1>1, <2>1, NoNumbers, IdleTaken DEF EventsOnce
  <1>4. spent.tokens \in Nat /\ spent'.tokens \in Nat /\ spent'.tokens >= spent.tokens
    BY <1>1 DEF SessionTypes, WorkerTypes
  <1> QED BY <1>2, <1>3, <1>4, FewerNumbers

\* The preview that is answered with is one of those heard.
LEMMA FirstHeardFacts ==
    ASSUME SessionTypes, NEW kind, Heard(kind) # {}
    PROVE  \E n \in 1..Len(task.heard) :
                task.heard[n].kind = kind /\ FirstHeard(kind) = task.heard[n].of
  <1> DEFINE least == CHOOSE n \in Heard(kind) : \A m \in Heard(kind) : n <= m
  <1>1. DOMAIN task.heard = 1..Len(task.heard) /\ Len(task.heard) \in Nat
    BY QueueFacts DEF SessionTypes, TaskTypes
  <1>2. Heard(kind) \subseteq Nat
    BY <1>1 DEF Heard
  <1>3. \E n \in Heard(kind) : \A m \in Heard(kind) : n <= m
    BY <1>2, Least
  <1>4. least \in Heard(kind)
    BY <1>3
  <1> HIDE DEF least
  <1>5. least \in 1..Len(task.heard) /\ task.heard[least].kind = kind
    BY <1>1, <1>4 DEF Heard
  <1> QED BY <1>5 DEF FirstHeard, least

LEMMA OnceAnswer ==
    ASSUME SessionTypes, SessionTypes', PlansOnce, Answer PROVE PlansOnce'
  <1>1. /\ task' = Idle /\ UNCHANGED <<queue, events, ghost>>
        /\ spent' = spent \/ spent' = [spent EXCEPT !.tokens = @ + 1]
    <2>1. Answers
      BY DEF Answer, Answers, Fail
    <2> QED BY <2>1 DEF Answers, AnswerWith, Answer, worker
  <1>2. spent.tokens \in Nat /\ spent'.tokens \in Nat /\ spent'.tokens >= spent.tokens
    BY <1>1 DEF SessionTypes, WorkerTypes
  <1>3. Taken' = {} /\ task'.heard = <<>>
    BY <1>1, IdleTaken
  <1>4. CASE Held' \subseteq Held
    BY <1>1, <1>2, <1>3, <1>4, PlainSteps
  <1>5. CASE ~(Held' \subseteq Held)
    <2>1. Heard("preview") # {} /\ plans' = plans \cup {FirstHeard("preview")}
      BY <1>5 DEF Answer, Held, tokens
    <2>2. PICK n \in 1..Len(task.heard) :
            task.heard[n].kind = "preview" /\ FirstHeard("preview") = task.heard[n].of
      BY <2>1, FirstHeardFacts
    <2> DEFINE number == task.heard[n].of.number
    <2>3. number \in PreviewsIn(task.heard)
      BY <2>2 DEF PreviewsIn
    <2>4. Held' \subseteq Held \cup {number}
      BY <2>1, <2>2 DEF Held
    <2> HIDE DEF number
    <2>5. PreviewsIn(task.heard)' = {}
      BY <1>1, NoNumbers
    <2>6. /\ EventsOnce' /\ QueueOnce' /\ ~ghost'.twice
          /\ UNCHANGED <<PreviewsIn(events), CommandsOf("preview"), CommandsOf("apply"), Applied>>
      BY <1>1, SameWorker DEF PlansOnce, Applied
    <2>7. Used' \subseteq Used \cup {number} /\ Flying' \subseteq Flying /\ number \in Flying
      BY <1>3, <2>3, <2>4, <2>5, <2>6 DEF Used, Flying
    <2>8. number \notin Used
      BY <2>7 DEF PlansOnce, NumbersApart, Disjoint
    <2>9. NumbersIssued'
      BY <1>2, <2>7 DEF PlansOnce, NumbersIssued
    <2>10. number \notin PreviewsIn(events) /\ number \notin CommandsOf("preview")
      BY <2>3 DEF PlansOnce, NumbersApart, Disjoint
    <2>11. Disjoint(Used', Flying')
      BY <2>5, <2>6, <2>7, <2>10 DEF PlansOnce, NumbersApart, Disjoint, Flying
    <2>12. NumbersApart'
      BY <1>3, <2>4, <2>5, <2>6, <2>8, <2>11 DEF PlansOnce, NumbersApart, Disjoint, Used
    <2> QED BY <2>6, <2>9, <2>12 DEF PlansOnce
  <1> QED BY <1>4, <1>5

LEMMA OncePlain ==
    ASSUME SessionTypes, SessionTypes', Shaped, PlansOnce,
           Receive \/ Replays \/ Current \/ Room \/ Candidate \/ Save \/ Restore
    PROVE  PlansOnce'
  <1>1. /\ UNCHANGED <<queue, events, spent, ghost.applied, ghost.twice>>
        /\ plans' = plans \/ plans' = {}
    <2>1. CASE Receive
      <3>1. ghost' = ghost \/ \E n : ghost' = [ghost EXCEPT !.executed = Append(@, n)]
        BY <2>1 DEF Receive
      <3>2. ghost'.applied = ghost.applied /\ ghost'.twice = ghost.twice
        BY <3>1 DEF SessionTypes, ReplayTypes
      <3> QED BY <2>1, <3>2 DEF Receive, memory, tokens, worker
    <2>2. CASE Replays
      BY <2>2 DEF Replays, memory, tokens, worker
    <2>3. CASE Current \/ Room \/ Candidate
      BY <2>3 DEF Current, Room, Candidate, tokens, worker, Goes, Fail, AnswerWith
    <2>4. CASE Save \/ Restore
      BY <2>4 DEF Save, Restore, worker, Goes, Fail, AnswerWith
    <2> QED BY <2>1, <2>2, <2>3, <2>4
  <1>2. Held' \subseteq Held
    BY <1>1 DEF Held
  <1>3. spent'.tokens >= spent.tokens
    BY <1>1 DEF SessionTypes, WorkerTypes
  <1>4. CASE Replays
    <2>1. task' = task
      BY <1>4 DEF Replays
    <2> QED BY <1>1, <1>2, <1>3, <2>1, PlainSteps DEF Taken
  <1>5. CASE Receive
    <2>1. task' = [Idle EXCEPT !.id = Head(inbox).id, !.of = Head(inbox).command,
                               !.todo = Steps(Head(inbox).command)]
      BY <1>5 DEF Receive
    <2>2. task'.todo = Steps(Head(inbox).command) /\ task'.heard = <<>>
      BY <2>1 DEF Idle
    <2>3. Head(inbox).command.kind \in Kinds
      BY <1>5, TailFacts, QueueFacts DEF Receive, SessionTypes, LineTypes
    <2>4. Taken' = {}
      BY <2>2, <2>3, StepsShape DEF Taken
    <2> QED BY <1>1, <1>2, <1>3, <2>2, <2>4, PlainSteps
  <1>6. CASE Current \/ Room \/ Candidate \/ Save \/ Restore
    <2>1. task.todo # <<>> /\ Head(task.todo) # "take"
      BY <1>6 DEF Current, Room, Candidate, Save, Restore, Doing
    <2>2. task' = Idle \/ task' = Rest
      BY <1>6 DEF Current, Room, Candidate, Save, Restore, Goes, Fail, AnswerWith
    <2>3. CASE task' = Idle
      BY <1>1, <1>2, <1>3, <2>3, IdleTaken, PlainSteps
    <2>4. CASE task' = Rest
      <3>1. task'.todo = Tail(task.todo) /\ task'.heard = task.heard
        BY <2>4 DEF Rest, SessionTypes, TaskTypes
      <3>2. ~(task'.todo # <<>> /\ Head(task'.todo) = "apply")
        BY <2>1, <3>1, TailShape DEF SessionTypes, TaskTypes, Shaped
      <3>3. Taken' = {}
        BY <3>2 DEF Taken
      <3> QED BY <1>1, <1>2, <1>3, <3>1, <3>3, PlainSteps
    <2> QED BY <2>2, <2>3, <2>4
  <1> QED BY <1>4, <1>5, <1>6

\* Only the computation of a plan is answered with a preview, and only a barrier
\* with a barrier.
LEMMA SaidFacts ==
    ASSUME NEW command, command.kind \in CommandKinds, NEW said \in Outcomes(command)
    PROVE  /\ IsQueue(said) /\ Len(said) \in Nat
           /\ command.kind \notin {"preview", "barrier"} =>
                \A i \in 1..Len(said) : said[i].kind \notin {"preview", "barrier"}
           /\ command.kind = "preview" =>
                /\ Len(said) = 1
                /\ said[1].kind = "error" \/ said[1] = Says("preview", command.plan)
           /\ command.kind = "barrier" => Len(said) = 1 /\ said[1] = Says("barrier", command.of)
  <1> DEFINE state == Says("state", command.of)
             error == Says("error", command.of)
             result == Says("result", command.of)
  <1>1. IsQueue(said) /\ Len(said) \in Nat
    BY OutcomesAreQueues, QueueFacts
  <1>2. CASE command.kind \in {"refresh", "apply", "tell"}
    <2>1. \/ said \in {<<state>>, <<error>>, <<>>}
          \/ said = <<state>> \o <<error>> \/ said = <<result>> \o <<state>>
      BY <1>2 DEF Outcomes
    <2>2. {state, error, result} \subseteq {e \in {state, error, result} : e.kind \notin {"preview", "barrier"}}
      BY DEF Says
    <2> DEFINE S == {state, error, result}
    <2>3. <<state>> \in Seq(S) /\ <<error>> \in Seq(S) /\ <<result>> \in Seq(S) /\ <<>> \in Seq(S)
      OBVIOUS
    <2> HIDE DEF S, state, error, result
    <2>4. said \in Seq(S)
      BY <2>1, <2>3, ConcatProperties
    <2>5. \A i \in 1..Len(said) : said[i] \in S
      BY <2>4, ElementOfSeq
    <2>6. \A i \in 1..Len(said) : said[i].kind \notin {"preview", "barrier"}
      BY <2>2, <2>5 DEF S
    <2> QED BY <1>1, <1>2, <2>6
  <1>3. CASE command.kind = "preview"
    <2>1. said \in {<<Says("preview", command.plan)>>, <<error>>}
      BY <1>3 DEF Outcomes
    <2>2. error.kind = "error"
      BY DEF Says
    <2> HIDE DEF error
    <2>3. Len(said) = 1 /\ (said[1] = error \/ said[1] = Says("preview", command.plan))
      BY <2>1
    <2> QED BY <1>1, <1>3, <2>2, <2>3
  <1>4. CASE command.kind = "barrier"
    <2>1. said = <<Says("barrier", command.of)>>
      BY <1>4 DEF Outcomes
    <2> QED BY <1>1, <1>4, <2>1
  <1> QED BY <1>2, <1>3, <1>4 DEF CommandKinds

LEMMA UnaskedFacts ==
    ASSUME NEW said \in Unasked
    PROVE  /\ Len(said) \in Nat
           /\ \A i \in 1..Len(said) : said[i].kind \notin {"preview", "barrier"}
  <1> DEFINE S == {Says("state", None), Says("error", None), Says("result", None)}
  <1>1. said \in Seq(S)
    <2>1. /\ <<Says("state", None)>> \in Seq(S) /\ <<Says("error", None)>> \in Seq(S)
          /\ <<Says("result", None), Says("state", None)>> \in Seq(S)
      OBVIOUS
    <2> HIDE DEF S
    <2> QED BY <2>1 DEF Unasked
  <1>2. \A e \in S : e.kind \notin {"preview", "barrier"}
    BY DEF Says
  <1> HIDE DEF S
  <1> QED BY <1>1, <1>2, ElementOfSeq, LenProperties

LEMMA OnceSpeaks ==
    ASSUME SessionTypes, SessionTypes', PlansOnce, WorkerSpeaks PROVE PlansOnce'
  <1>1. PICK said \in Unasked : IsQueue(said) /\ events' = events \o said
    BY SpeaksEffect DEF SessionTypes
  <1>2. /\ UNCHANGED <<task, plans, queue, ghost>>
        /\ spent' = [spent EXCEPT !.unasked = @ + 1]
    BY DEF WorkerSpeaks, memory, tokens
  <1>3. /\ Len(events') = Len(events) + Len(said)
        /\ Len(events) \in Nat /\ Len(said) \in Nat
        /\ \A i \in 1..Len(events) : events'[i] = events[i]
        /\ \A i \in 1..Len(events') : i > Len(events) =>
                i - Len(events) \in 1..Len(said) /\ events'[i] = said[i - Len(events)]
    BY <1>1, JoinFacts, QueueFacts DEF SessionTypes, WorkerTypes
  <1>4. \A i \in 1..Len(events') : events'[i].kind = "preview" =>
                i \in 1..Len(events) /\ events'[i] = events[i]
    BY <1>3, UnaskedFacts
  <1>5. EventsOnce' /\ PreviewsIn(events)' \subseteq PreviewsIn(events)
    BY <1>4 DEF PlansOnce, EventsOnce, PreviewsIn
  <1>6. /\ UNCHANGED <<Held, Applied, Taken, CommandsOf("preview"), CommandsOf("apply"),
                       PreviewsIn(task.heard)>>
        /\ QueueOnce' /\ ~ghost'.twice
    BY <1>2 DEF Held, Applied, Taken, CommandsOf, PlansOnce, QueueOnce
  <1>7. spent.tokens \in Nat /\ spent'.tokens \in Nat /\ spent'.tokens >= spent.tokens
    BY <1>2 DEF SessionTypes, WorkerTypes
  <1> QED BY <1>5, <1>6, <1>7, FewerNumbers

\* What is told and what is still to be done when the worker has taken a command.
LEMMA TakesFacts ==
    ASSUME SessionTypes, WorkerTakes
    PROVE  \E said \in Outcomes(queue[1]) :
           /\ queue # <<>> /\ 1 \in 1..Len(queue) /\ Len(queue) \in Nat
           /\ Len(queue') = Len(queue) - 1
           /\ \A i \in 1..Len(queue') : i + 1 \in 1..Len(queue) /\ queue'[i] = queue[i + 1]
           /\ queue[1].kind \in CommandKinds
           /\ Len(events) \in Nat /\ Len(said) \in Nat /\ Len(events') = Len(events) + Len(said)
           /\ \A i \in 1..Len(events) : i \in 1..Len(events') /\ events'[i] = events[i]
           /\ \A i \in 1..Len(events') : i \notin 1..Len(events) =>
                i - Len(events) \in 1..Len(said) /\ events'[i] = said[i - Len(events)]
           /\ UNCHANGED <<task, memory, spent>>
           /\ \/ UNCHANGED ghost
              \/ /\ queue[1].kind = "apply"
                 /\ ghost' = [ghost EXCEPT !.applied = @ \cup {queue[1].plan},
                                           !.twice = @ \/ queue[1].plan \in ghost.applied]
  <1>1. PICK said \in Outcomes(queue[1]) :
            /\ IsQueue(said) /\ events' = events \o said
            /\ ghost' = IF queue[1].kind = "apply"
                        THEN [ghost EXCEPT !.applied = @ \cup {queue[1].plan},
                                           !.twice = @ \/ queue[1].plan \in ghost.applied]
                        ELSE ghost
    BY WorkerEffect DEF SessionTypes
  <1>2. /\ queue # <<>> /\ Len(queue') = Len(queue) - 1 /\ 1 \in 1..Len(queue)
        /\ \A i \in 1..Len(queue') : i + 1 \in 1..Len(queue) /\ queue'[i] = queue[i + 1]
        /\ UNCHANGED <<task, memory, spent>>
    BY WorkerEffect DEF SessionTypes
  <1>3. queue[1].kind \in CommandKinds /\ IsQueue(events) /\ IsQueue(queue)
    BY <1>2 DEF SessionTypes, WorkerTypes
  <1>4. Len(events) \in Nat /\ Len(said) \in Nat /\ Len(queue) \in Nat
    BY <1>1, <1>3, QueueFacts
  <1>5. /\ Len(events') = Len(events) + Len(said)
        /\ \A i \in 1..Len(events) : events'[i] = events[i]
        /\ \A i \in 1..Len(events') : i > Len(events) =>
                i - Len(events) \in 1..Len(said) /\ events'[i] = said[i - Len(events)]
    BY <1>1, <1>3, JoinFacts
  <1>6. /\ \A i \in 1..Len(events) : i \in 1..Len(events')
        /\ \A i \in 1..Len(events') : i \notin 1..Len(events) => i > Len(events)
    BY <1>4, <1>5
  <1>7. UNCHANGED ghost
        \/ (queue[1].kind = "apply"
            /\ ghost' = [ghost EXCEPT !.applied = @ \cup {queue[1].plan},
                                      !.twice = @ \/ queue[1].plan \in ghost.applied])
    BY <1>1
  <1> QED BY <1>1, <1>2, <1>3, <1>4, <1>5, <1>6, <1>7

LEMMA OnceTakes ==
    ASSUME SessionTypes, SessionTypes', PlansOnce, WorkerTakes PROVE PlansOnce'
  <1>0. PICK first : first = queue[1]
    OBVIOUS
  <1> DEFINE number == first.plan.number
  <1>1. PICK said \in Outcomes(first) :
           /\ 1 \in 1..Len(queue) /\ Len(queue) \in Nat
           /\ Len(queue') = Len(queue) - 1
           /\ \A i \in 1..Len(queue') : i + 1 \in 1..Len(queue) /\ queue'[i] = queue[i + 1]
           /\ first.kind \in CommandKinds
           /\ Len(events) \in Nat /\ Len(said) \in Nat /\ Len(events') = Len(events) + Len(said)
           /\ \A i \in 1..Len(events) : i \in 1..Len(events') /\ events'[i] = events[i]
           /\ \A i \in 1..Len(events') : i \notin 1..Len(events) =>
                i - Len(events) \in 1..Len(said) /\ events'[i] = said[i - Len(events)]
           /\ UNCHANGED <<task, memory, spent>>
           /\ \/ UNCHANGED ghost
              \/ /\ first.kind = "apply"
                 /\ ghost' = [ghost EXCEPT !.applied = @ \cup {first.plan},
                                           !.twice = @ \/ first.plan \in ghost.applied]
    BY <1>0, TakesFacts
  <1>2. UNCHANGED <<Held, Taken, PreviewsIn(task.heard), spent>>
    BY <1>1 DEF Held, Taken, PreviewsIn, memory, tokens
  \* The queue has lost its first.
  <1>3. ASSUME NEW kind PROVE CommandsOf(kind)' \subseteq CommandsOf(kind)
    BY <1>1 DEF CommandsOf
  <1>4. QueueOnce'
    <2>1. SUFFICES ASSUME NEW i \in 1..Len(queue'), NEW j \in 1..Len(queue'),
                          queue'[i].kind \in {"preview", "apply"},
                          queue'[j].kind = queue'[i].kind,
                          queue'[i].plan.number = queue'[j].plan.number
                   PROVE  i = j
      BY DEF QueueOnce
    <2>2. i + 1 = j + 1
      BY <1>1, <2>1 DEF PlansOnce, QueueOnce
    <2> QED BY <1>1, <2>2
  <1>5. ASSUME first.kind \in {"preview", "apply"}
        PROVE  number \in CommandsOf(first.kind) /\ number \notin CommandsOf(first.kind)'
    <2>1. number \in CommandsOf(first.kind)
      BY <1>0, <1>1 DEF CommandsOf
    <2>2. ASSUME NEW i \in 1..Len(queue'), queue'[i].kind = first.kind,
                 queue'[i].plan.number = number
          PROVE  FALSE
      <3>1. i + 1 = 1
        BY <1>0, <1>1, <1>5, <2>2 DEF PlansOnce, QueueOnce
      <3> QED BY <1>1, <3>1
    <2>3. number \notin CommandsOf(first.kind)'
      <3>1. \A i \in 1..Len(queue') :
                queue'[i].kind = first.kind => queue'[i].plan.number # number
        BY <2>2
      <3> HIDE DEF number
      <3> QED BY <3>1 DEF CommandsOf
    <2> QED BY <2>1, <2>3
  \* The events have gained what it made the worker say.
  <1>6. ASSUME NEW i \in 1..Len(events'), events'[i].kind = "preview", i \notin 1..Len(events)
        PROVE  i = Len(events) + 1 /\ first.kind = "preview" /\ events'[i].of.number = number
    <2> DEFINE k == i - Len(events)
    <2>1. k \in 1..Len(said) /\ events'[i] = said[k]
      BY <1>1, <1>6
    <2> HIDE DEF k
    <2>2. first.kind = "preview"
      <3>1. CASE first.kind \notin {"preview", "barrier"}
        BY <1>1, <1>6, <2>1, <3>1, SaidFacts
      <3>2. CASE first.kind = "barrier"
        <4>1. Len(said) = 1 /\ said[1] = Says("barrier", first.of)
          BY <1>1, <3>2, SaidFacts
        <4>2. said[1].kind = "barrier" /\ k = 1
          BY <2>1, <4>1 DEF Says
        <4> QED BY <1>6, <2>1, <4>2
      <3> QED BY <3>1, <3>2
    <2>3. Len(said) = 1 /\ (said[1].kind = "error" \/ said[1] = Says("preview", first.plan))
      BY <1>1, <2>2, SaidFacts
    <2>4. k = 1
      BY <2>1, <2>3
    <2>5. said[1] = Says("preview", first.plan)
      BY <1>6, <2>1, <2>3, <2>4
    <2>6. said[1].of = first.plan
      BY <2>5 DEF Says
    <2>7. i = Len(events) + 1
      BY <1>1, <2>4 DEF k
    <2> QED BY <2>1, <2>2, <2>4, <2>6, <2>7
  <1>7. PreviewsIn(events)' \subseteq
            PreviewsIn(events) \cup (IF first.kind = "preview" THEN {number} ELSE {})
    <2>1. ASSUME NEW i \in 1..Len(events'), events'[i].kind = "preview"
          PROVE  events'[i].of.number \in
                    PreviewsIn(events) \cup (IF first.kind = "preview" THEN {number} ELSE {})
      <3>1. CASE i \in 1..Len(events)
        BY <1>1, <2>1, <3>1 DEF PreviewsIn
      <3>2. CASE i \notin 1..Len(events)
        BY <1>6, <2>1, <3>2
      <3> QED BY <3>1, <3>2
    <2> HIDE DEF number
    <2> QED BY <2>1 DEF PreviewsIn
  <1>8. EventsOnce'
    <2>1. SUFFICES ASSUME NEW i \in 1..Len(events'), NEW j \in 1..Len(events'),
                          events'[i].kind = "preview", events'[j].kind = "preview",
                          events'[i].of.number = events'[j].of.number
                   PROVE  i = j
      BY DEF EventsOnce
    <2>2. CASE i \in 1..Len(events) /\ j \in 1..Len(events)
      BY <1>1, <2>1, <2>2 DEF PlansOnce, EventsOnce
    <2>3. CASE i \notin 1..Len(events) /\ j \notin 1..Len(events)
      BY <1>6, <2>1, <2>3
    <2>4. ASSUME NEW a \in 1..Len(events), events[a].kind = "preview", first.kind = "preview",
                 events[a].of.number = number
          PROVE  FALSE
      <3>1. number \in PreviewsIn(events)
        BY <2>4 DEF PreviewsIn
      <3>2. number \in CommandsOf("preview")
        BY <1>5, <2>4
      <3> HIDE DEF number
      <3> QED BY <3>1, <3>2 DEF PlansOnce, NumbersApart, Disjoint
    <2>5. CASE i \in 1..Len(events) /\ j \notin 1..Len(events)
      BY <1>1, <1>6, <2>1, <2>4, <2>5
    <2>6. CASE i \notin 1..Len(events) /\ j \in 1..Len(events)
      BY <1>1, <1>6, <2>1, <2>4, <2>6
    <2> QED BY <2>2, <2>3, <2>5, <2>6
  \* A plan carried out is one that was not.
  <1>9. Applied' \subseteq Applied \cup (IF first.kind = "apply" THEN {number} ELSE {})
    <2>1. CASE UNCHANGED ghost
      BY <2>1 DEF Applied
    <2>2. CASE /\ first.kind = "apply"
               /\ ghost' = [ghost EXCEPT !.applied = @ \cup {first.plan},
                                         !.twice = @ \/ first.plan \in ghost.applied]
      <3>1. ghost'.applied = ghost.applied \cup {first.plan}
        BY <2>2 DEF SessionTypes, ReplayTypes
      <3> QED BY <2>2, <3>1 DEF Applied
    <2> QED BY <1>1, <2>1, <2>2
  <1>10. ~ghost'.twice
    <2>1. CASE UNCHANGED ghost
      BY <2>1 DEF PlansOnce
    <2>2. CASE /\ first.kind = "apply"
               /\ ghost' = [ghost EXCEPT !.applied = @ \cup {first.plan},
                                         !.twice = @ \/ first.plan \in ghost.applied]
      <3>1. number \notin Applied
        <4>1. number \in CommandsOf("apply")
          BY <1>5, <2>2
        <4> HIDE DEF number
        <4> QED BY <4>1 DEF PlansOnce, NumbersApart, Disjoint
      <3>2. first.plan \notin ghost.applied
        BY <3>1 DEF Applied
      <3>3. ghost'.twice = (ghost.twice \/ first.plan \in ghost.applied)
        BY <2>2 DEF SessionTypes, ReplayTypes
      <3> QED BY <3>2, <3>3 DEF PlansOnce
    <2> QED BY <1>1, <2>1, <2>2
  <1> HIDE DEF number
  <1>11. Used' \subseteq Used /\ Flying' \subseteq Flying
    <2>1. first.kind = "apply" => number \in CommandsOf("apply")
      BY <1>5
    <2>2. first.kind = "preview" => number \in CommandsOf("preview")
      BY <1>5
    <2> QED BY <1>2, <1>3, <1>7, <1>9, <2>1, <2>2 DEF Used, Flying
  <1>12. NumbersIssued'
    BY <1>2, <1>11 DEF PlansOnce, NumbersIssued
  <1>13. NumbersApart'
    <2>1. CASE first.kind = "preview"
      <3>1. number \in CommandsOf("preview") /\ number \notin CommandsOf("preview")'
        BY <1>5, <2>1
      <3>2. Applied' \subseteq Applied /\ PreviewsIn(events)' \subseteq PreviewsIn(events) \cup {number}
        BY <1>7, <1>9, <2>1
      <3> QED BY <1>2, <1>3, <1>11, <3>1, <3>2 DEF PlansOnce, NumbersApart, Disjoint
    <2>2. CASE first.kind = "apply"
      <3>1. number \in CommandsOf("apply") /\ number \notin CommandsOf("apply")'
        BY <1>5, <2>2
      <3>2. Applied' \subseteq Applied \cup {number} /\ PreviewsIn(events)' \subseteq PreviewsIn(events)
        BY <1>7, <1>9, <2>2
      <3> QED BY <1>2, <1>3, <1>11, <3>1, <3>2 DEF PlansOnce, NumbersApart, Disjoint
    <2>3. CASE first.kind \notin {"preview", "apply"}
      BY <1>2, <1>3, <1>7, <1>9, <1>11, <2>3 DEF PlansOnce, NumbersApart, Disjoint
    <2> QED BY <2>1, <2>2, <2>3
  <1> QED BY <1>4, <1>8, <1>10, <1>12, <1>13 DEF PlansOnce

LEMMA OnceInductive ==
    ASSUME SessionTypes, SessionTypes', Shaped, PlansOnce, [Next]_vars PROVE PlansOnce'
  <1>1. CASE SessionStep
    BY <1>1, OncePlain, OnceTake, OnceExchange, OnceWait, OnceGiveUp, OnceAnswer DEF SessionStep
  <1>2. CASE WorkerTakes \/ WorkerSpeaks
    BY <1>2, OnceTakes, OnceSpeaks
  <1>3. spent' = spent => spent'.tokens >= spent.tokens
    BY DEF SessionTypes, WorkerTypes
  <1>4. CASE Kept \/ UNCHANGED vars
    <2>1. UNCHANGED <<task, plans, queue, events, spent, ghost>>
      BY <1>4 DEF Kept, vars, sessionVars, memory, tokens, worker
    <2> QED BY <1>3, <2>1, PlainSteps DEF Held, Taken
  <1>5. CASE Renewed
    <2>1. /\ task' = Idle /\ plans' = {} /\ queue' = <<>> /\ events' = <<>>
          /\ ghost' = [ghost EXCEPT !.executed = <<>>] /\ spent' = spent
      BY <1>5 DEF Renewed, Fresh
    <2>2. ghost'.applied = ghost.applied /\ ghost'.twice = ghost.twice
      BY <2>1 DEF SessionTypes, ReplayTypes
    <2>3. Len(<<>>) = 0
      OBVIOUS
    <2>4. /\ EventsOnce' /\ QueueOnce' /\ PreviewsIn(events)' = {}
          /\ CommandsOf("preview")' = {} /\ CommandsOf("apply")' = {}
      BY <2>1, <2>3 DEF EventsOnce, QueueOnce, PreviewsIn, CommandsOf
    <2>5. PreviewsIn(task.heard)' = {} /\ Taken' = {} /\ Held' = {} /\ Applied' = Applied
      BY <2>1, <2>2, NoNumbers, IdleTaken DEF Held, Applied
    <2> QED BY <1>3, <2>1, <2>2, <2>4, <2>5, FewerNumbers DEF PlansOnce, SessionTypes, WorkerTypes
  <1> QED BY <1>1, <1>2, <1>4, <1>5, ClientEffect DEF SessionNext

\* The worker is never made to carry out the same plan twice: a number is in one
\* place at a time, from the exchange that asks for the plan to its application.
THEOREM PlansAreAppliedOnce == Spec => []AppliedOnce
  <1>1. Init => PlansOnce
    <2> SUFFICES ASSUME Init PROVE PlansOnce
      OBVIOUS
    <2>1. /\ task = Idle /\ plans = {} /\ queue = <<>> /\ events = <<>>
          /\ ghost.applied = {} /\ ~ghost.twice
      BY DEF Init, SessionInit
    <2>2. Len(<<>>) = 0 /\ Idle.todo = <<>>
      BY DEF Idle
    <2>3. /\ EventsOnce /\ QueueOnce /\ PreviewsIn(events) = {}
          /\ CommandsOf("preview") = {} /\ CommandsOf("apply") = {}
      BY <2>1, <2>2 DEF EventsOnce, QueueOnce, PreviewsIn, CommandsOf
    <2>4. PreviewsIn(task.heard) = {} /\ Taken = {} /\ Held = {} /\ Applied = {}
      BY <2>1, <2>2, NoNumbers DEF Held, Applied, Taken
    <2> QED BY <2>1, <2>3, <2>4 DEF PlansOnce, NumbersApart, NumbersIssued, Disjoint, Used, Flying
  <1>2. SessionTypes /\ SessionTypes' /\ Shaped /\ PlansOnce /\ [Next]_vars => PlansOnce'
    BY OnceInductive
  <1>3. PlansOnce => AppliedOnce
    BY DEF PlansOnce, AppliedOnce
  <1> QED BY <1>1, <1>2, <1>3, TypesAlways, ShapedAlways, PTL DEF Spec

-----------------------------------------------------------------------------
(* No preview is of an earlier configuration.                                *)

\* What is neither an exchange nor said by the worker.
LEMMA BarrierQuiet ==
    ASSUME BarrierIsLast, UNCHANGED <<queue, events, spent.late>>,
           task' = task \/ ~Waiting
    PROVE  BarrierIsLast'
  BY DEF BarrierIsLast, Barrier, Waiting

LEMMA BarrierExchange ==
    ASSUME SessionTypes, Shaped, BarrierIsLast, Exchange PROVE BarrierIsLast'
  <1> USE DEF SessionTypes
  <1> DEFINE n == Len(queue)
  <1>1. /\ n \in Nat /\ Len(queue') = n + 2
        /\ \A i \in 1..n : queue'[i] = queue[i]
        /\ \A i \in 1..Len(queue') : i \in 1..n \/ i = n + 1 \/ i = n + 2
        /\ queue'[n + 2] = [kind |-> "barrier", of |-> spent.late]
        /\ queue'[n + 1] = Sent(Head(task.todo))
        /\ Sent(Head(task.todo)).kind = "barrier" => Sent(Head(task.todo)).of = None
        /\ Head(task.todo) # "wait"
    BY SentFacts
  <1>2. /\ queue'[n + 1].kind = "barrier" => queue'[n + 1].of = None
        /\ queue'[n + 2].kind = "barrier" /\ queue'[n + 2].of = spent.late
    BY <1>1
  <1>3. Waiting' /\ ~Waiting
    BY <1>1, AwaitsShape DEF Waiting, Shaped, TaskTypes
  <1>4. UNCHANGED <<events, spent.late>>
    <2>1. spent' = spent \/ spent' = [spent EXCEPT !.tokens = @ + 1]
      BY DEF Exchange
    <2> QED BY <2>1 DEF Exchange, WorkerTypes
  <1>5. spent.late \in Nat /\ None \notin Nat
    BY SessionAssumption DEF WorkerTypes
  <1>6. \A i \in 1..Len(queue) : queue[i].kind = "barrier" =>
            (queue[i].of = None \/ (queue[i].of \in Nat /\ queue[i].of <= spent.late))
            /\ queue[i].of # spent.late
    BY <1>3 DEF BarrierIsLast
  <1>7. \A i \in 1..Len(events) : events[i] # Barrier
    BY <1>3 DEF BarrierIsLast
  <1>8. Barrier' = Barrier
    BY <1>4 DEF Barrier
  <1> HIDE DEF n
  <1>9. \A i \in 1..Len(queue') : queue'[i].kind = "barrier" =>
            (queue'[i].of = None \/ (queue'[i].of \in Nat /\ queue'[i].of <= spent.late))
            /\ (queue'[i].of = spent.late => i = Len(queue'))
    BY <1>1, <1>2, <1>5, <1>6 DEF n
  <1> QED BY <1>3, <1>4, <1>7, <1>8, <1>9 DEF BarrierIsLast

LEMMA BarrierWait ==
    ASSUME SessionTypes, BarrierIsLast, Wait
    PROVE  /\ BarrierIsLast'
           /\ queue' = <<>> /\ \A i \in 1..Len(events') : events'[i].kind # "preview"
  <1> DEFINE u == Until
  <1>1. /\ u \in 1..Len(events) /\ Len(events) \in Nat /\ events[u] = Barrier
        /\ Len(events') = Len(events) - u
        /\ \A i \in 1..Len(events') : u + i \in 1..Len(events) /\ events'[i] = events[u + i]
        /\ UNCHANGED <<queue, spent>>
    BY WaitFacts
  <1> HIDE DEF u
  <1>2. queue = <<>>
        /\ \A j \in 1..Len(events) : j > u => events[j].kind \notin {"preview", "barrier"}
    BY <1>1 DEF BarrierIsLast
  <1>3. \A i \in 1..Len(events') : events'[i].kind \notin {"preview", "barrier"}
    <2>1. \A i \in 1..Len(events') : u + i > u
      BY <1>1
    <2> QED BY <1>1, <1>2, <2>1
  <1>4. Len(<<>>) = 0 /\ Barrier'.kind = "barrier"
    BY DEF Barrier, Says
  <1> QED BY <1>1, <1>2, <1>3, <1>4 DEF BarrierIsLast

LEMMA BarrierGiveUp ==
    ASSUME SessionTypes, BarrierIsLast, GiveUp PROVE BarrierIsLast'
  <1>1. /\ events' = <<>> /\ queue' = queue /\ spent' = [spent EXCEPT !.late = @ + 1]
    BY DEF GiveUp
  <1>2. spent'.late = spent.late + 1 /\ spent.late \in Nat /\ None \notin Nat
    BY <1>1, SessionAssumption DEF SessionTypes, WorkerTypes
  <1>3. Len(<<>>) = 0
    OBVIOUS
  <1>4. \A i \in 1..Len(queue) : queue[i].kind = "barrier" =>
            (queue[i].of = None \/ (queue[i].of \in Nat /\ queue[i].of <= spent'.late))
            /\ queue[i].of # spent'.late
    BY <1>2 DEF BarrierIsLast
  <1> QED BY <1>1, <1>3, <1>4 DEF BarrierIsLast

LEMMA BarrierSpeaks ==
    ASSUME SessionTypes, BarrierIsLast, WorkerSpeaks
    PROVE  /\ BarrierIsLast'
           /\ \A i \in 1..Len(events') : events'[i].kind = "preview" =>
                    i \in 1..Len(events) /\ events'[i] = events[i]
  <1>1. PICK said \in Unasked : IsQueue(said) /\ events' = events \o said
    BY SpeaksEffect DEF SessionTypes
  <1>2. /\ UNCHANGED <<task, queue>> /\ spent' = [spent EXCEPT !.unasked = @ + 1]
    BY DEF WorkerSpeaks
  <1>3. /\ Len(events') = Len(events) + Len(said)
        /\ Len(events) \in Nat /\ Len(said) \in Nat
        /\ \A i \in 1..Len(events) : events'[i] = events[i]
        /\ \A i \in 1..Len(events') : i > Len(events) =>
                i - Len(events) \in 1..Len(said) /\ events'[i] = said[i - Len(events)]
    BY <1>1, JoinFacts, QueueFacts DEF SessionTypes, WorkerTypes
  <1>4. \A i \in 1..Len(events') : events'[i].kind \in {"preview", "barrier"} =>
                i \in 1..Len(events) /\ events'[i] = events[i]
    BY <1>3, UnaskedFacts
  <1>5. spent'.late = spent.late
    BY <1>2 DEF SessionTypes, WorkerTypes
  <1>6. Barrier' = Barrier /\ Barrier.kind = "barrier" /\ (Waiting' <=> Waiting)
    BY <1>2, <1>5 DEF Barrier, Says, Waiting
  <1>7. \A i \in 1..Len(events) : i \in 1..Len(events') /\ events'[i] = events[i]
    BY <1>3
  <1>8. \A i \in 1..Len(events') : events'[i] = Barrier => i \in 1..Len(events) /\ events[i] = Barrier
    BY <1>4, <1>6
  <1>9. /\ \A i \in 1..Len(queue') : queue'[i].kind = "barrier" =>
                queue'[i].of = None \/ (queue'[i].of \in Nat /\ queue'[i].of <= spent'.late)
        /\ \A i \in 1..Len(events') : events'[i].kind = "barrier" =>
                events'[i].of = None \/ (events'[i].of \in Nat /\ events'[i].of <= spent'.late)
    BY <1>2, <1>4, <1>5 DEF BarrierIsLast
  <1>10. \A i \in 1..Len(queue') : queue'[i].kind = "barrier" /\ queue'[i].of = spent'.late =>
            /\ Waiting' /\ i = Len(queue')
            /\ \A j \in 1..Len(events') : events'[j] # Barrier'
    BY <1>2, <1>5, <1>6, <1>8 DEF BarrierIsLast
  <1>11. \A i \in 1..Len(events') : events'[i] = Barrier' =>
            /\ Waiting' /\ queue' = <<>>
            /\ \A j \in 1..Len(events') : j > i => events'[j].kind \notin {"preview", "barrier"}
    BY <1>2, <1>4, <1>6, <1>8 DEF BarrierIsLast
  <1> QED BY <1>4, <1>9, <1>10, <1>11 DEF BarrierIsLast

LEMMA BarrierTakes ==
    ASSUME SessionTypes, BarrierIsLast, WorkerTakes
    PROVE  /\ BarrierIsLast'
           /\ \A i \in 1..Len(events') : events'[i].kind = "preview" =>
                \/ i \in 1..Len(events) /\ events'[i] = events[i]
                \/ queue[1].kind = "preview" /\ events'[i].of = queue[1].plan
           /\ 1 \in 1..Len(queue)
           /\ \A i \in 1..Len(queue') : i + 1 \in 1..Len(queue) /\ queue'[i] = queue[i + 1]
  <1>0. PICK first : first = queue[1]
    OBVIOUS
  <1>1. PICK said \in Outcomes(first) :
           /\ queue # <<>> /\ 1 \in 1..Len(queue) /\ Len(queue) \in Nat
           /\ Len(queue') = Len(queue) - 1
           /\ \A i \in 1..Len(queue') : i + 1 \in 1..Len(queue) /\ queue'[i] = queue[i + 1]
           /\ first.kind \in CommandKinds
           /\ Len(events) \in Nat /\ Len(said) \in Nat /\ Len(events') = Len(events) + Len(said)
           /\ \A i \in 1..Len(events) : i \in 1..Len(events') /\ events'[i] = events[i]
           /\ \A i \in 1..Len(events') : i \notin 1..Len(events) =>
                i - Len(events) \in 1..Len(said) /\ events'[i] = said[i - Len(events)]
           /\ UNCHANGED <<task, memory, spent>>
    BY <1>0, TakesFacts
  <1>2. /\ Barrier' = Barrier /\ Barrier.kind = "barrier" /\ Barrier.of = spent.late
        /\ (Waiting' <=> Waiting)
    BY <1>1 DEF Barrier, Says, Waiting
  \* What is new in the events.
  <1>3. ASSUME NEW i \in 1..Len(events'), i \notin 1..Len(events)
        PROVE  /\ events'[i].kind = "preview" =>
                    first.kind = "preview" /\ events'[i].of = first.plan
               /\ events'[i].kind = "barrier" =>
                    first.kind = "barrier" /\ events'[i].of = first.of /\ i = Len(events')
    <2> DEFINE k == i - Len(events)
    <2>1. k \in 1..Len(said) /\ events'[i] = said[k]
      BY <1>1, <1>3
    <2>2. k = 1 /\ Len(said) = 1 => i = Len(events')
      BY <1>1
    <2> HIDE DEF k
    <2>3. CASE first.kind \notin {"preview", "barrier"}
      BY <1>1, <2>1, <2>3, SaidFacts
    <2>4. CASE first.kind = "preview"
      <3>1. Len(said) = 1 /\ (said[1].kind = "error" \/ said[1] = Says("preview", first.plan))
        BY <1>1, <2>4, SaidFacts
      <3>2. k = 1
        BY <2>1, <3>1
      <3>3. Says("preview", first.plan).kind = "preview" /\ Says("preview", first.plan).of = first.plan
        BY DEF Says
      <3> QED BY <2>1, <2>4, <3>1, <3>2, <3>3
    <2>5. CASE first.kind = "barrier"
      <3>1. Len(said) = 1 /\ said[1] = Says("barrier", first.of)
        BY <1>1, <2>5, SaidFacts
      <3>2. k = 1
        BY <2>1, <3>1
      <3>3. Says("barrier", first.of).kind = "barrier" /\ Says("barrier", first.of).of = first.of
        BY DEF Says
      <3> QED BY <2>1, <2>2, <2>5, <3>1, <3>2, <3>3
    <2> QED BY <2>3, <2>4, <2>5
  <1>4. \A i \in 1..Len(events) : events[i] # Barrier
    BY <1>1 DEF BarrierIsLast
  <1>5. first.kind = "barrier" =>
            first.of = None \/ (first.of \in Nat /\ first.of <= spent.late)
    BY <1>0, <1>1 DEF BarrierIsLast
  <1>6. first.kind = "barrier" /\ first.of = spent.late => Waiting /\ Len(queue) = 1
    BY <1>0, <1>1 DEF BarrierIsLast
  <1>7. \A i \in 1..Len(queue') : queue'[i].kind = "barrier" =>
            queue'[i].of = None \/ (queue'[i].of \in Nat /\ queue'[i].of <= spent'.late)
    BY <1>1 DEF BarrierIsLast
  <1>8. \A i \in 1..Len(events') : events'[i].kind = "barrier" =>
            events'[i].of = None \/ (events'[i].of \in Nat /\ events'[i].of <= spent'.late)
    <2>1. ASSUME NEW i \in 1..Len(events'), events'[i].kind = "barrier"
          PROVE  events'[i].of = None \/ (events'[i].of \in Nat /\ events'[i].of <= spent'.late)
      <3>1. CASE i \in 1..Len(events)
        BY <1>1, <2>1, <3>1 DEF BarrierIsLast
      <3>2. CASE i \notin 1..Len(events)
        BY <1>1, <1>3, <1>5, <2>1, <3>2
      <3> QED BY <3>1, <3>2
    <2> QED BY <2>1
  <1>9. \A i \in 1..Len(events') : events'[i] = Barrier =>
            i = Len(events') /\ Waiting /\ Len(queue) = 1
    <2>1. ASSUME NEW i \in 1..Len(events'), events'[i] = Barrier
          PROVE  i = Len(events') /\ Waiting /\ Len(queue) = 1
      <3>1. i \notin 1..Len(events)
        BY <1>1, <1>4, <2>1
      <3> QED BY <1>2, <1>3, <1>6, <2>1, <3>1
    <2> QED BY <2>1
  <1>10. ASSUME NEW i \in 1..Len(queue'), queue'[i].kind = "barrier", queue'[i].of = spent'.late
         PROVE  /\ Waiting' /\ i = Len(queue')
                /\ \A j \in 1..Len(events') : events'[j] # Barrier'
    <2>1. Waiting /\ i + 1 = Len(queue)
      BY <1>1, <1>10 DEF BarrierIsLast
    <2>2. Len(queue) # 1 /\ i = Len(queue')
      BY <1>1, <1>10, <2>1
    <2> QED BY <1>2, <1>9, <2>1, <2>2
  <1>11. ASSUME NEW i \in 1..Len(events'), events'[i] = Barrier'
         PROVE  /\ Waiting' /\ queue' = <<>>
                /\ \A j \in 1..Len(events') : j > i => events'[j].kind \notin {"preview", "barrier"}
    <2>1. i = Len(events') /\ Waiting /\ Len(queue) = 1
      BY <1>2, <1>9, <1>11
    <2>2. queue' = <<>>
      <3>1. IsQueue(queue') /\ Len(queue') = 0
        BY <1>1, <2>1, WorkerEffect DEF SessionTypes
      <3> QED BY <3>1, QueueFacts
    <2>3. ~\E j \in 1..Len(events') : j > i
      BY <1>1, <2>1
    <2> QED BY <1>2, <2>1, <2>2, <2>3
  <1>12. BarrierIsLast'
    BY <1>7, <1>8, <1>10, <1>11 DEF BarrierIsLast
  <1>13. ASSUME NEW i \in 1..Len(events'), events'[i].kind = "preview"
         PROVE  \/ i \in 1..Len(events) /\ events'[i] = events[i]
                \/ first.kind = "preview" /\ events'[i].of = first.plan
    BY <1>1, <1>3, <1>13
  <1> QED BY <1>0, <1>1, <1>12, <1>13

\* Where the session is between two requests or between two exchanges.
LEMMA StaleQuiet ==
    ASSUME StaleAreTaken, UNCHANGED <<queue, events, config, spent.late>>,
           spent.late < 2 => \A plan \in plans' : plan.revision = config,
           ~RefreshPending, task.todo # <<"wait", "preview">>,
           (task'.heard = task.heard /\ task.todo # <<"done">>) \/ task'.heard = <<>>
    PROVE  StaleAreTaken'
  <1>1. CurrentIn(<<>>)
    BY DEF CurrentIn
  <1>2. CurrentIn(task.heard)' <=> CurrentIn(task'.heard)
    BY DEF CurrentIn
  <1> QED BY <1>1 DEF StaleAreTaken, CurrentIn, CurrentQueued, NonePending

LEMMA Between ==
    ASSUME task.todo = <<>> \/ Head(task.todo) \notin {"refresh", "wait"}
    PROVE  ~RefreshPending /\ task.todo # <<"wait", "preview">>
  <1>1. /\ Head(<<"refresh", "done">>) = "refresh" /\ <<"refresh", "done">> # <<>>
        /\ Head(<<"wait", "done">>) = "wait" /\ <<"wait", "done">> # <<>>
        /\ Head(<<"wait", "preview">>) = "wait" /\ <<"wait", "preview">> # <<>>
    OBVIOUS
  <1> QED BY <1>1 DEF RefreshPending

LEMMA StalePlain ==
    ASSUME SessionTypes, StaleAreTaken,
           Receive \/ Replays \/ Current \/ Room \/ Take \/ Candidate
    PROVE  StaleAreTaken'
  <1>1. Head(<<"done">>) = "done"
    OBVIOUS
  <1>2. CASE Receive \/ Replays
    <2>1. task = Idle /\ UNCHANGED <<queue, events, config, spent, plans>>
      BY <1>2 DEF Receive, Replays, worker, memory, authored, tokens
    <2>2. Idle.todo = <<>> /\ Idle.heard = <<>>
      BY DEF Idle
    <2>3. task'.heard = <<>>
      <3>1. CASE Receive
        BY <3>1 DEF Receive, Idle
      <3>2. CASE Replays
        BY <2>1, <2>2, <3>2 DEF Replays
      <3> QED BY <1>2, <3>1, <3>2
    <2> QED BY <2>1, <2>2, <2>3, Between, StaleQuiet DEF StaleAreTaken
  <1>3. CASE Current \/ Room \/ Take \/ Candidate
    <2>1. /\ Head(task.todo) \in {"current", "room", "take", "candidate"}
          /\ UNCHANGED <<queue, events, config, spent>>
          /\ plans' \subseteq plans
      BY <1>3 DEF Current, Room, Take, Candidate, Doing, worker, authored, tokens
    <2>2. task' = Idle \/ task' = Rest \/ \E plan : task' = [Rest EXCEPT !.plan = plan]
      BY <1>3 DEF Current, Room, Take, Candidate, Goes, Fail, AnswerWith
    <2>3. ASSUME NEW plan, task' = [Rest EXCEPT !.plan = plan] PROVE task'.heard = task.heard
      BY <2>3 DEF Rest, SessionTypes, TaskTypes
    <2>4. task' = Rest => task'.heard = task.heard
      BY DEF Rest, SessionTypes, TaskTypes
    <2>5. task'.heard = task.heard \/ task'.heard = <<>>
      BY <2>2, <2>3, <2>4, IdleTaken
    <2>6. task.todo # <<"done">>
      BY <1>1, <2>1
    <2> QED BY <2>1, <2>5, <2>6, Between, StaleQuiet DEF StaleAreTaken
  <1> QED BY <1>2, <1>3

LEMMA StaleAnswer ==
    ASSUME SessionTypes, StaleAreTaken, Answer PROVE StaleAreTaken'
  <1>1. /\ task' = Idle /\ UNCHANGED <<queue, events, config>>
        /\ spent' = spent \/ spent' = [spent EXCEPT !.tokens = @ + 1]
    <2>1. Answers
      BY DEF Answer, Answers, Fail
    <2> QED BY <2>1 DEF Answers, AnswerWith, Answer, worker, authored
  <1>2. spent'.late = spent.late
    BY <1>1 DEF SessionTypes, WorkerTypes
  <1>3. Head(task.todo) \in {"snapshot", "configuration", "done", "discard", "events", "forget",
                             "inventory", "preview", "apply.done"}
    BY DEF Answer, Doing
  <1>4. plans' \subseteq plans \/
        (/\ Head(task.todo) = "preview" /\ Heard("preview") # {}
         /\ plans' = plans \cup {FirstHeard("preview")})
    BY DEF Answer, Doing, tokens
  <1>5. ~RefreshPending /\ task.todo # <<"wait", "preview">>
    BY <1>3, Between
  <1>6. spent.late < 2 => \A plan \in plans' : plan.revision = config
    <2>1. CASE plans' \subseteq plans
      BY <2>1 DEF StaleAreTaken
    <2>2. CASE /\ Head(task.todo) = "preview" /\ Heard("preview") # {}
               /\ plans' = plans \cup {FirstHeard("preview")}
      <3>1. Head(<<"done">>) = "done"
        OBVIOUS
      <3>2. task.todo # <<"done">>
        BY <2>2, <3>1
      <3>3. spent.late < 2 => CurrentIn(task.heard)
        BY <1>5, <3>2 DEF StaleAreTaken
      <3>4. PICK n \in 1..Len(task.heard) :
              task.heard[n].kind = "preview" /\ FirstHeard("preview") = task.heard[n].of
        BY <2>2, FirstHeardFacts
      <3>5. spent.late < 2 => FirstHeard("preview").revision = config
        BY <3>3, <3>4 DEF CurrentIn
      <3> QED BY <2>2, <3>5 DEF StaleAreTaken
    <2> QED BY <1>4, <2>1, <2>2
  <1> QED BY <1>1, <1>2, <1>5, <1>6, IdleTaken, StaleQuiet

LEMMA StaleEdit ==
    ASSUME SessionTypes, Shaped, StaleAreTaken, Save \/ Restore PROVE StaleAreTaken'
  <1>1. /\ task.todo # <<>> /\ Head(task.todo) \in {"save", "restore"}
        /\ UNCHANGED <<queue, events, spent>>
        /\ \/ Fail /\ UNCHANGED <<config, plans>>
           \/ task' = Rest /\ plans' = {}
    BY DEF Save, Restore, Doing, worker, Goes, authored
  <1>2. CASE Fail /\ UNCHANGED <<config, plans>>
    <2>1. task' = Idle
      BY <1>2 DEF Fail, AnswerWith
    <2> QED BY <1>1, <1>2, <2>1, IdleTaken, Between, StaleQuiet DEF StaleAreTaken
  <1>3. CASE task' = Rest /\ plans' = {}
    <2>1. task'.todo = Tail(task.todo)
      BY <1>3 DEF Rest, SessionTypes, TaskTypes
    <2>2. task'.todo = <<"refresh", "done">>
      BY <1>1, <2>1, TailShape DEF SessionTypes, TaskTypes, Shaped
    <2>3. RefreshPending'
      BY <2>2 DEF RefreshPending
    <2>4. spent.late < 2 /\ spent.late = 0 => NonePending
      BY <1>1, Between DEF StaleAreTaken
    <2>5. NonePending' <=> NonePending
      BY <1>1 DEF NonePending
    <2> QED BY <1>1, <1>3, <2>3, <2>4, <2>5 DEF StaleAreTaken
  <1> QED BY <1>1, <1>2, <1>3

LEMMA StaleExchange ==
    ASSUME SessionTypes, Shaped, StaleAreTaken, Exchange PROVE StaleAreTaken'
  <1> DEFINE n == Len(queue)
             head == Head(task.todo)
  <1>1. /\ n \in Nat /\ Len(queue') = n + 2
        /\ \A i \in 1..n : queue'[i] = queue[i]
        /\ \A i \in 1..Len(queue') : i \in 1..n \/ i = n + 1 \/ i = n + 2
        /\ queue'[n + 2] = [kind |-> "barrier", of |-> spent.late]
        /\ queue'[n + 1] = Sent(head)
        /\ head \in {"refresh", "poll", "tell", "apply", "plan"}
        /\ Sent(head).kind = IF head = "plan" THEN "preview"
                             ELSE IF head = "poll" THEN "barrier" ELSE head
        /\ head = "plan" => Sent(head).plan =
                [number |-> spent.tokens + 1, revision |-> config, by |-> task.id]
    BY SentFacts
  <1>2. \A i \in 1..Len(queue') : queue'[i].kind = "preview" =>
            (i \in 1..n /\ queue'[i] = queue[i])
            \/ (head = "plan" /\ queue'[i].plan.revision = config)
    BY <1>1
  <1>3. /\ task'.heard = task.heard /\ task'.todo = Awaits
        /\ task.todo = <<"refresh", "done">> => Awaits = <<"wait", "done">>
        /\ head = "plan" => Awaits = <<"wait", "preview">>
    <2>1. task' = [task EXCEPT !.todo = Awaits]
      BY AwaitsShape DEF Shaped, SessionTypes
    <2> QED BY <2>1, AwaitsShape DEF SessionTypes, TaskTypes, Shaped
  <1>4. UNCHANGED <<events, config, plans, spent.late>>
    <2>1. spent' = spent \/ spent' = [spent EXCEPT !.tokens = @ + 1]
      BY DEF Exchange
    <2>2. spent'.late = spent.late
      BY <2>1 DEF SessionTypes, WorkerTypes
    <2> QED BY <2>2 DEF Exchange, memory, authored, tokens
  <1>5. /\ head # "wait" /\ Head(<<"wait", "done">>) = "wait" /\ Head(<<"done">>) = "done"
        /\ Head(<<"wait", "preview">>) = "wait" /\ Head(<<"refresh", "done">>) = "refresh"
    BY <1>1
  <1>6. /\ RefreshPending => RefreshPending' /\ head # "plan"
        /\ task.todo # <<"done">> /\ task.todo # <<"wait", "preview">>
    BY <1>1, <1>3, <1>5 DEF RefreshPending
  <1> HIDE DEF n, head
  <1>7. CurrentQueued => CurrentQueued'
    BY <1>2, <1>4 DEF CurrentQueued, n
  <1>8. /\ CurrentIn(events) => CurrentIn(events)'
        /\ CurrentIn(task.heard) => CurrentIn(task.heard)'
    BY <1>3, <1>4 DEF CurrentIn
  <1>9. NonePending /\ head # "plan" => NonePending'
    BY <1>2, <1>4 DEF NonePending, n
  <1> QED BY <1>3, <1>4, <1>6, <1>7, <1>8, <1>9 DEF StaleAreTaken

LEMMA StaleWait ==
    ASSUME SessionTypes, Shaped, BarrierIsLast, StaleAreTaken, Wait PROVE StaleAreTaken'
  <1>1. /\ \/ task' = Idle
           \/ /\ task'.todo = Tail(task.todo)
              /\ \A i \in 1..Len(task'.heard) :
                        i \in 1..Len(events) /\ task'.heard[i] = events[i]
        /\ task.todo # <<>> /\ Head(task.todo) = "wait"
        /\ UNCHANGED <<config, plans, spent>>
    BY WaitFacts DEF authored, tokens
  <1>2. queue' = <<>> /\ \A i \in 1..Len(events') : events'[i].kind # "preview"
    BY BarrierWait
  <1>3. Len(<<>>) = 0
    OBVIOUS
  <1>4. NonePending' /\ CurrentIn(events)' /\ CurrentQueued'
    BY <1>2, <1>3 DEF NonePending, CurrentIn, CurrentQueued
  <1>5. RefreshPending => task.todo = <<"wait", "done">>
    <2>1. Head(<<"refresh", "done">>) = "refresh"
      OBVIOUS
    <2> QED BY <1>1, <2>1 DEF RefreshPending
  <1>6. Tail(<<"wait", "done">>) = <<"done">>
    OBVIOUS
  <1>7. spent.late < 2 => task'.todo = <<"done">> \/ CurrentIn(task.heard)'
    <2>1. CASE task' = Idle
      BY <2>1, <1>3, IdleTaken DEF CurrentIn
    <2>2. CASE /\ task'.todo = Tail(task.todo)
               /\ \A i \in 1..Len(task'.heard) :
                        i \in 1..Len(events) /\ task'.heard[i] = events[i]
      <3>1. CASE RefreshPending
        BY <1>5, <1>6, <2>2, <3>1
      <3>2. CASE ~RefreshPending
        BY <1>1, <2>2, <3>2 DEF StaleAreTaken, CurrentIn
      <3> QED BY <3>1, <3>2
    <2> QED BY <1>1, <2>1, <2>2
  <1> QED BY <1>1, <1>4, <1>7 DEF StaleAreTaken

LEMMA StaleGiveUp ==
    ASSUME SessionTypes, StaleAreTaken, GiveUp PROVE StaleAreTaken'
  <1>1. /\ task' = Idle /\ events' = <<>> /\ UNCHANGED <<queue, plans, config>>
        /\ spent' = [spent EXCEPT !.late = @ + 1]
    BY DEF GiveUp, AnswerWith, tokens, authored
  <1>2. spent'.late = spent.late + 1 /\ spent.late \in Nat
    BY <1>1 DEF SessionTypes, WorkerTypes
  <1>3. CASE spent'.late < 2
    <2>1. spent.late = 0 /\ spent.late < 2
      BY <1>2, <1>3
    <2>2. CurrentQueued
      <3>1. CASE task.todo = <<"wait", "preview">>
        <4>1. ~RefreshPending
          <5>1. <<"wait", "preview">> # <<"wait", "done">> /\ <<"wait", "preview">> # <<"refresh", "done">>
            OBVIOUS
          <5> QED BY <3>1, <5>1 DEF RefreshPending
        <4> QED BY <2>1, <4>1 DEF StaleAreTaken
      <3>2. CASE task.todo # <<"wait", "preview">>
        BY <2>1, <3>2 DEF StaleAreTaken, NonePending, CurrentQueued
      <3> QED BY <3>1, <3>2
    <2>3. Len(<<>>) = 0
      OBVIOUS
    <2>4. CurrentQueued' /\ CurrentIn(events)' /\ CurrentIn(task.heard)'
      BY <1>1, <2>2, <2>3, IdleTaken DEF CurrentQueued, CurrentIn
    <2> QED BY <1>1, <1>2, <2>1, <2>4 DEF StaleAreTaken
  <1>4. CASE ~(spent'.late < 2)
    BY <1>4 DEF StaleAreTaken
  <1> QED BY <1>3, <1>4

\* More events or fewer commands, none of them of an earlier configuration unless
\* one was there before.
LEMMA StaleWorker ==
    ASSUME SessionTypes, BarrierIsLast, StaleAreTaken, WorkerTakes \/ WorkerSpeaks
    PROVE  StaleAreTaken'
  <1>1. UNCHANGED <<task, config, plans, spent.late>>
    <2>1. spent' = spent \/ spent' = [spent EXCEPT !.unasked = @ + 1]
      BY DEF WorkerTakes, WorkerSpeaks
    <2>2. spent'.late = spent.late
      BY <2>1 DEF SessionTypes, WorkerTypes
    <2> QED BY <2>2 DEF WorkerTakes, WorkerSpeaks, memory, authored, tokens
  <1>2. \A i \in 1..Len(events') : events'[i].kind = "preview" =>
            \/ i \in 1..Len(events) /\ events'[i] = events[i]
            \/ /\ 1 \in 1..Len(queue) /\ queue[1].kind = "preview"
               /\ events'[i].of = queue[1].plan
    BY BarrierTakes, BarrierSpeaks
  <1>3. \A i \in 1..Len(queue') : \E j \in 1..Len(queue) : queue'[i] = queue[j]
    <2>1. CASE WorkerTakes
      BY <2>1, BarrierTakes
    <2>2. CASE WorkerSpeaks
      BY <2>2 DEF WorkerSpeaks
    <2> QED BY <2>1, <2>2
  <1>4. CurrentIn(events) /\ CurrentQueued => CurrentIn(events)' /\ CurrentQueued'
    BY <1>1, <1>2, <1>3 DEF CurrentIn, CurrentQueued
  <1>5. NonePending => NonePending'
    BY <1>2, <1>3 DEF NonePending
  <1>6. CurrentIn(task.heard)' <=> CurrentIn(task.heard)
    BY <1>1 DEF CurrentIn
  <1> QED BY <1>1, <1>4, <1>5, <1>6 DEF StaleAreTaken, RefreshPending

LEMMA CurrentInductive ==
    ASSUME SessionTypes, Shaped, PreviewsCurrent, [Next]_vars PROVE PreviewsCurrent'
  <1> USE DEF PreviewsCurrent
  <1>1. CASE Exchange
    BY <1>1, BarrierExchange, StaleExchange
  <1>2. CASE Wait
    BY <1>2, BarrierWait, StaleWait
  <1>3. CASE GiveUp
    BY <1>3, BarrierGiveUp, StaleGiveUp
  <1>4. CASE WorkerTakes \/ WorkerSpeaks
    BY <1>4, BarrierTakes, BarrierSpeaks, StaleWorker
  <1>5. CASE Receive \/ Replays \/ Current \/ Room \/ Take \/ Candidate \/ Save \/ Restore \/ Answer
    <2>1. StaleAreTaken'
      BY <1>5, StalePlain, StaleEdit, StaleAnswer
    <2>2. ~Waiting
      <3>1. CASE Receive \/ Replays
        <4>1. task = Idle
          BY <3>1 DEF Receive, Replays
        <4>2. task.todo = <<>>
          BY <4>1 DEF Idle
        <4> QED BY <4>2 DEF Waiting
      <3>2. CASE Current \/ Room \/ Take \/ Candidate \/ Save \/ Restore \/ Answer
        BY <3>2 DEF Current, Room, Take, Candidate, Save, Restore, Answer, Doing, Waiting
      <3> QED BY <1>5, <3>1, <3>2
    <2>3. UNCHANGED <<queue, events>> /\ (spent' = spent \/ spent' = [spent EXCEPT !.tokens = @ + 1])
      BY <1>5 DEF Receive, Replays, Current, Room, Take, Candidate, Save, Restore, Answer, worker
    <2>4. spent'.late = spent.late
      BY <2>3 DEF SessionTypes, WorkerTypes
    <2> QED BY <2>1, <2>2, <2>3, <2>4, BarrierQuiet
  <1>6. CASE Kept \/ UNCHANGED vars
    <2>1. UNCHANGED <<task, queue, events, plans, config, spent>>
      BY <1>6 DEF Kept, vars, sessionVars, memory, authored, tokens, worker
    <2>2. BarrierIsLast'
      BY <2>1, BarrierQuiet
    <2>3. StaleAreTaken'
      BY <2>1 DEF StaleAreTaken, RefreshPending, CurrentIn, CurrentQueued, NonePending
    <2> QED BY <2>2, <2>3
  <1>7. CASE Renewed
    <2>1. task' = Idle /\ plans' = {} /\ queue' = <<>> /\ events' = <<>> /\ spent' = spent
      BY <1>7 DEF Renewed, Fresh
    <2>2. Len(<<>>) = 0 /\ Idle.heard = <<>>
      BY DEF Idle
    <2> QED BY <2>1, <2>2
            DEF BarrierIsLast, StaleAreTaken, CurrentIn, CurrentQueued, NonePending
  <1> QED BY <1>1, <1>2, <1>3, <1>4, <1>5, <1>6, <1>7, ClientEffect DEF SessionNext, SessionStep

\* Unless two exchanges were given up, the session holds no preview of an earlier
\* configuration: the exchange that ends an edit takes what one of them left behind.
THEOREM PreviewsAreCurrent == Spec => []PlansCurrent
  <1>1. Init => PreviewsCurrent
    <2> SUFFICES ASSUME Init PROVE PreviewsCurrent
      OBVIOUS
    <2>1. task = Idle /\ plans = {} /\ queue = <<>> /\ events = <<>>
      BY DEF Init, SessionInit
    <2>2. Len(<<>>) = 0 /\ Idle.heard = <<>>
      BY DEF Idle
    <2> QED BY <2>1, <2>2
            DEF PreviewsCurrent, BarrierIsLast, StaleAreTaken, CurrentIn, CurrentQueued, NonePending
  <1>2. SessionTypes /\ Shaped /\ PreviewsCurrent /\ [Next]_vars => PreviewsCurrent'
    BY CurrentInductive
  <1>3. PreviewsCurrent => PlansCurrent
    BY DEF PreviewsCurrent, StaleAreTaken, PlansCurrent
  <1> QED BY <1>1, <1>2, <1>3, TypesAlways, ShapedAlways, PTL DEF Spec
=============================================================================
