----------------------- MODULE RecoveryJournalProofs -----------------------
(***************************************************************************)
(* That the journal never loses a hidden window, for every set of windows   *)
(* and handles.  The inductive invariant is JournalInv of RecoveryJournal.   *)
(***************************************************************************)
EXTENDS RecoveryJournal, TLAPS

\* The manager's own discipline, without the interference that the runs on
\* rebinding, overlapping helpers and failing observations show to break it.
Undisturbed == ~Rebind /\ ~Overlap /\ ~Transient

USE DEF vars, native, worker, recovery

-----------------------------------------------------------------------------
(* Type correctness.                                                         *)

LEMMA TypeInit == ASSUME RecoveryAssumption, Init PROVE TypeOK
  <1>1. requests \in [Handles -> Seq(Request)]
    BY DEF Init
  <1>2. QED
    BY <1>1 DEF Init, TypeOK, Phases

LEMMA PostType ==
    ASSUME TypeOK, NEW h \in Handles, NEW r \in Request, Post(h, r) \/ Refuse(h)
    PROVE  requests' \in [Handles -> Seq(Request)]
  <1>1. CASE Post(h, r)
    <2>1. Append(requests[h], r) \in Seq(Request)
      BY DEF TypeOK
    <2>2. QED
      BY <1>1, <2>1 DEF TypeOK, Post
  <1>2. CASE Refuse(h)
    BY <1>2 DEF TypeOK, Refuse
  <1>3. QED
    BY <1>1, <1>2

LEMMA DeliverType ==
    ASSUME TypeOK, NEW h \in Handles, Deliver(h)
    PROVE  requests' \in [Handles -> Seq(Request)]
  <1>1. Tail(requests[h]) \in Seq(Request)
    BY DEF TypeOK, Deliver
  <1>2. QED
    BY <1>1 DEF TypeOK, Deliver

LEMMA KeepType ==
    ASSUME TypeOK, NEW p \in Process, NEW e \in Entry, Keep(p, e) \/ UNCHANGED keep
    PROVE  keep' \in [Process -> SUBSET Entry]
  <1>1. keep[p] \cup {e} \in SUBSET Entry
    BY DEF TypeOK
  <1>2. QED
    BY <1>1 DEF TypeOK, Keep

LEMMA TypeNext == ASSUME TypeOK, [Next]_vars PROVE TypeOK'
  <1> USE DEF TypeOK, Phases
  <1>1. CASE Start
    BY <1>1 DEF Start, Loaded
  <1>2. ASSUME NEW w \in Windows, NEW h \in Handles, Bind(w, h) PROVE TypeOK'
    BY <1>2 DEF Bind
  <1>3. ASSUME NEW plan \in SUBSET Mutation, Record(plan) PROVE TypeOK'
    <2>1. NewEntries(plan) \subseteq Entry
      BY DEF NewEntries, Mutation, Entry
    <2>2. QED
      BY <1>3, <2>1 DEF Record, Save
  <1>4. ASSUME NEW m \in Mutation, Submit(m) PROVE TypeOK'
    <2>1. requests' \in [Handles -> Seq(Request)]
      BY <1>4, PostType DEF Submit, Mutation, Request
    <2>2. QED
      BY <1>4, <2>1 DEF Submit
  <1>5. CASE Settled
    BY <1>5 DEF Settled, Write, Discard, Remembered
  <1>6. ASSUME NEW failed \in SUBSET Windows, Unsettled(failed) PROVE TypeOK'
    BY <1>6 DEF Unsettled, Load, Discard
  <1>7. CASE Abandoned
    BY <1>7 DEF Abandoned, Discard
  <1>8. CASE RecoverCommand \/ Shutdown
    BY <1>8 DEF RecoverCommand, Shutdown, RecoverAll, Load
  <1>9. CASE Recovered
    BY <1>9 DEF Recovered, Finish, Write, Process, Exit, ParentExit
  <1>10. CASE Crash
    BY <1>10 DEF Crash, Exit, ParentExit, Discard
  <1>11. CASE Watch \/ RecoverCli
    BY <1>11 DEF Watch, RecoverCli, Load
  <1>12. CASE HelperDone
    BY <1>12 DEF HelperDone, Finish, Write, Process
  <1>13. ASSUME NEW p \in Process, NEW e \in Entry, Reveal(p, e) PROVE TypeOK'
    <2>1. requests' \in [Handles -> Seq(Request)]
      BY <1>13, PostType DEF Reveal, Entry, Request
    <2>2. keep' \in [Process -> SUBSET Entry]
      BY <1>13, KeepType DEF Reveal
    <2>3. todo' \in [Process -> SUBSET Entry]
      BY <1>13 DEF Reveal, Visit
    <2>4. waiting' \in [Process -> SUBSET Entry]
      <3>1. {e} \in SUBSET Entry
        OBVIOUS
      <3>2. QED
        BY <1>13, <3>1 DEF Reveal
    <2>5. QED
      BY <1>13, <2>1, <2>2, <2>3, <2>4 DEF Reveal
  <1>14. ASSUME NEW p \in Process, NEW e \in Entry, Await(p, e) PROVE TypeOK'
    <2>1. keep' \in [Process -> SUBSET Entry]
      BY <1>14, KeepType DEF Await
    <2>2. QED
      BY <1>14, <2>1 DEF Await
  <1>15. ASSUME NEW p \in Process, NEW e \in Entry, Skip(p, e) PROVE TypeOK'
    BY <1>15 DEF Skip, Visit
  <1>16. ASSUME NEW h \in Handles, Deliver(h) PROVE TypeOK'
    <2>1. requests' \in [Handles -> Seq(Request)]
      BY <1>16, DeliverType
    <2>2. QED
      BY <1>16, <2>1 DEF Deliver
  <1>17. ASSUME NEW h \in Handles, Close(h) PROVE TypeOK'
    <2>1. <<>> \in Seq(Request)
      OBVIOUS
    <2>2. QED
      BY <1>17, <2>1 DEF Close
  <1>18. ASSUME NEW h \in Handles, Minimize(h) \/ Appear(h) \/ Vanish(h)
         PROVE  TypeOK'
    BY <1>18 DEF Minimize, Appear, Vanish
  <1>19. CASE UNCHANGED vars
    BY <1>19
  <1>20. QED
    BY <1>1, <1>2, <1>3, <1>4, <1>5, <1>6, <1>7, <1>8, <1>9, <1>10, <1>11,
       <1>12, <1>13, <1>14, <1>15, <1>16, <1>17, <1>18, <1>19
       DEF Next, Recovering, Applications

\* The state of the journal, the worker and the windows is always well-typed.
THEOREM JournalTypes == ASSUME RecoveryAssumption PROVE Spec => []TypeOK
  <1>1. Init => TypeOK
    BY TypeInit
  <1>2. TypeOK /\ [Next]_vars => TypeOK'
    BY TypeNext
  <1>3. QED
    BY <1>1, <1>2, PTL DEF Spec

-----------------------------------------------------------------------------
(* What a step does to the promises.                                         *)

NothingLost == OneRecovers /\ Covered /\ Attached

LEMMA InvInit == ASSUME RecoveryAssumption, Init PROVE NothingLost
  <1>1. \A h \in Handles : ~Promised(h)
    BY DEF Init, Promised, ManagerHidden
  <1>2. OneRecovers
    BY DEF Init, OneRecovers, Held, RecoveryPhases, Process
  <1>3. Covered
    BY <1>1 DEF Init, Covered, RecoveryAssumption
  <1>4. Attached
    BY DEF Init, Attached
  <1>5. QED
    BY <1>2, <1>3, <1>4 DEF NothingLost

\* Posting a request promises nothing but a hide.
LEMMA PostPromise ==
    ASSUME TypeOK, NEW h \in Handles, NEW r \in Request, NEW g \in Handles,
           Post(h, r) \/ Refuse(h),
           UNCHANGED <<alive, visible, minimized, hidden>>, Promised(g)'
    PROVE  Promised(g) \/ (g = h /\ r = "hide")
  <1>1. CASE requests'[g] = requests[g]
    BY <1>1 DEF Promised, ManagerHidden
  <1>2. CASE g = h /\ requests'[h] = Append(requests[h], r)
    <2>1. ASSUME NEW i \in 1..Len(requests'[h]), requests'[h][i] = "hide"
          PROVE  (i \in 1..Len(requests[h]) /\ requests[h][i] = "hide") \/ r = "hide"
      BY <1>2, <2>1 DEF TypeOK
    <2>2. QED
      BY <1>2, <2>1 DEF Promised, ManagerHidden
  <1>3. QED
    BY <1>1, <1>2 DEF Post, Refuse, TypeOK

\* Carrying out a request fulfils a promise and makes none.
LEMMA DeliverPromise ==
    ASSUME TypeOK, NEW h \in Handles, NEW g \in Handles, Deliver(h), Promised(g)'
    PROVE  Promised(g)
  <1>1. CASE g # h
    BY <1>1 DEF Promised, ManagerHidden, Deliver, TypeOK
  <1>2. CASE g = h
    <2>1. requests[h] \in Seq(Request) /\ requests[h] # <<>>
      BY DEF TypeOK, Deliver
    <2>2. requests'[h] = Tail(requests[h]) /\ alive[h]
      BY DEF TypeOK, Deliver
    <2>3. CASE Head(requests[h]) = "hide"
      <3>1. 1 \in 1..Len(requests[h]) /\ requests[h][1] = "hide"
        BY <2>1, <2>3
      <3>2. QED
        BY <1>2, <2>2, <3>1 DEF Promised
    <2>4. CASE Head(requests[h]) # "hide"
      <3>1. ~hidden'[h]
        BY <2>4 DEF Deliver, TypeOK
      <3>2. PICK i \in 1..Len(requests'[h]) : requests'[h][i] = "hide"
        BY <1>2, <3>1 DEF Promised, ManagerHidden
      <3>3. i + 1 \in 1..Len(requests[h]) /\ requests[h][i + 1] = "hide"
        BY <2>1, <2>2, <3>2
      <3>4. QED
        BY <1>2, <2>2, <3>3 DEF Promised
    <2>5. QED
      BY <2>3, <2>4
  <1>3. QED
    BY <1>1, <1>2

\* A prompt window that a manager looks at is promised only if it is hidden.
LEMMA LookedAt ==
    ASSUME NEW h \in Prompt, LookAt(h), Promised(h)
    PROVE  ManagerHidden(h)
  BY DEF LookAt, Promised

LEMMA SamePromises ==
    ASSUME UNCHANGED native, NEW h \in Handles PROVE Promised(h)' <=> Promised(h)
  BY DEF Promised, ManagerHidden

\* A step of the applications that makes no promise keeps the invariant.
LEMMA NativeStep ==
    ASSUME RecoveryAssumption, TypeOK, NothingLost,
           UNCHANGED <<worker, recovery, disk, due>>,
           \A h \in Handles : alive'[h] => alive[h],
           \A h \in Handles : hidden'[h] => ~visible'[h],
           \A h \in Handles : Promised(h)' => Promised(h)
    PROVE  NothingLost'
  <1>1. OneRecovers'
    BY DEF NothingLost, OneRecovers, Held
  <1>2. Covered'
    BY DEF NothingLost, Covered, Named, Journaled, Held, RecoveryAssumption
  <1>3. Attached'
    BY DEF NothingLost, Attached, Observed, TypeOK, Entry
  <1>4. QED
    BY <1>1, <1>2, <1>3 DEF NothingLost

-----------------------------------------------------------------------------
(* The applications' steps.                                                  *)

LEMMA ApplicationsKeep ==
    ASSUME RecoveryAssumption, TypeOK, NothingLost, Applications
    PROVE  NothingLost'
  <1> SUFFICES ASSUME NEW h \in Handles,
                      Deliver(h) \/ Minimize(h) \/ Appear(h) \/ Vanish(h) \/ Close(h)
               PROVE  NothingLost'
    BY DEF Applications
  <1>0. \A g \in Handles : hidden[g] => ~visible[g]
    BY DEF NothingLost, Covered
  <1>1. CASE Deliver(h)
    <2>1. \A g \in Handles : Promised(g)' => Promised(g)
      BY <1>1, DeliverPromise
    <2>2. \A g \in Handles : hidden'[g] => ~visible'[g]
      BY <1>0, <1>1 DEF Deliver, TypeOK
    <2>3. \A g \in Handles : alive'[g] => alive[g]
      BY <1>1 DEF Deliver
    <2>4. QED
      BY <1>1, <2>1, <2>2, <2>3, NativeStep DEF Deliver
  <1>2. CASE Minimize(h)
    <2>1. \A g \in Handles : Promised(g)' => Promised(g)
      BY <1>2 DEF Minimize, TypeOK, Promised, ManagerHidden
    <2>2. QED
      BY <1>0, <1>2, <2>1, NativeStep DEF Minimize
  <1>3. CASE Appear(h)
    <2>1. \A g \in Handles : Promised(g)' => Promised(g)
      BY <1>3 DEF Appear, TypeOK, Promised, ManagerHidden
    <2>2. \A g \in Handles : hidden'[g] => ~visible'[g]
      BY <1>0, <1>3 DEF Appear, TypeOK
    <2>3. QED
      BY <1>3, <2>1, <2>2, NativeStep DEF Appear
  <1>4. CASE Vanish(h)
    <2>1. \A g \in Handles : Promised(g)' => Promised(g)
      BY <1>0, <1>4 DEF Vanish, TypeOK, Promised, ManagerHidden
    <2>2. \A g \in Handles : hidden'[g] => ~visible'[g]
      BY <1>0, <1>4 DEF Vanish, TypeOK
    <2>3. QED
      BY <1>4, <2>1, <2>2, NativeStep DEF Vanish
  <1>5. CASE Close(h)
    <2>1. \A g \in Handles : alive'[g] => alive[g]
      BY <1>5 DEF Close, TypeOK
    <2>2. \A g \in Handles : g # h => (requests'[g] = requests[g])
      BY <1>5 DEF Close, TypeOK
    <2>3. ~alive'[h]
      BY <1>5 DEF Close, TypeOK
    <2>4. \A g \in Handles : Promised(g)' => Promised(g)
      BY <1>5, <2>1, <2>2, <2>3 DEF Close, Promised, ManagerHidden
    <2>5. QED
      BY <1>0, <1>5, <2>1, <2>4, NativeStep DEF Close
  <1>6. QED
    BY <1>1, <1>2, <1>3, <1>4, <1>5

-----------------------------------------------------------------------------
(* A recovery's steps.                                                       *)

\* What stays the same while a recovery visits its entries.
LEMMA RecoveringFrame ==
    ASSUME RecoveryAssumption, TypeOK, NothingLost,
           UNCHANGED <<alive, visible, minimized, hidden, worker, active, disk, due>>,
           NEW p \in Process,
           \A q \in Process : Held(q)' \subseteq Held(q),
           \A h \in Prompt : Promised(h)' =>
              Promised(h) /\ \A q \in Process :
                active[q] /\ Journaled(Held(q), h) => Journaled(Held(q), h)',
           \A m \in unsent, q \in Process : m.to = "hide" => ~active[q]
    PROVE  NothingLost'
  <1>1. OneRecovers'
    BY DEF NothingLost, OneRecovers
  <1>2. Covered'
    <2>1. \A h \in Prompt : Promised(h)' => Named(h)'
      BY DEF NothingLost, Covered, Named, Journaled
    <2>2. \A m \in unsent : m.to = "hide" => Named(m.handle)'
      BY DEF NothingLost, Covered, Named, Journaled
    <2>3. QED
      BY <2>1, <2>2 DEF NothingLost, Covered
  <1>3. Attached'
    BY DEF NothingLost, Attached, Observed
  <1>4. QED
    BY <1>1, <1>2, <1>3 DEF NothingLost

LEMMA RecoveringKeeps ==
    ASSUME RecoveryAssumption, Undisturbed, TypeOK, NothingLost,
           NEW p \in Process, Recovering(p)
    PROVE  NothingLost'
  <1> PICK e \in Entry : Reveal(p, e) \/ Await(p, e) \/ Skip(p, e)
    BY DEF Recovering
  <1>0. active[p] /\ unsent = {}
    <2>1. Held(p) # {}
      BY DEF Reveal, Await, Skip, Visit, Held
    <2>2. active[p]
      BY <2>1 DEF NothingLost, OneRecovers
    <2>3. QED
      BY <2>2 DEF NothingLost, OneRecovers, Covered, RecoveryPhases, Process
  <1>a. e.handle \in Handles
    BY DEF Entry
  <1>1. CASE Reveal(p, e)
    <2>1. \A q \in Process : Held(q)' = Held(q)
      BY <1>1 DEF Reveal, Visit, Keep, Held, TypeOK
    <2>2. ASSUME NEW h \in Prompt, Promised(h)' PROVE Promised(h)
      BY <1>1, <1>a, <2>2, PostPromise DEF Reveal, RecoveryAssumption, Request
    <2>3. QED
      BY <1>0, <1>1, <2>1, <2>2, RecoveringFrame DEF Reveal, Journaled
  <1>2. CASE Await(p, e)
    <2>1. \A q \in Process : Held(q)' \subseteq Held(q)
      BY <1>2 DEF Await, Keep, Held, TypeOK
    <2>2. ASSUME NEW h \in Prompt, Promised(h)',
                 NEW q \in Process, Journaled(Held(q), h)
          PROVE  Journaled(Held(q), h)'
      <3>1. Promised(h)
        BY <1>2, <2>2, SamePromises DEF Await, RecoveryAssumption
      <3>2. CASE h = e.handle
        <4>1. ManagerHidden(h)
          BY <1>2, <3>1, <3>2, LookedAt DEF Await
        <4>2. Held(q)' = Held(q)
          BY <1>2, <3>2, <4>1 DEF Await, Keep, Held, TypeOK, ManagerHidden
        <4>3. QED
          BY <2>2, <4>2 DEF Journaled
      <3>3. CASE h # e.handle
        <4>1. Held(q) \subseteq Held(q)' \cup {e}
          BY <1>2 DEF Await, Keep, Held, TypeOK
        <4>2. QED
          BY <2>2, <3>3, <4>1 DEF Journaled
      <3>4. QED
        BY <3>2, <3>3
    <2>3. \A h \in Prompt : Promised(h)' => Promised(h)
      BY <1>2, SamePromises DEF Await, RecoveryAssumption
    <2>4. QED
      BY <1>0, <1>2, <2>1, <2>2, <2>3, RecoveringFrame DEF Await
  <1>3. CASE Skip(p, e)
    <2>1. \A q \in Process : Held(q)' \subseteq Held(q)
      BY <1>3 DEF Skip, Visit, Held, TypeOK
    <2>2. ASSUME NEW h \in Prompt, Promised(h)',
                 NEW q \in Process, Journaled(Held(q), h)
          PROVE  Journaled(Held(q), h)'
      <3>1. Promised(h)
        BY <1>3, <2>2, SamePromises DEF Skip, RecoveryAssumption
      <3>2. h # e.handle
        BY <1>3, <3>1, LookedAt
           DEF Skip, Visit, Revealable, ManagerHidden, Undisturbed
      <3>3. Held(q) \subseteq Held(q)' \cup {e}
        BY <1>3 DEF Skip, Visit, Held, TypeOK
      <3>4. QED
        BY <2>2, <3>2, <3>3 DEF Journaled
    <2>3. \A h \in Prompt : Promised(h)' => Promised(h)
      BY <1>3, SamePromises DEF Skip, RecoveryAssumption
    <2>4. QED
      BY <1>0, <1>3, <2>1, <2>2, <2>3, RecoveringFrame DEF Skip
  <1>4. QED
    BY <1>1, <1>2, <1>3

-----------------------------------------------------------------------------
(* The steps of the worker and of the helpers.                               *)

\* A recovery begins by holding the whole file.
LEMMA LoadKeeps ==
    ASSUME RecoveryAssumption, TypeOK, NothingLost,
           NEW p \in Process, NEW selected, Load(p, selected), ~active[p],
           UNCHANGED <<native, binding, memory, disk>>,
           unsent' = {},
           phase' = "down" <=> phase = "down",
           active'["worker"] <=> phase' \in RecoveryPhases,
           due' \/ active'["helper"] => phase' = "down"
    PROVE  NothingLost'
  <1>1. \A q \in Process : Held(q)' = IF q = p THEN disk ELSE Held(q)
    BY DEF NothingLost, OneRecovers, Held, Load, TypeOK
  <1>2. \A q \in Process : active'[q] = (q = p \/ active[q])
    BY DEF Load, TypeOK
  <1>3. OneRecovers'
    BY <1>1, <1>2 DEF NothingLost, OneRecovers
  <1>4. Covered'
    <2>1. ASSUME NEW h \in Prompt, Promised(h)' PROVE Named(h)'
      <3>1. Named(h)
        BY <2>1, SamePromises DEF NothingLost, Covered, RecoveryAssumption
      <3>2. \A q \in Process : active'[q] => Journaled(Held(q)', h)
        BY <1>1, <1>2, <3>1 DEF Named
      <3>3. QED
        BY <3>1, <3>2 DEF Named, Journaled
    <2>2. QED
      BY <2>1 DEF NothingLost, Covered
  <1>5. Attached'
    BY DEF NothingLost, Attached, Observed
  <1>6. QED
    BY <1>3, <1>4, <1>5 DEF NothingLost

\* A recovery ends by writing what it holds, or by failing to.
LEMMA FinishKeeps ==
    ASSUME RecoveryAssumption, TypeOK, NothingLost,
           NEW p \in Process, Finish(p), UNCHANGED <<native, unsent>>,
           \A q \in Process : active[q] => q = p,
           unsent = {},
           \/ phase' = "down" /\ memory' = {}
           \/ /\ phase' = "idle" /\ phase # "down" /\ binding' = binding
              /\ memory' \in {disk', memory} /\ ~due'
    PROVE  NothingLost'
  <1>1. \A q \in Process : active'[q] = FALSE
    BY DEF Finish, TypeOK
  <1>2. \A q \in Process : Held(q)' = {}
    BY DEF Finish, Visited, Held, NothingLost, OneRecovers, TypeOK
  <1>3. active[p] /\ keep[p] = Held(p) /\ keep[p] \subseteq disk
    BY DEF Finish, Visited, Held, NothingLost, OneRecovers
  <1>4. disk' \in {disk, keep[p]}
    BY DEF Finish, Write
  <1>5. OneRecovers'
    BY <1>1, <1>2 DEF OneRecovers, Process, RecoveryPhases
  <1>6. Covered'
    <2>1. ASSUME NEW h \in Prompt, Promised(h)' PROVE Named(h)'
      <3>1. Named(h)
        BY <2>1, SamePromises DEF NothingLost, Covered, RecoveryAssumption
      <3>2. Journaled(disk', h)
        BY <1>3, <1>4, <3>1 DEF Named, Journaled
      <3>3. phase' # "down" => Journaled(memory', h)
        BY <3>1, <3>2 DEF Named, Journaled
      <3>4. QED
        BY <1>1, <3>2, <3>3 DEF Named, Journaled
    <2>2. QED
      BY <2>1 DEF NothingLost, Covered
  <1>7. Attached'
    <2>1. memory' \cup disk' \subseteq memory \cup disk
      BY <1>3, <1>4
    <2>2. QED
      BY <2>1 DEF NothingLost, Attached, Observed
  <1>8. QED
    BY <1>5, <1>6, <1>7 DEF NothingLost

LEMMA StartKeeps ==
    ASSUME RecoveryAssumption, Undisturbed, TypeOK, NothingLost, Start
    PROVE  NothingLost'
  <1>1. memory' = disk /\ disk' = disk /\ memory = {} /\ ~due /\ ~active["helper"]
    BY DEF Start, Loaded, Undisturbed, NothingLost, Attached
  <1>2. OneRecovers'
    BY <1>1 DEF Start, NothingLost, OneRecovers, RecoveryPhases, Held
  <1>3. Covered'
    <2>1. \A h \in Prompt : Promised(h)' => Named(h)'
      BY <1>1, SamePromises
         DEF Start, NothingLost, Covered, Named, Journaled, Held, RecoveryAssumption
    <2>2. QED
      BY <1>1, <2>1 DEF Start, NothingLost, Covered
  <1>4. Attached'
    <2>1. ASSUME NEW e \in disk, Observed(e.window)', alive[e.handle]
          PROVE  binding'[e.window] = e.handle
      <3>1. e.window \in Windows
        BY DEF TypeOK, Entry
      <3>2. Resumes(binding', e.window)
        BY <3>1 DEF Start
      <3>3. PICK f \in disk : f.window = e.window /\ f.handle = binding'[e.window]
        BY <3>2 DEF Resumes
      <3>4. alive[f.handle]
        BY <2>1, <3>3 DEF Observed, Start
      <3>5. QED
        BY <2>1, <3>3, <3>4 DEF NothingLost, Attached
    <2>2. QED
      BY <1>1, <2>1 DEF Start, NothingLost, Attached
  <1>5. QED
    BY <1>2, <1>3, <1>4 DEF NothingLost

LEMMA BindKeeps ==
    ASSUME RecoveryAssumption, Undisturbed, TypeOK, NothingLost,
           NEW w \in Windows, NEW h \in Handles, Bind(w, h)
    PROVE  NothingLost'
  <1>1. OneRecovers'
    BY DEF Bind, NothingLost, OneRecovers, Held
  <1>2. Covered'
    <2>1. \A g \in Prompt : Promised(g)' => Named(g)'
      BY SamePromises
         DEF Bind, NothingLost, Covered, Named, Journaled, Held, RecoveryAssumption
    <2>2. QED
      BY <2>1 DEF Bind, NothingLost, Covered
  <1>3. Attached'
    BY DEF Bind, NothingLost, Attached, Observed, Undisturbed, TypeOK, Entry
  <1>4. QED
    BY <1>1, <1>2, <1>3 DEF NothingLost

LEMMA RecordKeeps ==
    ASSUME RecoveryAssumption, TypeOK, NothingLost,
           NEW plan \in SUBSET Mutation, Record(plan)
    PROVE  NothingLost'
  <1>1. /\ memory' = memory \cup NewEntries(plan) /\ disk' = memory'
        /\ phase = "idle" /\ phase' \in {"submitting", "settling"}
    BY DEF Record, Save
  <1>2. \A p \in Process : ~active[p] /\ ~active'[p]
    BY <1>1 DEF Record, NothingLost, OneRecovers, RecoveryPhases, Process
  <1>3. OneRecovers'
    BY <1>1, <1>2 DEF Record, NothingLost, OneRecovers, RecoveryPhases, Held, Process
  <1>4. Covered'
    <2>1. \A h \in Prompt : Promised(h)' => Named(h)'
      BY <1>1, <1>2, SamePromises
         DEF Record, NothingLost, Covered, Named, Journaled, RecoveryAssumption
    <2>2. ASSUME NEW m \in plan, m.to = "hide" PROVE Named(m.handle)'
      <3>1. Journaled(memory', m.handle)
        <4>1. CASE Journaled(memory, m.handle)
          BY <1>1, <4>1 DEF Journaled
        <4>2. CASE ~Journaled(memory, m.handle)
          <5>1. [window |-> m.window, handle |-> m.handle] \in NewEntries(plan)
            BY <2>2, <4>2 DEF NewEntries
          <5>2. QED
            BY <1>1, <5>1 DEF Journaled
        <4>3. QED
          BY <4>1, <4>2
      <3>2. QED
        BY <1>1, <1>2, <3>1 DEF Named, Journaled
    <2>3. unsent' = plan /\ (unsent' # {} => phase' = "submitting")
      BY DEF Record
    <2>4. QED
      BY <2>1, <2>2, <2>3 DEF Record, NothingLost, Covered
  <1>5. Attached'
    <2>1. \A e \in NewEntries(plan) :
             alive[e.handle] /\ binding[e.window] = e.handle /\ Observed(e.window)
      BY DEF Record, NewEntries, Plannable, Observed, RecoveryAssumption, Mutation
    <2>2. QED
      BY <1>1, <2>1 DEF Record, NothingLost, Attached, Observed
  <1>6. QED
    BY <1>3, <1>4, <1>5 DEF NothingLost

LEMMA SubmitKeeps ==
    ASSUME RecoveryAssumption, TypeOK, NothingLost,
           NEW m \in Mutation, Submit(m)
    PROVE  NothingLost'
  <1>1. m \in unsent /\ phase = "submitting" /\ unsent' \subseteq unsent
    BY DEF Submit
  <1>2. \A p \in Process : ~active[p]
    BY <1>1 DEF NothingLost, OneRecovers, RecoveryPhases, Process
  <1>3. \A h \in Handles : Promised(h)' => Promised(h) \/ Named(h)
    <2>1. CASE m.to = "move" /\ UNCHANGED requests
      BY <2>1, SamePromises DEF Submit
    <2>2. CASE Post(m.handle, m.to) /\ m.to \in Request
      <3>1. m.handle \in Handles
        BY DEF Mutation
      <3>2. m.to = "hide" => Named(m.handle)
        BY <1>1 DEF NothingLost, Covered
      <3>3. QED
        BY <2>2, <3>1, <3>2, PostPromise DEF Submit
    <2>3. CASE UNCHANGED requests
      BY <2>3, SamePromises DEF Submit
    <2>4. QED
      BY <2>1, <2>2, <2>3 DEF Submit, Refuse, Mutation, Request
  <1>4. OneRecovers'
    BY <1>1 DEF Submit, NothingLost, OneRecovers, RecoveryPhases, Held
  <1>5. phase' # "down" /\ UNCHANGED <<memory, disk, recovery>>
    BY DEF Submit
  <1>6. \A h : Named(h) => Named(h)'
    BY <1>1, <1>2, <1>5 DEF Named, Journaled
  <1>7. Covered'
    <2>1. \A h \in Prompt : Promised(h)' => Named(h)'
      BY <1>3, <1>6 DEF NothingLost, Covered, RecoveryAssumption
    <2>2. \A n \in unsent' : n.to = "hide" => Named(n.handle)'
      BY <1>1, <1>6 DEF NothingLost, Covered
    <2>3. QED
      BY <2>1, <2>2 DEF Submit, NothingLost, Covered
  <1>8. Attached'
    BY <1>1, <1>5 DEF Submit, NothingLost, Attached, Observed
  <1>9. QED
    BY <1>4, <1>7, <1>8 DEF NothingLost

LEMMA SettledKeeps ==
    ASSUME RecoveryAssumption, TypeOK, NothingLost, Settled
    PROVE  NothingLost'
  <1>1. /\ memory' = Remembered /\ disk' \in {memory', disk}
        /\ phase = "settling" /\ phase' = "idle" /\ unsent' = {}
    BY DEF Settled, Write, Discard
  <1>2. \A p \in Process : ~active[p] /\ ~active'[p]
    BY <1>1 DEF Settled, NothingLost, OneRecovers, RecoveryPhases, Process
  <1>3. OneRecovers'
    BY <1>1, <1>2 DEF Settled, NothingLost, OneRecovers, RecoveryPhases, Held, Process
  <1>4. Covered'
    <2>1. ASSUME NEW h \in Prompt, Promised(h)' PROVE Named(h)'
      <3>1. Promised(h) /\ Named(h)
        BY <2>1, SamePromises DEF Settled, NothingLost, Covered, RecoveryAssumption
      <3>2. PICK e \in memory : e.handle = h
        BY <1>1, <3>1 DEF Named, Journaled
      <3>3. ASSUME Observed(e.window) PROVE ~visible[binding[e.window]]
        <4>1. alive[h]
          BY <3>1 DEF Promised, ManagerHidden
        <4>2. binding[e.window] = h
          BY <1>1, <3>2, <3>3, <4>1 DEF NothingLost, Attached
        <4>3. LookAt(h)
          BY <3>2, <3>3, <4>2 DEF Settled, TypeOK, Entry
        <4>4. QED
          BY <3>1, <4>2, <4>3, LookedAt DEF ManagerHidden
      <3>4. Journaled(memory', h)
        BY <1>1, <3>2, <3>3 DEF Remembered, Journaled
      <3>5. QED
        BY <1>1, <1>2, <3>1, <3>4 DEF Named, Journaled
    <2>2. QED
      BY <1>1, <2>1 DEF Settled, NothingLost, Covered
  <1>5. Attached'
    <2>1. memory' \cup disk' \subseteq memory \cup disk
      BY <1>1 DEF Remembered
    <2>2. QED
      BY <1>1, <2>1 DEF Settled, NothingLost, Attached, Observed
  <1>6. QED
    BY <1>3, <1>4, <1>5 DEF NothingLost

LEMMA CrashKeeps ==
    ASSUME RecoveryAssumption, TypeOK, NothingLost, Crash
    PROVE  NothingLost'
  <1>1. phase # "down" /\ phase' = "down" /\ memory' = {} /\ unsent' = {} /\ disk' = disk
    BY DEF Crash, Exit, Discard
  <1>2. \A p \in Process : ~active'[p] /\ Held(p)' = {}
    BY <1>1 DEF Crash, NothingLost, OneRecovers, Process, Held, TypeOK
  <1>3. OneRecovers'
    BY <1>1, <1>2 DEF OneRecovers, RecoveryPhases, Process
  <1>4. Covered'
    <2>1. \A h \in Prompt : Promised(h)' => Named(h)'
      BY <1>1, <1>2, SamePromises
         DEF Crash, NothingLost, Covered, Named, Journaled, RecoveryAssumption
    <2>2. QED
      BY <1>1, <2>1 DEF Crash, NothingLost, Covered
  <1>5. Attached'
    BY <1>1 DEF Crash, NothingLost, Attached
  <1>6. QED
    BY <1>3, <1>4, <1>5 DEF NothingLost

LEMMA WorkerRecoveryKeeps ==
    ASSUME RecoveryAssumption, TypeOK, NothingLost,
           \/ \E failed \in SUBSET Windows : Unsettled(failed)
           \/ RecoverCommand
           \/ Shutdown
    PROVE  NothingLost'
  <1>1. PICK selected \in SUBSET Windows :
          /\ Load("worker", selected) /\ ~active["worker"] /\ ~due
          /\ ~active["helper"]
          /\ phase # "down" /\ phase' \in RecoveryPhases /\ unsent' = {}
          /\ UNCHANGED <<native, binding, memory, disk, due>>
    <2>1. CASE \E failed \in SUBSET Windows : Unsettled(failed)
      BY <2>1 DEF Unsettled, Discard, NothingLost, OneRecovers, RecoveryPhases
    <2>2. CASE RecoverCommand \/ Shutdown
      BY <2>2 DEF RecoverCommand, Shutdown, RecoverAll, NothingLost, OneRecovers,
                  Covered, RecoveryPhases
    <2>3. QED
      BY <2>1, <2>2
  <1>2. active'["worker"] /\ ~active'["helper"]
    BY <1>1 DEF Load, TypeOK, Process
  <1>3. phase' # "down"
    BY <1>1 DEF RecoveryPhases
  <1>4. QED
    BY <1>1, <1>2, <1>3, LoadKeeps DEF Process

LEMMA RecoveredKeeps ==
    ASSUME RecoveryAssumption, TypeOK, NothingLost, Recovered
    PROVE  NothingLost'
  <1>1. Finish("worker") /\ active["worker"] /\ phase # "down" /\ ~due
        /\ ~active["helper"] /\ unsent = {}
    BY DEF Recovered, Finish, Visited, NothingLost, OneRecovers, Covered, RecoveryPhases
  <1>2. \/ phase' = "down" /\ memory' = {}
        \/ /\ phase' = "idle" /\ phase # "down" /\ binding' = binding
           /\ memory' \in {disk', memory} /\ ~due'
    BY <1>1 DEF Recovered, Exit
  <1>3. UNCHANGED <<native, unsent>>
    BY DEF Recovered
  <1>4. QED
    BY <1>1, <1>2, <1>3, FinishKeeps DEF Process

LEMMA HelperKeeps ==
    ASSUME RecoveryAssumption, Undisturbed, TypeOK, NothingLost,
           Watch \/ RecoverCli \/ HelperDone
    PROVE  NothingLost'
  <1>1. phase = "down" /\ phase' = "down" /\ memory = {} /\ memory' = {}
        /\ ~active["worker"] /\ unsent = {} /\ unsent' = {}
    BY DEF Watch, RecoverCli, HelperDone, Undisturbed, NothingLost, OneRecovers,
           Covered, Attached, RecoveryPhases, Finish, Visited
  <1>2. CASE Watch \/ RecoverCli
    <2>1. Load("helper", Windows) /\ ~active["helper"]
          /\ UNCHANGED <<native, binding, memory, disk>>
      BY <1>2 DEF Watch, RecoverCli
    <2>2. ~active'["worker"]
      BY <1>1, <2>1 DEF Load, TypeOK, Process
    <2>3. QED
      BY <1>1, <2>1, <2>2, LoadKeeps DEF Process, RecoveryPhases
  <1>3. CASE HelperDone
    BY <1>1, <1>3, FinishKeeps DEF HelperDone, Process
  <1>4. QED
    BY <1>2, <1>3

LEMMA AbandonedKeeps ==
    ASSUME RecoveryAssumption, TypeOK, NothingLost, Abandoned
    PROVE  NothingLost'
  <1>1. OneRecovers'
    BY DEF Abandoned, NothingLost, OneRecovers, RecoveryPhases, Held
  <1>2. Covered'
    <2>1. \A h \in Prompt : Promised(h)' => Named(h)'
      BY SamePromises
         DEF Abandoned, NothingLost, Covered, Named, Journaled, Held, RecoveryAssumption
    <2>2. QED
      BY <2>1 DEF Abandoned, Discard, NothingLost, Covered
  <1>3. Attached'
    BY DEF Abandoned, NothingLost, Attached, Observed
  <1>4. QED
    BY <1>1, <1>2, <1>3 DEF NothingLost

LEMMA StutterKeeps == ASSUME NothingLost, UNCHANGED vars PROVE NothingLost'
  BY DEF NothingLost, OneRecovers, Covered, Attached, Named, Journaled, Held,
         Promised, ManagerHidden, Observed

-----------------------------------------------------------------------------
(* The invariant and what it says.                                           *)

\* The journal's invariant holds in every reachable state: nobody recovers
\* beside a running manager, every hidden or promised prompt window is named
\* wherever a later save or recovery looks, and a journaled live window is the
\* one its reference is bound to.
THEOREM JournalSafe ==
    ASSUME RecoveryAssumption, Undisturbed PROVE Spec => []JournalInv
  <1>1. Init => TypeOK /\ NothingLost
    BY TypeInit, InvInit
  <1>2. TypeOK /\ NothingLost /\ [Next]_vars => TypeOK' /\ NothingLost'
    <2> SUFFICES ASSUME TypeOK, NothingLost, [Next]_vars PROVE TypeOK' /\ NothingLost'
      OBVIOUS
    <2>1. TypeOK'
      BY TypeNext
    <2>2. NothingLost'
      <3>1. CASE Next
        BY <3>1, StartKeeps, BindKeeps, RecordKeeps, SubmitKeeps, SettledKeeps,
           WorkerRecoveryKeeps, RecoveredKeeps, AbandonedKeeps, CrashKeeps,
           HelperKeeps, RecoveringKeeps, ApplicationsKeep
           DEF Next
      <3>2. CASE UNCHANGED vars
        BY <3>2, StutterKeeps
      <3>3. QED
        BY <3>1, <3>2
    <2>3. QED
      BY <2>1, <2>2
  <1>3. TypeOK /\ NothingLost => JournalInv
    BY DEF JournalInv, NothingLost
  <1>4. QED
    BY <1>1, <1>2, <1>3, PTL DEF Spec

\* Whatever crashes, every prompt window the manager has hidden is in the
\* journal file, where a watchdog or `--recover` started now would find it.
THEOREM HiddenIsSafe ==
    ASSUME RecoveryAssumption, Undisturbed PROVE Spec => []HiddenIsJournaled
  <1>1. JournalInv => HiddenIsJournaled
    BY DEF JournalInv, Covered, Named, HiddenIsJournaled, Promised
  <1>2. QED
    BY <1>1, JournalSafe, PTL

\* An idle manager's next save, which overwrites the file, still names every
\* prompt window it has hidden.
THEOREM MemoryIsSafe ==
    ASSUME RecoveryAssumption, Undisturbed PROVE Spec => []MemoryKeepsHidden
  <1>1. JournalInv => MemoryKeepsHidden
    BY DEF JournalInv, Covered, Named, MemoryKeepsHidden, Promised
  <1>2. QED
    BY <1>1, JournalSafe, PTL
=============================================================================
