---------------------------- MODULE GatewayProofs ----------------------------
(***************************************************************************)
(* Proofs about Gateway for any set of clients, any limits, any places the *)
(* guard may listen at, with an engine that fails or not.                  *)
(***************************************************************************)
EXTENDS GatewayInv, FiniteSetTheorems, SequenceFacts

-----------------------------------------------------------------------------
USE IntakeAssumption, LoopAssumption

(* One slot is counted for each holding connection.                        *)
LEMMA SlotsKept ==
  ASSUME IntakeTypeOK, SlotInv, NEW d \in Connection,
         NEW to \in Stage, session' = [session EXCEPT ![d] = to]
  PROVE  /\ IsFiniteSet(Holding)
         /\ session[d] \notin {"none", "backlog", "refused", "ended"}
              /\ to = "ended"
            => Cardinality(Holding') = slots - 1 /\ slots > 0
         /\ session[d] \in {"none", "backlog"} /\ to = "control"
            => Cardinality(Holding') = slots + 1
         /\ (session[d] \in {"none", "backlog", "refused", "ended"}
              <=> to \in {"none", "backlog", "refused", "ended"})
            => Cardinality(Holding') = slots
  <1> DEFINE idle == {"none", "backlog", "refused", "ended"}
  <1>1. IsFiniteSet(Connection)
    BY FS_AddElement, FS_Singleton, FS_Union DEF Connection
  <1>2. IsFiniteSet(Holding)
    BY <1>1, FS_Subset DEF Holding, Served
  <1>3. /\ Holding = { e \in Connection : session[e] \notin idle }
        /\ Holding' = { e \in Connection : session'[e] \notin idle }
    <2>1. \A e \in Connection : session[e] \in Stage /\ session'[e] \in Stage
      BY DEF IntakeTypeOK
    <2>2. \A x \in Stage : x \notin idle <=>
             x \in {"control", "abandoned", "reading", "store", "closing",
                    "leaked"}
      BY DEF Stage
    <2>3. \A x : x \in {"control", "abandoned", "reading", "store", "closing",
                    "leaked"}
              <=> x \in {"control", "abandoned", "reading", "store", "closing"} \/ x = "leaked"
      OBVIOUS
    <2> HIDE DEF idle
    <2> QED
      BY <2>1, <2>2, <2>3 DEF Holding, Served
  <1>4. \A e \in Connection : session'[e] = IF e = d THEN to ELSE session[e]
    BY DEF IntakeTypeOK
  <1>5. ASSUME session[d] \notin idle, to = "ended"
        PROVE  Cardinality(Holding') = slots - 1 /\ slots > 0
    <2>1. Holding' = Holding \ {d} /\ d \in Holding
      BY <1>3, <1>4, <1>5
    <2>2. Cardinality(Holding) # 0 /\ Cardinality(Holding) \in Nat
      BY <1>2, <2>1, FS_EmptySet, FS_CardinalityType
    <2>3. Cardinality(Holding') = Cardinality(Holding) - 1
      BY <1>2, <2>1, FS_RemoveElement
    <2>4. slots = Cardinality(Holding)
      BY DEF SlotInv
    <2>5. Cardinality(Holding') = slots - 1 /\ slots > 0
      BY <2>2, <2>3, <2>4
    <2> QED
      BY <2>5
  <1>6. ASSUME session[d] \in {"none", "backlog"}, to = "control"
        PROVE  Cardinality(Holding') = slots + 1
    <2>1. Holding' = Holding \cup {d} /\ d \notin Holding
      BY <1>3, <1>4, <1>6
    <2> QED
      BY <1>2, <1>6, <2>1, FS_AddElement DEF SlotInv
  <1>7. ASSUME session[d] \in idle <=> to \in idle
        PROVE  Cardinality(Holding') = slots
    <2>1. Holding' = Holding
      BY <1>3, <1>4, <1>7
    <2> QED
      BY <1>2, <1>7, <2>1 DEF SlotInv
  <1> QED
    BY <1>2, <1>5, <1>6, <1>7

LEMMA InitSafe == Init => SafeInv
  <1> SUFFICES ASSUME Init PROVE SafeInv
    OBVIOUS
  <1> USE DEF Init, IntakeInit, LoopInit
  <1>1. TypeOK
    <2>1. txt \in [Client -> BOOLEAN]
      BY Zenon
    <2>2. tasks \in Seq(Client) /\ Len(tasks) <= MAX_TASKS
      OBVIOUS
    <2>3. IntakeTypeOK
      BY <2>1, <2>2 DEF IntakeTypeOK, Stage
    <2>4. job \in [Client -> {"none", "queued", "done", "failed", "threw"}]
      OBVIOUS
    <2>5. loop \in {"head"} /\ it \in Nat \ {0} /\ moves \in 0..MAX_MOVES
      OBVIOUS
    <2>6. held \in Seq(Client) /\ futures \in Seq(Client)
      OBVIOUS
    <2>7. sent \in Seq([payload : Client, verdict : Client, file : BOOLEAN,
                        ok : BOOLEAN])
      OBVIOUS
    <2>8. more \in BOOLEAN
      OBVIOUS
    <2>9. /\ cached \in Endpoint \cup {Nowhere}
          /\ target \in Endpoint \cup {Nowhere}
          /\ guardAt \in Endpoint \cup {Nowhere}
      OBVIOUS
    <2>10. LoopTypeOK
      BY ONLY <2>4, <2>5, <2>6, <2>7, <2>8, <2>9 DEF LoopTypeOK
    <2> QED
      BY <2>3, <2>10 DEF TypeOK
  <1>2. SlotInv
    <2>1. Holding = {}
      BY DEF Holding, Served
    <2> QED
      BY <2>1, FS_EmptySet DEF SlotInv
  <1>3. WakeupInv /\ SleepInv /\ ListsAligned
    BY DEF WakeupInv, SleepInv, ListsAligned, Connection
  <1>4. LockInv /\ DispatchInv
    BY DEF LockInv, DispatchInv, Dispatching
  <1> QED
    BY <1>1, <1>2, <1>3, <1>4 DEF SafeInv

-----------------------------------------------------------------------------
LEMMA LoopUntouched ==
  ASSUME LoopTypeOK, ListsAligned, DispatchInv, UNCHANGED <<loopVars, guardVars>>
  PROVE  LoopTypeOK' /\ ListsAligned' /\ DispatchInv'
  <1> USE DEF loopVars, guardVars
  <1>1. LoopTypeOK'
    BY DEF LoopTypeOK
  <1>2. ListsAligned'
    BY DEF ListsAligned
  <1>3. DispatchInv'
    BY DEF DispatchInv
  <1> QED
    BY <1>1, <1>2, <1>3

(* The steps of a connection that the filtering loop does not notice.      *)
LEMMA SessionQuiet ==
  ASSUME SafeInv, NEW c \in Connection,
         UNCHANGED <<loopVars, guardVars>>,
         \/ c \in Client /\ (Dial(c) \/ Connect(c) \/ ReadPayload(c) \/ ReadFails(c)
              \/ ReadRejected(c) \/ Close(c))
         \/ Accept(c) \/ ControlFails(c) \/ GiveUp(c)
  PROVE  SafeInv'
  <1> USE DEF SafeInv, TypeOK
  <1>1. LoopTypeOK' /\ ListsAligned' /\ DispatchInv'
    BY LoopUntouched
  <1>2. PICK from \in Stage, to \in Stage :
          /\ session[c] = from
          /\ session' = [session EXCEPT ![c] = to]
          /\ from # "none" \/ c \in Client
          /\ \/ from = "none" /\ to = "backlog" /\ slots' = slots
             \/ from = "backlog" /\ to = "refused" /\ slots' = slots
             \/ /\ from = "backlog" /\ to = "control"
                /\ slots < MAX_CONNECTIONS /\ slots' = slots + 1
             \/ from = "closing" /\ to = "ended" /\ slots' = slots - 1
             \/ /\ from \in {"control", "reading"}
                /\ to \in {"leaked", "abandoned", "reading", "store", "closing"}
                /\ slots' = slots
    BY DEF Dial, Connect, ReadPayload, ReadFails, ReadRejected, Close,
           Accept, ControlFails, GiveUp, Goes, Stage, TooMany, IntakeTypeOK
  <1>3. /\ main' = main /\ tasks' = tasks /\ lockHeld' = lockHeld
        /\ sleeping' = sleeping /\ dropped' = dropped
        /\ acceptor' \in {"open", "closed"}
    BY DEF Dial, Connect, ReadPayload, ReadFails, ReadRejected, Close,
           Accept, ControlFails, GiveUp, IntakeTypeOK
  <1>4. txt' \in [Client -> BOOLEAN]
    <2>1. CASE UNCHANGED txt
      BY <2>1 DEF IntakeTypeOK
    <2>2. CASE c \in Client /\ ReadPayload(c)
      BY <2>2 DEF ReadPayload, IntakeTypeOK
    <2> QED
      BY <2>1, <2>2 DEF Dial, Connect, ReadFails, ReadRejected, Close,
           Accept, ControlFails, GiveUp
  <1>5. SlotInv' /\ slots' \in Nat
    <2> DEFINE idle == {"none", "backlog", "refused", "ended"}
    <2>1. /\ session[c] \notin idle /\ to = "ended"
             => Cardinality(Holding') = slots - 1 /\ slots > 0
          /\ session[c] \in {"none", "backlog"} /\ to = "control"
             => Cardinality(Holding') = slots + 1
          /\ (session[c] \in idle <=> to \in idle)
             => Cardinality(Holding') = slots
      BY <1>2, SlotsKept
    <2>2. slots \in Nat /\ slots <= MAX_CONNECTIONS
      BY DEF SlotInv, IntakeTypeOK
    <2>3. CASE from = "closing"
      BY <1>2, <2>1, <2>2, <2>3 DEF SlotInv
    <2>4. CASE to = "control"
      BY <1>2, <2>1, <2>2, <2>4 DEF SlotInv
    <2>5. CASE from # "closing" /\ to # "control"
      <3>1. slots' = slots /\ (session[c] \in idle <=> to \in idle)
        BY <1>2, <2>5
      <3> QED
        BY <2>1, <2>2, <3>1 DEF SlotInv
    <2> QED
      BY <2>3, <2>4, <2>5
  <1>6. IntakeTypeOK'
    BY <1>2, <1>3, <1>4, <1>5 DEF IntakeTypeOK
  <1>7. WakeupInv'
    BY <1>2, <1>3 DEF WakeupInv, IntakeTypeOK
  <1>8. LockInv' /\ SleepInv'
    BY <1>3 DEF LockInv, SleepInv, loopVars
  <1> QED
    BY <1>1, <1>5, <1>6, <1>7, <1>8

(* A payload is stored only while the loop does not hold the mutex, so     *)
(* never between its condition and its sleep.                              *)
LEMMA StoreSafe ==
  ASSUME SafeInv, NEW c \in Client, Store(c), UNCHANGED <<loopVars, guardVars>>
  PROVE  SafeInv'
  <1> USE DEF SafeInv, TypeOK
  <1>1. LoopTypeOK' /\ ListsAligned' /\ DispatchInv'
    BY LoopUntouched
  <1>2. /\ session[c] = "store"
        /\ session' = [session EXCEPT ![c] = "closing"]
        /\ c \in Connection
        /\ UNCHANGED <<main, acceptor, slots, txt, lockHeld>>
        /\ ~lockHeld
    BY DEF Store, Goes, Connection
  <1>3. \/ /\ Len(tasks) < MAX_TASKS /\ tasks' = Append(tasks, c)
           /\ sleeping' = FALSE /\ dropped' = dropped
        \/ /\ Len(tasks) >= MAX_TASKS /\ dropped' = dropped \cup {c}
           /\ tasks' = tasks /\ sleeping' = sleeping
    BY DEF Store
  <1>4. session' \in [Connection -> Stage] /\ "closing" \in Stage
    BY <1>2 DEF IntakeTypeOK, Stage
  <1>5. SlotInv'
    <2>1. Cardinality(Holding') = slots
      <3>1. session[c] \in {"none", "backlog", "refused", "ended"}
              <=> "closing" \in {"none", "backlog", "refused", "ended"}
        BY <1>2
      <3> QED
        BY <1>2, <1>4, <3>1, SlotsKept
    <2> QED
      BY <1>2, <2>1 DEF SlotInv
  <1>6. IntakeTypeOK'
    <2>1. tasks' \in Seq(Client) /\ Len(tasks') <= MAX_TASKS
      BY <1>3 DEF IntakeTypeOK
    <2>2. dropped' \subseteq Client /\ sleeping' \in BOOLEAN
      BY <1>3 DEF IntakeTypeOK
    <2> QED
      BY <1>2, <1>4, <2>1, <2>2 DEF IntakeTypeOK
  <1>7. WakeupInv'
    BY <1>2 DEF WakeupInv, IntakeTypeOK, Connection
  <1>8. LockInv'
    BY <1>2 DEF LockInv, loopVars
  <1>9. SleepInv'
    <2>1. loop' = loop /\ futures' = futures /\ loop # "blocking"
      BY <1>2 DEF LockInv, loopVars
    <2>2. CASE sleeping' = FALSE
      BY <2>1, <2>2 DEF SleepInv
    <2>3. CASE Len(tasks) >= MAX_TASKS /\ tasks' = tasks /\ sleeping' = sleeping
      BY <2>1, <2>3 DEF SleepInv
    <2> QED
      BY <1>3, <2>2, <2>3
  <1> QED
    BY <1>1, <1>5, <1>6, <1>7, <1>8, <1>9

(* main, and what stops the process.                                       *)
LEMMA MainSafe ==
  ASSUME SafeInv,
         \/ Shutdown /\ UNCHANGED <<loopVars, guardVars>>
         \/ Join /\ UNCHANGED guardVars
         \/ PollThrows /\ UNCHANGED guardVars
         \/ \E c \in Client : WorkerThrows(c) /\ UNCHANGED guardVars
  PROVE  SafeInv'
  <1> USE DEF SafeInv, TypeOK
  <1>1. UNCHANGED <<loopVars, guardVars>>
    BY DEF Shutdown, Join, PollThrows, WorkerThrows, loopVars, LoopGoes,
           listVars, dispatchVars
  <1>2. LoopTypeOK' /\ ListsAligned' /\ DispatchInv'
    BY <1>1, LoopUntouched
  <1>3. /\ UNCHANGED <<acceptor, slots, txt, tasks, dropped, lockHeld>>
        /\ sleeping' = sleeping \/ sleeping' = FALSE
    BY DEF Shutdown, RequestStop, WakeAcceptor, WakeFiltering, Join,
           PollThrows, WorkerThrows
  <1>4. main' \in {"connect", "notify", "join", "exited", "crashed"}
    BY DEF Shutdown, RequestStop, WakeAcceptor, WakeFiltering, Join,
           PollThrows, WorkerThrows
  <1>5. \/ session' = session /\ (main' = "connect" => main = "running")
        \/ /\ main = "connect" /\ main' = "notify"
           /\ session' = [session EXCEPT ![Wakeup] = "backlog"]
    BY DEF Shutdown, RequestStop, WakeAcceptor, WakeFiltering, Join,
           PollThrows, WorkerThrows
  <1>6. SlotInv'
    <2>1. CASE session' = session
      BY <1>3, <2>1 DEF SlotInv, Holding, Served
    <2>2. CASE main = "connect" /\ session' = [session EXCEPT ![Wakeup] = "backlog"]
      <3>1. Wakeup \in Connection /\ "backlog" \in Stage /\ session[Wakeup] = "none"
        BY <2>2 DEF Connection, Stage, WakeupInv
      <3>2. session[Wakeup] \in {"none", "backlog", "refused", "ended"}
              <=> "backlog" \in {"none", "backlog", "refused", "ended"}
        BY <3>1
      <3>3. Cardinality(Holding') = slots
        BY <2>2, <3>1, <3>2, SlotsKept
      <3> QED
        BY <1>3, <3>3 DEF SlotInv
    <2> QED
      BY <1>5, <2>1, <2>2
  <1>7. session' \in [Connection -> Stage]
    BY <1>5 DEF IntakeTypeOK, Stage
  <1>8. IntakeTypeOK'
    <2>1. sleeping' \in BOOLEAN /\ lockHeld' \in BOOLEAN
      BY <1>3 DEF IntakeTypeOK
    <2> QED
      BY <1>3, <1>4, <1>7, <2>1 DEF IntakeTypeOK
  <1>9. WakeupInv'
    BY <1>4, <1>5 DEF WakeupInv
  <1>10. LockInv'
    BY <1>1, <1>3 DEF LockInv, loopVars
  <1>11. SleepInv'
    <2>1. CASE sleeping' = sleeping
      BY <1>1, <1>3, <2>1 DEF SleepInv, loopVars
    <2>2. CASE sleeping' = FALSE
      BY <1>1, <1>3, <2>2 DEF SleepInv, loopVars
    <2> QED
      BY <1>3, <2>1, <2>2
  <1> QED
    BY <1>11, <1>2, <1>6, <1>8, <1>9, <1>10

-----------------------------------------------------------------------------
LEMMA IntakeUntouched ==
  ASSUME IntakeTypeOK, SlotInv, WakeupInv, UNCHANGED intakeOthers,
         tasks' \in Seq(Client), Len(tasks') <= MAX_TASKS,
         lockHeld' \in BOOLEAN, sleeping' \in BOOLEAN
  PROVE  IntakeTypeOK' /\ SlotInv' /\ WakeupInv'
  <1> USE DEF intakeOthers
  <1>1. IntakeTypeOK'
    BY DEF IntakeTypeOK
  <1>2. SlotInv'
    BY DEF SlotInv, Holding, Served
  <1>3. WakeupInv'
    BY DEF WakeupInv
  <1> QED
    BY <1>1, <1>2, <1>3

(* The loop's steps around its condition variable.                         *)
LEMMA WaitSafe ==
  ASSUME SafeInv, UNCHANGED guardVars,
         StopSeen \/ LockTasks \/ Evaluate \/ Block \/ Awake \/ Spurious
  PROVE  SafeInv'
  <1> USE DEF SafeInv, TypeOK, LoopGoes, intakeVars, intakeOthers, listVars,
              dispatchVars, guardVars
  <1>1. /\ UNCHANGED <<intakeOthers, tasks, listVars, dispatchVars, guardVars>>
        /\ lockHeld' \in BOOLEAN /\ sleeping' \in BOOLEAN
        /\ loop' \in {"done", "evaluate", "drain", "blocking", "asleep"}
    <2>1. UNCHANGED <<intakeOthers, tasks, listVars, dispatchVars, guardVars>>
      BY DEF StopSeen, LockTasks, Evaluate, Block, Awake, Spurious
    <2>2. loop' \in {"done", "evaluate", "drain", "blocking", "asleep"}
      BY DEF StopSeen, LockTasks, Evaluate, Block, Awake, Spurious
    <2>3. lockHeld' = lockHeld \/ lockHeld' = TRUE \/ lockHeld' = FALSE
      BY DEF StopSeen, LockTasks, Evaluate, Block, Awake, Spurious
    <2>4. sleeping' = sleeping \/ sleeping' = TRUE \/ sleeping' = FALSE
      BY DEF StopSeen, LockTasks, Evaluate, Block, Awake, Spurious
    <2>5. lockHeld \in BOOLEAN /\ sleeping \in BOOLEAN
      BY DEF IntakeTypeOK
    <2> QED
      BY <2>1, <2>2, <2>3, <2>4, <2>5
  <1>2. IntakeTypeOK' /\ SlotInv' /\ WakeupInv'
    BY <1>1, IntakeUntouched DEF IntakeTypeOK
  <1>3. LoopTypeOK'
    BY <1>1 DEF LoopTypeOK
  <1>4. ListsAligned' /\ DispatchInv'
    <2>1. loop # "enqueue"
      BY DEF StopSeen, LockTasks, Evaluate, Block, Awake, Spurious
    <2> QED
      BY <1>1, <2>1 DEF ListsAligned, DispatchInv, Dispatching
  <1>5. LockInv'
    BY DEF LockInv, StopSeen, LockTasks, Evaluate, Block, Awake, Spurious
  <1>6. SleepInv'
    BY DEF SleepInv, StopSeen, LockTasks, Evaluate, Block, Awake, Spurious,
           SomethingToDo
  <1> QED
    BY <1>2, <1>3, <1>4, <1>5, <1>6

(* Two lists that grow by the same payload, in two steps.                  *)
LEMMA DrainSafe ==
  ASSUME SafeInv, UNCHANGED guardVars, Take \/ DrainOver \/ Enqueue
  PROVE  SafeInv'
  <1> USE DEF SafeInv, TypeOK, LoopGoes, intakeVars, intakeOthers, listVars,
              dispatchVars, guardVars
  <1>1. CASE Take
    <2>1. /\ Head(tasks) \in Client
          /\ tasks' \in Seq(Client) /\ Len(tasks') <= MAX_TASKS
          /\ held' = Append(held, Head(tasks))
          /\ held' \in Seq(Client)
          /\ Last(held') = Head(tasks)
      <3>1. tasks # <<>> /\ tasks \in Seq(Client) /\ Len(tasks) <= MAX_TASKS
        BY <1>1 DEF Take, IntakeTypeOK
      <3>2. Head(tasks) \in Client /\ Tail(tasks) \in Seq(Client)
            /\ Len(Tail(tasks)) = Len(tasks) - 1
        BY <3>1
      <3>3. held \in Seq(Client)
        BY DEF LoopTypeOK
      <3>4. /\ Append(held, Head(tasks)) \in Seq(Client)
            /\ Last(Append(held, Head(tasks))) = Head(tasks)
        BY <3>2, <3>3 DEF Last
      <3> QED
        BY <1>1, <3>1, <3>2, <3>4 DEF Take
    <2>2. IntakeTypeOK' /\ SlotInv' /\ WakeupInv'
      BY <1>1, <2>1, IntakeUntouched DEF Take, IntakeTypeOK
    <2>3. LoopTypeOK'
      <3>1. more' \in BOOLEAN
        BY <1>1 DEF Take
      <3> QED
        BY <1>1, <2>1, <3>1 DEF Take, LoopTypeOK
    <2>4. ListsAligned'
      BY <1>1, <2>1 DEF Take, ListsAligned
    <2>5. LockInv' /\ SleepInv' /\ DispatchInv'
      BY <1>1 DEF Take, LockInv, SleepInv, DispatchInv, Dispatching
    <2> QED
      BY <2>2, <2>3, <2>4, <2>5
  <1>2. CASE DrainOver
    <2>1. IntakeTypeOK' /\ SlotInv' /\ WakeupInv'
      BY <1>2, IntakeUntouched DEF DrainOver, IntakeTypeOK
    <2>2. LoopTypeOK'
      BY <1>2 DEF DrainOver, LoopTypeOK
    <2>3. ListsAligned'
      BY <1>2 DEF DrainOver, ListsAligned
    <2>4. LockInv' /\ SleepInv' /\ DispatchInv'
      BY <1>2 DEF DrainOver, LockInv, SleepInv, DispatchInv, Dispatching
    <2> QED
      BY <2>1, <2>2, <2>3, <2>4
  <1>3. CASE Enqueue
    <2>1. IntakeTypeOK' /\ SlotInv' /\ WakeupInv'
      <3>1. lockHeld' \in BOOLEAN /\ tasks' = tasks /\ sleeping' = sleeping
        BY <1>3 DEF Enqueue, LoopTypeOK
      <3> QED
        BY <1>3, <3>1, IntakeUntouched DEF Enqueue, IntakeTypeOK
    <2>2. futures' = held /\ held' = held /\ held \in Seq(Client)
      BY <1>3 DEF Enqueue, ListsAligned, FuturesWith, LoopTypeOK
    <2>3. job' \in [Client -> {"none", "queued", "done", "failed", "threw"}]
      BY <1>3 DEF Enqueue, LoopTypeOK
    <2>4. loop' \in {"drain", "poll"} /\ it' = 1
      BY <1>3 DEF Enqueue
    <2>5. LoopTypeOK'
      BY <1>3, <2>2, <2>3, <2>4 DEF Enqueue, LoopTypeOK
    <2>6. ListsAligned' /\ SleepInv' /\ DispatchInv'
      BY <2>2, <2>4 DEF ListsAligned, SleepInv, DispatchInv, Dispatching
    <2>7. LockInv'
      BY <1>3 DEF Enqueue, LockInv
    <2> QED
      BY <2>1, <2>5, <2>6, <2>7
  <1> QED
    BY <1>1, <1>2, <1>3

(* The polling round, up to the moment the payload is written.             *)
LEMMA PollSafe ==
  ASSUME SafeInv, UNCHANGED guardVars,
         \/ PollOver \/ PollPending \/ PollReady
         \/ Lookup \/ ConnectGuard \/ ConnectFails
  PROVE  SafeInv'
  <1> USE DEF SafeInv, TypeOK, LoopGoes, listVars, dispatchVars, guardVars
  <1>1. /\ UNCHANGED <<intakeVars, held, futures, more, job, sent, guardVars>>
        /\ loop \in {"poll"} \cup Dispatching
        /\ loop' \in {"head", "poll"} \cup Dispatching
        /\ it' = it \/ it' = it + 1
    BY DEF PollOver, PollPending, PollReady, Lookup, ConnectGuard,
           ConnectFails, Dispatching
  <1>2. cached' \in Endpoint \cup {Nowhere} /\ target' \in Endpoint \cup {Nowhere}
    BY DEF PollOver, PollPending, PollReady, Lookup, ConnectGuard,
           ConnectFails, LoopTypeOK, Forget
  <1>3. IntakeTypeOK' /\ SlotInv' /\ WakeupInv'
    BY <1>1, IntakeUntouched DEF IntakeTypeOK, intakeVars, intakeOthers
  <1>4. LoopTypeOK'
    BY <1>1, <1>2 DEF LoopTypeOK
  <1>5. ListsAligned' /\ LockInv' /\ SleepInv'
    BY <1>1 DEF ListsAligned, LockInv, SleepInv, Dispatching, intakeVars
  <1>6. DispatchInv'
    <2>1. CASE PollReady
      BY <2>1 DEF PollReady, DispatchInv, ListsAligned, intakeVars
    <2>2. CASE PollOver \/ PollPending
      BY <2>2 DEF PollOver, PollPending, DispatchInv, Dispatching
    <2>3. CASE Lookup \/ ConnectGuard \/ ConnectFails
      <3>1. loop \in Dispatching /\ it' = it
        BY <2>3 DEF Lookup, ConnectGuard, ConnectFails, Dispatching
      <3> QED
        BY <1>1, <3>1 DEF DispatchInv
    <2> QED
      BY <2>1, <2>2, <2>3
  <1> QED
    BY <1>3, <1>4, <1>5, <1>6

(* Both lists lose the element at the same position.                       *)
LEMMA WriteSafe ==
  ASSUME SafeInv, UNCHANGED guardVars, Write
  PROVE  SafeInv'
  <1> USE DEF SafeInv, TypeOK, LoopGoes, listVars, dispatchVars, guardVars
  <1>1. /\ held = futures /\ held \in Seq(Client) /\ it \in 1..Len(held)
    BY DEF Write, ListsAligned, DispatchInv, Dispatching, LoopTypeOK
  <1>2. held' = futures' /\ held' \in Seq(Client)
    BY <1>1, RemoveAtElements DEF Write
  <1>3. sent' \in Seq([payload : Client, verdict : Client, file : BOOLEAN,
                       ok : BOOLEAN])
    <2>1. PICK ok \in BOOLEAN :
            sent' = Append(sent, [payload |-> held[it], verdict |-> futures[it],
                                  file |-> IsFile(held[it]), ok |-> ok])
      BY DEF Write
    <2>2. held[it] \in Client /\ futures[it] \in Client
      BY <1>1
    <2>3. IsFile(held[it]) \in BOOLEAN
      BY <2>2 DEF IsFile, IntakeTypeOK
    <2> DEFINE R == [payload : Client, verdict : Client, file : BOOLEAN,
                     ok : BOOLEAN]
               r == [payload |-> held[it], verdict |-> futures[it],
                     file |-> IsFile(held[it]), ok |-> ok]
    <2>4. r \in R
      BY <2>2, <2>3
    <2>5. sent \in Seq(R) /\ sent' = Append(sent, r)
      BY <2>1 DEF LoopTypeOK
    <2> HIDE DEF R, r
    <2>6. Append(sent, r) \in Seq(R)
      BY <2>4, <2>5
    <2> QED
      BY <2>5, <2>6 DEF R
  <1>4. LoopTypeOK'
    BY <1>2, <1>3 DEF Write, LoopTypeOK
  <1>5. IntakeTypeOK' /\ SlotInv' /\ WakeupInv'
    BY IntakeUntouched DEF Write, IntakeTypeOK, intakeVars, intakeOthers
  <1>6. ListsAligned' /\ LockInv' /\ SleepInv' /\ DispatchInv'
    BY <1>2 DEF Write, ListsAligned, LockInv, SleepInv, DispatchInv,
                Dispatching, intakeVars
  <1> QED
    BY <1>4, <1>5, <1>6

(* A verdict, once there, stays.                                           *)
LEMMA AnswerSafe ==
  ASSUME SafeInv, NEW c \in Client, Answer(c), UNCHANGED guardVars
  PROVE  SafeInv'
  <1> USE DEF SafeInv, TypeOK, dispatchVars, guardVars
  <1>1. PICK result \in {"done", "failed", "threw"} :
          job' = [job EXCEPT ![c] = result]
    BY DEF Answer
  <1>2. /\ job[c] = "queued"
        /\ UNCHANGED <<intakeVars, loop, held, futures, more, it, dispatchVars>>
    BY DEF Answer
  <1>3. IntakeTypeOK' /\ SlotInv' /\ WakeupInv'
    BY <1>2, IntakeUntouched DEF IntakeTypeOK, intakeVars, intakeOthers
  <1>4. LoopTypeOK'
    BY <1>1, <1>2 DEF LoopTypeOK
  <1>5. ListsAligned' /\ LockInv' /\ SleepInv'
    BY <1>2 DEF ListsAligned, LockInv, SleepInv, intakeVars
  <1>6. DispatchInv'
    BY <1>1, <1>2 DEF DispatchInv, Ready, LoopTypeOK, Dispatching
  <1> QED
    BY <1>3, <1>4, <1>5, <1>6

LEMMA GuardMovesSafe ==
  ASSUME SafeInv, GuardMoves, UNCHANGED <<intakeVars, loopVars>>
  PROVE  SafeInv'
  <1> USE DEF SafeInv, TypeOK, loopVars, GuardMoves
  <1>1. IntakeTypeOK' /\ SlotInv' /\ WakeupInv'
    BY IntakeUntouched DEF IntakeTypeOK, intakeVars, intakeOthers
  <1>2. LoopTypeOK'
    BY DEF LoopTypeOK
  <1>3. ListsAligned' /\ LockInv' /\ SleepInv' /\ DispatchInv'
    BY DEF ListsAligned, LockInv, SleepInv, DispatchInv, intakeVars
  <1> QED
    BY <1>1, <1>2, <1>3

LEMMA StutterSafe == SafeInv /\ UNCHANGED vars => SafeInv'
  <1> SUFFICES ASSUME SafeInv, UNCHANGED vars PROVE SafeInv'
    OBVIOUS
  <1> USE DEF SafeInv, TypeOK, vars
  <1>1. IntakeTypeOK' /\ SlotInv' /\ WakeupInv'
    BY IntakeUntouched DEF IntakeTypeOK, intakeVars, intakeOthers
  <1>2. LoopTypeOK' /\ ListsAligned' /\ DispatchInv'
    BY LoopUntouched
  <1>3. LockInv' /\ SleepInv'
    BY DEF LockInv, SleepInv, intakeVars, loopVars
  <1> QED
    BY <1>1, <1>2, <1>3

-----------------------------------------------------------------------------
LEMMA NextSafe == SafeInv /\ [Next]_vars => SafeInv'
  <1> SUFFICES ASSUME SafeInv, [Next]_vars PROVE SafeInv'
    OBVIOUS
  <1>1. CASE SessionStep /\ UNCHANGED <<loopVars, guardVars>>
    BY <1>1, SessionQuiet, StoreSafe DEF SessionStep, Connection
  <1>2. CASE Shutdown /\ UNCHANGED <<loopVars, guardVars>>
    BY <1>2, MainSafe
  <1>3. CASE (Join \/ LoopStep \/ Spurious) /\ UNCHANGED guardVars
    BY <1>3, MainSafe, WaitSafe, DrainSafe, PollSafe, WriteSafe DEF LoopStep
  <1>4. CASE \E c \in Client : (Answer(c) \/ WorkerThrows(c)) /\ UNCHANGED guardVars
    BY <1>4, MainSafe, AnswerSafe
  <1>5. CASE GuardMoves /\ UNCHANGED <<intakeVars, loopVars>>
    BY <1>5, GuardMovesSafe
  <1>6. CASE UNCHANGED vars
    BY <1>6, StutterSafe
  <1> QED
    BY <1>1, <1>2, <1>3, <1>4, <1>5, <1>6 DEF Next

LEMMA AlwaysSafe == Spec => []SafeInv
  <1> QED
    BY InitSafe, NextSafe, PTL DEF Spec

(* Every reachable state of the gateway is well typed, and its task list   *)
(* never outgrows MAX_TASKS, for any number of clients.                    *)
THEOREM GatewayTypeCorrect == Spec => []TypeOK
  <1>1. SafeInv => TypeOK
    BY DEF SafeInv
  <1> QED
    BY <1>1, AlwaysSafe, PTL

(* g_active_connections never counts fewer than the detached threads there *)
(* are, never more than MAX_CONNECTIONS, and never wraps below zero.       *)
THEOREM SlotsCorrect == Spec => []SlotsCoverSessions
  <1>1. SafeInv => SlotsCoverSessions
    <2> SUFFICES ASSUME SafeInv PROVE SlotsCoverSessions
      OBVIOUS
    <2>1. IsFiniteSet(Connection)
      BY FS_AddElement, FS_Singleton, FS_Union DEF Connection
    <2>2. Holding \subseteq Connection /\ Served \subseteq Holding
      BY DEF Holding, Served
    <2>3. IsFiniteSet(Holding) /\ Cardinality(Served) <= Cardinality(Holding)
      BY <2>1, <2>2, FS_Subset
    <2> QED
      BY <2>3 DEF SafeInv, SlotInv, SlotsCoverSessions
  <1> QED
    BY <1>1, AlwaysSafe, PTL

(* The filtering loop is never asleep while a payload waits for it.        *)
THEOREM AwakeCorrect == Spec => []AwakeForTasks
  <1>1. SafeInv => AwakeForTasks
    BY DEF SafeInv, SleepInv, AwakeForTasks
  <1> QED
    BY <1>1, AlwaysSafe, PTL

(* The verdict at a position of one list is that of the payload at the     *)
(* same position of the other.                                             *)
THEOREM ListsCorrect == Spec => []ListsAligned
  <1>1. SafeInv => ListsAligned
    BY DEF SafeInv
  <1> QED
    BY <1>1, AlwaysSafe, PTL

-----------------------------------------------------------------------------
(***************************************************************************)
(* A payload is in one place at a time and leaves with its own verdict, and *)
(* Gateway implements PayloadFlow.                                         *)
(***************************************************************************)

LEMMA RemoveAtSet ==
  ASSUME NEW F, NEW s \in Seq(F), NEW k \in 1..Len(s), IsInjective(s)
  PROVE  /\ ToSet(RemoveAt(s, k)) = ToSet(s) \ {s[k]}
         /\ IsInjective(RemoveAt(s, k))
  <1> DEFINE r == RemoveAt(s, k)
             old(i) == IF i < k THEN i ELSE i + 1
  <1>1. /\ r \in Seq(F)
        /\ Len(r) = Len(s) - 1
        /\ \A i \in 1..(k - 1) : r[i] = s[i]
        /\ \A i \in k..(Len(s) - 1) : r[i] = s[i + 1]
    BY RemoveAtElements
  <1> HIDE DEF r
  <1>2. DOMAIN r = 1..(Len(s) - 1) /\ DOMAIN s = 1..Len(s)
    BY <1>1
  <1>3. ASSUME NEW i \in 1..(Len(s) - 1)
        PROVE  r[i] = s[old(i)] /\ old(i) \in 1..Len(s) /\ old(i) # k
    <2>1. CASE i < k
      <3>1. i \in 1..(k - 1)
        BY <2>1
      <3> QED
        BY <1>1, <2>1, <3>1
    <2>2. CASE ~(i < k)
      <3>1. i \in k..(Len(s) - 1) /\ i + 1 \in 1..Len(s) /\ i + 1 # k
        BY <2>2
      <3> QED
        BY <1>1, <2>2, <3>1
    <2> QED
      BY <2>1, <2>2
  <1>4. ASSUME NEW j \in 1..Len(s), j # k
        PROVE  \E i \in 1..(Len(s) - 1) : old(i) = j
    <2>1. CASE j < k
      <3>1. j \in 1..(Len(s) - 1) /\ old(j) = j
        BY <2>1
      <3> QED
        BY <3>1
    <2>2. CASE ~(j < k)
      <3>1. j - 1 \in 1..(Len(s) - 1) /\ old(j - 1) = j
        BY <1>4, <2>2
      <3> QED
        BY <3>1
    <2> QED
      BY <2>1, <2>2
  <1>5. \A i, j \in 1..(Len(s) - 1) : old(i) = old(j) => i = j
    OBVIOUS
  <1> HIDE DEF old
  <1>6. ToSet(r) = ToSet(s) \ {s[k]}
    <2>1. ToSet(r) \subseteq ToSet(s) \ {s[k]}
      BY <1>2, <1>3 DEF ToSet, IsInjective
    <2>2. ToSet(s) \ {s[k]} \subseteq ToSet(r)
      <3> SUFFICES ASSUME NEW j \in 1..Len(s), s[j] # s[k]
                   PROVE  s[j] \in ToSet(r)
        BY <1>2 DEF ToSet
      <3>1. PICK i \in 1..(Len(s) - 1) : old(i) = j
        BY <1>4
      <3> QED
        BY <1>2, <1>3, <3>1 DEF ToSet
    <2> QED
      BY <2>1, <2>2
  <1>7. IsInjective(r)
    BY <1>2, <1>3, <1>5 DEF IsInjective
  <1> QED
    BY <1>6, <1>7 DEF r

-----------------------------------------------------------------------------
USE IntakeAssumption, LoopAssumption

FlowInv == PlaceInv /\ JobInv /\ VerdictInv

LEMMA InitFlow == Init => FlowInv
  <1> SUFFICES ASSUME Init PROVE FlowInv
    OBVIOUS
  <1> USE DEF Init, IntakeInit, LoopInit
  <1>1. ToSet(tasks) = {} /\ ToSet(held) = {} /\ ToSet(futures) = {} /\ Sent = {}
    BY DEF ToSet, Sent
  <1>2. PlaceInv
    BY <1>1 DEF PlaceInv, IsInjective
  <1>3. JobInv /\ VerdictInv
    BY <1>1 DEF JobInv, VerdictInv
  <1> QED
    BY <1>2, <1>3 DEF FlowInv

LEMMA SentAreClients == LoopTypeOK => Sent \subseteq Client
  <1> SUFFICES ASSUME LoopTypeOK PROVE Sent \subseteq Client
    OBVIOUS
  <1> DEFINE R == [payload : Client, verdict : Client, file : BOOLEAN,
                   ok : BOOLEAN]
  <1>1. sent \in Seq(R) /\ \A r \in R : r.payload \in Client
    BY DEF LoopTypeOK
  <1> HIDE DEF R
  <1>2. \A i \in DOMAIN sent : sent[i] \in R
    BY <1>1
  <1> QED
    BY <1>1, <1>2 DEF Sent

LEMMA PlacesHoldClients ==
  ASSUME IntakeTypeOK, LoopTypeOK
  PROVE  ToSet(tasks) \cup ToSet(held) \cup dropped \cup Sent \subseteq Connection
  <1>1. ToSet(tasks) \subseteq Client /\ dropped \subseteq Client
    BY DEF IntakeTypeOK, ToSet
  <1>2. ToSet(held) \subseteq Client
    BY DEF LoopTypeOK, ToSet
  <1>3. Sent \subseteq Client
    BY SentAreClients
  <1> QED
    BY <1>1, <1>2, <1>3 DEF Connection

LEMMA SessionsStay ==
  ASSUME IntakeTypeOK, WakeupInv, [Next]_vars, NEW c \in Connection,
         session[c] \in {"closing", "ended"}
  PROVE  session'[c] \in {"closing", "ended"}
  <1> DEFINE Stays == session'[c] \in {"closing", "ended"}
  <1>1. SessionStep => Stays
    BY DEF SessionStep, Dial, Connect, ReadPayload, ReadFails, ReadRejected,
           Store, Close, Accept, ControlFails, GiveUp, Goes, IntakeTypeOK
  <1>2. Shutdown => Stays
    BY DEF Shutdown, RequestStop, WakeAcceptor, WakeFiltering, WakeupInv,
           IntakeTypeOK
  <1>3. Join \/ Spurious => Stays
    BY DEF Join, Spurious, intakeOthers
  <1>4. LoopStep => Stays
    BY DEF LoopStep, StopSeen, LockTasks, Evaluate, Block, Awake, Take,
           DrainOver, Enqueue, PollOver, PollPending, PollReady, PollThrows,
           Lookup, ConnectGuard, ConnectFails, Write, intakeVars, intakeOthers
  <1>5. ASSUME NEW d \in Client PROVE Answer(d) \/ WorkerThrows(d) => Stays
    BY DEF Answer, WorkerThrows, intakeVars
  <1>6. UNCHANGED vars \/ UNCHANGED <<intakeVars, loopVars>> => Stays
    BY DEF vars, intakeVars
  <1> HIDE DEF Stays
  <1>7. Stays
    BY <1>1, <1>2, <1>3, <1>4, <1>5, <1>6 DEF Next
  <1> QED
    BY <1>7 DEF Stays

(* The steps that move no payload.                                         *)
LEMMA QuietFlow ==
  ASSUME FlowInv, UNCHANGED <<tasks, held, futures, sent, dropped, job>>,
         SafeInv, [Next]_vars
  PROVE  FlowInv'
  <1> USE DEF SafeInv, TypeOK
  <1>1. Sent' = Sent /\ ToSet(tasks)' = ToSet(tasks) /\ ToSet(held)' = ToSet(held)
        /\ ToSet(futures)' = ToSet(futures) /\ dropped' = dropped
    BY DEF Sent, ToSet
  <1>2. ToSet(tasks) \cup ToSet(held) \cup dropped \cup Sent \subseteq Connection
    BY PlacesHoldClients
  <1>3. PlaceInv'
    <2>1. \A c \in ToSet(tasks) \cup ToSet(held) \cup dropped \cup Sent :
            session'[c] \in {"closing", "ended"}
      BY <1>2, SessionsStay DEF FlowInv, PlaceInv
    <2> QED
      BY <1>1, <2>1 DEF FlowInv, PlaceInv, IsInjective
  <1>4. JobInv' /\ VerdictInv'
    BY <1>1 DEF FlowInv, JobInv, VerdictInv
  <1> QED
    BY <1>3, <1>4 DEF FlowInv

LEMMA StoreFlow ==
  ASSUME SafeInv, FlowInv, NEW c \in Client, Store(c),
         UNCHANGED <<loopVars, guardVars>>
  PROVE  FlowInv'
  <1> USE DEF SafeInv, TypeOK, FlowInv
  <1>1. /\ c \notin ToSet(tasks) \cup ToSet(held) \cup dropped \cup Sent
        /\ session' = [session EXCEPT ![c] = "closing"]
        /\ session \in [Connection -> Stage] /\ c \in Connection
    BY DEF Store, Goes, PlaceInv, IntakeTypeOK, Connection
  <1>2. /\ UNCHANGED <<held, futures, sent, job>>
        /\ Sent' = Sent /\ ToSet(held)' = ToSet(held)
        /\ ToSet(futures)' = ToSet(futures)
    BY DEF loopVars, Sent
  <1>3. \/ /\ ToSet(tasks') = ToSet(tasks) \cup {c} /\ dropped' = dropped
           /\ IsInjective(tasks')
        \/ /\ dropped' = dropped \cup {c} /\ tasks' = tasks
    <2>1. tasks \in Seq(Client) /\ IsInjective(tasks) /\ c \notin ToSet(tasks)
      BY <1>1 DEF IntakeTypeOK, PlaceInv
    <2>2. /\ ToSet(Append(tasks, c)) = ToSet(tasks) \cup {c}
          /\ IsInjective(Append(tasks, c))
      BY <2>1, AppendSet
    <2>3. \/ tasks' = Append(tasks, c) /\ dropped' = dropped
          \/ tasks' = tasks /\ dropped' = dropped \cup {c}
      BY DEF Store
    <2> QED
      BY <2>2, <2>3
  <1>4. ToSet(tasks) \cup ToSet(held) \cup dropped \cup Sent \subseteq Connection
    BY PlacesHoldClients
  <1>5. PlaceInv'
    <2>1. IsInjective(tasks') /\ IsInjective(held')
      BY <1>2, <1>3 DEF PlaceInv
    <2>2. /\ ToSet(tasks') \cap ToSet(held') = {}
          /\ dropped' \cap (ToSet(tasks') \cup ToSet(held')) = {}
          /\ Sent' \cap (ToSet(tasks') \cup ToSet(held') \cup dropped') = {}
      BY <1>1, <1>2, <1>3 DEF PlaceInv
    <2>3. \A d \in ToSet(tasks') \cup ToSet(held') \cup dropped' \cup Sent' :
            session'[d] \in {"closing", "ended"}
      BY <1>1, <1>2, <1>3, <1>4 DEF PlaceInv
    <2> QED
      BY <2>1, <2>2, <2>3 DEF PlaceInv
  <1>6. JobInv' /\ VerdictInv'
    BY <1>2 DEF JobInv, VerdictInv
  <1> QED
    BY <1>5, <1>6

LEMMA TakeFlow ==
  ASSUME SafeInv, FlowInv, Take
  PROVE  FlowInv'
  <1> USE DEF SafeInv, TypeOK, FlowInv
  <1>1. /\ tasks # <<>> /\ tasks \in Seq(Client) /\ held \in Seq(Client)
        /\ tasks' = Tail(tasks) /\ held' = Append(held, Head(tasks))
        /\ UNCHANGED <<session, futures, job, dropped, sent>>
    BY DEF Take, IntakeTypeOK, LoopTypeOK, intakeOthers, dispatchVars
  <1>2. /\ ToSet(tasks) = ToSet(tasks') \cup {Head(tasks)}
        /\ Head(tasks) \notin ToSet(tasks') /\ IsInjective(tasks')
    BY <1>1, TailSet DEF PlaceInv
  <1>3. /\ ToSet(held') = ToSet(held) \cup {Head(tasks)}
        /\ IsInjective(held')
    <2>1. Head(tasks) \in Client /\ Head(tasks) \notin ToSet(held)
      BY <1>1, <1>2 DEF PlaceInv
    <2> QED
      BY <1>1, <2>1, AppendSet DEF PlaceInv
  <1>4. Sent' = Sent
    BY <1>1 DEF Sent
  <1>5. PlaceInv'
    BY <1>1, <1>2, <1>3, <1>4 DEF PlaceInv
  <1>6. JobInv' /\ VerdictInv'
    BY <1>1, <1>4 DEF JobInv, VerdictInv
  <1> QED
    BY <1>5, <1>6

LEMMA EnqueueFlow ==
  ASSUME SafeInv, FlowInv, Enqueue
  PROVE  FlowInv'
  <1> USE DEF SafeInv, TypeOK, FlowInv
  <1> DEFINE new == Last(held)
  <1>1. /\ futures \in Seq(Client) /\ held = Append(futures, new)
        /\ futures' = held
        /\ job' = [job EXCEPT ![new] = "queued"]
        /\ UNCHANGED <<tasks, held, session, dropped, sent>>
    BY DEF Enqueue, LoopGoes, ListsAligned, FuturesWith, LoopTypeOK,
           intakeOthers, dispatchVars
  <1>2. new \in Client /\ new \in ToSet(held)
    <2>1. held \in Seq(Client) /\ held # <<>>
      BY <1>1 DEF LoopTypeOK
    <2>2. Len(held) \in 1..Len(held) /\ Len(held) \in DOMAIN held
      BY <2>1
    <2> QED
      BY <2>1, <2>2 DEF Last, ToSet
  <1> HIDE DEF new
  <1>3. ToSet(futures') = ToSet(futures) \cup {new}
    BY <1>1, <1>2, AppendSet
  <1>4. Sent' = Sent /\ ToSet(tasks') = ToSet(tasks) /\ ToSet(held') = ToSet(held)
    BY <1>1 DEF Sent
  <1>5. PlaceInv'
    BY <1>1, <1>4 DEF PlaceInv
  <1>6. new \notin Sent
    BY <1>2 DEF PlaceInv
  <1>7. \A c \in Client : job'[c] = IF c = new THEN "queued" ELSE job[c]
    BY <1>1, <1>2 DEF LoopTypeOK
  <1>8. JobInv'
    <2>1. ASSUME NEW c \in Client
          PROVE  job'[c] # "none" <=> c \in ToSet(futures') \cup Sent'
      BY <1>3, <1>4, <1>7 DEF JobInv
    <2>2. Sent \subseteq Client
      BY SentAreClients
    <2>3. \A c \in Sent' : job'[c] \in {"done", "failed"}
      BY <1>4, <1>6, <1>7, <2>2 DEF JobInv
    <2> QED
      BY <2>1, <2>3 DEF JobInv
  <1>9. VerdictInv'
    BY <1>1 DEF VerdictInv
  <1> QED
    BY <1>5, <1>8, <1>9

(* What Write appends.                                                     *)
LEMMA WriteAppends ==
  ASSUME LoopTypeOK, held = futures, Write
  PROVE  /\ Len(sent) \in Nat /\ DOMAIN sent = 1..Len(sent)
         /\ DOMAIN sent' = 1..(Len(sent) + 1)
         /\ \A i \in 1..Len(sent) : sent'[i] = sent[i]
         /\ sent'[Len(sent) + 1].payload = held[it]
         /\ sent'[Len(sent) + 1].verdict = held[it]
  <1>1. PICK ok \in BOOLEAN :
          sent' = Append(sent, [payload |-> held[it], verdict |-> futures[it],
                                file |-> IsFile(held[it]), ok |-> ok])
    BY DEF Write
  <1> DEFINE R == [payload : Client, verdict : Client, file : BOOLEAN,
                   ok : BOOLEAN]
             r == [payload |-> held[it], verdict |-> futures[it],
                   file |-> IsFile(held[it]), ok |-> ok]
  <1>2. sent \in Seq(R) /\ sent' = Append(sent, r)
    BY <1>1 DEF LoopTypeOK
  <1>3. r.payload = held[it] /\ r.verdict = held[it]
    OBVIOUS
  <1> HIDE DEF R, r
  <1>4. /\ Len(sent) \in Nat /\ DOMAIN sent = 1..Len(sent)
        /\ DOMAIN sent' = 1..(Len(sent) + 1)
        /\ \A i \in 1..Len(sent) : sent'[i] = sent[i]
        /\ sent'[Len(sent) + 1] = r
    BY <1>2
  <1> QED
    BY <1>3, <1>4

LEMMA WriteFlow ==
  ASSUME SafeInv, FlowInv, Write
  PROVE  FlowInv'
  <1> USE DEF SafeInv, TypeOK, FlowInv
  <1> DEFINE out == held[it]
  <1>1. /\ held = futures /\ held \in Seq(Client) /\ it \in 1..Len(held)
        /\ Ready(job[out])
    BY DEF Write, LoopGoes, ListsAligned, DispatchInv, Dispatching, LoopTypeOK
  <1>2. /\ held' = RemoveAt(held, it) /\ futures' = held'
        /\ UNCHANGED <<tasks, session, dropped, job>>
    BY <1>1 DEF Write, intakeVars
  <1>3. out \in Client /\ out \in ToSet(held)
    BY <1>1 DEF ToSet
  <1>4. /\ Len(sent) \in Nat /\ DOMAIN sent = 1..Len(sent)
        /\ DOMAIN sent' = 1..(Len(sent) + 1)
        /\ \A i \in 1..Len(sent) : sent'[i] = sent[i]
        /\ sent'[Len(sent) + 1].payload = out
        /\ sent'[Len(sent) + 1].verdict = out
    BY <1>1, WriteAppends
  <1> HIDE DEF out
  <1>5. 1..(Len(sent) + 1) = 1..Len(sent) \cup {Len(sent) + 1}
    BY <1>4
  <1>6. Sent' = Sent \cup {out}
    BY <1>4, <1>5 DEF Sent
  <1>7. ToSet(held') = ToSet(held) \ {out} /\ IsInjective(held')
    BY <1>1, <1>2, RemoveAtSet DEF out, PlaceInv
  <1>8. ToSet(tasks') = ToSet(tasks) /\ ToSet(futures) = ToSet(held)
        /\ ToSet(futures') = ToSet(held')
    BY <1>1, <1>2
  <1>9. PlaceInv'
    BY <1>2, <1>3, <1>6, <1>7, <1>8 DEF PlaceInv
  <1>10. JobInv'
    BY <1>1, <1>2, <1>3, <1>6, <1>7, <1>8 DEF JobInv, Ready
  <1>11. VerdictInv'
    BY <1>4, <1>5 DEF VerdictInv
  <1> QED
    BY <1>9, <1>10, <1>11

LEMMA AnswerFlow ==
  ASSUME SafeInv, FlowInv, NEW c \in Client, Answer(c)
  PROVE  FlowInv'
  <1> USE DEF SafeInv, TypeOK, FlowInv
  <1>1. PICK result \in {"done", "failed", "threw"} :
          job' = [job EXCEPT ![c] = result]
    BY DEF Answer
  <1>2. /\ job[c] = "queued"
        /\ UNCHANGED <<tasks, session, dropped, held, futures, sent>>
    BY DEF Answer, intakeVars, dispatchVars
  <1>3. Sent' = Sent /\ ToSet(tasks') = ToSet(tasks)
        /\ ToSet(held') = ToSet(held) /\ ToSet(futures') = ToSet(futures)
    BY <1>2 DEF Sent
  <1>4. PlaceInv' /\ VerdictInv'
    BY <1>2, <1>3 DEF PlaceInv, VerdictInv
  <1>5. \A d \in Client : job'[d] = IF d = c THEN result ELSE job[d]
    BY <1>1 DEF LoopTypeOK
  <1>6. Sent \subseteq Client
    BY SentAreClients
  <1>7. JobInv'
    BY <1>2, <1>3, <1>5, <1>6 DEF JobInv
  <1> QED
    BY <1>4, <1>7

-----------------------------------------------------------------------------
(* The steps that move a payload, and all the others.                      *)
LEMMA StepKinds ==
  ASSUME [Next]_vars
  PROVE  \/ \E c \in Client : Store(c) /\ UNCHANGED <<loopVars, guardVars>>
         \/ Take \/ Enqueue \/ Write
         \/ \E c \in Client : Answer(c)
         \/ UNCHANGED <<tasks, held, futures, sent, dropped, job>>
  <1> DEFINE Quiet == UNCHANGED <<tasks, held, futures, sent, dropped, job>>
             Storing == \E c \in Client : Store(c) /\ UNCHANGED <<loopVars, guardVars>>
  <1>1. SessionStep /\ UNCHANGED <<loopVars, guardVars>> => Storing \/ Quiet
    BY DEF SessionStep, Dial, Connect, ReadPayload, ReadFails, ReadRejected,
           Close, Accept, ControlFails, GiveUp, loopVars
  <1>2. Shutdown /\ UNCHANGED <<loopVars, guardVars>> => Quiet
    BY DEF Shutdown, RequestStop, WakeAcceptor, WakeFiltering, loopVars
  <1>3. Join \/ Spurious => Quiet
    BY DEF Join, Spurious, intakeOthers, listVars, dispatchVars, loopVars
  <1>4. LoopStep => Take \/ Enqueue \/ Write \/ Quiet
    BY DEF LoopStep, StopSeen, LockTasks, Evaluate, Block, Awake, DrainOver,
           PollOver, PollPending, PollReady, PollThrows, Lookup, ConnectGuard,
           ConnectFails, intakeVars, intakeOthers, listVars, dispatchVars
  <1>5. ASSUME NEW c \in Client PROVE WorkerThrows(c) => Quiet
    BY DEF WorkerThrows, loopVars
  <1>6. UNCHANGED vars \/ UNCHANGED <<intakeVars, loopVars>> => Quiet
    BY DEF vars, intakeVars, loopVars
  <1> HIDE DEF Quiet, Storing
  <1>7. Storing \/ Take \/ Enqueue \/ Write \/ (\E c \in Client : Answer(c)) \/ Quiet
    BY <1>1, <1>2, <1>3, <1>4, <1>5, <1>6 DEF Next
  <1> QED
    BY <1>7 DEF Quiet, Storing

LEMMA AlwaysFlow == Spec => []IInv
  <1>1. Init => IInv
    BY InitSafe, InitFlow DEF IInv, FlowInv
  <1>2. IInv /\ [Next]_vars => IInv'
    <2> SUFFICES ASSUME IInv, [Next]_vars PROVE IInv'
      OBVIOUS
    <2>1. SafeInv /\ FlowInv
      BY DEF IInv, FlowInv
    <2>2. SafeInv'
      BY <2>1, NextSafe
    <2>3. FlowInv'
      BY <2>1, StepKinds, StoreFlow, TakeFlow, EnqueueFlow, WriteFlow,
         AnswerFlow, QuietFlow
    <2> QED
      BY <2>2, <2>3 DEF IInv, FlowInv
  <1> QED
    BY <1>1, <1>2, PTL DEF Spec

(* The invariant that carries every proof about the gateway, the places of *)
(* the payloads and the states of their jobs included.                     *)
THEOREM InvariantCorrect == Spec => []IInv
  BY AlwaysFlow

-----------------------------------------------------------------------------
Judged(c) == job[c] \in {"done", "failed", "threw"}
Inside == ToSet(tasks) \cup ToSet(held)

(* How far a payload has come, by the sets it is in.                       *)
LEMMA FlowStateBySets ==
  ASSUME NEW c \in Client
  PROVE  FlowState(c) = IF c \in Sent THEN "left"
                        ELSE IF Judged(c) THEN "judged"
                        ELSE IF c \in dropped THEN "dropped"
                        ELSE IF c \in Inside THEN "accepted" ELSE "outside"
  BY DEF FlowState, Sent, Judged, Inside

LEMMA FlowStateNext ==
  ASSUME NEW c \in Client
  PROVE  FlowState(c)' = IF c \in Sent' THEN "left"
                         ELSE IF Judged(c)' THEN "judged"
                         ELSE IF c \in dropped' THEN "dropped"
                         ELSE IF c \in Inside' THEN "accepted" ELSE "outside"
  BY DEF FlowState, Sent, Judged, Inside

FlowStates == [c \in Client |-> FlowState(c)]
FlowLeft == [i \in DOMAIN sent |-> sent[i].verdict]

LEMMA InitRefines == Init => Flow!Init
  <1> SUFFICES ASSUME Init PROVE Flow!Init
    OBVIOUS
  <1> USE DEF Init, IntakeInit, LoopInit
  <1>1. Sent = {} /\ Inside = {} /\ dropped = {} /\ \A c \in Client : ~Judged(c)
    BY DEF Sent, Inside, ToSet, Judged
  <1>2. \A c \in Client : FlowState(c) = "outside"
    BY <1>1, FlowStateBySets
  <1>3. FlowLeft = <<>>
    BY DEF FlowLeft
  <1> QED
    BY <1>2, <1>3 DEF Flow!Init, FlowLeft

(* One payload changes its state in the abstract specification.            *)
LEMMA OneBecomes ==
  ASSUME NEW c \in Client, NEW from, NEW to,
         FlowState(c) = from, FlowState(c)' = to,
         \A d \in Client \ {c} : FlowState(d)' = FlowState(d)
  PROVE  Flow!Becomes(c, from, to)
  BY DEF Flow!Becomes

LEMMA LeftStays == sent' = sent => FlowLeft' = FlowLeft
  BY DEF FlowLeft

(* The list of futures trails the list of payloads.                        *)
LEMMA FuturesHeld == SafeInv => ToSet(futures) \subseteq ToSet(held)
  <1> SUFFICES ASSUME SafeInv PROVE ToSet(futures) \subseteq ToSet(held)
    OBVIOUS
  <1> USE DEF SafeInv, TypeOK
  <1>1. CASE loop = "enqueue"
    <2>1. /\ held = Append(futures, Last(held)) /\ futures \in Seq(Client)
          /\ held \in Seq(Client) /\ held # <<>>
      BY <1>1 DEF ListsAligned, LoopTypeOK
    <2>2. Len(held) \in 1..Len(held)
      BY <2>1
    <2>3. Last(held) \in Client
      BY <2>1, <2>2 DEF Last
    <2>4. PICK new \in Client : held = Append(futures, new)
      BY <2>1, <2>3
    <2>5. ToSet(Append(futures, new)) = ToSet(futures) \cup {new}
      BY ONLY <2>1, <2>4, AppendSet
    <2> QED
      BY ONLY <2>4, <2>5
  <1>2. CASE loop # "enqueue"
    BY <1>2 DEF ListsAligned
  <1> QED
    BY <1>1, <1>2

LEMMA StepRefines ==
  ASSUME IInv, [Next]_vars
  PROVE  [Flow!Next]_(Flow!flowVars)
  <1> USE DEF IInv, SafeInv, TypeOK
  <1>1. ASSUME NEW c \in Client, Store(c), UNCHANGED <<loopVars, guardVars>>
        PROVE  Flow!Admit(c)
    <2>1. /\ c \notin Inside /\ c \notin dropped /\ c \notin Sent
          /\ job[c] = "none"
      <3>1. session[c] = "store"
        BY <1>1 DEF Store, Goes
      <3>2. /\ c \notin Inside /\ c \notin dropped /\ c \notin Sent
        BY <3>1 DEF PlaceInv, Inside
      <3>3. c \notin ToSet(futures)
        BY <3>2, FuturesHeld DEF Inside
      <3> QED
        BY <3>2, <3>3 DEF JobInv
    <2>2. /\ Sent' = Sent /\ sent' = sent /\ job' = job
          /\ ToSet(held') = ToSet(held)
      BY <1>1 DEF loopVars, Sent
    <2>3. \/ Inside' = Inside \cup {c} /\ dropped' = dropped
          \/ Inside' = Inside /\ dropped' = dropped \cup {c}
      <3>1. tasks \in Seq(Client)
        BY DEF IntakeTypeOK
      <3>2. ToSet(Append(tasks, c)) = ToSet(tasks) \cup {c}
        BY <3>1, AppendSet
      <3>3. \/ tasks' = Append(tasks, c) /\ dropped' = dropped
            \/ tasks' = tasks /\ dropped' = dropped \cup {c}
        BY <1>1 DEF Store
      <3> QED
        BY <2>2, <3>2, <3>3 DEF Inside
    <2>4. \A d \in Client : Judged(d)' = Judged(d)
      BY <2>2 DEF Judged
    <2>5. ~Judged(c) /\ ~Judged(c)'
      BY <2>1, <2>2 DEF Judged
    <2>6. FlowState(c) = "outside"
      BY <2>1, <2>5, FlowStateBySets
    <2>7. FlowState(c)' = "accepted" \/ FlowState(c)' = "dropped"
      BY <2>1, <2>2, <2>3, <2>5, FlowStateNext
    <2>8. ASSUME NEW d \in Client \ {c} PROVE FlowState(d)' = FlowState(d)
      <3>1. FlowState(d)' = FlowState(d)
        BY <2>2, <2>3, <2>4, FlowStateBySets, FlowStateNext
      <3> QED
        BY <3>1
    <2>9. Flow!Becomes(c, "outside", "accepted") \/ Flow!Becomes(c, "outside", "dropped")
      BY <2>6, <2>7, <2>8, OneBecomes
    <2>10. FlowLeft' = FlowLeft
      BY <2>2, LeftStays
    <2> QED
      BY <2>9, <2>10 DEF Flow!Admit, FlowLeft
  <1>2. ASSUME Inside' = Inside, UNCHANGED <<sent, dropped>>,
               \A d \in Client : Judged(d)' <=> Judged(d)
        PROVE  UNCHANGED Flow!flowVars
    <2>1. Sent' = Sent
      BY <1>2 DEF Sent
    <2>2. \A d \in Client : FlowState(d)' = FlowState(d)
      BY <1>2, <2>1, FlowStateBySets, FlowStateNext
    <2>3. FlowStates' = FlowStates
      BY <2>2 DEF FlowStates
    <2>4. FlowLeft' = FlowLeft
      BY <1>2, LeftStays
    <2> QED
      BY <2>3, <2>4 DEF Flow!flowVars, FlowStates, FlowLeft
  <1>3. ASSUME Take PROVE UNCHANGED Flow!flowVars
    <2>1. /\ tasks # <<>> /\ tasks \in Seq(Client) /\ held \in Seq(Client)
          /\ tasks' = Tail(tasks) /\ held' = Append(held, Head(tasks))
          /\ UNCHANGED <<job, dropped, sent>>
      BY <1>3 DEF Take, IntakeTypeOK, LoopTypeOK, intakeOthers, dispatchVars
    <2>2. ToSet(tasks) = ToSet(tasks') \cup {Head(tasks)} /\ Head(tasks) \in Client
      BY <2>1, TailSet
    <2>3. ToSet(held') = ToSet(held) \cup {Head(tasks)}
      BY <2>1, <2>2, AppendSet
    <2> QED
      BY <1>2, <2>1, <2>2, <2>3 DEF Inside, Judged
  <1>4. ASSUME Enqueue PROVE UNCHANGED Flow!flowVars
    <2> DEFINE new == Last(held)
    <2>1. /\ job' = [job EXCEPT ![new] = "queued"]
          /\ UNCHANGED <<tasks, held, dropped, sent>>
          /\ futures \in Seq(Client) /\ held = Append(futures, new)
      BY <1>4 DEF Enqueue, LoopGoes, intakeOthers, dispatchVars, ListsAligned,
                  LoopTypeOK
    <2>2. new \in Client /\ new \in ToSet(held) /\ new \notin ToSet(futures)
      <3>1. held \in Seq(Client) /\ held # <<>>
        BY <2>1 DEF LoopTypeOK
      <3>2. Len(held) \in 1..Len(held) /\ Len(held) \in DOMAIN held
        BY <3>1
      <3>3. \A i \in 1..Len(futures) : futures[i] = held[i] /\ i # Len(held)
                                        /\ i \in DOMAIN held
        BY <2>1
      <3>4. DOMAIN futures = 1..Len(futures)
        BY <2>1
      <3> QED
        BY <3>1, <3>2, <3>3, <3>4 DEF Last, ToSet, PlaceInv, IsInjective
    <2>3. new \notin Sent
      BY <2>2 DEF PlaceInv
    <2>4. job[new] = "none"
      BY <2>2, <2>3 DEF JobInv
    <2> HIDE DEF new
    <2>5. \A d \in Client : Judged(d)' <=> Judged(d)
      BY <2>1, <2>4 DEF Judged, LoopTypeOK
    <2> QED
      BY <1>2, <2>1, <2>5 DEF Inside
  <1>5. ASSUME NEW c \in Client, Answer(c)
        PROVE  Flow!Judge(c)
    <2>1. PICK result \in {"done", "failed", "threw"} :
            job' = [job EXCEPT ![c] = result]
      BY <1>5 DEF Answer
    <2>2. /\ job[c] = "queued"
          /\ UNCHANGED <<tasks, dropped, held, futures, sent>>
          /\ Sent' = Sent /\ Inside' = Inside
      BY <1>5 DEF Answer, intakeVars, dispatchVars, Sent, Inside
    <2>3. c \notin Sent
      BY <2>2 DEF JobInv
    <2>4. c \in Inside /\ c \notin dropped
      <3>1. c \in ToSet(futures)
        BY <2>2, <2>3 DEF JobInv
      <3> QED
        BY <3>1, FuturesHeld DEF Inside, PlaceInv
    <2>5. /\ ~Judged(c) /\ Judged(c)'
          /\ \A d \in Client \ {c} : Judged(d)' <=> Judged(d)
      BY <2>1, <2>2 DEF Judged, LoopTypeOK
    <2>6. FlowState(c) = "accepted"
      BY <2>3, <2>4, <2>5, FlowStateBySets
    <2>7. FlowState(c)' = "judged"
      BY <2>2, <2>3, <2>5, FlowStateNext
    <2>8. \A d \in Client \ {c} : FlowState(d)' = FlowState(d)
      BY <2>2, <2>5, FlowStateBySets, FlowStateNext
    <2>9. Flow!Becomes(c, "accepted", "judged")
      BY <2>6, <2>7, <2>8, OneBecomes
    <2>10. FlowLeft' = FlowLeft
      BY <2>2, LeftStays
    <2> QED
      BY <2>9, <2>10 DEF Flow!Judge, FlowLeft
  <1>6. ASSUME Write PROVE \E c \in Client : Flow!Leave(c)
    <2>a. /\ held = futures /\ held \in Seq(Client) /\ it \in 1..Len(held)
          /\ Ready(job[held[it]])
      BY <1>6 DEF Write, LoopGoes, ListsAligned, DispatchInv, Dispatching, LoopTypeOK
    <2>b. PICK out \in Client : out = held[it]
      BY <2>a
    <2>1. /\ held = futures /\ held \in Seq(Client) /\ it \in 1..Len(held)
          /\ held[it] = out /\ Ready(job[out])
      BY <2>a, <2>b
    <2>2. out \in ToSet(held)
      BY <2>1 DEF ToSet
    <2>3. /\ UNCHANGED <<tasks, dropped, job>>
          /\ held' = RemoveAt(held, it)
      BY <1>6 DEF Write, intakeVars
    <2>4. ToSet(held') = ToSet(held) \ {out}
      BY <2>1, <2>3, RemoveAtSet DEF PlaceInv
    <2>5. /\ Len(sent) \in Nat /\ DOMAIN sent = 1..Len(sent)
          /\ DOMAIN sent' = 1..(Len(sent) + 1)
          /\ \A i \in 1..Len(sent) : sent'[i] = sent[i]
          /\ sent'[Len(sent) + 1].payload = out
          /\ sent'[Len(sent) + 1].verdict = out
      BY <1>6, <2>1, WriteAppends
    <2>6. 1..(Len(sent) + 1) = 1..Len(sent) \cup {Len(sent) + 1}
      BY <2>5
    <2>7. Sent' = Sent \cup {out}
      BY <2>5, <2>6 DEF Sent
    <2>8. Inside' \cup {out} = Inside /\ out \notin Inside'
      BY <2>2, <2>3, <2>4 DEF Inside, PlaceInv
    <2>9. \A d \in Client : Judged(d)' <=> Judged(d)
      BY <2>3 DEF Judged
    <2>10. FlowState(out) = "judged"
      BY <2>1, <2>2, FlowStateBySets DEF Judged, Ready, PlaceInv
    <2>11. FlowState(out)' = "left"
      BY <2>2, <2>7, FlowStateNext
    <2>12. \A d \in Client \ {out} : FlowState(d)' = FlowState(d)
      BY <2>3, <2>7, <2>8, <2>9, FlowStateBySets, FlowStateNext
    <2>13. Flow!Becomes(out, "judged", "left")
      BY <2>2, <2>10, <2>11, <2>12, OneBecomes
    <2>14. FlowLeft' = Append(FlowLeft, out)
      BY <2>5, <2>6 DEF FlowLeft
    <2>15. Flow!Leave(out)
      BY <2>13, <2>14 DEF Flow!Leave, FlowLeft
    <2> QED
      BY <2>2, <2>15
  <1>7. ASSUME UNCHANGED <<tasks, held, futures, sent, dropped, job>>
        PROVE  UNCHANGED Flow!flowVars
    BY <1>2, <1>7 DEF Inside, Judged
  <1> QED
    BY <1>1, <1>3, <1>4, <1>5, <1>6, <1>7, StepKinds DEF Flow!Next

(* The gateway implements the abstract flow of payloads: each is accepted  *)
(* or dropped once, an accepted one is judged once, and it leaves at most  *)
(* once, after and with its own verdict.                                   *)
THEOREM GatewayRefines == Spec => Refines
  <1>1. IInv /\ [Next]_vars => [Flow!Next]_(Flow!flowVars)
    BY StepRefines
  <1> QED
    BY <1>1, InitRefines, AlwaysFlow, PTL DEF Spec, Refines, Flow!Spec
=============================================================================
