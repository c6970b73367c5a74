------------------------------- MODULE Gateway -------------------------------
(***************************************************************************)
(* CDSGateway: main, the accept loop, the session threads, the filtering   *)
(* loop and the engine behind it, in one process, with the clients and the *)
(* send-mode guard around it.                                              *)
(***************************************************************************)
EXTENDS GatewayLoop

vars == <<intakeVars, loopVars, guardVars>>

Init == IntakeInit /\ LoopInit

(* join of the accept thread and of the filtering thread, then the end of  *)
(* the process, detached threads included.                                 *)
Join ==
  /\ main = "join"
  /\ acceptor = "closed" /\ loop = "done"
  /\ main' = "exited"
  /\ UNCHANGED <<acceptor, session, slots, txt, tasks, dropped, lockHeld,
                 sleeping, loopVars>>

Next ==
  \/ SessionStep /\ UNCHANGED <<loopVars, guardVars>>
  \/ Shutdown /\ UNCHANGED <<loopVars, guardVars>>
  \/ (Join \/ LoopStep \/ Spurious) /\ UNCHANGED guardVars
  \/ \E c \in Client : (Answer(c) \/ WorkerThrows(c)) /\ UNCHANGED guardVars
  \/ GuardMoves /\ UNCHANGED <<intakeVars, loopVars>>

Spec == Init /\ [][Next]_vars

(***************************************************************************)
(* The process's own threads keep running.  Nothing is assumed of clients, *)
(* of the guard, of the moment main stops, or of spurious wake-ups.        *)
(***************************************************************************)
Fairness ==
  /\ WF_vars(LoopStep /\ UNCHANGED guardVars)
  /\ WF_vars((\E c \in Connection : Accept(c)) /\ UNCHANGED <<loopVars, guardVars>>)
  /\ WF_vars((WakeAcceptor \/ WakeFiltering) /\ UNCHANGED <<loopVars, guardVars>>)
  /\ WF_vars(Join /\ UNCHANGED guardVars)
  /\ \A c \in Client :
       /\ WF_vars((Store(c) \/ Close(c)) /\ UNCHANGED <<loopVars, guardVars>>)
       /\ WF_vars(Answer(c) /\ UNCHANGED guardVars)

FairSpec == Spec /\ Fairness

-----------------------------------------------------------------------------
TypeOK == IntakeTypeOK /\ LoopTypeOK

(* g_active_connections never says less than the threads there are, and    *)
(* never more than MAX_CONNECTIONS: although sessions count down without   *)
(* the mutex the limit is checked under, there are never too many threads, *)
(* and size_t never wraps below 0.                                         *)
SlotsCoverSessions == Cardinality(Served) <= slots /\ slots <= MAX_CONNECTIONS

(* The filtering loop never sleeps while a payload waits for it or for its *)
(* verdict.                                                                *)
AwakeForTasks ==
  loop = "asleep" /\ sleeping => tasks = <<>> /\ futures = <<>>

(* censor_task_list and censor_future_result_list are two lists advanced   *)
(* side by side: the verdict at a position is the one of the payload there *)
(* although the mutex is released between the two insertions.              *)
ListsAligned ==
  IF loop = "enqueue" THEN held = Append(futures, Last(held))
                      ELSE held = futures

(* The gateway implements the flow of payloads.                            *)
FlowState(c) ==
  IF \E i \in DOMAIN sent : sent[i].payload = c THEN "left"
  ELSE IF job[c] \in {"done", "failed", "threw"} THEN "judged"
  ELSE IF c \in dropped THEN "dropped"
  ELSE IF c \in ToSet(tasks) \cup ToSet(held) THEN "accepted"
  ELSE "outside"

Flow == INSTANCE PayloadFlow WITH
          state <- [c \in Client |-> FlowState(c)],
          left <- [i \in DOMAIN sent |-> sent[i].verdict]
Refines == Flow!Spec

-----------------------------------------------------------------------------
(* A payload that was stored leaves for the guard, if a guard is there and *)
(* the gateway is neither stopped nor brought down by its engine.          *)
Leaves(c) == \E i \in DOMAIN sent : sent[i].payload = c



-----------------------------------------------------------------------------
(* CdsGateway.cpp:237, "Too many connections or tasks": a connection is    *)
(* refused only while that many are being served or are waiting.           *)
RefusedOnlyWhenFull ==
  [][\A c \in Client :
       session[c] # "refused" /\ session'[c] = "refused"
         => \/ Cardinality(Served) = MAX_CONNECTIONS
            \/ Len(tasks) >= MAX_TASKS]_vars

(* The branches at CdsGateway.cpp:283-297 are for a ".txt" file, another    *)
(* document ("docx, hwpx, ...") and a pure text message: what was sent      *)
(* decides which one a payload takes, and as what it goes on to the guard.  *)
KindDecides ==
  \A c \in Client : job[c] # "none" =>
    /\ StringJob(c) <=> Kind[c] # "doc"
    /\ IsFile(c) <=> Kind[c] # "text"
=============================================================================
