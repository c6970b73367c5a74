----------------------------- MODULE GatewayLoop -----------------------------
(***************************************************************************)
(* CdsGatewayFilteringProcessingLoop and the callback it was given,        *)
(* DispatchFilteredPayloadTcp.  One thread takes the payloads the sessions *)
(* have stored, has them filtered, and sends those whose verdict is ready  *)
(* to the send-mode guard, whose endpoint it discovers and caches.         *)
(*                                                                         *)
(* The filtering engine is seen through its futures only: a job is queued, *)
(* and later done, or failed, or ended by an exception.                    *)
(***************************************************************************)
EXTENDS GatewayIntake, SequencesExt

CONSTANTS
  Endpoint,      \* where the send-mode guard may listen
  Nowhere,       \* no guard is running, or none is known
  MAX_MOVES,     \* bound: how often the guard stops or comes back elsewhere
  EngineErrors   \* TRUE: jobs may fail or throw

ASSUME LoopAssumption ==
  /\ Nowhere \notin Endpoint
  /\ MAX_MOVES \in Nat
  /\ EngineErrors \in BOOLEAN

VARIABLES
  loop,     \* where the filtering loop stands
  held,     \* censor_task_list
  futures,  \* censor_future_result_list: whose job each future belongs to
  more,     \* receive_task_it is not at the end of the list
  it,       \* censor_task_it and censor_future_it, advanced together
  job,      \* the state of each payload's job in the engine
  cached,   \* g_guard_endpoint
  target,   \* guard_endpoint of the running dispatch
  sent,     \* what was written to the guard, or lost in the attempt
  guardAt,  \* where the guard listens
  moves     \* how often it has moved

loopVars == <<loop, held, futures, more, it, job, cached, target, sent>>
guardVars == <<guardAt, moves>>

Dispatching == {"lookup", "connect", "write"}

LoopTypeOK ==
  /\ loop \in {"head", "evaluate", "blocking", "asleep", "drain", "enqueue",
               "poll", "done"} \cup Dispatching
  /\ held \in Seq(Client) /\ futures \in Seq(Client)
  /\ more \in BOOLEAN
  /\ it \in Nat \ {0}
  /\ job \in [Client -> {"none", "queued", "done", "failed", "threw"}]
  /\ cached \in Endpoint \cup {Nowhere}
  /\ target \in Endpoint \cup {Nowhere}
  /\ sent \in Seq([payload : Client, verdict : Client, file : BOOLEAN,
                   ok : BOOLEAN])
  /\ guardAt \in Endpoint \cup {Nowhere}
  /\ moves \in 0..MAX_MOVES

LoopInit ==
  /\ loop = "head"
  /\ held = <<>> /\ futures = <<>>
  /\ more = FALSE
  /\ it = 1
  /\ job = [c \in Client |-> "none"]
  /\ cached = Nowhere /\ target = Nowhere
  /\ sent = <<>>
  /\ guardAt \in Endpoint
  /\ moves = 0

(* The loop's steps that only it and the mutex see.                        *)
LoopGoes(from, to) ==
  /\ Alive
  /\ loop = from
  /\ loop' = to

intakeOthers == <<main, acceptor, session, slots, txt, dropped>>
dispatchVars == <<cached, target, sent>>
listVars == <<held, futures, more, it, job>>

-----------------------------------------------------------------------------
StopSeen ==
  /\ StopRequested
  /\ LoopGoes("head", "done")
  /\ UNCHANGED <<intakeVars, listVars, dispatchVars>>

LockTasks ==
  /\ ~StopRequested
  /\ LoopGoes("head", "evaluate")
  /\ lockHeld' = TRUE
  /\ UNCHANGED <<intakeOthers, tasks, sleeping, listVars, dispatchVars>>

(* The predicate of g_task_cv.wait.                                        *)
MutSomethingToDo == tasks # <<>> \/ StopRequested
SomethingToDo == tasks # <<>> \/ futures # <<>> \/ StopRequested

Evaluate ==
  /\ LoopGoes("evaluate", IF SomethingToDo THEN "drain" ELSE "blocking")
  /\ UNCHANGED <<intakeVars, listVars, dispatchVars>>

(* The condition variable releases the mutex and sleeps at once, as far as *)
(* notifiers that hold the mutex can tell.                                 *)
Block ==
  /\ LoopGoes("blocking", "asleep")
  /\ lockHeld' = FALSE /\ sleeping' = TRUE
  /\ UNCHANGED <<intakeOthers, tasks, listVars, dispatchVars>>

Awake ==
  /\ ~sleeping
  /\ LoopGoes("asleep", "evaluate")
  /\ lockHeld' = TRUE
  /\ UNCHANGED <<intakeOthers, tasks, sleeping, listVars, dispatchVars>>

Spurious ==
  /\ Alive
  /\ loop = "asleep" /\ sleeping
  /\ sleeping' = FALSE
  /\ UNCHANGED <<intakeOthers, tasks, lockHeld, loop, listVars, dispatchVars>>

-----------------------------------------------------------------------------
(* One payload is moved to censor_task_list.  The list iterator has passed *)
(* the end once the last element is erased: what is pushed while the mutex *)
(* is free waits for the next round.                                       *)
Take ==
  /\ tasks # <<>>
  /\ LoopGoes("drain", "enqueue")
  /\ held' = Append(held, Head(tasks))
  /\ tasks' = Tail(tasks)
  /\ more' = (Len(tasks) > 1)
  /\ lockHeld' = FALSE
  /\ UNCHANGED <<intakeOthers, sleeping, futures, it, job, dispatchVars>>

DrainOver ==
  /\ tasks = <<>>
  /\ LoopGoes("drain", "poll")
  /\ lockHeld' = FALSE
  /\ it' = 1
  /\ UNCHANGED <<intakeOthers, tasks, sleeping, held, futures, more, job,
                 dispatchVars>>

(* A .txt payload, and a text message, is one string job; another file is  *)
(* a document job.                                                         *)
IsFile(c) == Kind[c] \in {"txt", "doc"} \/ txt[c]
StringJob(c) == txt[c] \/ Kind[c] = "text"

FuturesWith == Append(futures, Last(held))

(* enqueue_censor_string, which may wait for the rules to be rebuilt, or   *)
(* enqueue_censor_document_file, a thread of its own; then the mutex again *)
(* and the next payload, or the end of the list.                           *)
Enqueue ==
  /\ LoopGoes("enqueue", IF more THEN "drain" ELSE "poll")
  /\ lockHeld' = more
  /\ job' = [job EXCEPT ![Last(held)] = "queued"]
  /\ futures' = FuturesWith
  /\ it' = 1
  /\ UNCHANGED <<intakeOthers, tasks, sleeping, held, more, dispatchVars>>

-----------------------------------------------------------------------------
(* One round over both lists: whatever is ready is dispatched.             *)
PollOver ==
  /\ LoopGoes("poll", "head")
  /\ it > Len(held)
  /\ UNCHANGED <<intakeVars, listVars, dispatchVars>>

PollPending ==
  /\ LoopGoes("poll", "poll")
  /\ it <= Len(held) /\ job[futures[it]] = "queued"
  /\ it' = it + 1
  /\ UNCHANGED <<intakeVars, held, futures, more, job, dispatchVars>>

MutReady(j) == j \in {"queued", "done", "failed"}
Ready(j) == j \in {"done", "failed"}

PollReady ==
  /\ LoopGoes("poll", "lookup")
  /\ it <= Len(held) /\ Ready(job[futures[it]])
  /\ UNCHANGED <<intakeVars, listVars, dispatchVars>>

(* future.get() rethrows, nothing in the thread catches it.                *)
PollThrows ==
  /\ LoopGoes("poll", "poll")
  /\ it <= Len(held) /\ job[futures[it]] = "threw"
  /\ main' = "crashed"
  /\ UNCHANGED <<acceptor, session, slots, txt, tasks, dropped, lockHeld,
                 sleeping, listVars, dispatchVars>>

-----------------------------------------------------------------------------
(* GetCurrentGuardEndpoint: the cached endpoint, or a discovery that is    *)
(* repeated until a guard answers.                                         *)
Lookup ==
  /\ LoopGoes("lookup", "connect")
  /\ \/ /\ cached # Nowhere
        /\ target' = cached
     \/ /\ cached = Nowhere /\ guardAt # Nowhere
        /\ target' = guardAt
  /\ cached' = target'
  /\ UNCHANGED <<intakeVars, listVars, sent>>

ConnectGuard ==
  /\ target = guardAt
  /\ LoopGoes("connect", "write")
  /\ UNCHANGED <<intakeVars, listVars, dispatchVars>>

Forget(e) == IF cached = e THEN Nowhere ELSE cached

ConnectFails ==
  /\ target # guardAt
  /\ LoopGoes("connect", "lookup")
  /\ cached' = Forget(target)
  /\ UNCHANGED <<intakeVars, listVars, target, sent>>

(* The payload is written, or an exception in between is logged and the    *)
(* payload is gone; either way both lists lose their element.              *)
Write ==
  /\ LoopGoes("write", "poll")
  /\ \E ok \in BOOLEAN :
       sent' = Append(sent, [payload |-> held[it], verdict |-> futures[it],
                             file |-> IsFile(held[it]), ok |-> ok])
  /\ held' = RemoveAt(held, it)
  /\ futures' = RemoveAt(futures, it)
  /\ UNCHANGED <<intakeVars, more, it, job, cached, target>>

LoopStep ==
  \/ StopSeen \/ LockTasks \/ Evaluate \/ Block \/ Awake
  \/ Take \/ DrainOver \/ Enqueue
  \/ PollOver \/ PollPending \/ PollReady \/ PollThrows
  \/ Lookup \/ ConnectGuard \/ ConnectFails \/ Write

-----------------------------------------------------------------------------
(* The engine answers a job.  A document that could not be rebuilt has     *)
(* size 0, and is dispatched as it came in.                                *)
Answer(c) ==
  /\ Alive
  /\ job[c] = "queued"
  /\ \E result \in {"done", "failed", "threw"} :
       /\ ~EngineErrors => result = "done"
       /\ result = "threw" => ~StringJob(c)
       /\ job' = [job EXCEPT ![c] = result]
  /\ UNCHANGED <<intakeVars, loop, held, futures, more, it, dispatchVars>>

(* A worker whose string job threw sets the promise a second time, and     *)
(* that exception ends the process.                                        *)
WorkerThrows(c) ==
  /\ Alive
  /\ job[c] = "failed" /\ StringJob(c)
  /\ main' = "crashed"
  /\ UNCHANGED <<acceptor, session, slots, txt, tasks, dropped, lockHeld,
                 sleeping, loopVars>>

(* The send-mode guard stops, or is started again on another port.         *)
GuardMoves ==
  /\ moves < MAX_MOVES
  /\ \E place \in (Endpoint \cup {Nowhere}) \ {guardAt} : guardAt' = place
  /\ moves' = moves + 1
=============================================================================
