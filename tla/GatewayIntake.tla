---------------------------- MODULE GatewayIntake ----------------------------
(***************************************************************************)
(* How payloads enter CDSGateway: the accept loop hands every control      *)
(* connection to a detached ControlSession thread, which opens a data port *)
(* and reads one payload from it into g_receive_task_list.                 *)
(*                                                                         *)
(* A client is one use of TransferController::sendData and stands for its  *)
(* payload as well.  main's own connection, made at shutdown to wake the   *)
(* accept loop, is one more connection that never sends anything.          *)
(***************************************************************************)
EXTENDS Integers, Sequences, FiniteSets

CONSTANTS
  Client,           \* the uses of sendData
  Kind,             \* what each sends: "text", a "txt" file, another "doc"
  Wakeup,           \* the connection of CdsGatewayWakeupConnectionAcceptor
  MAX_CONNECTIONS,  \* 4 in the code
  MAX_TASKS         \* 16 in the code

Connection == Client \cup {Wakeup}

ASSUME IntakeAssumption ==
  /\ IsFiniteSet(Client)
  /\ Wakeup \notin Client
  /\ Kind \in [Client -> {"text", "txt", "doc"}]
  /\ MAX_CONNECTIONS \in Nat \ {0}
  /\ MAX_TASKS \in Nat \ {0}

VARIABLES
  main,      \* main(): app.exec(), the shutdown sequence, the end
  acceptor,  \* whether the accept loop still runs
  session,   \* how far each connection, and the thread serving it, has come
  slots,     \* g_active_connections
  txt,       \* is_txt_file of each payload
  tasks,     \* g_receive_task_list
  dropped,   \* payloads that were read while the list was full
  lockHeld,  \* the filtering loop keeps g_task_mutex over several steps
  sleeping   \* the filtering loop is blocked in g_task_cv

intakeVars == <<main, acceptor, session, slots, txt, tasks, dropped,
                lockHeld, sleeping>>

Stage == {"none", "backlog", "refused", "control", "abandoned", "reading",
          "store", "closing", "ended", "leaked"}

IntakeTypeOK ==
  /\ main \in {"running", "connect", "notify", "join", "exited", "crashed"}
  /\ acceptor \in {"open", "closed"}
  /\ session \in [Connection -> Stage]
  /\ slots \in Nat
  /\ txt \in [Client -> BOOLEAN]
  /\ tasks \in Seq(Client) /\ Len(tasks) <= MAX_TASKS
  /\ dropped \subseteq Client
  /\ lockHeld \in BOOLEAN /\ sleeping \in BOOLEAN

IntakeInit ==
  /\ main = "running"
  /\ acceptor = "open"
  /\ session = [c \in Connection |-> "none"]
  /\ slots = 0
  /\ txt = [c \in Client |-> FALSE]
  /\ tasks = <<>>
  /\ dropped = {}
  /\ lockHeld = FALSE /\ sleeping = FALSE

Alive == main \notin {"exited", "crashed"}
StopRequested == main \notin {"running", "crashed"}

(* The connections a detached thread is serving.                           *)
Served == { c \in Connection :
              session[c] \in {"control", "abandoned", "reading", "store",
                              "closing"} }

Goes(c, from, to) ==
  /\ Alive
  /\ session[c] = from
  /\ session' = [session EXCEPT ![c] = to]

-----------------------------------------------------------------------------
Dial(c) ==
  /\ Goes(c, "none", "backlog")
  /\ UNCHANGED <<main, acceptor, slots, txt, tasks, dropped, lockHeld,
                 sleeping>>

(* The accept loop: the limits are read under g_task_mutex, but sessions   *)
(* give their slot back without it.  Once a stop is requested the loop     *)
(* ends with the connection it was waiting for.                            *)
MutTooMany == slots > MAX_CONNECTIONS \/ Len(tasks) >= MAX_TASKS
TooMany == slots >= MAX_CONNECTIONS \/ Len(tasks) >= MAX_TASKS

Accept(c) ==
  /\ acceptor = "open"
  /\ ~lockHeld
  /\ \/ /\ TooMany
        /\ Goes(c, "backlog", "refused")
        /\ UNCHANGED slots
     \/ /\ ~TooMany
        /\ Goes(c, "backlog", "control")
        /\ slots' = slots + 1
  /\ acceptor' = IF StopRequested THEN "closed" ELSE "open"
  /\ UNCHANGED <<main, txt, tasks, dropped, lockHeld, sleeping>>

(* ControlSession: opening the data port or writing its number fails.  The *)
(* handler logs it, the slot is not given back.                            *)
ControlFails(c) ==
  /\ Goes(c, "control", "leaked")
  /\ UNCHANGED <<main, acceptor, slots, txt, tasks, dropped, lockHeld,
                 sleeping>>

(* The user sent an empty text, or a file that does not open: the client   *)
(* has a data port and never connects to it; accept has no time limit.     *)
GiveUp(c) ==
  /\ Goes(c, "control", "abandoned")
  /\ UNCHANGED <<main, acceptor, slots, txt, tasks, dropped, lockHeld,
                 sleeping>>

Connect(c) ==
  /\ Goes(c, "control", "reading")
  /\ UNCHANGED <<main, acceptor, slots, txt, tasks, dropped, lockHeld,
                 sleeping>>

(* FileSinkSession has the whole payload.  is_txt_file is assigned for     *)
(* .txt files only, and is whatever the stack held for the others.         *)
ReadPayload(c) ==
  /\ Goes(c, "reading", "store")
  /\ \E flag \in BOOLEAN :
       /\ Kind[c] = "txt" => flag
       /\ txt' = [txt EXCEPT ![c] = flag]
  /\ UNCHANGED <<main, acceptor, slots, tasks, dropped, lockHeld, sleeping>>

(* A read throws: the client went away.                                    *)
ReadFails(c) ==
  /\ Goes(c, "reading", "closing")
  /\ UNCHANGED <<main, acceptor, slots, txt, tasks, dropped, lockHeld,
                 sleeping>>

(* The magic number or the tag is wrong, as when the client was given an   *)
(* address it could not parse and left the header out: return, past the    *)
(* decrement.                                                              *)
ReadRejected(c) ==
  /\ Goes(c, "reading", "leaked")
  /\ UNCHANGED <<main, acceptor, slots, txt, tasks, dropped, lockHeld,
                 sleeping>>

(* push_back and notify_all in one hold of the mutex; a payload that finds *)
(* the list full is dropped without a word.                                *)
Store(c) ==
  /\ ~lockHeld
  /\ Goes(c, "store", "closing")
  /\ \/ /\ Len(tasks) < MAX_TASKS
        /\ tasks' = Append(tasks, c)
        /\ sleeping' = FALSE
        /\ UNCHANGED dropped
     \/ /\ Len(tasks) >= MAX_TASKS
        /\ dropped' = dropped \cup {c}
        /\ UNCHANGED <<tasks, sleeping>>
  /\ UNCHANGED <<main, acceptor, slots, txt, lockHeld>>

Close(c) ==
  /\ Goes(c, "closing", "ended")
  /\ slots' = slots - 1
  /\ UNCHANGED <<main, acceptor, txt, tasks, dropped, lockHeld, sleeping>>

SessionStep ==
  \/ \E c \in Client : Dial(c) \/ Connect(c) \/ ReadPayload(c) \/ ReadFails(c)
                         \/ ReadRejected(c) \/ Store(c) \/ Close(c)
  \/ \E c \in Connection : Accept(c) \/ ControlFails(c) \/ GiveUp(c)

-----------------------------------------------------------------------------
(* main, after app.exec has returned: stop everything, wake everybody, and *)
(* wait for the threads.                                                   *)
RequestStop ==
  /\ main = "running"
  /\ main' = "connect"
  /\ UNCHANGED <<acceptor, session, slots, txt, tasks, dropped, lockHeld,
                 sleeping>>

WakeAcceptor ==
  /\ main = "connect"
  /\ main' = "notify"
  /\ session' = [session EXCEPT ![Wakeup] = "backlog"]
  /\ UNCHANGED <<acceptor, slots, txt, tasks, dropped, lockHeld, sleeping>>

WakeFiltering ==
  /\ main = "notify"
  /\ main' = "join"
  /\ sleeping' = FALSE
  /\ UNCHANGED <<acceptor, session, slots, txt, tasks, dropped, lockHeld>>

Shutdown == RequestStop \/ WakeAcceptor \/ WakeFiltering
=============================================================================
