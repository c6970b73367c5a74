----------------------------- MODULE GatewayInv -----------------------------
(***************************************************************************)
(* The inductive invariant of Gateway, in named parts.                     *)
(***************************************************************************)
EXTENDS Gateway

(* The connections whose slot is taken: those a thread serves, and those   *)
(* whose thread left without giving it back.                               *)
Holding == Served \cup { c \in Connection : session[c] = "leaked" }

SlotInv ==
  /\ slots = Cardinality(Holding)
  /\ slots <= MAX_CONNECTIONS

(* main dials in only once.                                                *)
WakeupInv == main \in {"running", "connect"} => session[Wakeup] = "none"

(* Where the filtering loop holds the mutex.                               *)
LockInv == lockHeld <=> loop \in {"evaluate", "blocking", "drain"}

(* Nothing can be stored between the condition and the sleep.              *)
SleepInv ==
  loop = "blocking" \/ (loop = "asleep" /\ sleeping)
    => tasks = <<>> /\ futures = <<>>

(* What is dispatched is in the lists, and has its verdict.                *)
DispatchInv ==
  loop \in Dispatching => it <= Len(held) /\ Ready(job[held[it]])

SafeInv == /\ TypeOK /\ SlotInv /\ WakeupInv /\ LockInv /\ SleepInv
           /\ ListsAligned /\ DispatchInv

-----------------------------------------------------------------------------
(* Where each payload is.                                                  *)
Sent == { sent[i].payload : i \in DOMAIN sent }

(* No payload is twice in the lists, or in two of the places at once.      *)
PlaceInv ==
  /\ IsInjective(tasks) /\ IsInjective(held)
  /\ ToSet(tasks) \cap ToSet(held) = {}
  /\ dropped \cap (ToSet(tasks) \cup ToSet(held)) = {}
  /\ Sent \cap (ToSet(tasks) \cup ToSet(held) \cup dropped) = {}
  /\ \A c \in ToSet(tasks) \cup ToSet(held) \cup dropped \cup Sent :
       session[c] \in {"closing", "ended"}

(* A payload has a job from the moment its future is in the list.          *)
JobInv ==
  /\ \A c \in Client : job[c] # "none" <=> c \in ToSet(futures) \cup Sent
  /\ \A c \in Sent : job[c] \in {"done", "failed"}

(* A payload leaves with its own verdict.                                  *)
VerdictInv == \A i \in DOMAIN sent : sent[i].verdict = sent[i].payload

IInv == SafeInv /\ PlaceInv /\ JobInv /\ VerdictInv
=============================================================================
