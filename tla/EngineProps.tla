----------------------------- MODULE EngineProps -----------------------------
(***************************************************************************)
(* What the filtering engine promises.                                      *)
(***************************************************************************)
EXTENDS CensorEngine

(* While a task waits, some worker is on its way to the queues or a job     *)
(* still has its notification to send, although that follows the unlock.    *)
AwakeForWork ==
  strings # <<>> \/ images # <<>> =>
    (\E w \in Worker : worker[w] # "asleep") \/ (\E j \in Job : stage[j] = "notify")

(* A task is in one place: at one position of one queue or with one worker. *)
(* The promises that are not answered are exactly those of these tasks,     *)
(* but for one that has its exception and whose worker is about to fall.    *)
TasksOnce ==
  /\ IsInjective(strings) /\ IsInjective(images)
  /\ ToSet(strings) \cap ToSet(images) = {}
  /\ \A w \in Worker : task[w] \notin ToSet(strings) \cup ToSet(images)
  /\ \A v, w \in Worker : task[v] = task[w] /\ task[v] # NoTask => v = w
  /\ \A p \in Part : verdict[p] = "queued" => p \in Pending
  /\ \A p \in Pending : verdict[p] \in {"queued", "error"}

(* What is forbidden is censored in every payload that is reported done,    *)
(* however rebuilds, workers and jobs interleave, unless the trie was       *)
(* broken, or the hash set unfinished, when the part was looked at, or an   *)
(* exception, which the job does not ask for, is about to end the process.  *)
NothingSlips ==
  \A p \in Forbidden :
    stage[p[1]] = "done" =>
      \/ verdict[p] \in {"censored", "excused"}
      \/ \E w \in Worker : worker[w] = "doomed" /\ task[w] = p

(* The engine is the service the gateway's loop uses.                       *)
JobState(j) ==
  IF stage[j] = "idle" THEN "none" ELSE IF stage[j] \in Ended THEN stage[j] ELSE "queued"

JudgedParts == {p \in Part : Answered(p)}

Service == INSTANCE FilterService WITH
  job <- [j \in Job |-> JobState(j)], judged <- JudgedParts, up <- alive
Serves == Service!Spec

(* Once the operator no longer rebuilds, no task stays in its queue for     *)
(* ever, whatever else keeps coming: strings do not starve images, nor      *)
(* images strings.                                                          *)
TasksTaken ==
  <>[]NoBuild =>
    \A p \in Part : p \in ToSet(strings) \cup ToSet(images)
                      ~> p \notin ToSet(strings) \cup ToSet(images) \/ ~alive

(* And if the last build succeeded, every payload gets its answer.          *)
JobsEnd ==
  <>[](NoBuild /\ buildFlag) =>
    \A j \in Job : stage[j] \notin {"idle"} \cup Ended
                     ~> stage[j] \in {"idle"} \cup Ended \/ ~alive

=============================================================================
