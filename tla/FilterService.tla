---------------------------- MODULE FilterService ----------------------------
(***************************************************************************)
(* What the filtering loop may rely on: a payload it hands to the engine is *)
(* answered at most once, with success only when every part of it has been  *)
(* judged; only a document can end in an exception.                         *)
(***************************************************************************)
CONSTANTS Text, Doc, Part

VARIABLES
  job,     \* of a payload: "none", "queued", "done", "failed", "threw"
  judged,  \* the parts that have been judged
  up       \* the process is running

serviceVars == <<job, judged, up>>

Of(j) == {p \in Part : p[1] = j}

Init ==
  /\ job = [j \in Text \cup Doc |-> "none"]
  /\ judged = {}
  /\ up = TRUE

Submit(j) ==
  /\ job[j] = "none"
  /\ job' = [job EXCEPT ![j] = "queued"]
  /\ UNCHANGED <<judged, up>>

(* Judging what belongs to a payload already answered may end the process.  *)
Judge(p) ==
  /\ p \notin judged /\ job[p[1]] # "none"
  /\ judged' = judged \cup {p}
  /\ up' \in {TRUE, job[p[1]] = "queued"}
  /\ UNCHANGED job

Answer(j, result) ==
  /\ job[j] = "queued"
  /\ result = "done" => Of(j) \subseteq judged
  /\ result = "threw" => j \in Doc
  /\ job' = [job EXCEPT ![j] = result]
  /\ UNCHANGED <<judged, up>>

Forget(j) ==
  /\ job[j] \in {"done", "failed", "threw"}
  /\ job' = [job EXCEPT ![j] = "none"]
  /\ judged' = judged \ Of(j)
  /\ UNCHANGED up

Crash == up' = FALSE /\ UNCHANGED <<job, judged>>

Next ==
  /\ up
  /\ \/ \E j \in Text \cup Doc :
          Submit(j) \/ Forget(j) \/ \E r \in {"done", "failed", "threw"} : Answer(j, r)
     \/ \E p \in Part : Judge(p)
     \/ Crash

Spec == Init /\ [][Next]_serviceVars
=============================================================================
