------------------------------ MODULE EngineInv ------------------------------
(***************************************************************************)
(* The inductive invariant of the filtering engine, in named parts.         *)
(***************************************************************************)
EXTENDS EngineProps

(* Only a thread in build_all holds trie_mutex_, while it builds the trie   *)
(* and the hashes, and a trie is only unfinished in its hands.              *)
BuildInv ==
  /\ writer # NoOne => writer \in Builder /\ at[writer] \in {"trie", "hash"}
  /\ \A t \in Builder : at[t] \in {"trie", "hash"} => writer = t
  /\ trie = "partial" => writer # NoOne /\ at[writer] = "trie"

(* What a worker holds, and what it may let pass.                           *)
WorkerInv ==
  \A w \in Worker :
    /\ worker[w] \in {"lock", "asleep"} <=> task[w] = NoTask
    /\ worker[w] = "pass" => task[w] \notin Forbidden
    /\ task[w] \in Part => (worker[w] = "image" <=> IsImage(task[w]))

KindInv ==
  /\ \A p \in ToSet(strings) : ~IsImage(p)
  /\ \A p \in ToSet(images) : IsImage(p)

(* The promises of the tasks, and why one may hold an exception.            *)
PromiseInv ==
  /\ \A p \in ToSet(strings) \cup ToSet(images) : verdict[p] = "queued"
  /\ \A w \in Worker : task[w] # NoTask =>
       verdict[task[w]] = IF worker[w] = "doomed" THEN "error" ELSE "queued"
  /\ \A p \in Part : verdict[p] = "error" /\ ~IsImage(p) =>
       \E w \in Worker : worker[w] = "doomed" /\ task[w] = p

(* Where a job stands says how far its parts are.                           *)
StageInv ==
  \A j \in Job :
    /\ stage[j] \in {"open", "spans", "images", "threw"} => j \in Doc
    /\ stage[j] = "wait" => j \in Text
    /\ stage[j] = "notify" => MorePuts(j)
    /\ stage[j] = "images" => next[j] > Spans

PartInv ==
  \A p \in Part :
    /\ stage[p[1]] \in {"idle", "open"} => verdict[p] = "none"
    /\ stage[p[1]] = "put" /\ p[2] >= next[p[1]] => verdict[p] = "none"
    /\ stage[p[1]] = "notify" /\ p[2] > next[p[1]] => verdict[p] = "none"
    /\ stage[p[1]] = "images" /\ p[2] < next[p[1]] =>
         Answered(p) /\ (IsImage(p) => verdict[p] # "error")
    /\ stage[p[1]] = "done" =>
         Answered(p) /\ (p[1] \in Text \/ IsImage(p) => verdict[p] # "error")

(* No worker overlooks what is forbidden in a whole trie.                   *)
VerdictInv ==
  \A p \in Part :
    /\ verdict[p] # "missed"
    /\ verdict[p] = "clean" => p \notin Forbidden

IInv == /\ TypeOK /\ BuildInv /\ WorkerInv /\ KindInv /\ TasksOnce /\ PromiseInv
        /\ StageInv /\ PartInv /\ VerdictInv
=============================================================================
