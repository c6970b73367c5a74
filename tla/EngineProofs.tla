---------------------------- MODULE EngineProofs ----------------------------
(***************************************************************************)
(* Proofs about the filtering engine for any number of workers, payloads,   *)
(* parts and threads that rebuild the rules.                                *)
(***************************************************************************)
EXTENDS EngineInv, SequenceFacts

(* A part is a payload and a number.                                        *)
LEMMA PartElements ==
  ASSUME NEW p \in Part
  PROVE  p[1] \in Job /\ p[2] \in 1 .. Size(p[1]) /\ p = <<p[1], p[2]>>
  BY EngineAssumption DEF Part, Job, Size

LEMMA JobParts ==
  ASSUME NEW j \in Job, NEW n \in 1 .. Size(j)
  PROVE  <<j, n>> \in Part /\ <<j, n>>[1] = j /\ <<j, n>>[2] = n
  BY EngineAssumption DEF Part, Job, Size

LEMMA PartNumbers ==
  ASSUME NEW j \in Job
  PROVE  /\ Size(j) \in Nat
         /\ j \in Text => Size(j) = 1 /\ j \notin Doc
         /\ j \in Doc => Size(j) = Spans + Pictures
         /\ \A p \in Part : p[1] = j => p[2] \in Nat /\ 1 <= p[2] /\ p[2] <= Size(j)
  <1>1. /\ Size(j) \in Nat
        /\ j \in Text => Size(j) = 1 /\ j \notin Doc
        /\ j \in Doc => Size(j) = Spans + Pictures
    BY EngineAssumption DEF Job, Size
  <1> QED
    BY <1>1, PartElements

LEMMA NoTaskIsNoPart == NoTask \notin Part
  BY EngineAssumption

-----------------------------------------------------------------------------
(* A rebuild leaves the engine alone and keeps the lock where it belongs.   *)
LEMMA RulesKept ==
  ASSUME RuleTypeOK, BuildInv, NEW t \in Thread, StartBuild(t) \/ BuildStep(t)
  PROVE  RuleTypeOK' /\ BuildInv'
  <1> USE BuilderAssumption DEF RuleTypeOK, BuildInv, Goes, Thread
  <1>1. CASE StartBuild(t)
    BY <1>1 DEF StartBuild
  <1>2. CASE ReadArgs(t)
    BY <1>2 DEF ReadArgs, Cleared
  <1>3. CASE ArgsThrow(t)
    BY <1>3 DEF ArgsThrow
  <1>4. CASE ClearFlag(t)
    BY <1>4 DEF ClearFlag
  <1>5. CASE ReplaceRegex(t)
    BY <1>5 DEF ReplaceRegex
  <1>6. CASE LockTrie(t)
    BY <1>6 DEF LockTrie
  <1>7. CASE TrieBuilt(t)
    BY <1>7 DEF TrieBuilt, Cleared
  <1>8. CASE TrieThrows(t)
    BY <1>8 DEF TrieThrows, Unlocked
  <1>9. CASE HashesBuilt(t)
    BY <1>9 DEF HashesBuilt, Unlocked, AfterHashes
  <1>10. CASE HashThrows(t)
    BY <1>10 DEF HashThrows, Unlocked
  <1>11. CASE RaiseFlag(t)
    BY <1>11 DEF RaiseFlag, Raised
  <1> QED
    BY <1>1, <1>2, <1>3, <1>4, <1>5, <1>6, <1>7, <1>8, <1>9, <1>10, <1>11
       DEF BuildStep, BuildThrows, BuildGoesOn

-----------------------------------------------------------------------------
(* Steps of a job that touch neither the queues nor the promises.           *)
JobMoves(j) ==
  \/ Submit(j) \/ Open(j) \/ ImageEmpty(j) \/ CopyRest(j)
  \/ WriteText(j) \/ WriteImage(j) \/ CloseArchives(j) \/ TextReady(j)

LEMMA JobMovesChange ==
  ASSUME TypeOK, NEW j \in Job, JobMoves(j)
  PROVE  /\ UNCHANGED <<strings, images, worker, task, burst, verdict, alive>>
         /\ stage' = [stage EXCEPT ![j] = stage'[j]]
         /\ next' = [next EXCEPT ![j] = next'[j]]
         /\ stage'[j] \in {"put", "open", "failed", "spans", "images", "threw", "done"}
         /\ next'[j] \in 1 .. Spans + Pictures + 2
  <1> USE EngineAssumption DEF TypeOK, To, queueVars, workerVars
  <1>1. CASE Submit(j)
    BY <1>1 DEF Submit
  <1>2. CASE Open(j)
    BY <1>2 DEF Open
  <1>3. CASE ImageEmpty(j)
    BY <1>3 DEF ImageEmpty
  <1>4. CASE CopyRest(j)
    BY <1>4 DEF CopyRest
  <1>5. CASE WriteText(j)
    BY <1>5 DEF WriteText
  <1>6. CASE WriteImage(j)
    <2>1. next[j] <= Spans + Pictures \/ next[j] <= 1
      BY <1>6, PartNumbers DEF WriteImage, MorePuts, Job
    <2> QED
      BY <1>6, <2>1 DEF WriteImage
  <1>7. CASE CloseArchives(j)
    BY <1>7 DEF CloseArchives
  <1>8. CASE TextReady(j)
    BY <1>8 DEF TextReady
  <1> QED
    BY <1>1, <1>2, <1>3, <1>4, <1>5, <1>6, <1>7, <1>8 DEF JobMoves

LEMMA JobMovesStage ==
  ASSUME IInv, NEW j \in Job, JobMoves(j)
  PROVE  /\ stage'[j] \in {"open", "spans", "images", "threw"} => j \in Doc
         /\ stage'[j] = "images" => next'[j] > Spans
  <1> USE EngineAssumption DEF IInv, TypeOK, StageInv, To
  <1>1. CASE Submit(j)
    BY <1>1 DEF Submit, Job
  <1>2. CASE Open(j)
    BY <1>2 DEF Open
  <1>3. CASE ImageEmpty(j)
    BY <1>3 DEF ImageEmpty
  <1>4. CASE CopyRest(j)
    BY <1>4 DEF CopyRest
  <1>5. CASE WriteText(j)
    BY <1>5 DEF WriteText
  <1>6. CASE WriteImage(j)
    BY <1>6 DEF WriteImage
  <1>7. CASE CloseArchives(j)
    BY <1>7 DEF CloseArchives
  <1>8. CASE TextReady(j)
    BY <1>8 DEF TextReady
  <1> QED
    BY <1>1, <1>2, <1>3, <1>4, <1>5, <1>6, <1>7, <1>8 DEF JobMoves

(* What the job has waited for has its answer.                              *)
LEMMA JobMovesParts ==
  ASSUME IInv, NEW j \in Job, JobMoves(j), NEW p \in Part, p[1] = j
  PROVE  /\ stage'[j] \in {"idle", "open"} => verdict[p] = "none"
         /\ stage'[j] = "put" /\ p[2] >= next'[j] => verdict[p] = "none"
         /\ stage'[j] = "notify" /\ p[2] > next'[j] => verdict[p] = "none"
         /\ stage'[j] = "images" /\ p[2] < next'[j] =>
              Answered(p) /\ (IsImage(p) => verdict[p] # "error")
         /\ stage'[j] = "done" =>
              Answered(p) /\ (j \in Text \/ IsImage(p) => verdict[p] # "error")
  <1>0. /\ p[2] \in Nat /\ 1 <= p[2] /\ p[2] <= Size(j) /\ p = <<j, p[2]>>
        /\ Size(j) \in Nat
        /\ j \in Text => Size(j) = 1 /\ j \notin Doc
        /\ j \in Doc => Size(j) = Spans + Pictures
    BY PartNumbers, PartElements
  <1>a. next[j] \in Nat
    BY EngineAssumption DEF IInv, TypeOK
  <1> USE EngineAssumption, <1>0, <1>a DEF IInv, PartInv, StageInv, To
  <1>1. CASE Submit(j)
    BY <1>1 DEF Submit, TypeOK
  <1>2. CASE Open(j)
    BY <1>2 DEF Open, TypeOK
  <1>3. CASE ImageEmpty(j)
    BY <1>3 DEF ImageEmpty, TypeOK
  <1>4. CASE CopyRest(j)
    BY <1>4 DEF CopyRest, TypeOK
  <1>5. CASE WriteText(j)
    <2>1. stage'[j] \in {"images", "failed"} /\ next'[j] = Spans + 1 /\ j \in Doc
      BY <1>5 DEF WriteText, TypeOK
    <2>2. p[2] < Spans + 1 => Answered(p) /\ ~IsImage(p)
      BY <1>5 DEF WriteText, SpansReady, IsImage
    <2> QED
      BY <2>1, <2>2
  <1>6. CASE WriteImage(j)
    <2>1. /\ stage'[j] \in {"images", "failed", "threw"} /\ next'[j] = next[j] + 1
          /\ stage[j] = "images" /\ next[j] > Spans
      BY <1>6 DEF WriteImage, TypeOK
    <2>2. p[2] = next[j] => p = Current(j)
      BY DEF Current
    <2>3. stage'[j] = "images" => verdict[Current(j)] # "error" /\ Answered(Current(j))
      BY <1>6, <2>1 DEF WriteImage, TypeOK
    <2>4. p[2] < next[j] \/ p[2] = next[j] \/ p[2] > next[j]
      OBVIOUS
    <2> QED
      BY <2>1, <2>2, <2>3, <2>4
  <1>7. CASE CloseArchives(j)
    <2>1. stage[j] = "images" /\ stage'[j] \in {"done", "failed"} /\ j \in Doc
      BY <1>7 DEF CloseArchives, TypeOK
    <2>2. p[2] < next[j]
      BY <1>7 DEF CloseArchives, MorePuts
    <2> QED
      BY <2>1, <2>2
  <1>8. CASE TextReady(j)
    <2>1. stage[j] = "wait" /\ j \in Text /\ p = <<j, 1>>
      BY <1>8 DEF TextReady
    <2>2. /\ Answered(p)
          /\ stage'[j] = IF verdict[p] = "error" THEN "failed" ELSE "done"
      BY <1>8, <2>1 DEF TextReady, TypeOK
    <2>3. ~IsImage(p)
      BY <2>1 DEF IsImage
    <2> QED
      BY <2>1, <2>2, <2>3
  <1> QED
    BY <1>1, <1>2, <1>3, <1>4, <1>5, <1>6, <1>7, <1>8 DEF JobMoves

LEMMA JobMovesKeep ==
  ASSUME IInv, NEW j \in Job, JobMoves(j), UNCHANGED ruleVars
  PROVE  IInv'
  <1>0. TypeOK
    BY DEF IInv
  <1>1. /\ UNCHANGED <<strings, images, worker, task, burst, verdict, alive>>
        /\ stage' = [stage EXCEPT ![j] = stage'[j]]
        /\ next' = [next EXCEPT ![j] = next'[j]]
        /\ stage'[j] \in {"put", "open", "failed", "spans", "images", "threw", "done"}
        /\ next'[j] \in 1 .. Spans + Pictures + 2
    BY <1>0, JobMovesChange
  <1>2. PICK s, n : /\ s = stage'[j] /\ n = next'[j]
                    /\ stage' = [stage EXCEPT ![j] = s]
                    /\ next' = [next EXCEPT ![j] = n]
    BY <1>1
  <1>3. TypeOK'
    <2>1. RuleTypeOK'
      BY <1>0 DEF TypeOK, RuleTypeOK, ruleVars
    <2> QED
      BY <1>0, <1>1, <1>2, <2>1 DEF TypeOK, Ended, Enqueuing
  <1>4. BuildInv' /\ WorkerInv' /\ KindInv' /\ VerdictInv'
    BY <1>1 DEF IInv, BuildInv, WorkerInv, KindInv, VerdictInv, ruleVars
  <1>5. TasksOnce' /\ PromiseInv'
    BY <1>1 DEF IInv, TasksOnce, PromiseInv, Pending
  <1>6. StageInv'
    <2> SUFFICES ASSUME NEW i \in Job
                 PROVE  /\ stage'[i] \in {"open", "spans", "images", "threw"} => i \in Doc
                        /\ stage'[i] = "wait" => i \in Text
                        /\ stage'[i] = "notify" => next'[i] <= Size(i)
                        /\ stage'[i] = "images" => next'[i] > Spans
      BY DEF StageInv, MorePuts
    <2>1. CASE i = j
      BY <1>1, <2>1, JobMovesStage
    <2>2. CASE i # j
      BY <1>0, <1>2, <2>2 DEF IInv, StageInv, MorePuts, TypeOK
    <2> QED
      BY <2>1, <2>2
  <1>7. PartInv'
    <2> SUFFICES ASSUME NEW p \in Part
                 PROVE  /\ stage'[p[1]] \in {"idle", "open"} => verdict[p] = "none"
                        /\ stage'[p[1]] = "put" /\ p[2] >= next'[p[1]] => verdict[p] = "none"
                        /\ stage'[p[1]] = "notify" /\ p[2] > next'[p[1]] => verdict[p] = "none"
                        /\ stage'[p[1]] = "images" /\ p[2] < next'[p[1]] =>
                             Answered(p) /\ (IsImage(p) => verdict[p] # "error")
                        /\ stage'[p[1]] = "done" =>
                             Answered(p) /\ (p[1] \in Text \/ IsImage(p) => verdict[p] # "error")
      BY <1>1 DEF PartInv, Answered
    <2>1. CASE p[1] = j
      BY <2>1, JobMovesParts
    <2>2. CASE p[1] # j
      BY <1>0, <1>2, <2>2, PartElements DEF IInv, PartInv, TypeOK
    <2> QED
      BY <2>1, <2>2
  <1> QED
    BY <1>3, <1>4, <1>5, <1>6, <1>7 DEF IInv

-----------------------------------------------------------------------------
(* The queues hold parts, and what is in one of them can be told.           *)
LEMMA QueueElements ==
  ASSUME TypeOK
  PROVE  ToSet(strings) \subseteq Part /\ ToSet(images) \subseteq Part
  BY DEF TypeOK, ToSet

(* The part that is enqueued next has not been enqueued before.             *)
LEMMA CurrentIsNew ==
  ASSUME IInv, NEW j \in Job, stage[j] = "put", MorePuts(j)
  PROVE  /\ Current(j) \in Part /\ Current(j)[1] = j /\ Current(j)[2] = next[j]
         /\ verdict[Current(j)] = "none"
         /\ Current(j) \notin ToSet(strings) \cup ToSet(images)
         /\ \A w \in Worker : task[w] # Current(j)
  <1>1. next[j] \in 1 .. Size(j)
    BY PartNumbers DEF IInv, TypeOK, MorePuts
  <1>2. Current(j) \in Part /\ Current(j)[1] = j /\ Current(j)[2] = next[j]
    BY <1>1, JobParts DEF Current
  <1>3. verdict[Current(j)] = "none"
    BY <1>1, <1>2 DEF IInv, PartInv
  <1> QED
    BY <1>2, <1>3, NoTaskIsNoPart DEF IInv, PromiseInv

LEMMA PushKeeps ==
  ASSUME IInv, NEW j \in Job, Push(j), UNCHANGED ruleVars
  PROVE  IInv'
  <1>0. TypeOK
    BY DEF IInv
  <1>1. PICK p : p = Current(j)
    OBVIOUS
  <1>2. /\ stage[j] = "put" /\ MorePuts(j)
        /\ stage' = [stage EXCEPT ![j] = "notify"]
        /\ verdict' = [verdict EXCEPT ![p] = "queued"]
        /\ UNCHANGED <<next, worker, task, burst, alive>>
        /\ IsImage(p) => images' = Append(images, p) /\ strings' = strings
        /\ ~IsImage(p) => strings' = Append(strings, p) /\ images' = images
    BY <1>1 DEF Push, To, workerVars
  <1>3. /\ p \in Part /\ p[1] = j /\ p[2] = next[j]
        /\ verdict[p] = "none"
        /\ p \notin ToSet(strings) \cup ToSet(images)
        /\ \A w \in Worker : task[w] # p
    BY <1>1, <1>2, CurrentIsNew
  <1>4. strings \in Seq(Part) /\ images \in Seq(Part)
    BY <1>0 DEF TypeOK
  <1>5. /\ ToSet(strings') = IF IsImage(p) THEN ToSet(strings) ELSE ToSet(strings) \cup {p}
        /\ ToSet(images') = IF IsImage(p) THEN ToSet(images) \cup {p} ELSE ToSet(images)
        /\ IsInjective(strings') /\ IsInjective(images')
    <2>1. IsInjective(strings) /\ IsInjective(images)
      BY DEF IInv, TasksOnce
    <2>2. /\ ToSet(Append(images, p)) = ToSet(images) \cup {p}
          /\ ToSet(Append(strings, p)) = ToSet(strings) \cup {p}
          /\ IsInjective(Append(images, p)) /\ IsInjective(Append(strings, p))
      BY <1>3, <1>4, <2>1, AppendSet
    <2>3. CASE IsImage(p)
      BY <1>2, <2>1, <2>2, <2>3
    <2>4. CASE ~IsImage(p)
      BY <1>2, <2>1, <2>2, <2>4
    <2> QED
      BY <2>3, <2>4
  <1>6. TypeOK'
    <2>1. RuleTypeOK'
      BY <1>0 DEF TypeOK, RuleTypeOK, ruleVars
    <2>2. strings' \in Seq(Part) /\ images' \in Seq(Part)
      <3>1. Append(strings, p) \in Seq(Part) /\ Append(images, p) \in Seq(Part)
        BY <1>3, <1>4, AppendProperties
      <3>2. CASE IsImage(p)
        BY <1>2, <1>4, <3>1, <3>2
      <3>3. CASE ~IsImage(p)
        BY <1>2, <1>4, <3>1, <3>3
      <3> QED
        BY <3>2, <3>3
    <2> QED
      BY <1>0, <1>2, <2>1, <2>2 DEF TypeOK, Enqueuing
  <1>7. BuildInv' /\ WorkerInv'
    BY <1>2 DEF IInv, BuildInv, WorkerInv, ruleVars
  <1>8. KindInv'
    BY <1>5 DEF IInv, KindInv
  <1>9. verdict'[p] = "queued" /\ \A q \in Part : q # p => verdict'[q] = verdict[q]
    BY <1>0, <1>2, <1>3 DEF TypeOK
  <1>10. TasksOnce'
    <2>1. /\ ToSet(strings') \cap ToSet(images') = {}
          /\ \A w \in Worker : task'[w] \notin ToSet(strings') \cup ToSet(images')
      BY <1>2, <1>3, <1>5 DEF IInv, TasksOnce
    <2>2. \A v, w \in Worker : task'[v] = task'[w] /\ task'[v] # NoTask => v = w
      BY <1>2 DEF IInv, TasksOnce
    <2>3. Pending' = Pending \cup {p}
      BY <1>2, <1>5 DEF Pending
    <2>4. \A q \in Pending' \ {p} : q \in Part
      <3>1. \A w \in Worker : task[w] \in Part \cup {NoTask}
        BY <1>0 DEF TypeOK
      <3> QED
        BY <1>0, <2>3, <3>1, QueueElements DEF Pending
    <2>5. \A q \in Part : verdict'[q] = "queued" => q \in Pending'
      BY <1>9, <2>3 DEF IInv, TasksOnce
    <2>6. \A q \in Pending' : verdict'[q] \in {"queued", "error"}
      BY <1>9, <2>3, <2>4 DEF IInv, TasksOnce
    <2> QED
      BY <1>5, <2>1, <2>2, <2>5, <2>6 DEF TasksOnce
  <1>11. PromiseInv'
    <2>1. \A q \in ToSet(strings') \cup ToSet(images') : verdict'[q] = "queued"
      BY <1>0, <1>5, <1>9, QueueElements DEF IInv, PromiseInv
    <2>2. \A w \in Worker : task[w] # NoTask => verdict'[task[w]] = verdict[task[w]]
      BY <1>0, <1>3, <1>9 DEF TypeOK
    <2>3. \A q \in Part : verdict'[q] = "error" => verdict[q] = "error"
      BY <1>9
    <2> QED
      BY <1>2, <2>1, <2>2, <2>3 DEF IInv, PromiseInv
  <1>12. stage'[j] = "notify" /\ \A i \in Job : i # j => stage'[i] = stage[i]
    BY <1>0, <1>2 DEF TypeOK
  <1>13. StageInv'
    BY <1>2, <1>12 DEF IInv, StageInv, MorePuts
  <1>14. PartInv'
    <2> SUFFICES ASSUME NEW q \in Part
                 PROVE  /\ stage'[q[1]] \in {"idle", "open"} => verdict'[q] = "none"
                        /\ stage'[q[1]] = "put" /\ q[2] >= next[q[1]] => verdict'[q] = "none"
                        /\ stage'[q[1]] = "notify" /\ q[2] > next[q[1]] => verdict'[q] = "none"
                        /\ stage'[q[1]] = "images" /\ q[2] < next[q[1]] =>
                             verdict'[q] \in Answers /\ (IsImage(q) => verdict'[q] # "error")
                        /\ stage'[q[1]] = "done" =>
                             verdict'[q] \in Answers
                               /\ (q[1] \in Text \/ IsImage(q) => verdict'[q] # "error")
      BY <1>2 DEF PartInv, Answered
    <2>0. q[1] \in Job /\ q[2] \in Nat /\ next[q[1]] \in Nat
      BY <1>0, PartElements, PartNumbers, EngineAssumption DEF TypeOK
    <2>1. CASE q[1] = j
      <3>1. q[2] > next[j] => verdict[q] = "none" /\ q # p
        BY <1>2, <1>3, <2>0, <2>1 DEF IInv, PartInv
      <3> QED
        BY <1>9, <1>12, <2>1, <3>1
    <2>2. CASE q[1] # j
      BY <1>3, <1>9, <1>12, <2>0, <2>2 DEF IInv, PartInv, Answered
    <2> QED
      BY <2>1, <2>2
  <1>15. VerdictInv'
    BY <1>9 DEF IInv, VerdictInv
  <1> QED
    BY <1>6, <1>7, <1>8, <1>10, <1>11, <1>13, <1>14, <1>15 DEF IInv

LEMMA NotifyKeeps ==
  ASSUME IInv, NEW j \in Job, Notify(j), UNCHANGED ruleVars
  PROVE  IInv'
  <1>0. TypeOK
    BY DEF IInv
  <1>1. PICK s : /\ s = IF j \in Text THEN "wait" ELSE "put"
                 /\ stage[j] = "notify" /\ stage' = [stage EXCEPT ![j] = s]
    BY DEF Notify, To
  <1>2. /\ next' = [next EXCEPT ![j] = next[j] + 1]
        /\ UNCHANGED <<strings, images, task, burst, verdict, alive>>
    BY DEF Notify, queueVars
  <1>3. \/ worker' = worker
        \/ \E w \in Worker : worker[w] = "asleep" /\ worker' = [worker EXCEPT ![w] = "lock"]
    BY DEF Notify, Sleepers
  <1>4. /\ worker' \in [Worker -> {"lock", "asleep", "match", "censor", "pass", "excuse", "image", "doomed"}]
        /\ \A v \in Worker : \/ worker'[v] = worker[v]
                             \/ worker[v] = "asleep" /\ worker'[v] = "lock"
    BY <1>0, <1>3 DEF TypeOK
  <1>5. next[j] \in Nat /\ 1 <= next[j] /\ next[j] <= Size(j) /\ Size(j) \in Nat
        /\ Size(j) <= Spans + Pictures + 1
    <2>1. next[j] <= Size(j)
      BY <1>1 DEF IInv, StageInv, MorePuts
    <2>2. next[j] \in 1 .. Spans + Pictures + 2 /\ Spans + Pictures \in Nat
      BY <1>0, EngineAssumption DEF TypeOK
    <2> QED
      BY <2>1, <2>2, PartNumbers DEF Job
  <1>6. TypeOK'
    <2>1. RuleTypeOK'
      BY <1>0 DEF TypeOK, RuleTypeOK, ruleVars
    <2>2. next[j] + 1 \in 1 .. Spans + Pictures + 2
      BY <1>5, EngineAssumption
    <2>3. next' \in [Job -> 1 .. Spans + Pictures + 2]
      BY <1>0, <1>2, <2>2 DEF TypeOK
    <2> QED
      BY <1>0, <1>1, <1>2, <1>4, <2>1, <2>3 DEF TypeOK, Enqueuing
  <1>7. BuildInv' /\ KindInv' /\ VerdictInv'
    BY <1>2 DEF IInv, BuildInv, KindInv, VerdictInv, ruleVars
  <1>8. WorkerInv'
    BY <1>2, <1>4 DEF IInv, WorkerInv
  <1>9. TasksOnce'
    BY <1>2 DEF IInv, TasksOnce, Pending
  <1>10. PromiseInv'
    <2>1. \A w \in Worker : worker'[w] = "doomed" <=> worker[w] = "doomed"
      BY <1>4
    <2> QED
      BY <1>2, <2>1 DEF IInv, PromiseInv
  <1>11. stage'[j] = s /\ next'[j] = next[j] + 1
         /\ \A i \in Job : i # j => stage'[i] = stage[i] /\ next'[i] = next[i]
    BY <1>0, <1>1, <1>2 DEF TypeOK
  <1>12. StageInv'
    BY <1>1, <1>11 DEF IInv, StageInv, MorePuts
  <1>13. PartInv'
    <2> SUFFICES ASSUME NEW q \in Part
                 PROVE  /\ stage'[q[1]] \in {"idle", "open"} => verdict[q] = "none"
                        /\ stage'[q[1]] = "put" /\ q[2] >= next'[q[1]] => verdict[q] = "none"
                        /\ stage'[q[1]] = "notify" /\ q[2] > next'[q[1]] => verdict[q] = "none"
                        /\ stage'[q[1]] = "images" /\ q[2] < next'[q[1]] =>
                             Answered(q) /\ (IsImage(q) => verdict[q] # "error")
                        /\ stage'[q[1]] = "done" =>
                             Answered(q) /\ (q[1] \in Text \/ IsImage(q) => verdict[q] # "error")
      BY <1>2 DEF PartInv, Answered
    <2>0. q[1] \in Job /\ q[2] \in Nat
      BY PartElements, PartNumbers
    <2>1. CASE q[1] = j
      <3>1. q[2] > next[j] => verdict[q] = "none"
        BY <1>1, <2>1 DEF IInv, PartInv
      <3>2. q[2] >= next[j] + 1 => q[2] > next[j]
        BY <1>5, <2>0
      <3> QED
        BY <1>1, <1>11, <2>1, <3>1, <3>2
    <2>2. CASE q[1] # j
      BY <1>11, <2>0, <2>2 DEF IInv, PartInv
    <2> QED
      BY <2>1, <2>2
  <1> QED
    BY <1>6, <1>7, <1>8, <1>9, <1>10, <1>12, <1>13 DEF IInv

LEMMA CollectKeeps ==
  ASSUME IInv, NEW j \in Job, Collect(j), UNCHANGED ruleVars
  PROVE  IInv'
  <1>0. TypeOK
    BY DEF IInv
  <1>1. /\ stage' = [stage EXCEPT ![j] = "idle"]
        /\ verdict' = [p \in Part |-> IF p[1] = j THEN "none" ELSE verdict[p]]
        /\ UNCHANGED <<next, strings, images, worker, task, burst, alive>>
        /\ \A p \in Pending : p[1] # j
    BY DEF Collect, To, Forgotten, queueVars, workerVars
  <1>2. /\ \A p \in ToSet(strings) \cup ToSet(images) : p \in Part /\ verdict'[p] = verdict[p]
        /\ \A w \in Worker : task[w] # NoTask => verdict'[task[w]] = verdict[task[w]]
    <2>1. \A w \in Worker : task[w] \in Part \cup {NoTask}
      BY <1>0 DEF TypeOK
    <2> QED
      BY <1>0, <1>1, <2>1, QueueElements DEF Pending
  <1>3. TypeOK'
    <2>1. RuleTypeOK'
      BY <1>0 DEF TypeOK, RuleTypeOK, ruleVars
    <2> QED
      BY <1>0, <1>1, <2>1 DEF TypeOK, Answers
  <1>4. BuildInv' /\ WorkerInv' /\ KindInv'
    BY <1>1 DEF IInv, BuildInv, WorkerInv, KindInv, ruleVars
  <1>5. \A p \in Part : verdict'[p] = "none" \/ (verdict'[p] = verdict[p] /\ p[1] # j)
    BY <1>1
  <1>6. TasksOnce'
    <2>1. Pending' = Pending
      BY <1>1 DEF Pending
    <2>2. \A p \in Pending : verdict'[p] = verdict[p]
      BY <1>2 DEF Pending
    <2>3. \A p \in Part : verdict'[p] = "queued" => verdict[p] = "queued"
      BY <1>5
    <2> QED
      BY <1>1, <2>1, <2>2, <2>3 DEF IInv, TasksOnce
  <1>7. PromiseInv'
    <2>1. \A p \in Part : verdict'[p] = "error" => verdict[p] = "error"
      BY <1>5
    <2> QED
      BY <1>1, <1>2, <2>1 DEF IInv, PromiseInv
  <1>8. stage'[j] = "idle" /\ \A i \in Job : i # j => stage'[i] = stage[i]
    BY <1>0, <1>1 DEF TypeOK
  <1>9. StageInv'
    BY <1>1, <1>8 DEF IInv, StageInv, MorePuts
  <1>10. PartInv'
    BY <1>1, <1>5, <1>8, PartElements DEF IInv, PartInv, Answered
  <1>11. VerdictInv'
    BY <1>5 DEF IInv, VerdictInv
  <1> QED
    BY <1>3, <1>4, <1>6, <1>7, <1>9, <1>10, <1>11 DEF IInv

-----------------------------------------------------------------------------
(* What a worker that has a task knows of it.                               *)
LEMMA TaskIsQueued ==
  ASSUME IInv, NEW w \in Worker, worker[w] \notin {"lock", "asleep"}
  PROVE  /\ task[w] \in Part /\ task[w] # NoTask
         /\ task[w] \notin ToSet(strings) \cup ToSet(images)
         /\ verdict[task[w]] = IF worker[w] = "doomed" THEN "error" ELSE "queued"
         /\ worker[w] = "image" <=> IsImage(task[w])
         /\ worker[w] = "pass" => task[w] \notin Forbidden
         /\ \A v \in Worker : task[v] = task[w] => v = w
  <1>1. task[w] # NoTask /\ task[w] \in Part
    BY DEF IInv, TypeOK, WorkerInv
  <1> QED
    BY <1>1 DEF IInv, WorkerInv, PromiseInv, TasksOnce

WorkerMoves(w) == Sleep(w) \/ Spurious(w) \/ Match(w) \/ Terminate(w)

LEMMA WorkerMovesKeep ==
  ASSUME IInv, NEW w \in Worker, WorkerMoves(w), UNCHANGED ruleVars
  PROVE  IInv'
  <1>0. TypeOK
    BY DEF IInv
  <1>1. UNCHANGED <<stage, next, strings, images, task, burst, verdict>> /\ alive' \in BOOLEAN
    BY <1>0 DEF WorkerMoves, Sleep, Spurious, Match, Terminate, queueVars, workerVars, TypeOK
  <1>2. PICK s : /\ worker' = [worker EXCEPT ![w] = s]
                 /\ \/ worker[w] \in {"lock", "asleep"} /\ s \in {"lock", "asleep"}
                    \/ /\ worker[w] = "match" /\ s \in {"censor", "pass", "excuse"}
                       /\ s = "pass" => task[w] \notin Forbidden
                    \/ worker[w] = "doomed" /\ s = "doomed"
    <2>1. CASE Sleep(w)
      BY <2>1 DEF Sleep, At
    <2>2. CASE Spurious(w)
      BY <2>2 DEF Spurious, At
    <2>3. CASE Match(w)
      <3>1. trie # "partial"
        BY <2>3 DEF Match, CanSearch, IInv, BuildInv
      <3>2. trie \in {"whole", "partial", "broken"}
        BY <1>0 DEF TypeOK, RuleTypeOK
      <3> QED
        BY <2>3, <3>1, <3>2 DEF Match, At
    <2>4. CASE Terminate(w)
      <3>1. worker' = [worker EXCEPT ![w] = "doomed"]
        BY <1>0, <2>4 DEF Terminate, TypeOK, workerVars
      <3> QED
        BY <2>4, <3>1 DEF Terminate
    <2> QED
      BY <2>1, <2>2, <2>3, <2>4 DEF WorkerMoves
  <1>3. worker'[w] = s /\ \A v \in Worker : v # w => worker'[v] = worker[v]
    BY <1>0, <1>2 DEF TypeOK
  <1>4. TypeOK'
    <2>1. RuleTypeOK'
      BY <1>0 DEF TypeOK, RuleTypeOK, ruleVars
    <2>2. worker' \in [Worker -> {"lock", "asleep", "match", "censor", "pass", "excuse", "image", "doomed"}]
      BY <1>0, <1>2 DEF TypeOK
    <2> QED
      BY <1>0, <1>1, <2>1, <2>2 DEF TypeOK
  <1>5. BuildInv' /\ KindInv' /\ StageInv' /\ PartInv' /\ VerdictInv'
    BY <1>1 DEF IInv, BuildInv, KindInv, StageInv, MorePuts, PartInv, Answered, VerdictInv,
                ruleVars
  <1>6. WorkerInv'
    <2> SUFFICES ASSUME NEW v \in Worker
                 PROVE  /\ worker'[v] \in {"lock", "asleep"} <=> task[v] = NoTask
                        /\ worker'[v] = "pass" => task[v] \notin Forbidden
                        /\ task[v] \in Part => (worker'[v] = "image" <=> IsImage(task[v]))
      BY <1>1 DEF WorkerInv
    <2>1. CASE v = w
      BY <1>2, <1>3, <2>1, NoTaskIsNoPart DEF IInv, WorkerInv
    <2>2. CASE v # w
      BY <1>3, <2>2 DEF IInv, WorkerInv
    <2> QED
      BY <2>1, <2>2
  <1>7. TasksOnce'
    BY <1>1 DEF IInv, TasksOnce, Pending
  <1>8. PromiseInv'
    <2>1. \A v \in Worker : worker'[v] = "doomed" <=> worker[v] = "doomed"
      BY <1>2, <1>3
    <2> QED
      BY <1>1, <2>1 DEF IInv, PromiseInv
  <1> QED
    BY <1>4, <1>5, <1>6, <1>7, <1>8 DEF IInv

(* A task goes from the head of its queue to a worker that had none.        *)
LEMMA TakeKeeps ==
  ASSUME IInv, NEW w \in Worker, TakeString(w) \/ TakeImage(w), UNCHANGED ruleVars
  PROVE  IInv'
  <1>0. TypeOK
    BY DEF IInv
  <1>1. /\ UNCHANGED <<stage, next, burst, verdict, alive>>
        /\ worker[w] = "lock"
    BY DEF TakeString, TakeImage, At
  <1>2. strings \in Seq(Part) /\ images \in Seq(Part)
    BY <1>0 DEF TypeOK
  <1>3. IsInjective(strings) /\ IsInjective(images)
    BY DEF IInv, TasksOnce
  <1>4. PICK p, s :
          /\ worker' = [worker EXCEPT ![w] = s] /\ task' = [task EXCEPT ![w] = p]
          /\ p \in ToSet(strings) \cup ToSet(images) /\ p \in Part
          /\ s \in {"match", "image"} /\ (s = "image" <=> IsImage(p))
          /\ ToSet(strings') = ToSet(strings) \ {p} /\ ToSet(images') = ToSet(images) \ {p}
          /\ IsInjective(strings') /\ IsInjective(images')
          /\ strings' \in Seq(Part) /\ images' \in Seq(Part)
    <2>0. ToSet(strings) \cap ToSet(images) = {}
      BY DEF IInv, TasksOnce
    <2>1. CASE TakeString(w)
      <3>1. /\ strings # <<>> /\ strings' = Tail(strings) /\ images' = images
            /\ worker' = [worker EXCEPT ![w] = "match"]
            /\ task' = [task EXCEPT ![w] = Head(strings)]
        BY <2>1 DEF TakeString, StringsTurn, Popped, At
      <3>2. /\ ToSet(strings) = ToSet(Tail(strings)) \cup {Head(strings)}
            /\ Head(strings) \notin ToSet(Tail(strings)) /\ IsInjective(Tail(strings))
        BY <1>2, <1>3, <3>1, TailSet
      <3>3. Tail(strings) \in Seq(Part) /\ Head(strings) \in Part
        BY <1>2, <3>1
      <3>4. ~IsImage(Head(strings))
        BY <3>2 DEF IInv, KindInv
      <3> QED
        BY <1>2, <1>3, <2>0, <3>1, <3>2, <3>3, <3>4
    <2>2. CASE TakeImage(w)
      <3>1. /\ images # <<>> /\ images' = Tail(images) /\ strings' = strings
            /\ worker' = [worker EXCEPT ![w] = "image"]
            /\ task' = [task EXCEPT ![w] = Head(images)]
        BY <2>2 DEF TakeImage, Popped, At
      <3>2. /\ ToSet(images) = ToSet(Tail(images)) \cup {Head(images)}
            /\ Head(images) \notin ToSet(Tail(images)) /\ IsInjective(Tail(images))
        BY <1>2, <1>3, <3>1, TailSet
      <3>3. Tail(images) \in Seq(Part) /\ Head(images) \in Part
        BY <1>2, <3>1
      <3>4. IsImage(Head(images))
        BY <3>2 DEF IInv, KindInv
      <3> QED
        BY <1>2, <1>3, <2>0, <3>1, <3>2, <3>3, <3>4
    <2> QED
      BY <2>1, <2>2
  <1>5. /\ worker'[w] = s /\ \A v \in Worker : v # w => worker'[v] = worker[v]
        /\ task'[w] = p /\ \A v \in Worker : v # w => task'[v] = task[v]
    BY <1>0, <1>4 DEF TypeOK
  <1>6. task[w] = NoTask /\ verdict[p] = "queued" /\ p # NoTask
        /\ \A v \in Worker : task[v] # p
    BY <1>1, <1>4, NoTaskIsNoPart DEF IInv, WorkerInv, PromiseInv, TasksOnce
  <1>7. TypeOK'
    <2>1. RuleTypeOK'
      BY <1>0 DEF TypeOK, RuleTypeOK, ruleVars
    <2>2. worker' \in [Worker -> {"lock", "asleep", "match", "censor", "pass", "excuse", "image", "doomed"}]
      BY <1>0, <1>4 DEF TypeOK
    <2>3. task' \in [Worker -> Part \cup {NoTask}]
      BY <1>0, <1>4 DEF TypeOK
    <2> QED
      BY <1>0, <1>1, <1>4, <2>1, <2>2, <2>3 DEF TypeOK
  <1>8. BuildInv' /\ StageInv' /\ PartInv' /\ VerdictInv'
    BY <1>1 DEF IInv, BuildInv, StageInv, MorePuts, PartInv, Answered, VerdictInv, ruleVars
  <1>9. KindInv'
    BY <1>4 DEF IInv, KindInv
  <1>10. WorkerInv'
    <2> SUFFICES ASSUME NEW v \in Worker
                 PROVE  /\ worker'[v] \in {"lock", "asleep"} <=> task'[v] = NoTask
                        /\ worker'[v] = "pass" => task'[v] \notin Forbidden
                        /\ task'[v] \in Part => (worker'[v] = "image" <=> IsImage(task'[v]))
      BY DEF WorkerInv
    <2>1. CASE v = w
      BY <1>4, <1>5, <1>6, <2>1
    <2>2. CASE v # w
      BY <1>5, <2>2 DEF IInv, WorkerInv
    <2> QED
      BY <2>1, <2>2
  <1>11. TasksOnce'
    <2>1. Pending' = Pending
      <3>1. {task'[v] : v \in Worker} \ {NoTask} = ({task[v] : v \in Worker} \ {NoTask}) \cup {p}
        <4>1. \A v \in Worker : task'[v] # NoTask =>
                task'[v] = p \/ (v # w /\ task'[v] = task[v])
          BY <1>5
        <4>2. \A v \in Worker : task[v] # NoTask => task'[v] = task[v]
          BY <1>5, <1>6
        <4> QED
          BY <1>5, <1>6, <4>1, <4>2
      <3> QED
        BY <1>4, <3>1 DEF Pending
    <2>2. /\ ToSet(strings') \cap ToSet(images') = {}
          /\ \A v \in Worker : task'[v] \notin ToSet(strings') \cup ToSet(images')
      BY <1>4, <1>5 DEF IInv, TasksOnce
    <2>3. \A u, v \in Worker : task'[u] = task'[v] /\ task'[u] # NoTask => u = v
      BY <1>5, <1>6 DEF IInv, TasksOnce
    <2> QED
      BY <1>1, <1>4, <2>1, <2>2, <2>3 DEF IInv, TasksOnce
  <1>12. PromiseInv'
    <2>1. \A q \in ToSet(strings') \cup ToSet(images') : verdict[q] = "queued"
      BY <1>4 DEF IInv, PromiseInv
    <2>2. \A v \in Worker : task'[v] # NoTask =>
            verdict[task'[v]] = IF worker'[v] = "doomed" THEN "error" ELSE "queued"
      BY <1>4, <1>5, <1>6 DEF IInv, PromiseInv
    <2>3. \A v \in Worker : worker[v] = "doomed" => worker'[v] = "doomed" /\ task'[v] = task[v]
      BY <1>1, <1>5
    <2> QED
      BY <1>1, <2>1, <2>2, <2>3 DEF IInv, PromiseInv
  <1> QED
    BY <1>7, <1>8, <1>9, <1>10, <1>11, <1>12 DEF IInv

(* The promise is kept from now on: its worker cannot go on.                *)
LEMMA MatchThrowsKeeps ==
  ASSUME IInv, NEW w \in Worker, MatchThrows(w), UNCHANGED ruleVars
  PROVE  IInv'
  <1>0. TypeOK
    BY DEF IInv
  <1>1. PICK p : p = task[w]
    OBVIOUS
  <1>2. /\ worker[w] = "match" /\ worker' = [worker EXCEPT ![w] = "doomed"]
        /\ verdict' = [verdict EXCEPT ![p] = "error"]
        /\ UNCHANGED <<stage, next, strings, images, task, burst, alive>>
    BY <1>1 DEF MatchThrows, At, queueVars
  <1>3. /\ p \in Part /\ p # NoTask /\ p \notin ToSet(strings) \cup ToSet(images)
        /\ verdict[p] = "queued" /\ ~IsImage(p)
        /\ \A v \in Worker : task[v] = p => v = w
    BY <1>1, <1>2, TaskIsQueued
  <1>4. /\ worker'[w] = "doomed" /\ \A v \in Worker : v # w => worker'[v] = worker[v]
        /\ verdict'[p] = "error" /\ \A q \in Part : q # p => verdict'[q] = verdict[q]
    BY <1>0, <1>2, <1>3 DEF TypeOK
  <1>5. TypeOK'
    <2>1. RuleTypeOK'
      BY <1>0 DEF TypeOK, RuleTypeOK, ruleVars
    <2> QED
      BY <1>0, <1>2, <2>1 DEF TypeOK, Answers
  <1>6. BuildInv' /\ KindInv' /\ StageInv'
    BY <1>2 DEF IInv, BuildInv, KindInv, StageInv, MorePuts, ruleVars
  <1>7. WorkerInv'
    BY <1>1, <1>2, <1>3, <1>4 DEF IInv, WorkerInv
  <1>8. TasksOnce'
    <2>1. p \in Pending /\ Pending' = Pending
      BY <1>1, <1>2, <1>3 DEF Pending
    <2>2. \A q \in Pending : q \in Part
      <3>1. \A v \in Worker : task[v] \in Part \cup {NoTask}
        BY <1>0 DEF TypeOK
      <3> QED
        BY <1>0, <3>1, QueueElements DEF Pending
    <2>3. /\ \A q \in Part : verdict'[q] = "queued" => q \in Pending
          /\ \A q \in Pending : verdict'[q] \in {"queued", "error"}
      BY <1>4, <2>2 DEF IInv, TasksOnce
    <2> QED
      BY <1>2, <2>1, <2>3 DEF IInv, TasksOnce
  <1>9. PromiseInv'
    <2>1. \A q \in ToSet(strings) \cup ToSet(images) : verdict'[q] = "queued"
      BY <1>0, <1>3, <1>4, QueueElements DEF IInv, PromiseInv
    <2>2. \A v \in Worker : task[v] # NoTask =>
            verdict'[task[v]] = IF worker'[v] = "doomed" THEN "error" ELSE "queued"
      <3> SUFFICES ASSUME NEW v \in Worker, task[v] # NoTask
                   PROVE  verdict'[task[v]] = IF worker'[v] = "doomed" THEN "error" ELSE "queued"
        OBVIOUS
      <3>1. CASE v = w
        BY <1>1, <1>4, <3>1
      <3>2. CASE v # w
        <4>1. task[v] \in Part /\ task[v] # p
          BY <1>0, <1>3, <3>2 DEF TypeOK
        <4> QED
          BY <1>4, <3>2, <4>1 DEF IInv, PromiseInv
      <3> QED
        BY <3>1, <3>2
    <2>3. \A q \in Part : verdict'[q] = "error" /\ ~IsImage(q) =>
            \E v \in Worker : worker'[v] = "doomed" /\ task[v] = q
      <3> SUFFICES ASSUME NEW q \in Part, verdict'[q] = "error", ~IsImage(q)
                   PROVE  \E v \in Worker : worker'[v] = "doomed" /\ task[v] = q
        OBVIOUS
      <3>1. CASE q = p
        BY <1>1, <1>4, <3>1
      <3>2. CASE q # p
        <4>1. verdict[q] = "error"
          BY <1>4, <3>2
        <4>2. PICK v \in Worker : worker[v] = "doomed" /\ task[v] = q
          BY <4>1 DEF IInv, PromiseInv
        <4> QED
          BY <1>2, <1>4, <4>2
      <3> QED
        BY <3>1, <3>2
    <2> QED
      BY <1>2, <2>1, <2>2, <2>3 DEF PromiseInv
  <1>10. PartInv'
    <2>1. stage[p[1]] \notin {"idle", "open"} /\ stage[p[1]] # "done"
          /\ ~(stage[p[1]] = "put" /\ p[2] >= next[p[1]])
          /\ ~(stage[p[1]] = "notify" /\ p[2] > next[p[1]])
          /\ ~(stage[p[1]] = "images" /\ p[2] < next[p[1]])
      BY <1>3 DEF IInv, PartInv, Answered, Answers
    <2> QED
      BY <1>2, <1>4, <2>1 DEF IInv, PartInv, Answered
  <1>11. VerdictInv'
    BY <1>4 DEF IInv, VerdictInv
  <1> QED
    BY <1>5, <1>6, <1>7, <1>8, <1>9, <1>10, <1>11 DEF IInv

-----------------------------------------------------------------------------
(* The three ways a task ends are one step with different verdicts.         *)
LEMMA FinishVerdict ==
  ASSUME IInv, NEW w \in Worker, FinishString(w) \/ FinishImage(w) \/ ImageThrows(w)
  PROVE  \E v \in Answers, n \in 0 .. BURST :
           /\ Finish(w, v, n)
           /\ worker[w] \in {"censor", "pass", "excuse", "image"}
           /\ v # "missed" /\ (v = "clean" => task[w] \notin Forbidden)
           /\ v = "error" => IsImage(task[w])
  <1>0. burst[w] \in 0 .. BURST /\ BURST \in Nat
    BY EngineAssumption DEF IInv, TypeOK
  <1>1. CASE FinishString(w)
    <2>1. Counted(w) \in 0 .. BURST
      BY <1>0 DEF Counted
    <2>2. worker[w] \in {"censor", "pass", "excuse"}
      BY <1>1 DEF FinishString
    <2>3. worker[w] = "pass" => task[w] \notin Forbidden
      BY <2>2, TaskIsQueued
    <2>4. PICK v : v = Judged(task[w], worker[w] = "censor", worker[w] = "excuse")
      OBVIOUS
    <2>5. v \in Answers \ {"missed", "error"} /\ (v = "clean" => task[w] \notin Forbidden)
      BY <2>2, <2>3, <2>4 DEF Judged, Answers
    <2> QED
      BY <1>1, <2>1, <2>2, <2>4, <2>5 DEF FinishString
  <1>2. CASE FinishImage(w)
    <2>1. worker[w] = "image" /\ AfterImage \in 0 .. BURST
      BY <1>0, <1>2 DEF FinishImage, AfterImage
    <2>2. PICK hit \in IF hashes = "whole" THEN {task[w] \in Forbidden} ELSE BOOLEAN :
            Finish(w, Judged(task[w], hit, hashes # "whole"), AfterImage)
      BY <1>2 DEF FinishImage
    <2>3. PICK v : v = Judged(task[w], hit, hashes # "whole")
      OBVIOUS
    <2>4. v \in Answers \ {"missed", "error"} /\ (v = "clean" => task[w] \notin Forbidden)
      <3>1. CASE hashes = "whole"
        BY <2>2, <2>3, <3>1 DEF Judged, Answers
      <3>2. CASE hashes # "whole"
        BY <2>2, <2>3, <3>2 DEF Judged, Answers
      <3> QED
        BY <3>1, <3>2
    <2> QED
      BY <2>1, <2>2, <2>3, <2>4
  <1>3. CASE ImageThrows(w)
    <2>1. /\ worker[w] = "image" /\ AfterImage \in 0 .. BURST
          /\ "error" \in Answers /\ Finish(w, "error", AfterImage)
      BY <1>0, <1>3 DEF ImageThrows, AfterImage, Answers
    <2>2. IsImage(task[w])
      BY <2>1, TaskIsQueued
    <2> QED
      BY <2>1, <2>2
  <1> QED
    BY <1>1, <1>2, <1>3

LEMMA FinishKeeps ==
  ASSUME IInv, NEW w \in Worker, FinishString(w) \/ FinishImage(w) \/ ImageThrows(w),
         UNCHANGED ruleVars
  PROVE  IInv'
  <1>0. TypeOK
    BY DEF IInv
  <1>1. PICK r \in Answers, n \in 0 .. BURST :
          /\ Finish(w, r, n)
          /\ worker[w] \in {"censor", "pass", "excuse", "image"}
          /\ r # "missed" /\ (r = "clean" => task[w] \notin Forbidden)
          /\ r = "error" => IsImage(task[w])
    BY FinishVerdict
  <1>2. PICK p : p = task[w]
    OBVIOUS
  <1>3. /\ worker' = [worker EXCEPT ![w] = "lock"]
        /\ verdict' = [verdict EXCEPT ![p] = r]
        /\ task' = [task EXCEPT ![w] = NoTask]
        /\ burst' = [burst EXCEPT ![w] = n]
        /\ alive' \in BOOLEAN
        /\ UNCHANGED <<stage, next, strings, images>>
    BY <1>1, <1>2 DEF Finish, DataLives, queueVars
  <1>4. /\ p \in Part /\ p # NoTask /\ p \notin ToSet(strings) \cup ToSet(images)
        /\ verdict[p] = "queued"
        /\ \A v \in Worker : task[v] = p => v = w
    BY <1>1, <1>2, TaskIsQueued
  <1>5. /\ worker'[w] = "lock" /\ \A v \in Worker : v # w => worker'[v] = worker[v]
        /\ task'[w] = NoTask /\ \A v \in Worker : v # w => task'[v] = task[v]
        /\ verdict'[p] = r /\ \A q \in Part : q # p => verdict'[q] = verdict[q]
    BY <1>0, <1>3, <1>4 DEF TypeOK
  <1>6. TypeOK'
    <2>1. RuleTypeOK'
      BY <1>0 DEF TypeOK, RuleTypeOK, ruleVars
    <2>2. verdict' \in [Part -> {"none", "queued"} \cup Answers]
      BY <1>0, <1>1, <1>3 DEF TypeOK
    <2>3. /\ task' \in [Worker -> Part \cup {NoTask}]
          /\ burst' \in [Worker -> 0 .. BURST]
      BY <1>0, <1>1, <1>3 DEF TypeOK
    <2>4. worker' \in [Worker -> {"lock", "asleep", "match", "censor", "pass", "excuse", "image", "doomed"}]
      BY <1>0, <1>3 DEF TypeOK
    <2> QED
      BY <1>0, <1>3, <2>1, <2>2, <2>3, <2>4 DEF TypeOK
  <1>7. BuildInv' /\ KindInv' /\ StageInv'
    BY <1>3 DEF IInv, BuildInv, KindInv, StageInv, MorePuts, ruleVars
  <1>8. WorkerInv'
    <2> SUFFICES ASSUME NEW v \in Worker
                 PROVE  /\ worker'[v] \in {"lock", "asleep"} <=> task'[v] = NoTask
                        /\ worker'[v] = "pass" => task'[v] \notin Forbidden
                        /\ task'[v] \in Part => (worker'[v] = "image" <=> IsImage(task'[v]))
      BY DEF WorkerInv
    <2>1. CASE v = w
      BY <1>5, <2>1, NoTaskIsNoPart
    <2>2. CASE v # w
      BY <1>5, <2>2 DEF IInv, WorkerInv
    <2> QED
      BY <2>1, <2>2
  <1>9. TasksOnce'
    <2>1. Pending' = Pending \ {p}
      <3>1. {task'[v] : v \in Worker} \ {NoTask} = ({task[v] : v \in Worker} \ {NoTask}) \ {p}
        <4>1. \A v \in Worker : task'[v] # NoTask => v # w /\ task'[v] = task[v] /\ task[v] # p
          BY <1>4, <1>5
        <4>2. \A v \in Worker : task[v] # NoTask /\ task[v] # p => v # w /\ task'[v] = task[v]
          BY <1>2, <1>5
        <4> QED
          BY <4>1, <4>2
      <3> QED
        BY <1>3, <1>4, <3>1 DEF Pending
    <2>2. \A v \in Worker : task'[v] \notin ToSet(strings) \cup ToSet(images)
      BY <1>0, <1>5, NoTaskIsNoPart, QueueElements DEF IInv, TasksOnce
    <2>3. \A u, v \in Worker : task'[u] = task'[v] /\ task'[u] # NoTask => u = v
      BY <1>5 DEF IInv, TasksOnce
    <2>4. \A q \in Pending : q \in Part
      <3>1. \A v \in Worker : task[v] \in Part \cup {NoTask}
        BY <1>0 DEF TypeOK
      <3> QED
        BY <1>0, <3>1, QueueElements DEF Pending
    <2>5. r # "queued"
      BY <1>1 DEF Answers
    <2>6. /\ \A q \in Part : verdict'[q] = "queued" => q \in Pending'
          /\ \A q \in Pending' : verdict'[q] \in {"queued", "error"}
      BY <1>5, <2>1, <2>4, <2>5 DEF IInv, TasksOnce
    <2> QED
      BY <1>3, <2>2, <2>3, <2>6 DEF IInv, TasksOnce
  <1>10. PromiseInv'
    <2>1. \A q \in ToSet(strings) \cup ToSet(images) : verdict'[q] = "queued"
      BY <1>0, <1>4, <1>5, QueueElements DEF IInv, PromiseInv
    <2>2. \A v \in Worker : task'[v] # NoTask =>
            verdict'[task'[v]] = IF worker'[v] = "doomed" THEN "error" ELSE "queued"
      <3> SUFFICES ASSUME NEW v \in Worker, task'[v] # NoTask
                   PROVE  verdict'[task'[v]] = IF worker'[v] = "doomed" THEN "error" ELSE "queued"
        OBVIOUS
      <3>1. v # w /\ task'[v] = task[v] /\ worker'[v] = worker[v] /\ task[v] # p
        BY <1>4, <1>5
      <3>2. task[v] \in Part
        BY <1>0, <3>1 DEF TypeOK
      <3> QED
        BY <1>5, <3>1, <3>2 DEF IInv, PromiseInv
    <2>3. \A q \in Part : verdict'[q] = "error" /\ ~IsImage(q) =>
            \E v \in Worker : worker'[v] = "doomed" /\ task'[v] = q
      <3> SUFFICES ASSUME NEW q \in Part, verdict'[q] = "error", ~IsImage(q)
                   PROVE  \E v \in Worker : worker'[v] = "doomed" /\ task'[v] = q
        OBVIOUS
      <3>1. q # p
        BY <1>1, <1>2, <1>5
      <3>2. PICK v \in Worker : worker[v] = "doomed" /\ task[v] = q
        BY <1>5, <3>1 DEF IInv, PromiseInv
      <3> QED
        BY <1>1, <1>5, <3>2
    <2> QED
      BY <1>3, <2>1, <2>2, <2>3 DEF PromiseInv
  <1>11. PartInv'
    <2>1. stage[p[1]] \notin {"idle", "open"} /\ stage[p[1]] # "done"
          /\ ~(stage[p[1]] = "put" /\ p[2] >= next[p[1]])
          /\ ~(stage[p[1]] = "notify" /\ p[2] > next[p[1]])
          /\ ~(stage[p[1]] = "images" /\ p[2] < next[p[1]])
      BY <1>4 DEF IInv, PartInv, Answered, Answers
    <2> QED
      BY <1>3, <1>5, <2>1 DEF IInv, PartInv, Answered
  <1>12. VerdictInv'
    BY <1>1, <1>2, <1>5 DEF IInv, VerdictInv
  <1> QED
    BY <1>6, <1>7, <1>8, <1>9, <1>10, <1>11, <1>12 DEF IInv

-----------------------------------------------------------------------------
LEMMA InitInv == Init => IInv
  <1> SUFFICES ASSUME Init PROVE IInv
    OBVIOUS
  <1> USE EngineAssumption DEF Init
  <1>1. RuleTypeOK /\ BuildInv
    BY BuilderAssumption DEF RuleInit, RuleTypeOK, BuildInv, Thread
  <1>2. ToSet(strings) = {} /\ ToSet(images) = {} /\ IsInjective(strings) /\ IsInjective(images)
    BY DEF ToSet, IsInjective
  <1>3. strings \in Seq(Part) /\ images \in Seq(Part)
    OBVIOUS
  <1>4. TypeOK
    BY <1>1, <1>3 DEF TypeOK, Answers
  <1>5. WorkerInv /\ KindInv
    BY <1>2, NoTaskIsNoPart DEF WorkerInv, KindInv
  <1>6. TasksOnce /\ PromiseInv
    BY <1>2 DEF TasksOnce, PromiseInv, Pending
  <1>7. StageInv
    BY DEF StageInv
  <1>8. PartInv
    BY PartElements DEF PartInv
  <1>9. VerdictInv
    BY DEF VerdictInv
  <1> QED
    BY <1>1, <1>4, <1>5, <1>6, <1>7, <1>8, <1>9 DEF IInv

LEMMA RuleStepsKeep ==
  ASSUME IInv, NEW t \in Thread, StartBuild(t) \/ BuildStep(t), UNCHANGED engineVars
  PROVE  IInv'
  <1>1. RuleTypeOK' /\ BuildInv'
    BY RulesKept DEF IInv, TypeOK
  <1>2. TypeOK'
    BY <1>1 DEF IInv, TypeOK, engineVars
  <1>3. WorkerInv' /\ KindInv' /\ TasksOnce' /\ PromiseInv'
    BY DEF IInv, WorkerInv, KindInv, TasksOnce, PromiseInv, Pending, engineVars
  <1>4. StageInv' /\ PartInv' /\ VerdictInv'
    BY DEF IInv, StageInv, MorePuts, PartInv, Answered, VerdictInv, engineVars
  <1> QED
    BY <1>1, <1>2, <1>3, <1>4 DEF IInv

LEMMA IdleKeeps ==
  ASSUME IInv, UNCHANGED vars
  PROVE  IInv'
  <1>1. TypeOK' /\ BuildInv'
    BY DEF IInv, TypeOK, RuleTypeOK, BuildInv, vars, ruleVars, engineVars
  <1>2. WorkerInv' /\ KindInv' /\ TasksOnce' /\ PromiseInv'
    BY DEF IInv, WorkerInv, KindInv, TasksOnce, PromiseInv, Pending, vars, engineVars
  <1>3. StageInv' /\ PartInv' /\ VerdictInv'
    BY DEF IInv, StageInv, MorePuts, PartInv, Answered, VerdictInv, vars, engineVars
  <1> QED
    BY <1>1, <1>2, <1>3 DEF IInv

(* The kinds of steps the engine takes.                                     *)
LEMMA StepKinds ==
  ASSUME Next
  PROVE  \/ \E t \in Thread : (StartBuild(t) \/ BuildStep(t)) /\ UNCHANGED engineVars
         \/ /\ UNCHANGED ruleVars
            /\ \/ \E j \in Job : JobMoves(j) \/ Push(j) \/ Notify(j) \/ Collect(j)
               \/ \E w \in Worker :
                    \/ WorkerMoves(w) \/ TakeString(w) \/ TakeImage(w) \/ MatchThrows(w)
                    \/ FinishString(w) \/ FinishImage(w) \/ ImageThrows(w)
  BY DEF Next, Serving, Building, JobStep, WorkerStep, JobMoves, WorkerMoves

LEMMA StepInv ==
  ASSUME IInv, [Next]_vars
  PROVE  IInv'
  <1>1. CASE UNCHANGED vars
    BY <1>1, IdleKeeps
  <1>2. ASSUME NEW t \in Thread, StartBuild(t) \/ BuildStep(t), UNCHANGED engineVars
        PROVE  IInv'
    BY <1>2, RuleStepsKeep
  <1>3. ASSUME NEW j \in Job, JobMoves(j) \/ Push(j) \/ Notify(j) \/ Collect(j),
               UNCHANGED ruleVars
        PROVE  IInv'
    BY <1>3, JobMovesKeep, PushKeeps, NotifyKeeps, CollectKeeps
  <1>4. ASSUME NEW w \in Worker, UNCHANGED ruleVars,
               \/ WorkerMoves(w) \/ TakeString(w) \/ TakeImage(w) \/ MatchThrows(w)
               \/ FinishString(w) \/ FinishImage(w) \/ ImageThrows(w)
        PROVE  IInv'
    BY <1>4, WorkerMovesKeep, TakeKeeps, MatchThrowsKeeps, FinishKeeps
  <1> QED
    BY <1>1, <1>2, <1>3, <1>4, StepKinds

(* The inductive invariant of the engine: where jobs and workers stand says *)
(* what the queues, the promises and the lock of the trie are like.         *)
THEOREM EngineInvariant == Spec => []IInv
  BY InitInv, StepInv, PTL DEF Spec

(* The variables of the engine keep their types.                            *)
THEOREM EngineTypeCorrect == Spec => []TypeOK
  <1>1. IInv => TypeOK
    BY DEF IInv
  <1> QED
    BY <1>1, EngineInvariant, PTL

(* A task is in one queue or with one worker, until it is answered.         *)
THEOREM TasksOnceCorrect == Spec => []TasksOnce
  <1>1. IInv => TasksOnce
    BY DEF IInv
  <1> QED
    BY <1>1, EngineInvariant, PTL

(* What is forbidden leaves censored, unless the trie was broken or the     *)
(* hashes unfinished when it was looked up, or the process is about to end. *)
THEOREM NothingSlipsCorrect == Spec => []NothingSlips
  <1>1. IInv => NothingSlips
    <2> SUFFICES ASSUME IInv, NEW p \in Forbidden, stage[p[1]] = "done"
                 PROVE  \/ verdict[p] \in {"censored", "excused"}
                        \/ \E w \in Worker : worker[w] = "doomed" /\ task[w] = p
      BY DEF NothingSlips
    <2>1. p \in Part
      BY EngineAssumption
    <2>2. verdict[p] \in {"censored", "excused", "error"}
      BY <2>1 DEF IInv, PartInv, VerdictInv, Answered, Answers
    <2>3. CASE verdict[p] = "error"
      <3>1. ~IsImage(p)
        BY <2>1, <2>3 DEF IInv, PartInv
      <3> QED
        BY <2>1, <2>3, <3>1 DEF IInv, PromiseInv
    <2> QED
      BY <2>2, <2>3
  <1> QED
    BY <1>1, EngineInvariant, PTL

-----------------------------------------------------------------------------
LEMMA InitAwake == Init => AwakeForWork
  BY DEF Init, AwakeForWork

LEMMA StepAwake ==
  ASSUME TypeOK, AwakeForWork, [Next]_vars
  PROVE  AwakeForWork'
  <1> USE DEF TypeOK
  <1>1. CASE UNCHANGED vars
    BY <1>1 DEF AwakeForWork, vars, engineVars
  <1>2. CASE UNCHANGED engineVars
    BY <1>2 DEF AwakeForWork, engineVars
  <1>3. ASSUME NEW j \in Job, JobMoves(j)
        PROVE  AwakeForWork'
    <2>1. stage[j] # "notify"
      BY <1>3 DEF JobMoves, Submit, Open, ImageEmpty, CopyRest, WriteText, WriteImage,
                  CloseArchives, TextReady, To
    <2>2. UNCHANGED <<strings, images, worker>> /\ stage' = [stage EXCEPT ![j] = stage'[j]]
      BY <1>3, JobMovesChange
    <2>3. \A i \in Job : i # j => stage'[i] = stage[i]
      BY <2>2
    <2> QED
      BY <2>1, <2>2, <2>3 DEF AwakeForWork
  <1>4. ASSUME NEW j \in Job, Push(j)
        PROVE  AwakeForWork'
    <2>1. stage'[j] = "notify"
      BY <1>4 DEF Push, To
    <2> QED
      BY <2>1 DEF AwakeForWork
  <1>5. ASSUME NEW j \in Job, Notify(j)
        PROVE  AwakeForWork'
    <2>1. \E w \in Worker : worker'[w] # "asleep"
      <3>1. CASE Sleepers = {}
        BY <1>5, <3>1, EngineAssumption DEF Notify, Sleepers
      <3>2. CASE Sleepers # {}
        BY <1>5, <3>2 DEF Notify, Sleepers
      <3> QED
        BY <3>1, <3>2
    <2> QED
      BY <2>1 DEF AwakeForWork
  <1>6. ASSUME NEW j \in Job, Collect(j)
        PROVE  AwakeForWork'
    <2>1. /\ stage[j] # "notify" /\ stage' = [stage EXCEPT ![j] = "idle"]
          /\ UNCHANGED <<strings, images, worker>>
      BY <1>6 DEF Collect, To, Ended, queueVars, workerVars
    <2>2. \A i \in Job : i # j => stage'[i] = stage[i]
      BY <2>1
    <2> QED
      BY <2>1, <2>2 DEF AwakeForWork
  <1>7. ASSUME NEW w \in Worker, Sleep(w)
        PROVE  AwakeForWork'
    BY <1>7 DEF Sleep, NothingToDo, queueVars, AwakeForWork
  <1>8. ASSUME NEW w \in Worker,
               \/ Spurious(w) \/ Match(w) \/ Terminate(w) \/ TakeString(w) \/ TakeImage(w)
               \/ MatchThrows(w) \/ FinishString(w) \/ FinishImage(w) \/ ImageThrows(w)
        PROVE  AwakeForWork'
    <2>1. worker'[w] # "asleep"
      BY <1>8 DEF Spurious, Match, Terminate, TakeString, TakeImage, MatchThrows, FinishString,
                  FinishImage, ImageThrows, Finish, At, workerVars
    <2> QED
      BY <2>1 DEF AwakeForWork
  <1> QED
    BY <1>1, <1>2, <1>3, <1>4, <1>5, <1>6, <1>7, <1>8, StepKinds DEF WorkerMoves

(* While a task waits some worker is awake, or about to be notified,        *)
(* although the notification follows the release of the mutex.              *)
THEOREM AwakeForWorkCorrect == Spec => []AwakeForWork
  BY InitAwake, StepAwake, EngineTypeCorrect, PTL DEF Spec

-----------------------------------------------------------------------------
(* How the states of the service change with the stages of the jobs.        *)
LEMMA OneJob ==
  ASSUME TypeOK, NEW j \in Job, NEW s, stage' = [stage EXCEPT ![j] = s]
  PROVE  /\ s = "idle" => [i \in Job |-> JobState(i)]' = [[i \in Job |-> JobState(i)] EXCEPT ![j] = "none"]
         /\ s \in Ended => [i \in Job |-> JobState(i)]' = [[i \in Job |-> JobState(i)] EXCEPT ![j] = s]
         /\ s \notin Ended \cup {"idle"} =>
              [i \in Job |-> JobState(i)]' = [[i \in Job |-> JobState(i)] EXCEPT ![j] = "queued"]
  <1>1. stage'[j] = s /\ \A i \in Job : i # j => stage'[i] = stage[i]
    BY DEF TypeOK
  <1> QED
    BY <1>1 DEF JobState, Ended

LEMMA JobSteps ==
  ASSUME IInv, NEW j \in Job, JobMoves(j)
  PROVE  Service!Submit(j) \/ (\E r \in Ended : Service!Answer(j, r)) \/ UNCHANGED Service!serviceVars
  <1>0. TypeOK
    BY DEF IInv
  <1>1. PICK s : s = stage'[j] /\ stage' = [stage EXCEPT ![j] = s]
    BY <1>0, JobMovesChange
  <1>2. /\ UNCHANGED <<verdict, alive>>
        /\ s \in {"put", "open", "failed", "spans", "images", "threw", "done"}
    BY <1>0, <1>1, JobMovesChange
  <1>3. JudgedParts' = JudgedParts
    BY <1>2 DEF JudgedParts, Answered
  <1>4. CASE Submit(j)
    <2>1. stage[j] = "idle" /\ s \in {"put", "open"}
      BY <1>0, <1>1, <1>4 DEF Submit, To, TypeOK
    <2>2. [i \in Job |-> JobState(i)]' = [[i \in Job |-> JobState(i)] EXCEPT ![j] = "queued"]
      BY <1>0, <1>1, <2>1, OneJob DEF Ended
    <2>3. [i \in Job |-> JobState(i)][j] = "none"
      BY <2>1 DEF JobState
    <2> QED
      BY <1>2, <1>3, <2>2, <2>3 DEF Service!Submit
  <1>5. CASE ~Submit(j)
    <2>1. stage[j] \notin Ended \cup {"idle"} /\ s # "idle"
      BY <1>2, <1>5 DEF JobMoves, Open, ImageEmpty, CopyRest, WriteText, WriteImage,
                  CloseArchives, TextReady, To, Ended
    <2>2. [i \in Job |-> JobState(i)][j] = "queued"
      BY <2>1 DEF JobState
    <2>3. CASE s \in Ended
      <3>1. [i \in Job |-> JobState(i)]' = [[i \in Job |-> JobState(i)] EXCEPT ![j] = s]
        BY <1>0, <1>1, <2>3, OneJob
      <3>2. s = "done" => Service!Of(j) \subseteq JudgedParts
        BY <1>1, JobMovesParts DEF Service!Of, JudgedParts
      <3>3. s = "threw" => j \in Doc
        BY <1>1, JobMovesStage
      <3>4. Service!Answer(j, s)
        BY <1>2, <1>3, <2>2, <3>1, <3>2, <3>3 DEF Service!Answer
      <3> QED
        BY <2>3, <3>4
    <2>4. CASE s \notin Ended
      <3>1. [i \in Job |-> JobState(i)]' = [[i \in Job |-> JobState(i)] EXCEPT ![j] = "queued"]
        BY <1>0, <1>1, <2>1, <2>4, OneJob
      <3>2. [i \in Job |-> JobState(i)]' = [i \in Job |-> JobState(i)]
        BY <2>2, <3>1
      <3> QED
        BY <1>2, <1>3, <3>2 DEF Service!serviceVars
    <2> QED
      BY <2>3, <2>4
  <1> QED
    BY <1>4, <1>5

(* Enqueuing changes nothing the service can see.                           *)
LEMMA EnqueueSteps ==
  ASSUME IInv, NEW j \in Job, Push(j) \/ Notify(j)
  PROVE  UNCHANGED Service!serviceVars
  <1>0. TypeOK
    BY DEF IInv
  <1>1. PICK s : /\ stage' = [stage EXCEPT ![j] = s]
                 /\ s \in {"notify", "wait", "put"} /\ stage[j] \in {"put", "notify"}
    BY DEF Push, Notify, To
  <1>2. [i \in Job |-> JobState(i)]' = [[i \in Job |-> JobState(i)] EXCEPT ![j] = "queued"]
    BY <1>0, <1>1, OneJob DEF Ended
  <1>3. [i \in Job |-> JobState(i)][j] = "queued"
    BY <1>1 DEF JobState, Ended
  <1>4. [i \in Job |-> JobState(i)]' = [i \in Job |-> JobState(i)]
    BY <1>2, <1>3
  <1>5. JudgedParts' = JudgedParts /\ alive' = alive
    <2>1. CASE Push(j)
      <3>1. Current(j) \in Part /\ verdict[Current(j)] = "none"
        BY <2>1, CurrentIsNew DEF Push, To
      <3>2. /\ verdict' = [verdict EXCEPT ![Current(j)] = "queued"] /\ alive' = alive
        BY <2>1 DEF Push
      <3>3. \A q \in Part : verdict'[q] \in Answers <=> verdict[q] \in Answers
        BY <1>0, <3>1, <3>2 DEF TypeOK, Answers
      <3> QED
        BY <3>2, <3>3 DEF JudgedParts, Answered
    <2>2. CASE Notify(j)
      BY <2>2 DEF Notify, JudgedParts, Answered
    <2> QED
      BY <2>1, <2>2
  <1> QED
    BY <1>4, <1>5 DEF Service!serviceVars

LEMMA CollectSteps ==
  ASSUME IInv, NEW j \in Job, Collect(j)
  PROVE  Service!Forget(j)
  <1>0. TypeOK
    BY DEF IInv
  <1>1. /\ stage' = [stage EXCEPT ![j] = "idle"] /\ stage[j] \in Ended
        /\ verdict' = [p \in Part |-> IF p[1] = j THEN "none" ELSE verdict[p]]
        /\ alive' = alive
    BY DEF Collect, To
  <1>2. [i \in Job |-> JobState(i)]' = [[i \in Job |-> JobState(i)] EXCEPT ![j] = "none"]
    BY <1>0, <1>1, OneJob
  <1>3. [i \in Job |-> JobState(i)][j] \in {"done", "failed", "threw"}
    BY <1>1 DEF JobState, Ended
  <1>4. JudgedParts' = JudgedParts \ Service!Of(j)
    <2>1. \A q \in Part : verdict'[q] \in Answers <=> (verdict[q] \in Answers /\ q[1] # j)
      BY <1>1 DEF Answers
    <2> QED
      BY <2>1 DEF JudgedParts, Answered, Service!Of
  <1> QED
    BY <1>1, <1>2, <1>3, <1>4 DEF Service!Forget

(* A worker judges a part of a payload the service has, once.               *)
LEMMA JudgeSteps ==
  ASSUME IInv, NEW w \in Worker, NEW p \in Part, p = task[w],
         worker[w] \notin {"lock", "asleep", "doomed"},
         NEW r \in Answers, verdict' = [verdict EXCEPT ![p] = r], stage' = stage,
         alive' \in {TRUE, DataLives(p[1])}
  PROVE  Service!Judge(p)
  <1>0. TypeOK
    BY DEF IInv
  <1>1. verdict[p] = "queued"
    BY TaskIsQueued
  <1>2. p[1] \in Job /\ stage[p[1]] \notin {"idle", "open"}
    BY <1>1, PartElements DEF IInv, PartInv
  <1>3. [i \in Job |-> JobState(i)]' = [i \in Job |-> JobState(i)]
    BY DEF JobState
  <1>4. /\ [i \in Job |-> JobState(i)][p[1]] # "none"
        /\ ([i \in Job |-> JobState(i)][p[1]] = "queued") = DataLives(p[1])
    BY <1>2 DEF JobState, Ended, DataLives
  <1>5. p \notin JudgedParts /\ JudgedParts' = JudgedParts \cup {p}
    <2>1. \A q \in Part : verdict'[q] \in Answers <=> (verdict[q] \in Answers \/ q = p)
      BY <1>0 DEF TypeOK
    <2> QED
      BY <1>1, <2>1 DEF JudgedParts, Answered, Answers
  <1> QED
    BY <1>3, <1>4, <1>5 DEF Service!Judge

LEMMA WorkerSteps ==
  ASSUME IInv, NEW w \in Worker,
         \/ WorkerMoves(w) \/ TakeString(w) \/ TakeImage(w) \/ MatchThrows(w)
         \/ FinishString(w) \/ FinishImage(w) \/ ImageThrows(w)
  PROVE  (\E p \in Part : Service!Judge(p)) \/ Service!Crash \/ UNCHANGED Service!serviceVars
  <1>1. CASE MatchThrows(w)
    <2>1. PICK p : p = task[w]
      OBVIOUS
    <2>2. /\ worker[w] = "match" /\ verdict' = [verdict EXCEPT ![p] = "error"]
          /\ stage' = stage /\ alive /\ alive' = alive
      BY <1>1, <2>1 DEF MatchThrows, At
    <2>3. p \in Part /\ "error" \in Answers /\ alive' \in {TRUE, DataLives(p[1])}
      BY <2>1, <2>2, TaskIsQueued DEF Answers, IInv, TypeOK
    <2> QED
      BY <2>1, <2>2, <2>3, JudgeSteps
  <1>2. CASE FinishString(w) \/ FinishImage(w) \/ ImageThrows(w)
    <2>1. PICK r \in Answers, n \in 0 .. BURST :
            Finish(w, r, n) /\ worker[w] \in {"censor", "pass", "excuse", "image"}
      BY <1>2, FinishVerdict
    <2>2. PICK p : p = task[w]
      OBVIOUS
    <2>3. /\ verdict' = [verdict EXCEPT ![p] = r] /\ stage' = stage
          /\ alive' \in {TRUE, DataLives(p[1])}
      BY <2>1, <2>2 DEF Finish
    <2>4. p \in Part
      BY <2>1, <2>2, TaskIsQueued
    <2> QED
      BY <2>1, <2>2, <2>3, <2>4, JudgeSteps
  <1>3. CASE WorkerMoves(w) \/ TakeString(w) \/ TakeImage(w)
    <2>1. stage' = stage /\ verdict' = verdict
      BY <1>3 DEF WorkerMoves, Sleep, Spurious, Match, Terminate, TakeString, TakeImage
    <2>2. [i \in Job |-> JobState(i)]' = [i \in Job |-> JobState(i)] /\ JudgedParts' = JudgedParts
      BY <2>1 DEF JobState, JudgedParts, Answered
    <2>3. alive' = alive \/ alive' = FALSE
      BY <1>3 DEF WorkerMoves, Sleep, Spurious, Match, Terminate, TakeString, TakeImage
    <2> QED
      BY <2>2, <2>3 DEF Service!Crash, Service!serviceVars
  <1> QED
    BY <1>1, <1>2, <1>3

LEMMA InitServes == Init => Service!Init
  <1> SUFFICES ASSUME Init PROVE Service!Init
    OBVIOUS
  <1>1. [i \in Job |-> JobState(i)] = [i \in Text \cup Doc |-> "none"]
    BY DEF Init, JobState, Job
  <1>2. JudgedParts = {}
    BY DEF Init, JudgedParts, Answered, Answers
  <1> QED
    BY <1>1, <1>2 DEF Init, Service!Init

LEMMA StepServes ==
  ASSUME IInv, [Next]_vars
  PROVE  [Service!Next]_(Service!serviceVars)
  <1>1. CASE UNCHANGED engineVars
    <2>1. [i \in Job |-> JobState(i)]' = [i \in Job |-> JobState(i)] /\ JudgedParts' = JudgedParts
      BY <1>1 DEF engineVars, JobState, JudgedParts, Answered
    <2> QED
      BY <1>1, <2>1 DEF engineVars, Service!serviceVars
  <1>2. ASSUME NEW j \in Job, JobMoves(j) \/ Push(j) \/ Notify(j) \/ Collect(j)
        PROVE  [Service!Next]_(Service!serviceVars)
    <2>1. alive
      BY <1>2 DEF JobMoves, Submit, Open, ImageEmpty, CopyRest, WriteText, WriteImage,
                  CloseArchives, TextReady, Push, Notify, Collect, To
    <2>2. \/ Service!Submit(j) \/ (\E r \in Ended : Service!Answer(j, r)) \/ Service!Forget(j)
          \/ UNCHANGED Service!serviceVars
      BY <1>2, JobSteps, EnqueueSteps, CollectSteps
    <2> QED
      BY <2>1, <2>2 DEF Service!Next, Job, Ended
  <1>3. ASSUME NEW w \in Worker,
               \/ WorkerMoves(w) \/ TakeString(w) \/ TakeImage(w) \/ MatchThrows(w)
               \/ FinishString(w) \/ FinishImage(w) \/ ImageThrows(w)
        PROVE  [Service!Next]_(Service!serviceVars)
    <2>1. alive
      BY <1>3 DEF WorkerMoves, Sleep, Spurious, Match, Terminate, TakeString, TakeImage,
                  MatchThrows, FinishString, FinishImage, ImageThrows, At
    <2>2. (\E p \in Part : Service!Judge(p)) \/ Service!Crash \/ UNCHANGED Service!serviceVars
      BY <1>3, WorkerSteps
    <2> QED
      BY <2>1, <2>2 DEF Service!Next
  <1> QED
    BY <1>1, <1>2, <1>3, StepKinds DEF vars

(* The engine is the service the filtering loop relies on: a payload is     *)
(* answered at most once, with success only when every part was judged.     *)
THEOREM EngineServes == Spec => Serves
  <1>1. IInv /\ [Next]_vars => [Service!Next]_(Service!serviceVars)
    BY StepServes
  <1> QED
    BY <1>1, InitServes, EngineInvariant, PTL DEF Spec, Serves, Service!Spec
=============================================================================
