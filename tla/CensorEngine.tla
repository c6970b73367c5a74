---------------------------- MODULE CensorEngine ----------------------------
(***************************************************************************)
(* FilteringInterface at work: the filtering loop enqueues texts and starts *)
(* document jobs, the jobs enqueue the parts of their documents, a pool of  *)
(* workers judges and censors the parts, and the rules may be rebuilt at    *)
(* any time.                                                                *)
(***************************************************************************)
EXTENDS RuleBuild, Sequences, SequencesExt

CONSTANTS
  Text, Doc,  \* names of payloads: one string each, or a document
  Spans,      \* how many text spans a document has
  Pictures,   \* how many images a document has
  Worker,
  BURST,      \* a worker's strings before it looks at the images: 10 in the code
  NoTask,     \* a worker between two tasks
  Forbidden   \* the parts that hold something the rules forbid

Job == Text \cup Doc
Part == {<<j, n>> : j \in Text, n \in {1}}
          \cup {<<j, n>> : j \in Doc, n \in 1 .. Spans + Pictures}
IsImage(p) == p[1] \in Doc /\ p[2] > Spans
Size(j) == IF j \in Text THEN 1 ELSE Spans + Pictures

ASSUME EngineAssumption ==
  /\ Spans \in Nat /\ Pictures \in Nat /\ BURST \in Nat \ {0}
  /\ Worker # {} /\ Text \cap Doc = {} /\ NoTask \notin Part /\ Forbidden \subseteq Part

VARIABLES
  stage,    \* where the thread that serves a job stands
  next,     \* the next part it enqueues, or the next image it waits for
  strings,  \* string_task_que_
  images,   \* image_task_que_
  worker,   \* where a worker stands
  task,     \* the task it took
  burst,    \* its string_task_count, which only matters up to BURST
  verdict,  \* what the future of a part holds
  alive     \* the process has not been terminated

engineVars == <<stage, next, strings, images, worker, task, burst, verdict, alive>>
vars == <<ruleVars, engineVars>>

Ended == {"done", "failed", "threw"}
Enqueuing == {"put", "notify"}
Answers == {"clean", "censored", "missed", "excused", "error"}

(* The types of the variables.                                              *)
TypeOK ==
  /\ RuleTypeOK
  /\ stage \in [Job -> {"idle", "open", "spans", "images", "wait"} \cup Enqueuing \cup Ended]
  /\ next \in [Job -> 1 .. Spans + Pictures + 2]
  /\ strings \in Seq(Part) /\ images \in Seq(Part)
  /\ worker \in [Worker -> {"lock", "asleep", "match", "censor", "pass", "excuse", "image", "doomed"}]
  /\ task \in [Worker -> Part \cup {NoTask}]
  /\ burst \in [Worker -> 0 .. BURST]
  /\ verdict \in [Part -> {"none", "queued"} \cup Answers]
  /\ alive \in BOOLEAN

Init ==
  /\ RuleInit
  /\ stage = [j \in Job |-> "idle"]
  /\ next = [j \in Job |-> 1]
  /\ strings = <<>> /\ images = <<>>
  /\ worker = [w \in Worker |-> "lock"]
  /\ task = [w \in Worker |-> NoTask]
  /\ burst = [w \in Worker |-> 0]
  /\ verdict = [p \in Part |-> "none"]
  /\ alive = TRUE

To(j, from, to) == alive /\ stage[j] = from /\ stage' = [stage EXCEPT ![j] = to]

queueVars == <<strings, images>>
workerVars == <<worker, task, burst>>

-----------------------------------------------------------------------------
(* The filtering loop enqueues a text itself, and waits in it while         *)
(* build_flag_ is false; a document gets a thread of its own.               *)
LoopFree == \A j \in Text : stage[j] \notin Enqueuing

Submit(j) ==
  /\ LoopFree
  /\ To(j, "idle", IF j \in Text THEN "put" ELSE "open")
  /\ next' = [next EXCEPT ![j] = 1]
  /\ UNCHANGED <<queueVars, workerVars, verdict, alive>>

(* The archive is read, or the job returns 0.                               *)
Open(j) ==
  /\ To(j, "open", "put") \/ To(j, "open", "failed")
  /\ UNCHANGED <<next, queueVars, workerVars, verdict, alive>>

MorePuts(j) == next[j] <= Size(j)
Current(j) == <<j, next[j]>>

(* enqueue_censor_string, enqueue_censor_image: wait for build_flag_,       *)
(* append the task under task_que_mutex_,                                   *)
Push(j) ==
  /\ MorePuts(j)
  /\ buildFlag
  /\ To(j, "put", "notify")
  /\ IF IsImage(Current(j))
       THEN images' = Append(images, Current(j)) /\ strings' = strings
       ELSE strings' = Append(strings, Current(j)) /\ images' = images
  /\ verdict' = [verdict EXCEPT ![Current(j)] = "queued"]
  /\ UNCHANGED <<next, workerVars, alive>>

(* and notify one worker after the mutex was released.                      *)
MutSleepers == {}
Sleepers == {w \in Worker : worker[w] = "asleep"}

Notify(j) ==
  /\ To(j, "notify", IF j \in Text THEN "wait" ELSE "put")
  /\ \/ \E w \in Sleepers : worker' = [worker EXCEPT ![w] = "lock"]
     \/ Sleepers = {} /\ worker' = worker
  /\ next' = [next EXCEPT ![j] = @ + 1]
  /\ UNCHANGED <<queueVars, task, burst, verdict, alive>>

(* An image that could not be decoded: the job returns 0, with the tasks    *)
(* for the parts before it still in the queues.                             *)
ImageEmpty(j) ==
  /\ MorePuts(j) /\ IsImage(Current(j))
  /\ To(j, "put", "failed")
  /\ UNCHANGED <<next, queueVars, workerVars, verdict, alive>>

(* Everything is enqueued; the rest of the archive is copied meanwhile.     *)
CopyRest(j) ==
  /\ j \in Doc /\ ~MorePuts(j)
  /\ To(j, "put", "spans") \/ To(j, "put", "failed")
  /\ UNCHANGED <<next, queueVars, workerVars, verdict, alive>>

Answered(p) == verdict[p] \in Answers

(* Wait for all spans, then write the text.                                 *)
MutSpansReady(j) == TRUE
SpansReady(j) == \A p \in Part : p[1] = j /\ ~IsImage(p) => Answered(p)

WriteText(j) ==
  /\ SpansReady(j)
  /\ To(j, "spans", "images") \/ To(j, "spans", "failed")
  /\ next' = [next EXCEPT ![j] = Spans + 1]
  /\ UNCHANGED <<queueVars, workerVars, verdict, alive>>

(* get the next image's verdict, which rethrows, and write the image.       *)
WriteImage(j) ==
  /\ MorePuts(j) /\ Answered(Current(j))
  /\ IF verdict[Current(j)] = "error"
       THEN To(j, "images", "threw")
       ELSE To(j, "images", "images") \/ To(j, "images", "failed")
  /\ next' = [next EXCEPT ![j] = @ + 1]
  /\ UNCHANGED <<queueVars, workerVars, verdict, alive>>

CloseArchives(j) ==
  /\ ~MorePuts(j)
  /\ To(j, "images", "done") \/ To(j, "images", "failed")
  /\ UNCHANGED <<next, queueVars, workerVars, verdict, alive>>

(* A text's future is ready: the filtering loop sees it.                    *)
TextReady(j) ==
  /\ Answered(<<j, 1>>)
  /\ To(j, "wait", IF verdict[<<j, 1>>] = "error" THEN "failed" ELSE "done")
  /\ UNCHANGED <<next, queueVars, workerVars, verdict, alive>>

(* The parts somebody will still touch.                                     *)
Pending == ToSet(strings) \cup ToSet(images) \cup ({task[w] : w \in Worker} \ {NoTask})

(* The name serves another payload when nothing refers to the last one.     *)
Forgotten(j) == \A p \in Pending : p[1] # j

Collect(j) ==
  /\ stage[j] \in Ended /\ LoopFree /\ Forgotten(j)
  /\ To(j, stage[j], "idle")
  /\ verdict' = [p \in Part |-> IF p[1] = j THEN "none" ELSE verdict[p]]
  /\ UNCHANGED <<next, queueVars, workerVars, alive>>

JobStep(j) ==
  \/ Open(j) \/ Push(j) \/ Notify(j) \/ ImageEmpty(j) \/ CopyRest(j)
  \/ WriteText(j) \/ WriteImage(j) \/ CloseArchives(j) \/ TextReady(j)

-----------------------------------------------------------------------------
(* worker_loop.  The condition variable releases the mutex only when both   *)
(* queues are empty.                                                        *)
At(w, from, to) == alive /\ worker[w] = from /\ worker' = [worker EXCEPT ![w] = to]

MutNothingToDo == strings = <<>>
NothingToDo == strings = <<>> /\ images = <<>>

Sleep(w) ==
  /\ NothingToDo
  /\ At(w, "lock", "asleep")
  /\ UNCHANGED <<stage, next, queueVars, task, burst, verdict, alive>>

Spurious(w) ==
  /\ At(w, "asleep", "lock")
  /\ UNCHANGED <<stage, next, queueVars, task, burst, verdict, alive>>

MutStringsTurn(w) == strings # <<>>
StringsTurn(w) == strings # <<>> /\ (burst[w] < BURST \/ images = <<>>)

MutPopped(queue) == queue
Popped(queue) == Tail(queue)

TakeString(w) ==
  /\ StringsTurn(w)
  /\ At(w, "lock", "match")
  /\ task' = [task EXCEPT ![w] = Head(strings)]
  /\ strings' = Popped(strings)
  /\ UNCHANGED <<stage, next, images, burst, verdict, alive>>

TakeImage(w) ==
  /\ ~StringsTurn(w) /\ images # <<>>
  /\ At(w, "lock", "image")
  /\ task' = [task EXCEPT ![w] = Head(images)]
  /\ images' = Popped(images)
  /\ UNCHANGED <<stage, next, strings, burst, verdict, alive>>

(* The job's text and images are locals of its thread, the text of a        *)
(* message belongs to the filtering loop.                                   *)
DataLives(j) == stage[j] \notin {"idle", "open"} \cup Ended

(* The rules are searched under trie_mutex_, shared.  A whole trie finds    *)
(* what is forbidden, deep learning may find more, any other trie may find  *)
(* anything; what a broken one does not find is told apart ("excuse").      *)
MutCanSearch == TRUE
CanSearch == writer = NoOne

Match(w) ==
  /\ CanSearch
  /\ \/ At(w, "match", "censor")
     \/ /\ task[w] \notin Forbidden \/ trie # "whole"
        /\ At(w, "match", IF trie = "broken" THEN "excuse" ELSE "pass")
  /\ UNCHANGED <<stage, next, queueVars, task, burst, verdict, alive>>

(* An exception in the search, regex_error for one, goes into the promise;  *)
(* set_value then throws, and that ends the process.                        *)
MatchThrows(w) ==
  /\ CanSearch
  /\ At(w, "match", "doomed")
  /\ verdict' = [verdict EXCEPT ![task[w]] = "error"]
  /\ UNCHANGED <<stage, next, queueVars, task, burst, alive>>

Terminate(w) ==
  /\ alive /\ worker[w] = "doomed"
  /\ alive' = FALSE
  /\ UNCHANGED <<stage, next, queueVars, workerVars, verdict>>

Counted(w) == IF burst[w] < BURST THEN burst[w] + 1 ELSE BURST

Judged(p, hit, excuse) ==
  IF hit THEN "censored"
  ELSE IF p \notin Forbidden THEN "clean" ELSE IF excuse THEN "excused" ELSE "missed"

(* Memory of a job that has returned is not its text any more: the process  *)
(* may or may not survive the write.                                        *)
Finish(w, v, count) ==
  /\ worker' = [worker EXCEPT ![w] = "lock"]
  /\ verdict' = [verdict EXCEPT ![task[w]] = v]
  /\ task' = [task EXCEPT ![w] = NoTask]
  /\ burst' = [burst EXCEPT ![w] = count]
  /\ alive' \in {TRUE, DataLives(task[w][1])}
  /\ UNCHANGED <<stage, next, queueVars>>

FinishString(w) ==
  /\ alive /\ worker[w] \in {"censor", "pass", "excuse"}
  /\ Finish(w, Judged(task[w], worker[w] = "censor", worker[w] = "excuse"), Counted(w))

(* image_hash_set_ is looked up with no lock: while another thread fills    *)
(* it the lookup may find anything, or not return.                          *)
AfterImage == 0
FinishImage(w) ==
  /\ alive /\ worker[w] = "image"
  /\ \E hit \in IF hashes = "whole" THEN {task[w] \in Forbidden} ELSE BOOLEAN :
       Finish(w, Judged(task[w], hit, hashes # "whole"), AfterImage)

ImageThrows(w) ==
  /\ alive /\ worker[w] = "image"
  /\ Finish(w, "error", AfterImage)

WorkerStep(w) ==
  \/ Sleep(w) \/ TakeString(w) \/ TakeImage(w) \/ Match(w) \/ MatchThrows(w)
  \/ Terminate(w) \/ FinishString(w) \/ FinishImage(w) \/ ImageThrows(w)

-----------------------------------------------------------------------------
Serving(A) == A /\ UNCHANGED ruleVars
Building(A) == alive /\ A /\ UNCHANGED engineVars

Next ==
  \/ \E j \in Job : Serving(Submit(j) \/ JobStep(j) \/ Collect(j))
  \/ \E w \in Worker : Serving(WorkerStep(w) \/ Spurious(w))
  \/ \E t \in Thread : Building(StartBuild(t) \/ BuildStep(t))

Spec == Init /\ [][Next]_vars

(* Threads that have something to do go on.  Nothing is assumed of the      *)
(* payloads that come, of the operator, or of spurious wake-ups.            *)
Fairness ==
  /\ \A j \in Job : WF_vars(Serving(JobStep(j)))
  /\ \A w \in Worker : WF_vars(Serving(WorkerStep(w)))
  /\ \A t \in Thread : WF_vars(Building(BuildStep(t)))

FairSpec == Spec /\ Fairness
=============================================================================
