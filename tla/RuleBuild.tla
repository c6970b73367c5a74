------------------------------ MODULE RuleBuild ------------------------------
(***************************************************************************)
(* The rules of the filtering engine (word trie, regex, image hashes) and   *)
(* the threads that replace them: the detached threads of PolicyPage and    *)
(* the GUI thread itself.  build_flag_ tells callers of the engine whether  *)
(* they may enqueue, trie_mutex_ keeps searches off a trie that is being    *)
(* rebuilt; the set of image hashes is protected by neither.                *)
(***************************************************************************)
EXTENDS Naturals, FiniteSets

CONSTANTS
  Builder,       \* names for the detached threads in build_all at one time
  ImageBuilder,  \* and for those in build_image_hash_set
  RegexBuilder,  \* the GUI thread, which runs build_regex itself
  NoOne          \* trie_mutex_ is not held exclusively

Thread == Builder \cup ImageBuilder \cup RegexBuilder

ASSUME BuilderAssumption ==
  /\ Builder \cap ImageBuilder = {}
  /\ RegexBuilder \cap (Builder \cup ImageBuilder) = {}
  /\ NoOne \notin Thread

VARIABLES
  buildFlag,  \* build_flag_
  writer,     \* who holds trie_mutex_ exclusively
  trie,       \* "whole", "partial" (being rebuilt), or "broken" by an exception or never built
  hashes,     \* image_hash_set_: "whole", "partial", or "torn" by two threads at once
  at          \* where a thread stands in its build

ruleVars == <<buildFlag, writer, trie, hashes, at>>

(* The types, and the stages each kind of thread goes through.              *)
RuleTypeOK ==
  /\ buildFlag \in BOOLEAN
  /\ writer \in Thread \cup {NoOne}
  /\ trie \in {"whole", "partial", "broken"}
  /\ hashes \in {"whole", "partial", "torn"}
  /\ at \in [Thread -> {"none", "args", "flag", "lock", "trie", "hash", "raise"}]
  /\ \A t \in ImageBuilder : at[t] \in {"none", "args", "hash"}
  /\ \A t \in RegexBuilder : at[t] \in {"none", "flag", "lock", "raise"}

(* The page's constructor has started the first build.                      *)
RuleInit ==
  /\ buildFlag = FALSE
  /\ writer = NoOne
  /\ trie = "broken" /\ hashes = "partial"
  /\ \E t \in Builder : at = [u \in Thread |-> IF u = t THEN "args" ELSE "none"]

Goes(t, from, to) == at[t] = from /\ at' = [at EXCEPT ![t] = to]

OthersHash(t) == \E u \in Thread \ {t} : at[u] = "hash"

-----------------------------------------------------------------------------
(* std::thread, or the call of build_regex on the GUI thread.               *)
StartBuild(t) ==
  /\ Goes(t, "none", IF t \in RegexBuilder THEN "flag" ELSE "args")
  /\ UNCHANGED <<buildFlag, writer, trie, hashes>>

(* image_hash_set_.clear(), and the insertions that follow.                 *)
Cleared(t) == IF OthersHash(t) THEN "torn" ELSE "partial"

(* load_image_dir_to_vec, evaluated before the build function is entered;   *)
(* build_image_hash_set has no flag and no lock.                            *)
ReadArgs(t) ==
  /\ \/ t \in Builder /\ Goes(t, "args", "flag") /\ hashes' = hashes
     \/ t \in ImageBuilder /\ Goes(t, "args", "hash") /\ hashes' = Cleared(t)
  /\ UNCHANGED <<buildFlag, writer, trie>>

ArgsThrow(t) ==
  /\ Goes(t, "args", "none")
  /\ UNCHANGED <<buildFlag, writer, trie, hashes>>

ClearFlag(t) ==
  /\ Goes(t, "flag", "lock")
  /\ buildFlag' = FALSE
  /\ UNCHANGED <<writer, trie, hashes>>

(* The regex is replaced while the lock is held; nothing in it can throw.   *)
ReplaceRegex(t) ==
  /\ t \in RegexBuilder /\ writer = NoOne
  /\ Goes(t, "lock", "raise")
  /\ UNCHANGED <<buildFlag, writer, trie, hashes>>

LockTrie(t) ==
  /\ t \in Builder /\ writer = NoOne
  /\ Goes(t, "lock", "trie")
  /\ writer' = t
  /\ trie' = "partial"
  /\ UNCHANGED <<buildFlag, hashes>>

(* rebuild returns, the regex follows and the hashes are cleared.           *)
TrieBuilt(t) ==
  /\ Goes(t, "trie", "hash")
  /\ trie' = "whole"
  /\ hashes' = Cleared(t)
  /\ UNCHANGED <<buildFlag, writer>>

Unlocked(t) == IF writer = t THEN NoOne ELSE writer

TrieThrows(t) ==
  /\ Goes(t, "trie", "none")
  /\ trie' = "broken"
  /\ writer' = Unlocked(t)
  /\ UNCHANGED <<buildFlag, hashes>>

MutAfterHashes(t) == "raise"
AfterHashes(t) == IF t \in Builder THEN "raise" ELSE "none"

(* What two threads made of one set is anything.                            *)
HashesBuilt(t) ==
  /\ Goes(t, "hash", AfterHashes(t))
  /\ hashes' \in IF hashes # "torn" THEN {"whole"}
                 ELSE IF OthersHash(t) THEN {"torn"} ELSE {"whole", "partial"}
  /\ writer' = Unlocked(t)
  /\ UNCHANGED <<buildFlag, trie>>

HashThrows(t) ==
  /\ Goes(t, "hash", "none")
  /\ writer' = Unlocked(t)
  /\ UNCHANGED <<buildFlag, trie, hashes>>

(* store(true) and notify_all.                                              *)
MutRaised == buildFlag
Raised == TRUE

RaiseFlag(t) ==
  /\ Goes(t, "raise", "none")
  /\ buildFlag' = Raised
  /\ UNCHANGED <<writer, trie, hashes>>

BuildThrows(t) == ArgsThrow(t) \/ TrieThrows(t) \/ HashThrows(t)

BuildGoesOn(t) ==
  \/ ReadArgs(t) \/ ClearFlag(t) \/ ReplaceRegex(t) \/ LockTrie(t)
  \/ TrieBuilt(t) \/ HashesBuilt(t) \/ RaiseFlag(t)

BuildStep(t) == BuildThrows(t) \/ BuildGoesOn(t)

NoBuild == \A t \in Thread : at[t] = "none"
=============================================================================
