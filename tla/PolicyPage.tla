----------------------------- MODULE PolicyPage -----------------------------
(***************************************************************************)
(* The page on which the operator edits the prohibited words, and its       *)
(* threads: handlers of the GUI thread, builds on threads of their own, and *)
(* their reports, which the event loop runs later.  The thread that builds  *)
(* reads the page's own set of words.                                       *)
(***************************************************************************)
EXTENDS RuleBuild

CONSTANT Word

VARIABLES
  pattern,     \* pattern_set_
  inserted,    \* new_inserted_pattern_set_
  erased,      \* will_erase_pattern_set_
  file,        \* the words in kDefaultDicPath
  modified,    \* pattern_modified_flag_
  enabled,     \* build_button_->isEnabled()
  isBuilding,  \* is_building_
  wasEnabled,  \* is_build_button_able, as an image update found it
  report,      \* what a finished thread has posted to the event loop
  waiting,     \* the GUI thread is inside FilteringInterface::instance().get()
  inTrie,      \* the words the trie was built from, unless racing
  racing,      \* history: the words changed while rebuild read them
  dirty,       \* history: a build failed, or something changed, since a build was started
  unsaved      \* history: the file could not be written

draftVars == <<pattern, inserted, erased>>
buttonVars == <<enabled, isBuilding, wasEnabled>>
historyVars == <<racing, dirty, unsaved>>
vars == <<ruleVars, draftVars, file, modified, buttonVars, report, waiting, inTrie,
          historyVars>>

(* The types of the variables.                                              *)
TypeOK ==
  /\ RuleTypeOK
  /\ pattern \subseteq Word /\ inserted \subseteq Word /\ erased \subseteq Word
  /\ file \subseteq Word /\ inTrie \subseteq Word
  /\ modified \in BOOLEAN /\ enabled \in BOOLEAN /\ isBuilding \in BOOLEAN
  /\ wasEnabled \in [Thread -> BOOLEAN]
  /\ report \in [Thread -> {"none", "ok", "error"}]
  /\ waiting \in BOOLEAN
  /\ racing \in BOOLEAN /\ dirty \in BOOLEAN /\ unsaved \in BOOLEAN

(* The constructors: the words are loaded and a build is started, then the  *)
(* logging page asks for the engine and waits for that build.  The program  *)
(* may have been closed, or have died, at any moment: the file holds what   *)
(* was saved last.                                                          *)
Init ==
  /\ RuleInit
  /\ file \in SUBSET Word /\ pattern = file
  /\ inserted = {} /\ erased = {}
  /\ modified = TRUE /\ enabled = FALSE /\ isBuilding = TRUE
  /\ wasEnabled = [t \in Thread |-> FALSE]
  /\ report = [t \in Thread |-> "none"]
  /\ waiting = TRUE
  /\ inTrie = {}
  /\ racing = FALSE /\ dirty = FALSE /\ unsaved = FALSE

-----------------------------------------------------------------------------
(* The event loop runs one handler at a time, and none while the GUI thread *)
(* builds the regex or waits for the engine.                                *)
GuiFree == ~waiting /\ \A t \in RegexBuilder : at[t] = "none"

Listed == (pattern \ erased) \cup inserted

Reading == \E t \in Builder : at[t] = "trie"
Races == racing' = (racing \/ (Reading /\ pattern' # pattern))

MarkModified ==
  /\ modified' = TRUE /\ enabled' = TRUE /\ dirty' = TRUE
  /\ UNCHANGED <<isBuilding, wasEnabled, unsaved, file, report, waiting, inTrie,
                 ruleVars>>

Add(w) ==
  /\ GuiFree
  /\ w \notin pattern \cup inserted
  /\ inserted' = inserted \cup {w}
  /\ MarkModified
  /\ UNCHANGED <<pattern, erased, racing>>

(* The current item can be any word: one renamed by a double click has no   *)
(* old text stored, so that the handler leaves the sets as they were.       *)
RemoveWord(w) ==
  /\ GuiFree
  /\ IF w \in pattern
       THEN erased' = erased \cup {w} /\ inserted' = inserted
       ELSE inserted' = inserted \ {w} /\ erased' = erased
  /\ MarkModified
  /\ UNCHANGED <<pattern, racing>>

(* The edited word leaves pattern_set_ at once.                             *)
Edit(old, new) ==
  /\ GuiFree
  /\ old # new
  /\ pattern' = pattern \ {old}
  /\ inserted' = {new} \cup IF old \in pattern THEN inserted ELSE inserted \ {old}
  /\ MarkModified
  /\ Races
  /\ UNCHANGED erased

Undo ==
  /\ GuiFree
  /\ inserted' = {} /\ erased' = {}
  /\ enabled' = FALSE
  /\ UNCHANGED <<pattern, file, modified, isBuilding, wasEnabled, report, waiting, inTrie,
                 ruleVars, historyVars>>

MutLoaded ==
  /\ modified' = modified /\ enabled' = TRUE /\ dirty' = TRUE
  /\ UNCHANGED <<isBuilding, wasEnabled, unsaved, file, report, waiting, inTrie,
                 ruleVars>>
Loaded == MarkModified

(* Another file of words, after the question whether to go on.              *)
Load(words) ==
  /\ GuiFree
  /\ pattern' = words /\ inserted' = {} /\ erased' = {}
  /\ Loaded
  /\ Races

(* set::merge leaves behind what pattern_set_ already had.                  *)
Merged == (pattern \ erased) \cup inserted
LeftOver == inserted \cap (pattern \ erased)

UpdatePatternSet ==
  /\ pattern' = Merged
  /\ inserted' = LeftOver
  /\ erased' = {}
  /\ modified' = FALSE
  /\ enabled' = FALSE

(* build_filtering_interface does nothing while something is being built.   *)
StartThread(t) == StartBuild(t) /\ report[t] = "none" /\ isBuilding' = TRUE

BuildFilteringInterface ==
  \/ isBuilding /\ UNCHANGED <<ruleVars, isBuilding, dirty>>
  \/ ~isBuilding /\ dirty' = FALSE /\ \E t \in Builder : StartThread(t)

Save ==
  \/ file' = pattern' /\ unsaved' = FALSE
  \/ file' = file /\ unsaved' = TRUE

BuildClicked ==
  /\ GuiFree /\ enabled
  /\ UpdatePatternSet
  /\ BuildFilteringInterface
  /\ Save
  /\ Races
  /\ UNCHANGED <<wasEnabled, report, waiting, inTrie>>

(* update_censor_image_button_clicked does not look at is_building_.        *)
UpdateImages(t) ==
  /\ GuiFree
  /\ StartThread(t)
  /\ wasEnabled' = [wasEnabled EXCEPT ![t] = enabled]
  /\ enabled' = FALSE
  /\ UNCHANGED <<draftVars, file, modified, report, waiting, inTrie, historyVars>>

ApplyRegex(t) ==
  /\ GuiFree
  /\ StartBuild(t)
  /\ UNCHANGED <<draftVars, file, modified, buttonVars, report, waiting, inTrie,
                 historyVars>>

(* Three buttons of the page, and the labelling dialog, ask for the engine. *)
AskForEngine ==
  /\ GuiFree
  /\ waiting' = TRUE
  /\ UNCHANGED <<ruleVars, draftVars, file, modified, buttonVars, report, inTrie,
                 historyVars>>

EngineGiven ==
  /\ waiting /\ buildFlag
  /\ waiting' = FALSE
  /\ UNCHANGED <<ruleVars, draftVars, file, modified, buttonVars, report, inTrie,
                 historyVars>>

(* The lambda a thread has posted.  Its error box is modal: what runs while *)
(* it is shown are other reports, as if this one had come later.            *)
ButtonAfter(t) == IF t \in ImageBuilder THEN wasEnabled[t] ELSE report[t] = "error"

BuildingAfter(t) == FALSE

Report(t) ==
  /\ GuiFree /\ report[t] # "none"
  /\ report' = [report EXCEPT ![t] = "none"]
  /\ enabled' = ButtonAfter(t)
  /\ isBuilding' = BuildingAfter(t)
  /\ wasEnabled' = [wasEnabled EXCEPT ![t] = FALSE]
  /\ UNCHANGED <<ruleVars, draftVars, file, modified, waiting, inTrie,
                 historyVars>>

-----------------------------------------------------------------------------
(* build_all walks through pattern_set_ itself.  If the GUI thread changed  *)
(* the set meanwhile, anything may come of it, the end of the program       *)
(* included: after that an initial state follows.  If it goes on, racing    *)
(* stays set, which says that the trie may have got any words.              *)
MutWordsRead == file
WordsRead == pattern

ReadWords(t) ==
  \/ /\ at[t] = "lock" /\ at'[t] = "trie"
     /\ racing' = FALSE /\ inTrie' = {}
  \/ /\ at[t] = "trie" /\ at'[t] = "none"
     /\ racing' = FALSE /\ inTrie' = inTrie
  \/ /\ at[t] = "trie" /\ at'[t] = "hash"
     /\ racing' = racing
     /\ inTrie' = IF racing THEN {} ELSE WordsRead
  \/ /\ at[t] # "trie" /\ at'[t] # "trie"
     /\ UNCHANGED <<racing, inTrie>>

Post(t, what) ==
  report' = IF at'[t] = "none" /\ t \notin RegexBuilder
              THEN [report EXCEPT ![t] = what] ELSE report

ThreadStep(t) ==
  /\ \/ BuildThrows(t) /\ Post(t, "error") /\ dirty' = (dirty \/ t \in Builder)
     \/ BuildGoesOn(t) /\ Post(t, "ok") /\ dirty' = dirty
  /\ ReadWords(t)
  /\ UNCHANGED <<draftVars, file, modified, buttonVars, waiting, unsaved>>

Operator ==
  \/ \E w \in Word : Add(w) \/ RemoveWord(w) \/ \E v \in Word : Edit(w, v)
  \/ Undo
  \/ \E words \in SUBSET Word : Load(words)
  \/ BuildClicked
  \/ \E t \in ImageBuilder : UpdateImages(t)
  \/ \E t \in RegexBuilder : ApplyRegex(t)
  \/ AskForEngine

Next ==
  \/ Operator
  \/ EngineGiven
  \/ \E t \in Thread : Report(t) \/ ThreadStep(t)

Spec == Init /\ [][Next]_vars

-----------------------------------------------------------------------------
(* What the list shows is what the filter looks for, once every change was  *)
(* followed by a build that the page has really started and that succeeded: *)
(* is_building_ may be cleared early, so clicks overtake builds.            *)
ShownIsInForce ==
  ~dirty /\ ~racing /\ (\A t \in Builder : at[t] = "none")
    => trie = "whole" /\ inTrie = Listed

(* Unless the page remembers that something was changed, the words are in   *)
(* the file the next start reads, and no change is pending.                 *)
SavedUnlessModified ==
  ~modified /\ ~unsaved => file = pattern /\ Listed = pattern

(* The flag that lets callers into the engine, the GUI thread among them,   *)
(* is only left down by a build that failed.                                *)
FlagComesBack == NoBuild /\ ~dirty => buildFlag

(* is_building_ never stays set, which would disable builds for good: there *)
(* is a thread at work or a report on its way.                              *)
BuildingEnds == isBuilding => \E t \in Thread \ RegexBuilder : at[t] # "none" \/ report[t] # "none"

(* Both flags come back.                                                    *)
FlagsComeBack == FlagComesBack /\ BuildingEnds
=============================================================================
