------------------------------- MODULE LogFile -------------------------------
(***************************************************************************)
(* The logging page.  Two buttons of the GUI thread open and close the log *)
(* file without a lock, while the workers of the filtering engine, which   *)
(* lock out only each other, hand in what they have found.  The file keeps *)
(* its name as long as the program runs, so each opening empties it.       *)
(***************************************************************************)
EXTENDS SequencesExt

CONSTANTS
  Entry,    \* what the workers hand in, each by a call of append_log
  NoEntry   \* log_file_mutex is free

VARIABLES
  logging,    \* logging_state_flag_, which the page also shows
  isOpen,     \* log_file_ofstream_.is_open()
  failed,     \* a state bit of log_file_ofstream_ is set: output does nothing
  log,        \* the entries in kLogFilePath_
  shown,      \* those posted to the text box
  place,      \* where the call of append_log with this entry stands
  mutex,      \* log_file_mutex
  disturbed,  \* history: entries during whose append a button was clicked
  wiped,      \* history: entries that were in the file when it was opened
  spoiled,    \* history: since the file was opened "start" was clicked once more,
              \* or a click met an output and left the stream with an error
  affected    \* history: entries whose append overlaps that

logVars == <<logging, isOpen, failed, log, shown, place, mutex, disturbed, wiped,
             spoiled, affected>>
logHistory == <<disturbed, wiped, spoiled, affected>>

(* The types; an entry is in the file once, if at all.                     *)
LogTypeOK ==
  /\ logging \in BOOLEAN /\ isOpen \in BOOLEAN /\ failed \in BOOLEAN
  /\ spoiled \in BOOLEAN
  /\ log \in Seq(Entry) /\ IsInjective(log)
  /\ shown \subseteq Entry
  /\ place \in [Entry -> {"new", "accepted", "posted", "writing", "done", "refused"}]
  /\ mutex \in Entry \cup {NoEntry}
  /\ disturbed \subseteq Entry /\ wiped \subseteq Entry /\ affected \subseteq Entry

(* The constructor has clicked "stop", which closed what was not open.     *)
LogInit ==
  /\ logging = FALSE /\ isOpen = FALSE /\ failed = TRUE
  /\ log = <<>> /\ shown = {}
  /\ place = [e \in Entry |-> "new"]
  /\ mutex = NoEntry
  /\ disturbed = {} /\ wiped = {} /\ spoiled = FALSE /\ affected = {}

-----------------------------------------------------------------------------
Logged  == {log[i] : i \in DOMAIN log}
InAppend == {e \in Entry : place[e] \in {"accepted", "posted", "writing"}}

Clicked == disturbed' = disturbed \cup InAppend

(* open() clears the state bits if it succeeds.  It fails on a file that   *)
(* is open, but then is_open() is true.                                    *)
MutAfterOpen == failed
AfterOpen    == FALSE

LoggingStart ==
  /\ Clicked
  /\ \/ /\ ~isOpen
        /\ isOpen' = TRUE /\ failed' = AfterOpen /\ logging' = TRUE
        /\ log' = <<>> /\ wiped' = wiped \cup Logged
        /\ spoiled' = FALSE
     \/ /\ ~isOpen
        /\ failed' = TRUE
        /\ UNCHANGED <<isOpen, logging, log, wiped, spoiled>>
     \/ /\ isOpen
        /\ failed' = TRUE /\ logging' = TRUE /\ spoiled' = TRUE
        /\ UNCHANGED <<isOpen, log, wiped>>
  /\ UNCHANGED <<shown, place, mutex, affected>>

(* After close() no file is open, even where it reports a failure.         *)
LoggingStop ==
  /\ Clicked
  /\ failed' = (failed \/ ~isOpen)
  /\ isOpen' = FALSE /\ logging' = FALSE
  /\ spoiled' = FALSE
  /\ UNCHANGED <<log, shown, place, mutex, wiped, affected>>

-----------------------------------------------------------------------------
Moves(e, from, to) == place[e] = from /\ place' = [place EXCEPT ![e] = to]

(* append_log looks at the flag, which is no atomic, only here.            *)
TestFlag(e) ==
  /\ Moves(e, "new", IF logging THEN "accepted" ELSE "refused")
  /\ affected' = IF spoiled THEN affected \cup {e} ELSE affected
  /\ UNCHANGED <<logging, isOpen, failed, log, shown, mutex, disturbed, wiped,
                 spoiled>>

(* The lambda that adds the entry to the text box.                         *)
PostEntry(e) ==
  /\ Moves(e, "accepted", "posted")
  /\ shown' = shown \cup {e}
  /\ UNCHANGED <<logging, isOpen, failed, log, mutex, logHistory>>

MayWrite(e)    == mutex = NoEntry

LockLog(e) ==
  /\ MayWrite(e)
  /\ Moves(e, "posted", IF isOpen THEN "writing" ELSE "done")
  /\ mutex' = IF isOpen THEN e ELSE mutex
  /\ UNCHANGED <<logging, isOpen, failed, log, shown, logHistory>>

(* If the stream was opened or closed during the output, the entry may or  *)
(* may not be in the file, and the stream may be left with an error.       *)
(* (Anything else may come of it too, the end of the program included.)    *)
WriteLog(e) ==
  /\ Moves(e, "writing", "done")
  /\ mutex' = NoEntry
  /\ \/ /\ isOpen /\ ~failed
        /\ log' = Append(log, e)
        /\ UNCHANGED <<failed, spoiled, affected>>
     \/ /\ ~isOpen \/ failed \/ e \in disturbed
        /\ failed' \in IF e \in disturbed THEN {failed, TRUE} ELSE {failed}
        /\ spoiled' = (spoiled \/ (failed' /\ ~failed))
        /\ affected' = IF spoiled' THEN affected \cup InAppend ELSE affected
        /\ log' = log
  /\ UNCHANGED <<logging, isOpen, shown, disturbed, wiped>>

LogNext ==
  \/ LoggingStart \/ LoggingStop
  \/ \E e \in Entry : TestFlag(e) \/ PostEntry(e) \/ LockLog(e) \/ WriteLog(e)

LogSpec == LogInit /\ [][LogNext]_logVars

-----------------------------------------------------------------------------
(* An entry that append_log accepted is in the text box, and in the file or *)
(* what the file held before it was opened anew, unless a click fell into   *)
(* the append or the stream was spoiled: then the page says that it logs,   *)
(* and nothing is written until "stop" is clicked.                          *)
LoggedIsWritten ==
  \A e \in Entry :
    place[e] = "done" =>
      e \in shown /\ e \in Logged \cup wiped \cup disturbed \cup affected
=============================================================================
