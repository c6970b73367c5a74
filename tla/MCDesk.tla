-------------------------------- MODULE MCDesk --------------------------------
(***************************************************************************)
(* What the operator does at the desk of the gateway: the words of the     *)
(* policy, the training documents and the log.  They share no variable, so *)
(* a behaviour is about one of them and leaves the others as they are.     *)
(***************************************************************************)
EXTENDS PolicyPage, TrainingDocs, LogFile, TLC

CONSTANTS a, b, b1, i1, g, d1, e1, e2, e3

VARIABLE page

DeskTypeOK == TypeOK /\ TrainTypeOK /\ LogTypeOK

DeskInit ==
  /\ page \in {"words", "documents", "log"}
  /\ Init /\ TrainInit /\ LogInit
  /\ page # "words" => file = {}
  /\ page # "documents" => \A d \in Doc : docs[d] = Gone

DeskNext ==
  \/ page = "words" /\ Next /\ UNCHANGED <<page, trainVars, logVars>>
  \/ page = "documents" /\ TrainNext /\ UNCHANGED <<page, vars, logVars>>
  \/ page = "log" /\ LogNext /\ UNCHANGED <<page, vars, trainVars>>

DeskSpec == DeskInit /\ [][DeskNext]_<<page, vars, trainVars, logVars>>

(* A sentence of one content is also in the other, but only there it has  *)
(* a word of the policy, as the words have changed in between.             *)
MCFound(v) ==
  IF v = "v1" THEN <<[text |-> "x", labels |-> <<"SECRET">>], [text |-> "y", labels |-> <<>>]>>
  ELSE <<[text |-> "y", labels |-> <<"SECRET">>]>>

Words == Permutations(Word)
===============================================================================
