--------------------------- MODULE ReliableTransfer ---------------------------
(***************************************************************************)
(* What GuardL2 promises to SendMode and RecvMode, without frames, windows *)
(* or timers: transfers are begun one after the other, each is handed to   *)
(* RecvMode at most once, whole and in the order they were begun, and      *)
(* send_reliable_data returns true only for one that was handed over.      *)
(* A transfer may be handed over although its sender was told it failed.   *)
(***************************************************************************)
EXTENDS Integers, Sequences

CONSTANT Transfers

VARIABLES
  current,    \* the transfer last begun, 0 before the first
  outcome,    \* what send_reliable_data returned for each transfer
  delivered   \* what receive_reliable_data returned, oldest first

rtVars == <<current, outcome, delivered>>

Handed(s) == \E i \in DOMAIN delivered : delivered[i].sid = s

Init ==
  /\ current = 0
  /\ outcome = [s \in DOMAIN Transfers |-> "none"]
  /\ delivered = <<>>

Begin ==
  /\ current < Len(Transfers)
  /\ current > 0 => outcome[current] # "none"
  /\ current' = current + 1
  /\ UNCHANGED <<outcome, delivered>>

Deliver(s) ==
  /\ \A i \in DOMAIN delivered : delivered[i].sid < s
  /\ delivered' = Append(delivered, [sid |-> s, data |-> Transfers[s]])
  /\ UNCHANGED <<current, outcome>>

Report(result) ==
  /\ current > 0
  /\ outcome[current] = "none"
  /\ result = "success" => Handed(current)
  /\ outcome' = [outcome EXCEPT ![current] = result]
  /\ UNCHANGED <<current, delivered>>

Next ==
  \/ Begin
  \/ \E s \in 1..current : Deliver(s)
  \/ \E result \in {"success", "failure"} : Report(result)

Spec == Init /\ [][Next]_rtVars
=============================================================================
