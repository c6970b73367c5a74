------------------------------- MODULE Courier -------------------------------
(***************************************************************************)
(* The whole path of a message, from sendData of one client to the inbox   *)
(* of another.                                                             *)
(***************************************************************************)
EXTENDS TransferClient

vars == <<gateway, left, relayVars, listening, pending, clientVars>>

TypeOK == RelayTypeOK /\ ClientTypeOK

Init == RelayInit /\ ClientInit

(* sendData: the control connection, the data port, the header and the     *)
(* data; every failure is logged and ends the attempt.  The gateway's      *)
(* session takes the message or drops it.                                  *)
SendData(m) ==
  /\ Flow!Admit(m)
  /\ UNCHANGED <<relayVars, listening, pending, clientVars>>

Judge(m) ==
  /\ Flow!Judge(m)
  /\ UNCHANGED <<relayVars, listening, pending, clientVars>>

Next ==
  \/ \E m \in Message : SendData(m) \/ Judge(m)
  \/ RelayStep /\ UNCHANGED clientVars
  \/ ClientStep /\ UNCHANGED <<gateway, left, relayVars>>

(* The target's event loop runs.                                           *)
Fairness ==
  \A a \in Address :
    /\ WF_vars(OnSocketRead(a) /\ UNCHANGED <<gateway, left, relayVars>>)
    /\ WF_vars(OnSocketDisconnected(a) /\ UNCHANGED <<gateway, left, relayVars>>)

-----------------------------------------------------------------------------
(* However the connections on the way break, the target shows a text or    *)
(* writes a file only if it has all of one message, nothing of another,    *)
(* in order.  Two things the code does not prevent are named: a text with  *)
(* wide characters loses its end, because its length is announced in       *)
(* UTF-16 units and counted in bytes; and a socket object placed where     *)
(* stopListening deleted one starts with the bytes of that one.            *)
ShownWhole ==
  \A i \in DOMAIN inbox :
    \/ inbox[i].mixed
    \/ \E m \in Message :
         inbox[i].cells = Data(m, IF m \in Wide THEN Announced(m) ELSE Size[m])

(* received_data_map_ has entries of sockets that are there, and of those  *)
(* that stopListening deleted, which nothing removes.                      *)
EntriesHaveSockets == DOMAIN received \subseteq Live \cup abandoned

(* What was received is looked at in the end, unless stopListening or the  *)
(* end of the process comes first.                                         *)
ReceivedIsHandled ==
  \A a \in Address :
    a \in DOMAIN received
      ~> (a \notin DOMAIN received \/ a \in abandoned \/ ~running)
=============================================================================
