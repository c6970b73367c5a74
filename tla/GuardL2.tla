------------------------------- MODULE GuardL2 -------------------------------
(***************************************************************************)
(* The two CDSGuard boxes and the link between them: the send-mode box     *)
(* runs GuardL2Sender once per payload, the receive-mode box calls         *)
(* receive_reliable_data for ever.  Three threads interleave: SendMode's   *)
(* thread, its ACK listener, and RecvMode's.                               *)
(***************************************************************************)
EXTENDS GuardL2Sender, GuardL2Receiver

vars == <<linkVars, senderVars, receiverVars>>

(* The sender's first window must fit the receiver's: 64 <= 512.           *)
ASSUME WindowAssumption == INITIAL_WINDOW <= WINDOW

Init == LinkInit /\ SenderInit /\ ReceiverInit

Next ==
  \/ SenderStep /\ UNCHANGED receiverVars
  \/ ReceiverStep /\ UNCHANGED senderVars
  \/ LinkStep /\ UNCHANGED <<senderVars, receiverVars>>

Spec == Init /\ [][Next]_vars

(***************************************************************************)
(* Both threads of the sender and the receiver keep running.  A frame that *)
(* stays unacked is found past its deadline again and again, since RTO is  *)
(* at most 3 s: without strong fairness the thread could wake for ever for *)
(* other reasons.  The cable eventually works.                             *)
(***************************************************************************)
TimesOut(seq) ==
  \E expired \in SUBSET Unacked : seq \in expired /\ Wake(expired)

MaxPackets == CHOOSE n \in { Packets(s) : s \in Sid } :
                \A s \in Sid : Packets(s) <= n

Fairness ==
  /\ WF_vars(SenderThread /\ UNCHANGED receiverVars)
  /\ WF_vars(Listener /\ UNCHANGED receiverVars)
  /\ \A seq \in 1..MaxPackets :
       SF_vars(TimesOut(seq) /\ UNCHANGED receiverVars)
  /\ WF_vars((ReceiveFrame \/ IgnoreFrame) /\ UNCHANGED senderVars)
  /\ WF_vars(ForwardDone /\ UNCHANGED senderVars)
  /\ WF_vars(Stabilise /\ UNCHANGED <<senderVars, receiverVars>>)

FairSpec == Spec /\ Fairness

-----------------------------------------------------------------------------
TypeOK == LinkTypeOK /\ SenderTypeOK /\ ReceiverTypeOK

(* What the receiver holds of the open session is a prefix of what the     *)
(* sender was given, the packets buffered out of order are its own, and    *)
(* what RecvMode got is exactly one of the payloads: neither a damaged     *)
(* frame, nor a leftover of an earlier session in out_of_order_buffer_,    *)
(* nor a repeated or late frame gets in.                                   *)
Integrity ==
  /\ active =>
       /\ totalPackets = Packets(session)
       /\ recvBase \in 1..(totalPackets + 1)
       /\ reassembled = SubSeq(Transfers[session], 1, recvBase - 1)
       /\ \A seq \in DOMAIN ooo :
            /\ seq \in (recvBase + 1)..totalPackets
            /\ ooo[seq] = Transfers[session][seq]
  /\ \A i \in DOMAIN delivered :
       delivered[i].data = Transfers[delivered[i].sid]

SessionOpen == active /\ session = current

Holds(seq) == seq < recvBase \/ seq \in DOMAIN ooo

(* The receiver acknowledges a packet before it stores it: whatever the    *)
(* sender counts as acked, slid over or not, the receiver really has as    *)
(* long as it has the session.                                             *)
AckedIsHeld ==
  SessionOpen /\ stage # "idle" =>
    \A seq \in 1..total_packets :
      seq < sendBase \/ seq \in acked => Holds(seq)

(* Two windows computed on two machines from stale numbers: no DATA frame  *)
(* in flight is beyond what the receiver can buffer, so none is dropped    *)
(* for want of room, and out_of_order_buffer_ stays below its capacity.    *)
InReceiverWindow ==
  active =>
    /\ Cardinality(DOMAIN ooo) < WINDOW
    /\ \A i \in DOMAIN toReceiver :
         toReceiver[i].type = "DATA" /\ toReceiver[i].sid = session
           => toReceiver[i].seq < recvBase + WINDOW

(* The effective window is never zero, so the sender always may send the   *)
(* packet at its base.                                                     *)
WindowOpen ==
  /\ rwnd >= 1
  /\ stage \in {"fill", "inspect", "wait", "probe"} => window >= 1

(* A retransmitted START that is handled late resets the session it opened *)
(* itself, but never one that has made progress.                           *)
KeepsProgress ==
  [][active /\ active' /\ session' = session => recvBase' >= recvBase]_vars

(* The guard implements the abstract transfer service.                     *)
RT == INSTANCE ReliableTransfer
Refines == RT!Spec

(* send_reliable_data returns, unless the receiver gave up the session     *)
(* after it acknowledged START, or a damaged ACK made the sender pass over *)
(* a packet the receiver lacks: the data loop has no limit on retries.     *)
Orphaned ==
  /\ stage \in {"read_cwnd", "read_rwnd", "fill", "inspect", "wait", "probe"}
  /\ ~SessionOpen
  /\ \A i \in DOMAIN toReceiver :
       ~(toReceiver[i].type = "START" /\ toReceiver[i].sid = current)

TransferEnds ==
  stage # "idle" ~> (stage = "idle" \/ Orphaned \/ ~AckedIsHeld)

-----------------------------------------------------------------------------
(* GuardL2.hpp:93, "the main function that transmits data reliably": when  *)
(* it returns true the receiver has handed the data over.                  *)
SuccessIsDelivery ==
  \A s \in Sid :
    outcome[s] = "success" => \E i \in DOMAIN delivered : delivered[i].sid = s
=============================================================================
