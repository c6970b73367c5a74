------------------------------ MODULE GuardL2Inv ------------------------------
(***************************************************************************)
(* The inductive invariant of GuardL2.  The argument it carries: the cable *)
(* keeps order, so a START is never behind the DATA and END frames of its  *)
(* own transfer, and once the receiver has made progress no START can      *)
(* reset it; hence every packet counted as acknowledged is held by the     *)
(* receiver for as long as it has the session, END leaves only when the    *)
(* receiver is complete or has lost the session for good, and an ACK of    *)
(* END means the data was handed over.                                     *)
(***************************************************************************)
EXTENDS GuardL2

StartPhase == stage \in {"start", "start_wait"}
DataPhase == stage \in {"read_cwnd", "read_rwnd", "fill", "inspect", "wait",
                        "probe"}
EndPhase == stage \in {"end", "end_wait"}

StartInLink(s) ==
  \E i \in DOMAIN toReceiver :
    toReceiver[i].type = "START" /\ toReceiver[i].sid = s

HandedOver(s) == \E i \in DOMAIN delivered : delivered[i].sid = s

Open(s) == active /\ session = s

-----------------------------------------------------------------------------
(* Every undamaged frame is what build_frame made of the transfer.         *)
GoodFrame ==
  { f \in Frame :
      /\ f.type = "START" => f.seq = 0
      /\ f.type = "DATA" => f.seq \in 1..Packets(f.sid)
      /\ f.type = "END" => f.seq = Packets(f.sid) + 1
      /\ f.total = Packets(f.sid)
      /\ f.type = "DATA" /\ f.intact => f.payload = Transfers[f.sid][f.seq] }

FramesGood == toReceiver \in Seq(GoodFrame)

(* The receiver never buffers as many packets as its window has, so every  *)
(* window it advertises is open.                                           *)
WindowsInv ==
  /\ active => DOMAIN ooo \subseteq (recvBase + 1)..(recvBase + WINDOW - 1)
  /\ \A i \in DOMAIN toSender : toSender[i].window \in 1..WINDOW
  /\ rwnd \in 1..WINDOW
  /\ stage = "read_rwnd" => window >= 1
  /\ stage \in {"fill", "inspect", "wait", "probe"} => window \in 1..WINDOW

(* The sender's own bookkeeping.                                           *)
SenderInv ==
  /\ stage = "idle" /\ current > 0 => outcome[current] # "none"
  /\ stage # "idle" => outcome[current] = "none"
  /\ \A s \in Sid : s > current => outcome[s] = "none"
  /\ stage \in {"start", "end"} => tries < MAX_TRIES
  /\ StartPhase => sendBase = 1 /\ nextSeq = 1 /\ buffered = {0}
  /\ stage # "idle" =>
       /\ sendBase <= nextSeq
       /\ nextSeq <= total_packets + 1
       /\ buffered \cap (1..total_packets) = sendBase..(nextSeq - 1)
       /\ buffered \subseteq 0..(total_packets + 1)
  /\ DataPhase => total_packets + 1 \notin buffered /\ sendBase <= total_packets
  /\ EndPhase => sendBase = total_packets + 1

(* Sessions reach the receiver, and are handed over, in order.             *)
OrderInv ==
  /\ \A i \in DOMAIN toReceiver : toReceiver[i].sid <= current
  /\ \A i, j \in DOMAIN toReceiver :
       i < j => toReceiver[i].sid <= toReceiver[j].sid
  /\ active => /\ session <= current
               /\ \A i \in DOMAIN toReceiver : session <= toReceiver[i].sid
  /\ \A d \in DOMAIN delivered :
       /\ delivered[d].sid <= current
       /\ active => delivered[d].sid < session
       /\ \A i \in DOMAIN toReceiver : delivered[d].sid <= toReceiver[i].sid
  /\ \A d, e \in DOMAIN delivered : d < e => delivered[d].sid < delivered[e].sid

(* No START behind the other frames of its transfer, none left once the    *)
(* receiver has made progress in it or has handed it over, and no such     *)
(* progress before the sender has left the handshake.                      *)
Progress == recvBase > 1 \/ DOMAIN ooo # {}

StartInv ==
  /\ \A i, j \in DOMAIN toReceiver :
       /\ toReceiver[i].sid = toReceiver[j].sid
       /\ toReceiver[i].type # "START" /\ toReceiver[j].type = "START"
       => j < i
  /\ active /\ Progress => ~StartInLink(session)
  /\ \A d \in DOMAIN delivered : ~StartInLink(delivered[d].sid)
  /\ StartPhase =>
       /\ \A i \in DOMAIN toReceiver :
            toReceiver[i].sid = current => toReceiver[i].type = "START"
       /\ SessionOpen => ~Progress
       /\ ~HandedOver(current)

(* What an acknowledgement of packet seq of the current transfer means.    *)
Lost == ~SessionOpen /\ ~StartInLink(current)

Got(seq) == \/ HandedOver(current)
            \/ SessionOpen /\ Holds(seq)
            \/ Lost

AckInv ==
  stage # "idle" =>
    /\ StartPhase => \A i \in DOMAIN toSender :
                       toSender[i].sid = current => toSender[i].seq = 0
    /\ \A seq \in 1..total_packets :
         seq < sendBase \/ seq \in acked => Got(seq)
    /\ \A i \in DOMAIN toSender :
         /\ toSender[i].sid = current
         /\ toSender[i].seq \in 1..total_packets
         => Got(toSender[i].seq)

(* END of a transfer is in flight only if the receiver has all of it or    *)
(* has lost the session, and its ACK only if it was handed over.           *)
EndInv ==
  /\ active => ~endReceived
  /\ \A i \in DOMAIN toReceiver :
       toReceiver[i].type = "END" =>
         /\ ~StartInLink(toReceiver[i].sid)
         /\ Open(toReceiver[i].sid) => recvBase = totalPackets + 1
  /\ \A i \in DOMAIN toSender :
       toSender[i].seq = Packets(toSender[i].sid) + 1
         => HandedOver(toSender[i].sid)
  /\ stage # "idle" /\ total_packets + 1 \in acked => HandedOver(current)
  /\ SuccessIsDelivery

(* DATA in flight, and DATA the sender may still retransmit, fits in the   *)
(* window the receiver has now, or will have once it handles the START     *)
(* still ahead of it.                                                      *)
FitsWindow(s, seq) ==
  /\ Open(s) => seq < recvBase + WINDOW
  /\ StartInLink(s) => seq < 1 + WINDOW

RoomInv ==
  /\ \A i \in DOMAIN toReceiver :
       toReceiver[i].type = "DATA"
         => FitsWindow(toReceiver[i].sid, toReceiver[i].seq)
  /\ stage # "idle" => FitsWindow(current, nextSeq - 1)

ProtocolInv == OrderInv /\ StartInv /\ AckInv /\ EndInv /\ RoomInv

IInv == TypeOK /\ FramesGood /\ Integrity /\ WindowsInv /\ SenderInv
          /\ ProtocolInv
=============================================================================
