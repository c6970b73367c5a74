---------------------------- MODULE GuardL2Sender ----------------------------
(***************************************************************************)
(* GuardL2Sender: send_reliable_data, run by SendMode's thread, and the    *)
(* ACK listener thread it starts.  The two meet in send_buffer_ under      *)
(* buffer_mutex_ and in cwnd_ / rwnd_ under mutexes of their own, so an    *)
(* action below is what one thread does between two acquisitions.          *)
(*                                                                         *)
(* send_buffer_ is kept as two sets of sequence numbers, its keys and the  *)
(* keys whose frame is acked.  Time is abstract: any unacked frame may be  *)
(* past its retransmission timeout whenever the deadline is compared.      *)
(***************************************************************************)
EXTENDS GuardL2Link

CONSTANTS
  INITIAL_WINDOW,  \* INITIAL_WINDOW_SIZE, 64 in the code
  MAX_TRIES        \* handshake attempts, 5 in the code

ASSUME SenderAssumption ==
  /\ INITIAL_WINDOW \in Nat \ {0}
  /\ MAX_TRIES \in Nat \ {0}

VARIABLES
  stage,     \* where send_reliable_data stands
  current,   \* the transfer being sent, or last sent; 0 before the first
  tries,     \* attempts made in the running handshake
  buffered,  \* the keys of send_buffer_
  acked,     \* the keys of send_buffer_ whose frame is acked
  sendBase,  \* send_window_base
  nextSeq,   \* next_seq_num
  window,    \* current_cwnd, then effective_window
  cwnd, ssthresh, ackCount, rwnd,
  outcome    \* what send_reliable_data returned for each transfer

congestionVars == <<cwnd, ssthresh, ackCount, rwnd>>
senderVars == <<stage, current, tries, buffered, acked, sendBase, nextSeq,
                window, congestionVars, outcome>>

Stage == {"idle", "start", "start_wait", "read_cwnd", "read_rwnd", "fill",
          "inspect", "wait", "probe", "end", "end_wait"}

SenderTypeOK ==
  /\ stage \in Stage
  /\ current \in Sid \cup {0}
  /\ stage # "idle" => current \in Sid
  /\ tries \in 0..MAX_TRIES
  /\ buffered \subseteq Nat
  /\ acked \subseteq buffered
  /\ sendBase \in Nat \ {0} /\ nextSeq \in Nat \ {0}
  /\ window \in Nat
  /\ cwnd \in Nat \ {0} /\ ssthresh \in Nat \ {0} /\ ackCount \in Nat
  /\ rwnd \in Nat
  /\ outcome \in [Sid -> {"none", "success", "failure"}]

SenderInit ==
  /\ stage = "idle"
  /\ current = 0
  /\ tries = 0
  /\ buffered = {} /\ acked = {}
  /\ sendBase = 1 /\ nextSeq = 1
  /\ window = 0
  /\ cwnd = 1 /\ ssthresh = INITIAL_WINDOW /\ ackCount = 0
  /\ rwnd = INITIAL_WINDOW
  /\ outcome = [s \in Sid |-> "none"]

total_packets == Packets(current)

(* The frames of the window that wait for an ACK.                          *)
Unacked == (buffered \ acked) \cap (sendBase..(nextSeq - 1))

(* The sequence numbers of a set, each once, as a loop from low to high    *)
(* visits them.                                                            *)
Ascending(S) ==
  { order \in [1..Cardinality(S) -> S] :
      \A i, j \in DOMAIN order : i < j => order[i] < order[j] }

DataFrames(order) ==
  [i \in DOMAIN order |-> BuildFrame("DATA", current, order[i])]

-----------------------------------------------------------------------------
(* SendMode has read a payload: a new sender object with its own socket.   *)
(* ACKs still on their way to the old socket are lost with it.             *)
Begin ==
  /\ stage = "idle"
  /\ current < Len(Transfers)
  /\ current' = current + 1
  /\ stage' = "start"
  /\ tries' = 0
  /\ buffered' = {0} /\ acked' = {}
  /\ sendBase' = 1 /\ nextSeq' = 1
  /\ window' = 0
  /\ cwnd' = 1 /\ ssthresh' = INITIAL_WINDOW /\ ackCount' = 0
  /\ rwnd' = INITIAL_WINDOW
  /\ toSender' = <<>>
  /\ UNCHANGED <<outcome, toReceiver, stable>>

-----------------------------------------------------------------------------
(* The START and END handshakes: send, wait up to one RTO, at most         *)
(* MAX_TRIES times.                                                        *)
HandshakeSend(here, there, type, seq) ==
  /\ stage = here
  /\ toReceiver' = Queue(toReceiver, <<BuildFrame(type, current, seq)>>)
  /\ tries' = tries + 1
  /\ stage' = there
  /\ UNCHANGED <<current, buffered, acked, sendBase, nextSeq, window,
                 congestionVars, outcome, toSender, stable>>

(* request_stop and return: the sender object and its socket go away.      *)
Return(result) ==
  /\ outcome' = [outcome EXCEPT ![current] = result]
  /\ stage' = "idle"
  /\ UNCHANGED <<current, tries, buffered, acked, sendBase, nextSeq, window,
                 congestionVars, linkVars>>

(* wait_for returned with the predicate false.                             *)
HandshakeTimeout(here, retry, seq) ==
  /\ stage = here
  /\ seq \notin acked
  /\ \/ /\ tries < MAX_TRIES
        /\ stage' = retry
        /\ UNCHANGED <<current, tries, buffered, acked, sendBase, nextSeq,
                       window, congestionVars, outcome, linkVars>>
     \/ /\ tries = MAX_TRIES
        /\ Return("failure")

SendStart == HandshakeSend("start", "start_wait", "START", 0)
StartTimeout == HandshakeTimeout("start_wait", "start", 0)

StartAcked ==
  /\ stage = "start_wait"
  /\ 0 \in acked
  /\ stage' = "read_cwnd"
  /\ UNCHANGED <<current, tries, buffered, acked, sendBase, nextSeq, window,
                 congestionVars, outcome, linkVars>>

SendEnd == HandshakeSend("end", "end_wait", "END", total_packets + 1)
EndTimeout == HandshakeTimeout("end_wait", "end", total_packets + 1)

EndAcked ==
  /\ stage = "end_wait"
  /\ total_packets + 1 \in acked
  /\ Return("success")

-----------------------------------------------------------------------------
(* The data loop.  The two windows are read one after the other, each      *)
(* under its own mutex; the listener may change both in between.           *)
ReadCwnd ==
  /\ stage = "read_cwnd"
  /\ window' = cwnd
  /\ stage' = "read_rwnd"
  /\ UNCHANGED <<current, tries, buffered, acked, sendBase, nextSeq,
                 congestionVars, outcome, linkVars>>

ReadRwnd ==
  /\ stage = "read_rwnd"
  /\ window' = IF window < rwnd THEN window ELSE rwnd
  /\ stage' = "fill"
  /\ UNCHANGED <<current, tries, buffered, acked, sendBase, nextSeq,
                 congestionVars, outcome, linkVars>>

(* The first sequence number the window does not admit.                    *)
MutFillLimit == sendBase + window + 1
FillLimit == sendBase + window

(* Every new frame the window admits is buffered and sent, in one hold of  *)
(* buffer_mutex_.                                                          *)
Fill ==
  /\ stage = "fill"
  /\ LET fresh == { seq \in nextSeq..total_packets : seq < FillLimit }
     IN  /\ buffered' = buffered \cup fresh
         /\ nextSeq' = nextSeq + Cardinality(fresh)
         /\ \E order \in Ascending(fresh) :
              toReceiver' = Queue(toReceiver, DataFrames(order))
  /\ stage' = "inspect"
  /\ UNCHANGED <<current, tries, acked, sendBase, window, congestionVars,
                 outcome, toSender, stable>>

-----------------------------------------------------------------------------
(* Phase D: the window slides over the acked frames at its base; the loop  *)
(* ends when nothing is left, and END is buffered.                         *)
MutAllSlid(base) == base >= total_packets
AllSlid(base) == base > total_packets

MutSlidBase(base) ==
  /\ base \in sendBase..nextSeq
  /\ base = sendBase \/ base - 1 \in acked
  /\ base \notin acked
SlidBase(base) ==
  /\ base \in sendBase..nextSeq
  /\ sendBase..(base - 1) \subseteq acked
  /\ base \notin acked

Slide ==
  \E base \in sendBase..nextSeq :
    /\ SlidBase(base)
    /\ sendBase' = base
    /\ acked' = acked \ (sendBase..(base - 1))
    /\ buffered' = (buffered \ (sendBase..(base - 1)))
                     \cup (IF AllSlid(base) THEN {total_packets + 1} ELSE {})
    /\ stage' = IF AllSlid(base) THEN "end" ELSE "read_cwnd"
    /\ tries' = IF AllSlid(base) THEN 0 ELSE tries

(* Phase B, buffer_mutex_ just taken again.  Nothing unacked and nothing   *)
(* left to send: straight to phase D.                                      *)
Wait ==
  /\ stage = "inspect"
  /\ Unacked # {}
  /\ stage' = "wait"
  /\ UNCHANGED <<current, tries, buffered, acked, sendBase, nextSeq, window,
                 congestionVars, outcome, linkVars>>

Probe ==
  /\ stage = "inspect"
  /\ Unacked = {} /\ nextSeq <= total_packets
  /\ stage' = "probe"
  /\ UNCHANGED <<current, tries, buffered, acked, sendBase, nextSeq, window,
                 congestionVars, outcome, linkVars>>

SlideAtOnce ==
  /\ stage = "inspect"
  /\ Unacked = {} /\ nextSeq > total_packets
  /\ Slide
  /\ UNCHANGED <<current, nextSeq, window, congestionVars, outcome, linkVars>>

(* on_packet_loss, once however many frames timed out: half the window,    *)
(* but never less than 2.                                                  *)
Halved(w) == IF w \div 2 > 2 THEN w \div 2 ELSE 2

OnPacketLoss ==
  /\ ssthresh' = Halved(cwnd)
  /\ cwnd' = 1
  /\ ackCount' = 0
  /\ UNCHANGED rwnd

(* Phases C and D after a wait that a notify, a timeout or a spurious      *)
(* wake-up ended: the frames of expired are past their deadline.           *)
Wake(expired) ==
  /\ stage = "wait"
  /\ expired \subseteq Unacked
  /\ IF expired = {}
     THEN UNCHANGED <<congestionVars, toReceiver>>
     ELSE /\ OnPacketLoss
          /\ \E order \in Ascending(expired) :
               toReceiver' = Queue(toReceiver, DataFrames(order))
  /\ Slide
  /\ UNCHANGED <<current, nextSeq, window, outcome, toSender, stable>>

(* The probe waits for a whole RTO, or a notify, with nothing in flight.   *)
ProbeOver ==
  /\ stage = "probe"
  /\ Slide
  /\ UNCHANGED <<current, nextSeq, window, congestionVars, outcome, linkVars>>

-----------------------------------------------------------------------------
(* The ACK listener.  on_ack_received takes the advertised window from     *)
(* every ACK that counts and grows cwnd for the ACKs of DATA frames.       *)
OnAckReceived(seq, advertised) ==
  /\ rwnd' = advertised
  /\ UNCHANGED ssthresh
  /\ \/ /\ seq \notin 1..total_packets
        /\ UNCHANGED <<cwnd, ackCount>>
     \/ /\ seq \in 1..total_packets /\ cwnd < ssthresh
        /\ cwnd' = cwnd + 1
        /\ UNCHANGED ackCount
     \/ /\ seq \in 1..total_packets /\ cwnd >= ssthresh
        /\ IF ackCount + 1 >= cwnd
           THEN cwnd' = cwnd + 1 /\ ackCount' = 0
           ELSE cwnd' = cwnd /\ ackCount' = ackCount + 1

AckCounts(ack) == ack.sid = current /\ ack.seq \in buffered \ acked

ListenerAck ==
  /\ stage # "idle"
  /\ toSender # <<>>
  /\ AckCounts(Head(toSender))
  /\ acked' = acked \cup {Head(toSender).seq}
  /\ OnAckReceived(Head(toSender).seq, Head(toSender).window)
  /\ toSender' = Tail(toSender)
  /\ UNCHANGED <<stage, current, tries, buffered, sendBase, nextSeq, window,
                 outcome, toReceiver, stable>>

(* An ACK of another session, of a frame already acked or slid over.       *)
ListenerIgnore ==
  /\ stage # "idle"
  /\ toSender # <<>>
  /\ ~AckCounts(Head(toSender))
  /\ toSender' = Tail(toSender)
  /\ UNCHANGED <<senderVars, toReceiver, stable>>

(* The send-mode box is killed in the middle of a transfer and started     *)
(* again, the only way out of a data loop whose receiver lost the session. *)
Restart ==
  /\ stage # "idle"
  /\ Return("failure")

-----------------------------------------------------------------------------
SenderThread ==
  \/ SendStart \/ StartTimeout \/ StartAcked
  \/ ReadCwnd \/ ReadRwnd \/ Fill
  \/ Wait \/ Probe \/ SlideAtOnce
  \/ \E expired \in SUBSET Unacked : Wake(expired)
  \/ ProbeOver
  \/ SendEnd \/ EndTimeout \/ EndAcked

Listener == ListenerAck \/ ListenerIgnore

SenderStep == Begin \/ SenderThread \/ Listener \/ Restart
=============================================================================
