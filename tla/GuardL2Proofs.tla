---------------------------- MODULE GuardL2Proofs ----------------------------
(***************************************************************************)
(* Proofs about GuardL2 for every list of transfers, window size, number   *)
(* of tries and link capacity.  First what each box keeps of its own: types, *)
(* payloads, windows.  Then what it may believe of the other, the parts of *)
(* ProtocolInv: sessions follow one another and none that has made progress *)
(* is reset, even when ACKs are damaged; and, for ACKs that arrive as they *)
(* were sent, what an acknowledgement means to the sender.                 *)
(***************************************************************************)
EXTENDS GuardL2Inv, FiniteSetTheorems, SequenceFacts

USE LinkAssumption, SenderAssumption, ReceiverAssumption, WindowAssumption

(* What each way of changing a queue of frames does to its elements.       *)
LEMMA QueueElements ==
  ASSUME NEW F, NEW link \in Seq(F), Len(link) <= LINK_CAP,
         NEW frames \in Seq(F)
  PROVE  /\ Queue(link, frames) \in Seq(F)
         /\ Len(Queue(link, frames)) <= LINK_CAP
         /\ Len(Queue(link, frames)) \in Len(link)..(Len(link) + Len(frames))
         /\ \A i \in 1..Len(Queue(link, frames)) :
              Queue(link, frames)[i] = IF i <= Len(link) THEN link[i]
                                       ELSE frames[i - Len(link)]
  <1> DEFINE all == link \o frames
             top == IF Len(all) < LINK_CAP THEN Len(all) ELSE LINK_CAP
  <1>1. /\ all \in Seq(F)
        /\ Len(all) = Len(link) + Len(frames)
        /\ \A i \in 1..Len(all) : all[i] = IF i <= Len(link) THEN link[i]
                                           ELSE frames[i - Len(link)]
    BY ConcatProperties
  <1>2. /\ top \in Nat
        /\ top <= Len(all)
        /\ top <= LINK_CAP
        /\ Len(link) <= top
    BY <1>1
  <1>3. Queue(link, frames) = SubSeq(all, 1, top)
    BY DEF Queue
  <1> HIDE DEF all, top
  <1>4. /\ SubSeq(all, 1, top) \in Seq(F)
        /\ Len(SubSeq(all, 1, top)) = top
        /\ \A i \in 1..top : SubSeq(all, 1, top)[i] = all[i]
    BY <1>1, <1>2
  <1> QED
    BY <1>1, <1>2, <1>3, <1>4

LEMMA WithoutElements ==
  ASSUME NEW F, NEW link \in Seq(F), NEW k \in DOMAIN link
  PROVE  /\ Without(link, k) \in Seq(F)
         /\ Len(Without(link, k)) = Len(link) - 1
         /\ \A i \in 1..(k - 1) : Without(link, k)[i] = link[i]
         /\ \A i \in k..(Len(link) - 1) : Without(link, k)[i] = link[i + 1]
  <1> DEFINE front == SubSeq(link, 1, k - 1)
             back == SubSeq(link, k + 1, Len(link))
  <1>1. k \in 1..Len(link)
    OBVIOUS
  <1>2. /\ front \in Seq(F) /\ Len(front) = k - 1
        /\ \A i \in 1..(k - 1) : front[i] = link[i]
    <2>1. k - 1 \in 0..Len(link)
      BY <1>1
    <2> QED
      BY <1>1, <2>1, SubSeqElements
  <1>3. /\ back \in Seq(F) /\ Len(back) = Len(link) - k
        /\ \A i \in 1..(Len(link) - k) : back[i] = link[k + i]
    BY <1>1, SuffixElements
  <1>4. Without(link, k) = front \o back
    BY DEF Without
  <1> HIDE DEF front, back
  <1>5. /\ front \o back \in Seq(F)
        /\ Len(front \o back) = Len(link) - 1
        /\ \A i \in 1..(k - 1) : (front \o back)[i] = front[i]
        /\ \A i \in k..(Len(link) - 1) :
             (front \o back)[i] = back[i - (k - 1)]
    <2>1. front \in Seq(F) /\ back \in Seq(F)
      BY <1>2, <1>3
    <2>2. (Len(front) + 1)..(Len(front) + Len(back)) = k..(Len(link) - 1)
      BY <1>1, <1>2, <1>3
    <2>3. /\ front \o back \in Seq(F)
          /\ Len(front \o back) = Len(front) + Len(back)
          /\ \A i \in 1..Len(front) : (front \o back)[i] = front[i]
          /\ \A i \in (Len(front) + 1)..(Len(front) + Len(back)) :
               (front \o back)[i] = back[i - Len(front)]
      BY <2>1, ConcatElements
    <2>4. Len(front) = k - 1 /\ Len(back) = Len(link) - k
      BY <1>2, <1>3
    <2>5. (k - 1) + (Len(link) - k) = Len(link) - 1
      BY <1>1
    <2> QED
      BY <2>2, <2>3, <2>4, <2>5
  <1>6. ASSUME NEW i \in k..(Len(link) - 1)
        PROVE  (front \o back)[i] = link[i + 1]
    <2>1. i - (k - 1) \in 1..(Len(link) - k)
      BY <1>1
    <2>2. back[i - (k - 1)] = link[k + (i - (k - 1))]
      BY <2>1, <1>3
    <2>3. k + (i - (k - 1)) = i + 1
      BY <1>1
    <2> QED
      BY <2>2, <2>3, <1>5
  <1> QED
    BY <1>2, <1>4, <1>5, <1>6

LEMMA TailElements ==
  ASSUME NEW F, NEW link \in Seq(F), link # <<>>
  PROVE  /\ Tail(link) \in Seq(F)
         /\ Len(Tail(link)) = Len(link) - 1
         /\ Len(link) \in Nat \ {0}
         /\ \A i \in 1..(Len(link) - 1) : Tail(link)[i] = link[i + 1]
         /\ Head(link) = link[1]
         /\ Head(link) \in F
  BY HeadTailProperties

LEMMA FrameTypes ==
  ASSUME NEW type \in FrameType, NEW s \in Sid, NEW seq \in Nat,
         type = "DATA" => seq \in 1..Packets(s)
  PROVE  /\ BuildFrame(type, s, seq) \in Frame
         /\ type = "START" /\ seq = 0 => BuildFrame(type, s, seq) \in GoodFrame
         /\ type = "DATA" => BuildFrame(type, s, seq) \in GoodFrame
         /\ type = "END" /\ seq = Packets(s) + 1
              => BuildFrame(type, s, seq) \in GoodFrame
  <1>1. Transfers[s] \in Seq(Chunk) /\ Packets(s) \in Nat
    BY DEF Sid, Packets
  <1>2. type = "DATA" => Transfers[s][seq] \in Chunk
    BY <1>1 DEF Packets
  <1>3. BuildFrame(type, s, seq) \in Frame
    BY <1>1, <1>2 DEF BuildFrame, Frame, FrameType
  <1> QED
    BY <1>1, <1>2, <1>3 DEF BuildFrame, GoodFrame, Frame, FrameType

-----------------------------------------------------------------------------
(* Types, well-formed frames and the sender's bookkeeping hold together:   *)
(* a DATA frame is only well-formed because nextSeq stops after the last   *)
(* packet.                                                                 *)
BasicInv == TypeOK /\ FramesGood /\ SenderInv

LEMMA GoodFramesAreFrames ==
  ASSUME NEW q \in Seq(GoodFrame)
  PROVE  q \in Seq(Frame)
  BY DEF GoodFrame

LEMMA PacketsType ==
  ASSUME NEW s \in Sid
  PROVE  /\ Packets(s) \in Nat \ {0}
         /\ Transfers[s] \in Seq(Chunk)
         /\ s \in Nat \ {0}
  <1>1. Transfers[s] \in Seq(Chunk) /\ Transfers[s] # <<>> /\ s \in 1..Len(Transfers)
    BY DEF Sid
  <1> QED
    BY <1>1, EmptySeq DEF Packets

LEMMA BasicInit == Init => BasicInv
  <1> SUFFICES ASSUME Init PROVE BasicInv
    OBVIOUS
  <1> USE DEF Init, LinkInit, SenderInit, ReceiverInit
  <1>1. LinkTypeOK /\ FramesGood
    <2>1. toReceiver \in Seq(Frame) /\ toReceiver \in Seq(GoodFrame)
          /\ toSender \in Seq(AckFrame)
      BY EmptySeq
    <2>2. Len(toReceiver) = 0 /\ Len(toSender) = 0
      BY EmptySeq
    <2>3. Len(toReceiver) <= LINK_CAP /\ Len(toSender) <= LINK_CAP
      BY <2>2
    <2>4. stable \in BOOLEAN
      OBVIOUS
    <2> QED
      BY ONLY <2>1, <2>3, <2>4 DEF LinkTypeOK, FramesGood
  <1>2. SenderTypeOK
    BY DEF SenderTypeOK, Stage
  <1>3. ReceiverTypeOK
    <2>1. DOMAIN ooo = {}
      OBVIOUS
    <2>2. reassembled \in Seq(Chunk \cup {NoChunk, Garbage})
          /\ delivered \in Seq(Delivery)
      BY EmptySeq
    <2> QED
      BY <2>1, <2>2, FS_EmptySet DEF ReceiverTypeOK
  <1>4. SenderInv
    BY DEF SenderInv, StartPhase, DataPhase, EndPhase
  <1> QED
    BY <1>1, <1>2, <1>3, <1>4 DEF BasicInv, TypeOK

(* The link after a send of well-formed frames, and after an ACK.          *)
LEMMA SendTypes ==
  ASSUME BasicInv, NEW frames \in Seq(GoodFrame),
         toReceiver' = Queue(toReceiver, frames),
         UNCHANGED <<toSender, stable>>
  PROVE  LinkTypeOK' /\ FramesGood'
  <1>1. /\ Queue(toReceiver, frames) \in Seq(GoodFrame)
        /\ Len(Queue(toReceiver, frames)) <= LINK_CAP
    BY QueueElements DEF BasicInv, TypeOK, LinkTypeOK, FramesGood
  <1>2. Queue(toReceiver, frames) \in Seq(Frame)
    BY <1>1, GoodFramesAreFrames
  <1> QED
    BY <1>1, <1>2 DEF BasicInv, TypeOK, LinkTypeOK, FramesGood

LEMMA AckTypes ==
  ASSUME BasicInv, receiving, toReceiver # <<>>, toReceiver' = Tail(toReceiver),
         NEW s \in Sid, NEW seq \in Nat, NEW used \in Nat,
         SendAck(s, seq, used), UNCHANGED stable
  PROVE  LinkTypeOK' /\ FramesGood'
  <1>1. Advertised(used) \in Nat
    BY DEF Advertised
  <1>2. <<[sid |-> s, seq |-> seq, window |-> Advertised(used)]>> \in Seq(AckFrame)
    BY <1>1 DEF AckFrame
  <1>3. toSender' \in Seq(AckFrame) /\ Len(toSender') <= LINK_CAP
    BY <1>2, QueueElements DEF BasicInv, TypeOK, LinkTypeOK, SendAck
  <1>4. toReceiver' \in Seq(GoodFrame) /\ Len(toReceiver') <= LINK_CAP
    BY TailElements DEF BasicInv, TypeOK, LinkTypeOK, FramesGood
  <1>5. toReceiver' \in Seq(Frame)
    BY <1>4, GoodFramesAreFrames
  <1> QED
    BY <1>3, <1>4, <1>5 DEF BasicInv, TypeOK, LinkTypeOK, FramesGood

(* The frames a loop over a finite set of packets of the transfer sends.   *)
LEMMA DataFramesGood ==
  ASSUME BasicInv, current \in Sid, NEW S \in SUBSET (1..total_packets),
         NEW order \in Ascending(S)
  PROVE  DataFrames(order) \in Seq(GoodFrame)
  <1>1. Packets(current) \in Nat
    BY PacketsType
  <1>2. IsFiniteSet(S) /\ Cardinality(S) \in Nat
    <2>1. IsFiniteSet(1..total_packets)
      BY <1>1, FS_Interval DEF total_packets
    <2>2. IsFiniteSet(S)
      BY <2>1, FS_Subset
    <2> QED
      BY <2>2, FS_CardinalityType
  <1>3. order \in [1..Cardinality(S) -> S]
    BY DEF Ascending
  <1>4. \A i \in 1..Cardinality(S) :
          BuildFrame("DATA", current, order[i]) \in GoodFrame
    <2> SUFFICES ASSUME NEW i \in 1..Cardinality(S)
                 PROVE  BuildFrame("DATA", current, order[i]) \in GoodFrame
      OBVIOUS
    <2>1. order[i] \in S
      BY <1>3
    <2>2. order[i] \in 1..total_packets
      BY <2>1
    <2>3. order[i] \in 1..Packets(current) /\ order[i] \in Nat
      BY <2>2, <1>1 DEF total_packets
    <2> QED
      BY <2>3, FrameTypes DEF FrameType
  <1> QED
    BY <1>2, <1>3, <1>4 DEF DataFrames

(* The packets a fill adds: an interval that starts at nextSeq.            *)
LEMMA FreshPackets ==
  ASSUME BasicInv, stage = "fill",
         NEW fresh, fresh = { seq \in nextSeq..total_packets : seq < FillLimit }
  PROVE  /\ Cardinality(fresh) \in Nat
         /\ fresh = nextSeq..(nextSeq + Cardinality(fresh) - 1)
         /\ nextSeq + Cardinality(fresh) <= total_packets + 1
         /\ fresh \in SUBSET (1..total_packets)
  <1> DEFINE top == IF FillLimit <= total_packets THEN FillLimit - 1
                    ELSE total_packets
  <1>1. /\ nextSeq \in Nat \ {0} /\ sendBase \in Nat /\ window \in Nat
        /\ current \in Sid /\ nextSeq <= total_packets + 1
    BY DEF BasicInv, TypeOK, SenderTypeOK, SenderInv
  <1>2. total_packets \in Nat /\ FillLimit \in Nat
    BY <1>1, PacketsType DEF total_packets, FillLimit
  <1>3. top \in Int /\ top <= total_packets
    BY <1>2
  <1>4. fresh = nextSeq..top
    BY <1>1, <1>2
  <1> HIDE DEF top
  <1>5. Cardinality(fresh) = IF nextSeq > top THEN 0 ELSE top - nextSeq + 1
    <2>1. Cardinality(nextSeq..top) = IF nextSeq > top THEN 0
                                      ELSE top - nextSeq + 1
      BY <1>1, <1>3, FS_Interval
    <2> QED
      BY <2>1, <1>4
  <1>6. CASE nextSeq > top
    <2>1. Cardinality(fresh) = 0
      BY <1>5, <1>6
    <2>2. fresh = {}
      BY <1>1, <1>3, <1>4, <1>6
    <2>3. nextSeq..(nextSeq + Cardinality(fresh) - 1) = {}
      <3>1. nextSeq + Cardinality(fresh) - 1 = nextSeq - 1
        BY <2>1, <1>1
      <3>2. nextSeq..(nextSeq - 1) = {}
        BY <1>1
      <3> QED
        BY <3>1, <3>2
    <2>4. nextSeq + Cardinality(fresh) <= total_packets + 1
      BY <2>1, <1>1, <1>2
    <2> QED
      BY <2>1, <2>2, <2>3, <2>4
  <1>7. CASE nextSeq <= top
    <2>1. Cardinality(fresh) = top - nextSeq + 1
      BY <1>1, <1>3, <1>5, <1>7
    <2>2. nextSeq + Cardinality(fresh) - 1 = top
      BY <2>1, <1>1, <1>3
    <2>3. top - nextSeq + 1 \in Nat /\ nextSeq + (top - nextSeq + 1) <= total_packets + 1
      BY <1>1, <1>2, <1>3, <1>7
    <2>4. nextSeq..top \subseteq 1..total_packets
      BY <1>1, <1>2, <1>3
    <2> QED
      BY <2>1, <2>2, <2>3, <2>4, <1>4
  <1> QED
    BY <1>1, <1>3, <1>6, <1>7

-----------------------------------------------------------------------------
(* The sender's actions.                                                   *)
LEMMA BeginBasic ==
  ASSUME BasicInv, Begin, UNCHANGED receiverVars
  PROVE  BasicInv'
  <1> USE DEF Begin
  <1>1. current \in Sid \cup {0} /\ current + 1 \in Sid /\ current' \in Sid
    BY DEF BasicInv, TypeOK, SenderTypeOK, Sid
  <1>2. LinkTypeOK' /\ FramesGood'
    <2>1. toSender' \in Seq(AckFrame) /\ Len(toSender') <= LINK_CAP
      BY EmptySeq
    <2> QED
      BY <2>1 DEF BasicInv, TypeOK, LinkTypeOK, FramesGood
  <1>3. SenderTypeOK'
    BY <1>1 DEF BasicInv, TypeOK, SenderTypeOK, Stage
  <1>4. ReceiverTypeOK'
    BY DEF BasicInv, TypeOK, ReceiverTypeOK, receiverVars, sessionVars
  <1>5. SenderInv'
    <2>1. Packets(current') \in Nat \ {0}
      BY <1>1, PacketsType
    <2>2. current' > current
      BY <1>1 DEF Sid
    <2>3. outcome[current'] = "none"
      BY <1>1, <2>2 DEF BasicInv, SenderInv
    <2>4. \A s \in Sid : s > current' => outcome'[s] = "none"
      BY <1>1, <2>2 DEF BasicInv, SenderInv, Sid
    <2>5. {0} \cap (1..Packets(current')) = 1..(1 - 1)
      BY <2>1
    <2> QED
      BY <2>1, <2>3, <2>4, <2>5
      DEF SenderInv, StartPhase, DataPhase, EndPhase, total_packets
  <1> QED
    BY <1>2, <1>3, <1>4, <1>5 DEF BasicInv, TypeOK

LEMMA HandshakeSendBasic ==
  ASSUME BasicInv, UNCHANGED receiverVars, SendStart \/ SendEnd
  PROVE  BasicInv'
  <1> USE DEF SendStart, SendEnd, HandshakeSend
  <1>1. current \in Sid /\ Packets(current) \in Nat
    BY PacketsType DEF BasicInv, TypeOK, SenderTypeOK
  <1>2. PICK f \in GoodFrame : toReceiver' = Queue(toReceiver, <<f>>)
    <2>1. CASE SendStart
      <3>1. BuildFrame("START", current, 0) \in GoodFrame
        BY <1>1, FrameTypes DEF FrameType
      <3> QED
        BY <2>1, <3>1
    <2>2. CASE SendEnd
      <3>1. BuildFrame("END", current, total_packets + 1) \in GoodFrame
        BY <1>1, FrameTypes DEF FrameType, total_packets
      <3> QED
        BY <2>2, <3>1
    <2> QED
      BY <2>1, <2>2
  <1>3. LinkTypeOK' /\ FramesGood'
    <2>1. <<f>> \in Seq(GoodFrame)
      OBVIOUS
    <2>2. UNCHANGED <<toSender, stable>>
      OBVIOUS
    <2> QED
      BY <1>2, <2>1, <2>2, SendTypes
  <1>4. SenderTypeOK'
    <2>1. tries' \in 0..MAX_TRIES
      BY DEF BasicInv, TypeOK, SenderTypeOK, SenderInv
    <2> QED
      BY <2>1 DEF BasicInv, TypeOK, SenderTypeOK, Stage, congestionVars
  <1>5. ReceiverTypeOK'
    BY DEF BasicInv, TypeOK, ReceiverTypeOK, receiverVars, sessionVars
  <1>6. SenderInv'
    BY DEF BasicInv, SenderInv, StartPhase, DataPhase, EndPhase, total_packets
  <1> QED
    BY <1>3, <1>4, <1>5, <1>6 DEF BasicInv, TypeOK

(* Returns of send_reliable_data, with either result.                      *)
LEMMA ReturnBasic ==
  ASSUME BasicInv, UNCHANGED receiverVars, stage # "idle",
         NEW result \in {"success", "failure"}, Return(result)
  PROVE  BasicInv'
  <1> USE DEF Return
  <1>1. current \in Sid
    BY DEF BasicInv, TypeOK, SenderTypeOK
  <1>2. LinkTypeOK' /\ FramesGood'
    BY DEF BasicInv, TypeOK, LinkTypeOK, FramesGood, linkVars
  <1>3. SenderTypeOK'
    BY <1>1 DEF BasicInv, TypeOK, SenderTypeOK, Stage, congestionVars
  <1>4. ReceiverTypeOK'
    BY DEF BasicInv, TypeOK, ReceiverTypeOK, receiverVars, sessionVars
  <1>5. SenderInv'
    <2>1. outcome \in [Sid -> {"none", "success", "failure"}]
      BY DEF BasicInv, TypeOK, SenderTypeOK
    <2>2. outcome'[current] = result /\ result # "none"
      BY <1>1, <2>1
    <2>3. \A s \in Sid : s > current => outcome'[s] = "none"
      BY <1>1, <2>1, PacketsType DEF BasicInv, SenderInv
    <2> QED
      BY <2>2, <2>3 DEF SenderInv, StartPhase, DataPhase, EndPhase
  <1> QED
    BY <1>2, <1>3, <1>4, <1>5 DEF BasicInv, TypeOK

(* Steps that only move the sender's thread on, or read a window.          *)
LEMMA QuietBasic ==
  ASSUME BasicInv, UNCHANGED receiverVars,
         \/ StartTimeout /\ tries < MAX_TRIES
         \/ EndTimeout /\ tries < MAX_TRIES
         \/ StartAcked \/ ReadCwnd \/ ReadRwnd \/ Wait \/ Probe
  PROVE  BasicInv'
  <1> USE DEF StartTimeout, EndTimeout, HandshakeTimeout, Return, StartAcked,
              ReadCwnd, ReadRwnd, Wait, Probe
  <1>1. /\ UNCHANGED <<current, buffered, acked, sendBase, nextSeq,
                       congestionVars, outcome, linkVars>>
        /\ tries' = tries
        /\ stage' \in Stage /\ stage' # "idle" /\ stage # "idle"
    BY DEF BasicInv, TypeOK, SenderTypeOK, Stage
  <1>2. LinkTypeOK' /\ FramesGood'
    BY <1>1 DEF BasicInv, TypeOK, LinkTypeOK, FramesGood, linkVars
  <1>3. window' \in Nat
    BY DEF BasicInv, TypeOK, SenderTypeOK
  <1>4. SenderTypeOK'
    BY <1>1, <1>3 DEF BasicInv, TypeOK, SenderTypeOK, congestionVars
  <1>5. ReceiverTypeOK'
    BY DEF BasicInv, TypeOK, ReceiverTypeOK, receiverVars, sessionVars
  <1>6. Packets(current) \in Nat \ {0}
    BY <1>1, PacketsType DEF BasicInv, TypeOK, SenderTypeOK
  <1>7. SenderInv'
    BY <1>1, <1>6 DEF BasicInv, TypeOK, SenderTypeOK, SenderInv, StartPhase,
                      DataPhase, EndPhase, total_packets
  <1> QED
    BY <1>2, <1>4, <1>5, <1>7 DEF BasicInv, TypeOK

LEMMA FillBasic ==
  ASSUME BasicInv, UNCHANGED receiverVars, Fill
  PROVE  BasicInv'
  <1> DEFINE fresh == { seq \in nextSeq..total_packets : seq < FillLimit }
  <1>1. /\ stage = "fill" /\ stage' = "inspect"
        /\ buffered' = buffered \cup fresh
        /\ nextSeq' = nextSeq + Cardinality(fresh)
        /\ UNCHANGED <<current, tries, acked, sendBase, window, congestionVars,
                       outcome, toSender, stable>>
    BY DEF Fill
  <1>2. PICK order \in Ascending(fresh) :
          toReceiver' = Queue(toReceiver, DataFrames(order))
    BY DEF Fill
  <1>3. /\ Cardinality(fresh) \in Nat
        /\ fresh = nextSeq..(nextSeq + Cardinality(fresh) - 1)
        /\ nextSeq + Cardinality(fresh) <= total_packets + 1
        /\ fresh \in SUBSET (1..total_packets)
    BY <1>1, FreshPackets
  <1> HIDE DEF fresh
  <1>4. /\ current \in Sid /\ Packets(current) \in Nat \ {0}
        /\ nextSeq \in Nat \ {0} /\ sendBase \in Nat \ {0}
        /\ buffered \subseteq Nat /\ acked \subseteq buffered
        /\ sendBase <= nextSeq /\ nextSeq <= total_packets + 1
        /\ buffered \cap (1..total_packets) = sendBase..(nextSeq - 1)
        /\ buffered \subseteq 0..(total_packets + 1)
        /\ total_packets + 1 \notin buffered /\ sendBase <= total_packets
    BY <1>1, PacketsType
    DEF BasicInv, TypeOK, SenderTypeOK, SenderInv, DataPhase
  <1>5. LinkTypeOK' /\ FramesGood'
    <2>1. DataFrames(order) \in Seq(GoodFrame)
      BY <1>3, <1>4, DataFramesGood
    <2>2. UNCHANGED <<toSender, stable>>
      BY <1>1
    <2> QED
      BY <1>2, <2>1, <2>2, SendTypes
  <1>6. SenderTypeOK'
    <2>1. buffered' \subseteq Nat /\ acked' \subseteq buffered'
      <3>1. 1..total_packets \subseteq Nat
        BY <1>4 DEF total_packets
      <3> QED
        BY <3>1, <1>1, <1>3, <1>4
    <2>2. nextSeq' \in Nat \ {0}
      BY <1>1, <1>3, <1>4
    <2> QED
      BY <2>1, <2>2, <1>1, <1>4
      DEF BasicInv, TypeOK, SenderTypeOK, Stage, congestionVars
  <1>7. ReceiverTypeOK'
    BY DEF BasicInv, TypeOK, ReceiverTypeOK, receiverVars, sessionVars
  <1>8. SenderInv'
    <2>1. total_packets' = total_packets /\ total_packets \in Nat \ {0}
      BY <1>1, <1>4 DEF total_packets
    <2>2. buffered' \cap (1..total_packets) = sendBase..(nextSeq' - 1)
      <3>1. buffered' \cap (1..total_packets)
              = (sendBase..(nextSeq - 1)) \cup (nextSeq..(nextSeq' - 1))
        BY <1>1, <1>3, <1>4
      <3> QED
        BY <3>1, <1>1, <1>3, <1>4
    <2>3. buffered' \subseteq 0..(total_packets + 1)
      BY <1>1, <1>3, <1>4, <2>1
    <2>4. total_packets + 1 \notin buffered'
      BY <1>1, <1>3, <1>4, <2>1
    <2>5. sendBase <= nextSeq' /\ nextSeq' <= total_packets + 1
      BY <1>1, <1>3, <1>4
    <2> QED
      BY <1>1, <1>4, <2>1, <2>2, <2>3, <2>4, <2>5
      DEF BasicInv, SenderInv, StartPhase, DataPhase, EndPhase
  <1> QED
    BY <1>5, <1>6, <1>7, <1>8 DEF BasicInv, TypeOK

(* Phase D: what is left of the send buffer.                               *)
LEMMA SlideSender ==
  ASSUME BasicInv, stage \in {"inspect", "wait", "probe"}, Slide,
         UNCHANGED <<current, nextSeq, window, outcome>>
  PROVE  /\ stage' \in {"end", "read_cwnd"}
         /\ sendBase' \in sendBase..nextSeq
         /\ sendBase..(sendBase' - 1) \subseteq acked
         /\ acked' = acked \ (sendBase..(sendBase' - 1))
         /\ sendBase' \in Nat \ {0}
         /\ acked' \subseteq buffered'
         /\ buffered' \subseteq Nat
         /\ tries' \in 0..MAX_TRIES
         /\ stage' = "end" => sendBase' = total_packets + 1
         /\ SenderInv'
  <1>1. PICK base \in sendBase..nextSeq :
          /\ SlidBase(base)
          /\ sendBase' = base
          /\ acked' = acked \ (sendBase..(base - 1))
          /\ buffered' = (buffered \ (sendBase..(base - 1)))
                           \cup (IF AllSlid(base) THEN {total_packets + 1} ELSE {})
          /\ stage' = IF AllSlid(base) THEN "end" ELSE "read_cwnd"
          /\ tries' = IF AllSlid(base) THEN 0 ELSE tries
    BY DEF Slide
  <1>2. /\ current \in Sid /\ Packets(current) \in Nat \ {0}
        /\ nextSeq \in Nat \ {0} /\ sendBase \in Nat \ {0}
        /\ buffered \subseteq Nat /\ acked \subseteq buffered
        /\ sendBase <= nextSeq /\ nextSeq <= total_packets + 1
        /\ buffered \cap (1..total_packets) = sendBase..(nextSeq - 1)
        /\ buffered \subseteq 0..(total_packets + 1)
        /\ total_packets + 1 \notin buffered
        /\ outcome[current] = "none"
        /\ \A s \in Sid : s > current => outcome[s] = "none"
        /\ tries \in 0..MAX_TRIES
    BY PacketsType DEF BasicInv, TypeOK, SenderTypeOK, SenderInv, DataPhase
  <1>3. /\ total_packets' = total_packets /\ total_packets \in Nat \ {0}
        /\ base \in Nat \ {0} /\ base <= nextSeq /\ sendBase <= base
    BY <1>2 DEF total_packets
  <1>4. sendBase..(base - 1) \subseteq acked
    BY <1>1 DEF SlidBase
  <1>5. /\ stage' = IF base > total_packets THEN "end" ELSE "read_cwnd"
        /\ tries' \in 0..MAX_TRIES
        /\ base > total_packets => tries' = 0
    BY <1>1, <1>2, <1>3 DEF AllSlid
  <1>6. /\ buffered' \cap (1..total_packets) = base..(nextSeq - 1)
        /\ buffered' \subseteq 0..(total_packets + 1)
        /\ ~ (base > total_packets) => total_packets + 1 \notin buffered'
    <2> DEFINE left == buffered \ (sendBase..(base - 1))
    <2>1. left \cap (1..total_packets) = base..(nextSeq - 1)
      <3>1. left \cap (1..total_packets)
              = (sendBase..(nextSeq - 1)) \ (sendBase..(base - 1))
        BY <1>2
      <3>2. (sendBase..(nextSeq - 1)) \ (sendBase..(base - 1))
              = base..(nextSeq - 1)
        BY <1>2, <1>3
      <3> QED
        BY <3>1, <3>2
    <2>2. left \subseteq 0..(total_packets + 1) /\ total_packets + 1 \notin left
      BY <1>2
    <2>3. /\ total_packets + 1 \notin 1..total_packets
          /\ total_packets + 1 \in 0..(total_packets + 1)
      BY <1>3
    <2>4. buffered' = left \cup (IF base > total_packets
                                THEN {total_packets + 1} ELSE {})
      BY <1>1 DEF AllSlid
    <2> HIDE DEF left
    <2>5. buffered' \cap (1..total_packets) = left \cap (1..total_packets)
      BY <2>3, <2>4
    <2>6. buffered' \subseteq 0..(total_packets + 1)
      BY <2>2, <2>3, <2>4
    <2>7. ~ (base > total_packets) => total_packets + 1 \notin buffered'
      BY <2>2, <2>4
    <2> QED
      BY <2>1, <2>5, <2>6, <2>7
  <1>7. acked' \subseteq buffered'
    BY <1>1, <1>2
  <1>8. buffered' \subseteq Nat
    BY <1>6, <1>3
  <1>9. SenderInv'
    BY <1>1, <1>2, <1>3, <1>5, <1>6
    DEF SenderInv, StartPhase, DataPhase, EndPhase
  <1> QED
    BY <1>1, <1>2, <1>3, <1>4, <1>5, <1>7, <1>8, <1>9

LEMMA SlideBasic ==
  ASSUME BasicInv, UNCHANGED receiverVars,
         \/ SlideAtOnce \/ ProbeOver
         \/ \E expired \in SUBSET Unacked : Wake(expired)
  PROVE  BasicInv'
  <1>1. /\ stage \in {"inspect", "wait", "probe"} /\ Slide
        /\ UNCHANGED <<current, nextSeq, window, outcome, toSender, stable>>
    BY DEF SlideAtOnce, ProbeOver, Wake, linkVars
  <1>2. /\ stage' \in {"end", "read_cwnd"}
        /\ sendBase' \in Nat \ {0}
        /\ acked' \subseteq buffered'
        /\ buffered' \subseteq Nat
        /\ tries' \in 0..MAX_TRIES
        /\ SenderInv'
    BY <1>1, SlideSender
  <1>3. /\ cwnd' \in Nat \ {0} /\ ssthresh' \in Nat \ {0}
        /\ ackCount' \in Nat /\ rwnd' \in Nat
    BY DEF SlideAtOnce, ProbeOver, Wake, OnPacketLoss, Halved, congestionVars,
           BasicInv, TypeOK, SenderTypeOK
  <1>4. current \in Sid
    BY <1>1 DEF BasicInv, TypeOK, SenderTypeOK
  <1>5. LinkTypeOK' /\ FramesGood'
    <2>1. CASE UNCHANGED toReceiver
      BY <2>1, <1>1 DEF BasicInv, TypeOK, LinkTypeOK, FramesGood
    <2>2. CASE ~ UNCHANGED toReceiver
      <3>1. PICK expired \in SUBSET Unacked : Wake(expired)
        BY <2>2 DEF SlideAtOnce, ProbeOver, linkVars
      <3>2. PICK order \in Ascending(expired) :
              toReceiver' = Queue(toReceiver, DataFrames(order))
        BY <2>2, <3>1 DEF Wake
      <3>3. expired \in SUBSET (1..total_packets)
        <4>1. /\ nextSeq \in Nat \ {0} /\ sendBase \in Nat \ {0}
              /\ nextSeq <= total_packets + 1 /\ total_packets \in Nat
          BY <1>1, <1>4, PacketsType
          DEF BasicInv, TypeOK, SenderTypeOK, SenderInv, total_packets
        <4> QED
          BY <3>1, <4>1 DEF Unacked
      <3>4. DataFrames(order) \in Seq(GoodFrame)
        BY <1>4, <3>2, <3>3, DataFramesGood
      <3>5. UNCHANGED <<toSender, stable>>
        BY <1>1
      <3> QED
        BY <3>2, <3>4, <3>5, SendTypes
    <2> QED
      BY <2>1, <2>2
  <1>6. SenderTypeOK'
    BY <1>1, <1>2, <1>3, <1>4 DEF BasicInv, TypeOK, SenderTypeOK, Stage
  <1>7. ReceiverTypeOK'
    BY DEF BasicInv, TypeOK, ReceiverTypeOK, receiverVars, sessionVars
  <1> QED
    BY <1>2, <1>5, <1>6, <1>7 DEF BasicInv, TypeOK

LEMMA ListenerBasic ==
  ASSUME BasicInv, UNCHANGED receiverVars, Listener
  PROVE  BasicInv'
  <1> USE DEF Listener, ListenerAck, ListenerIgnore
  <1>1. /\ stage # "idle" /\ current \in Sid
        /\ UNCHANGED <<stage, current, tries, buffered, sendBase, nextSeq,
                       window, outcome, toReceiver, stable>>
        /\ toSender # <<>> /\ toSender' = Tail(toSender)
    BY DEF senderVars, BasicInv, TypeOK, SenderTypeOK
  <1>2. toSender \in Seq(AckFrame) /\ Len(toSender) <= LINK_CAP
    BY DEF BasicInv, TypeOK, LinkTypeOK
  <1>3. /\ toSender' \in Seq(AckFrame) /\ Len(toSender') <= LINK_CAP
        /\ Head(toSender) \in AckFrame
    <2>1. /\ Tail(toSender) \in Seq(AckFrame)
          /\ Len(Tail(toSender)) = Len(toSender) - 1
          /\ Len(toSender) \in Nat \ {0} /\ Head(toSender) \in AckFrame
      BY <1>1, <1>2, TailElements
    <2> QED
      BY <2>1, <1>1, <1>2
  <1>4. LinkTypeOK' /\ FramesGood'
    BY <1>1, <1>3 DEF BasicInv, TypeOK, LinkTypeOK, FramesGood
  <1>5. /\ acked' \subseteq buffered
        /\ cwnd' \in Nat \ {0} /\ ssthresh' \in Nat \ {0}
        /\ ackCount' \in Nat /\ rwnd' \in Nat
    <2>1. CASE ListenerIgnore
      BY <2>1 DEF senderVars, congestionVars, BasicInv, TypeOK, SenderTypeOK
    <2>2. CASE ListenerAck
      <3>1. acked' \subseteq buffered
        BY <2>2 DEF AckCounts, BasicInv, TypeOK, SenderTypeOK
      <3>2. Head(toSender).window \in Nat
        BY <1>3 DEF AckFrame
      <3> QED
        BY <2>2, <3>1, <3>2
        DEF OnAckReceived, BasicInv, TypeOK, SenderTypeOK
    <2> QED
      BY <2>1, <2>2
  <1>6. SenderTypeOK'
    BY <1>1, <1>5 DEF BasicInv, TypeOK, SenderTypeOK
  <1>7. ReceiverTypeOK'
    BY DEF BasicInv, TypeOK, ReceiverTypeOK, receiverVars, sessionVars
  <1>8. SenderInv'
    BY <1>1 DEF BasicInv, SenderInv, StartPhase, DataPhase, EndPhase,
                total_packets
  <1> QED
    BY <1>4, <1>6, <1>7, <1>8 DEF BasicInv, TypeOK

-----------------------------------------------------------------------------
(* The receiver's actions.                                                 *)
Payload == Chunk \cup {NoChunk, Garbage}

LEMMA EndCheckTypes ==
  ASSUME ReceiverTypeOK, active,
         NEW base \in Nat, NEW data \in Seq(Payload), NEW ended \in BOOLEAN,
         EndCheck(base, data, ended)
  PROVE  /\ receiving' \in BOOLEAN /\ active' \in BOOLEAN
         /\ session' \in Sid \cup {0}
         /\ active' => session' \in Sid
         /\ recvBase' \in Nat /\ totalPackets' \in Nat
         /\ reassembled' \in Seq(Payload)
         /\ endReceived' \in BOOLEAN
         /\ delivered' \in Seq(Delivery)
  <1> USE DEF EndCheck, ReceiverTypeOK, Payload
  <1>1. CASE SessionOver(base, ended)
    <2>1. FreshCall
      BY <1>1
    <2>2. /\ active' = FALSE /\ session' = 0 /\ recvBase' = 0
          /\ totalPackets' = 0 /\ reassembled' = <<>> /\ endReceived' = FALSE
      BY <2>1 DEF FreshCall
    <2>3. receiving' \in BOOLEAN
      BY <1>1
    <2>4. <<>> \in Seq(Payload)
      BY EmptySeq
    <2>5. delivered' \in Seq(Delivery)
      <3>1. session \in Sid
        OBVIOUS
      <3>2. [sid |-> session, data |-> data] \in Delivery
        BY <3>1 DEF Delivery
      <3>3. Append(delivered, [sid |-> session, data |-> data]) \in Seq(Delivery)
        BY <3>2
      <3> QED
        BY <1>1, <3>3
    <2> QED
      BY <2>2, <2>3, <2>4, <2>5
  <1>2. CASE ~ SessionOver(base, ended)
    <2>1. /\ recvBase' = base /\ reassembled' = data /\ endReceived' = ended
          /\ UNCHANGED <<receiving, active, session, totalPackets, delivered>>
      BY <1>2
    <2> QED
      BY <2>1
  <1> QED
    BY <1>1, <1>2

LEMMA ReceiverUnchangedSender ==
  ASSUME BasicInv, UNCHANGED senderVars
  PROVE  SenderTypeOK' /\ SenderInv'
  BY DEF BasicInv, TypeOK, SenderTypeOK, SenderInv, StartPhase, DataPhase,
         EndPhase, total_packets, senderVars, congestionVars

LEMMA HandleTypes ==
  ASSUME BasicInv, NEW f \in GoodFrame, Handle(f)
  PROVE  /\ ReceiverTypeOK'
         /\ \E s \in Sid, seq, used \in Nat : SendAck(s, seq, used)
  <1> USE DEF Handle
  <1>1. /\ ReceiverTypeOK
        /\ f.sid \in Sid /\ f.seq \in Nat /\ f.payload \in Payload
        /\ f.total = Packets(f.sid) /\ Packets(f.sid) \in Nat
    BY PacketsType DEF BasicInv, TypeOK, GoodFrame, Frame, Payload
  <1>2. Cardinality(DOMAIN ooo) \in Nat
    BY <1>1, FS_CardinalityType DEF ReceiverTypeOK
  <1>3. CASE HandleStart(f)
    <2>1. KeptOnStart = <<>> /\ DOMAIN KeptOnStart = {}
      BY DEF KeptOnStart
    <2>2. /\ SendAck(f.sid, 0, Cardinality(DOMAIN KeptOnStart))
          /\ active' = TRUE /\ session' = f.sid
          /\ recvBase' = 1 /\ totalPackets' = f.total
          /\ reassembled' = <<>> /\ endReceived' = FALSE
          /\ ooo' = KeptOnStart
          /\ UNCHANGED <<receiving, delivered>>
      BY <1>3 DEF HandleStart
    <2>3. Cardinality(DOMAIN KeptOnStart) \in Nat
      BY <2>1, FS_EmptySet
    <2>4. <<>> \in Seq(Payload)
      BY EmptySeq
    <2>5. DOMAIN ooo' = {} /\ IsFiniteSet(DOMAIN ooo')
      BY <2>1, <2>2, FS_EmptySet
    <2>6. ReceiverTypeOK'
      BY <2>2, <2>4, <2>5, <1>1 DEF ReceiverTypeOK, Payload
    <2> QED
      BY <1>1, <2>2, <2>3, <2>6
  <1>4. CASE HandleInOrder(f)
    <2>1. /\ active /\ f.seq = recvBase
          /\ SendAck(session, f.seq, Cardinality(DOMAIN ooo))
      BY <1>4 DEF HandleInOrder, OfSession
    <2>2. PICK next \in (recvBase + 1)..(recvBase + WINDOW) :
            /\ (recvBase + 1)..(next - 1) \subseteq DOMAIN ooo
            /\ ooo' = [seq \in DOMAIN ooo \ (recvBase..next) |-> ooo[seq]]
            /\ EndCheck(next,
                        Append(reassembled, f.payload)
                          \o [i \in 1..(next - recvBase - 1) |-> ooo[recvBase + i]],
                        endReceived)
      BY <1>4 DEF HandleInOrder
    <2> DEFINE run == [i \in 1..(next - recvBase - 1) |-> ooo[recvBase + i]]
    <2>3. recvBase \in Nat /\ next \in Nat /\ recvBase < next
      BY <1>1 DEF ReceiverTypeOK
    <2>4. run \in Seq(Payload)
      BY <1>1, <2>2, <2>3, DrainedRun DEF ReceiverTypeOK, Payload
    <2>5. Append(reassembled, f.payload) \in Seq(Payload)
      BY <1>1 DEF ReceiverTypeOK, Payload
    <2> HIDE DEF run
    <2>6. Append(reassembled, f.payload) \o run \in Seq(Payload)
      BY <2>4, <2>5, ConcatElements
    <2>7. endReceived \in BOOLEAN
      BY <1>1 DEF ReceiverTypeOK
    <2>8. EndCheck(next, Append(reassembled, f.payload) \o run, endReceived)
      BY <2>2 DEF run
    <2>9. /\ receiving' \in BOOLEAN /\ active' \in BOOLEAN
          /\ session' \in Sid \cup {0}
          /\ active' => session' \in Sid
          /\ recvBase' \in Nat /\ totalPackets' \in Nat
          /\ reassembled' \in Seq(Payload)
          /\ endReceived' \in BOOLEAN
          /\ delivered' \in Seq(Delivery)
      BY <1>1, <2>1, <2>3, <2>6, <2>7, <2>8, EndCheckTypes
    <2>10. /\ DOMAIN ooo' \subseteq DOMAIN ooo
           /\ \A seq \in DOMAIN ooo' : ooo'[seq] = ooo[seq]
      BY <2>2
    <2>11. IsFiniteSet(DOMAIN ooo')
      BY <1>1, <2>10, FS_Subset DEF ReceiverTypeOK
    <2>12. ReceiverTypeOK'
      BY <1>1, <2>9, <2>10, <2>11 DEF ReceiverTypeOK, Payload
    <2> QED
      BY <1>1, <1>2, <2>1, <2>12 DEF ReceiverTypeOK
  <1>5. CASE HandleAhead(f)
    <2>1. /\ active
          /\ SendAck(session, f.seq, Cardinality(DOMAIN ooo))
          /\ ooo' = [seq \in DOMAIN ooo \cup {f.seq} |->
                       IF seq \in DOMAIN ooo THEN ooo[seq] ELSE f.payload]
          /\ EndCheck(recvBase, reassembled, endReceived)
      BY <1>5 DEF HandleAhead, OfSession
    <2>2. /\ recvBase \in Nat /\ reassembled \in Seq(Payload)
          /\ endReceived \in BOOLEAN
      BY <1>1 DEF ReceiverTypeOK, Payload
    <2>3. /\ receiving' \in BOOLEAN /\ active' \in BOOLEAN
          /\ session' \in Sid \cup {0}
          /\ active' => session' \in Sid
          /\ recvBase' \in Nat /\ totalPackets' \in Nat
          /\ reassembled' \in Seq(Payload)
          /\ endReceived' \in BOOLEAN
          /\ delivered' \in Seq(Delivery)
      BY <1>1, <2>1, <2>2, EndCheckTypes
    <2>4. /\ DOMAIN ooo' \subseteq Nat
          /\ \A seq \in DOMAIN ooo' : ooo'[seq] \in Payload
      BY <1>1, <2>1 DEF ReceiverTypeOK, Payload
    <2>5. IsFiniteSet(DOMAIN ooo')
      BY <1>1, <2>1, FS_AddElement DEF ReceiverTypeOK
    <2>6. ReceiverTypeOK'
      BY <2>3, <2>4, <2>5 DEF ReceiverTypeOK, Payload
    <2> QED
      BY <1>1, <1>2, <2>1, <2>6 DEF ReceiverTypeOK
  <1>6. CASE HandleOld(f) \/ HandleEnd(f)
    <2>1. PICK ended \in BOOLEAN :
            /\ active
            /\ SendAck(session, f.seq, Cardinality(DOMAIN ooo))
            /\ ooo' = ooo
            /\ EndCheck(recvBase, reassembled, ended)
      BY <1>1, <1>6
      DEF HandleOld, HandleEnd, EndMatches, OfSession, ReceiverTypeOK
    <2>2. recvBase \in Nat /\ reassembled \in Seq(Payload)
      BY <1>1 DEF ReceiverTypeOK, Payload
    <2>3. /\ receiving' \in BOOLEAN /\ active' \in BOOLEAN
          /\ session' \in Sid \cup {0}
          /\ active' => session' \in Sid
          /\ recvBase' \in Nat /\ totalPackets' \in Nat
          /\ reassembled' \in Seq(Payload)
          /\ endReceived' \in BOOLEAN
          /\ delivered' \in Seq(Delivery)
      BY <1>1, <2>1, <2>2, EndCheckTypes
    <2>4. ReceiverTypeOK'
      BY <1>1, <2>1, <2>3 DEF ReceiverTypeOK, Payload
    <2> QED
      BY <1>1, <1>2, <2>1, <2>4 DEF ReceiverTypeOK
  <1> QED
    BY <1>3, <1>4, <1>5, <1>6

LEMMA ReceiverBasic ==
  ASSUME BasicInv, UNCHANGED senderVars, ReceiverStep
  PROVE  BasicInv'
  <1>1. SenderTypeOK' /\ SenderInv'
    BY ReceiverUnchangedSender
  <1>2. CASE ReceiveFrame
    <2>1. /\ receiving /\ toReceiver # <<>> /\ toReceiver' = Tail(toReceiver)
          /\ Handle(Head(toReceiver)) /\ UNCHANGED stable
      BY <1>2 DEF ReceiveFrame
    <2>2. Head(toReceiver) \in GoodFrame
      BY <2>1, TailElements DEF BasicInv, FramesGood
    <2>3. ReceiverTypeOK' /\ \E s \in Sid, seq, used \in Nat : SendAck(s, seq, used)
      BY <2>1, <2>2, HandleTypes
    <2>4. LinkTypeOK' /\ FramesGood'
      BY <2>1, <2>3, AckTypes
    <2> QED
      BY <1>1, <2>3, <2>4 DEF BasicInv, TypeOK
  <1>3. CASE IgnoreFrame
    <2>1. /\ toReceiver # <<>> /\ toReceiver' = Tail(toReceiver)
          /\ UNCHANGED <<receiverVars, toSender, stable>>
      BY <1>3 DEF IgnoreFrame
    <2>2. toReceiver' \in Seq(GoodFrame) /\ Len(toReceiver') <= LINK_CAP
      BY <2>1, TailElements DEF BasicInv, TypeOK, LinkTypeOK, FramesGood
    <2>3. toReceiver' \in Seq(Frame)
      BY <2>2, GoodFramesAreFrames
    <2>4. LinkTypeOK' /\ FramesGood'
      BY <2>1, <2>2, <2>3 DEF BasicInv, TypeOK, LinkTypeOK, FramesGood
    <2>5. ReceiverTypeOK'
      BY <2>1 DEF BasicInv, TypeOK, ReceiverTypeOK, receiverVars, sessionVars
    <2> QED
      BY <1>1, <2>4, <2>5 DEF BasicInv, TypeOK
  <1>4. CASE IdleTimeout \/ ForwardDone
    <2>1. UNCHANGED <<ooo, delivered, linkVars>>
      BY <1>4 DEF IdleTimeout, ForwardDone
    <2>2. LinkTypeOK' /\ FramesGood'
      BY <2>1 DEF BasicInv, TypeOK, LinkTypeOK, FramesGood, linkVars
    <2>3. <<>> \in Seq(Payload)
      BY EmptySeq
    <2>4. ReceiverTypeOK'
      <3>1. CASE IdleTimeout
        BY <3>1, <2>3
        DEF IdleTimeout, FreshCall, BasicInv, TypeOK, ReceiverTypeOK, Payload
      <3>2. CASE ForwardDone
        BY <3>2
        DEF ForwardDone, BasicInv, TypeOK, ReceiverTypeOK, sessionVars
      <3> QED
        BY <1>4, <3>1, <3>2
    <2> QED
      BY <1>1, <2>2, <2>4 DEF BasicInv, TypeOK
  <1> QED
    BY <1>2, <1>3, <1>4 DEF ReceiverStep

-----------------------------------------------------------------------------
(* The wire.                                                               *)
LEMMA LinkBasic ==
  ASSUME BasicInv, UNCHANGED <<senderVars, receiverVars>>, LinkStep
  PROVE  BasicInv'
  <1>1. SenderTypeOK' /\ SenderInv'
    BY ReceiverUnchangedSender
  <1>2. ReceiverTypeOK'
    BY DEF BasicInv, TypeOK, ReceiverTypeOK, receiverVars, sessionVars
  <1>3. /\ toReceiver \in Seq(GoodFrame) /\ Len(toReceiver) <= LINK_CAP
        /\ toSender \in Seq(AckFrame) /\ Len(toSender) <= LINK_CAP
        /\ stable \in BOOLEAN
    BY DEF BasicInv, TypeOK, LinkTypeOK, FramesGood
  <1>4. toReceiver' \in Seq(GoodFrame) /\ Len(toReceiver') <= LINK_CAP
    <2>1. CASE LoseFrame
      <3>1. PICK i \in DOMAIN toReceiver : toReceiver' = Without(toReceiver, i)
        BY <2>1 DEF LoseFrame
      <3> QED
        BY <1>3, <3>1, WithoutElements
    <2>2. CASE CorruptFrame
      <3>1. PICK i \in DOMAIN toReceiver :
              toReceiver' = [toReceiver EXCEPT ![i].intact = FALSE,
                                               ![i].payload = Garbage]
        BY <2>2 DEF CorruptFrame
      <3> DEFINE g == [toReceiver[i] EXCEPT !.intact = FALSE, !.payload = Garbage]
      <3>2. toReceiver[i] \in GoodFrame
        BY <1>3
      <3>3. g \in GoodFrame
        BY <3>2 DEF GoodFrame, Frame
      <3>4. toReceiver' = [toReceiver EXCEPT ![i] = g]
        BY <1>3, <3>1, <3>2
      <3> HIDE DEF g
      <3> QED
        BY <1>3, <3>3, <3>4
    <2>3. CASE UNCHANGED toReceiver
      BY <1>3, <2>3
    <2> QED
      BY <2>1, <2>2, <2>3 DEF LinkStep, LoseAck, CorruptAck, Stabilise
  <1>5. toSender' \in Seq(AckFrame) /\ Len(toSender') <= LINK_CAP
    <2>1. CASE LoseAck
      <3>1. PICK i \in DOMAIN toSender : toSender' = Without(toSender, i)
        BY <2>1 DEF LoseAck
      <3> QED
        BY <1>3, <3>1, WithoutElements
    <2>2. CASE CorruptAck
      <3>0. PICK i \in DOMAIN toSender :
              \E seq \in 0..(Packets(toSender[i].sid) + 1) :
                toSender' = [toSender EXCEPT ![i].seq = seq]
        BY <2>2 DEF CorruptAck
      <3>1. PICK seq \in 0..(Packets(toSender[i].sid) + 1) :
              toSender' = [toSender EXCEPT ![i].seq = seq]
        BY <3>0
      <3>2. toSender[i] \in AckFrame
        BY <1>3
      <3>3. seq \in Nat
        BY <3>2, PacketsType DEF AckFrame
      <3>4. [toSender[i] EXCEPT !.seq = seq] \in AckFrame
        BY <3>2, <3>3 DEF AckFrame
      <3>5. toSender' = [toSender EXCEPT ![i] = [toSender[i] EXCEPT !.seq = seq]]
        BY <1>3, <3>1
      <3> QED
        BY <1>3, <3>4, <3>5
    <2>3. CASE UNCHANGED toSender
      BY <1>3, <2>3
    <2> QED
      BY <2>1, <2>2, <2>3 DEF LinkStep, LoseFrame, CorruptFrame, Stabilise
  <1>6. stable' \in BOOLEAN
    BY <1>3 DEF LinkStep, LoseFrame, CorruptFrame, LoseAck, CorruptAck, Stabilise
  <1>7. toReceiver' \in Seq(Frame)
    BY <1>4, GoodFramesAreFrames
  <1> QED
    BY <1>1, <1>2, <1>4, <1>5, <1>6, <1>7
    DEF BasicInv, TypeOK, LinkTypeOK, FramesGood

LEMMA SenderBasic ==
  ASSUME BasicInv, UNCHANGED receiverVars, SenderStep
  PROVE  BasicInv'
  <1>1. CASE Begin
    BY <1>1, BeginBasic
  <1>2. CASE SendStart \/ SendEnd
    BY <1>2, HandshakeSendBasic
  <1>3. CASE StartTimeout \/ EndTimeout
    <2>1. stage # "idle"
      BY <1>3 DEF StartTimeout, EndTimeout, HandshakeTimeout
    <2>2. tries < MAX_TRIES \/ Return("failure")
      BY <1>3 DEF StartTimeout, EndTimeout, HandshakeTimeout
    <2> QED
      BY <1>3, <2>1, <2>2, ReturnBasic, QuietBasic
  <1>4. CASE EndAcked \/ Restart
    <2>1. stage # "idle" /\ \E r \in {"success", "failure"} : Return(r)
      BY <1>4 DEF EndAcked, Restart
    <2> QED
      BY <2>1, ReturnBasic
  <1>5. CASE StartAcked \/ ReadCwnd \/ ReadRwnd \/ Wait \/ Probe
    BY <1>5, QuietBasic
  <1>6. CASE Fill
    BY <1>6, FillBasic
  <1>7. CASE \/ SlideAtOnce \/ ProbeOver
             \/ \E expired \in SUBSET Unacked : Wake(expired)
    BY <1>7, SlideBasic
  <1>8. CASE Listener
    BY <1>8, ListenerBasic
  <1> QED
    BY <1>1, <1>2, <1>3, <1>4, <1>5, <1>6, <1>7, <1>8
    DEF SenderStep, SenderThread

LEMMA BasicStutter ==
  ASSUME BasicInv, UNCHANGED vars
  PROVE  BasicInv'
  <1>1. UNCHANGED <<linkVars, senderVars, receiverVars>>
    BY DEF vars
  <1>2. SenderTypeOK' /\ SenderInv'
    BY <1>1, ReceiverUnchangedSender
  <1>3. LinkTypeOK' /\ FramesGood' /\ ReceiverTypeOK'
    BY <1>1 DEF BasicInv, TypeOK, LinkTypeOK, FramesGood, linkVars,
                ReceiverTypeOK, receiverVars, sessionVars
  <1> QED
    BY <1>2, <1>3 DEF BasicInv, TypeOK

THEOREM BasicCorrect == Spec => []BasicInv
  <1>1. BasicInv /\ [Next]_vars => BasicInv'
    BY SenderBasic, ReceiverBasic, LinkBasic, BasicStutter DEF Next
  <1> QED
    BY <1>1, BasicInit, PTL DEF Spec

(* Every variable keeps its type and no queue outgrows its socket buffer.  *)
THEOREM TypeCorrect == Spec => []TypeOK
  <1>1. BasicInv => TypeOK
    BY DEF BasicInv
  <1> QED
    BY <1>1, BasicCorrect, PTL

-----------------------------------------------------------------------------
(***************************************************************************)
(* The safety properties of GuardL2: what is handed over is intact, and    *)
(* the windows of the two boxes agree.                                     *)
(***************************************************************************)

-----------------------------------------------------------------------------
(* Integrity.                                                              *)
SessionIntegrity ==
  active => /\ totalPackets = Packets(session)
            /\ recvBase \in 1..(totalPackets + 1)
            /\ reassembled = SubSeq(Transfers[session], 1, recvBase - 1)
            /\ \A seq \in DOMAIN ooo :
                 /\ seq \in (recvBase + 1)..totalPackets
                 /\ ooo[seq] = Transfers[session][seq]

DeliveredIntact ==
  \A i \in DOMAIN delivered : delivered[i].data = Transfers[delivered[i].sid]

LEMMA IntegrityParts == Integrity <=> SessionIntegrity /\ DeliveredIntact
  BY DEF Integrity, SessionIntegrity, DeliveredIntact

(* A prefix that ends the session is the whole transfer.                   *)
LEMMA EndCheckIntact ==
  ASSUME BasicInv, active, DeliveredIntact, totalPackets = Packets(session),
         NEW base \in 1..(totalPackets + 1), NEW ended,
         NEW data, data = SubSeq(Transfers[session], 1, base - 1),
         EndCheck(base, data, ended)
  PROVE  /\ DeliveredIntact'
         /\ active' => /\ recvBase' = base /\ reassembled' = data
                       /\ UNCHANGED <<session, totalPackets>>
  <1>1. /\ session \in Sid /\ delivered \in Seq(Delivery)
        /\ Transfers[session] \in Seq(Chunk)
        /\ totalPackets = Len(Transfers[session]) /\ totalPackets \in Nat
    BY PacketsType DEF BasicInv, TypeOK, ReceiverTypeOK, Packets
  <1>2. CASE SessionOver(base, ended)
    <2>1. base = totalPackets + 1
      BY <1>2 DEF SessionOver
    <2>2. data = Transfers[session]
      <3>1. base - 1 = Len(Transfers[session])
        BY <1>1, <2>1
      <3> QED
        BY <1>1, <3>1, SubSeqFull
    <2>3. FreshCall /\ Len(data) = totalPackets
      BY <1>1, <1>2, <2>2 DEF EndCheck
    <2>4. delivered' = Append(delivered, [sid |-> session, data |-> data])
      BY <1>2, <2>3 DEF EndCheck
    <2>5. active' = FALSE
      BY <2>3 DEF FreshCall
    <2>6. DeliveredIntact'
      BY <1>1, <2>2, <2>4 DEF DeliveredIntact
    <2> QED
      BY <2>5, <2>6
  <1>3. CASE ~ SessionOver(base, ended)
    BY <1>3 DEF EndCheck, DeliveredIntact
  <1> QED
    BY <1>2, <1>3

LEMMA HandleIntact ==
  ASSUME BasicInv, Integrity, NEW f \in GoodFrame, Accepted(f), Handle(f)
  PROVE  Integrity'
  <1>1. SessionIntegrity /\ DeliveredIntact
    BY IntegrityParts
  <1>2. /\ f.sid \in Sid /\ f.seq \in Nat /\ f.total = Packets(f.sid)
        /\ Packets(f.sid) \in Nat \ {0}
        /\ f.type = "DATA" => /\ f.seq \in 1..Packets(f.sid)
                              /\ f.payload = Transfers[f.sid][f.seq]
    BY PacketsType DEF GoodFrame, Frame, Accepted
  <1>3. /\ active => session \in Sid
        /\ recvBase \in Nat /\ totalPackets \in Nat
    BY DEF BasicInv, TypeOK, ReceiverTypeOK
  <1>4. CASE HandleStart(f)
    <2>1. /\ active' = TRUE /\ session' = f.sid
          /\ recvBase' = 1 /\ totalPackets' = f.total
          /\ reassembled' = <<>>
          /\ ooo' = <<>>
          /\ delivered' = delivered
      BY <1>4 DEF HandleStart, KeptOnStart
    <2>2. SubSeq(Transfers[f.sid], 1, 1 - 1) = <<>>
      BY SubSeqEmpty
    <2>3. DOMAIN ooo' = {}
      BY <2>1
    <2>4. SessionIntegrity'
      BY <1>2, <2>1, <2>2, <2>3 DEF SessionIntegrity
    <2>5. DeliveredIntact'
      BY <1>1, <2>1 DEF DeliveredIntact
    <2> QED
      BY <2>4, <2>5 DEF Integrity, SessionIntegrity, DeliveredIntact
  <1>5. CASE HandleInOrder(f)
    <2>1. /\ active /\ f.sid = session /\ f.seq = recvBase /\ f.type = "DATA"
      BY <1>5 DEF HandleInOrder, OfSession
    <2>2. PICK next \in (recvBase + 1)..(recvBase + WINDOW) :
            /\ (recvBase + 1)..(next - 1) \subseteq DOMAIN ooo
            /\ next \notin DOMAIN ooo
            /\ ooo' = [seq \in DOMAIN ooo \ (recvBase..next) |-> ooo[seq]]
            /\ EndCheck(next,
                        Append(reassembled, f.payload)
                          \o [i \in 1..(next - recvBase - 1) |-> ooo[recvBase + i]],
                        endReceived)
      BY <1>5 DEF HandleInOrder
    <2> DEFINE run == [i \in 1..(next - recvBase - 1) |-> ooo[recvBase + i]]
               t == Transfers[session]
    <2>3. /\ session \in Sid /\ t \in Seq(Chunk) /\ Len(t) = totalPackets
          /\ totalPackets = Packets(session)
          /\ reassembled = SubSeq(t, 1, recvBase - 1)
          /\ recvBase \in 1..Len(t) /\ f.payload = t[recvBase]
          /\ \A seq \in DOMAIN ooo :
               seq \in (recvBase + 1)..totalPackets /\ ooo[seq] = t[seq]
      BY <1>1, <1>2, <1>3, <2>1, PacketsType DEF SessionIntegrity, Packets
    <2>4. next \in (recvBase + 1)..(Len(t) + 1)
      <3>1. next \in Nat /\ recvBase < next
        BY <1>3
      <3>2. ASSUME next > Len(t) + 1 PROVE FALSE
        <4>1. next - 1 \in (recvBase + 1)..(next - 1)
          BY <2>3, <3>1, <3>2, <1>3
        <4>2. next - 1 \in DOMAIN ooo
          BY <2>2, <4>1
        <4>3. next - 1 <= totalPackets
          BY <2>3, <4>2
        <4> QED
          BY <2>3, <3>1, <3>2, <4>3, <1>3
      <3> QED
        BY <2>3, <3>1, <3>2
    <2>5. /\ run \in Seq(Chunk) /\ Len(run) = next - recvBase - 1
          /\ \A i \in 1..(next - recvBase - 1) : run[i] = t[recvBase + i]
      <3>1. \A seq \in DOMAIN ooo : ooo[seq] \in Chunk
        <4>1. t \in Seq(Chunk) /\ totalPackets = Len(t) /\ recvBase \in Nat
              /\ \A seq \in DOMAIN ooo : seq \in (recvBase + 1)..totalPackets /\ ooo[seq] = t[seq]
          BY <2>3
        <4> HIDE DEF t, run
        <4> QED
          BY ONLY <4>1
      <3>2. next \in Nat /\ recvBase < next
        BY <1>3
      <3>3. run \in Seq(Chunk) /\ Len(run) = next - recvBase - 1
        BY <1>3, <2>2, <3>1, <3>2, DrainedRun
      <3>4. ASSUME NEW i \in 1..(next - recvBase - 1)
            PROVE  run[i] = t[recvBase + i]
        <4>1. recvBase + i \in (recvBase + 1)..(next - 1)
          BY <1>3, <3>2
        <4>2. recvBase + i \in DOMAIN ooo
          BY <2>2, <4>1
        <4> QED
          BY <2>3, <4>2
      <3> QED
        BY <3>3, <3>4
    <2> HIDE DEF run
    <2>6. Append(reassembled, f.payload) \o run = SubSeq(t, 1, next - 1)
      <3>1. /\ t \in Seq(Chunk) /\ recvBase \in 1..Len(t) /\ Len(t) \in Nat
            /\ f.payload = t[recvBase] /\ reassembled = SubSeq(t, 1, recvBase - 1)
        BY <2>3
      <3> HIDE DEF t
      <3> QED
        BY ONLY <3>1, <2>4, <2>5, PrefixGrows
    <2>7. EndCheck(next, SubSeq(t, 1, next - 1), endReceived)
      BY <2>2, <2>6 DEF run
    <2>8. /\ DeliveredIntact'
          /\ active' => /\ recvBase' = next /\ reassembled' = SubSeq(t, 1, next - 1)
                        /\ UNCHANGED <<session, totalPackets>>
      <3>1. next \in 1..(totalPackets + 1)
        BY <1>3, <2>3, <2>4
      <3> QED
        BY <1>1, <2>1, <2>3, <2>7, <3>1, EndCheckIntact
    <2>9. \A seq \in DOMAIN ooo' : /\ seq \in (next + 1)..totalPackets
                                   /\ ooo'[seq] = t[seq]
      <3>1. DOMAIN ooo' = DOMAIN ooo \ (recvBase..next)
            /\ \A seq \in DOMAIN ooo' : ooo'[seq] = ooo[seq]
        BY <2>2
      <3>2. /\ next \in Nat /\ recvBase < next /\ recvBase \in Nat /\ totalPackets \in Nat
            /\ \A seq \in DOMAIN ooo :
                 seq \in (recvBase + 1)..totalPackets /\ ooo[seq] = t[seq]
        BY <1>3, <2>3
      <3> HIDE DEF t
      <3> QED
        BY ONLY <3>1, <3>2
    <2>10. SessionIntegrity'
      BY <2>3, <2>4, <2>8, <2>9 DEF SessionIntegrity
    <2> QED
      BY <2>8, <2>10 DEF Integrity, SessionIntegrity, DeliveredIntact
  <1>6. CASE HandleAhead(f)
    <2>1. /\ active /\ f.sid = session /\ f.type = "DATA"
          /\ f.seq > recvBase
          /\ ooo' = [seq \in DOMAIN ooo \cup {f.seq} |->
                       IF seq \in DOMAIN ooo THEN ooo[seq] ELSE f.payload]
          /\ EndCheck(recvBase, reassembled, endReceived)
      BY <1>2, <1>3, <1>6 DEF HandleAhead, OfSession, InWindow
    <2>2. /\ DeliveredIntact'
          /\ active' => UNCHANGED <<recvBase, reassembled, session, totalPackets>>
      BY <1>1, <2>1, EndCheckIntact DEF SessionIntegrity
    <2>3. \A seq \in DOMAIN ooo' : /\ seq \in (recvBase + 1)..totalPackets
                                   /\ ooo'[seq] = Transfers[session][seq]
      BY <1>1, <1>2, <1>3, <2>1 DEF SessionIntegrity
    <2>4. SessionIntegrity'
      BY <1>1, <2>1, <2>2, <2>3 DEF SessionIntegrity
    <2> QED
      BY <2>2, <2>4 DEF Integrity, SessionIntegrity, DeliveredIntact
  <1>7. CASE HandleOld(f) \/ HandleEnd(f)
    <2>1. active /\ ooo' = ooo /\ \E ended : EndCheck(recvBase, reassembled, ended)
      BY <1>7 DEF HandleOld, HandleEnd, EndMatches, OfSession
    <2>2. /\ DeliveredIntact'
          /\ active' => UNCHANGED <<recvBase, reassembled, session, totalPackets>>
      BY <1>1, <2>1, EndCheckIntact DEF SessionIntegrity
    <2>3. SessionIntegrity'
      BY <1>1, <2>1, <2>2 DEF SessionIntegrity
    <2> QED
      BY <2>2, <2>3 DEF Integrity, SessionIntegrity, DeliveredIntact
  <1> QED
    BY <1>4, <1>5, <1>6, <1>7 DEF Handle

LEMMA IntegrityUnchanged ==
  ASSUME Integrity, \/ UNCHANGED receiverVars
                    \/ FreshCall /\ UNCHANGED delivered
                    \/ UNCHANGED <<sessionVars, ooo, delivered>>
  PROVE  Integrity'
  BY DEF Integrity, receiverVars, sessionVars, FreshCall

(* Whatever the link does, also to the ACKs, what RecvMode is given is one *)
(* of the payloads SendMode was given.                                     *)
THEOREM IntegrityCorrect == Spec => []Integrity
  <1>1. Init => Integrity
    BY DEF Init, ReceiverInit, Integrity
  <1>2. BasicInv /\ Integrity /\ [Next]_vars => Integrity'
    <2> SUFFICES ASSUME BasicInv, Integrity, [Next]_vars PROVE Integrity'
      OBVIOUS
    <2>1. CASE SenderStep /\ UNCHANGED receiverVars
      BY <2>1, IntegrityUnchanged
    <2>2. CASE ReceiverStep
      <3>1. CASE ReceiveFrame
        <4>1. Head(toReceiver) \in GoodFrame
          BY <3>1, TailElements DEF ReceiveFrame, BasicInv, FramesGood
        <4> QED
          BY <3>1, <4>1, HandleIntact DEF ReceiveFrame
      <3>2. CASE IgnoreFrame \/ IdleTimeout \/ ForwardDone
        BY <3>2, IntegrityUnchanged DEF IgnoreFrame, IdleTimeout, ForwardDone
      <3> QED
        BY <2>2, <3>1, <3>2 DEF ReceiverStep
    <2>3. CASE LinkStep /\ UNCHANGED <<senderVars, receiverVars>>
      BY <2>3, IntegrityUnchanged
    <2>4. CASE UNCHANGED vars
      BY <2>4, IntegrityUnchanged DEF vars
    <2> QED
      BY <2>1, <2>2, <2>3, <2>4 DEF Next
  <1> QED
    BY <1>1, <1>2, BasicCorrect, PTL DEF Spec

-----------------------------------------------------------------------------
USE LinkAssumption, SenderAssumption, ReceiverAssumption, WindowAssumption

(* The windows.                                                            *)
BufferFits == active => DOMAIN ooo \subseteq (recvBase + 1)..(recvBase + WINDOW - 1)
AcksOpen == \A i \in DOMAIN toSender : toSender[i].window \in 1..WINDOW
SenderWindow ==
  /\ rwnd \in 1..WINDOW
  /\ stage = "read_rwnd" => window >= 1
  /\ stage \in {"fill", "inspect", "wait", "probe"} => window \in 1..WINDOW

LEMMA WindowsParts == WindowsInv <=> BufferFits /\ AcksOpen /\ SenderWindow
  BY DEF WindowsInv, BufferFits, AcksOpen, SenderWindow

LEMMA AdvertisedOpen ==
  ASSUME BasicInv, BufferFits, active
  PROVE  /\ Cardinality(DOMAIN ooo) < WINDOW
         /\ Cardinality(DOMAIN ooo) \in Nat
         /\ Advertised(Cardinality(DOMAIN ooo)) \in 1..WINDOW
  <1>1. recvBase \in Nat
    BY DEF BasicInv, TypeOK, ReceiverTypeOK
  <1>2. /\ IsFiniteSet((recvBase + 1)..(recvBase + WINDOW - 1))
        /\ Cardinality((recvBase + 1)..(recvBase + WINDOW - 1))
             = IF recvBase + 1 > recvBase + WINDOW - 1 THEN 0
               ELSE (recvBase + WINDOW - 1) - (recvBase + 1) + 1
    BY <1>1, FS_Interval
  <1>3. /\ IsFiniteSet(DOMAIN ooo)
        /\ Cardinality(DOMAIN ooo)
             <= Cardinality((recvBase + 1)..(recvBase + WINDOW - 1))
    BY <1>2, FS_Subset DEF BufferFits
  <1>4. Cardinality(DOMAIN ooo) \in Nat
    BY <1>3, FS_CardinalityType
  <1>5. Cardinality((recvBase + 1)..(recvBase + WINDOW - 1)) = WINDOW - 1
    BY <1>1, <1>2
  <1>6. Cardinality(DOMAIN ooo) < WINDOW
    BY <1>3, <1>4, <1>5
  <1> QED
    BY <1>4, <1>6 DEF Advertised

LEMMA QueuedAck ==
  ASSUME BasicInv, AcksOpen, NEW s \in Sid, NEW seq \in Nat, NEW used \in Nat,
         Advertised(used) \in 1..WINDOW, SendAck(s, seq, used)
  PROVE  AcksOpen'
  <1> DEFINE ack == [sid |-> s, seq |-> seq, window |-> Advertised(used)]
  <1>1. ack \in AckFrame /\ ack.window \in 1..WINDOW
    BY DEF AckFrame
  <1>2. toSender' = Queue(toSender, <<ack>>)
    BY DEF SendAck
  <1> HIDE DEF ack
  <1>3. /\ toSender \in Seq(AckFrame) /\ Len(toSender) <= LINK_CAP
        /\ <<ack>> \in Seq(AckFrame) /\ Len(<<ack>>) = 1 /\ <<ack>>[1] = ack
    BY <1>1 DEF BasicInv, TypeOK, LinkTypeOK
  <1>4. /\ Queue(toSender, <<ack>>) \in Seq(AckFrame)
        /\ Len(Queue(toSender, <<ack>>)) \in Len(toSender)..(Len(toSender) + 1)
        /\ \A i \in 1..Len(Queue(toSender, <<ack>>)) :
             Queue(toSender, <<ack>>)[i] = IF i <= Len(toSender) THEN toSender[i]
                                           ELSE <<ack>>[i - Len(toSender)]
    BY <1>3, QueueElements
  <1>5. ASSUME NEW i \in DOMAIN toSender' PROVE toSender'[i].window \in 1..WINDOW
    <2>1. i \in 1..Len(toSender') /\ Len(toSender) \in Nat
      BY <1>2, <1>3, <1>4
    <2>2. CASE i <= Len(toSender)
      <3>1. i \in DOMAIN toSender
        BY <2>1, <2>2
      <3>2. toSender'[i] = toSender[i]
        BY <2>1, <2>2, <1>2, <1>4
      <3> QED
        BY <3>1, <3>2 DEF AcksOpen
    <2>3. CASE i > Len(toSender)
      <3>1. i = Len(toSender) + 1
        BY <2>1, <2>3, <1>2, <1>4
      <3>2. toSender'[i] = <<ack>>[i - Len(toSender)]
        BY <2>1, <2>3, <1>2, <1>4, SMTT(60)
      <3>3. i - Len(toSender) = 1
        BY <3>1, <2>1
      <3> QED
        BY <3>2, <3>3, <1>1, <1>3
    <2> QED
      BY <2>1, <2>2, <2>3
  <1> QED
    BY <1>5 DEF AcksOpen

LEMMA HandleWindows ==
  ASSUME BasicInv, BufferFits, AcksOpen, NEW f \in GoodFrame, Handle(f)
  PROVE  BufferFits' /\ AcksOpen'
  <1>1. /\ f.sid \in Sid /\ f.seq \in Nat /\ recvBase \in Nat
        /\ active => session \in Sid
    BY DEF GoodFrame, Frame, BasicInv, TypeOK, ReceiverTypeOK
  <1>2. CASE HandleStart(f)
    <2>1. DOMAIN KeptOnStart = {} /\ Cardinality(DOMAIN KeptOnStart) = 0
      BY FS_EmptySet DEF KeptOnStart
    <2>2. Advertised(0) \in 1..WINDOW
      BY DEF Advertised
    <2>3. AcksOpen'
      BY <1>1, <1>2, <2>1, <2>2, QueuedAck DEF HandleStart
    <2>4. BufferFits'
      BY <1>2, <2>1 DEF HandleStart, BufferFits
    <2> QED
      BY <2>3, <2>4
  <1>3. CASE ~ HandleStart(f)
    <2>1. active /\ SendAck(session, f.seq, Cardinality(DOMAIN ooo))
      BY <1>3 DEF Handle, HandleInOrder, HandleAhead, HandleOld, HandleEnd,
                  EndMatches, OfSession
    <2>2. AcksOpen'
      BY <1>1, <2>1, AdvertisedOpen, QueuedAck
    <2>3. BufferFits'
      <3>1. CASE HandleInOrder(f)
        <4>1. PICK next \in (recvBase + 1)..(recvBase + WINDOW) :
                /\ next \notin DOMAIN ooo
                /\ ooo' = [seq \in DOMAIN ooo \ (recvBase..next) |-> ooo[seq]]
                /\ active' => recvBase' = next
          BY <3>1 DEF HandleInOrder, EndCheck, FreshCall
        <4>2. DOMAIN ooo' = DOMAIN ooo \ (recvBase..next)
          BY <4>1
        <4>3. DOMAIN ooo \subseteq (recvBase + 1)..(recvBase + WINDOW - 1)
          BY <2>1 DEF BufferFits
        <4>4. DOMAIN ooo' \subseteq (next + 1)..(next + WINDOW - 1)
          BY <1>1, <4>2, <4>3
        <4> QED
          BY <4>1, <4>4 DEF BufferFits
      <3>2. CASE HandleAhead(f)
        <4>1. /\ DOMAIN ooo' = DOMAIN ooo \cup {f.seq}
              /\ active' => recvBase' = recvBase
              /\ recvBase < f.seq /\ f.seq < recvBase + WINDOW
          BY <1>1, <3>2 DEF HandleAhead, EndCheck, FreshCall, InWindow
        <4>2. f.seq \in (recvBase + 1)..(recvBase + WINDOW - 1)
          BY <1>1, <4>1
        <4> QED
          BY <2>1, <4>1, <4>2 DEF BufferFits
      <3>3. CASE HandleOld(f) \/ HandleEnd(f)
        BY <2>1, <3>3
        DEF HandleOld, HandleEnd, EndCheck, FreshCall, BufferFits
      <3> QED
        BY <1>3, <3>1, <3>2, <3>3 DEF Handle
    <2> QED
      BY <2>2, <2>3
  <1> QED
    BY <1>2, <1>3

LEMMA SenderWindows ==
  ASSUME BasicInv, AcksOpen, SenderWindow, SenderStep
  PROVE  AcksOpen' /\ SenderWindow'
  <1>1. /\ toSender \in Seq(AckFrame) /\ cwnd \in Nat \ {0}
        /\ window \in Nat /\ rwnd \in 1..WINDOW
    BY DEF BasicInv, TypeOK, LinkTypeOK, SenderTypeOK, SenderWindow
  <1>2. CASE Begin
    BY <1>2 DEF Begin, AcksOpen, SenderWindow
  <1>3. CASE Listener
    <2>1. /\ toSender # <<>> /\ toSender' = Tail(toSender)
          /\ UNCHANGED <<stage, window>>
          /\ rwnd' = rwnd \/ rwnd' = Head(toSender).window
      BY <1>3 DEF Listener, ListenerAck, ListenerIgnore, OnAckReceived,
                  senderVars, congestionVars
    <2>2. /\ Head(toSender) = toSender[1] /\ 1 \in DOMAIN toSender
          /\ Len(Tail(toSender)) = Len(toSender) - 1
          /\ Tail(toSender) \in Seq(AckFrame)
          /\ \A i \in 1..(Len(toSender) - 1) : Tail(toSender)[i] = toSender[i + 1]
          /\ \A i \in 1..(Len(toSender) - 1) : i + 1 \in DOMAIN toSender
      BY <1>1, <2>1, TailElements
    <2>3. AcksOpen'
      BY <1>1, <2>1, <2>2 DEF AcksOpen
    <2>4. Head(toSender).window \in 1..WINDOW
      BY <2>2 DEF AcksOpen
    <2> QED
      BY <2>1, <2>3, <2>4 DEF SenderWindow
  <1>4. CASE SenderThread \/ Restart
    <2>1. UNCHANGED <<toSender, rwnd>>
      BY <1>4 DEF SenderThread, Restart, SendStart, StartTimeout, StartAcked,
        ReadCwnd, ReadRwnd, Fill, Wait, Probe, SlideAtOnce, Wake, ProbeOver,
        SendEnd, EndTimeout, EndAcked, HandshakeSend, HandshakeTimeout, Return,
        OnPacketLoss, congestionVars, linkVars
    <2>2. /\ stage' = "read_rwnd" => window' >= 1
          /\ stage' \in {"fill", "inspect", "wait", "probe"} => window' \in 1..WINDOW
      <3>1. CASE SendStart \/ StartTimeout \/ StartAcked \/ SendEnd \/ EndTimeout
                   \/ EndAcked \/ Restart
        BY <3>1 DEF Restart, SendStart, StartTimeout, StartAcked, SendEnd,
          EndTimeout, EndAcked, HandshakeSend, HandshakeTimeout, Return
      <3>2. CASE ReadCwnd
        BY <1>1, <3>2 DEF ReadCwnd
      <3>3. CASE ReadRwnd
        BY <1>1, <3>3 DEF ReadRwnd, SenderWindow
      <3>4. CASE Fill \/ Wait \/ Probe
        BY <3>4 DEF Fill, Wait, Probe, SenderWindow
      <3>5. CASE \/ SlideAtOnce \/ ProbeOver
                 \/ \E expired \in SUBSET Unacked : Wake(expired)
        BY <3>5 DEF SlideAtOnce, ProbeOver, Wake, Slide
      <3> QED
        BY <1>4, <3>1, <3>2, <3>3, <3>4, <3>5 DEF SenderThread
    <2> QED
      BY <2>1, <2>2 DEF AcksOpen, SenderWindow
  <1> QED
    BY <1>2, <1>3, <1>4 DEF SenderStep

LEMMA LinkWindows ==
  ASSUME BasicInv, AcksOpen, LinkStep
  PROVE  AcksOpen'
  <1>1. toSender \in Seq(AckFrame)
    BY DEF BasicInv, TypeOK, LinkTypeOK
  <1>2. CASE LoseAck
    <2>1. PICK k \in DOMAIN toSender : toSender' = Without(toSender, k)
      BY <1>2 DEF LoseAck
    <2>2. /\ Without(toSender, k) \in Seq(AckFrame)
          /\ Len(Without(toSender, k)) = Len(toSender) - 1
          /\ \A i \in 1..(k - 1) : Without(toSender, k)[i] = toSender[i]
          /\ \A i \in k..(Len(toSender) - 1) : Without(toSender, k)[i] = toSender[i + 1]
      BY <1>1, WithoutElements
    <2>3. ASSUME NEW i \in DOMAIN toSender' PROVE toSender'[i].window \in 1..WINDOW
      <3>1. /\ i \in 1..(Len(toSender) - 1) /\ k \in 1..Len(toSender)
            /\ Len(toSender) \in Nat
        BY <1>1, <2>1, <2>2
      <3>2. PICK j \in 1..Len(toSender) : toSender'[i] = toSender[j]
        <4>1. CASE i < k
          <5>1. i \in 1..(k - 1) /\ i \in 1..Len(toSender)
            BY <3>1, <4>1
          <5> QED
            BY <5>1, <2>1, <2>2
        <4>2. CASE i >= k
          <5>1. i \in k..(Len(toSender) - 1) /\ i + 1 \in 1..Len(toSender)
            BY <3>1, <4>2
          <5> QED
            BY <5>1, <2>1, <2>2
        <4>3. i < k \/ i >= k
          BY <3>1
        <4> QED
          BY ONLY <4>1, <4>2, <4>3
      <3> QED
        BY <3>2 DEF AcksOpen
    <2> QED
      BY <2>3 DEF AcksOpen
  <1>3. CASE CorruptAck
    <2>1. PICK k \in DOMAIN toSender :
            \E seq \in 0..(Packets(toSender[k].sid) + 1) :
              toSender' = [toSender EXCEPT ![k].seq = seq]
      BY <1>3 DEF CorruptAck
    <2>2. \A i \in DOMAIN toSender : toSender[i] \in AckFrame
      BY <1>1
    <2>3. \A i \in DOMAIN toSender' : i \in DOMAIN toSender
                                  /\ toSender'[i].window = toSender[i].window
      BY <1>1, <2>1, <2>2 DEF AckFrame
    <2> QED
      BY <2>3 DEF AcksOpen
  <1>4. CASE LoseFrame \/ CorruptFrame \/ Stabilise
    BY <1>4 DEF LoseFrame, CorruptFrame, Stabilise, AcksOpen
  <1> QED
    BY <1>2, <1>3, <1>4 DEF LinkStep

LEMMA WindowsStep == BasicInv /\ WindowsInv /\ [Next]_vars => WindowsInv'
  <1> SUFFICES ASSUME BasicInv, WindowsInv, [Next]_vars PROVE WindowsInv'
    OBVIOUS
  <1>1. BufferFits /\ AcksOpen /\ SenderWindow
    BY WindowsParts
  <1> SUFFICES BufferFits' /\ AcksOpen' /\ SenderWindow'
    BY DEF WindowsInv, BufferFits, AcksOpen, SenderWindow
  <1>2. CASE SenderStep /\ UNCHANGED receiverVars
    BY <1>1, <1>2, SenderWindows DEF BufferFits, receiverVars, sessionVars
  <1>3. CASE ReceiverStep /\ UNCHANGED senderVars
    <2>1. SenderWindow'
      BY <1>1, <1>3 DEF SenderWindow, senderVars, congestionVars
    <2>2. CASE ReceiveFrame
      <3>1. Head(toReceiver) \in GoodFrame
        BY <2>2, TailElements DEF ReceiveFrame, BasicInv, FramesGood
      <3> QED
        BY <1>1, <2>1, <2>2, <3>1, HandleWindows DEF ReceiveFrame
    <2>3. CASE IgnoreFrame \/ IdleTimeout \/ ForwardDone
      BY <1>1, <2>1, <2>3
      DEF IgnoreFrame, IdleTimeout, ForwardDone, FreshCall, BufferFits, AcksOpen,
          receiverVars, sessionVars, linkVars
    <2> QED
      BY <1>3, <2>2, <2>3 DEF ReceiverStep
  <1>4. CASE LinkStep /\ UNCHANGED <<senderVars, receiverVars>>
    BY <1>1, <1>4, LinkWindows
    DEF BufferFits, SenderWindow, senderVars, congestionVars, receiverVars, sessionVars
  <1>5. CASE UNCHANGED vars
    BY <1>1, <1>5 DEF BufferFits, AcksOpen, SenderWindow, vars, linkVars,
      senderVars, congestionVars, receiverVars, sessionVars
  <1> QED
    BY <1>2, <1>3, <1>4, <1>5 DEF Next

THEOREM WindowsCorrect == Spec => []WindowsInv
  <1>1. Init => WindowsInv
    BY DEF Init, LinkInit, SenderInit, ReceiverInit, WindowsInv
  <1> QED
    BY <1>1, WindowsStep, BasicCorrect, PTL DEF Spec

(* The effective window is at least 1 whenever it is used: the branch that *)
(* waits for a closed window to open never has one to wait for.            *)
THEOREM WindowAlwaysOpen == Spec => []WindowOpen
  <1>1. BasicInv /\ WindowsInv => WindowOpen
    BY DEF WindowsInv, WindowOpen, BasicInv, TypeOK, SenderTypeOK
  <1> QED
    BY <1>1, WindowsCorrect, BasicCorrect, PTL

-----------------------------------------------------------------------------
(* The protocol.                                                           *)
(* What the wire keeps of a frame, damaged or not.                         *)
SameHeader(f, g) == f.type = g.type /\ f.sid = g.sid /\ f.seq = g.seq

(* What q holds of r: frames of r, in the order of r.                      *)
Thins(q, r) ==
  /\ \A i \in DOMAIN q : \E k \in DOMAIN r : SameHeader(q[i], r[k])
  /\ \A i, j \in DOMAIN q :
       i < j => \E k, l \in DOMAIN r : /\ k < l
                                       /\ SameHeader(q[i], r[k])
                                       /\ SameHeader(q[j], r[l])

LEMMA ThinsItself ==
  ASSUME NEW link, NEW next, next = link
  PROVE  Thins(next, link)
  BY DEF Thins, SameHeader

LEMMA TailThins ==
  ASSUME NEW F, NEW link \in Seq(F), link # <<>>
  PROVE  Thins(Tail(link), link)
  <1>1. /\ Tail(link) \in Seq(F)
        /\ Len(Tail(link)) = Len(link) - 1
        /\ Len(link) \in Nat \ {0}
        /\ \A i \in 1..(Len(link) - 1) : Tail(link)[i] = link[i + 1]
    BY TailElements
  <1>2. \A i \in DOMAIN Tail(link) : /\ i + 1 \in DOMAIN link
                                     /\ Tail(link)[i] = link[i + 1]
                                     /\ i \in Nat
    BY <1>1
  <1>3. \A i, j \in DOMAIN Tail(link) : i < j => i + 1 < j + 1
    BY <1>2
  <1> QED
    BY <1>2, <1>3 DEF Thins, SameHeader

LEMMA WithoutThins ==
  ASSUME NEW F, NEW link \in Seq(F), NEW k \in DOMAIN link
  PROVE  Thins(Without(link, k), link)
  <1> DEFINE from == [i \in 1..(Len(link) - 1) |-> IF i < k THEN i ELSE i + 1]
  <1>1. /\ Without(link, k) \in Seq(F)
        /\ Len(Without(link, k)) = Len(link) - 1
        /\ \A i \in 1..(k - 1) : Without(link, k)[i] = link[i]
        /\ \A i \in k..(Len(link) - 1) : Without(link, k)[i] = link[i + 1]
    BY WithoutElements
  <1>2. k \in 1..Len(link) /\ Len(link) \in Nat
    OBVIOUS
  <1>3. DOMAIN Without(link, k) = 1..(Len(link) - 1)
    BY <1>1, <1>2
  <1>4. ASSUME NEW i \in 1..(Len(link) - 1)
        PROVE  from[i] \in DOMAIN link /\ Without(link, k)[i] = link[from[i]]
    <2>1. CASE i < k
      BY <1>1, <1>2, <2>1
    <2>2. CASE ~(i < k)
      <3>1. i \in k..(Len(link) - 1) /\ from[i] = i + 1
        BY <1>2, <2>2
      <3> QED
        BY <1>1, <1>2, <3>1
    <2> QED
      BY <2>1, <2>2
  <1>5. \A i, j \in 1..(Len(link) - 1) : i < j => from[i] < from[j]
    BY <1>2
  <1> HIDE DEF from
  <1>6. ASSUME NEW i \in DOMAIN Without(link, k)
        PROVE  from[i] \in DOMAIN link /\ SameHeader(Without(link, k)[i], link[from[i]])
    BY <1>3, <1>4 DEF SameHeader
  <1> QED
    BY ONLY <1>3, <1>5, <1>6 DEF Thins

(* The wire loses and damages frames but never reorders them.              *)
LEMMA LinkThins ==
  ASSUME BasicInv, LinkStep
  PROVE  Thins(toReceiver', toReceiver)
  <1>1. toReceiver \in Seq(Frame)
    BY DEF BasicInv, TypeOK, LinkTypeOK
  <1>2. CASE LoseFrame
    BY <1>1, <1>2, WithoutThins DEF LoseFrame
  <1>3. CASE CorruptFrame
    <2>1. PICK k \in DOMAIN toReceiver :
            toReceiver' = [toReceiver EXCEPT ![k].intact = FALSE,
                                             ![k].payload = Garbage]
      BY <1>3 DEF CorruptFrame
    <2>2. \A i \in DOMAIN toReceiver : toReceiver[i] \in Frame
      BY <1>1
    <2>3. \A i \in DOMAIN toReceiver' :
            i \in DOMAIN toReceiver /\ SameHeader(toReceiver'[i], toReceiver[i])
      BY <2>1, <2>2 DEF Frame, SameHeader
    <2> QED
      BY <2>3 DEF Thins
  <1>4. CASE LoseAck \/ CorruptAck \/ Stabilise
    BY <1>4, ThinsItself DEF LoseAck, CorruptAck, Stabilise
  <1> QED
    BY <1>2, <1>3, <1>4 DEF LinkStep

-----------------------------------------------------------------------------
(* Sessions in order, whatever happens to the ACKs.                        *)
SessionsInv == OrderInv /\ StartInv

LEMMA ThinnedStarts ==
  ASSUME Thins(toReceiver', toReceiver), NEW s, ~StartInLink(s)
  PROVE  ~StartInLink(s)'
  BY DEF Thins, SameHeader, StartInLink

(* The queues as the frames that are left of them see it.                  *)
Sorted(q) ==
  /\ \A i, j \in DOMAIN q : i < j => q[i].sid <= q[j].sid
  /\ \A i, j \in DOMAIN q :
       q[i].sid = q[j].sid /\ q[i].type # "START" /\ q[j].type = "START" => j < i

LEMMA ThinnedSorted ==
  ASSUME NEW F, NEW q \in Seq(F), NEW r \in Seq(F), Thins(q, r), Sorted(r)
  PROVE  Sorted(q)
  <1>1. ASSUME NEW i \in DOMAIN q, NEW j \in DOMAIN q, i < j
        PROVE  q[i].sid <= q[j].sid
    BY <1>1 DEF Thins, SameHeader, Sorted
  <1>2. ASSUME NEW i \in DOMAIN q, NEW j \in DOMAIN q, ~(j < i),
               q[i].sid = q[j].sid, q[i].type # "START", q[j].type = "START"
        PROVE  FALSE
    <2>1. i # j
      BY <1>2
    <2>2. i < j
      BY <1>2, <2>1
    <2>3. PICK k \in DOMAIN r, l \in DOMAIN r :
            k < l /\ SameHeader(q[i], r[k]) /\ SameHeader(q[j], r[l])
      BY <2>2 DEF Thins
    <2>4. l < k
      BY <1>2, <2>3 DEF SameHeader, Sorted
    <2> QED
      BY <2>3, <2>4
  <1> QED
    BY <1>1, <1>2 DEF Sorted

(* Steps that only take frames out of the queue, end the session, or leave *)
(* the receiver alone.                                                     *)
LEMMA ThinningSessions ==
  ASSUME BasicInv, BasicInv', SessionsInv, Thins(toReceiver', toReceiver),
         UNCHANGED <<current, delivered>>,
         StartPhase' => StartPhase,
         active' => UNCHANGED <<active, session, recvBase, ooo>>
  PROVE  SessionsInv'
  <1> USE DEF SessionsInv, OrderInv, StartInv
  <1>1. toReceiver \in Seq(Frame) /\ toReceiver' \in Seq(Frame)
    BY DEF BasicInv, TypeOK, LinkTypeOK
  <1>2. Sorted(toReceiver')
    BY <1>1, ThinnedSorted DEF Sorted
  <1>3. \A i \in DOMAIN toReceiver' :
          \E k \in DOMAIN toReceiver : SameHeader(toReceiver'[i], toReceiver[k])
    BY DEF Thins
  <1>4. OrderInv'
    BY <1>2, <1>3 DEF SameHeader, Sorted
  <1>5. StartInv'
    <2>1. active' /\ Progress' => ~StartInLink(session)'
      BY ThinnedStarts DEF Progress
    <2>2. \A d \in DOMAIN delivered' : ~StartInLink(delivered[d].sid)'
      BY ThinnedStarts
    <2>3. StartPhase' =>
            /\ \A i \in DOMAIN toReceiver' :
                 toReceiver'[i].sid = current' => toReceiver'[i].type = "START"
            /\ SessionOpen' => ~Progress'
            /\ ~HandedOver(current)'
      BY <1>3 DEF SameHeader, SessionOpen, Progress, HandedOver
    <2> QED
      BY <1>2, <2>1, <2>2, <2>3 DEF Sorted, StartInLink, HandedOver
  <1> QED
    BY <1>4, <1>5

LEMMA NumberTypes ==
  ASSUME BasicInv
  PROVE  /\ current \in Nat /\ Sid \subseteq Nat \ {0}
         /\ toReceiver \in Seq(Frame) /\ toReceiver \in Seq(GoodFrame)
         /\ DOMAIN toReceiver \subseteq Nat
         /\ \A i \in DOMAIN toReceiver : toReceiver[i].sid \in Nat
         /\ DOMAIN delivered \subseteq Nat
         /\ \A d \in DOMAIN delivered : delivered[d].sid \in Nat
         /\ active => session \in Nat \ {0}
  <1>1. /\ toReceiver \in Seq(Frame) /\ toReceiver \in Seq(GoodFrame)
        /\ delivered \in Seq(Delivery) /\ current \in Sid \cup {0}
        /\ active => session \in Sid
    BY DEF BasicInv, TypeOK, LinkTypeOK, FramesGood, SenderTypeOK, ReceiverTypeOK
  <1>2. Sid \subseteq Nat \ {0}
    BY PacketsType
  <1>3. /\ \A f \in Frame : f.sid \in Sid
        /\ \A d \in Delivery : d.sid \in Sid
    BY DEF Frame, Delivery
  <1>4. /\ DOMAIN toReceiver \subseteq Nat
        /\ \A i \in DOMAIN toReceiver : toReceiver[i] \in Frame
    BY <1>1
  <1>5. /\ DOMAIN delivered \subseteq Nat
        /\ \A d \in DOMAIN delivered : delivered[d] \in Delivery
    BY <1>1
  <1>6. current \in Nat
    BY <1>1, <1>2
  <1> QED
    BY <1>1, <1>2, <1>3, <1>4, <1>5, <1>6

(* A new transfer: nothing of it exists yet.                               *)
LEMMA BeginSessions ==
  ASSUME BasicInv, SessionsInv, Begin, UNCHANGED receiverVars
  PROVE  SessionsInv'
  <1> USE DEF Begin, receiverVars, sessionVars
  <1>1. current \in Nat /\ current' = current + 1 /\ UNCHANGED toReceiver
    BY DEF BasicInv, TypeOK, SenderTypeOK, Sid
  <1>2. /\ \A i \in DOMAIN toReceiver : /\ toReceiver[i].sid \in Nat
                                       /\ toReceiver[i].sid <= current
        /\ active => session \in Nat /\ session <= current
        /\ \A d \in DOMAIN delivered : /\ delivered[d].sid \in Nat
                                      /\ delivered[d].sid <= current
    BY NumberTypes DEF SessionsInv, OrderInv
  <1>3. OrderInv'
    BY <1>1, <1>2 DEF SessionsInv, OrderInv
  <1>4. /\ \A i \in DOMAIN toReceiver' : toReceiver'[i].sid # current'
        /\ ~SessionOpen'
        /\ ~HandedOver(current)'
    BY <1>1, <1>2 DEF SessionOpen, HandedOver
  <1>5. StartInv'
    BY <1>4 DEF SessionsInv, StartInv, StartInLink, Progress
  <1> QED
    BY <1>3, <1>5 DEF SessionsInv

(* What a send appends: frames of the current transfer.                    *)
Sends(frames) ==
  /\ frames \in Seq(GoodFrame)
  /\ toReceiver' = Queue(toReceiver, frames)
  /\ \A i \in DOMAIN frames : frames[i].sid = current

LEMMA SentElements ==
  ASSUME BasicInv, NEW frames, Sends(frames)
  PROVE  /\ \A i \in DOMAIN toReceiver : /\ i \in DOMAIN toReceiver'
                                        /\ toReceiver'[i] = toReceiver[i]
         /\ \A i \in DOMAIN toReceiver' :
              \/ i \in DOMAIN toReceiver /\ toReceiver'[i] = toReceiver[i]
              \/ /\ \A k \in DOMAIN toReceiver : k < i
                 /\ toReceiver'[i].sid = current
                 /\ \E k \in DOMAIN frames : toReceiver'[i] = frames[k]
  <1> DEFINE new == Queue(toReceiver, frames)
  <1>1. toReceiver \in Seq(Frame) /\ Len(toReceiver) <= LINK_CAP
    BY DEF BasicInv, TypeOK, LinkTypeOK
  <1>2. /\ frames \in Seq(Frame) /\ toReceiver' = new
        /\ \A i \in DOMAIN frames : frames[i].sid = current
    BY GoodFramesAreFrames DEF Sends
  <1>3. /\ new \in Seq(Frame)
        /\ Len(new) \in Len(toReceiver)..(Len(toReceiver) + Len(frames))
        /\ \A i \in 1..Len(new) :
             new[i] = IF i <= Len(toReceiver) THEN toReceiver[i]
                      ELSE frames[i - Len(toReceiver)]
    BY <1>1, <1>2, QueueElements
  <1> HIDE DEF new
  <1>4. /\ DOMAIN toReceiver = 1..Len(toReceiver) /\ Len(toReceiver) \in Nat
        /\ DOMAIN new = 1..Len(new) /\ DOMAIN frames = 1..Len(frames)
        /\ Len(frames) \in Nat
    BY <1>1, <1>2, <1>3
  <1>5. ASSUME NEW i \in DOMAIN toReceiver
        PROVE  i \in DOMAIN new /\ new[i] = toReceiver[i]
    <2>1. i \in 1..Len(new) /\ i <= Len(toReceiver)
      BY <1>3, <1>4
    <2> QED
      BY <2>1, <1>3, <1>4
  <1>6. ASSUME NEW i \in DOMAIN new, i \notin DOMAIN toReceiver
        PROVE  /\ \A k \in DOMAIN toReceiver : k < i
               /\ \E k \in DOMAIN frames : new[i] = frames[k]
    <2>1. i \in 1..Len(new) /\ i > Len(toReceiver)
      BY <1>4, <1>6
    <2>2. /\ new[i] = frames[i - Len(toReceiver)]
          /\ i - Len(toReceiver) \in 1..Len(frames)
      BY <2>1, <1>3, <1>4
    <2> QED
      BY <2>1, <2>2, <1>4
  <1> QED
    BY <1>2, <1>5, <1>6

LEMMA SendingSessions ==
  ASSUME BasicInv, SessionsInv, stage # "idle",
         NEW frames, Sends(frames),
         \A i \in DOMAIN frames : frames[i].type = "START" <=> StartPhase,
         UNCHANGED <<current, delivered, active, session, recvBase, ooo>>,
         StartPhase' <=> StartPhase
  PROVE  SessionsInv'
  <1> USE DEF SessionsInv, OrderInv, StartInv
  <1>1. \A i \in DOMAIN toReceiver' :
          \/ i \in DOMAIN toReceiver /\ toReceiver'[i] = toReceiver[i]
          \/ /\ \A k \in DOMAIN toReceiver : k < i
             /\ toReceiver'[i].sid = current
             /\ (toReceiver'[i].type = "START") <=> StartPhase
    BY SentElements
  <1>2. /\ toReceiver \in Seq(Frame) /\ DOMAIN toReceiver \subseteq Nat
        /\ DOMAIN toReceiver' \subseteq Nat /\ current \in Nat
    <2>1. frames \in Seq(Frame) /\ toReceiver' = Queue(toReceiver, frames)
      BY GoodFramesAreFrames DEF Sends
    <2>2. toReceiver' \in Seq(Frame)
      BY <2>1, NumberTypes, QueueElements DEF BasicInv, TypeOK, LinkTypeOK
    <2> QED
      BY <2>2, NumberTypes
  <1>3. OrderInv'
    <2>1. \A i \in DOMAIN toReceiver' : toReceiver'[i].sid <= current
      BY <1>1, <1>2
    <2>2. ASSUME NEW i \in DOMAIN toReceiver', NEW j \in DOMAIN toReceiver', i < j
          PROVE  toReceiver'[i].sid <= toReceiver'[j].sid
      BY <1>1, <1>2, <2>1, <2>2
    <2>3. active => \A i \in DOMAIN toReceiver' : session <= toReceiver'[i].sid
      BY <1>1
    <2>4. \A d \in DOMAIN delivered, i \in DOMAIN toReceiver' :
            delivered[d].sid <= toReceiver'[i].sid
      BY <1>1
    <2> QED
      BY <2>1, <2>2, <2>3, <2>4
  <1>4. ASSUME NEW s, StartInLink(s)'
        PROVE  StartInLink(s) \/ (StartPhase /\ s = current)
    <2>1. PICK i \in DOMAIN toReceiver' :
            toReceiver'[i].type = "START" /\ toReceiver'[i].sid = s
      BY <1>4 DEF StartInLink
    <2>2. CASE i \in DOMAIN toReceiver /\ toReceiver'[i] = toReceiver[i]
      BY ONLY <2>1, <2>2 DEF StartInLink
    <2>3. CASE /\ toReceiver'[i].sid = current
               /\ (toReceiver'[i].type = "START") <=> StartPhase
      BY ONLY <2>1, <2>3
    <2> QED
      BY ONLY <1>1, <2>1, <2>2, <2>3
  <1>5. StartInv'
    <2>1. ASSUME NEW i \in DOMAIN toReceiver', NEW j \in DOMAIN toReceiver',
                 toReceiver'[i].sid = toReceiver'[j].sid,
                 toReceiver'[i].type # "START", toReceiver'[j].type = "START"
          PROVE  j < i
      <3>1. CASE i \in DOMAIN toReceiver /\ j \in DOMAIN toReceiver
        BY <3>1, <2>1, <1>1, <1>2
      <3>2. CASE i \notin DOMAIN toReceiver /\ j \in DOMAIN toReceiver
        BY <3>2, <2>1, <1>1, <1>2
      <3>3. CASE j \notin DOMAIN toReceiver
        BY <3>3, <2>1, <1>1, <1>2
      <3> QED
        BY <3>1, <3>2, <3>3
    <2>2. active /\ Progress' => ~StartInLink(session)'
      BY <1>4 DEF Progress, SessionOpen
    <2>3. \A d \in DOMAIN delivered : ~StartInLink(delivered[d].sid)'
      BY <1>4 DEF HandedOver
    <2>4. StartPhase' =>
            /\ \A i \in DOMAIN toReceiver' :
                 toReceiver'[i].sid = current => toReceiver'[i].type = "START"
            /\ SessionOpen' => ~Progress'
            /\ ~HandedOver(current)'
      BY <1>1 DEF SessionOpen, Progress, HandedOver
    <2> QED
      BY <2>1, <2>2, <2>3, <2>4 DEF StartInLink, HandedOver
  <1> QED
    BY <1>3, <1>5

(* What handling a frame amounts to: a session is opened, goes on, or is   *)
(* over and handed to RecvMode.                                            *)
Opens(f) ==
  /\ f.type = "START"
  /\ active' /\ session' = f.sid
  /\ recvBase' = 1 /\ DOMAIN ooo' = {}
  /\ UNCHANGED delivered

Advances(f) ==
  /\ f.type # "START"
  /\ active /\ f.sid = session
  /\ active' /\ UNCHANGED <<session, totalPackets, delivered>>
  /\ recvBase' >= recvBase
  /\ \A seq \in Nat : Holds(seq) => Holds(seq)'
  /\ f.type = "DATA" => Holds(f.seq)'

Closes(f) ==
  /\ f.type # "START"
  /\ active /\ f.sid = session
  /\ ~active'
  /\ \/ UNCHANGED delivered
     \/ \E data : delivered' = Append(delivered, [sid |-> session, data |-> data])

GoesOn(base) ==
  /\ active' /\ UNCHANGED <<session, totalPackets, delivered>>
  /\ recvBase' = base

IsOver ==
  /\ ~active'
  /\ \/ UNCHANGED delivered
     \/ \E data : delivered' = Append(delivered, [sid |-> session, data |-> data])

LEMMA EndCheckEffect ==
  ASSUME NEW base, NEW data, NEW ended, EndCheck(base, data, ended), active
  PROVE  GoesOn(base) \/ IsOver
  <1>1. CASE SessionOver(base, ended)
    BY <1>1 DEF EndCheck, FreshCall, IsOver
  <1>2. CASE ~ SessionOver(base, ended)
    BY <1>2 DEF EndCheck, GoesOn
  <1> QED
    BY <1>1, <1>2

LEMMA HandleEffect ==
  ASSUME BasicInv, NEW f \in GoodFrame, Handle(f)
  PROVE  Opens(f) \/ Advances(f) \/ Closes(f)
  <1>1. /\ recvBase \in Nat /\ f.seq \in Nat /\ DOMAIN ooo \subseteq Nat
        /\ f.type \in FrameType
    BY DEF BasicInv, TypeOK, ReceiverTypeOK, GoodFrame, Frame
  <1>2. CASE HandleStart(f)
    <2>1. DOMAIN KeptOnStart = {}
      BY DEF KeptOnStart
    <2> QED
      BY <1>2, <2>1 DEF HandleStart, Opens
  <1>3. CASE HandleInOrder(f)
    <2>1. /\ f.type = "DATA" /\ active /\ f.sid = session /\ f.seq = recvBase
      BY <1>3 DEF HandleInOrder, OfSession
    <2>2. PICK next \in (recvBase + 1)..(recvBase + WINDOW) :
            /\ next \notin DOMAIN ooo
            /\ ooo' = [seq \in DOMAIN ooo \ (recvBase..next) |-> ooo[seq]]
            /\ \E data : EndCheck(next, data, endReceived)
      BY <1>3 DEF HandleInOrder
    <2>3. DOMAIN ooo' = DOMAIN ooo \ (recvBase..next)
      BY <2>2
    <2>4. next \in Nat /\ next > recvBase
      BY <1>1
    <2>5. ASSUME recvBase' = next
          PROVE  /\ \A seq \in Nat : Holds(seq) => Holds(seq)'
                 /\ Holds(f.seq)'
      BY <1>1, <2>1, <2>2, <2>3, <2>4, <2>5 DEF Holds
    <2>6. GoesOn(next) \/ IsOver
      BY <2>1, <2>2, EndCheckEffect
    <2>7. CASE GoesOn(next)
      BY <1>1, <2>1, <2>4, <2>5, <2>7 DEF GoesOn, Advances
    <2>8. CASE IsOver
      BY <2>1, <2>8 DEF IsOver, Closes
    <2> QED
      BY <2>6, <2>7, <2>8
  <1>4. CASE HandleAhead(f)
    <2>1. /\ f.type = "DATA" /\ active /\ f.sid = session
          /\ DOMAIN ooo' = DOMAIN ooo \cup {f.seq}
          /\ EndCheck(recvBase, reassembled, endReceived)
      BY <1>4 DEF HandleAhead, OfSession
    <2>2. ASSUME recvBase' = recvBase
          PROVE  /\ \A seq \in Nat : Holds(seq) => Holds(seq)'
                 /\ Holds(f.seq)'
      BY <2>1, <2>2 DEF Holds
    <2>3. GoesOn(recvBase) \/ IsOver
      BY <2>1, EndCheckEffect
    <2>4. CASE GoesOn(recvBase)
      BY <1>1, <2>1, <2>2, <2>4 DEF GoesOn, Advances
    <2>5. CASE IsOver
      BY <2>1, <2>5 DEF IsOver, Closes
    <2> QED
      BY <2>3, <2>4, <2>5
  <1>5. CASE HandleOld(f) \/ HandleEnd(f)
    <2>1. /\ f.type # "START" /\ active /\ f.sid = session
          /\ ooo' = ooo
          /\ \E ended : EndCheck(recvBase, reassembled, ended)
          /\ f.type = "DATA" => f.seq < recvBase
      BY <1>5 DEF HandleOld, HandleEnd, EndMatches, OfSession
    <2>2. ASSUME recvBase' = recvBase
          PROVE  /\ \A seq \in Nat : Holds(seq) => Holds(seq)'
                 /\ f.type = "DATA" => Holds(f.seq)'
      BY <2>1, <2>2 DEF Holds
    <2>3. GoesOn(recvBase) \/ IsOver
      BY <2>1, EndCheckEffect
    <2>4. CASE GoesOn(recvBase)
      BY <1>1, <2>1, <2>2, <2>4 DEF GoesOn, Advances
    <2>5. CASE IsOver
      BY <2>1, <2>5 DEF IsOver, Closes
    <2> QED
      BY <2>3, <2>4, <2>5
  <1> QED
    BY <1>2, <1>3, <1>4, <1>5 DEF Handle

(* The frame at the head of the queue and those behind it.                 *)
LEMMA BehindHead ==
  ASSUME BasicInv, SessionsInv, toReceiver # <<>>,
         toReceiver' = Tail(toReceiver), NEW f, f = Head(toReceiver)
  PROVE  /\ f \in GoodFrame
         /\ 1 \in DOMAIN toReceiver /\ toReceiver[1] = f
         /\ Thins(toReceiver', toReceiver)
         /\ \A i \in DOMAIN toReceiver' : f.sid <= toReceiver'[i].sid
         /\ f.type # "START" => ~StartInLink(f.sid) /\ ~StartInLink(f.sid)'
  <1>1. toReceiver \in Seq(GoodFrame)
    BY NumberTypes
  <1>2. /\ f \in GoodFrame
        /\ 1 \in DOMAIN toReceiver /\ toReceiver[1] = f
        /\ \A i \in DOMAIN toReceiver' : /\ i + 1 \in DOMAIN toReceiver
                                        /\ 1 < i + 1
                                        /\ toReceiver'[i] = toReceiver[i + 1]
    BY <1>1, TailElements
  <1>3. Thins(toReceiver', toReceiver)
    BY <1>1, TailThins
  <1>4. \A i \in DOMAIN toReceiver' : f.sid <= toReceiver'[i].sid
    BY <1>2 DEF SessionsInv, OrderInv
  <1>5. ASSUME f.type # "START" PROVE ~StartInLink(f.sid)
    <2> SUFFICES ASSUME NEW i \in DOMAIN toReceiver,
                        toReceiver[i].type = "START", toReceiver[i].sid = f.sid
                 PROVE  FALSE
      BY DEF StartInLink
    <2>1. i < 1
      BY <1>2, <1>5 DEF SessionsInv, StartInv
    <2>2. i \in 1..Len(toReceiver)
      BY <1>1
    <2> QED
      BY <2>1, <2>2
  <1> QED
    BY <1>2, <1>3, <1>4, <1>5, ThinnedStarts

LEMMA AppendedDelivery ==
  ASSUME BasicInv, active, NEW data,
         delivered' = Append(delivered, [sid |-> session, data |-> data])
  PROVE  /\ \A d \in DOMAIN delivered : /\ d \in DOMAIN delivered'
                                       /\ delivered'[d] = delivered[d]
         /\ \A d \in DOMAIN delivered' :
              \/ d \in DOMAIN delivered /\ delivered'[d] = delivered[d]
              \/ /\ \A e \in DOMAIN delivered' : e <= d
                 /\ delivered'[d].sid = session
         /\ \E d \in DOMAIN delivered' : delivered'[d].sid = session
         /\ DOMAIN delivered \subseteq Nat /\ DOMAIN delivered' \subseteq Nat
  <1>1. delivered \in Seq(Delivery)
    BY DEF BasicInv, TypeOK, ReceiverTypeOK
  <1>2. /\ DOMAIN delivered = 1..Len(delivered) /\ Len(delivered) \in Nat
        /\ DOMAIN delivered' = 1..(Len(delivered) + 1)
        /\ \A d \in 1..Len(delivered) : delivered'[d] = delivered[d]
        /\ delivered'[Len(delivered) + 1].sid = session
    BY <1>1
  <1>3. Len(delivered) + 1 \in DOMAIN delivered'
    BY <1>2
  <1>4. \A d \in DOMAIN delivered' : d \in DOMAIN delivered \/ d = Len(delivered) + 1
    BY <1>2
  <1>5. /\ \A e \in DOMAIN delivered' : e <= Len(delivered) + 1
        /\ \A e \in DOMAIN delivered : e \in DOMAIN delivered'
    BY <1>2
  <1>6. DOMAIN delivered \subseteq Nat /\ DOMAIN delivered' \subseteq Nat
    BY <1>2
  <1> QED
    BY ONLY <1>2, <1>3, <1>4, <1>5, <1>6

LEMMA StillSorted ==
  ASSUME BasicInv, BasicInv', SessionsInv, Thins(toReceiver', toReceiver)
  PROVE  Sorted(toReceiver')
  <1>1. toReceiver \in Seq(Frame) /\ toReceiver' \in Seq(Frame)
    BY DEF BasicInv, TypeOK, LinkTypeOK
  <1>2. Sorted(toReceiver)
    BY DEF SessionsInv, OrderInv, StartInv, Sorted
  <1> QED
    BY <1>1, <1>2, ThinnedSorted

(* The receiver's handling of a frame, with a new session, with one that   *)
(* goes on, and with one that is over.                                     *)
LEMMA OpeningSessions ==
  ASSUME BasicInv, BasicInv', SessionsInv, toReceiver # <<>>,
         toReceiver' = Tail(toReceiver), UNCHANGED <<stage, current>>,
         NEW f, f = Head(toReceiver), Opens(f)
  PROVE  SessionsInv'
  <1>1. /\ f \in GoodFrame
        /\ 1 \in DOMAIN toReceiver /\ toReceiver[1] = f
        /\ Thins(toReceiver', toReceiver)
        /\ \A i \in DOMAIN toReceiver' : f.sid <= toReceiver'[i].sid
    BY BehindHead
  <1>2. Sorted(toReceiver')
    BY <1>1, StillSorted
  <1>3. \A i \in DOMAIN toReceiver' :
          \E k \in DOMAIN toReceiver : SameHeader(toReceiver'[i], toReceiver[k])
    BY <1>1 DEF Thins
  <1>4. /\ f.sid <= current /\ StartInLink(f.sid)
        /\ \A d \in DOMAIN delivered : delivered[d].sid <= f.sid
    BY <1>1 DEF SessionsInv, OrderInv, Opens, StartInLink
  <1>5. \A d \in DOMAIN delivered : delivered[d].sid # f.sid
    BY <1>4 DEF SessionsInv, StartInv
  <1>6. \A d \in DOMAIN delivered : delivered[d].sid < f.sid
    <2>1. f.sid \in Nat /\ \A d \in DOMAIN delivered : delivered[d].sid \in Nat
      BY <1>1, NumberTypes
    <2> QED
      BY <1>4, <1>5, <2>1
  <1>7. OrderInv'
    <2>1. \A i \in DOMAIN toReceiver' :
            /\ toReceiver'[i].sid <= current
            /\ \A d \in DOMAIN delivered : delivered[d].sid <= toReceiver'[i].sid
      BY <1>3 DEF SameHeader, SessionsInv, OrderInv
    <2>2. \A d, e \in DOMAIN delivered : d < e => delivered[d].sid < delivered[e].sid
      BY DEF SessionsInv, OrderInv
    <2> QED
      BY <1>1, <1>2, <1>4, <1>6, <2>1, <2>2 DEF Opens, OrderInv, Sorted, SessionsInv
  <1>8. StartInv'
    <2>1. ~Progress'
      BY DEF Opens, Progress
    <2>2. \A d \in DOMAIN delivered' : ~StartInLink(delivered[d].sid)'
      BY <1>1, ThinnedStarts DEF Opens, SessionsInv, StartInv
    <2>3. StartPhase' =>
            /\ \A i \in DOMAIN toReceiver' :
                 toReceiver'[i].sid = current' => toReceiver'[i].type = "START"
            /\ ~HandedOver(current)'
      <3>1. StartPhase' <=> StartPhase
        BY DEF StartPhase
      <3>2. current' = current /\ delivered' = delivered
        BY DEF Opens
      <3>3. StartPhase =>
              /\ \A k \in DOMAIN toReceiver :
                   toReceiver[k].sid = current => toReceiver[k].type = "START"
              /\ ~HandedOver(current)
        BY DEF SessionsInv, StartInv
      <3>4. HandedOver(current)' <=> HandedOver(current)
        BY <3>2 DEF HandedOver
      <3>5. StartPhase => \A i \in DOMAIN toReceiver' :
              toReceiver'[i].sid = current => toReceiver'[i].type = "START"
        BY <1>3, <3>3 DEF SameHeader
      <3> QED
        BY <3>1, <3>2, <3>3, <3>4, <3>5
    <2> QED
      BY <1>2, <2>1, <2>2, <2>3 DEF Sorted, StartInv, StartInLink, HandedOver
  <1> QED
    BY <1>7, <1>8 DEF SessionsInv

(* The sender of a transfer in its handshake has sent nothing but START.   *)
LEMMA NoStartPhase ==
  ASSUME BasicInv, SessionsInv, toReceiver # <<>>,
         toReceiver' = Tail(toReceiver),
         NEW f, f = Head(toReceiver), f.type # "START", f.sid = current
  PROVE  ~StartPhase
  BY BehindHead DEF SessionsInv, StartInv

LEMMA AdvancingSessions ==
  ASSUME BasicInv, BasicInv', SessionsInv, toReceiver # <<>>,
         toReceiver' = Tail(toReceiver), UNCHANGED <<stage, current>>,
         NEW f, f = Head(toReceiver), Advances(f)
  PROVE  SessionsInv'
  <1>1. /\ Thins(toReceiver', toReceiver)
        /\ ~StartInLink(session) /\ ~StartInLink(session)'
    BY BehindHead DEF Advances
  <1>2. Sorted(toReceiver')
    BY <1>1, StillSorted
  <1>3. \A i \in DOMAIN toReceiver' :
          \E k \in DOMAIN toReceiver : SameHeader(toReceiver'[i], toReceiver[k])
    BY <1>1 DEF Thins
  <1>4. OrderInv'
    BY <1>2, <1>3 DEF SameHeader, Advances, SessionsInv, OrderInv, Sorted
  <1>5. StartInv'
    <2>1. \A d \in DOMAIN delivered' : ~StartInLink(delivered[d].sid)'
      BY <1>1, ThinnedStarts DEF Advances, SessionsInv, StartInv
    <2>2. StartPhase' =>
            /\ \A i \in DOMAIN toReceiver' :
                 toReceiver'[i].sid = current' => toReceiver'[i].type = "START"
            /\ ~SessionOpen'
            /\ ~HandedOver(current)'
      BY <1>3, NoStartPhase
      DEF SameHeader, StartPhase, HandedOver, Advances, SessionOpen, SessionsInv,
          StartInv
    <2>3. active' => ~StartInLink(session)'
      BY <1>1 DEF Advances, StartInLink
    <2> QED
      BY <1>2, <2>1, <2>2, <2>3 DEF Sorted, StartInv, StartInLink, HandedOver
  <1> QED
    BY <1>4, <1>5 DEF SessionsInv

LEMMA ClosingSessions ==
  ASSUME BasicInv, BasicInv', SessionsInv, toReceiver # <<>>,
         toReceiver' = Tail(toReceiver), UNCHANGED <<stage, current>>,
         NEW f, f = Head(toReceiver), Closes(f)
  PROVE  SessionsInv'
  <1>1. /\ Thins(toReceiver', toReceiver)
        /\ active /\ f.sid = session /\ ~active'
        /\ ~StartInLink(session) /\ ~StartInLink(f.sid)'
        /\ 1 \in DOMAIN toReceiver /\ toReceiver[1] = f
        /\ \A i \in DOMAIN toReceiver' : session <= toReceiver'[i].sid
    BY BehindHead DEF Closes
  <1>2. CASE UNCHANGED delivered
    BY <1>1, <1>2, ThinningSessions DEF StartPhase
  <1>3. CASE ~ UNCHANGED delivered
    <2>1. PICK data : delivered' = Append(delivered, [sid |-> session, data |-> data])
      BY <1>3 DEF Closes
    <2>2. \A d \in DOMAIN delivered' :
            \/ d \in DOMAIN delivered /\ delivered'[d] = delivered[d]
            \/ /\ \A e \in DOMAIN delivered' : e <= d
               /\ delivered'[d].sid = session
      BY <1>1, <2>1, AppendedDelivery
    <2>3. Sorted(toReceiver')
      BY <1>1, StillSorted
    <2>4. \A i \in DOMAIN toReceiver' :
            \E k \in DOMAIN toReceiver : SameHeader(toReceiver'[i], toReceiver[k])
      BY <1>1 DEF Thins
    <2>5. /\ session <= current
          /\ \A d \in DOMAIN delivered : delivered[d].sid < session
      BY <1>1 DEF SessionsInv, OrderInv
    <2>6. OrderInv'
      <3>1. \A i \in DOMAIN toReceiver' :
              /\ toReceiver'[i].sid <= current
              /\ \A d \in DOMAIN delivered : delivered[d].sid <= toReceiver'[i].sid
        BY <2>4 DEF SameHeader, SessionsInv, OrderInv
      <3>2. \A d \in DOMAIN delivered' :
              /\ delivered'[d].sid <= current
              /\ \A i \in DOMAIN toReceiver' : delivered'[d].sid <= toReceiver'[i].sid
        BY <1>1, <2>2, <2>5, <3>1 DEF SessionsInv, OrderInv
      <3>3. ASSUME NEW d \in DOMAIN delivered', NEW e \in DOMAIN delivered', d < e
            PROVE  delivered'[d].sid < delivered'[e].sid
        <4>1. DOMAIN delivered \subseteq Nat /\ DOMAIN delivered' \subseteq Nat
          BY <1>1, <2>1, AppendedDelivery
        <4>2. d \in DOMAIN delivered
          <5>1. ~(e <= d) /\ e \in DOMAIN delivered'
            BY <3>3, <4>1
          <5> QED
            BY <2>2, <5>1
        <4> QED
          BY <2>2, <2>5, <3>3, <4>1, <4>2 DEF SessionsInv, OrderInv
      <3>4. \A d, e \in DOMAIN delivered' : d < e => delivered'[d].sid < delivered'[e].sid
        BY <3>3
      <3>5. \A i, j \in DOMAIN toReceiver' : i < j => toReceiver'[i].sid <= toReceiver'[j].sid
        BY <2>3 DEF Sorted
      <3> QED
        BY <1>1, <3>1, <3>2, <3>4, <3>5 DEF OrderInv
    <2>7. StartInv'
      <3>1. \A d \in DOMAIN delivered' : ~StartInLink(delivered[d].sid)'
        BY <1>1, <2>2, ThinnedStarts DEF SessionsInv, StartInv, StartInLink
      <3>2. StartPhase' =>
              /\ \A i \in DOMAIN toReceiver' :
                   toReceiver'[i].sid = current' => toReceiver'[i].type = "START"
              /\ ~HandedOver(current)'
        <4>1. StartPhase' => session # current
          BY <1>1, NoStartPhase DEF Closes, StartPhase
        <4> QED
          BY <2>2, <2>4, <4>1
          DEF SameHeader, StartPhase, HandedOver, SessionsInv, StartInv
      <3> QED
        BY <1>1, <2>3, <3>1, <3>2
        DEF Sorted, StartInv, StartInLink, HandedOver, SessionOpen
    <2> QED
      BY <2>6, <2>7 DEF SessionsInv
  <1> QED
    BY <1>2, <1>3

(* The sender's steps: a new transfer, a START, packets of the window, END *)
(* once every packet is slid over, or nothing on the link.                 *)
SendsStart ==
  /\ stage = "start" /\ stage' = "start_wait"
  /\ UNCHANGED <<current, nextSeq, sendBase, acked, toSender, outcome>>
  /\ \E f : /\ Sends(<<f>>)
           /\ f.type = "START" /\ f.seq = 0

SendsData ==
  /\ stage \in {"fill", "wait"} /\ DataPhase
  /\ stage' \in {"inspect", "read_cwnd", "end"}
  /\ UNCHANGED <<current, toSender, outcome>>
  /\ \E frames :
       /\ Sends(frames)
       /\ \A i \in DOMAIN frames : /\ frames[i].type = "DATA"
                                  /\ frames[i].seq < nextSeq'

SendsEnd ==
  /\ stage = "end" /\ stage' = "end_wait"
  /\ UNCHANGED <<current, nextSeq, sendBase, acked, toSender, outcome>>
  /\ \E f : /\ Sends(<<f>>)
           /\ f.type = "END" /\ f.seq = total_packets + 1

SendsNothing ==
  /\ UNCHANGED <<current, toReceiver>>
  /\ StartPhase' => StartPhase
  /\ stage # "idle"

LEMMA FramesOfOrder ==
  ASSUME BasicInv, current \in Sid, NEW S \in SUBSET (1..total_packets),
         NEW order \in Ascending(S),
         toReceiver' = Queue(toReceiver, DataFrames(order))
  PROVE  /\ Sends(DataFrames(order))
         /\ \A i \in DOMAIN DataFrames(order) :
              /\ DataFrames(order)[i].type = "DATA"
              /\ DataFrames(order)[i].seq \in S
  <1>1. DataFrames(order) \in Seq(GoodFrame)
    BY DataFramesGood
  <1>2. order \in [1..Cardinality(S) -> S]
    BY DEF Ascending
  <1>3. \A i \in DOMAIN DataFrames(order) :
          /\ DataFrames(order)[i].type = "DATA"
          /\ DataFrames(order)[i].sid = current
          /\ DataFrames(order)[i].seq \in S
    BY <1>2 DEF DataFrames, BuildFrame
  <1> QED
    BY <1>1, <1>3 DEF Sends

LEMMA OneFrameSent ==
  ASSUME NEW f \in GoodFrame, f.sid = current,
         toReceiver' = Queue(toReceiver, <<f>>)
  PROVE  Sends(<<f>>)
  <1>1. <<f>> \in Seq(GoodFrame) /\ \A i \in DOMAIN <<f>> : <<f>>[i] = f
    OBVIOUS
  <1> QED
    BY <1>1 DEF Sends

LEMMA SenderMoves ==
  ASSUME BasicInv, SenderStep
  PROVE  Begin \/ SendsStart \/ SendsData \/ SendsEnd \/ SendsNothing
  <1>1. stage # "idle" => current \in Sid
    BY DEF BasicInv, TypeOK, SenderTypeOK
  <1>2. CASE SendStart
    <2>1. /\ BuildFrame("START", current, 0) \in GoodFrame
          /\ BuildFrame("START", current, 0).sid = current
      BY <1>1, <1>2, FrameTypes DEF FrameType, BuildFrame, SendStart, HandshakeSend
    <2>2. Sends(<<BuildFrame("START", current, 0)>>)
      BY <1>2, <2>1, OneFrameSent DEF SendStart, HandshakeSend
    <2>3. \E f : Sends(<<f>>) /\ f.type = "START" /\ f.seq = 0
      BY <2>2 DEF BuildFrame
    <2> QED
      BY <1>2, <2>3 DEF SendStart, HandshakeSend, SendsStart
  <1>3. CASE SendEnd
    <2>1. Packets(current) \in Nat
      BY <1>1, <1>3, PacketsType DEF SendEnd, HandshakeSend
    <2>2. /\ BuildFrame("END", current, total_packets + 1) \in GoodFrame
          /\ BuildFrame("END", current, total_packets + 1).sid = current
      BY <1>1, <1>3, <2>1, FrameTypes
      DEF FrameType, BuildFrame, SendEnd, HandshakeSend, total_packets
    <2>3. Sends(<<BuildFrame("END", current, total_packets + 1)>>)
      BY <1>3, <2>2, OneFrameSent DEF SendEnd, HandshakeSend
    <2>4. \E f : Sends(<<f>>) /\ f.type = "END" /\ f.seq = total_packets + 1
      BY <2>3 DEF BuildFrame
    <2> QED
      BY <1>3, <2>4 DEF SendEnd, HandshakeSend, SendsEnd
  <1>4. CASE Fill
    <2> DEFINE fresh == { seq \in nextSeq..total_packets : seq < FillLimit }
    <2>1. /\ stage = "fill" /\ stage' = "inspect"
          /\ nextSeq' = nextSeq + Cardinality(fresh)
          /\ UNCHANGED <<current, toSender, outcome>>
      BY <1>4 DEF Fill
    <2>2. PICK order \in Ascending(fresh) :
            toReceiver' = Queue(toReceiver, DataFrames(order))
      BY <1>4 DEF Fill
    <2>3. /\ Cardinality(fresh) \in Nat
          /\ fresh = nextSeq..(nextSeq + Cardinality(fresh) - 1)
          /\ fresh \in SUBSET (1..total_packets)
      BY <2>1, FreshPackets
    <2> HIDE DEF fresh
    <2>4. \A seq \in fresh : seq < nextSeq'
      BY <2>1, <2>3 DEF BasicInv, TypeOK, SenderTypeOK
    <2>5. /\ Sends(DataFrames(order))
          /\ \A i \in DOMAIN DataFrames(order) :
               /\ DataFrames(order)[i].type = "DATA"
               /\ DataFrames(order)[i].seq \in fresh
      BY <1>1, <2>1, <2>2, <2>3, FramesOfOrder
    <2> QED
      BY <2>1, <2>4, <2>5 DEF SendsData, DataPhase
  <1>5. CASE \E expired \in SUBSET Unacked : Wake(expired)
    <2>1. PICK expired \in SUBSET Unacked : Wake(expired)
      BY <1>5
    <2>2. /\ stage = "wait" /\ Slide
          /\ UNCHANGED <<current, nextSeq, window, outcome, toSender>>
      BY <2>1 DEF Wake
    <2>3. /\ nextSeq \in Nat \ {0} /\ sendBase \in Nat \ {0}
          /\ nextSeq <= total_packets + 1 /\ total_packets \in Nat
      BY <1>1, <2>2, PacketsType
      DEF BasicInv, TypeOK, SenderTypeOK, SenderInv, total_packets
    <2>4. expired \in SUBSET (1..total_packets) /\ \A seq \in expired : seq < nextSeq
      BY <2>1, <2>3 DEF Unacked
    <2>5. stage' \in {"end", "read_cwnd"}
      BY <2>2 DEF Slide
    <2>6. CASE UNCHANGED toReceiver
      BY <2>2, <2>5, <2>6 DEF SendsNothing, StartPhase
    <2>7. CASE ~ UNCHANGED toReceiver
      <3>1. PICK order \in Ascending(expired) :
              toReceiver' = Queue(toReceiver, DataFrames(order))
        BY <2>1, <2>7 DEF Wake
      <3>2. /\ Sends(DataFrames(order))
            /\ \A i \in DOMAIN DataFrames(order) :
                 /\ DataFrames(order)[i].type = "DATA"
                 /\ DataFrames(order)[i].seq \in expired
        BY <1>1, <2>2, <2>4, <3>1, FramesOfOrder
      <3> QED
        BY <2>2, <2>4, <2>5, <3>2 DEF SendsData, DataPhase
    <2> QED
      BY <2>6, <2>7
  <1>6. CASE \/ StartTimeout \/ StartAcked \/ ReadCwnd \/ ReadRwnd \/ Wait
             \/ Probe \/ SlideAtOnce \/ ProbeOver \/ EndTimeout \/ EndAcked
             \/ Listener \/ Restart
    BY <1>6 DEF SendsNothing, StartPhase, StartTimeout, StartAcked, ReadCwnd,
         ReadRwnd, Wait, Probe, SlideAtOnce, ProbeOver, Slide, EndTimeout,
         EndAcked, Listener, ListenerAck, ListenerIgnore, Restart,
         HandshakeTimeout, Return, linkVars, senderVars
  <1> QED
    BY <1>2, <1>3, <1>4, <1>5, <1>6 DEF SenderStep, SenderThread

LEMMA SenderSessions ==
  ASSUME BasicInv, BasicInv', SessionsInv, SenderStep, UNCHANGED receiverVars
  PROVE  SessionsInv'
  <1>1. UNCHANGED <<delivered, active, session, recvBase, ooo>>
    BY DEF receiverVars, sessionVars
  <1>2. CASE Begin
    BY <1>2, BeginSessions
  <1>3. CASE SendsStart
    <2>1. PICK f : Sends(<<f>>) /\ f.type = "START"
      BY <1>3 DEF SendsStart
    <2>2. \A i \in DOMAIN <<f>> : <<f>>[i] = f
      OBVIOUS
    <2>3. StartPhase /\ StartPhase'
      BY <1>3 DEF SendsStart, StartPhase
    <2> QED
      BY <1>1, <1>3, <2>1, <2>2, <2>3, SendingSessions DEF SendsStart
  <1>4. CASE SendsData \/ SendsEnd
    <2>1. PICK frames : /\ Sends(frames)
                        /\ \A i \in DOMAIN frames : frames[i].type # "START"
      <3>1. CASE SendsData
        BY <3>1 DEF SendsData
      <3>2. CASE SendsEnd
        <4>1. PICK f : Sends(<<f>>) /\ f.type = "END"
          BY <3>2 DEF SendsEnd
        <4>2. \A i \in DOMAIN <<f>> : <<f>>[i] = f
          OBVIOUS
        <4> QED
          BY <4>1, <4>2
      <3> QED
        BY <1>4, <3>1, <3>2
    <2>2. ~StartPhase /\ ~StartPhase' /\ stage # "idle" /\ UNCHANGED current
      BY <1>4 DEF SendsData, SendsEnd, StartPhase
    <2> QED
      BY <1>1, <2>1, <2>2, SendingSessions
  <1>5. CASE SendsNothing
    BY <1>1, <1>5, ThinsItself, ThinningSessions DEF SendsNothing
  <1> QED
    BY <1>2, <1>3, <1>4, <1>5, SenderMoves

LEMMA ReceiverSessions ==
  ASSUME BasicInv, BasicInv', SessionsInv, ReceiverStep, UNCHANGED senderVars
  PROVE  SessionsInv'
  <1>1. UNCHANGED <<stage, current>>
    BY DEF senderVars
  <1>2. CASE ReceiveFrame
    <2>1. /\ toReceiver # <<>> /\ toReceiver' = Tail(toReceiver)
          /\ Handle(Head(toReceiver))
      BY <1>2 DEF ReceiveFrame
    <2>2. Head(toReceiver) \in GoodFrame
      BY <2>1, BehindHead
    <2> QED
      BY <1>1, <2>1, <2>2, HandleEffect, OpeningSessions, AdvancingSessions,
         ClosingSessions
  <1>3. CASE IgnoreFrame
    <2>1. Thins(toReceiver', toReceiver)
      BY <1>3, NumberTypes, TailThins DEF IgnoreFrame
    <2> QED
      BY <1>1, <1>3, <2>1, ThinningSessions
      DEF IgnoreFrame, StartPhase, receiverVars, sessionVars
  <1>4. CASE IdleTimeout \/ ForwardDone
    BY <1>1, <1>4, ThinsItself, ThinningSessions
    DEF IdleTimeout, ForwardDone, FreshCall, StartPhase, sessionVars, linkVars
  <1> QED
    BY <1>2, <1>3, <1>4 DEF ReceiverStep

LEMMA SessionsStep ==
  ASSUME BasicInv, BasicInv', SessionsInv, [Next]_vars
  PROVE  SessionsInv'
  <1>1. CASE SenderStep /\ UNCHANGED receiverVars
    BY <1>1, SenderSessions
  <1>2. CASE ReceiverStep /\ UNCHANGED senderVars
    BY <1>2, ReceiverSessions
  <1>3. CASE LinkStep /\ UNCHANGED <<senderVars, receiverVars>>
    BY <1>3, LinkThins, ThinningSessions
    DEF senderVars, receiverVars, sessionVars, StartPhase
  <1>4. CASE UNCHANGED vars
    BY <1>4, ThinsItself, ThinningSessions
    DEF vars, linkVars, senderVars, receiverVars, sessionVars, StartPhase
  <1> QED
    BY <1>1, <1>2, <1>3, <1>4 DEF Next

(* Sessions reach the receiver and are handed over in order, and none that *)
(* has made progress has a START left in flight, however many frames are   *)
(* lost or damaged and whatever happens to the ACKs.                       *)
THEOREM SessionsCorrect == Spec => []SessionsInv
  <1>1. Init => SessionsInv
    BY DEF Init, LinkInit, SenderInit, ReceiverInit, SessionsInv, OrderInv,
           StartInv, StartPhase
  <1>2. BasicInv /\ BasicInv' /\ SessionsInv /\ [Next]_vars => SessionsInv'
    BY SessionsStep
  <1> QED
    BY <1>1, <1>2, BasicCorrect, PTL DEF Spec

(* A late START resets a session it opened itself, but never one that has  *)
(* reassembled a packet.                                                   *)
THEOREM ProgressKept == Spec => KeepsProgress
  <1>1. ASSUME BasicInv, SessionsInv, [Next]_vars, active, active', session' = session
        PROVE  recvBase' >= recvBase
    <2>1. recvBase \in Nat
      BY <1>1 DEF BasicInv, TypeOK, ReceiverTypeOK
    <2>2. CASE ReceiveFrame
      <3>1. /\ toReceiver # <<>> /\ toReceiver' = Tail(toReceiver)
            /\ Handle(Head(toReceiver))
        BY <2>2 DEF ReceiveFrame
      <3>2. PICK f : /\ f = Head(toReceiver) /\ f \in GoodFrame
                     /\ 1 \in DOMAIN toReceiver /\ toReceiver[1] = f
        BY <1>1, <3>1, BehindHead
      <3>3. CASE Opens(f)
        <4>1. StartInLink(session)
          BY <1>1, <3>2, <3>3 DEF Opens, StartInLink
        <4>2. ~Progress
          BY <1>1, <4>1 DEF SessionsInv, StartInv
        <4> QED
          BY <2>1, <3>3, <4>2 DEF Opens, Progress
      <3>4. CASE Advances(f)
        BY <3>4 DEF Advances
      <3>5. CASE Closes(f)
        BY <1>1, <3>5 DEF Closes
      <3> QED
        BY <1>1, <3>1, <3>2, <3>3, <3>4, <3>5, HandleEffect
    <2>3. CASE ~ReceiveFrame
      <3>1. recvBase' = recvBase \/ ~active'
        BY <1>1, <2>3
        DEF Next, ReceiverStep, IgnoreFrame, IdleTimeout, ForwardDone, FreshCall,
            vars, receiverVars, sessionVars
      <3> QED
        BY <1>1, <2>1, <3>1
    <2> QED
      BY <2>2, <2>3
  <1>2. BasicInv /\ SessionsInv /\ [Next]_vars
          => [active /\ active' /\ session' = session => recvBase' >= recvBase]_vars
    BY <1>1
  <1> QED
    BY <1>2, BasicCorrect, SessionsCorrect, PTL DEF Spec, KeepsProgress

-----------------------------------------------------------------------------
(* What an acknowledgement means.  EndInv and RoomInv by the variables     *)
(* their parts are about.                                                  *)
ReceiverEnd ==
  /\ active => ~endReceived
  /\ \A i \in DOMAIN toReceiver :
       toReceiver[i].type = "END" =>
         /\ ~StartInLink(toReceiver[i].sid)
         /\ Open(toReceiver[i].sid) => recvBase = totalPackets + 1

EndAckMeans ==
  \A i \in DOMAIN toSender :
    toSender[i].seq = Packets(toSender[i].sid) + 1 => HandedOver(toSender[i].sid)

EndedMeans ==
  /\ stage # "idle" /\ total_packets + 1 \in acked => HandedOver(current)
  /\ SuccessIsDelivery

LEMMA EndParts == EndInv <=> ReceiverEnd /\ EndAckMeans /\ EndedMeans
  BY DEF EndInv, ReceiverEnd, EndAckMeans, EndedMeans

LinkFits ==
  \A i \in DOMAIN toReceiver :
    toReceiver[i].type = "DATA" => FitsWindow(toReceiver[i].sid, toReceiver[i].seq)

SenderFits == stage # "idle" => FitsWindow(current, nextSeq - 1)

LEMMA RoomParts == RoomInv <=> LinkFits /\ SenderFits
  BY DEF RoomInv, LinkFits, SenderFits

(* END finds the session complete, and nothing else ends one.              *)
Delivers(f) ==
  /\ f.type = "END"
  /\ active /\ f.sid = session
  /\ ~active'
  /\ \E data : delivered' = Append(delivered, [sid |-> session, data |-> data])

LEMMA HandleComplete ==
  ASSUME BasicInv, Integrity, ReceiverEnd, toReceiver # <<>>,
         NEW f, f = Head(toReceiver), Handle(f)
  PROVE  \/ Opens(f) /\ ~endReceived'
         \/ Advances(f) /\ f.type = "DATA" /\ ~endReceived'
         \/ Delivers(f)
  <1>1. f \in GoodFrame /\ 1 \in DOMAIN toReceiver /\ toReceiver[1] = f
    BY NumberTypes, TailElements
  <1>2. f.type \in FrameType /\ recvBase \in Nat /\ totalPackets \in Nat
    BY <1>1 DEF GoodFrame, Frame, BasicInv, TypeOK, ReceiverTypeOK
  <1>3. Opens(f) \/ Advances(f) \/ Closes(f)
    BY <1>1, HandleEffect
  <1>4. CASE f.type = "START"
    <2>1. HandleStart(f)
      BY <1>4 DEF Handle, HandleInOrder, HandleAhead, HandleOld, HandleEnd
    <2> QED
      BY <1>3, <1>4, <2>1 DEF HandleStart, Advances, Closes
  <1>5. CASE f.type = "DATA"
    <2>1. /\ active /\ ~endReceived
          /\ \E base, data : EndCheck(base, data, endReceived)
      BY <1>5 DEF Handle, HandleStart, HandleInOrder, HandleAhead, HandleOld,
                  HandleEnd, OfSession, ReceiverEnd
    <2>2. active' /\ ~endReceived'
      BY <2>1 DEF EndCheck, SessionOver
    <2> QED
      BY <1>3, <1>5, <2>2 DEF Opens, Closes
  <1>6. CASE f.type = "END"
    <2>1. /\ active /\ f.sid = session
          /\ EndCheck(recvBase, reassembled, TRUE)
      BY <1>6 DEF Handle, HandleStart, HandleInOrder, HandleAhead, HandleOld,
                  HandleEnd, EndMatches, OfSession
    <2>2. recvBase = totalPackets + 1
      BY <1>1, <1>6, <2>1 DEF ReceiverEnd, Open
    <2>3. Len(reassembled) = totalPackets
      <3>1. /\ reassembled = SubSeq(Transfers[session], 1, recvBase - 1)
            /\ totalPackets = Len(Transfers[session])
        BY <2>1 DEF Integrity, Packets
      <3>2. recvBase - 1 = Len(Transfers[session])
        BY <1>2, <2>2, <3>1
      <3>3. Transfers[session] \in Seq(Chunk)
        BY <2>1, PacketsType DEF BasicInv, TypeOK, ReceiverTypeOK
      <3> QED
        BY <3>1, <3>2, <3>3, SubSeqFull
    <2>4. SessionOver(recvBase, TRUE)
      BY <2>2 DEF SessionOver
    <2>5. /\ ~active'
          /\ delivered' = Append(delivered, [sid |-> session, data |-> reassembled])
      BY <2>1, <2>3, <2>4 DEF EndCheck, FreshCall
    <2> QED
      BY <1>6, <2>1, <2>5 DEF Delivers
  <1> QED
    BY <1>2, <1>4, <1>5, <1>6 DEF FrameType

(* Every frame that is handled is acknowledged by its own number.          *)
LEMMA HandleAcks ==
  ASSUME BasicInv, NEW f \in GoodFrame, Handle(f)
  PROVE  \A i \in DOMAIN toSender' :
           \/ i \in DOMAIN toSender /\ toSender'[i] = toSender[i]
           \/ toSender'[i].sid = f.sid /\ toSender'[i].seq = f.seq
  <1>1. /\ f.sid \in Sid /\ f.seq \in Nat
        /\ toSender \in Seq(AckFrame) /\ Len(toSender) <= LINK_CAP
    BY DEF GoodFrame, Frame, BasicInv, TypeOK, LinkTypeOK
  <1>2. Cardinality(DOMAIN ooo) \in Nat /\ Cardinality(DOMAIN KeptOnStart) \in Nat
    <2>1. DOMAIN KeptOnStart = {}
      BY DEF KeptOnStart
    <2>2. Cardinality(DOMAIN KeptOnStart) \in Nat
      BY <2>1, FS_EmptySet
    <2> QED
      BY <2>2, FS_CardinalityType DEF BasicInv, TypeOK, ReceiverTypeOK
  <1>3. PICK used \in Nat : SendAck(f.sid, f.seq, used)
    BY <1>2 DEF Handle, HandleStart, HandleInOrder, HandleAhead, HandleOld,
                HandleEnd, EndMatches, OfSession
  <1> DEFINE ack == [sid |-> f.sid, seq |-> f.seq, window |-> Advertised(used)]
  <1>4. ack \in AckFrame /\ ack.sid = f.sid /\ ack.seq = f.seq
    <2>1. Advertised(used) \in Nat
      BY ONLY ReceiverAssumption, used \in Nat DEF Advertised
    <2> QED
      BY <1>1, <2>1 DEF AckFrame
  <1>5. toSender' = Queue(toSender, <<ack>>)
    BY <1>3 DEF SendAck
  <1> HIDE DEF ack
  <1>6. <<ack>> \in Seq(AckFrame) /\ Len(<<ack>>) = 1 /\ <<ack>>[1] = ack
    BY <1>4
  <1>7. /\ toSender' \in Seq(AckFrame)
        /\ Len(toSender') \in Len(toSender)..(Len(toSender) + 1)
        /\ \A i \in 1..Len(toSender') :
             toSender'[i] = IF i <= Len(toSender) THEN toSender[i]
                            ELSE <<ack>>[i - Len(toSender)]
    BY <1>1, <1>5, <1>6, QueueElements
  <1>8. ASSUME NEW i \in DOMAIN toSender', i \notin DOMAIN toSender
        PROVE  toSender'[i] = ack
    <2>1. i \in 1..Len(toSender') /\ Len(toSender) \in Nat /\ ~(i <= Len(toSender))
      BY <1>1, <1>7, <1>8
    <2>2. i - Len(toSender) = 1
      BY <1>7, <2>1
    <2> QED
      BY <1>6, <1>7, <2>1, <2>2
  <1>9. ASSUME NEW i \in DOMAIN toSender', i \in DOMAIN toSender
        PROVE  toSender'[i] = toSender[i]
    <2>1. i \in 1..Len(toSender') /\ i <= Len(toSender)
      BY <1>1, <1>7, <1>9
    <2> QED
      BY <1>7, <2>1
  <1> QED
    BY <1>4, <1>8, <1>9

-----------------------------------------------------------------------------
(* What the sender may take for granted stays so.                          *)
GotKept == \A seq \in 1..total_packets : Got(seq) => Got(seq)'

FitsKept == \A s, seq \in Nat : FitsWindow(s, seq) => FitsWindow(s, seq)'

HandedKept == \A s : HandedOver(s) => HandedOver(s)'

LEMMA FitsThinned ==
  ASSUME BasicInv, FitsKept, LinkFits, Thins(toReceiver', toReceiver)
  PROVE  LinkFits'
  <1> SUFFICES ASSUME NEW i \in DOMAIN toReceiver', toReceiver'[i].type = "DATA"
               PROVE  FitsWindow(toReceiver[i].sid, toReceiver[i].seq)'
    BY DEF LinkFits
  <1>1. PICK k \in DOMAIN toReceiver : SameHeader(toReceiver'[i], toReceiver[k])
    BY DEF Thins
  <1>2. FitsWindow(toReceiver[k].sid, toReceiver[k].seq)
    BY <1>1 DEF SameHeader, LinkFits
  <1>3. toReceiver[k].sid \in Nat /\ toReceiver[k].seq \in Nat
    <2>1. \A f \in Frame : f.seq \in Nat
      BY DEF Frame
    <2>2. toReceiver[k] \in Frame
      BY NumberTypes
    <2> QED
      BY <2>1, <2>2, NumberTypes
  <1>4. FitsWindow(toReceiver[k].sid, toReceiver[k].seq)
          => FitsWindow(toReceiver[i].sid, toReceiver[i].seq)'
    BY <1>1, <1>3 DEF FitsKept, SameHeader, FitsWindow, Open, StartInLink
  <1> QED
    BY <1>2, <1>4

LEMMA EndsThinned ==
  ASSUME ReceiverEnd, Thins(toReceiver', toReceiver), active' => ~endReceived',
         \A s : Open(s)' /\ ~StartInLink(s) /\ (Open(s) => recvBase = totalPackets + 1)
                 => recvBase' = totalPackets' + 1
  PROVE  ReceiverEnd'
  <1>1. ASSUME NEW i \in DOMAIN toReceiver', toReceiver'[i].type = "END"
        PROVE  /\ ~StartInLink(toReceiver[i].sid)'
               /\ Open(toReceiver[i].sid)' => (recvBase = totalPackets + 1)'
    <2>1. PICK k \in DOMAIN toReceiver : SameHeader(toReceiver'[i], toReceiver[k])
      BY DEF Thins
    <2>2. /\ ~StartInLink(toReceiver[k].sid)
          /\ Open(toReceiver[k].sid) => recvBase = totalPackets + 1
      BY <1>1, <2>1 DEF SameHeader, ReceiverEnd
    <2>3. toReceiver'[i].sid = toReceiver[k].sid
      BY <2>1 DEF SameHeader
    <2>4. ~StartInLink(toReceiver[i].sid)'
      BY <2>2, <2>3, ThinnedStarts DEF StartInLink, Thins, SameHeader
    <2>5. ASSUME Open(toReceiver[i].sid)' PROVE (recvBase = totalPackets + 1)'
      BY <2>2, <2>3, <2>5 DEF Open
    <2> QED
      BY <2>4, <2>5
  <1> QED
    BY <1>1 DEF ReceiverEnd

LEMMA ThinningKeeps ==
  ASSUME BasicInv, ReceiverEnd, LinkFits,
         Thins(toReceiver', toReceiver), UNCHANGED delivered,
         active' => UNCHANGED <<active, session, recvBase, totalPackets,
                                endReceived, ooo>>,
         active /\ ~active' => toReceiver' = <<>>
  PROVE  /\ UNCHANGED current => GotKept
         /\ FitsKept /\ HandedKept /\ ReceiverEnd' /\ LinkFits'
  <1>1. \A s : StartInLink(s)' => StartInLink(s)
    BY ThinnedStarts
  <1>2. \A s : Open(s)' => Open(s)
    BY DEF Open
  <1>4. ASSUME UNCHANGED current PROVE GotKept
    <2> SUFFICES ASSUME NEW seq \in 1..total_packets, Got(seq) PROVE Got(seq)'
      BY DEF GotKept
    <2>1. CASE HandedOver(current)
      BY <1>4, <2>1 DEF Got, HandedOver
    <2>2. CASE SessionOpen /\ Holds(seq) /\ active'
      BY <1>4, <2>2 DEF Got, SessionOpen, Holds
    <2>3. CASE SessionOpen /\ ~active'
      <3>1. toReceiver' = <<>>
        BY <2>3 DEF SessionOpen
      <3>2. DOMAIN toReceiver' = {}
        BY <3>1
      <3> QED
        BY <2>3, <3>2 DEF Got, Lost, SessionOpen, StartInLink
    <2>4. CASE Lost
      BY <1>1, <1>4, <2>4 DEF Got, Lost, SessionOpen
    <2> QED
      BY <2>1, <2>2, <2>3, <2>4 DEF Got
  <1>5. FitsKept
    BY <1>1, <1>2 DEF FitsKept, FitsWindow, Open
  <1>6. ReceiverEnd'
    <2>1. active' => ~endReceived'
      BY DEF ReceiverEnd
    <2>2. \A s : Open(s)' => recvBase' = recvBase /\ totalPackets' = totalPackets
      BY DEF Open
    <2> QED
      BY <1>2, <2>1, <2>2, EndsThinned
  <1>7. LinkFits'
    BY <1>5, FitsThinned
  <1> QED
    BY <1>4, <1>5, <1>6, <1>7 DEF HandedKept, HandedOver

LEMMA OpeningKeeps ==
  ASSUME BasicInv, SessionsInv, ReceiverEnd, LinkFits, toReceiver # <<>>,
         toReceiver' = Tail(toReceiver), UNCHANGED current,
         NEW f, f = Head(toReceiver), Opens(f), ~endReceived'
  PROVE  GotKept /\ FitsKept /\ HandedKept /\ ReceiverEnd' /\ LinkFits'
  <1>1. /\ f \in GoodFrame /\ 1 \in DOMAIN toReceiver /\ toReceiver[1] = f
        /\ Thins(toReceiver', toReceiver)
    BY BehindHead
  <1>2. StartInLink(f.sid)
    BY <1>1 DEF Opens, StartInLink
  <1>3. \A s : StartInLink(s)' => StartInLink(s)
    BY <1>1, ThinnedStarts
  <1>4. \A s : Open(s)' => s = f.sid
    BY DEF Opens, Open
  <1>5. f.sid = current => ~HandedOver(current) /\ ~(SessionOpen /\ Progress)
    BY <1>2 DEF SessionsInv, StartInv, SessionOpen, HandedOver
  <1>6. f.sid # current => ~SessionOpen
    <2>1. active => session <= f.sid /\ f.sid <= current
      BY <1>1 DEF SessionsInv, OrderInv
    <2>2. f.sid \in Nat /\ current \in Nat
      BY <1>1, NumberTypes
    <2> QED
      BY <2>1, <2>2 DEF SessionOpen
  <1>7. GotKept
    <2> SUFFICES ASSUME NEW seq \in 1..total_packets, Got(seq) PROVE Got(seq)'
      BY DEF GotKept
    <2>1. CASE f.sid = current
      <3>1. ~Lost
        BY <1>2, <2>1 DEF Lost
      <3>2. Holds(seq) => Progress
        <4>1. recvBase \in Nat
          BY DEF BasicInv, TypeOK, ReceiverTypeOK
        <4> QED
          BY <4>1 DEF Holds, Progress
      <3> QED
        BY <1>5, <2>1, <3>1, <3>2 DEF Got
    <2>2. CASE f.sid # current
      <3>1. ~SessionOpen'
        BY <2>2 DEF SessionOpen, Opens
      <3>2. CASE HandedOver(current)
        BY <3>2 DEF Got, HandedOver, Opens
      <3>3. CASE Lost
        BY <1>3, <3>1, <3>3 DEF Got, Lost
      <3> QED
        BY <1>6, <2>2, <3>2, <3>3 DEF Got
    <2> QED
      BY <2>1, <2>2
  <1>8. FitsKept
    BY <1>2, <1>3, <1>4 DEF FitsKept, FitsWindow, Opens
  <1>9. ReceiverEnd'
    BY <1>1, <1>2, <1>4, EndsThinned
  <1>10. LinkFits'
    BY <1>1, <1>8, FitsThinned
  <1> QED
    BY <1>7, <1>8, <1>9, <1>10 DEF HandedKept, HandedOver, Opens

LEMMA AdvancingKeeps ==
  ASSUME BasicInv, BasicInv', Integrity', SessionsInv, ReceiverEnd, LinkFits,
         toReceiver # <<>>, toReceiver' = Tail(toReceiver), UNCHANGED current,
         NEW f, f = Head(toReceiver), Advances(f), ~endReceived'
  PROVE  GotKept /\ FitsKept /\ HandedKept /\ ReceiverEnd' /\ LinkFits'
  <1>1. Thins(toReceiver', toReceiver)
    BY BehindHead
  <1>2. \A s : StartInLink(s)' => StartInLink(s)
    BY <1>1, ThinnedStarts
  <1>3. /\ recvBase \in Nat /\ recvBase' \in Nat /\ recvBase' >= recvBase
        /\ totalPackets \in Nat /\ recvBase' <= totalPackets + 1
    BY DEF BasicInv, TypeOK, ReceiverTypeOK, Advances, Integrity
  <1>4. GotKept
    <2> SUFFICES ASSUME NEW seq \in 1..total_packets, Got(seq) PROVE Got(seq)'
      BY DEF GotKept
    <2>1. CASE HandedOver(current)
      BY <2>1 DEF Got, HandedOver, Advances
    <2>2. CASE SessionOpen /\ Holds(seq)
      <3>1. seq \in Nat
        OBVIOUS
      <3>2. Holds(seq)'
        BY <2>2, <3>1 DEF Advances
      <3> QED
        BY <2>2, <3>2 DEF Got, SessionOpen, Advances
    <2>3. CASE Lost
      BY <1>2, <2>3 DEF Got, Lost, SessionOpen, Advances
    <2> QED
      BY <2>1, <2>2, <2>3 DEF Got
  <1>5. FitsKept
    <2> SUFFICES ASSUME NEW s \in Nat, NEW seq \in Nat, FitsWindow(s, seq)
                 PROVE  FitsWindow(s, seq)'
      BY DEF FitsKept
    <2>1. Open(s)' => Open(s)
      BY DEF Open, Advances
    <2>2. seq < recvBase + WINDOW => seq < recvBase' + WINDOW
      <3>1. WINDOW \in Nat
        BY ReceiverAssumption
      <3>2. /\ recvBase \in Nat /\ recvBase' \in Nat /\ recvBase' >= recvBase
        BY <1>3
      <3>3. \A w, b, c, n \in Nat : n < b + w /\ c >= b => n < c + w
        OBVIOUS
      <3> QED
        BY <3>1, <3>2, <3>3
    <2> QED
      BY <1>2, <2>1, <2>2 DEF FitsWindow
  <1>6. ReceiverEnd'
    <2>1. \A s : Open(s)' => Open(s)
      BY DEF Open, Advances
    <2>2. totalPackets' = totalPackets
      BY DEF Advances
    <2>3. recvBase = totalPackets + 1 => recvBase' = totalPackets' + 1
      BY <1>3, <2>2
    <2> QED
      BY <1>1, <2>1, <2>3, EndsThinned
  <1>7. LinkFits'
    BY <1>1, <1>5, FitsThinned
  <1> QED
    BY <1>4, <1>5, <1>6, <1>7 DEF HandedKept, HandedOver, Advances

LEMMA DeliveringKeeps ==
  ASSUME BasicInv, SessionsInv, ReceiverEnd, LinkFits, toReceiver # <<>>,
         toReceiver' = Tail(toReceiver), UNCHANGED current,
         NEW f, f = Head(toReceiver), Delivers(f)
  PROVE  /\ GotKept /\ FitsKept /\ HandedKept /\ ReceiverEnd' /\ LinkFits'
         /\ HandedOver(f.sid)'
  <1>1. Thins(toReceiver', toReceiver)
    BY BehindHead
  <1>2. \A s : StartInLink(s)' => StartInLink(s)
    BY <1>1, ThinnedStarts
  <1>3. active /\ f.sid = session /\ ~active'
    BY DEF Delivers
  <1>4. PICK data : delivered' = Append(delivered, [sid |-> session, data |-> data])
    BY DEF Delivers
  <1>5. /\ \A d \in DOMAIN delivered : /\ d \in DOMAIN delivered'
                                      /\ delivered'[d] = delivered[d]
        /\ \E d \in DOMAIN delivered' : delivered'[d].sid = session
    BY <1>3, <1>4, AppendedDelivery
  <1>6. HandedKept
    BY <1>5 DEF HandedKept, HandedOver
  <1>7. HandedOver(f.sid)'
    BY <1>3, <1>5 DEF HandedOver
  <1>8. GotKept
    <2> SUFFICES ASSUME NEW seq \in 1..total_packets, Got(seq) PROVE Got(seq)'
      BY DEF GotKept
    <2>1. CASE HandedOver(current)
      BY <1>5, <2>1 DEF Got, HandedOver
    <2>2. CASE SessionOpen
      BY <1>5, <2>2 DEF Got, HandedOver, SessionOpen
    <2>3. CASE Lost
      BY <1>2, <1>3, <2>3 DEF Got, Lost, SessionOpen
    <2> QED
      BY <2>1, <2>2, <2>3 DEF Got
  <1>9. FitsKept
    BY <1>2, <1>3 DEF FitsKept, FitsWindow, Open
  <1>10. ReceiverEnd'
    BY <1>1, <1>3, EndsThinned DEF Open
  <1>11. LinkFits'
    BY <1>1, <1>9, FitsThinned
  <1> QED
    BY <1>6, <1>7, <1>8, <1>9, <1>10, <1>11

LEMMA SendingKeeps ==
  ASSUME BasicInv, UNCHANGED <<current, receiverVars>>,
         NEW frames, Sends(frames),
         \A i \in DOMAIN frames : frames[i].type # "START"
  PROVE  /\ GotKept /\ FitsKept /\ HandedKept
         /\ \A s : StartInLink(s)' => StartInLink(s)
  <1>1. \A i \in DOMAIN toReceiver' :
          \/ i \in DOMAIN toReceiver /\ toReceiver'[i] = toReceiver[i]
          \/ toReceiver'[i].type # "START"
    BY SentElements
  <1>2. ASSUME NEW s, StartInLink(s)' PROVE StartInLink(s)
    BY <1>1, <1>2 DEF StartInLink
  <1>3. GotKept
    <2>1. \A i \in DOMAIN toReceiver : /\ i \in DOMAIN toReceiver'
                                     /\ toReceiver'[i] = toReceiver[i]
      BY SentElements
    <2> SUFFICES ASSUME NEW seq \in 1..total_packets, Got(seq) PROVE Got(seq)'
      BY DEF GotKept
    <2>2. CASE HandedOver(current)
      BY <2>2 DEF Got, HandedOver, receiverVars
    <2>3. CASE SessionOpen /\ Holds(seq)
      BY <2>3 DEF Got, SessionOpen, Holds, receiverVars, sessionVars
    <2>4. CASE Lost
      BY <1>2, <2>4 DEF Got, Lost, SessionOpen, receiverVars, sessionVars
    <2> QED
      BY <2>2, <2>3, <2>4 DEF Got
  <1>4. FitsKept
    BY <1>2 DEF FitsKept, FitsWindow, Open, receiverVars, sessionVars
  <1> QED
    BY <1>2, <1>3, <1>4 DEF HandedKept, HandedOver, receiverVars

(* A packet the receiver has got is held while its session is open, and    *)
(* no START of the transfer is left.                                       *)
LEMMA GotIsHeld ==
  ASSUME BasicInv, SessionsInv, SessionOpen, NEW seq, Got(seq)
  PROVE  Holds(seq)
  <1>1. ~HandedOver(current)
    <2>1. \A d \in DOMAIN delivered : /\ delivered[d].sid < session
                                    /\ delivered[d].sid \in Nat
      BY NumberTypes DEF SessionsInv, OrderInv, SessionOpen
    <2> QED
      BY <2>1, NumberTypes DEF HandedOver, SessionOpen
  <1> QED
    BY <1>1 DEF Got, Lost

LEMMA GotEndsStart ==
  ASSUME BasicInv, SessionsInv, NEW seq \in Nat \ {0}, Got(seq)
  PROVE  ~StartInLink(current)
  <1>1. HandedOver(current) => ~StartInLink(current)
    BY DEF SessionsInv, StartInv, HandedOver
  <1>2. Holds(seq) => Progress
    <2>1. recvBase \in Nat
      BY DEF BasicInv, TypeOK, ReceiverTypeOK
    <2> QED
      BY <2>1 DEF Holds, Progress
  <1>3. SessionOpen /\ Progress => ~StartInLink(current)
    BY DEF SessionsInv, StartInv, SessionOpen
  <1> QED
    BY <1>1, <1>2, <1>3 DEF Got, Lost

(* Everything the sender has slid over is in the receiver's prefix.        *)
LEMMA BaseIsBehind ==
  ASSUME BasicInv, Integrity, SessionsInv, AckInv, SessionOpen, stage # "idle"
  PROVE  sendBase <= recvBase
  <1>1. /\ current \in Sid /\ total_packets \in Nat
        /\ sendBase \in Nat \ {0} /\ sendBase <= total_packets + 1
    <2>1. current \in Sid
      BY DEF BasicInv, TypeOK, SenderTypeOK
    <2>2. total_packets \in Nat
      BY <2>1, PacketsType DEF total_packets
    <2> QED
      BY <2>1, <2>2 DEF BasicInv, TypeOK, SenderTypeOK, SenderInv
  <1>2. /\ recvBase \in Nat \ {0}
        /\ \A seq \in DOMAIN ooo : seq > recvBase
    BY DEF Integrity, SessionOpen, BasicInv, TypeOK, ReceiverTypeOK
  <1>3. ASSUME recvBase < sendBase PROVE FALSE
    <2>1. recvBase \in 1..total_packets
      BY <1>1, <1>2, <1>3
    <2>2. Got(recvBase)
      BY <1>3, <2>1 DEF AckInv
    <2>3. Holds(recvBase)
      BY <2>2, GotIsHeld
    <2> QED
      BY <1>2, <2>3 DEF Holds
  <1> QED
    BY <1>1, <1>2, <1>3

LEMMA FillFits ==
  ASSUME BasicInv, Integrity, WindowsInv, SessionsInv, AckInv, SenderFits, Fill
  PROVE  FitsWindow(current, nextSeq' - 1)
  <1> DEFINE fresh == { seq \in nextSeq..total_packets : seq < FillLimit }
  <1>1. stage = "fill" /\ nextSeq' = nextSeq + Cardinality(fresh)
    BY DEF Fill
  <1>2. /\ Cardinality(fresh) \in Nat
        /\ fresh = nextSeq..(nextSeq + Cardinality(fresh) - 1)
    BY <1>1, FreshPackets
  <1>3. \A seq \in fresh : seq < sendBase + window
    BY DEF FillLimit
  <1> HIDE DEF fresh
  <1>4. /\ nextSeq \in Nat \ {0} /\ sendBase \in Nat \ {0} /\ recvBase \in Nat
        /\ window \in Nat /\ window <= WINDOW /\ WINDOW \in Nat
    BY <1>1, ReceiverAssumption
    DEF BasicInv, TypeOK, SenderTypeOK, ReceiverTypeOK, WindowsInv
  <1>5. CASE Cardinality(fresh) = 0
    <2>1. nextSeq' = nextSeq
      BY <1>1, <1>4, <1>5
    <2> QED
      BY <1>1, <2>1 DEF SenderFits
  <1>6. CASE Cardinality(fresh) # 0
    <2>1. nextSeq' - 1 \in nextSeq..(nextSeq + Cardinality(fresh) - 1)
      BY <1>1, <1>2, <1>4, <1>6
    <2>2. nextSeq' - 1 < sendBase + WINDOW
      <3>1. nextSeq' - 1 \in fresh
        BY <1>2, <2>1
      <3>2. nextSeq' - 1 < sendBase + window
        BY <1>3, <3>1
      <3> PICK last : last = nextSeq' - 1
        OBVIOUS
      <3>3. last \in Int /\ last < sendBase + window
        BY <1>2, <1>4, <2>1, <3>2
      <3>4. last < sendBase + WINDOW
        BY ONLY <1>4, <3>3
      <3> QED
        BY <3>4
    <2>3. Open(current) => nextSeq' - 1 < recvBase + WINDOW
      <3>1. Open(current) => sendBase <= recvBase
        BY <1>1, BaseIsBehind DEF Open, SessionOpen
      <3> QED
        BY <1>2, <1>4, <2>1, <2>2, <3>1
    <2>4. StartInLink(current) => nextSeq' - 1 < 1 + WINDOW
      <3> SUFFICES ASSUME StartInLink(current) PROVE nextSeq' - 1 < 1 + WINDOW
        OBVIOUS
      <3>1. ASSUME sendBase # 1 PROVE FALSE
        <4>1. 1 < sendBase /\ 1 \in 1..total_packets
          <5>1. /\ current \in Sid
            BY <1>1 DEF BasicInv, TypeOK, SenderTypeOK
          <5>2. Packets(current) \in Nat \ {0}
            BY <5>1, PacketsType
          <5> QED
            BY <1>4, <3>1, <5>2 DEF total_packets
        <4>2. Got(1)
          BY <1>1, <4>1 DEF AckInv
        <4> QED
          BY <4>2, GotEndsStart
      <3> QED
        BY <2>2, <3>1
    <2> QED
      BY <2>3, <2>4 DEF FitsWindow
  <1> QED
    BY <1>5, <1>6

-----------------------------------------------------------------------------
(* The sender's books, for the packet the loop at hand is about.           *)
AckCame(seq) ==
  \E k \in DOMAIN toSender : toSender[k].sid = current /\ toSender[k].seq = seq

Counted(seq) == seq < sendBase \/ seq \in acked

LEMMA AckParts ==
  ASSUME BasicInv
  PROVE  AckInv <=>
           (stage # "idle" =>
              /\ StartPhase => \A seq \in Nat : AckCame(seq) => seq = 0
              /\ \A seq \in 1..total_packets :
                   Counted(seq) \/ AckCame(seq) => Got(seq))
  <1>1. \A i \in DOMAIN toSender : toSender[i].seq \in Nat
    <2>1. toSender \in Seq(AckFrame)
      BY DEF BasicInv, TypeOK, LinkTypeOK
    <2>2. \A ack \in AckFrame : ack.seq \in Nat
      BY DEF AckFrame
    <2> QED
      BY <2>1, <2>2
  <1>2. (\A i \in DOMAIN toSender : toSender[i].sid = current => toSender[i].seq = 0)
          <=> (\A seq \in Nat : AckCame(seq) => seq = 0)
    BY <1>1 DEF AckCame
  <1>3. (\A i \in DOMAIN toSender :
           /\ toSender[i].sid = current
           /\ toSender[i].seq \in 1..total_packets
           => Got(toSender[i].seq))
          <=> (\A seq \in 1..total_packets : AckCame(seq) => Got(seq))
    BY DEF AckCame
  <1>4. (\A seq \in 1..total_packets : seq < sendBase \/ seq \in acked => Got(seq))
          <=> (\A seq \in 1..total_packets : Counted(seq) => Got(seq))
    BY DEF Counted
  <1> QED
    BY ONLY <1>2, <1>3, <1>4 DEF AckInv

(* While the handshake runs nothing is counted, so ACKs of START, the only *)
(* ones there are, bind nobody.                                            *)
LEMMA AckStep ==
  ASSUME BasicInv, BasicInv', AckInv, UNCHANGED current,
         stage' # "idle" => stage # "idle",
         StartPhase' => StartPhase,
         StartPhase' \/ GotKept,
         \A seq \in Nat : Counted(seq)' => Counted(seq) \/ AckCame(seq),
         \A seq \in Nat : AckCame(seq)' =>
            \/ AckCame(seq)
            \/ /\ StartPhase' => seq = 0
               /\ seq \in 1..total_packets => Got(seq)'
  PROVE  AckInv'
  <1> SUFFICES ASSUME stage' # "idle"
               PROVE  /\ StartPhase' => \A seq \in Nat : AckCame(seq)' => seq = 0
                      /\ \A seq \in 1..total_packets :
                           Counted(seq)' \/ AckCame(seq)' => Got(seq)'
    <2>1. \A i \in DOMAIN toSender' : toSender'[i].seq \in Nat
      <3>1. toSender' \in Seq(AckFrame)
        BY DEF BasicInv, TypeOK, LinkTypeOK
      <3>2. \A ack \in AckFrame : ack.seq \in Nat
        BY DEF AckFrame
      <3> QED
        BY <3>1, <3>2
    <2>2. total_packets' = total_packets
      BY DEF total_packets
    <2>3. (\A seq \in Nat : AckCame(seq)' => seq = 0)
            => \A i \in DOMAIN toSender' :
                 toSender'[i].sid = current' => toSender'[i].seq = 0
      BY <2>1 DEF AckCame
    <2>4. (\A seq \in 1..total_packets : AckCame(seq)' => Got(seq)')
            => \A i \in DOMAIN toSender' :
                 /\ toSender'[i].sid = current'
                 /\ toSender'[i].seq \in 1..total_packets
                 => Got(toSender[i].seq)'
      BY DEF AckCame
    <2>5. (\A seq \in 1..total_packets : Counted(seq)' => Got(seq)')
            => \A seq \in 1..total_packets :
                 seq < sendBase' \/ seq \in acked' => Got(seq)'
      BY DEF Counted
    <2> QED
      BY <2>2, <2>3, <2>4, <2>5 DEF AckInv
  <1>1. /\ stage # "idle"
        /\ StartPhase => \A seq \in Nat : AckCame(seq) => seq = 0
        /\ \A seq \in 1..total_packets : Counted(seq) \/ AckCame(seq) => Got(seq)
    BY AckParts
  <1>2. ASSUME StartPhase', NEW seq \in Nat, AckCame(seq)' PROVE seq = 0
    BY <1>1, <1>2
  <1>3. ASSUME NEW seq \in 1..total_packets, Counted(seq)' \/ AckCame(seq)'
        PROVE  Got(seq)'
    <2>1. seq \in Nat /\ seq # 0
      OBVIOUS
    <2>2. CASE StartPhase'
      <3>1. ~AckCame(seq)'
        BY <1>2, <2>1, <2>2
      <3>2. ~Counted(seq)'
        BY <2>1, <2>2 DEF Counted, BasicInv, TypeOK, SenderTypeOK, SenderInv
      <3> QED
        BY <1>3, <3>1, <3>2
    <2>3. CASE ~StartPhase'
      BY <1>1, <1>3, <2>1, <2>3 DEF GotKept
    <2> QED
      BY <2>2, <2>3
  <1> QED
    BY <1>2, <1>3

LEMMA SenderBooks ==
  ASSUME BasicInv, SenderStep, ~Begin
  PROVE  /\ stage # "idle" /\ UNCHANGED current
         /\ StartPhase' => StartPhase
         /\ \A i \in DOMAIN toSender' :
              \E k \in DOMAIN toSender : toSender'[i] = toSender[k]
         /\ \A seq \in Nat : Counted(seq)' => Counted(seq) \/ AckCame(seq)
         /\ total_packets + 1 \in acked' =>
              total_packets + 1 \in acked \/ AckCame(total_packets + 1)
         /\ \A s \in Sid : outcome'[s] = "success" =>
              \/ outcome[s] = "success"
              \/ s = current /\ total_packets + 1 \in acked
         /\ nextSeq' = nextSeq \/ Fill
  <1>1. /\ toSender \in Seq(AckFrame)
        /\ sendBase \in Nat \ {0}
        /\ outcome \in [Sid -> {"none", "success", "failure"}]
    BY DEF BasicInv, TypeOK, LinkTypeOK, SenderTypeOK
  <1>2. CASE Listener
    <2>1. /\ stage # "idle" /\ toSender # <<>> /\ toSender' = Tail(toSender)
          /\ UNCHANGED <<stage, current, sendBase, nextSeq, outcome>>
      BY <1>2 DEF Listener, ListenerAck, ListenerIgnore, senderVars
    <2>2. /\ \A i \in DOMAIN toSender' : /\ i + 1 \in DOMAIN toSender
                                        /\ toSender'[i] = toSender[i + 1]
          /\ 1 \in DOMAIN toSender /\ Head(toSender) = toSender[1]
      BY <1>1, <2>1, TailElements
    <2>3. \A seq : seq \in acked' => seq \in acked \/ AckCame(seq)
      <3>1. CASE ListenerIgnore
        BY <3>1 DEF ListenerIgnore, senderVars
      <3>2. CASE ListenerAck
        BY <2>2, <3>2 DEF ListenerAck, AckCounts, AckCame
      <3> QED
        BY <1>2, <3>1, <3>2 DEF Listener
    <2> QED
      BY <2>1, <2>2, <2>3 DEF Counted, StartPhase
  <1>3. CASE SlideAtOnce \/ ProbeOver \/ \E expired \in SUBSET Unacked : Wake(expired)
    <2>1. /\ stage \in {"inspect", "wait", "probe"} /\ Slide
          /\ UNCHANGED <<current, nextSeq, window, outcome, toSender>>
      BY <1>3 DEF SlideAtOnce, ProbeOver, Wake, linkVars
    <2>2. /\ stage' \in {"end", "read_cwnd"}
          /\ sendBase' \in sendBase..nextSeq
          /\ sendBase..(sendBase' - 1) \subseteq acked
          /\ acked' = acked \ (sendBase..(sendBase' - 1))
          /\ sendBase' \in Nat \ {0}
      BY <2>1, SlideSender
    <2>3. ASSUME NEW seq \in Nat, Counted(seq)' PROVE Counted(seq)
      <3>1. CASE seq \in acked'
        BY <2>2, <3>1 DEF Counted
      <3>2. CASE seq < sendBase'
        <4>1. \A b, c, n \in Nat : n < c => n < b \/ n \in b..(c - 1)
          OBVIOUS
        <4>2. seq < sendBase \/ seq \in sendBase..(sendBase' - 1)
          BY <1>1, <2>2, <3>2, <4>1
        <4> QED
          BY <2>2, <4>2 DEF Counted
      <3> QED
        BY <2>3, <3>1, <3>2 DEF Counted
    <2> QED
      BY <2>1, <2>2, <2>3 DEF StartPhase
  <1>4. CASE EndAcked \/ EndTimeout \/ StartTimeout \/ Restart
    <2>1. /\ stage # "idle"
          /\ UNCHANGED <<current, acked, sendBase, nextSeq, toSender>>
          /\ StartPhase' => StartPhase
      BY <1>4 DEF EndAcked, EndTimeout, StartTimeout, HandshakeTimeout, Restart,
                  Return, linkVars, StartPhase
    <2>2. \A s \in Sid : outcome'[s] = "success" =>
            \/ outcome[s] = "success"
            \/ s = current /\ total_packets + 1 \in acked
      BY <1>1, <1>4 DEF EndAcked, EndTimeout, StartTimeout, HandshakeTimeout,
                        Restart, Return
    <2> QED
      BY <2>1, <2>2 DEF Counted
  <1>5. CASE \/ SendStart \/ StartAcked \/ ReadCwnd \/ ReadRwnd \/ Fill
             \/ Wait \/ Probe \/ SendEnd
    BY <1>5 DEF SendStart, SendEnd, HandshakeSend, StartAcked, ReadCwnd, ReadRwnd,
         Fill, Wait, Probe, linkVars, Counted, StartPhase
  <1> QED
    BY <1>2, <1>3, <1>4, <1>5 DEF SenderStep, SenderThread

(* Without damaged ACKs the wire only takes some away.                     *)
LEMMA LinkAcks ==
  ASSUME BasicInv, ~AckErrors, LinkStep
  PROVE  \A i \in DOMAIN toSender' :
           \E k \in DOMAIN toSender : toSender'[i] = toSender[k]
  <1>1. toSender \in Seq(AckFrame)
    BY DEF BasicInv, TypeOK, LinkTypeOK
  <1>2. CASE LoseAck
    <2>1. PICK k \in DOMAIN toSender : toSender' = Without(toSender, k)
      BY <1>2 DEF LoseAck
    <2>2. /\ toSender' \in Seq(AckFrame)
          /\ Len(toSender') = Len(toSender) - 1
          /\ \A i \in 1..(k - 1) : toSender'[i] = toSender[i]
          /\ \A i \in k..(Len(toSender) - 1) : toSender'[i] = toSender[i + 1]
      BY <1>1, <2>1, WithoutElements
    <2>3. /\ DOMAIN toSender = 1..Len(toSender) /\ Len(toSender) \in Nat
          /\ DOMAIN toSender' = 1..(Len(toSender) - 1)
      BY <1>1, <2>2
    <2>4. k \in 1..Len(toSender)
      BY <2>3
    <2> SUFFICES ASSUME NEW i \in 1..(Len(toSender) - 1)
                 PROVE  \E j \in DOMAIN toSender : toSender'[i] = toSender[j]
      BY <2>3
    <2>5. CASE i < k
      <3>1. i \in 1..(k - 1) /\ i \in DOMAIN toSender
        BY <2>3, <2>4, <2>5
      <3> QED
        BY <2>2, <3>1
    <2>6. CASE ~(i < k)
      <3>1. i \in k..(Len(toSender) - 1) /\ i + 1 \in DOMAIN toSender
        BY <2>3, <2>4, <2>6
      <3> QED
        BY <2>2, <3>1
    <2> QED
      BY <2>5, <2>6
  <1>3. CASE LoseFrame \/ CorruptFrame \/ Stabilise
    BY <1>3 DEF LoseFrame, CorruptFrame, Stabilise
  <1> QED
    BY <1>2, <1>3 DEF LinkStep, CorruptAck

LEMMA AcksStillMean ==
  ASSUME EndAckMeans, HandedKept,
         \A i \in DOMAIN toSender' :
            \/ \E k \in DOMAIN toSender : toSender'[i] = toSender[k]
            \/ toSender'[i].seq # Packets(toSender'[i].sid) + 1
            \/ HandedOver(toSender[i].sid)'
  PROVE  EndAckMeans'
  <1> SUFFICES ASSUME NEW i \in DOMAIN toSender',
                      toSender'[i].seq = Packets(toSender'[i].sid) + 1
               PROVE  HandedOver(toSender[i].sid)'
    BY DEF EndAckMeans, Packets
  <1>1. CASE \E k \in DOMAIN toSender : toSender'[i] = toSender[k]
    <2>1. PICK k \in DOMAIN toSender : toSender'[i] = toSender[k]
      BY <1>1
    <2>2. HandedOver(toSender[k].sid)
      BY <2>1 DEF EndAckMeans
    <2>3. HandedOver(toSender[k].sid) => HandedOver(toSender[i].sid)'
      BY <2>1 DEF HandedKept, HandedOver
    <2> QED
      BY <2>2, <2>3
  <1> QED
    BY <1>1

LEMMA EndedStillMeans ==
  ASSUME BasicInv, EndAckMeans, EndedMeans, HandedKept, UNCHANGED current,
         stage' # "idle" => stage # "idle",
         total_packets + 1 \in acked' =>
           total_packets + 1 \in acked \/ AckCame(total_packets + 1),
         \A s \in Sid : outcome'[s] = "success" =>
           \/ outcome[s] = "success"
           \/ stage # "idle" /\ s = current /\ total_packets + 1 \in acked
  PROVE  EndedMeans'
  <1>1. total_packets' = total_packets
    BY DEF total_packets
  <1>2. AckCame(total_packets + 1) => HandedOver(current)
    BY DEF AckCame, EndAckMeans, total_packets
  <1>3. HandedOver(current) => HandedOver(current)'
    BY DEF HandedKept, HandedOver
  <1>4. stage' # "idle" /\ total_packets' + 1 \in acked' => HandedOver(current)'
    BY <1>1, <1>2, <1>3 DEF EndedMeans
  <1>5. SuccessIsDelivery'
    <2> SUFFICES ASSUME NEW s \in Sid, outcome'[s] = "success"
                 PROVE  HandedOver(s)'
      BY DEF SuccessIsDelivery, HandedOver
    <2>1. outcome[s] = "success" => HandedOver(s)
      BY DEF EndedMeans, SuccessIsDelivery, HandedOver
    <2>2. HandedOver(s) => HandedOver(s)'
      BY DEF HandedKept
    <2> QED
      BY <1>3, <2>1, <2>2 DEF EndedMeans, HandedOver
  <1> QED
    BY <1>4, <1>5 DEF EndedMeans

-----------------------------------------------------------------------------
(* The steps of the sender.                                                *)
LEMMA StartFits ==
  ASSUME BasicInv', StartPhase'
  PROVE  SenderFits'
  <1>1. nextSeq' = 1
    BY DEF BasicInv, SenderInv
  <1>2. recvBase' \in Nat
    BY DEF BasicInv, TypeOK, ReceiverTypeOK
  <1>3. WINDOW \in Nat \ {0}
    BY ReceiverAssumption
  <1>4. \A b \in Nat, w \in Nat \ {0} : 1 - 1 < b + w /\ 1 - 1 < 1 + w
    OBVIOUS
  <1>5. nextSeq' - 1 < recvBase' + WINDOW /\ nextSeq' - 1 < 1 + WINDOW
    BY <1>1, <1>2, <1>3, <1>4
  <1> QED
    BY <1>5 DEF SenderFits, FitsWindow

LEMMA BeginProtocol ==
  ASSUME BasicInv, BasicInv', ReceiverEnd, LinkFits, EndedMeans, Begin,
         UNCHANGED receiverVars
  PROVE  AckInv' /\ EndInv' /\ RoomInv'
  <1>1. /\ UNCHANGED <<toReceiver, outcome, active, session, recvBase,
                       totalPackets, endReceived, ooo, delivered>>
        /\ stage' = "start" /\ toSender' = <<>> /\ acked' = {}
        /\ sendBase' = 1
    BY DEF Begin, receiverVars, sessionVars
  <1>2. AckInv'
    <2>1. DOMAIN toSender' = {}
      BY <1>1
    <2>2. \A seq \in 1..total_packets' : ~(seq < sendBase') /\ seq \notin acked'
      BY <1>1
    <2> QED
      BY <2>1, <2>2 DEF AckInv
  <1>3. EndInv'
    <2>1. ReceiverEnd'
      BY <1>1 DEF ReceiverEnd, StartInLink, Open
    <2>2. EndAckMeans' /\ EndedMeans'
      BY <1>1 DEF EndAckMeans, EndedMeans, SuccessIsDelivery
    <2> QED
      BY <2>1, <2>2 DEF EndInv, ReceiverEnd, EndAckMeans, EndedMeans
  <1>4. RoomInv'
    <2>1. LinkFits'
      BY <1>1 DEF LinkFits, FitsWindow, StartInLink, Open
    <2>2. SenderFits'
      BY <1>1, StartFits DEF StartPhase
    <2> QED
      BY <2>1, <2>2 DEF RoomInv, LinkFits, SenderFits
  <1> QED
    BY <1>2, <1>3, <1>4

(* What a step of the sender other than Begin does to the link.            *)
LEMMA StartKeeps ==
  ASSUME BasicInv, BasicInv', SessionsInv, ReceiverEnd, LinkFits, SendsStart,
         UNCHANGED receiverVars
  PROVE  HandedKept /\ ReceiverEnd' /\ LinkFits' /\ SenderFits' /\ StartPhase'
  <1>1. PICK f : Sends(<<f>>) /\ f.type = "START"
    BY DEF SendsStart
  <1>2. \A i \in DOMAIN toReceiver' :
          \/ i \in DOMAIN toReceiver /\ toReceiver'[i] = toReceiver[i]
          \/ toReceiver'[i].type = "START" /\ toReceiver'[i].sid = current
    <2>1. \A k \in DOMAIN <<f>> : <<f>>[k] = f
      OBVIOUS
    <2> QED
      BY <1>1, <2>1, SentElements
  <1>3. \A i \in DOMAIN toReceiver :
          toReceiver[i].sid = current => toReceiver[i].type = "START"
    BY DEF SendsStart, StartPhase, SessionsInv, StartInv
  <1>4. UNCHANGED <<active, session, recvBase, totalPackets, endReceived, delivered>>
    BY DEF receiverVars, sessionVars
  <1>5. ASSUME NEW s, s # current, StartInLink(s)' PROVE StartInLink(s)
    BY <1>2, <1>5 DEF StartInLink
  <1>6. ReceiverEnd'
    <2> SUFFICES ASSUME NEW i \in DOMAIN toReceiver', toReceiver'[i].type = "END"
                 PROVE  /\ ~StartInLink(toReceiver[i].sid)'
                        /\ Open(toReceiver[i].sid)' => recvBase' = totalPackets' + 1
      BY <1>4 DEF ReceiverEnd
    <2>1. i \in DOMAIN toReceiver /\ toReceiver'[i] = toReceiver[i]
      BY <1>2
    <2>2. toReceiver[i].sid # current
      BY <1>3, <2>1
    <2>3. /\ ~StartInLink(toReceiver[i].sid)
          /\ Open(toReceiver[i].sid) => recvBase = totalPackets + 1
      BY <2>1 DEF ReceiverEnd
    <2>4. ~StartInLink(toReceiver[i].sid)'
      <3>1. PICK sid : sid = toReceiver[i].sid
        OBVIOUS
      <3>2. sid # current /\ ~StartInLink(sid)
        BY <2>2, <2>3, <3>1
      <3>3. ~StartInLink(sid)'
        BY <1>5, <3>2
      <3> QED
        BY <2>1, <3>1, <3>3 DEF StartInLink
    <2> QED
      BY <1>4, <2>1, <2>3, <2>4 DEF Open
  <1>7. LinkFits'
    <2> SUFFICES ASSUME NEW i \in DOMAIN toReceiver', toReceiver'[i].type = "DATA"
                 PROVE  FitsWindow(toReceiver[i].sid, toReceiver[i].seq)'
      BY DEF LinkFits
    <2>1. i \in DOMAIN toReceiver /\ toReceiver'[i] = toReceiver[i]
      BY <1>2
    <2>2. FitsWindow(toReceiver[i].sid, toReceiver[i].seq)
      BY <2>1 DEF LinkFits
    <2>3. toReceiver[i].sid # current
      BY <1>3, <2>1
    <2>4. StartInLink(toReceiver[i].sid)' => StartInLink(toReceiver[i].sid)
      BY <1>5, <2>1, <2>3 DEF StartInLink
    <2> QED
      BY <1>4, <2>1, <2>2, <2>4 DEF FitsWindow, Open
  <1>8. StartPhase'
    BY DEF SendsStart, StartPhase
  <1> QED
    BY <1>4, <1>6, <1>7, <1>8, StartFits DEF HandedKept, HandedOver

LEMMA FitsStep ==
  ASSUME BasicInv, BasicInv', Integrity, WindowsInv, SessionsInv, AckInv,
         SenderFits, FitsKept, SenderStep, ~Begin
  PROVE  SenderFits'
  <1>1. stage # "idle" /\ UNCHANGED current /\ (nextSeq' = nextSeq \/ Fill)
    BY SenderBooks
  <1>2. FitsWindow(current, nextSeq' - 1)
    BY <1>1, FillFits DEF SenderFits
  <1>3. current \in Nat
    BY NumberTypes
  <1>4. nextSeq' - 1 \in Nat
    <2>1. nextSeq' \in Nat \ {0}
      BY DEF BasicInv, TypeOK, SenderTypeOK
    <2>2. \A n \in Nat \ {0} : n - 1 \in Nat
      OBVIOUS
    <2> QED
      BY <2>1, <2>2
  <1>5. ASSUME NEW seq \in Nat, FitsWindow(current, seq) PROVE FitsWindow(current, seq)'
    BY <1>1, <1>3, <1>5 DEF FitsKept, FitsWindow, Open, StartInLink
  <1>6. FitsWindow(current, nextSeq' - 1)
          => /\ Open(current)' => nextSeq' - 1 < recvBase' + WINDOW
             /\ StartInLink(current)' => nextSeq' - 1 < 1 + WINDOW
    BY <1>4, <1>5 DEF FitsWindow
  <1> QED
    BY <1>2, <1>6 DEF SenderFits, FitsWindow

LEMMA DataKeeps ==
  ASSUME BasicInv, BasicInv', Integrity, WindowsInv, SessionsInv, AckInv,
         ReceiverEnd, LinkFits, SenderFits, SenderStep, SendsData,
         UNCHANGED receiverVars
  PROVE  GotKept /\ HandedKept /\ ReceiverEnd' /\ LinkFits' /\ SenderFits'
  <1>1. PICK frames :
          /\ Sends(frames)
          /\ \A i \in DOMAIN frames : /\ frames[i].type = "DATA"
                                     /\ frames[i].seq < nextSeq'
    BY DEF SendsData
  <1>2. /\ UNCHANGED <<current, active, session, recvBase, totalPackets,
                       endReceived, delivered>>
        /\ stage' # "idle"
    BY DEF SendsData, receiverVars, sessionVars
  <1>3. \A i \in DOMAIN toReceiver' :
          \/ i \in DOMAIN toReceiver /\ toReceiver'[i] = toReceiver[i]
          \/ /\ toReceiver'[i].type = "DATA" /\ toReceiver'[i].sid = current
             /\ toReceiver'[i].seq < nextSeq'
    BY <1>1, SentElements
  <1>4. /\ GotKept /\ FitsKept /\ HandedKept
        /\ \A s : StartInLink(s)' => StartInLink(s)
    BY <1>1, <1>2, SendingKeeps
  <1>5. ReceiverEnd'
    BY <1>2, <1>3, <1>4 DEF ReceiverEnd, Open, StartInLink
  <1>6. SenderFits'
    BY <1>4, FitsStep DEF SendsData, Begin
  <1>7. LinkFits'
    <2> SUFFICES ASSUME NEW i \in DOMAIN toReceiver', toReceiver'[i].type = "DATA"
                 PROVE  FitsWindow(toReceiver[i].sid, toReceiver[i].seq)'
      BY DEF LinkFits
    <2>1. /\ nextSeq' \in Nat \ {0} /\ recvBase' \in Nat /\ WINDOW \in Nat
          /\ toReceiver'[i].seq \in Nat
      <3>1. toReceiver' \in Seq(Frame)
        BY DEF BasicInv, TypeOK, LinkTypeOK
      <3>2. \A f \in Frame : f.seq \in Nat
        BY DEF Frame
      <3>3. nextSeq' \in Nat \ {0} /\ recvBase' \in Nat
        BY DEF BasicInv, TypeOK, SenderTypeOK, ReceiverTypeOK
      <3>4. WINDOW \in Nat
        BY ReceiverAssumption
      <3> QED
        BY <3>1, <3>2, <3>3, <3>4
    <2>2. CASE i \in DOMAIN toReceiver /\ toReceiver'[i] = toReceiver[i]
      <3>1. FitsWindow(toReceiver[i].sid, toReceiver[i].seq)
        BY <2>2 DEF LinkFits
      <3>2. StartInLink(toReceiver[i].sid)' => StartInLink(toReceiver[i].sid)
        BY <1>4, <2>2 DEF StartInLink
      <3> QED
        BY <1>2, <2>2, <3>1, <3>2 DEF FitsWindow, Open
    <2>3. CASE toReceiver'[i].sid = current /\ toReceiver'[i].seq < nextSeq'
      <3>1. /\ Open(current)' => nextSeq' - 1 < recvBase' + WINDOW
            /\ StartInLink(current)' => nextSeq' - 1 < 1 + WINDOW
        BY <1>2, <1>6 DEF SenderFits, FitsWindow
      <3>2. \A seq, next, base, w \in Nat :
              seq < next => /\ next - 1 < base + w => seq < base + w
                            /\ next - 1 < 1 + w => seq < 1 + w
        OBVIOUS
      <3>3. /\ Open(current)' => toReceiver'[i].seq < recvBase' + WINDOW
            /\ StartInLink(current)' => toReceiver'[i].seq < 1 + WINDOW
        BY <2>1, <2>3, <3>1, <3>2
      <3> QED
        BY <1>2, <2>3, <3>3 DEF FitsWindow, Open, StartInLink
    <2> QED
      BY <1>3, <2>2, <2>3
  <1> QED
    BY <1>4, <1>5, <1>6, <1>7

(* END leaves once every packet is slid over.                              *)
LEMMA CompleteAtEnd ==
  ASSUME BasicInv, Integrity, SessionsInv, AckInv, EndPhase
  PROVE  /\ ~StartInLink(current)
         /\ Open(current) => recvBase = totalPackets + 1
  <1>1. /\ stage # "idle" /\ current \in Sid
        /\ total_packets \in Nat \ {0} /\ sendBase = total_packets + 1
    <2>1. stage # "idle" /\ current \in Sid
      BY DEF EndPhase, BasicInv, TypeOK, SenderTypeOK
    <2> QED
      BY <2>1, PacketsType DEF total_packets, BasicInv, SenderInv
  <1>2. Got(total_packets)
    BY <1>1 DEF AckInv
  <1>3. ~StartInLink(current)
    BY <1>1, <1>2, GotEndsStart
  <1>4. ASSUME Open(current) PROVE recvBase = totalPackets + 1
    <2>1. sendBase <= recvBase
      BY <1>1, <1>4, BaseIsBehind DEF SessionOpen, Open
    <2>2. totalPackets = total_packets /\ recvBase \in 1..(totalPackets + 1)
      BY <1>4 DEF Integrity, Open, total_packets
    <2> QED
      BY <1>1, <2>1, <2>2
  <1> QED
    BY <1>3, <1>4

LEMMA EndKeeps ==
  ASSUME BasicInv, BasicInv', Integrity, WindowsInv, SessionsInv, AckInv,
         ReceiverEnd, LinkFits, SenderFits, SenderStep, SendsEnd,
         UNCHANGED receiverVars
  PROVE  GotKept /\ HandedKept /\ ReceiverEnd' /\ LinkFits' /\ SenderFits'
  <1>1. PICK f : Sends(<<f>>) /\ f.type = "END"
    BY DEF SendsEnd
  <1>2. /\ UNCHANGED <<current, active, session, recvBase, totalPackets,
                       endReceived, delivered>>
        /\ EndPhase
    BY DEF SendsEnd, receiverVars, sessionVars, EndPhase
  <1>3. \A k \in DOMAIN <<f>> : <<f>>[k] = f
    OBVIOUS
  <1>4. \A i \in DOMAIN toReceiver' :
          \/ i \in DOMAIN toReceiver /\ toReceiver'[i] = toReceiver[i]
          \/ toReceiver'[i].type = "END" /\ toReceiver'[i].sid = current
    BY <1>1, <1>3, SentElements
  <1>5. /\ GotKept /\ FitsKept /\ HandedKept
        /\ \A s : StartInLink(s)' => StartInLink(s)
    BY <1>1, <1>2, <1>3, SendingKeeps
  <1>6. ReceiverEnd'
    BY <1>2, <1>4, <1>5, CompleteAtEnd DEF ReceiverEnd, Open, StartInLink
  <1>7. SenderFits'
    BY <1>5, FitsStep DEF SendsEnd, Begin
  <1>8. LinkFits'
    <2> SUFFICES ASSUME NEW i \in DOMAIN toReceiver', toReceiver'[i].type = "DATA"
                 PROVE  FitsWindow(toReceiver[i].sid, toReceiver[i].seq)'
      BY DEF LinkFits
    <2>1. i \in DOMAIN toReceiver /\ toReceiver'[i] = toReceiver[i]
      BY <1>4
    <2>2. FitsWindow(toReceiver[i].sid, toReceiver[i].seq)
      BY <2>1 DEF LinkFits
    <2>3. StartInLink(toReceiver[i].sid)' => StartInLink(toReceiver[i].sid)
      BY <1>5, <2>1 DEF StartInLink
    <2> QED
      BY <1>2, <2>1, <2>2, <2>3 DEF FitsWindow, Open
  <1> QED
    BY <1>5, <1>6, <1>7, <1>8

LEMMA SenderProtocol ==
  ASSUME BasicInv, BasicInv', Integrity, WindowsInv, SessionsInv, AckInv,
         EndInv, RoomInv, SenderStep, UNCHANGED receiverVars
  PROVE  AckInv' /\ EndInv' /\ RoomInv'
  <1>1. /\ ReceiverEnd /\ EndAckMeans /\ EndedMeans
        /\ LinkFits /\ SenderFits
    BY EndParts, RoomParts
  <1>2. CASE Begin
    BY <1>1, <1>2, BeginProtocol
  <1>3. CASE ~Begin
    <2>1. /\ stage # "idle" /\ UNCHANGED current
          /\ StartPhase' => StartPhase
          /\ \A i \in DOMAIN toSender' :
               \E k \in DOMAIN toSender : toSender'[i] = toSender[k]
          /\ \A seq \in Nat : Counted(seq)' => Counted(seq) \/ AckCame(seq)
          /\ total_packets + 1 \in acked' =>
               total_packets + 1 \in acked \/ AckCame(total_packets + 1)
          /\ \A s \in Sid : outcome'[s] = "success" =>
               \/ outcome[s] = "success"
               \/ s = current /\ total_packets + 1 \in acked
      BY <1>3, SenderBooks
    <2>2. /\ StartPhase' \/ GotKept
          /\ HandedKept /\ ReceiverEnd' /\ LinkFits' /\ SenderFits'
      <3>1. CASE SendsStart
        BY <1>1, <3>1, StartKeeps
      <3>2. CASE SendsData
        BY <1>1, <3>2, DataKeeps
      <3>3. CASE SendsEnd
        BY <1>1, <3>3, EndKeeps
      <3>4. CASE SendsNothing
        <4>1. Thins(toReceiver', toReceiver)
          BY <3>4, ThinsItself DEF SendsNothing
        <4>2. /\ UNCHANGED <<delivered, current>>
              /\ active' => UNCHANGED <<active, session, recvBase, totalPackets,
                                        endReceived, ooo>>
              /\ ~(active /\ ~active')
          BY <3>4 DEF SendsNothing, receiverVars, sessionVars
        <4>3. GotKept /\ FitsKept /\ HandedKept /\ ReceiverEnd' /\ LinkFits'
          BY <1>1, <4>1, <4>2, ThinningKeeps
        <4>4. SenderFits'
          BY <1>1, <1>3, <4>3, FitsStep
        <4> QED
          BY <4>3, <4>4
      <3> QED
        BY <1>3, <3>1, <3>2, <3>3, <3>4, SenderMoves
    <2>3. \A seq \in Nat : AckCame(seq)' => AckCame(seq)
      BY <2>1 DEF AckCame
    <2>4. AckInv'
      BY <2>1, <2>2, <2>3, AckStep
    <2>5. EndAckMeans'
      BY <1>1, <2>1, <2>2, AcksStillMean
    <2>6. EndedMeans'
      BY <1>1, <2>1, <2>2, EndedStillMeans
    <2>7. EndInv' /\ RoomInv'
      BY <2>2, <2>5, <2>6
      DEF EndInv, ReceiverEnd, EndAckMeans, EndedMeans, RoomInv, LinkFits, SenderFits
    <2> QED
      BY <2>4, <2>7
  <1> QED
    BY <1>2, <1>3

-----------------------------------------------------------------------------
(* The steps of the receiver and of the wire.                              *)
LEMMA QuietSender ==
  ASSUME BasicInv, UNCHANGED senderVars, AckInv, EndAckMeans, EndedMeans,
         SenderFits, GotKept, FitsKept, HandedKept, ReceiverEnd', LinkFits',
         BasicInv', EndAckMeans',
         \A seq \in Nat : AckCame(seq)' =>
            \/ AckCame(seq)
            \/ /\ StartPhase' => seq = 0
               /\ seq \in 1..total_packets => Got(seq)'
  PROVE  AckInv' /\ EndInv' /\ RoomInv'
  <1>1. /\ UNCHANGED <<stage, current, acked, sendBase, nextSeq, outcome>>
        /\ StartPhase' => StartPhase
        /\ \A seq \in Nat : Counted(seq)' => Counted(seq)
    BY DEF senderVars, StartPhase, Counted
  <1>2. AckInv'
    BY <1>1, AckStep
  <1>3. EndedMeans'
    BY <1>1, EndedStillMeans
  <1>4. SenderFits'
    <2>1. current \in Nat /\ nextSeq \in Nat \ {0} /\ nextSeq - 1 \in Nat
      BY NumberTypes DEF BasicInv, TypeOK, SenderTypeOK
    <2> QED
      BY <1>1, <2>1 DEF SenderFits, FitsKept, FitsWindow, Open, StartInLink
  <1>5. EndInv' /\ RoomInv'
    BY <1>3, <1>4
    DEF EndInv, ReceiverEnd, EndAckMeans, EndedMeans, RoomInv, LinkFits, SenderFits
  <1> QED
    BY <1>2, <1>5

LEMMA ReceiveProtocol ==
  ASSUME BasicInv, BasicInv', Integrity, Integrity', SessionsInv, AckInv,
         EndInv, RoomInv, ReceiveFrame, UNCHANGED senderVars
  PROVE  AckInv' /\ EndInv' /\ RoomInv'
  <1>1. /\ ReceiverEnd /\ EndAckMeans /\ EndedMeans
        /\ LinkFits /\ SenderFits
    BY EndParts, RoomParts
  <1>2. /\ toReceiver # <<>> /\ toReceiver' = Tail(toReceiver)
        /\ Handle(Head(toReceiver))
        /\ UNCHANGED <<stage, current>>
    BY DEF ReceiveFrame, senderVars
  <1>3. PICK f : f = Head(toReceiver)
    OBVIOUS
  <1>4. /\ f \in GoodFrame /\ f.sid \in Sid /\ f.seq \in Nat
        /\ Packets(f.sid) \in Nat \ {0}
        /\ f.type = "START" => f.seq = 0
        /\ f.type = "DATA" => f.seq \in 1..Packets(f.sid)
    <2>1. f \in GoodFrame
      BY <1>2, <1>3, BehindHead
    <2>2. f.sid \in Sid /\ f.seq \in Nat
      BY <2>1 DEF GoodFrame, Frame
    <2> QED
      BY <2>1, <2>2, PacketsType DEF GoodFrame
  <1>5. \/ Opens(f) /\ ~endReceived'
        \/ Advances(f) /\ f.type = "DATA" /\ ~endReceived'
        \/ Delivers(f)
    BY <1>1, <1>2, <1>3, HandleComplete
  <1>6. /\ GotKept /\ FitsKept /\ HandedKept /\ ReceiverEnd' /\ LinkFits'
        /\ Delivers(f) => HandedOver(f.sid)'
    <2>1. CASE Opens(f) /\ ~endReceived'
      BY <1>1, <1>2, <1>3, <2>1, OpeningKeeps DEF Opens, Delivers
    <2>2. CASE Advances(f) /\ ~endReceived'
      BY <1>1, <1>2, <1>3, <2>2, AdvancingKeeps DEF Advances, Delivers
    <2>3. CASE Delivers(f)
      BY <1>1, <1>2, <1>3, <2>3, DeliveringKeeps
    <2> QED
      BY <1>5, <2>1, <2>2, <2>3
  <1>7. \A i \in DOMAIN toSender' :
          \/ i \in DOMAIN toSender /\ toSender'[i] = toSender[i]
          \/ toSender'[i].sid = f.sid /\ toSender'[i].seq = f.seq
    BY <1>2, <1>3, <1>4, HandleAcks
  <1>8. EndAckMeans'
    <2>1. f.seq # Packets(f.sid) + 1 \/ HandedOver(f.sid)'
      BY <1>4, <1>5, <1>6 DEF Opens
    <2>2. ASSUME NEW i \in DOMAIN toSender'
          PROVE  \/ \E k \in DOMAIN toSender : toSender'[i] = toSender[k]
                 \/ toSender'[i].seq # Packets(toSender'[i].sid) + 1
                 \/ HandedOver(toSender[i].sid)'
      BY <1>7, <2>1 DEF HandedOver
    <2> QED
      BY <1>1, <1>6, <2>2, AcksStillMean
  <1>9. ASSUME NEW seq \in Nat, AckCame(seq)', ~AckCame(seq)
        PROVE  /\ StartPhase' => seq = 0
               /\ seq \in 1..total_packets => Got(seq)'
    <2>1. f.sid = current /\ f.seq = seq
      BY <1>2, <1>7, <1>9 DEF AckCame
    <2>2. StartPhase' => seq = 0
      <3>1. f.type # "START" => ~StartPhase
        BY <1>2, <1>3, <2>1, NoStartPhase
      <3> QED
        BY <1>2, <1>4, <2>1, <3>1 DEF StartPhase
    <2>3. ASSUME seq \in 1..total_packets PROVE Got(seq)'
      <3>1. CASE Opens(f)
        BY <1>4, <2>1, <2>3, <3>1 DEF Opens
      <3>2. CASE Advances(f) /\ f.type = "DATA"
        BY <1>2, <2>1, <3>2 DEF Advances, Got, SessionOpen
      <3>3. CASE Delivers(f)
        BY <1>2, <1>6, <2>1, <3>3 DEF Got, HandedOver
      <3> QED
        BY <1>5, <3>1, <3>2, <3>3
    <2> QED
      BY <2>2, <2>3
  <1> QED
    BY <1>1, <1>6, <1>8, <1>9, QuietSender

LEMMA QuietProtocol ==
  ASSUME BasicInv, BasicInv', SessionsInv, AckInv, EndInv, RoomInv,
         UNCHANGED <<senderVars, delivered>>, Thins(toReceiver', toReceiver),
         active' => UNCHANGED <<active, session, recvBase, totalPackets,
                                endReceived, ooo>>,
         active /\ ~active' => toReceiver' = <<>>,
         \A i \in DOMAIN toSender' :
           \E k \in DOMAIN toSender : toSender'[i] = toSender[k]
  PROVE  AckInv' /\ EndInv' /\ RoomInv'
  <1>1. /\ ReceiverEnd /\ EndAckMeans /\ EndedMeans
        /\ LinkFits /\ SenderFits
    BY EndParts, RoomParts
  <1>2. UNCHANGED current
    BY DEF senderVars
  <1>3. GotKept /\ FitsKept /\ HandedKept /\ ReceiverEnd' /\ LinkFits'
    BY <1>1, <1>2, ThinningKeeps
  <1>4. EndAckMeans'
    BY <1>1, <1>3, AcksStillMean
  <1>5. \A seq \in Nat : AckCame(seq)' => AckCame(seq)
    BY <1>2 DEF AckCame
  <1> QED
    BY <1>1, <1>3, <1>4, <1>5, QuietSender

LEMMA ProtocolStep ==
  ASSUME ~AckErrors, BasicInv, BasicInv', Integrity, Integrity', WindowsInv,
         ProtocolInv, [Next]_vars
  PROVE  ProtocolInv'
  <1>1. SessionsInv /\ AckInv /\ EndInv /\ RoomInv
    BY DEF ProtocolInv, SessionsInv
  <1>2. SessionsInv'
    BY <1>1, SessionsStep
  <1>3. CASE SenderStep /\ UNCHANGED receiverVars
    BY <1>1, <1>2, <1>3, SenderProtocol DEF ProtocolInv, SessionsInv
  <1>4. CASE ReceiverStep /\ UNCHANGED senderVars
    <2>1. CASE ReceiveFrame
      BY <1>1, <1>2, <1>4, <2>1, ReceiveProtocol DEF ProtocolInv, SessionsInv
    <2>2. CASE IgnoreFrame \/ IdleTimeout \/ ForwardDone
      <3>1. /\ Thins(toReceiver', toReceiver)
            /\ toSender' = toSender
        BY <2>2, NumberTypes, TailThins, ThinsItself
        DEF IgnoreFrame, IdleTimeout, ForwardDone, linkVars
      <3>2. /\ UNCHANGED delivered
            /\ active' => UNCHANGED <<active, session, recvBase, totalPackets,
                                      endReceived, ooo>>
            /\ active /\ ~active' => toReceiver' = <<>>
        BY <2>2 DEF IgnoreFrame, IdleTimeout, ForwardDone, FreshCall, linkVars,
                    receiverVars, sessionVars
      <3> QED
        BY <1>1, <1>2, <1>4, <3>1, <3>2, QuietProtocol DEF ProtocolInv, SessionsInv
    <2> QED
      BY <1>4, <2>1, <2>2 DEF ReceiverStep
  <1>5. CASE LinkStep /\ UNCHANGED <<senderVars, receiverVars>>
    <2>1. /\ Thins(toReceiver', toReceiver)
          /\ \A i \in DOMAIN toSender' :
               \E k \in DOMAIN toSender : toSender'[i] = toSender[k]
      BY <1>5, LinkThins, LinkAcks
    <2>2. UNCHANGED <<delivered, active, session, recvBase, totalPackets,
                      endReceived, ooo>>
      BY <1>5 DEF receiverVars, sessionVars
    <2> QED
      BY <1>1, <1>2, <1>5, <2>1, <2>2, QuietProtocol DEF ProtocolInv, SessionsInv
  <1>6. CASE UNCHANGED vars
    <2>1. Thins(toReceiver', toReceiver) /\ toSender' = toSender
      BY <1>6, ThinsItself DEF vars, linkVars
    <2>2. UNCHANGED <<senderVars, delivered, active, session, recvBase,
                      totalPackets, endReceived, ooo>>
      BY <1>6 DEF vars, receiverVars, sessionVars
    <2> QED
      BY <1>1, <1>2, <2>1, <2>2, QuietProtocol DEF ProtocolInv, SessionsInv
  <1> QED
    BY <1>3, <1>4, <1>5, <1>6 DEF Next

-----------------------------------------------------------------------------
(* The theorems about acknowledgements assume that ACKs arrive as they     *)
(* were sent, or not at all: the listener does not look at their CRC, and  *)
(* with a damaged ACK AckedIsHeld does not hold.                           *)

LEMMA ProtocolInit == Init => ProtocolInv
  <1> SUFFICES ASSUME Init PROVE ProtocolInv
    OBVIOUS
  <1>1. /\ DOMAIN toReceiver = {} /\ DOMAIN toSender = {} /\ DOMAIN delivered = {}
        /\ ~active /\ stage = "idle" /\ outcome = [s \in Sid |-> "none"]
    BY DEF Init, LinkInit, SenderInit, ReceiverInit
  <1>2. OrderInv /\ StartInv
    BY <1>1 DEF OrderInv, StartInv, StartPhase
  <1>3. AckInv /\ EndInv /\ RoomInv
    BY <1>1 DEF AckInv, EndInv, SuccessIsDelivery, RoomInv
  <1> QED
    BY <1>2, <1>3 DEF ProtocolInv

(* The inductive invariant: what either box believes of the other is true. *)
THEOREM InvariantCorrect == ASSUME ~AckErrors PROVE Spec => []IInv
  <1>1. ProtocolInv /\ BasicInv /\ BasicInv' /\ Integrity /\ Integrity'
          /\ WindowsInv /\ [Next]_vars => ProtocolInv'
    BY ProtocolStep
  <1>2. Spec => []ProtocolInv
    BY <1>1, ProtocolInit, BasicCorrect, IntegrityCorrect, WindowsCorrect, PTL
    DEF Spec
  <1>3. BasicInv /\ Integrity /\ WindowsInv /\ ProtocolInv => IInv
    BY DEF BasicInv, IInv
  <1> QED
    BY <1>2, <1>3, BasicCorrect, IntegrityCorrect, WindowsCorrect, PTL

(* Whatever the sender counts as acknowledged, slid over or not, the       *)
(* receiver really holds for as long as it has the session.                *)
THEOREM AcknowledgedIsHeld == ASSUME ~AckErrors PROVE Spec => []AckedIsHeld
  <1>1. IInv => AckedIsHeld
    <2> SUFFICES ASSUME IInv, SessionOpen, stage # "idle",
                        NEW seq \in 1..total_packets,
                        seq < sendBase \/ seq \in acked
                 PROVE  Holds(seq)
      BY DEF AckedIsHeld
    <2>1. BasicInv /\ SessionsInv
      BY DEF IInv, BasicInv, ProtocolInv, SessionsInv
    <2>2. Got(seq)
      BY DEF IInv, ProtocolInv, AckInv
    <2> QED
      BY <2>1, <2>2, GotIsHeld
  <1> QED
    BY <1>1, InvariantCorrect, PTL

(* No DATA frame in flight is beyond what the receiver can buffer, and its *)
(* buffer never fills up.                                                  *)
THEOREM DataHasRoom == ASSUME ~AckErrors PROVE Spec => []InReceiverWindow
  <1>1. IInv => InReceiverWindow
    <2> SUFFICES ASSUME IInv, active
                 PROVE  /\ Cardinality(DOMAIN ooo) < WINDOW
                        /\ \A i \in DOMAIN toReceiver :
                             toReceiver[i].type = "DATA" /\ toReceiver[i].sid = session
                               => toReceiver[i].seq < recvBase + WINDOW
      BY DEF InReceiverWindow
    <2>1. BasicInv /\ BufferFits
      BY WindowsParts DEF IInv, BasicInv
    <2>2. Cardinality(DOMAIN ooo) < WINDOW
      BY <2>1, AdvertisedOpen
    <2>3. \A i \in DOMAIN toReceiver :
            toReceiver[i].type = "DATA" /\ toReceiver[i].sid = session
              => toReceiver[i].seq < recvBase + WINDOW
      BY DEF IInv, ProtocolInv, RoomInv, FitsWindow, Open
    <2> QED
      BY <2>2, <2>3
  <1> QED
    BY <1>1, InvariantCorrect, PTL

(* GuardL2.hpp's promise: send_reliable_data returns true only for data    *)
(* the receiver has handed over.                                           *)
THEOREM SuccessDelivers == ASSUME ~AckErrors PROVE Spec => []SuccessIsDelivery
  <1>1. IInv => SuccessIsDelivery
    BY DEF IInv, ProtocolInv, EndInv
  <1> QED
    BY <1>1, InvariantCorrect, PTL

-----------------------------------------------------------------------------
(* The guard implements ReliableTransfer: the sender's Begin and Return    *)
(* are its Begin and Report, the END of a complete session is its Deliver, *)
(* and all the rest, frames, ACKs, windows and retries, is stuttering.     *)
LEMMA DeliverRefines ==
  ASSUME BasicInv, SessionsInv, Integrity', ReceiveFrame, UNCHANGED senderVars,
         ~UNCHANGED delivered
  PROVE  \E s \in 1..current : RT!Deliver(s)
  <1>1. /\ toReceiver # <<>> /\ toReceiver' = Tail(toReceiver)
        /\ Handle(Head(toReceiver))
    BY DEF ReceiveFrame
  <1>2. PICK f : f = Head(toReceiver) /\ f \in GoodFrame
    BY <1>1, BehindHead
  <1>3. Closes(f)
    BY <1>1, <1>2, HandleEffect DEF Opens, Advances
  <1>4. PICK data : delivered' = Append(delivered, [sid |-> session, data |-> data])
    BY <1>3 DEF Closes
  <1>5. /\ active /\ session \in Nat \ {0} /\ current \in Nat /\ session <= current
        /\ \A d \in DOMAIN delivered : delivered[d].sid < session
    BY <1>3, NumberTypes DEF Closes, SessionsInv, OrderInv
  <1>6. data = Transfers[session]
    <2>1. delivered \in Seq(Delivery)
      BY DEF BasicInv, TypeOK, ReceiverTypeOK
    <2>2. /\ Len(delivered) + 1 \in DOMAIN delivered'
          /\ delivered'[Len(delivered) + 1] = [sid |-> session, data |-> data]
      BY <1>4, <2>1
    <2>3. delivered'[Len(delivered) + 1].data
            = Transfers[delivered'[Len(delivered) + 1].sid]
      BY <2>2 DEF Integrity
    <2> QED
      BY <2>2, <2>3
  <1>7. session \in 1..current
    BY <1>5
  <1>8. UNCHANGED <<current, outcome>>
    BY DEF senderVars
  <1>9. RT!Deliver(session)
    BY <1>4, <1>5, <1>6, <1>8 DEF RT!Deliver
  <1> QED
    BY <1>7, <1>9

LEMMA ReportRefines ==
  ASSUME BasicInv, EndInv, UNCHANGED receiverVars, stage # "idle",
         NEW result \in {"success", "failure"}, Return(result),
         result = "success" => total_packets + 1 \in acked
  PROVE  RT!Report(result)
  <1>1. current \in Nat \ {0} /\ outcome[current] = "none"
    <2>1. current \in Sid
      BY DEF BasicInv, TypeOK, SenderTypeOK
    <2> QED
      BY <2>1, PacketsType DEF BasicInv, SenderInv
  <1>2. result = "success" => RT!Handed(current)
    BY DEF EndInv, HandedOver, RT!Handed
  <1>3. /\ outcome' = [outcome EXCEPT ![current] = result]
        /\ UNCHANGED <<current, delivered>>
    BY DEF Return, receiverVars
  <1> QED
    BY <1>1, <1>2, <1>3 DEF RT!Report

LEMMA SenderRefines ==
  ASSUME BasicInv, EndInv, SenderStep, UNCHANGED receiverVars
  PROVE  RT!Next \/ UNCHANGED <<current, outcome, delivered>>
  <1>1. CASE Begin
    <2>1. /\ current < Len(Transfers) /\ current' = current + 1
          /\ UNCHANGED <<outcome, delivered>>
          /\ stage = "idle"
      BY <1>1 DEF Begin, receiverVars
    <2>2. current > 0 => outcome[current] # "none"
      BY <2>1 DEF BasicInv, SenderInv
    <2>3. RT!Begin
      BY <2>1, <2>2 DEF RT!Begin
    <2> QED
      BY <2>3 DEF RT!Next
  <1>2. CASE EndAcked
    <2>1. /\ stage # "idle" /\ Return("success")
          /\ total_packets + 1 \in acked
      BY <1>2 DEF EndAcked
    <2>2. RT!Report("success")
      BY <2>1, ReportRefines
    <2> QED
      BY <2>2 DEF RT!Next
  <1>3. CASE (StartTimeout \/ EndTimeout \/ Restart) /\ Return("failure")
    <2>1. stage # "idle" /\ Return("failure")
      BY <1>3 DEF StartTimeout, EndTimeout, HandshakeTimeout, Restart
    <2>2. RT!Report("failure")
      BY <2>1, ReportRefines
    <2> QED
      BY <2>2 DEF RT!Next
  <1>4. CASE ~Begin /\ UNCHANGED outcome
    BY <1>4, SenderBooks DEF receiverVars
  <1>5. ~Begin /\ ~UNCHANGED outcome
          => \/ EndAcked
             \/ (StartTimeout \/ EndTimeout \/ Restart) /\ Return("failure")
    BY DEF SenderStep, SenderThread, SendStart, SendEnd, HandshakeSend,
           StartTimeout, EndTimeout, HandshakeTimeout, StartAcked, ReadCwnd,
           ReadRwnd, Fill, Wait, Probe, SlideAtOnce, Wake, ProbeOver, Listener,
           ListenerAck, ListenerIgnore, Restart, senderVars
  <1> QED
    BY <1>1, <1>2, <1>3, <1>4, <1>5

(* Every behaviour of the guard is one of the abstract transfer service.   *)
THEOREM GuardRefines == ASSUME ~AckErrors PROVE Spec => Refines
  <1>1. Init => RT!Init
    BY DEF Init, SenderInit, ReceiverInit, RT!Init, Sid
  <1>2. ASSUME IInv, Integrity', [Next]_vars PROVE [RT!Next]_(RT!rtVars)
    <2>1. BasicInv /\ SessionsInv /\ EndInv
      BY <1>2 DEF IInv, BasicInv, ProtocolInv, SessionsInv
    <2>2. CASE SenderStep /\ UNCHANGED receiverVars
      BY <2>1, <2>2, SenderRefines DEF RT!rtVars
    <2>3. CASE ReceiverStep /\ UNCHANGED senderVars
      <3>1. CASE UNCHANGED delivered
        BY <2>3, <3>1 DEF senderVars, RT!rtVars
      <3>2. CASE ~UNCHANGED delivered
        <4>1. ReceiveFrame
          BY <2>3, <3>2
          DEF ReceiverStep, IgnoreFrame, IdleTimeout, ForwardDone, receiverVars
        <4>2. \E s \in 1..current : RT!Deliver(s)
          BY <1>2, <2>1, <2>3, <3>2, <4>1, DeliverRefines
        <4> QED
          BY <4>2 DEF RT!Next
      <3> QED
        BY <3>1, <3>2
    <2>4. CASE UNCHANGED <<senderVars, receiverVars>>
      BY <2>4 DEF senderVars, receiverVars, RT!rtVars
    <2> QED
      BY <1>2, <2>2, <2>3, <2>4 DEF Next, vars
  <1>3. IInv /\ Integrity' /\ [Next]_vars => [RT!Next]_(RT!rtVars)
    BY <1>2
  <1> QED
    BY <1>1, <1>3, InvariantCorrect, IntegrityCorrect, PTL DEF Spec, Refines, RT!Spec
=============================================================================
