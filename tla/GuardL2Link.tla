----------------------------- MODULE GuardL2Link -----------------------------
(***************************************************************************)
(* The raw Ethernet link (EtherType 0x88B5) between the two CDSGuard       *)
(* boxes, and the frames of the GuardL2 protocol that travel over it.      *)
(*                                                                         *)
(* A transfer is one call of send_reliable_data.  Transfers is the         *)
(* sequence of payloads handed to the guard, each already cut into the     *)
(* 1400-byte chunks that become DATA frames; its index stands for the      *)
(* session id, which the code draws from the clock once per transfer.      *)
(***************************************************************************)
EXTENDS Integers, Sequences, FiniteSets

CONSTANTS
  Chunk,      \* the payloads a DATA frame can carry
  Transfers,  \* what SendMode hands over: a sequence of chunk sequences
  LINK_CAP,   \* frames a socket buffer holds; further ones are dropped
  AckErrors,  \* TRUE: bits of an ACK may flip on the wire as well
  NoChunk,    \* the empty payload of START and END
  Garbage     \* a payload whose bits flipped

Sid == DOMAIN Transfers
Packets(s) == Len(Transfers[s])

ASSUME LinkAssumption ==
  /\ Transfers \in Seq(Seq(Chunk))
  /\ \A s \in Sid : Transfers[s] # <<>>
  /\ LINK_CAP \in Nat \ {0}
  /\ AckErrors \in BOOLEAN
  /\ NoChunk \notin Chunk
  /\ Garbage \notin Chunk

VARIABLES
  toReceiver,  \* DATA direction: START, DATA and END frames in flight
  toSender,    \* the ACK frames in flight
  stable       \* TRUE once the link has stopped losing frames

linkVars == <<toReceiver, toSender, stable>>

FrameType == {"START", "DATA", "END"}

Frame == [type : FrameType, sid : Sid, seq : Nat, total : Nat,
          payload : Chunk \cup {NoChunk, Garbage}, intact : BOOLEAN]

AckFrame == [sid : Sid, seq : Nat, window : Nat]

LinkTypeOK ==
  /\ toReceiver \in Seq(Frame)
  /\ toSender \in Seq(AckFrame)
  /\ Len(toReceiver) <= LINK_CAP
  /\ Len(toSender) <= LINK_CAP
  /\ stable \in BOOLEAN

LinkInit ==
  /\ toReceiver = <<>>
  /\ toSender = <<>>
  /\ stable = FALSE

-----------------------------------------------------------------------------
(* build_frame: the size of the whole transfer travels in every frame, the *)
(* CRC always matches when the frame leaves.                               *)
BuildFrame(type, s, seq) ==
  [type |-> type, sid |-> s, seq |-> seq, total |-> Packets(s),
   payload |-> IF type = "DATA" THEN Transfers[s][seq] ELSE NoChunk,
   intact |-> TRUE]

(* A send into a full socket buffer loses the frame: send() errors are     *)
(* only logged.  The frames of one burst are queued in order.              *)
Queue(link, frames) ==
  LET all == link \o frames
  IN  SubSeq(all, 1, IF Len(all) < LINK_CAP THEN Len(all) ELSE LINK_CAP)

Without(link, i) == SubSeq(link, 1, i - 1) \o SubSeq(link, i + 1, Len(link))

-----------------------------------------------------------------------------
(* What the wire may do.  One cable joins the two boxes: frames are lost   *)
(* or damaged, never reordered or duplicated.                              *)
LoseFrame ==
  /\ ~stable
  /\ \E i \in DOMAIN toReceiver : toReceiver' = Without(toReceiver, i)
  /\ UNCHANGED <<toSender, stable>>

LoseAck ==
  /\ ~stable
  /\ \E i \in DOMAIN toSender : toSender' = Without(toSender, i)
  /\ UNCHANGED <<toReceiver, stable>>

CorruptFrame ==
  /\ ~stable
  /\ \E i \in DOMAIN toReceiver :
       /\ toReceiver[i].intact
       /\ toReceiver' = [toReceiver EXCEPT ![i].intact = FALSE,
                                           ![i].payload = Garbage]
  /\ UNCHANGED <<toSender, stable>>

(* ack_listener_thread never looks at an ACK's CRC, so a damaged ACK is    *)
(* taken for the acknowledgement of another frame.                         *)
CorruptAck ==
  /\ AckErrors /\ ~stable
  /\ \E i \in DOMAIN toSender : \E seq \in 0..(Packets(toSender[i].sid) + 1) :
       toSender' = [toSender EXCEPT ![i].seq = seq]
  /\ UNCHANGED <<toReceiver, stable>>

(* From here on every queued frame arrives: liveness is claimed only for   *)
(* a link that eventually works.                                           *)
Stabilise ==
  /\ ~stable
  /\ stable' = TRUE
  /\ UNCHANGED <<toReceiver, toSender>>

LinkStep == LoseFrame \/ LoseAck \/ CorruptFrame \/ CorruptAck \/ Stabilise
=============================================================================
