--------------------------- MODULE GuardL2Receiver ---------------------------
(***************************************************************************)
(* GuardL2Receiver::receive_reliable_data and the loop of RecvMode that    *)
(* calls it.  The session state is local to one call; the out-of-order     *)
(* buffer is a member of the receiver and outlives the call.               *)
(***************************************************************************)
EXTENDS GuardL2Link

CONSTANT WINDOW  \* RECEIVER_WINDOW_CAPACITY, 512 in the code

ASSUME ReceiverAssumption == WINDOW \in Nat \ {0}

VARIABLES
  receiving,    \* inside receive_reliable_data; FALSE while RecvMode forwards
  active,       \* session_active
  session,      \* current_session_id, 0 before a START
  recvBase,     \* receive_window_base
  totalPackets, \* total_packets
  reassembled,  \* reassembled_data, in chunks
  endReceived,  \* end_packet_received
  ooo,          \* out_of_order_buffer_
  delivered     \* what the calls returned to RecvMode, oldest first

sessionVars == <<active, session, recvBase, totalPackets, reassembled,
                 endReceived>>
receiverVars == <<receiving, sessionVars, ooo, delivered>>

Delivery == [sid : Sid, data : Seq(Chunk \cup {NoChunk, Garbage})]

ReceiverTypeOK ==
  /\ receiving \in BOOLEAN
  /\ active \in BOOLEAN
  /\ session \in Sid \cup {0}
  /\ active => session \in Sid
  /\ recvBase \in Nat /\ totalPackets \in Nat
  /\ reassembled \in Seq(Chunk \cup {NoChunk, Garbage})
  /\ endReceived \in BOOLEAN
  /\ DOMAIN ooo \subseteq Nat /\ IsFiniteSet(DOMAIN ooo)
  /\ \A seq \in DOMAIN ooo : ooo[seq] \in Chunk \cup {NoChunk, Garbage}
  /\ delivered \in Seq(Delivery)

ReceiverInit ==
  /\ receiving = TRUE
  /\ active = FALSE /\ session = 0
  /\ recvBase = 0 /\ totalPackets = 0
  /\ reassembled = <<>>
  /\ endReceived = FALSE
  /\ ooo = <<>>
  /\ delivered = <<>>

-----------------------------------------------------------------------------
Advertised(used) == IF WINDOW > used THEN WINDOW - used ELSE 0

(* send_ack: the window is computed before the frame it answers is stored. *)
SendAck(s, seq, used) ==
  toSender' = Queue(toSender, <<[sid |-> s, seq |-> seq,
                                 window |-> Advertised(used)]>>)

(* The locals of a fresh call of receive_reliable_data.                    *)
FreshCall ==
  /\ active' = FALSE /\ session' = 0
  /\ recvBase' = 0 /\ totalPackets' = 0
  /\ reassembled' = <<>>
  /\ endReceived' = FALSE

(* The check after each frame of the session: END seen and every packet    *)
(* reassembled ends the call, with the data if its size is the announced   *)
(* one and with nothing otherwise.                                         *)
SessionOver(base, ended) == ended /\ base = totalPackets + 1

EndCheck(base, data, ended) ==
  IF SessionOver(base, ended)
  THEN /\ FreshCall
       /\ receiving' = (Len(data) # totalPackets)
       /\ delivered' = IF Len(data) = totalPackets
                       THEN Append(delivered, [sid |-> session, data |-> data])
                       ELSE delivered
  ELSE /\ recvBase' = base
       /\ reassembled' = data
       /\ endReceived' = ended
       /\ UNCHANGED <<receiving, active, session, totalPackets, delivered>>

-----------------------------------------------------------------------------
Accepted(f) == f.intact

OfSession(f) == active /\ f.sid = session

InWindow(seq) == recvBase <= seq /\ seq < recvBase + WINDOW

(* START opens a session, whatever was in progress.                        *)
MutKeptOnStart == ooo
KeptOnStart == <<>>

HandleStart(f) ==
  /\ f.type = "START" /\ f.seq = 0
  /\ active' = TRUE /\ session' = f.sid
  /\ recvBase' = 1 /\ totalPackets' = f.total
  /\ reassembled' = <<>>
  /\ endReceived' = FALSE
  /\ ooo' = KeptOnStart
  /\ SendAck(f.sid, 0, Cardinality(DOMAIN KeptOnStart))
  /\ UNCHANGED <<receiving, delivered>>

(* The next packet expected: it and every packet buffered right behind it  *)
(* are appended; next is the first one still missing.                      *)
HandleInOrder(f) ==
  /\ f.type = "DATA" /\ OfSession(f)
  /\ f.seq = recvBase
  /\ SendAck(session, f.seq, Cardinality(DOMAIN ooo))
  /\ \E next \in (recvBase + 1)..(recvBase + WINDOW) :
       /\ (recvBase + 1)..(next - 1) \subseteq DOMAIN ooo
       /\ next \notin DOMAIN ooo
       /\ ooo' = [seq \in DOMAIN ooo \ (recvBase..next) |-> ooo[seq]]
       /\ EndCheck(next,
                   Append(reassembled, f.payload)
                     \o [i \in 1..(next - recvBase - 1) |-> ooo[recvBase + i]],
                   endReceived)

HandleAhead(f) ==
  /\ f.type = "DATA" /\ OfSession(f)
  /\ InWindow(f.seq) /\ f.seq # recvBase
  /\ SendAck(session, f.seq, Cardinality(DOMAIN ooo))
  /\ ooo' = [seq \in DOMAIN ooo \cup {f.seq} |->
               IF seq \in DOMAIN ooo THEN ooo[seq] ELSE f.payload]
  /\ EndCheck(recvBase, reassembled, endReceived)

MutRewinds(f) ==
  /\ f.type = "DATA" /\ OfSession(f)
  /\ f.seq < recvBase
  /\ SendAck(session, f.seq, Cardinality(DOMAIN ooo))
  /\ EndCheck(f.seq, SubSeq(reassembled, 1, f.seq - 1), endReceived)
  /\ UNCHANGED ooo
MutSilent(f) ==
  /\ f.type = "DATA" /\ OfSession(f)
  /\ f.seq < recvBase
  /\ EndCheck(recvBase, reassembled, endReceived)
  /\ UNCHANGED <<ooo, toSender>>
HandleOld(f) ==
  /\ f.type = "DATA" /\ OfSession(f)
  /\ f.seq < recvBase
  /\ SendAck(session, f.seq, Cardinality(DOMAIN ooo))
  /\ EndCheck(recvBase, reassembled, endReceived)
  /\ UNCHANGED ooo

EndMatches(f) == OfSession(f) /\ f.seq = totalPackets + 1

(* END is acknowledged before anything is known to be complete.            *)
HandleEnd(f) ==
  /\ f.type = "END" /\ EndMatches(f)
  /\ SendAck(session, f.seq, Cardinality(DOMAIN ooo))
  /\ EndCheck(recvBase, reassembled, TRUE)
  /\ UNCHANGED ooo

(* Damaged, of another session, or beyond the window: no ACK, no effect.   *)
Ignored(f) ==
  \/ ~Accepted(f)
  \/ f.type = "DATA" /\ (~OfSession(f) \/ f.seq >= recvBase + WINDOW)
  \/ f.type = "END" /\ ~EndMatches(f)

Handle(f) ==
  HandleStart(f) \/ HandleInOrder(f) \/ HandleAhead(f) \/ HandleOld(f)
    \/ HandleEnd(f)

-----------------------------------------------------------------------------
ReceiveFrame ==
  /\ receiving
  /\ toReceiver # <<>>
  /\ toReceiver' = Tail(toReceiver)
  /\ Accepted(Head(toReceiver)) /\ Handle(Head(toReceiver))
  /\ UNCHANGED stable

IgnoreFrame ==
  /\ receiving
  /\ toReceiver # <<>>
  /\ toReceiver' = Tail(toReceiver)
  /\ Ignored(Head(toReceiver))
  /\ UNCHANGED <<receiverVars, toSender, stable>>

(* 30 seconds without a frame: the call returns nothing, whatever session  *)
(* is open, and RecvMode calls again.                                      *)
IdleTimeout ==
  /\ receiving
  /\ toReceiver = <<>>
  /\ FreshCall
  /\ UNCHANGED <<receiving, ooo, delivered, linkVars>>

(* RecvMode has decrypted the data and connected, written or given up; the *)
(* socket of the link was not read meanwhile.                              *)
ForwardDone ==
  /\ ~receiving
  /\ receiving' = TRUE
  /\ UNCHANGED <<sessionVars, ooo, delivered, linkVars>>

ReceiverStep == ReceiveFrame \/ IgnoreFrame \/ IdleTimeout \/ ForwardDone
=============================================================================
