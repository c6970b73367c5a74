------------------------------ MODULE GuardRelay ------------------------------
(***************************************************************************)
(* A payload's way from the gateway to the target host: the TCP connection *)
(* of DispatchFilteredPayloadTcp, the send-mode box, the link, the         *)
(* receive-mode box.  The gateway is PayloadFlow, which Gateway implements; *)
(* the link hands payloads over in order, whole, or not at all, as         *)
(* ReliableTransfer does, which GuardL2 implements.                        *)
(*                                                                         *)
(* Bytes are cells: cell 0 of a payload is its header with the length      *)
(* field, the others are its data.                                         *)
(***************************************************************************)
EXTENDS Integers, SequencesExt

CONSTANTS
  Message,
  File,     \* the messages that are files, the others are texts
  Wide,     \* texts with characters of more than one byte
  Size      \* data cells of each message, as its sender has them

ASSUME RelayAssumption ==
  /\ File \subseteq Message
  /\ Wide \subseteq Message \ File
  /\ Size \in [Message -> Nat \ {0}]
  /\ \A m \in Wide : Size[m] > 1

(* What sendText and sendFile announce.  A file announces its bytes.  A    *)
(* text announces its UTF-16 units, of which there are fewer than bytes.   *)
Announced(m)    == IF m \in Wide THEN Size[m] - 1 ELSE Size[m]

Data(m, n) == [i \in 1..n |-> <<m, i>>]
Cell == {cell \in Message \X Nat : cell[2] <= Size[cell[1]]}

(* FileSinkSession has read as many bytes as announced; what is sent on    *)
(* has a header with that length.                                          *)
Stream(m) == <<<<m, 0>>>> \o Data(m, Announced(m))
Whole(m) == Len(Stream(m))

VARIABLES
  gateway,   \* how far each message has come in CDSGateway
  left,      \* the messages it has dispatched
  backlog,   \* connections to send mode, with what they bring
  handed,    \* what receive_reliable_data has for RecvMode
  relaying,  \* RecvMode runs
  listening, \* the target's server_ listens
  pending    \* connections the target has not accepted, with their data

relayVars == <<backlog, handed, relaying>>

Flow == INSTANCE PayloadFlow WITH Client <- Message, state <- gateway

(* A connection may break anywhere: then `cells' is less than Whole, and   *)
(* CutAddress if not even the two addresses in front arrived.              *)
CutAddress == -1
Consignment == [msg : Message, cells : {CutAddress} \cup Nat]

RelayTypeOK ==
  /\ gateway \in [Message -> {"outside", "accepted", "dropped", "judged", "left"}]
  /\ left \in Seq(Message)
  /\ backlog \in Seq(Consignment) /\ handed \in Seq(Consignment)
  /\ \A queue \in {backlog, handed} : \A i \in DOMAIN queue :
       queue[i].cells <= Whole(queue[i].msg)
  /\ relaying \in BOOLEAN
  /\ listening \in BOOLEAN
  /\ pending \in Seq(Seq(Cell))

RelayInit ==
  /\ Flow!Init
  /\ backlog = <<>> /\ handed = <<>>
  /\ relaying = TRUE
  /\ listening = FALSE /\ pending = <<>>

(* DispatchFilteredPayloadTcp: an exception is logged and nothing repeated.*)
Dispatch(m) ==
  /\ Flow!Leave(m)
  /\ \/ \E cells \in CutAddress..Whole(m) :
          backlog' = Append(backlog, [msg |-> m, cells |-> cells])
     \/ UNCHANGED backlog
  /\ UNCHANGED <<handed, relaying, listening, pending>>

(* run_send_mode: it reads until the peer closes or the read fails, sends  *)
(* what there is in either case, and goes on whatever becomes of it.       *)
Carry ==
  /\ backlog # <<>>
  /\ backlog' = Tail(backlog)
  /\ \/ relaying /\ handed' = Append(handed, Head(backlog))
     \/ UNCHANGED handed
  /\ UNCHANGED <<gateway, left, relaying, listening, pending>>

(* decrypt: what was cut is refused for its length or its padding, or      *)
(* happens to end in valid padding and loses some cells.                   *)
Decrypted(c) == IF c.cells = Whole(c.msg) THEN {c.cells} ELSE 0..c.cells

(* run_recv_mode, once around its loop.  Without both addresses it reads   *)
(* past the end: it may end, or go on with an address made of garbage.     *)
(* Otherwise it connects and writes, of which either may fail.             *)
ForwardGarbage ==
  /\ Head(handed).cells = CutAddress
  /\ relaying' \in BOOLEAN
  /\ UNCHANGED pending

ForwardFails == Head(handed).cells # CutAddress /\ UNCHANGED <<relaying, pending>>

ForwardSome ==
  /\ Head(handed).cells # CutAddress
  /\ listening
  /\ \E got \in Decrypted(Head(handed)) : \E written \in 0..got :
       pending' = Append(pending, SubSeq(Stream(Head(handed).msg), 1, written))
  /\ UNCHANGED relaying

Forward ==
  /\ relaying /\ handed # <<>>
  /\ handed' = Tail(handed)
  /\ ForwardGarbage \/ ForwardFails \/ ForwardSome
  /\ UNCHANGED <<gateway, left, backlog, listening>>

RelayStep == Carry \/ Forward \/ \E m \in Message : Dispatch(m)
=============================================================================
