---------------------------- MODULE TransferClient ----------------------------
(***************************************************************************)
(* TransferController of the client application, as the target that        *)
(* receives.  Handlers run one at a time on its event loop; sockets and    *)
(* their entries in received_data_map_ are keyed by the address of the     *)
(* socket object, which the allocator gives to a new socket once the old   *)
(* one is deleted.                                                         *)
(***************************************************************************)
EXTENDS GuardRelay, Functions

CONSTANT Address

VARIABLES
  running,    \* the process is there
  unread,     \* per socket object: what has come in and was not read
  dangling,   \* addresses in clients_ whose object has been deleted
  received,   \* received_data_map_
  abandoned,  \* history: entries whose socket stopListening deleted
  mixed,      \* history: sockets that found an entry at their address
  inbox       \* texts shown and files saved, oldest first

clientVars ==
  <<running, unread, dangling, received, abandoned, mixed, inbox>>

Live == DOMAIN unread

ClientTypeOK ==
  /\ running \in BOOLEAN
  /\ Live \subseteq Address /\ Range(unread) \subseteq Seq(Cell)
  /\ dangling \subseteq Address
  /\ DOMAIN received \subseteq Address
  /\ Range(received) \subseteq Seq(Cell)
  /\ abandoned \subseteq DOMAIN received
  /\ mixed \subseteq Live
  /\ inbox \in Seq([cells : Seq(Cell), mixed : BOOLEAN])

ClientInit ==
  /\ running = TRUE
  /\ unread = <<>> /\ received = <<>>
  /\ dangling = {} /\ abandoned = {} /\ mixed = {}
  /\ inbox = <<>>

-----------------------------------------------------------------------------
StartListening ==
  /\ running /\ ~listening
  /\ listening' = TRUE
  /\ UNCHANGED <<pending, clientVars>>

(* onNewConnection takes all that are pending.                             *)
OnNewConnection ==
  /\ running /\ listening /\ pending # <<>>
  /\ \E place \in Injection(DOMAIN pending, Address \ Live) :
       /\ unread' = [a \in Live \cup Range(place) |->
                       IF a \in Live THEN unread[a]
                       ELSE pending[CHOOSE i \in DOMAIN pending : place[i] = a]]
       /\ mixed' = mixed \cup (Range(place) \cap DOMAIN received)
  /\ pending' = <<>>
  /\ UNCHANGED <<listening, running, dangling, received, abandoned, inbox>>

(* onSocketRead: operator[] makes the entry if there is none.              *)
OnSocketRead(a) ==
  /\ running /\ a \in Live /\ unread[a] # <<>>
  /\ \E n \in 1..Len(unread[a]) :
       /\ received' = [x \in DOMAIN received \cup {a} |->
                         IF x # a THEN received[x]
                         ELSE (IF a \in DOMAIN received THEN received[a] ELSE <<>>)
                                \o SubSeq(unread[a], 1, n)]
       /\ unread' = [unread EXCEPT ![a] = SubSeq(@, n + 1, Len(@))]
  /\ UNCHANGED <<listening, pending, running, dangling, abandoned, mixed, inbox>>

(* handleFileReceive and handleTextReceive: the tag, then as many bytes as *)
(* the length field says; what comes after them is not looked at.          *)
Need(stream) == Announced(stream[1][1])

MutComplete(stream) ==
  /\ stream # <<>> /\ stream[1][2] = 0
  /\ Len(stream) >= Need(stream)
Complete(stream) ==
  /\ stream # <<>> /\ stream[1][2] = 0
  /\ Len(stream) > Need(stream)

(* mid(), which stops at the end of the array.                             *)
Taken(stream) == SubSeq(stream, 2, Min({Need(stream) + 1, Len(stream)}))

(* What becomes of the entry: a file that cannot be opened or written to   *)
(* its end is not reported as saved.                                       *)
Item(a) == [cells |-> Taken(received[a]), mixed |-> a \in mixed]

Outcomes(a) ==
  IF a \notin DOMAIN received \/ ~Complete(received[a]) THEN {<<>>}
  ELSE {<<Item(a)>>} \cup {<<>> : m \in File \cap {received[a][1][1]}}

MutEntriesAfter(a) == received
EntriesAfter(a)    == Restrict(received, DOMAIN received \ {a})

(* onSocketDisconnected and deleteLater.  clients_ keeps the address.      *)
OnSocketDisconnected(a) ==
  /\ running /\ a \in Live /\ unread[a] = <<>>
  /\ \E shown \in Outcomes(a) : inbox' = inbox \o shown
  /\ received' = EntriesAfter(a)
  /\ unread' = Restrict(unread, Live \ {a})
  /\ dangling' = dangling \cup {a}
  /\ abandoned' = abandoned \ {a}
  /\ mixed' = mixed \ {a}
  /\ UNCHANGED <<listening, pending, running>>

(* stopListening deletes every address in clients_.  Those whose object is *)
(* already deleted are deleted twice: undefined, the process may end.  The *)
(* destructors emit disconnected, but sender() is no QTcpSocket any more,  *)
(* so the handler leaves the entries.                                      *)
StopListening ==
  /\ running /\ listening
  /\ listening' = FALSE
  /\ pending' = <<>>
  /\ running' \in IF dangling = {} THEN {TRUE} ELSE BOOLEAN
  /\ unread' = <<>>
  /\ dangling' = {}
  /\ abandoned' = abandoned \cup (Live \cap DOMAIN received)
  /\ mixed' = {}
  /\ UNCHANGED <<received, inbox>>

ClientStep ==
  \/ StartListening \/ OnNewConnection \/ StopListening
  \/ \E a \in Address : OnSocketRead(a) \/ OnSocketDisconnected(a)
=============================================================================
