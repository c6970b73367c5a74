------------------------------ MODULE PeersProofs ------------------------------
(***************************************************************************)
(* Proofs about Discovery and Courier, for any ports, messages and         *)
(* addresses of sockets: what is found was served since it was asked for,  *)
(* and what the target shows is the whole of one message.                  *)
(***************************************************************************)
EXTENDS MCPeers, SequenceFacts

-----------------------------------------------------------------------------
(* Discovery.                                                              *)

(* A nonce that is fresh was drawn when `since' was: the answer to it names *)
(* a port that has been served from then on.                               *)
AnswersRecent ==
  /\ \A i \in DOMAIN replies : replies[i].nonce = "fresh" => replies[i].port \in since
  /\ (\E i \in DOMAIN asks : asks[i] = "fresh") /\ serving # Nowhere => serving \in since

FindInv == FindTypeOK /\ AnswersRecent

Reply == [nonce : Nonce, port : Port]

LEMMA FindStarts == FindInit => FindInv
  <1> SUFFICES ASSUME FindInit PROVE FindInv
    OBVIOUS
  <1>1. asks = <<>> /\ replies = <<>> /\ since = {} /\ found = Nowhere
    BY DEF FindInit
  <1>2. /\ asks \in Seq(Nonce) /\ replies \in Seq(Reply)
        /\ Len(asks) = 0 /\ Len(replies) = 0
        /\ DOMAIN asks = {} /\ DOMAIN replies = {}
    <2>1. /\ <<>> \in Seq(Nonce) /\ <<>> \in Seq(Reply)
          /\ Len(<<>>) = 0
      BY EmptySeq
    <2>2. DOMAIN <<>> = {}
      OBVIOUS
    <2> QED
      BY <1>1, <2>1, <2>2
  <1>3. FindTypeOK
    <2>1. MAX_FLIGHT \in Nat
      BY DiscoveryAssumption
    <2>2. /\ who \in Seeker /\ serving \in Port \cup {Nowhere}
          /\ seeking \in {"off", "between", "waiting", "done"} /\ settled \in BOOLEAN
      BY DEF FindInit
    <2>3. /\ Len(asks) + Len(replies) <= MAX_FLIGHT
          /\ since \subseteq Port /\ found \in Port \cup {Nowhere}
      BY <1>1, <1>2, <2>1
    <2> QED
      BY ONLY <1>2, <2>2, <2>3 DEF FindTypeOK, Reply
  <1> QED
    BY <1>2, <1>3 DEF FindInv, AnswersRecent

LEMMA AgedTypes ==
  ASSUME FindTypeOK
  PROVE  /\ AgedAsks \in Seq(Nonce) /\ Len(AgedAsks) = Len(asks)
         /\ \A i \in DOMAIN AgedAsks : AgedAsks[i] = "old"
         /\ AgedReplies \in Seq(Reply) /\ Len(AgedReplies) = Len(replies)
         /\ \A i \in DOMAIN AgedReplies : AgedReplies[i].nonce = "old"
  <1>1. asks \in Seq(Nonce) /\ replies \in Seq(Reply)
    BY DEF FindTypeOK, Reply
  <1>2. "old" \in Nonce
    BY DEF Nonce
  <1>3. DOMAIN asks = 1..Len(asks) /\ Len(asks) \in Nat
    BY <1>1
  <1>4. /\ AgedAsks \in Seq(Nonce) /\ Len(AgedAsks) = Len(asks)
        /\ \A i \in DOMAIN AgedAsks : AgedAsks[i] = "old"
    <2>1. AgedAsks = [i \in 1..Len(asks) |-> "old"]
      BY <1>3 DEF AgedAsks
    <2> QED
      BY <1>2, <1>3, <2>1
  <1>5. DOMAIN replies = 1..Len(replies) /\ Len(replies) \in Nat
    BY <1>1
  <1>6. \A i \in DOMAIN replies :
          /\ [replies[i] EXCEPT !.nonce = "old"] \in Reply
          /\ [replies[i] EXCEPT !.nonce = "old"].nonce = "old"
    <2>1. \A r \in Reply : /\ [r EXCEPT !.nonce = "old"] \in Reply
                           /\ [r EXCEPT !.nonce = "old"].nonce = "old"
      BY <1>2 DEF Reply
    <2> QED
      BY <1>1, <2>1
  <1>7. /\ AgedReplies \in Seq(Reply) /\ Len(AgedReplies) = Len(replies)
        /\ \A i \in DOMAIN AgedReplies : AgedReplies[i].nonce = "old"
    <2>1. AgedReplies \in [1..Len(replies) -> Reply]
      BY <1>5, <1>6 DEF AgedReplies
    <2>2. AgedReplies \in Seq(Reply) /\ Len(AgedReplies) = Len(replies)
      BY <1>5, <2>1, SeqDef
    <2> QED
      BY <1>5, <1>6, <2>1, <2>2 DEF AgedReplies
  <1> QED
    BY <1>4, <1>7

LEMMA BroadcastKeeps ==
  ASSUME FindInv, Broadcast, UNCHANGED <<who, serving, settled>>,
         found' \in Port \cup {Nowhere}, seeking' \in {"off", "between", "waiting", "done"}
  PROVE  FindInv'
  <1>1. /\ FindTypeOK
        /\ Len(asks) \in Nat /\ Len(replies) \in Nat /\ MAX_FLIGHT \in Nat \ {0}
        /\ Len(asks) + Len(replies) <= MAX_FLIGHT
    BY DiscoveryAssumption DEF FindInv, FindTypeOK
  <1>2. /\ AgedAsks \in Seq(Nonce) /\ Len(AgedAsks) = Len(asks)
        /\ \A i \in DOMAIN AgedAsks : AgedAsks[i] = "old"
        /\ replies' \in Seq(Reply) /\ Len(replies') = Len(replies)
        /\ \A i \in DOMAIN replies' : replies'[i].nonce = "old"
    BY <1>1, AgedTypes DEF Broadcast
  <1>3. asks' \in Seq(Nonce) /\ Len(asks') + Len(replies') <= MAX_FLIGHT
    <2>1. CASE Len(asks) + Len(replies) < MAX_FLIGHT
      <3>1. "fresh" \in Nonce
        BY DEF Nonce
      <3>2. asks' = Append(AgedAsks, "fresh")
        BY <2>1 DEF Broadcast
      <3>3. asks' \in Seq(Nonce) /\ Len(asks') = Len(AgedAsks) + 1
        BY <1>2, <3>1, <3>2
      <3> QED
        BY <1>1, <1>2, <2>1, <3>3
    <2>2. CASE ~ (Len(asks) + Len(replies) < MAX_FLIGHT)
      BY <1>1, <1>2, <2>2 DEF Broadcast
    <2> QED
      BY <2>1, <2>2
  <1>4. FindTypeOK'
    BY <1>1, <1>2, <1>3 DEF FindTypeOK, Reply, Broadcast
  <1>5. serving # Nowhere => serving \in since'
    BY <1>1 DEF FindTypeOK, Broadcast
  <1>6. \A i \in DOMAIN replies' : replies'[i].nonce # "fresh"
    BY <1>2
  <1> QED
    BY <1>4, <1>5, <1>6 DEF FindInv, AnswersRecent

(* Taking an answer from the queue.                                        *)
LEMMA PopKeeps ==
  ASSUME FindInv, replies # <<>>, replies' = Tail(replies),
         UNCHANGED <<who, serving, asks, since, settled>>,
         found' \in {found, Head(replies).port},
         seeking' \in {"off", "between", "waiting", "done"}
  PROVE  FindInv'
  <1>1. replies \in Seq(Reply) /\ asks \in Seq(Nonce)
    BY DEF FindInv, FindTypeOK, Reply
  <1>2. /\ replies' \in Seq(Reply) /\ Len(replies') = Len(replies) - 1
        /\ \A i \in DOMAIN replies' : /\ i + 1 \in DOMAIN replies
                                     /\ replies'[i] = replies[i + 1]
        /\ Head(replies) \in Reply
    <2>1. /\ Tail(replies) \in Seq(Reply) /\ Len(Tail(replies)) = Len(replies) - 1
          /\ Len(replies) \in Nat \ {0}
          /\ \A i \in 1..(Len(replies) - 1) : Tail(replies)[i] = replies[i + 1]
          /\ Head(replies) \in Reply
      BY <1>1, HeadTailProperties
    <2> QED
      BY <2>1
  <1>3. Head(replies).port \in Port
    BY <1>2 DEF Reply
  <1>4. FindTypeOK'
    BY <1>1, <1>2, <1>3, DiscoveryAssumption DEF FindInv, FindTypeOK, Reply
  <1>5. AnswersRecent'
    BY <1>2 DEF FindInv, AnswersRecent
  <1> QED
    BY <1>4, <1>5 DEF FindInv

LEMMA RespondKeeps == ASSUME FindInv, Respond PROVE FindInv'
  <1>1. /\ asks \in Seq(Nonce) /\ replies \in Seq(Reply)
        /\ Len(asks) + Len(replies) <= MAX_FLIGHT
    BY DEF FindInv, FindTypeOK, Reply
  <1>2. /\ asks # <<>> /\ asks' = Tail(asks)
        /\ UNCHANGED <<who, serving, seeking, found, since, settled>>
    BY DEF Respond
  <1>3. /\ asks' \in Seq(Nonce) /\ Len(asks') = Len(asks) - 1
        /\ Len(asks) \in Nat \ {0} /\ Len(replies) \in Nat
        /\ \A i \in DOMAIN asks' : i + 1 \in DOMAIN asks /\ asks'[i] = asks[i + 1]
        /\ Head(asks) \in Nonce /\ 1 \in DOMAIN asks /\ Head(asks) = asks[1]
    <2>1. /\ Tail(asks) \in Seq(Nonce) /\ Len(Tail(asks)) = Len(asks) - 1
          /\ Len(asks) \in Nat \ {0}
          /\ \A i \in 1..(Len(asks) - 1) : Tail(asks)[i] = asks[i + 1]
          /\ Head(asks) \in Nonce /\ Head(asks) = asks[1]
      BY <1>1, <1>2, HeadTailProperties
    <2> QED
      BY <1>1, <1>2, <2>1
  <1>4. MAX_FLIGHT \in Nat
    BY DiscoveryAssumption
  <1>5. CASE ~Answers
    <2>1. replies' = replies
      BY <1>5 DEF Respond
    <2> QED
      BY <1>1, <1>2, <1>3, <1>4, <2>1 DEF FindInv, FindTypeOK, AnswersRecent, Reply
  <1>6. CASE Answers
    <2> DEFINE answer == [nonce |-> Head(asks), port |-> serving]
    <2>1. replies' = Append(replies, answer)
      BY <1>6 DEF Respond
    <2>2. serving \in Port
      BY <1>6 DEF Answers, FindInv, FindTypeOK
    <2>3. answer \in Reply /\ answer.nonce = Head(asks) /\ answer.port = serving
      BY <1>3, <2>2 DEF Reply
    <2> HIDE DEF answer
    <2>4. /\ replies' \in Seq(Reply) /\ Len(replies') = Len(replies) + 1
          /\ \A i \in DOMAIN replies' :
               \/ i \in DOMAIN replies /\ replies'[i] = replies[i]
               \/ replies'[i] = answer
      BY <1>1, <2>1, <2>3
    <2>5. FindTypeOK'
      BY <1>1, <1>2, <1>3, <1>4, <2>4 DEF FindInv, FindTypeOK, Reply
    <2>6. answer.nonce = "fresh" => answer.port \in since
      BY <1>3, <1>6, <2>3 DEF FindInv, AnswersRecent, Answers
    <2>7. AnswersRecent'
      BY <1>2, <1>3, <2>4, <2>6 DEF FindInv, AnswersRecent
    <2> QED
      BY <2>5, <2>7 DEF FindInv
  <1> QED
    BY <1>5, <1>6

LEMMA LoseKeeps == ASSUME FindInv, Lose PROVE FindInv'
  <1>1. /\ asks \in Seq(Nonce) /\ replies \in Seq(Reply)
        /\ Len(asks) \in Nat /\ Len(replies) \in Nat /\ MAX_FLIGHT \in Nat
        /\ Len(asks) + Len(replies) <= MAX_FLIGHT
    BY DiscoveryAssumption DEF FindInv, FindTypeOK, Reply
  <1>2. UNCHANGED <<who, serving, seeking, found, since, settled>>
    BY DEF Lose
  <1>3. ASSUME NEW F, NEW s \in Seq(F), NEW k \in DOMAIN s
        PROVE  /\ RemoveAt(s, k) \in Seq(F) /\ Len(RemoveAt(s, k)) = Len(s) - 1
               /\ \A i \in DOMAIN RemoveAt(s, k) :
                    \E j \in DOMAIN s : RemoveAt(s, k)[i] = s[j]
    <2>1. k \in 1..Len(s) /\ DOMAIN s = 1..Len(s) /\ Len(s) \in Nat
      OBVIOUS
    <2>2. /\ RemoveAt(s, k) \in Seq(F)
          /\ Len(RemoveAt(s, k)) = Len(s) - 1
          /\ \A i \in 1..(k - 1) : RemoveAt(s, k)[i] = s[i]
          /\ \A i \in k..(Len(s) - 1) : RemoveAt(s, k)[i] = s[i + 1]
      BY <2>1, RemoveAtElements
    <2>3. DOMAIN RemoveAt(s, k) = 1..(Len(s) - 1)
      BY <2>1, <2>2
    <2>4. ASSUME NEW i \in 1..(Len(s) - 1)
          PROVE  \E j \in DOMAIN s : RemoveAt(s, k)[i] = s[j]
      <3>1. CASE i < k
        <4>1. i \in 1..(k - 1) /\ i \in DOMAIN s
          BY <2>1, <3>1
        <4> QED
          BY <2>2, <4>1
      <3>2. CASE ~(i < k)
        <4>1. i \in k..(Len(s) - 1) /\ i + 1 \in DOMAIN s
          BY <2>1, <3>2
        <4> QED
          BY <2>2, <4>1
      <3> QED
        BY <3>1, <3>2
    <2> QED
      BY <2>2, <2>3, <2>4
  <1>4. CASE \E i \in DOMAIN asks : asks' = RemoveAt(asks, i) /\ UNCHANGED replies
    <2>1. PICK k \in DOMAIN asks : asks' = RemoveAt(asks, k) /\ UNCHANGED replies
      BY <1>4
    <2>2. /\ asks' \in Seq(Nonce) /\ Len(asks') = Len(asks) - 1
          /\ \A i \in DOMAIN asks' : \E j \in DOMAIN asks : asks'[i] = asks[j]
      BY <1>1, <1>3, <2>1
    <2> QED
      BY <1>1, <1>2, <2>1, <2>2 DEF FindInv, FindTypeOK, AnswersRecent, Reply
  <1>5. CASE \E i \in DOMAIN replies : replies' = RemoveAt(replies, i) /\ UNCHANGED asks
    <2>1. PICK k \in DOMAIN replies : replies' = RemoveAt(replies, k) /\ UNCHANGED asks
      BY <1>5
    <2>2. /\ replies' \in Seq(Reply) /\ Len(replies') = Len(replies) - 1
          /\ \A i \in DOMAIN replies' : \E j \in DOMAIN replies : replies'[i] = replies[j]
      BY <1>1, <1>3, <2>1
    <2> QED
      BY <1>1, <1>2, <2>1, <2>2 DEF FindInv, FindTypeOK, AnswersRecent, Reply
  <1> QED
    BY <1>4, <1>5 DEF Lose

LEMMA FindStep == FindInv /\ [FindNext]_findVars => FindInv'
  <1> SUFFICES ASSUME FindInv, [FindNext]_findVars PROVE FindInv'
    OBVIOUS
  <1>1. CASE Discover
    BY <1>1, BroadcastKeeps DEF Discover, FindInv, FindTypeOK
  <1>2. CASE StartRound
    BY <1>2, BroadcastKeeps DEF StartRound, FindInv, FindTypeOK
  <1>3. CASE HandlePong
    BY <1>3, PopKeeps DEF HandlePong, FindInv, FindTypeOK
  <1>4. CASE TakeReply
    BY <1>4, PopKeeps DEF TakeReply
  <1>5. CASE Unheard
    BY <1>5, PopKeeps DEF Unheard, FindInv, FindTypeOK
  <1>6. CASE Respond
    BY <1>6, RespondKeeps
  <1>7. CASE Lose
    BY <1>7, LoseKeeps
  <1>8. CASE Lookup \/ RoundTimesOut \/ Settle \/ UNCHANGED findVars
    BY <1>8 DEF Lookup, RoundTimesOut, Settle, findVars, FindInv, FindTypeOK, AnswersRecent
  <1>9. CASE \E port \in Port \cup {Nowhere} : Restart(port)
    BY <1>9 DEF Restart, FindInv, FindTypeOK, AnswersRecent
  <1> QED
    BY <1>1, <1>2, <1>3, <1>4, <1>5, <1>6, <1>7, <1>8, <1>9 DEF FindNext

(* `FoundIsRecent' of one step.                                            *)
Recent == found' \notin {found, Nowhere} => found' \in since

(* Whoever seeks takes an answer only with the nonce of the last question. *)
LEMMA FindRecent == FindInv /\ [FindNext]_findVars => Recent
  <1> SUFFICES ASSUME FindInv, [FindNext]_findVars PROVE Recent
    OBVIOUS
  <1>1. ASSUME replies # <<>>, Matches(Head(replies))
        PROVE  Head(replies).port \in since
    <2>1. replies \in Seq(Reply)
      BY DEF FindInv, FindTypeOK, Reply
    <2>2. Head(replies) = replies[1] /\ 1 \in DOMAIN replies
      BY <1>1, <2>1
    <2> QED
      BY <1>1, <2>2 DEF FindInv, AnswersRecent, Matches
  <1>2. CASE HandlePong \/ TakeReply
    BY <1>1, <1>2 DEF HandlePong, TakeReply, Recent
  <1>3. CASE Lookup
    BY <1>3 DEF Lookup, Recent
  <1>4. CASE \/ Discover \/ StartRound \/ RoundTimesOut \/ Unheard \/ Respond
             \/ Lose \/ Settle \/ UNCHANGED findVars
    BY <1>4 DEF Discover, StartRound, RoundTimesOut, Unheard, Respond, Lose, Settle,
                findVars, Recent
  <1>5. CASE \E port \in Port \cup {Nowhere} : Restart(port)
    BY <1>5 DEF Restart, Recent
  <1> QED
    BY <1>2, <1>3, <1>4, <1>5 DEF FindNext

-----------------------------------------------------------------------------
(* Courier.                                                                *)

(* What was read from a socket and what waits to be read are the beginning *)
(* of the stream of one message.                                           *)
OfOne(read, rest) ==
  \E m \in Message :
    /\ Len(read) + Len(rest) <= Announced(m) + 1
    /\ \A i \in DOMAIN read : read[i] = <<m, i - 1>>
    /\ \A i \in DOMAIN rest : rest[i] = <<m, Len(read) + i - 1>>

Entry(a) == IF a \in DOMAIN received THEN received[a] ELSE <<>>

PendingWhole == \A i \in DOMAIN pending : OfOne(<<>>, pending[i])
UnreadWhole  == \A a \in Live \ mixed : OfOne(Entry(a), unread[a])

PathInv ==
  /\ RelayTypeOK /\ ClientTypeOK /\ EntriesHaveSockets
  /\ PendingWhole /\ UnreadWhole /\ ShownWhole

LEMMA AnnouncedType ==
  ASSUME NEW m \in Message
  PROVE  /\ Announced(m) \in Nat \ {0} /\ Announced(m) <= Size[m]
         /\ Size[m] \in Nat \ {0}
  <1>1. Size[m] \in Nat \ {0} /\ (m \in Wide => Size[m] > 1)
    BY RelayAssumption
  <1>2. CASE m \in Wide
    BY <1>1, <1>2 DEF Announced
  <1>3. CASE m \notin Wide
    BY <1>1, <1>3 DEF Announced
  <1> QED
    BY <1>1, <1>2, <1>3

LEMMA CellFacts ==
  /\ \A m \in Message : \A k \in 0..Announced(m) : <<m, k>> \in Cell
  /\ \A cell \in Cell : cell[1] \in Message
  <1>1. ASSUME NEW m \in Message, NEW k \in 0..Announced(m) PROVE <<m, k>> \in Cell
    <2>1. k \in Nat /\ k <= Size[m]
      BY AnnouncedType
    <2>2. <<m, k>> \in Message \X Nat /\ <<m, k>>[1] = m /\ <<m, k>>[2] = k
      BY <2>1
    <2> QED
      BY <2>1, <2>2 DEF Cell
  <1>2. \A cell \in Cell : cell[1] \in Message
    BY DEF Cell
  <1> QED
    BY <1>1, <1>2

LEMMA StreamFacts ==
  ASSUME NEW m \in Message
  PROVE  /\ Stream(m) \in Seq(Cell)
         /\ Len(Stream(m)) = Announced(m) + 1 /\ Whole(m) = Announced(m) + 1
         /\ \A i \in 1..(Announced(m) + 1) : Stream(m)[i] = <<m, i - 1>>
  <1> DEFINE n == Announced(m)
             data == Data(m, n)
             head == <<<<m, 0>>>>
  <1>1. n \in Nat
    BY AnnouncedType
  <1>2. \A k \in 0..n : <<m, k>> \in Cell
    BY CellFacts
  <1> HIDE DEF n
  <1>3. data \in Seq(Cell) /\ Len(data) = n /\ \A i \in 1..n : data[i] = <<m, i>>
    <2>1. data \in [1..n -> Cell]
      BY <1>1, <1>2 DEF Data
    <2>2. data \in Seq(Cell) /\ Len(data) = n
      BY <1>1, <2>1, SeqDef
    <2> QED
      BY <2>2 DEF Data
  <1> HIDE DEF data
  <1>4. head \in Seq(Cell) /\ Len(head) = 1 /\ head[1] = <<m, 0>>
    BY <1>1, <1>2
  <1> HIDE DEF head
  <1>5. /\ head \o data \in Seq(Cell)
        /\ Len(head \o data) = 1 + n
        /\ \A i \in 1..Len(head) : (head \o data)[i] = head[i]
        /\ \A i \in (Len(head) + 1)..(Len(head) + n) :
             (head \o data)[i] = data[i - Len(head)]
    BY <1>3, <1>4, ConcatElements
  <1>6. \A i \in 1..(n + 1) : (head \o data)[i] = <<m, i - 1>>
    <2> SUFFICES ASSUME NEW i \in 1..(n + 1) PROVE (head \o data)[i] = <<m, i - 1>>
      OBVIOUS
    <2>1. CASE i = 1
      <3>1. i - 1 = 0 /\ 1 \in 1..Len(head)
        BY <1>4, <2>1
      <3>2. (head \o data)[1] = <<m, 0>>
        BY <1>4, <1>5, <3>1
      <3> QED
        BY <2>1, <3>1, <3>2
    <2>2. CASE i # 1
      <3>1. i \in 2..(1 + n) /\ i - 1 \in 1..n
        BY <1>1, <2>2
      <3>2. (head \o data)[i] = data[i - 1]
        BY <1>4, <1>5, <3>1
      <3> QED
        BY <1>3, <3>1, <3>2
    <2> QED
      BY <2>1, <2>2
  <1>7. Stream(m) = head \o data
    BY DEF Stream, head, data, n
  <1>8. n + 1 = 1 + n
    BY <1>1
  <1> QED
    BY <1>5, <1>6, <1>7, <1>8 DEF Whole, n

LEMMA StreamsStart == Init => PathInv
  <1> SUFFICES ASSUME Init PROVE PathInv
    OBVIOUS
  <1>1. \A S : <<>> \in Seq(S) /\ DOMAIN <<>> = {}
    BY EmptySeq
  <1>2. RelayTypeOK
    <2>1. /\ backlog = <<>> /\ handed = <<>> /\ pending = <<>>
          /\ relaying \in BOOLEAN /\ listening \in BOOLEAN
          /\ gateway = [c \in Message |-> "outside"] /\ left = <<>>
      BY DEF Init, RelayInit, Flow!Init
    <2> QED
      BY <1>1, <2>1 DEF RelayTypeOK
  <1>3. /\ running = TRUE /\ unread = <<>> /\ received = <<>> /\ pending = <<>>
        /\ dangling = {} /\ abandoned = {} /\ mixed = {} /\ inbox = <<>>
    BY DEF Init, RelayInit, ClientInit
  <1>4. Live = {} /\ DOMAIN received = {} /\ DOMAIN pending = {} /\ DOMAIN inbox = {}
    BY <1>1, <1>3 DEF Live
  <1>5. ClientTypeOK
    BY <1>1, <1>3, <1>4 DEF ClientTypeOK, Range, Live
  <1> QED
    BY <1>2, <1>4, <1>5 DEF PathInv, EntriesHaveSockets, PendingWhole, UnreadWhole, ShownWhole

(* The gateway's part, and the queues of the two boxes.                    *)
BoxQueue == {queue \in Seq(Consignment) :
               \A i \in DOMAIN queue : queue[i].cells <= Whole(queue[i].msg)}

LEMMA BoxQueues ==
  /\ \A queue \in BoxQueue : queue # <<>> =>
       /\ Tail(queue) \in BoxQueue
       /\ Head(queue) \in Consignment /\ Head(queue).cells <= Whole(Head(queue).msg)
  /\ \A queue \in BoxQueue : \A c \in Consignment :
       c.cells <= Whole(c.msg) => Append(queue, c) \in BoxQueue
  <1>1. ASSUME NEW queue \in BoxQueue, queue # <<>>
        PROVE  /\ Tail(queue) \in BoxQueue
               /\ Head(queue) \in Consignment
               /\ Head(queue).cells <= Whole(Head(queue).msg)
    <2>1. /\ queue \in Seq(Consignment)
          /\ \A i \in DOMAIN queue : queue[i].cells <= Whole(queue[i].msg)
      BY DEF BoxQueue
    <2>2. /\ Head(queue) \in Consignment /\ Head(queue) = queue[1] /\ 1 \in DOMAIN queue
          /\ Tail(queue) \in Seq(Consignment)
          /\ \A i \in DOMAIN Tail(queue) :
               i + 1 \in DOMAIN queue /\ Tail(queue)[i] = queue[i + 1]
      BY <1>1, <2>1
    <2> QED
      BY <2>1, <2>2 DEF BoxQueue
  <1>2. ASSUME NEW queue \in BoxQueue, NEW c \in Consignment, c.cells <= Whole(c.msg)
        PROVE  Append(queue, c) \in BoxQueue
    <2>1. /\ queue \in Seq(Consignment)
          /\ \A i \in DOMAIN queue : queue[i].cells <= Whole(queue[i].msg)
      BY DEF BoxQueue
    <2>2. /\ Append(queue, c) \in Seq(Consignment)
          /\ \A i \in DOMAIN Append(queue, c) :
               \/ i \in DOMAIN queue /\ Append(queue, c)[i] = queue[i]
               \/ Append(queue, c)[i] = c
      BY <2>1
    <2> QED
      BY <1>2, <2>1, <2>2 DEF BoxQueue
  <1> QED
    BY <1>1, <1>2

LEMMA RelayTypes ==
  RelayTypeOK <=>
    /\ gateway \in [Message -> {"outside", "accepted", "dropped", "judged", "left"}]
    /\ left \in Seq(Message)
    /\ backlog \in BoxQueue /\ handed \in BoxQueue
    /\ relaying \in BOOLEAN /\ listening \in BOOLEAN
    /\ pending \in Seq(Seq(Cell))
  BY DEF RelayTypeOK, BoxQueue

(* A message moves on in the gateway.                                      *)
LEMMA BecomesType ==
  ASSUME RelayTypeOK, NEW m \in Message, NEW from,
         NEW to \in {"outside", "accepted", "dropped", "judged", "left"},
         Flow!Becomes(m, from, to)
  PROVE  gateway' \in [Message -> {"outside", "accepted", "dropped", "judged", "left"}]
  BY DEF RelayTypeOK, Flow!Becomes

LEMMA PendingSame ==
  ASSUME PathInv, RelayTypeOK', UNCHANGED <<pending, clientVars>>
  PROVE  PathInv'
  BY DEF PathInv, clientVars, ClientTypeOK, EntriesHaveSockets, PendingWhole, UnreadWhole,
         ShownWhole, Live, Entry

LEMMA GatewayKeeps ==
  ASSUME PathInv, NEW m \in Message, SendData(m) \/ Judge(m) \/ (Dispatch(m) /\ UNCHANGED clientVars)
  PROVE  PathInv'
  <1>1. RelayTypeOK
    BY DEF PathInv
  <1>2. CASE SendData(m)
    <2>1. UNCHANGED <<left, backlog, handed, relaying, listening, pending, clientVars>>
      BY <1>2 DEF SendData, Flow!Admit, relayVars
    <2>2. gateway' \in [Message -> {"outside", "accepted", "dropped", "judged", "left"}]
      BY <1>1, <1>2, BecomesType DEF SendData, Flow!Admit
    <2>3. RelayTypeOK'
      BY <1>1, <2>1, <2>2 DEF RelayTypeOK
    <2> QED
      BY <2>1, <2>3, PendingSame
  <1>3. CASE Judge(m)
    <2>1. UNCHANGED <<left, backlog, handed, relaying, listening, pending, clientVars>>
      BY <1>3 DEF Judge, Flow!Judge, relayVars
    <2>2. gateway' \in [Message -> {"outside", "accepted", "dropped", "judged", "left"}]
      BY <1>1, <1>3, BecomesType DEF Judge, Flow!Judge
    <2>3. RelayTypeOK'
      BY <1>1, <2>1, <2>2 DEF RelayTypeOK
    <2> QED
      BY <2>1, <2>3, PendingSame
  <1>4. CASE Dispatch(m) /\ UNCHANGED clientVars
    <2>1. UNCHANGED <<handed, relaying, listening, pending, clientVars>>
      BY <1>4 DEF Dispatch
    <2>2. gateway' \in [Message -> {"outside", "accepted", "dropped", "judged", "left"}]
      BY <1>1, <1>4, BecomesType DEF Dispatch, Flow!Leave
    <2>3. left' \in Seq(Message)
      BY <1>1, <1>4 DEF Dispatch, Flow!Leave, RelayTypeOK
    <2>4. ASSUME NEW cells \in CutAddress..Whole(m),
                 backlog' = Append(backlog, [msg |-> m, cells |-> cells])
          PROVE  backlog' \in Seq(Consignment) /\ backlog' \in BoxQueue
      <3>1. backlog \in BoxQueue
        BY <1>1, RelayTypes
      <3>2. Whole(m) \in Nat
        BY StreamFacts, AnnouncedType
      <3>3. cells \in {CutAddress} \cup Nat /\ cells <= Whole(m)
        BY <3>2 DEF CutAddress
      <3>4. Append(backlog, [msg |-> m, cells |-> cells]) \in BoxQueue
        <4> DEFINE c == [msg |-> m, cells |-> cells]
        <4>1. c \in Consignment /\ c.cells <= Whole(c.msg)
          BY <3>3 DEF Consignment
        <4> HIDE DEF c
        <4>2. Append(backlog, c) \in BoxQueue
          BY <3>1, <4>1, BoxQueues
        <4> QED
          BY <4>2 DEF c
      <3> QED
        BY <2>4, <3>4 DEF BoxQueue
    <2>5. backlog' \in BoxQueue
      <3>1. CASE UNCHANGED backlog
        BY <1>1, <3>1, RelayTypes
      <3>2. CASE \E cells \in CutAddress..Whole(m) :
                   backlog' = Append(backlog, [msg |-> m, cells |-> cells])
        BY <2>4, <3>2
      <3> QED
        BY <1>4, <3>1, <3>2 DEF Dispatch
    <2>6. RelayTypeOK'
      BY <1>1, <2>1, <2>2, <2>3, <2>5 DEF RelayTypeOK, BoxQueue
    <2> QED
      BY <2>1, <2>6, PendingSame
  <1> QED
    BY <1>2, <1>3, <1>4

LEMMA CarryKeeps == ASSUME PathInv, Carry, UNCHANGED clientVars PROVE PathInv'
  <1>1. RelayTypeOK /\ backlog \in BoxQueue /\ handed \in BoxQueue
    BY RelayTypes DEF PathInv
  <1>2. UNCHANGED <<gateway, left, relaying, listening, pending, clientVars>>
    BY DEF Carry
  <1>3. /\ backlog' \in BoxQueue
        /\ Head(backlog) \in Consignment
        /\ Head(backlog).cells <= Whole(Head(backlog).msg)
    BY <1>1, BoxQueues DEF Carry
  <1>4. handed' \in BoxQueue
    <2>1. Append(handed, Head(backlog)) \in BoxQueue
      BY <1>1, <1>3, BoxQueues
    <2> QED
      BY <1>1, <2>1 DEF Carry
  <1>5. RelayTypeOK'
    BY <1>1, <1>2, <1>3, <1>4 DEF RelayTypeOK, BoxQueue
  <1> QED
    BY <1>2, <1>5, PendingSame

(* What is written is the beginning of the message's stream.               *)
LEMMA WrittenIsOfOne ==
  ASSUME NEW m \in Message, NEW written \in 0..Whole(m)
  PROVE  /\ SubSeq(Stream(m), 1, written) \in Seq(Cell)
         /\ OfOne(<<>>, SubSeq(Stream(m), 1, written))
  <1>1. /\ Stream(m) \in Seq(Cell) /\ Len(Stream(m)) = Whole(m)
        /\ Whole(m) = Announced(m) + 1 /\ Announced(m) \in Nat
        /\ \A i \in 1..Whole(m) : Stream(m)[i] = <<m, i - 1>>
    BY StreamFacts, AnnouncedType
  <1> DEFINE some == SubSeq(Stream(m), 1, written)
  <1>2. /\ some \in Seq(Cell) /\ Len(some) = written
        /\ \A i \in 1..written : some[i] = Stream(m)[i]
    BY <1>1, SubSeqElements
  <1> HIDE DEF some
  <1>3. DOMAIN <<>> = {} /\ Len(<<>>) = 0
    BY EmptySeq
  <1>4. /\ Len(<<>>) + Len(some) <= Announced(m) + 1
        /\ \A i \in DOMAIN some : some[i] = <<m, Len(<<>>) + i - 1>>
    <2>1. written \in Nat /\ written <= Announced(m) + 1 /\ DOMAIN some = 1..written
      BY <1>1, <1>2
    <2>2. ASSUME NEW i \in 1..written PROVE some[i] = <<m, 0 + i - 1>>
      <3>1. i \in 1..Whole(m) /\ 0 + i - 1 = i - 1
        BY <1>1, <2>1
      <3> QED
        BY <1>1, <1>2, <3>1
    <2> QED
      BY <1>2, <1>3, <2>1, <2>2
  <1>5. OfOne(<<>>, some)
    BY <1>3, <1>4 DEF OfOne
  <1> QED
    BY <1>2, <1>5 DEF some

LEMMA ForwardKeeps == ASSUME PathInv, Forward, UNCHANGED clientVars PROVE PathInv'
  <1>1. RelayTypeOK /\ backlog \in BoxQueue /\ handed \in BoxQueue
        /\ pending \in Seq(Seq(Cell)) /\ PendingWhole
    BY RelayTypes DEF PathInv
  <1>2. UNCHANGED <<gateway, left, backlog, listening, clientVars>>
    BY DEF Forward
  <1> DEFINE c == Head(handed)
  <1>3. handed' \in BoxQueue /\ c \in Consignment /\ c.cells <= Whole(c.msg)
    BY <1>1, BoxQueues DEF Forward
  <1> HIDE DEF c
  <1>4. CASE ForwardGarbage \/ ForwardFails
    <2>1. UNCHANGED pending /\ relaying' \in BOOLEAN
      BY <1>1, <1>4 DEF ForwardGarbage, ForwardFails, RelayTypeOK
    <2>2. RelayTypeOK'
      BY <1>1, <1>2, <1>3, <2>1 DEF RelayTypeOK, BoxQueue
    <2> QED
      BY <1>2, <2>1, <2>2, PendingSame
  <1>5. CASE ForwardSome
    <2>1. c.cells # CutAddress /\ UNCHANGED relaying
      BY <1>5 DEF ForwardSome, c
    <2>2. c.msg \in Message /\ c.cells \in Nat /\ Whole(c.msg) \in Nat
      <3>1. c.msg \in Message /\ c.cells \in Nat
        BY <1>3, <2>1 DEF Consignment
      <3> QED
        BY <3>1, StreamFacts, AnnouncedType
    <2>3. PICK got \in Decrypted(c) : \E written \in 0..got :
            pending' = Append(pending, SubSeq(Stream(c.msg), 1, written))
      BY <1>5 DEF ForwardSome, c
    <2>4. PICK written \in 0..got :
            pending' = Append(pending, SubSeq(Stream(c.msg), 1, written))
      BY <2>3
    <2>5. got \in Nat /\ got <= Whole(c.msg)
      BY <1>3, <2>2 DEF Decrypted
    <2>6. written \in 0..Whole(c.msg)
      BY <2>2, <2>5
    <2> DEFINE some == SubSeq(Stream(c.msg), 1, written)
    <2>7. some \in Seq(Cell) /\ OfOne(<<>>, some)
      BY <2>2, <2>6, WrittenIsOfOne
    <2>8. pending' = Append(pending, some)
      BY <2>4
    <2> HIDE DEF some
    <2>9. /\ pending' \in Seq(Seq(Cell))
          /\ \A i \in DOMAIN pending' :
               \/ i \in DOMAIN pending /\ pending'[i] = pending[i]
               \/ pending'[i] = some
      BY <1>1, <2>7, <2>8
    <2>10. \A i \in DOMAIN pending' : OfOne(<<>>, pending'[i])
      BY <1>1, <2>7, <2>9 DEF PendingWhole
    <2>11. RelayTypeOK'
      BY <1>1, <1>2, <1>3, <2>1, <2>9 DEF RelayTypeOK, BoxQueue
    <2>12. UNCHANGED <<running, unread, dangling, received, abandoned, mixed, inbox>>
      BY <1>2 DEF clientVars
    <2>13. PendingWhole'
      BY <2>10 DEF PendingWhole, OfOne
    <2> QED
      BY <2>11, <2>12, <2>13
      DEF PathInv, ClientTypeOK, EntriesHaveSockets, UnreadWhole, ShownWhole, Live, Entry
  <1> QED
    BY <1>4, <1>5 DEF Forward

(* The target.                                                             *)
LEMMA StreamTypes ==
  ASSUME PathInv
  PROVE  /\ \A a \in Live : a \in Address /\ unread[a] \in Seq(Cell)
         /\ \A a \in DOMAIN received : a \in Address /\ received[a] \in Seq(Cell)
         /\ \A a : Entry(a) \in Seq(Cell)
  <1>1. /\ Live \subseteq Address /\ DOMAIN received \subseteq Address
        /\ Range(unread) \subseteq Seq(Cell) /\ Range(received) \subseteq Seq(Cell)
    BY DEF PathInv, ClientTypeOK
  <1>2. \A a \in Live : unread[a] \in Seq(Cell)
    BY <1>1 DEF Range, Live
  <1>3. \A a \in DOMAIN received : received[a] \in Seq(Cell)
    BY <1>1 DEF Range
  <1>4. \A a : Entry(a) \in Seq(Cell)
    BY <1>3, EmptySeq DEF Entry
  <1> QED
    BY <1>1, <1>2, <1>3, <1>4

LEMMA ListenKeeps ==
  ASSUME PathInv, StartListening, UNCHANGED <<gateway, left, relayVars>>
  PROVE  PathInv'
  <1>1. RelayTypeOK'
    BY DEF StartListening, PathInv, RelayTypeOK, relayVars
  <1>2. UNCHANGED <<pending, clientVars>>
    BY DEF StartListening
  <1> QED
    BY <1>1, <1>2, PendingSame

LEMMA ConnectionKeeps ==
  ASSUME PathInv, OnNewConnection, UNCHANGED <<gateway, left, relayVars>>
  PROVE  PathInv'
  <1>1. UNCHANGED <<listening, running, dangling, received, abandoned, inbox>>
    BY DEF OnNewConnection
  <1>2. RelayTypeOK /\ ClientTypeOK /\ EntriesHaveSockets /\ PendingWhole /\ UnreadWhole
        /\ ShownWhole
    BY DEF PathInv
  <1>3. pending' = <<>> /\ pending' \in Seq(Seq(Cell)) /\ DOMAIN pending' = {}
    <2>1. <<>> \in Seq(Seq(Cell)) /\ DOMAIN <<>> = {}
      BY EmptySeq
    <2> QED
      BY <2>1 DEF OnNewConnection
  <1>4. RelayTypeOK'
    BY <1>1, <1>2, <1>3 DEF RelayTypeOK, relayVars
  <1>5. PendingWhole'
    BY <1>3 DEF PendingWhole
  <1>6. PICK place \in Injection(DOMAIN pending, Address \ Live) :
          /\ unread' = [a \in Live \cup Range(place) |->
                          IF a \in Live THEN unread[a]
                          ELSE pending[CHOOSE i \in DOMAIN pending : place[i] = a]]
          /\ mixed' = mixed \cup (Range(place) \cap DOMAIN received)
    BY DEF OnNewConnection
  <1>7. place \in [DOMAIN pending -> Address \ Live]
    BY DEF Injection
  <1>8. Range(place) \subseteq Address \ Live
    BY <1>7 DEF Range
  <1>9. \A a \in Range(place) : \E i \in DOMAIN pending : unread'[a] = pending[i]
    <2> SUFFICES ASSUME NEW a \in Range(place)
                 PROVE  \E i \in DOMAIN pending : unread'[a] = pending[i]
      OBVIOUS
    <2>1. \E i \in DOMAIN pending : place[i] = a
      BY <1>7 DEF Range
    <2>2. PICK k : k = CHOOSE i \in DOMAIN pending : place[i] = a
      OBVIOUS
    <2>3. k \in DOMAIN pending
      BY <2>1, <2>2
    <2>4. unread'[a] = pending[k]
      BY <1>6, <1>8, <2>2
    <2> QED
      BY <2>3, <2>4
  <1>10. Live' = Live \cup Range(place) /\ \A a \in Live : unread'[a] = unread[a]
    BY <1>6 DEF Live
  <1>11. \A a \in Live' : unread'[a] \in Seq(Cell)
    <2>1. \A i \in DOMAIN pending : pending[i] \in Seq(Cell)
      BY <1>2 DEF RelayTypeOK
    <2> QED
      BY <1>9, <1>10, <2>1, StreamTypes
  <1>12. ClientTypeOK'
    <2>1. Live' \subseteq Address /\ mixed' \subseteq Live'
      BY <1>2, <1>6, <1>8, <1>10 DEF ClientTypeOK
    <2>2. Range(unread') \subseteq Seq(Cell)
      BY <1>11 DEF Range, Live
    <2> QED
      BY <1>1, <1>2, <2>1, <2>2 DEF ClientTypeOK
  <1>13. EntriesHaveSockets'
    BY <1>1, <1>2, <1>10 DEF EntriesHaveSockets
  <1>14. \A a \in Live' \ mixed' : OfOne(Entry(a), unread'[a])
    <2> SUFFICES ASSUME NEW a \in Live', a \notin mixed'
                 PROVE  OfOne(Entry(a), unread'[a])
      OBVIOUS
    <2>1. CASE a \in Live
      BY <1>2, <1>6, <1>10, <2>1 DEF UnreadWhole
    <2>2. CASE a \in Range(place)
      <3>1. Entry(a) = <<>>
        BY <1>6, <2>2 DEF Entry
      <3> QED
        BY <1>2, <1>9, <2>2, <3>1 DEF PendingWhole
    <2> QED
      BY <1>10, <2>1, <2>2
  <1>15. UnreadWhole'
    BY <1>1, <1>14 DEF UnreadWhole, Entry, OfOne
  <1>16. ShownWhole'
    BY <1>1, <1>2 DEF ShownWhole
  <1> QED
    BY <1>4, <1>5, <1>12, <1>13, <1>15, <1>16 DEF PathInv

LEMMA StopKeeps ==
  ASSUME PathInv, StopListening, UNCHANGED <<gateway, left, relayVars>>
  PROVE  PathInv'
  <1>1. RelayTypeOK /\ ClientTypeOK /\ EntriesHaveSockets /\ ShownWhole
    BY DEF PathInv
  <1>2. /\ pending' = <<>> /\ unread' = <<>> /\ mixed' = {} /\ dangling' = {}
        /\ listening' = FALSE /\ running' \in BOOLEAN
        /\ abandoned' = abandoned \cup (Live \cap DOMAIN received)
        /\ UNCHANGED <<received, inbox>>
    BY DEF StopListening
  <1>3. \A S : <<>> \in Seq(S) /\ DOMAIN <<>> = {}
    BY EmptySeq
  <1>4. RelayTypeOK'
    BY <1>1, <1>2, <1>3 DEF RelayTypeOK, relayVars
  <1>5. Live' = {} /\ DOMAIN pending' = {}
    BY <1>2, <1>3 DEF Live
  <1>6. ClientTypeOK'
    <2>1. Range(unread') = {}
      BY <1>2, <1>3 DEF Range
    <2> QED
      BY <1>1, <1>2, <1>5, <2>1 DEF ClientTypeOK
  <1>7. EntriesHaveSockets'
    BY <1>1, <1>2, <1>5 DEF EntriesHaveSockets
  <1>8. PendingWhole' /\ UnreadWhole'
    BY <1>5 DEF PendingWhole, UnreadWhole
  <1>9. ShownWhole'
    BY <1>1, <1>2 DEF ShownWhole
  <1> QED
    BY <1>4, <1>6, <1>7, <1>8, <1>9 DEF PathInv

(* Reading moves the boundary inside the stream.                           *)
LEMMA ReadOn ==
  ASSUME NEW read \in Seq(Cell), NEW rest \in Seq(Cell), OfOne(read, rest),
         NEW n \in 1..Len(rest)
  PROVE  /\ read \o SubSeq(rest, 1, n) \in Seq(Cell)
         /\ SubSeq(rest, n + 1, Len(rest)) \in Seq(Cell)
         /\ OfOne(read \o SubSeq(rest, 1, n), SubSeq(rest, n + 1, Len(rest)))
  <1> DEFINE some == SubSeq(rest, 1, n)
             more == SubSeq(rest, n + 1, Len(rest))
             now == read \o some
             k == Len(read)
  <1>1. PICK m \in Message :
          /\ Len(read) + Len(rest) <= Announced(m) + 1
          /\ \A i \in DOMAIN read : read[i] = <<m, i - 1>>
          /\ \A i \in DOMAIN rest : rest[i] = <<m, Len(read) + i - 1>>
    BY DEF OfOne
  <1>2. /\ k \in Nat /\ Len(rest) \in Nat /\ n \in Nat /\ n <= Len(rest) /\ n >= 1
        /\ DOMAIN read = 1..k /\ DOMAIN rest = 1..Len(rest)
        /\ Announced(m) \in Nat
    BY AnnouncedType
  <1>3. /\ some \in Seq(Cell) /\ Len(some) = n
        /\ \A i \in 1..n : some[i] = rest[i]
    BY <1>2, SubSeqElements
  <1>4. /\ more \in Seq(Cell) /\ Len(more) = Len(rest) - n
        /\ \A i \in 1..(Len(rest) - n) : more[i] = rest[n + i]
    BY <1>2, SuffixElements
  <1> HIDE DEF some, more
  <1>5. /\ now \in Seq(Cell) /\ Len(now) = k + n
        /\ \A i \in 1..k : now[i] = read[i]
        /\ \A i \in (k + 1)..(k + n) : now[i] = some[i - k]
        /\ DOMAIN now = 1..(k + n) /\ DOMAIN more = 1..(Len(rest) - n)
    <2>1. /\ now \in Seq(Cell) /\ Len(now) = Len(read) + Len(some)
          /\ \A i \in 1..Len(read) : now[i] = read[i]
          /\ \A i \in (Len(read) + 1)..(Len(read) + Len(some)) :
               now[i] = some[i - Len(read)]
      <3>1. read \in Seq(Cell) /\ some \in Seq(Cell)
        BY <1>3
      <3> QED
        BY ONLY <3>1, ConcatElements DEF now
    <2>2. DOMAIN now = 1..Len(now) /\ DOMAIN more = 1..Len(more)
      BY <1>4, <2>1
    <2> QED
      BY <1>3, <1>4, <2>1, <2>2
  <1> HIDE DEF now, k
  <1>6. Len(now) + Len(more) <= Announced(m) + 1
    BY <1>1, <1>2, <1>4, <1>5 DEF k
  <1>7. \A i \in DOMAIN now : now[i] = <<m, i - 1>>
    <2> SUFFICES ASSUME NEW i \in 1..(k + n) PROVE now[i] = <<m, i - 1>>
      BY <1>5
    <2>1. CASE i <= k
      <3>1. i \in 1..k
        BY <1>2, <2>1
      <3> QED
        BY <1>1, <1>2, <1>5, <3>1
    <2>2. CASE ~ (i <= k)
      <3>1. i \in (k + 1)..(k + n) /\ i - k \in 1..n /\ i - k \in 1..Len(rest)
            /\ k + (i - k) - 1 = i - 1
        BY <1>2, <2>2
      <3>2. now[i] = rest[i - k]
        BY <1>3, <1>5, <3>1
      <3>3. rest[i - k] = <<m, k + (i - k) - 1>>
        BY <1>1, <1>2, <3>1 DEF k
      <3> QED
        BY <3>1, <3>2, <3>3
    <2> QED
      BY <2>1, <2>2
  <1>8. \A i \in DOMAIN more : more[i] = <<m, Len(now) + i - 1>>
    <2> SUFFICES ASSUME NEW i \in 1..(Len(rest) - n)
                 PROVE  more[i] = <<m, Len(now) + i - 1>>
      BY <1>5
    <2>1. n + i \in 1..Len(rest) /\ k + (n + i) - 1 = (k + n) + i - 1
      BY <1>2
    <2>2. rest[n + i] = <<m, k + (n + i) - 1>>
      BY <1>1, <1>2, <2>1 DEF k
    <2> QED
      BY <1>4, <1>5, <2>1, <2>2
  <1>9. OfOne(now, more)
    BY <1>6, <1>7, <1>8 DEF OfOne
  <1> QED
    BY <1>4, <1>5, <1>9 DEF now, some, more

LEMMA ReadKeeps ==
  ASSUME PathInv, NEW a \in Address, OnSocketRead(a), UNCHANGED <<gateway, left, relayVars>>
  PROVE  PathInv'
  <1>1. /\ RelayTypeOK /\ ClientTypeOK /\ EntriesHaveSockets /\ PendingWhole /\ UnreadWhole
        /\ ShownWhole /\ a \in Live
    BY DEF PathInv, OnSocketRead
  <1>2. UNCHANGED <<listening, pending, running, dangling, abandoned, mixed, inbox>>
    BY DEF OnSocketRead
  <1>3. PICK n \in 1..Len(unread[a]) :
          /\ received' = [x \in DOMAIN received \cup {a} |->
                            IF x # a THEN received[x]
                            ELSE (IF a \in DOMAIN received THEN received[a] ELSE <<>>)
                                   \o SubSeq(unread[a], 1, n)]
          /\ unread' = [unread EXCEPT ![a] = SubSeq(@, n + 1, Len(@))]
    BY DEF OnSocketRead
  <1> DEFINE read == Entry(a)
             rest == unread[a]
             now == read \o SubSeq(rest, 1, n)
             more == SubSeq(rest, n + 1, Len(rest))
  <1>4. read \in Seq(Cell) /\ rest \in Seq(Cell)
    BY <1>1, StreamTypes
  <1>5. now \in Seq(Cell) /\ more \in Seq(Cell)
    <2>1. SubSeq(rest, 1, n) \in Seq(Cell) /\ more \in Seq(Cell)
      BY <1>4, SubSeqElements, SuffixElements
    <2> QED
      BY <1>4, <2>1, ConcatElements
  <1>6. OfOne(read, rest) => OfOne(now, more)
    BY <1>4, ReadOn
  <1>7. /\ DOMAIN received' = DOMAIN received \cup {a}
        /\ received'[a] = now
        /\ \A x \in DOMAIN received \ {a} : received'[x] = received[x]
    BY <1>3 DEF Entry
  <1>8. /\ Live' = Live /\ unread'[a] = more
        /\ \A x \in Live \ {a} : unread'[x] = unread[x]
    BY <1>1, <1>3 DEF Live
  <1> HIDE DEF read, rest, now, more
  <1>9. RelayTypeOK' /\ PendingWhole'
    BY <1>1, <1>2 DEF RelayTypeOK, PendingWhole, relayVars
  <1>10. ClientTypeOK'
    <2>1. \A x \in DOMAIN unread' : unread'[x] \in Seq(Cell)
      BY <1>1, <1>5, <1>8, StreamTypes DEF Live
    <2>2. \A x \in DOMAIN received' : x \in Address /\ received'[x] \in Seq(Cell)
      BY <1>5, <1>7, StreamTypes
    <2>3. Range(unread') \subseteq Seq(Cell) /\ Range(received') \subseteq Seq(Cell)
      BY <2>1, <2>2 DEF Range
    <2> QED
      BY <1>1, <1>2, <1>7, <1>8, <2>2, <2>3 DEF ClientTypeOK
  <1>11. EntriesHaveSockets'
    BY <1>1, <1>2, <1>7, <1>8 DEF EntriesHaveSockets
  <1>12. UnreadWhole'
    <2> SUFFICES ASSUME NEW x \in Live', x \notin mixed'
                 PROVE  OfOne(IF x \in DOMAIN received' THEN received'[x] ELSE <<>>, unread'[x])
      BY DEF UnreadWhole, Entry, OfOne
    <2>1. CASE x = a
      <3>1. OfOne(read, rest)
        BY <1>1, <1>2, <2>1 DEF UnreadWhole, read, rest
      <3> QED
        BY <1>6, <1>7, <1>8, <2>1, <3>1
    <2>2. CASE x # a
      <3>1. OfOne(Entry(x), unread[x]) /\ x \in Live
        BY <1>1, <1>2, <1>8 DEF UnreadWhole
      <3>2. Entry(x) = IF x \in DOMAIN received' THEN received'[x] ELSE <<>>
        BY <1>7, <2>2 DEF Entry
      <3>3. unread'[x] = unread[x]
        BY <1>8, <2>2, <3>1
      <3> QED
        BY <3>1, <3>2, <3>3
    <2> QED
      BY <2>1, <2>2
  <1>13. ShownWhole'
    BY <1>1, <1>2 DEF ShownWhole
  <1> QED
    BY <1>9, <1>10, <1>11, <1>12, <1>13 DEF PathInv

(* mid() of an array that is long enough.                                  *)
LEMMA TakenFacts ==
  ASSUME NEW stream \in Seq(Cell), Complete(stream)
  PROVE  /\ stream[1][1] \in Message /\ Need(stream) \in Nat
         /\ Len(stream) \in Nat /\ Len(stream) > Need(stream)
         /\ Taken(stream) \in Seq(Cell) /\ Len(Taken(stream)) = Need(stream)
         /\ \A i \in 1..Need(stream) : Taken(stream)[i] = stream[i + 1]
  <1> DEFINE n == Need(stream)
  <1>1. stream # <<>> /\ Len(stream) > n
    BY DEF Complete
  <1>2. Len(stream) \in Nat \ {0} /\ 1 \in 1..Len(stream)
    BY <1>1, EmptySeq
  <1>3. stream[1] \in Cell
    BY <1>2
  <1>4. stream[1][1] \in Message
    BY <1>3, CellFacts
  <1>5. n \in Nat
    BY <1>4, AnnouncedType DEF Need
  <1> HIDE DEF n
  <1>6. Min({n + 1, Len(stream)}) = n + 1
    <2>1. n + 1 \in Int /\ Len(stream) \in Int /\ n + 1 <= Len(stream)
      BY <1>1, <1>2, <1>5
    <2>2. ASSUME NEW x \in {n + 1, Len(stream)}, \A y \in {n + 1, Len(stream)} : x <= y
          PROVE  x = n + 1
      BY <2>1, <2>2
    <2>3. \A y \in {n + 1, Len(stream)} : n + 1 <= y
      BY <2>1
    <2> QED
      BY <2>2, <2>3 DEF Min
  <1>7. Taken(stream) = SubSeq(stream, 2, n + 1)
    BY <1>6 DEF Taken, n
  <1>8. \A i \in 2..(n + 1) : stream[i] \in Cell
    BY <1>1, <1>2, <1>5
  <1>9. /\ SubSeq(stream, 2, n + 1) \in Seq(Cell)
        /\ Len(SubSeq(stream, 2, n + 1)) = n
        /\ \A i \in 1..n : SubSeq(stream, 2, n + 1)[i] = stream[i + 1]
    <2>1. 2 \in Int /\ n + 1 \in Int
      BY <1>5
    <2>2. /\ SubSeq(stream, 2, n + 1) \in Seq(Cell)
          /\ Len(SubSeq(stream, 2, n + 1)) = IF 2 <= n + 1 THEN (n + 1) - 2 + 1 ELSE 0
          /\ \A i \in 1..((n + 1) - 2 + 1) : SubSeq(stream, 2, n + 1)[i] = stream[2 + i - 1]
      BY ONLY <1>8, <2>1, SubSeqProperties
    <2>3. (n + 1) - 2 + 1 = n /\ (~(2 <= n + 1) => n = 0)
      BY <1>5
    <2>4. \A i \in 1..n : 2 + i - 1 = i + 1
      BY <1>5
    <2> QED
      BY <2>2, <2>3, <2>4
  <1> QED
    BY <1>1, <1>2, <1>4, <1>5, <1>7, <1>9 DEF n

(* A complete array of one message gives up all of its data.               *)
LEMMA TakenIsWhole ==
  ASSUME NEW stream \in Seq(Cell), Complete(stream), OfOne(stream, <<>>)
  PROVE  \E m \in Message :
           Taken(stream) = Data(m, IF m \in Wide THEN Announced(m) ELSE Size[m])
  <1>1. Len(<<>>) = 0
    BY EmptySeq
  <1>2. PICK m \in Message :
          /\ Len(stream) + Len(<<>>) <= Announced(m) + 1
          /\ \A i \in DOMAIN stream : stream[i] = <<m, i - 1>>
    BY DEF OfOne
  <1>3. /\ Need(stream) \in Nat /\ Len(stream) \in Nat /\ Len(stream) > Need(stream)
        /\ Taken(stream) \in Seq(Cell) /\ Len(Taken(stream)) = Need(stream)
        /\ \A i \in 1..Need(stream) : Taken(stream)[i] = stream[i + 1]
    BY TakenFacts
  <1>4. Need(stream) = Announced(m)
    <2>1. 1 \in DOMAIN stream
      BY <1>3
    <2>2. stream[1][1] = m
      BY <1>2, <2>1
    <2> QED
      BY <2>2 DEF Need
  <1>5. \A i \in 1..Announced(m) : Taken(stream)[i] = <<m, i>>
    <2> SUFFICES ASSUME NEW i \in 1..Announced(m) PROVE Taken(stream)[i] = <<m, i>>
      OBVIOUS
    <2>1. Announced(m) \in Nat /\ i + 1 \in DOMAIN stream /\ (i + 1) - 1 = i
      BY <1>3, <1>4
    <2> QED
      BY <1>2, <1>3, <1>4, <2>1
  <1>6. Taken(stream) = [i \in 1..Announced(m) |-> <<m, i>>]
    <2>1. /\ DOMAIN Taken(stream) = 1..Announced(m)
          /\ Taken(stream) = [i \in DOMAIN Taken(stream) |-> Taken(stream)[i]]
      BY <1>3, <1>4
    <2> QED
      BY <1>5, <2>1
  <1>7. Announced(m) = IF m \in Wide THEN Announced(m) ELSE Size[m]
    BY DEF Announced
  <1> QED
    BY <1>6, <1>7 DEF Data

LEMMA DisconnectKeeps ==
  ASSUME PathInv, NEW a \in Address, OnSocketDisconnected(a),
         UNCHANGED <<gateway, left, relayVars>>
  PROVE  PathInv'
  <1> DEFINE shownItem == [cells : Seq(Cell), mixed : BOOLEAN]
  <1>1. /\ RelayTypeOK /\ ClientTypeOK /\ EntriesHaveSockets /\ PendingWhole /\ UnreadWhole
        /\ ShownWhole /\ a \in Live /\ unread[a] = <<>>
    BY DEF PathInv, OnSocketDisconnected
  <1>2. UNCHANGED <<listening, pending, running>>
    BY DEF OnSocketDisconnected
  <1>3. /\ received' = [x \in DOMAIN received \ {a} |-> received[x]]
        /\ unread' = [x \in Live \ {a} |-> unread[x]]
        /\ dangling' = dangling \cup {a}
        /\ abandoned' = abandoned \ {a}
        /\ mixed' = mixed \ {a}
    BY DEF OnSocketDisconnected, EntriesAfter, Restrict
  <1>4. /\ DOMAIN received' = DOMAIN received \ {a}
        /\ \A x \in DOMAIN received \ {a} : received'[x] = received[x]
        /\ Live' = Live \ {a}
        /\ \A x \in Live \ {a} : unread'[x] = unread[x]
    BY <1>3 DEF Live
  <1>5. ASSUME a \in DOMAIN received, Complete(received[a])
        PROVE  /\ Item(a) \in shownItem
               /\ \/ Item(a).mixed
                  \/ \E m \in Message :
                       Item(a).cells = Data(m, IF m \in Wide THEN Announced(m) ELSE Size[m])
    <2>1. received[a] \in Seq(Cell)
      BY <1>5, StreamTypes
    <2>2. Taken(received[a]) \in Seq(Cell)
      BY <1>5, <2>1, TakenFacts
    <2>3. /\ Item(a) \in shownItem
          /\ Item(a).cells = Taken(received[a]) /\ Item(a).mixed = (a \in mixed)
      BY <2>2 DEF Item
    <2>4. CASE a \in mixed
      BY <2>3, <2>4
    <2>5. CASE a \notin mixed
      <3>1. OfOne(received[a], <<>>)
        BY <1>1, <1>5, <2>5 DEF UnreadWhole, Entry
      <3> QED
        BY <1>5, <2>1, <2>3, <3>1, TakenIsWhole
    <2> QED
      BY <2>3, <2>4, <2>5
  <1>6. PICK shown \in Outcomes(a) : inbox' = inbox \o shown
    BY DEF OnSocketDisconnected
  <1>7. /\ shown \in Seq(shownItem)
        /\ \A i \in DOMAIN shown :
             \/ shown[i].mixed
             \/ \E m \in Message :
                  shown[i].cells = Data(m, IF m \in Wide THEN Announced(m) ELSE Size[m])
    <2>1. CASE shown = <<>>
      <3>1. <<>> \in Seq(shownItem) /\ DOMAIN <<>> = {}
        BY EmptySeq
      <3> QED
        BY <2>1, <3>1
    <2>2. CASE shown # <<>>
      <3>1. /\ a \in DOMAIN received /\ Complete(received[a])
            /\ shown = <<Item(a)>>
        BY <2>2 DEF Outcomes
      <3>2. Item(a) \in shownItem
        BY <1>5, <3>1
      <3> HIDE DEF shownItem
      <3>3. shown \in Seq(shownItem) /\ DOMAIN shown = {1} /\ shown[1] = Item(a)
        BY <3>1, <3>2
      <3> QED
        BY <1>5, <3>1, <3>3
    <2> QED
      BY <2>1, <2>2
  <1>8. /\ inbox' \in Seq(shownItem)
        /\ \A i \in DOMAIN inbox' :
             \/ i \in DOMAIN inbox /\ inbox'[i] = inbox[i]
             \/ \E j \in DOMAIN shown : inbox'[i] = shown[j]
    <2>1. inbox \in Seq(shownItem)
      BY <1>1 DEF ClientTypeOK
    <2> HIDE DEF shownItem
    <2>2. /\ inbox \o shown \in Seq(shownItem)
          /\ Len(inbox \o shown) = Len(inbox) + Len(shown)
          /\ \A i \in 1..Len(inbox) : (inbox \o shown)[i] = inbox[i]
          /\ \A i \in (Len(inbox) + 1)..(Len(inbox) + Len(shown)) :
               (inbox \o shown)[i] = shown[i - Len(inbox)]
      BY ONLY <1>7, <2>1, ConcatElements
    <2>3. /\ Len(inbox) \in Nat /\ DOMAIN inbox = 1..Len(inbox)
          /\ Len(shown) \in Nat /\ DOMAIN shown = 1..Len(shown)
          /\ DOMAIN inbox' = 1..(Len(inbox) + Len(shown))
      BY <1>6, <1>7, <2>1, <2>2
    <2>4. ASSUME NEW i \in DOMAIN inbox'
          PROVE  \/ i \in DOMAIN inbox /\ inbox'[i] = inbox[i]
                 \/ \E j \in DOMAIN shown : inbox'[i] = shown[j]
      <3>1. CASE i \in 1..Len(inbox)
        BY <1>6, <2>2, <2>3, <3>1
      <3>2. CASE i \notin 1..Len(inbox)
        <4>1. /\ i \in (Len(inbox) + 1)..(Len(inbox) + Len(shown))
              /\ i - Len(inbox) \in DOMAIN shown
          BY <2>3, <3>2
        <4> QED
          BY <1>6, <2>2, <4>1
      <3> QED
        BY <3>1, <3>2
    <2> QED
      BY <1>6, <2>2, <2>4
  <1>9. RelayTypeOK' /\ PendingWhole'
    BY <1>1, <1>2 DEF RelayTypeOK, PendingWhole, relayVars
  <1>10. ClientTypeOK'
    <2>1. \A x \in DOMAIN unread' : unread'[x] \in Seq(Cell)
      BY <1>4, StreamTypes DEF Live
    <2>2. \A x \in DOMAIN received' : x \in Address /\ received'[x] \in Seq(Cell)
      BY <1>4, StreamTypes
    <2>3. Range(unread') \subseteq Seq(Cell) /\ Range(received') \subseteq Seq(Cell)
      BY <2>1, <2>2 DEF Range
    <2> QED
      BY <1>1, <1>2, <1>3, <1>4, <1>8, <2>2, <2>3 DEF ClientTypeOK
  <1>11. EntriesHaveSockets'
    BY <1>1, <1>3, <1>4 DEF EntriesHaveSockets
  <1>12. UnreadWhole'
    <2> SUFFICES ASSUME NEW x \in Live', x \notin mixed'
                 PROVE  OfOne(IF x \in DOMAIN received' THEN received'[x] ELSE <<>>, unread'[x])
      BY DEF UnreadWhole, Entry, OfOne
    <2>1. x \in Live /\ x # a /\ x \notin mixed
      BY <1>3, <1>4
    <2>2. OfOne(Entry(x), unread[x])
      BY <1>1, <2>1 DEF UnreadWhole
    <2>3. Entry(x) = IF x \in DOMAIN received' THEN received'[x] ELSE <<>>
      BY <1>4, <2>1 DEF Entry
    <2>4. unread'[x] = unread[x]
      BY <1>4, <2>1
    <2> QED
      BY <2>2, <2>3, <2>4
  <1>13. ShownWhole'
    BY <1>1, <1>7, <1>8 DEF ShownWhole
  <1> QED
    BY <1>9, <1>10, <1>11, <1>12, <1>13 DEF PathInv

LEMMA PathStep == PathInv /\ [Next]_vars => PathInv'
  <1> SUFFICES ASSUME PathInv, [Next]_vars PROVE PathInv'
    OBVIOUS
  <1>1. CASE \E m \in Message : SendData(m) \/ Judge(m)
    BY <1>1, GatewayKeeps
  <1>2. CASE RelayStep /\ UNCHANGED clientVars
    BY <1>2, CarryKeeps, ForwardKeeps, GatewayKeeps DEF RelayStep
  <1>3. CASE ClientStep /\ UNCHANGED <<gateway, left, relayVars>>
    BY <1>3, ListenKeeps, ConnectionKeeps, StopKeeps, ReadKeeps, DisconnectKeeps
    DEF ClientStep
  <1>4. CASE UNCHANGED vars
    <2>1. RelayTypeOK' /\ UNCHANGED <<pending, clientVars>>
      BY <1>4 DEF vars, relayVars, PathInv, RelayTypeOK
    <2> QED
      BY <2>1, PendingSame
  <1> QED
    BY <1>1, <1>2, <1>3, <1>4 DEF Next

-----------------------------------------------------------------------------
(* Both parts.                                                             *)

LEMMA PeersStep ==
  FindInv /\ PathInv /\ [PeersNext]_<<findVars, vars>>
    => FindInv' /\ PathInv' /\ [Recent]_findVars
  <1> SUFFICES ASSUME FindInv, PathInv, [PeersNext]_<<findVars, vars>>
               PROVE  FindInv' /\ PathInv' /\ [Recent]_findVars
    OBVIOUS
  <1>1. [FindNext]_findVars /\ [Next]_vars
    BY DEF PeersNext
  <1> QED
    BY <1>1, FindStep, FindRecent, PathStep

LEMMA PeersStart == PeersInit => FindInv /\ PathInv
  BY FindStarts, StreamsStart DEF PeersInit

(* Discovery and the path of a message keep their types, and               *)
(* received_data_map_ has no entry at an address that is neither a socket's *)
(* nor one that stopListening left behind.                                 *)
THEOREM PeersCorrect == PeersSpec => []PeersInv
  <1>1. FindInv /\ PathInv => PeersInv
    BY DEF FindInv, PathInv, PeersInv, TypeOK
  <1> QED
    BY <1>1, PeersStart, PeersStep, PTL DEF PeersSpec

(* However the connections on the way break and wherever a read stops, the *)
(* target shows all of one message and nothing of another.                 *)
THEOREM ShownIsWhole == PeersSpec => []ShownWhole
  <1>1. PathInv => ShownWhole
    BY DEF PathInv
  <1> QED
    BY <1>1, PeersStart, PeersStep, PTL DEF PeersSpec

(* Client and gateway take an answer only to their last question, so the   *)
(* port they find has been served since they asked.                        *)
THEOREM AnswersAreRecent == PeersSpec => FoundIsRecent
  BY PeersStart, PeersStep, PTL DEF PeersSpec, FoundIsRecent, Recent
===============================================================================
