------------------------------ MODULE Discovery ------------------------------
(***************************************************************************)
(* How the parts of the path find each other by broadcast.  A client looks *)
(* for the gateway (CdsGatewayFinder, driven by timers and signals), the   *)
(* gateway looks for the send-mode guard (CdsGatewayDiscorverGuard, one    *)
(* blocking round after the other).  Both send a nonce to a responder      *)
(* thread that sends it back with a TCP port, both authenticate datagrams  *)
(* with the same key; `who' says which of the two a behaviour is about, if  *)
(* either.                                                                 *)
(*                                                                         *)
(* A nonce is drawn at random for every broadcast, so of a datagram only   *)
(* matters whether it carries the nonce of the last one.  The segment      *)
(* keeps the order of datagrams and may lose any.                          *)
(***************************************************************************)
EXTENDS Integers, SequencesExt

CONSTANTS
  Port,       \* TCP ports the responder's program may listen on
  Nowhere,
  MAX_FLIGHT  \* bound of the model: datagrams in flight at once

ASSUME DiscoveryAssumption ==
  /\ Nowhere \notin Port
  /\ MAX_FLIGHT \in Nat \ {0}

VARIABLES
  who,      \* the program that seeks
  serving,  \* the port behind the responder, Nowhere while it does not run
  seeking,  \* "off", "between" two rounds, "waiting" or "done"
  found,    \* cds_gateway_port_ of the client, g_guard_endpoint of the gateway
  asks,     \* nonces on their way to the responder, oldest first
  replies,  \* answers on their way back
  since,    \* history: the ports served since the last nonce was drawn
  settled   \* nothing is lost any more, and answers come before timers fire

findVars == <<who, serving, seeking, found, asks, replies, since, settled>>

Seeker == {"client", "gateway", "nobody"}
Nonce == {"fresh", "old"}

FindTypeOK ==
  /\ who \in Seeker
  /\ serving \in Port \cup {Nowhere}
  /\ seeking \in {"off", "between", "waiting", "done"}
  /\ found \in Port \cup {Nowhere}
  /\ asks \in Seq(Nonce)
  /\ replies \in Seq([nonce : Nonce, port : Port])
  /\ Len(asks) + Len(replies) <= MAX_FLIGHT
  /\ since \subseteq Port
  /\ settled \in BOOLEAN

FindInit ==
  /\ who \in Seeker
  /\ serving \in Port \cup {Nowhere}
  /\ seeking = "off"
  /\ found = Nowhere
  /\ asks = <<>> /\ replies = <<>>
  /\ since = {} /\ settled = FALSE

-----------------------------------------------------------------------------
NothingInFlight == asks = <<>> /\ replies = <<>>

(* Answers take far less than the 3 s of the client's retry timer and the  *)
(* 2 s of the gateway's: once the network has settled, a timer only fires  *)
(* if no answer is coming.                                                 *)
MutTimerFires == FALSE
TimerFires == settled => NothingInFlight

AgedAsks == [i \in DOMAIN asks |-> "old"]
AgedReplies == [i \in DOMAIN replies |-> [replies[i] EXCEPT !.nonce = "old"]]

(* A new nonce, broadcast; a datagram too many is lost.                    *)
Broadcast ==
  /\ asks' = IF Len(asks) + Len(replies) < MAX_FLIGHT
               THEN Append(AgedAsks, "fresh") ELSE AgedAsks
  /\ replies' = AgedReplies
  /\ since' = {serving} \cap Port

(* discover, at the start of the program and on each tick of retryTimer_,  *)
(* which success stops.  The other timer of the finder has no effect.      *)
MutAsksIn == {"off"}
AsksIn    == {"off", "waiting"}
Discover ==
  /\ who = "client"
  /\ seeking \in AsksIn
  /\ seeking = "waiting" => TimerFires
  /\ Broadcast
  /\ seeking' = "waiting"
  /\ UNCHANGED <<who, serving, found, settled>>

MutMatches(reply) == TRUE
Matches(reply)    == reply.nonce = "fresh"

(* handlePong: any answer with the last nonce is taken, also a second one. *)
HandlePong ==
  /\ who = "client"
  /\ replies # <<>>
  /\ replies' = Tail(replies)
  /\ IF Matches(Head(replies))
       THEN found' = Head(replies).port /\ seeking' = "done"
       ELSE UNCHANGED <<found, seeking>>
  /\ UNCHANGED <<who, serving, asks, since, settled>>

-----------------------------------------------------------------------------
(* A payload is to be dispatched: there is no endpoint, or the one there   *)
(* is does not answer and is invalidated.  The lookup starts.              *)
Lookup ==
  /\ who = "gateway"
  /\ seeking = "off"
  /\ found = Nowhere \/ found # serving
  /\ found' = Nowhere
  /\ seeking' = "between"
  /\ UNCHANGED <<who, serving, asks, replies, since, settled>>

(* One call of CdsGatewayDiscorverGuard after the other, until one returns *)
(* an endpoint.                                                            *)
StartRound ==
  /\ seeking = "between"
  /\ Broadcast
  /\ seeking' = "waiting"
  /\ UNCHANGED <<who, serving, found, settled>>

(* The first datagram ends the round, whatever it is.                      *)
TakeReply ==
  /\ who = "gateway" /\ seeking = "waiting"
  /\ replies # <<>>
  /\ replies' = Tail(replies)
  /\ IF Matches(Head(replies))
       THEN found' = Head(replies).port /\ seeking' = "off"
       ELSE seeking' = "between" /\ UNCHANGED found
  /\ UNCHANGED <<who, serving, asks, since, settled>>

RoundTimesOut ==
  /\ who = "gateway" /\ seeking = "waiting"
  /\ TimerFires
  /\ seeking' = "between"
  /\ UNCHANGED <<who, serving, found, asks, replies, since, settled>>

(* Outside a round the socket for answers is closed.                       *)
Unheard ==
  /\ who = "gateway" /\ seeking # "waiting"
  /\ replies # <<>>
  /\ replies' = Tail(replies)
  /\ UNCHANGED <<who, serving, seeking, found, asks, since, settled>>

-----------------------------------------------------------------------------
(* The responder thread, CdsGatewayStartDiscoveryResponder or              *)
(* CdsGuardStartDiscoveryResponder.                                        *)
Answers    == serving # Nowhere
Respond ==
  /\ asks # <<>>
  /\ asks' = Tail(asks)
  /\ replies' = IF Answers
                  THEN Append(replies, [nonce |-> Head(asks), port |-> serving])
                  ELSE replies
  /\ UNCHANGED <<who, serving, seeking, found, since, settled>>

(* The responder's program ends, or starts, each time on a port of its own.*)
Restart(port) ==
  /\ port # serving
  /\ serving' = port
  /\ since' = since \cup ({port} \cap Port)
  /\ UNCHANGED <<who, seeking, found, asks, replies, settled>>

Lose ==
  /\ ~settled
  /\ \/ \E i \in DOMAIN asks : asks' = RemoveAt(asks, i) /\ UNCHANGED replies
     \/ \E i \in DOMAIN replies : replies' = RemoveAt(replies, i) /\ UNCHANGED asks
  /\ UNCHANGED <<who, serving, seeking, found, since, settled>>

Settle ==
  /\ ~settled /\ settled' = TRUE
  /\ UNCHANGED <<who, serving, seeking, found, asks, replies, since>>

FindNext ==
  \/ Discover \/ HandlePong
  \/ Lookup \/ StartRound \/ TakeReply \/ RoundTimesOut \/ Unheard
  \/ Respond \/ Lose \/ Settle
  \/ \E port \in Port \cup {Nowhere} : Restart(port)

(* The threads run and datagrams arrive.  Nothing is assumed of restarts,  *)
(* losses, or the gap between two rounds.                                  *)
FindFairness ==
  /\ WF_findVars(Discover) /\ WF_findVars(HandlePong)
  /\ WF_findVars(StartRound) /\ WF_findVars(TakeReply) /\ WF_findVars(RoundTimesOut)
  /\ WF_findVars(Respond)

-----------------------------------------------------------------------------
(* A port that is taken has been served since the question was asked: an   *)
(* answer to an earlier question, which may come from a program that has   *)
(* ended, is never taken.  (The port may be gone again.)                   *)
FoundIsRecent ==
  [][found' \notin {found, Nowhere} => found' \in since]_findVars

Steady == \E port \in Port : <>[](serving = port /\ settled)

(* A client finds a gateway that keeps running, however many answers were  *)
(* lost or late before.                                                    *)
ClientFinds == who = "client" /\ Steady => <>(found # Nowhere)

Lagging ==
  "old" \in ToSet(asks) \/ \E i \in DOMAIN replies : replies[i].nonce = "old"

(* The gateway finds a guard that keeps running, if again and again it     *)
(* waits with no late datagram about.  Otherwise it may not: the answer to *)
(* the last question ends the round of the next one, whose answer then is  *)
(* late for the round after it, and so on, with nothing lost or slow.      *)
GuardFound ==
  Steady /\ []<>(seeking = "waiting" /\ ~Lagging)
    => [](seeking = "between" => <>(found # Nowhere))
=============================================================================
