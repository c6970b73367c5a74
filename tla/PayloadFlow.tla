----------------------------- MODULE PayloadFlow -----------------------------
(***************************************************************************)
(* What CDSGateway promises about the payloads handed to it: each is       *)
(* accepted or dropped, an accepted one gets a verdict, and leaves for the *)
(* guard at most once, after its own verdict and in the company of no      *)
(* other.  Payloads may overtake each other.                               *)
(***************************************************************************)
EXTENDS Integers, Sequences

CONSTANT Client

VARIABLES
  state,  \* how far each payload has come
  left    \* the payloads that have left, oldest first

flowVars == <<state, left>>

Init ==
  /\ state = [c \in Client |-> "outside"]
  /\ left = <<>>

Becomes(c, from, to) ==
  /\ state[c] = from
  /\ state' = [state EXCEPT ![c] = to]

Admit(c) ==
  /\ Becomes(c, "outside", "accepted") \/ Becomes(c, "outside", "dropped")
  /\ UNCHANGED left

Judge(c) == Becomes(c, "accepted", "judged") /\ UNCHANGED left

Leave(c) == Becomes(c, "judged", "left") /\ left' = Append(left, c)

Next == \E c \in Client : Admit(c) \/ Judge(c) \/ Leave(c)

Spec == Init /\ [][Next]_flowVars
=============================================================================
