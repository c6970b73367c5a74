------------------------------- MODULE MCPeers -------------------------------
(***************************************************************************)
(* Around the gateway: how its peers find each other, and what becomes of  *)
(* a message they pass on.  The two share no variable; while someone seeks *)
(* no message is under way.                                                *)
(***************************************************************************)
EXTENDS Courier, Discovery

CONSTANTS text, ascii, file, s1, s2, p1, p2
TwoEach == [m \in Message |-> 2]

PeersInit == FindInit /\ Init /\ (who = "nobody" => serving = Nowhere)
PeersNext ==
  \/ who # "nobody" /\ FindNext /\ UNCHANGED vars
  \/ who = "nobody" /\ Next /\ UNCHANGED findVars
PeersSpec ==
  PeersInit /\ [][PeersNext]_<<findVars, vars>> /\ FindFairness /\ Fairness

(* The types, and received_data_map_ has no entry of a socket nobody knows.*)
PeersInv == FindTypeOK /\ TypeOK /\ EntriesHaveSockets
===============================================================================
