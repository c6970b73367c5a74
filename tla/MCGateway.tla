------------------------------ MODULE MCGateway ------------------------------
(* Small instances of Gateway for TLC.                                      *)
EXTENDS GatewayInv

CONSTANTS a, b, c, e1, e2

TwoClients == {a, b}
Endpoints == {e1, e2}
ThreeClients == {a, b, c}
KindOfTwo == a :> "text" @@ b :> "doc"
KindOfThree == a :> "text" @@ b :> "doc" @@ c :> "txt"
=============================================================================
