----------------------------- MODULE MCApproval -----------------------------
(* An instance of Approval: an integration that is upgraded without asking *)
(* for anything new (1 to 2), and then for a capability, a route without   *)
(* query keys and a larger body (3).                                       *)
EXTENDS Approval, TLC

CONSTANTS c1, c2

First == [name |-> "items", keys |-> <<{"page"}>>, maxKB |-> 0]
Bare  == [name |-> "search", keys |-> <<{}>>, maxKB |-> 1]

MCManifest ==
    (1 :> [caps |-> {"http"}, routes |-> {First}, limit |-> << >>]) @@
    (2 :> [caps |-> {"http"}, routes |-> {First}, limit |-> << >>]) @@
    (3 :> [caps |-> {"http", "log"}, routes |-> {First, Bare}, limit |-> <<4>>])

MCOffers ==
    {[caps |-> {"http"}, routes |-> {First}, limit |-> << >>],
     [caps |-> {"http", "log"}, routes |-> {First, Bare}, limit |-> <<3>>]}
=============================================================================
