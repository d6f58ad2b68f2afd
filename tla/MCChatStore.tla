---------------------------- MODULE MCChatStore ----------------------------
(* A small instance of ChatStore: two peers, a text that is its own        *)
(* literal, one whose doubled apostrophe is stored as a single one, one    *)
(* with a single apostrophe (and what the second is stored as).            *)
EXTENDS ChatStore, TLC

CONSTANTS p1, p2, plain, doubled, single

MCPeer == {p1, p2}
MCText == {plain, doubled, single}
MCStored == plain :> plain @@ doubled :> single @@ single :> BadLiteral
MCMaxSent == p1 :> 3 @@ p2 :> 1
============================================================================
