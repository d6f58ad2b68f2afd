------------------------------- MODULE MCPager -------------------------------
(* Two connections to a database of at most two pages, that journal alike. *)
EXTENDS Pager

CONSTANTS connA, connB

MCStarts ==
    {[mode |-> [c \in Conns |-> "delete"], size |-> 1],
     [mode |-> [c \in Conns |-> "persist"], size |-> 2]}

MCMixedStarts == {[mode |-> connA :> "persist" @@ connB :> "delete", size |-> 2]}
==============================================================================
