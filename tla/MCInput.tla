------------------------------ MODULE MCInput -------------------------------
(* A small instance of Input: two keys, of which one has a button, over    *)
(* enough frames to leave the filter's window, and a script of two spans   *)
(* that overlap in frame 2, one of them a hex mask with a pad ID bit.      *)
EXTENDS Input

MCKeyMap == [k \in {"z"} |-> "b"]

MCScript == <<[from |-> 2, to |-> 3, buttons |-> {"a"}],
              [from |-> 2, to |-> 2, buttons |-> {"b", "id"}]>>
=============================================================================
