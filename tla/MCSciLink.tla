----------------------------- MODULE MCSciLink ------------------------------
(* A small instance of SciLink alone. *)
EXTENDS SciLink

(* The Listener may drop any number of connections. *)
MCTwoBreaks == {[parent |-> 1, child |-> 0, breaks |-> 2, drops |-> -1]}
=============================================================================
