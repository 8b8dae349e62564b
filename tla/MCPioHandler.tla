---------------------------- MODULE MCPioHandler ----------------------------
(* Two pins of controller A handled together, one by itself, one pin of B;   *)
(* one source more than the table has entries.                               *)
EXTENDS PioHandler

MCSources == {[id |-> 11, mask |-> {1, 2}], [id |-> 11, mask |-> {3}],
              [id |-> 12, mask |-> {1}]}
=============================================================================
