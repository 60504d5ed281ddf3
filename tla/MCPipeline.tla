---------------------------- MODULE MCPipeline ----------------------------
(* Pipeline, with Accounts inside it, for its run. *)
EXTENDS Pipeline

CONSTANTS r1, r2, w1, w2, e1, s1

\* One user is registered, and one product is on offer.
OneOfEach == {[id |-> 1, name |-> e1], [id |-> 2, name |-> s1]}
=============================================================================
