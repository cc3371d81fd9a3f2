----------------------------- MODULE MCHarness -----------------------------
(* The harness with two nodes, two peers, two store nodes and the   *)
(* lines below.                                                     *)
EXTENDS Harness

MCNodes == <<"n1", "n2">>

MCPeers == <<"p1", "p2">>

MCStoreNodes == <<"near", "far">>

\* Both kinds of bindings and other lines; a call with each kind of value, one
\* with a value too many, one whose list is not a literal, one waived.
MCLines ==
    LET call(labels, listed, waiver) ==
            [kind |-> "call", labels |-> labels, listed |-> listed, waiver |-> waiver]
    IN  Bindings \cup Others
        \cup {call(<<e>>, TRUE, FALSE) : e \in Exprs \ {"if"}}
        \cup {call(<<"if", "CONST">>, TRUE, FALSE), call(<<"peer">>, FALSE, FALSE),
              call(<<"peer">>, TRUE, TRUE)}
=============================================================================
