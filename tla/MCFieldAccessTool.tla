------------------------- MODULE MCFieldAccessTool -------------------------
(***************************************************************************)
(* The tool over the builder's test data (MCHistogramBuilder): profiles  *)
(* of up to two sites from cA and cC, which resolve to different trees,  *)
(* cU, which does not resolve, and cX, outside the callstack filter; so a *)
(* store holds up to two callstacks and a limit of 1 cuts the dump.  The *)
(* flags take every combination of a limit below, at and past the edge.  *)
(***************************************************************************)
EXTENDS FieldAccessTool, MCHistogramBuilder

ToolSites ==
    {[cs |-> "cA", hist |-> <<1, 10>>], [cs |-> "cC", hist |-> <<1, 10>>],
     [cs |-> "cU", hist |-> <<1>>], [cs |-> "cX", hist |-> <<1>>]}
ToolProfiles == UNION {[1..n -> ToolSites] : n \in 0..2}

ToolFlags ==
    [local: BOOLEAN, binary: BOOLEAN, profile: BOOLEAN,
     flamegraph: BOOLEAN, limit: {-1, 0, 1}, out: {"", "fields.txt"}]

ToolCreateFailures == {"profile_file", "reader", "retriever", "fetch"}

=============================================================================
