----------------------------- MODULE MCHttpApi ------------------------------
(***************************************************************************)
(* Two connections, so that one client reads what another one starts, and  *)
(* two files of tokens: a scoped and a global token, and a file that drops *)
(* one token and lists the other twice with different scopes.              *)
(***************************************************************************)
EXTENDS HttpApi, TLC

CONSTANTS c1, c2

OneRun == {1}
TwoConnections == {c1, c2}
OneConnection == {c1}
TwoTokens == {"alice", "bob"}
TwoActions == {"deploy", "retired"}
Deploy == {"deploy"}
SomeConfigs ==
    {<<[value |-> "alice", actions |-> {"deploy"}], [value |-> "bob", actions |-> {}]>>,
     <<[value |-> "alice", actions |-> {"retired"}], [value |-> "alice", actions |-> {"deploy"}]>>}
OneConfig == {<<[value |-> "alice", actions |-> {"deploy"}]>>}
Filters == {"", "running", "bogus"}
Symmetry == Permutations(Connections)
=============================================================================
