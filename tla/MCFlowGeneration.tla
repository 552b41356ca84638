--------------------------- MODULE MCFlowGeneration ---------------------------
(***************************************************************************)
(* Small graphs for FlowGeneration: all that a crawl from state 1 can      *)
(* build with some number of edges between some number of states.  Neo4j   *)
(* lists the edges state by state.                                         *)
(***************************************************************************)
EXTENDS FlowGeneration

CONSTANTS Nodes, MaxEdges

BySource(edges) == \A i \in 1 .. Len(edges) - 1 : edges[i][1] <= edges[i + 1][1]

FromRoot(edges) ==
  \A i \in DOMAIN edges : edges[i][1] = 1 \/ \E j \in DOMAIN edges :
    edges[j][2] = edges[i][1] /\ edges[j][1] # edges[i][1]

EdgeLists ==
  {edges \in UNION {[1 .. k -> (1 .. Nodes) \X (1 .. Nodes)] : k \in 0 .. MaxEdges} :
     BySource(edges) /\ FromRoot(edges)}

(* Parts of a graph in which ways from different starts meet.              *)
Meeting == <<<<1, 2>>, <<1, 3>>, <<2, 4>>, <<2, 5>>, <<3, 5>>, <<4, 5>>, <<5, 2>>>>

NoStates == [root |-> Unset, login |-> Unset, checkpoints |-> {}, edges |-> <<>>, navigates |-> {}]

(* The edges from the login page may be navigate transitions that an       *)
(* earlier generation left.                                                *)
McInputs ==
  {NoStates} \union
  {[root |-> 1, login |-> login, checkpoints |-> checkpoints, edges |-> edges,
    navigates |-> IF earlier THEN {e \in DOMAIN edges : edges[e][1] = login} ELSE {}] :
     edges \in EdgeLists, checkpoints \in {{1}, {Nodes}},
     <<login, earlier>> \in {<<Unset, FALSE>>, <<2, FALSE>>, <<2, TRUE>>}} \union
  {[root |-> 1, login |-> Unset, checkpoints |-> {3}, edges |-> edges, navigates |-> {}] :
     edges \in {edges \in AllSubSeqs(Meeting) : FromRoot(edges)}}

Setting(min, max, threshold, fewest, most) ==
  [minStates |-> min, maxStates |-> max, threshold |-> threshold,
   minFlows |-> fewest, maxFlows |-> most]

(* With defaults of run_find_all_flows, with those of a crawl, with narrow *)
(* limits, and with all of them.                                           *)
Settings ==
  {Setting(1, Nodes + 1, Unset, Unset, Unset), Setting(1, Nodes + 1, 100, 1, 10),
   Setting(2, 2, 60, 2, 2), Setting(3, Nodes, 50, Unset, 10),
   Setting(3, Nodes + 1, Unset, 3, Unset)}

(* Flows are cut before they have passed all states.                       *)
Cut == {Setting(1, 2, Unset, Unset, Unset), Setting(2, 3, 100, 1, 10)}
=============================================================================
