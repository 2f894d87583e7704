----------------------------- MODULE ReplayGraph -----------------------------
(***************************************************************************)
(* The graph in which the console draws a run beside its simulation: the    *)
(* recorded steps in one column, the steps of the replay in the other, and  *)
(* an edge from the recorded step that was patched to the one in its place. *)
(* A node is its id: the column and the index of the step.                  *)
(***************************************************************************)
EXTENDS RecordReplay

(* The step the console patches: the first lookup of those it shows.        *)
pickFirstToolStep(shown) ==
    LET lookups == {i \in 1..Len(shown) : shown[i].type = "tool" /\ shown[i].tool = Lookup}
    IN  IF lookups = {} THEN Nil
        ELSE shown[CHOOSE i \in lookups : \A j \in lookups : i <= j].index

Column(branch, rows) == [i \in 1..Len(rows) |-> <<branch, rows[i].index>>]

Chain(column) == {<<column[i - 1], column[i]>> : i \in 2..Len(column)}

PatchEdge(patched, patchStep) ==
    IF patched = <<>> \/ patchStep = Nil THEN {} ELSE {<<<<"o", patchStep>>, <<"p", patchStep>>>>}

buildGraph(shown, patched, patchStep) ==
    [nodes |-> Column("o", shown) \o Column("p", patched),
     edges |-> Chain(Column("o", shown)) \cup Chain(Column("p", patched))
               \cup PatchEdge(patched, patchStep)]

(* A page may show less of the trace than the replay fetched, or more.      *)
Graphs ==
    {buildGraph(shown, events, patch.step) :
        shown \in {s \in {SubSeq(trace, 1, k) : k \in 1..Len(trace)} : pickFirstToolStep(s) = patch.step}}

(* A replay that the console asked for is drawn whole: no two of its nodes  *)
(* have the same id, of which one would be lost, and every edge joins nodes *)
(* that are drawn.  The index of a simulated step that has no recorded one  *)
(* in its place is made up by the replay, the ids and edges by the console. *)
GraphIsWhole ==
    stage = "over" /\ mode = "exploratory" /\ patch.kind = "tool" =>
        \A g \in Graphs :
            /\ \A i, j \in 1..Len(g.nodes) : g.nodes[i] = g.nodes[j] => i = j
            /\ \A e \in g.edges : \A id \in {e[1], e[2]} : \E i \in 1..Len(g.nodes) : g.nodes[i] = id
=============================================================================
