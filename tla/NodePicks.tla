------------------------------ MODULE NodePicks ------------------------------
(***************************************************************************)
(* Which step is inspected, in the panel of an issue and on the page of a   *)
(* trace.  A step is picked in the graph or in a timeline, and kept in two  *)
(* pieces: the id of its node and the step itself; the panel's timeline     *)
(* goes by a third, the id of the step.  Details and simulations come and   *)
(* go in any order under them, as JiraPanel and TracePage let them.         *)
(***************************************************************************)
EXTENDS ConsoleClient, Functions

CONSTANT StepCount   \* how many steps each run has recorded

(* A recorded step, and one of simulation n: it carries the id of the step  *)
(* recorded in its place, none past the end of the trace.                   *)
Last == CHOOSE n \in {StepCount[r] : r \in Run} : \A r \in Run : StepCount[r] <= n

StepIds == [run : Run, index : 1..Last]

Recorded(r, i) == [branch |-> "o", of |-> r, index |-> i, id |-> [run |-> r, index |-> i]]

SimStep(sim, i) == [branch |-> "p", of |-> sim.no, index |-> i,
                    id |-> IF i <= StepCount[sim.run] THEN [run |-> sim.run, index |-> i] ELSE Nil]

Step == [branch : {"o"}, of : Run, index : 1..Last, id : StepIds]
        \cup [branch : {"p"}, of : 1..MaxReplays, index : 1..(Last + 1), id : StepIds \cup {Nil}]

Node == {"o", "p"} \X (1..(Last + 1))

(* sim: the simulation shown if it has steps, one that is completed; last:  *)
(* its number or the one of the last.                                       *)
PickState == [page : {"panel", "trace"}, detail : Run \cup {Nil},
              sim : {Nil} \cup [no : 1..MaxReplays, run : Run, len : 1..(Last + 1)],
              last : 0..MaxReplays, node : Node \cup {Nil}, step : Step \cup {Nil},
              sid : StepIds \cup {Nil}, mode : {"original", "simulated"}]

(* past: since its pick the simulation of the step was cleared, or it was   *)
(* picked in the timeline of a simulation that was not there.               *)
Mount == /\ \E page \in {"panel", "trace"} :
               ui = [page |-> page, detail |-> Nil, sim |-> Nil, last |-> 0,
                     node |-> Nil, step |-> Nil, sid |-> Nil, mode |-> "original"]
         /\ pending = {} /\ past = [cleared |-> FALSE, misnamed |-> FALSE]

Original(r) == [i \in 1..StepCount[r] |-> Recorded(r, i)]

patchedSteps == IF ui.sim = Nil THEN <<>> ELSE [i \in 1..ui.sim.len |-> SimStep(ui.sim, i)]

Pick(u, node, step) == [u EXCEPT !.node = node, !.step = step,
                                 !.sid = IF u.page = "trace" \/ step = Nil THEN Nil ELSE step.id]

Picked(cleared, misnamed) == past' = [cleared |-> cleared, misnamed |-> misnamed]
-----------------------------------------------------------------------------
(* Mutant: the pick stays.                                                *)
KeptOf(u, r) == [u EXCEPT !.detail = r]

(* A detail comes, and its first step, if any, is picked.                   *)
FirstOf(u, r) ==
    LET v == [u EXCEPT !.detail = r]
    IN  IF StepCount[r] = 0 THEN Pick(v, Nil, Nil) ELSE Pick(v, <<"o", 1>>, Recorded(r, 1))

loadRunDetail == /\ ui.page = "panel"
                 /\ \E r \in Run : ui' = FirstOf(ui, r)
                 /\ Picked(FALSE, FALSE)

loadDetail == /\ ui.page = "trace"
              /\ \E r \in Run : ui' = FirstOf(ui, r)
              /\ Picked(FALSE, FALSE)

(* The panel turns to another run.                                          *)
TurnAway == /\ ui.page = "panel"
            /\ ui' = [ui EXCEPT !.detail = Nil, !.sim = Nil]
            /\ Picked(TRUE, past.misnamed)

(* Another replay is asked for; a simulation comes, of the run shown then   *)
(* or of one that was shown before.                                         *)
ClearSimulation == /\ ui.detail # Nil
                   /\ ui' = [ui EXCEPT !.sim = Nil]
                   /\ Picked(TRUE, past.misnamed)

SetSimulation == /\ ui.last < MaxReplays
                 /\ \E r \in {s \in Run : StepCount[s] > 0} : \E n \in 1..(StepCount[r] + 1) :
                       ui' = [ui EXCEPT !.sim = [no |-> ui.last + 1, run |-> r, len |-> n], !.last = @ + 1]
                 /\ Picked(TRUE, past.misnamed)
-----------------------------------------------------------------------------
(* The nodes of the graph, with the steps they hold.                        *)
Nodes == {[id |-> <<s.branch, s.index>>, step |-> s] :
             s \in Range(Original(ui.detail)) \cup Range(patchedSteps)}

(* A node of WorkflowGraph, or of TrajectoryGraph, is clicked.              *)
PanelNode == /\ ui.page = "panel" /\ ui.detail # Nil
             /\ \E n \in Nodes : ui' = Pick(ui, n.id, n.step)
             /\ Picked(FALSE, FALSE)

PageNode == /\ ui.page = "trace" /\ ui.detail # Nil
            /\ \E n \in Nodes : ui' = Pick(ui, n.id, n.step)
            /\ Picked(FALSE, FALSE)

(* The panel's timeline: the rows it shows, the choice between them, and    *)
(* the row that is clicked, which closes the one that is open.              *)
Rows == IF ui.mode = "simulated" /\ ui.sim # Nil THEN patchedSteps ELSE Original(ui.detail)

setTimelineMode == /\ ui.page = "panel" /\ ui.detail # Nil /\ ui.sim # Nil
                   /\ \E m \in {"original", "simulated"} : ui' = [ui EXCEPT !.mode = m]
                   /\ UNCHANGED past

Prefix == IF ui.mode = "simulated" THEN "p" ELSE "o"

PanelRow == /\ ui.page = "panel" /\ ui.detail # Nil
            /\ \E i \in 1..Len(Rows) :
                  ui' = IF Rows[i].id = ui.sid THEN Pick(ui, Nil, Nil)
                        ELSE Pick(ui, <<Prefix, Rows[i].index>>, Rows[i])
            /\ Picked(FALSE, ui.mode = "simulated" /\ ui.sim = Nil)

(* StepTimeline, with the recorded steps only, tells the page the id of the *)
(* row; the page looks its step up.                                         *)
onSelect(id) == LET step == CHOOSE s \in Range(Original(ui.detail)) : s.id = id
                IN  Pick(ui, <<"o", step.index>>, step)

PageRow == /\ ui.page = "trace" /\ ui.detail # Nil
           /\ \E i \in 1..StepCount[ui.detail] : ui' = onSelect(Original(ui.detail)[i].id)
           /\ Picked(FALSE, FALSE)

Next == /\ \/ loadRunDetail
           \/ loadDetail
           \/ TurnAway
           \/ ClearSimulation
           \/ SetSimulation
           \/ PanelNode
           \/ PageNode
           \/ setTimelineMode
           \/ PanelRow
           \/ PageRow
        /\ UNCHANGED <<server, pending>>
-----------------------------------------------------------------------------
(* What the inspector shows beside the step.                                *)
Simulated == ui.node # Nil /\ ui.node[1] = "p"

previousStep == LET steps == IF Simulated THEN patchedSteps ELSE Original(ui.detail)
                IN  IF ui.step.index \in 2..Len(steps) THEN steps[ui.step.index - 1] ELSE Nil

(* The step that is inspected is the one drawn in the marked node, and the  *)
(* step it is compared with is the one drawn above it; unless it was picked *)
(* as simulated in a timeline without a simulation, or is a step of a       *)
(* simulation that was cleared since.                                       *)
InspectsDrawn ==
    /\ ui.node = Nil <=> ui.step = Nil
    /\ /\ ui.detail # Nil /\ ui.step # Nil /\ ~past.misnamed
       /\ past.cleared => ui.step.branch = "o"
       => /\ [id |-> ui.node, step |-> ui.step] \in Nodes
          /\ previousStep # Nil =>
                [id |-> <<ui.node[1], ui.node[2] - 1>>, step |-> previousStep] \in Nodes
=============================================================================
