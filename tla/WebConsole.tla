------------------------------ MODULE WebConsole ------------------------------
(***************************************************************************)
(* The web console, view by view.  A view is mounted by the router or by    *)
(* its page, keeps its own React state and loses it when it is unmounted:   *)
(* views meet only through the server, which every view lets change under   *)
(* its feet.  So a behaviour is that of one view, from its mounting on.     *)
(***************************************************************************)
EXTENDS Integers, ConsoleClient

CONSTANTS Routed, Issue, IssueOf, Ended, PageSize, TestId, Page, MaxPages, ForgePending, StepCount, Leaf, Key,
    WindowSize, Box, CardHeight

VARIABLE view

consolevars == <<clientvars, view>>

Panel  == INSTANCE JiraPanel
Trace  == INSTANCE TracePage
Studio == INSTANCE ReplayStudio
Card   == INSTANCE IssueCard
Modal  == INSTANCE DriftCheckModal
Traces == INSTANCE TracesPage
Drift  == INSTANCE DriftPage
Tests  == INSTANCE RegressionPage
Home   == INSTANCE Dashboard
Shell  == INSTANCE ConsoleShell
Bar    == INSTANCE Pagination
Picks  == INSTANCE NodePicks WITH MaxRuns <- Len(StepCount)
Forge  == INSTANCE ForgeConsole WITH MaxPending <- ForgePending
Diff   == INSTANCE JsonDiff
Tip    == INSTANCE TourTip

ASSUME ConsoleAssumption ==
    /\ Routed \subseteq Run
    /\ StepCount \in Seq(Nat)
    /\ IssueOf \in [Run -> Issue] /\ Ended \subseteq Run /\ Nil \notin Issue
    /\ {PageSize, MaxPages, ForgePending} \subseteq Nat \ {0}
    /\ Len(TestId) >= MaxTests
    /\ Page \subseteq DOMAIN Shell!TourSteps /\ {"/", "/traces"} \subseteq Page

(* Windows, elements and cards are measured in whole pixels; an element may *)
(* lie outside of the window.                                               *)
ASSUME PixelAssumption ==
    /\ \A s \in WindowSize : {s.width, s.height} \subseteq Int
    /\ Box \subseteq [top : Int, left : Int, width : Int, height : Int] /\ CardHeight \subseteq Int

(* null is neither a node of a graph nor a step.                            *)
ASSUME PickAssumption == Nil \notin Picks!Node \cup Picks!Step

(* undefined is no value of a snapshot, which is JSON.                      *)
ASSUME LeafAssumption == Nil \notin Leaf

Holding(n) == server = [EmptyServer EXCEPT !.runs = n]

(* The bar below a list of up to MaxPages pages, which may be replaced by   *)
(* another one while its page stays.                                        *)
BarMount == /\ \E t \in 0..MaxPages : ui = [page |-> 1, total |-> t]
            /\ pending = {} /\ past = Nil

BarClick == \E i \in Bar!Clicks(ui.page, ui.total) : ui' = [ui EXCEPT !.page = i]

NewList == \E t \in 0..MaxPages : ui' = [ui EXCEPT !.total = t]

(* The snapshots of two steps that follow each other; the first is shown    *)
(* without one before it.                                                   *)
DiffMount == /\ \E v \in Diff!Snapshot : ui = [old |-> Diff!Undefined, new |-> v]
             /\ pending = {} /\ past = Nil

DiffNext == /\ ui.old = Diff!Undefined
            /\ \E v \in Diff!Snapshot : ui' = [old |-> ui.new, new |-> v]
            /\ UNCHANGED <<server, pending, past>>

BarNext == (BarClick \/ NewList) /\ UNCHANGED <<server, pending, past>>

Init == \/ view = "panel"  /\ (Holding(0) \/ Holding(1)) /\ Panel!Mount
        \/ view = "trace"  /\ Holding(MaxRuns) /\ Trace!Mount
        \/ view = "studio" /\ Holding(MaxRuns) /\ Studio!Mount
        \/ view = "card"   /\ Holding(MaxRuns) /\ Card!Mount
        \/ view = "modal"  /\ Holding(MaxRuns) /\ Modal!Mount
        \/ view = "traces" /\ Holding(MaxRuns - 1) /\ Traces!Mount
        \/ view = "drift"  /\ Holding(MaxRuns - 1) /\ Drift!Mount
        \/ view = "tests"  /\ Holding(MaxRuns) /\ Tests!Mount
        \/ view = "home"   /\ Holding(0) /\ Home!Mount
        \/ view = "shell"  /\ Holding(0) /\ Shell!Mount
        \/ view = "bar"    /\ Holding(0) /\ BarMount
        \/ view = "picks"  /\ Holding(MaxRuns) /\ Picks!Mount
        \/ view = "forge"  /\ Holding(MaxRuns - 1) /\ Forge!Mount
        \/ view = "diff"   /\ Holding(0) /\ DiffMount
        \/ view = "tip"    /\ Holding(0) /\ Tip!Mount

Next == /\ \/ view = "panel"  /\ Panel!Next
           \/ view = "trace"  /\ Trace!Next
           \/ view = "studio" /\ Studio!Next
           \/ view = "card"   /\ Card!Next
           \/ view = "modal"  /\ Modal!Next
           \/ view = "traces" /\ Traces!Next
           \/ view = "drift"  /\ Drift!Next
           \/ view = "tests"  /\ Tests!Next
           \/ view = "home"   /\ Home!Next
           \/ view = "shell"  /\ Shell!Next
           \/ view = "bar"    /\ BarNext
           \/ view = "picks"  /\ Picks!Next
           \/ view = "forge"  /\ Forge!Next
           \/ view = "diff"   /\ DiffNext
           \/ view = "tip"    /\ Tip!Next
           \/ view \in {"panel", "traces", "drift", "home"} /\ RunElsewhere
           \/ view \in {"tests", "home"} /\ TestElsewhere
        /\ UNCHANGED view

Spec == Init /\ [][Next]_consolevars
-----------------------------------------------------------------------------
(* Each view keeps the types of its React state.                            *)
TypeOK ==
    /\ view = "panel"  => ui \in Panel!PanelState
    /\ view = "trace"  => ui \in Trace!PageState
    /\ view = "studio" => ui \in Studio!PageState
    /\ view = "card"   => ui \in Card!CardState
    /\ view = "modal"  => ui \in Modal!ModalState
    /\ view = "traces" => ui \in Traces!PageState
    /\ view = "drift"  => ui \in Drift!PageState
    /\ view = "tests"  => ui \in Tests!PageState
    /\ view = "home"   => ui \in Home!PageState
    /\ view = "shell"  => ui \in Shell!ShellState
    /\ view = "picks"  => ui \in Picks!PickState
    /\ view = "forge"  => ui \in Forge!PageState
    /\ view = "diff"   => ui \in [old : Diff!Value, new : Diff!Snapshot]
    /\ view = "tip"    => ui \in Tip!TipState
    /\ view = "bar"    => ui \in [page : 1..MaxPages, total : 0..MaxPages]

(* What is shown with a run is of that run, or of one that a request was    *)
(* pending for when the view turned to it: in the Jira panel, in the drift  *)
(* dialog of a trace, where a result that was closed does not come back,    *)
(* and on the Forge page, where a chosen run stays selected.  On the page   *)
(* of a trace so is the trace; its results may also be those of the run     *)
(* before, which a change of the route leaves on the screen.                *)
ShowsSelected ==
    /\ view = "panel" => Panel!ShowsSelected
    /\ view = "trace" => Trace!ShowsRoute
    /\ view = "modal" => Modal!ShowsOwnRun
    /\ view = "forge" => Forge!ShowsSelected /\ Forge!ChoiceStays

(* "Saved as regression test" is said beside the simulation that was saved, *)
(* unless a save and a simulation overlapped; the studio says it only of a  *)
(* completed simulation of its run that the pack has.                       *)
SavedIsShown ==
    /\ view = "panel"  => Panel!SavedIsShown
    /\ view = "trace"  => Trace!SavedIsShown
    /\ view = "studio" => Studio!SavedIsInPack

(* At rest, unless loads failed or crossed, a list is that of its query,    *)
(* the counters are those after the result that is shown, the drift count   *)
(* is of the first five of the runs counted beside it; and an empty search  *)
(* never stands above a list that the address filters.                      *)
ListsAreCurrent ==
    /\ view = "traces" => Traces!ListIsOfQuery
    /\ view = "tests"  => Tests!CountersTellOfResult
    /\ view = "home"   => Home!WarningsAreOfRuns
    /\ view = "shell"  => Shell!SearchIsOfAddress

(* Only a typed search, or a list that shrank under a later page, leaves    *)
(* the open page empty; and the bar of page numbers is the one a reader     *)
(* expects, also when the page is past the end of a new list.               *)
PagesHoldTheList ==
    /\ view = "traces" => Traces!EmptyOnlyBySearch
    /\ view = "drift"  => Drift!EmptyOnlyBySearch
    /\ view = "bar" /\ ui.total > 1 =>
          Bar!WellFormed(Bar!getPages(ui.page, ui.total), ui.page, ui.total)

(* The step that is inspected is the one drawn in the marked node, and its  *)
(* snapshot is marked exactly where it is not that of the step before.      *)
InspectsDrawn ==
    /\ view = "picks" => Picks!InspectsDrawn
    /\ view = "diff"  => Diff!TellsChange(ui.old, ui.new)

(* The tour of the open page is shown or timed unless it is not due, the    *)
(* step that is drawn is one of it, its spotlight is on the element of that *)
(* step, and its card lies in the window with its buttons.                  *)
TourGuides ==
    /\ view = "shell" => Shell!TourIsAwaited /\ Shell!StepInTour
    /\ view = "tip"   => Tip!SpotlightIsOfStep /\ Tip!TipFits

(* A tour that starts is that of the open page, and was never ended before. *)
TourIsDue == [][view = "shell" => Shell!TourIsDue]_consolevars

(* A view that looks busy waits for an answer, so its buttons come back.    *)
NeverStuck ==
    /\ view = "panel"  => Panel!NeverStuck
    /\ view = "trace"  => Trace!NeverStuck
    /\ view = "studio" => Studio!NeverStuck
    /\ view = "card"   => Card!NeverStuck
    /\ view = "modal"  => Modal!NeverStuck
    /\ view = "traces" => Traces!NeverStuck
    /\ view = "drift"  => Drift!NeverStuck
    /\ view = "tests"  => Tests!NeverStuck
    /\ view = "home"   => Home!NeverStuck
    /\ view = "forge"  => Forge!NeverStuck

(* The card refines FreshView, the abstract view that shows at any moment   *)
(* nothing or what belongs to its present key.                              *)
CardKey   == IF view = "card" THEN ui.key ELSE Nil
CardIssue == IF view = "card" THEN ui.issue ELSE Nil

Fresh == INSTANCE FreshView WITH Key <- Run, key <- CardKey, shown <- CardIssue

(* The issue card shows, of all the issues it was ever asked for, only the  *)
(* last one.                                                                *)
CardIsFresh == Fresh!Spec
=============================================================================
