--------------------------- MODULE ConsolePagesProofs ---------------------------
(***************************************************************************)
(* What the pages of the console show: of which run, whether it was saved,  *)
(* and whether a list, a counter or a spinner is still true when all that   *)
(* was asked for has been answered.                                         *)
(***************************************************************************)
EXTENDS ConsoleProofs, SequenceTheorems

(* The replay studio.  Its handlers are those of its run, and what is being *)
(* saved is a simulation of that run.                                       *)
StudioInv ==
    view = "studio" =>
        /\ PendingOK /\ ServerOK /\ ui \in Studio!PageState
        /\ \A p \in pending : /\ p.run = ui.run
                              /\ p.op = "promote" => p.arg \in Replay /\ p.arg.run = ui.run
        /\ ui.explor # Nil => ui.explor.run = ui.run
        /\ ui.promoted # Nil => Saved(ui.promoted) /\ ui.promoted.run = ui.run /\ ui.promoted.done

(* What the studio takes from ConsoleClient is what the console takes.      *)
LEMMA StudioTerms ==
    /\ Studio!Run = Run
    /\ Studio!Replay = Replay
    /\ \A op, stage, run, arg : Studio!NewRequest(op, stage, run, arg) = NewRequest(op, stage, run, arg)
    /\ \A op, stage, run, arg : Studio!Send(op, stage, run, arg) <=> Send(op, stage, run, arg)
    /\ \A p : Studio!Returns(p) <=> Returns(p)
    /\ \A replay : Studio!SaveTest(replay) <=> SaveTest(replay)
    /\ Studio!StoreReplay <=> StoreReplay
    /\ \A run, done : Studio!NewReplay(run, done) = NewReplay(run, done)
    /\ \A replay : Studio!Saved(replay) <=> Saved(replay)
    /\ \A u, op : Studio!SetBusy(u, op) = SetBusy(u, op)
<1>1. Studio!Run = Run
    BY DEF Studio!Run, Run
<1>2. Studio!Replay = Replay
    BY DEF Studio!Replay, Replay, Studio!Run, Run
<1>3. \A op, stage, run, arg : Studio!NewRequest(op, stage, run, arg) = NewRequest(op, stage, run, arg)
    BY DEF Studio!NewRequest, NewRequest, Studio!Seen, Seen
<1>4. \A op, stage, run, arg : Studio!Send(op, stage, run, arg) <=> Send(op, stage, run, arg)
    BY DEF Studio!Send, Send, Studio!With, With, Studio!NewRequest, NewRequest, Studio!Seen, Seen, Studio!Cardinality, Cardinality, Studio!IsFiniteSet, IsFiniteSet
<1>5. \A p : Studio!Returns(p) <=> Returns(p)
    BY DEF Studio!Returns, Returns
<1>6. \A replay : Studio!SaveTest(replay) <=> SaveTest(replay)
    BY DEF Studio!SaveTest, SaveTest
<1>7. Studio!StoreReplay <=> StoreReplay
    BY DEF Studio!StoreReplay, StoreReplay
<1>8. \A run, done : Studio!NewReplay(run, done) = NewReplay(run, done)
    BY DEF Studio!NewReplay, NewReplay
<1>9. \A replay : Studio!Saved(replay) <=> Saved(replay)
    BY DEF Studio!Saved, Saved
<1>10. \A u, op : Studio!SetBusy(u, op) = SetBusy(u, op)
    BY DEF Studio!SetBusy, SetBusy
<1> QED BY <1>1, <1>2, <1>3, <1>4, <1>5, <1>6, <1>7, <1>8, <1>9, <1>10

LEMMA ReplayIs ==
    ASSUME NEW replay \in Replay
    PROVE  replay # Nil => replay.no \in Nat /\ replay.run \in Run
BY BoundsAssumption DEF Replay

LEMMA StudioMounts == Init => StudioInv
<1> SUFFICES ASSUME Init, view = "studio" PROVE StudioInv
    BY DEF StudioInv
<1>1. Holding(MaxRuns) /\ Studio!Mount
    BY DEF Init
<1>2. MaxRuns \in 0..MaxRuns
    BY BoundsAssumption
<1>3. ServerOK /\ server.runs = MaxRuns
    BY <1>1, <1>2, HoldingIs
<1>4. PICK r \in 1..server.runs : ui = Studio!Blank(r) /\ pending = {NewRequest("load", "detail", r, Nil)}
    BY <1>1, StudioTerms DEF Studio!Mount
<1>5. PendingOK /\ \A p \in pending : p.op = "load" /\ p.run = r
    BY <1>4, MountedIs DEF IsOf
<1>6. r \in Run
    BY <1>3, <1>4 DEF Run
<1>7. /\ ui \in Studio!PageState
      /\ ui.run = r /\ ui.explor = Nil /\ ui.promoted = Nil
    BY <1>4, <1>6, StudioTerms DEF Studio!Blank, Studio!PageState
<1> QED BY <1>3, <1>5, <1>7 DEF StudioInv

LEMMA StudioStep == StudioInv /\ [Next]_consolevars => StudioInv'
<1> SUFFICES ASSUME StudioInv, [Next]_consolevars, view = "studio" PROVE StudioInv'
    BY DEF StudioInv, Next, consolevars
<1>1. view' = "studio" /\ (Studio!Next \/ UNCHANGED <<server, pending, ui>>)
    BY DEF Next, consolevars, clientvars
<1>2. /\ PendingOK /\ ServerOK /\ ui \in Studio!PageState
      /\ \A p \in pending : /\ p.run = ui.run
                            /\ p.op = "promote" => p.arg \in Replay /\ p.arg.run = ui.run
      /\ ui.explor # Nil => ui.explor.run = ui.run
      /\ ui.promoted # Nil => Saved(ui.promoted) /\ ui.promoted.run = ui.run /\ ui.promoted.done
    BY DEF StudioInv
<1>3. CASE UNCHANGED <<server, pending, ui>>
    <2>1. PendingOK' /\ ServerOK' /\ TestsStay
        BY <1>2, <1>3, SameServer DEF PendingOK
    <2> QED BY <1>2, <1>3, <2>1 DEF StudioInv, TestsStay
    (* A click sends a request of the run, for a simulation of it if any.       *)
<1>4. ASSUME NEW op, NEW arg, Send(op, "post", ui.run, arg), ui' = SetBusy(ui, op), UNCHANGED server,
             op \in {"strict", "exploratory"} \/ (op = "promote" /\ arg = ui.explor /\ ui.explor # Nil)
      PROVE  StudioInv'
    <2>1. PICK r : pending' = pending \cup {r} /\ IsOf(r, op, "post", ui.run, arg)
        BY <1>2, <1>4, SentIs
    <2>2. PendingOK' /\ ServerOK' /\ TestsStay
        BY <1>2, <1>4, SentIs, SameServer
    <2>3. /\ ui' \in Studio!PageState
          /\ ui'.run = ui.run /\ ui'.explor = ui.explor /\ ui'.promoted = ui.promoted
        BY <1>2, <1>4 DEF SetBusy, Studio!PageState
    <2>4. r.op = "promote" => r.arg \in Replay /\ r.arg.run = ui.run
        BY <1>2, <1>4, <2>1, StudioTerms DEF IsOf, Studio!PageState
    <2> QED BY <1>1, <1>2, <2>1, <2>2, <2>3, <2>4 DEF StudioInv, TestsStay, IsOf
<1>5. CASE Studio!runStrict \/ Studio!runExploratory \/ Studio!promote
    <2>1. CASE Studio!runStrict
        <3>1. Send("strict", "post", ui.run, Nil) /\ ui' = SetBusy(ui, "strict") /\ UNCHANGED server
            BY <2>1, StudioTerms DEF Studio!runStrict
        <3>2. PICK op, arg : op = "strict" /\ arg = Nil
            OBVIOUS
        <3> QED BY <1>4, <3>1, <3>2
    <2>2. CASE Studio!runExploratory
        <3>1. Send("exploratory", "post", ui.run, Nil) /\ ui' = SetBusy(ui, "exploratory") /\ UNCHANGED server
            BY <2>2, StudioTerms DEF Studio!runExploratory
        <3>2. PICK op, arg : op = "exploratory" /\ arg = Nil
            OBVIOUS
        <3> QED BY <1>4, <3>1, <3>2
    <2>3. CASE Studio!promote
        <3>1. Send("promote", "post", ui.run, ui.explor) /\ ui' = SetBusy(ui, "promote") /\ UNCHANGED server
            BY <2>3, StudioTerms DEF Studio!promote
        <3>2. ui.explor # Nil
            BY <2>3 DEF Studio!promote, Studio!Card
        <3> QED BY <1>4, <3>1, <3>2
    <2> QED BY <1>5, <2>1, <2>2, <2>3
    (* An answer ends its handler.                                              *)
<1>6. ASSUME NEW p \in pending, Returns(p), ServerOK', TestsStay, ui' \in Studio!PageState, ui'.run = ui.run,
             ui'.explor = ui.explor \/ ui'.explor.run = ui.run,
             \/ ui'.promoted = ui.promoted
             \/ \E saved : ui'.promoted = saved /\ Saved(saved)' /\ saved.run = ui.run /\ saved.done
      PROVE  StudioInv'
    <2>1. PendingOK' /\ pending' = pending \ {p}
        BY <1>2, <1>6, ReturnsIs DEF Returns
    <2>2. CASE ui'.promoted = ui.promoted
        <3>1. PICK saved : saved = ui.promoted
            OBVIOUS
        <3>2. saved # Nil => Saved(saved)' /\ saved.run = ui.run /\ saved.done
            BY <1>2, <1>6, <3>1 DEF TestsStay
        <3>3. ui'.promoted = saved
            BY <2>2, <3>1
        <3> QED BY <1>1, <1>2, <1>6, <2>1, <3>2, <3>3 DEF StudioInv, Saved
    <2>3. CASE \E saved : ui'.promoted = saved /\ Saved(saved)' /\ saved.run = ui.run /\ saved.done
        BY <1>1, <1>2, <1>6, <2>1, <2>3 DEF StudioInv, Saved
    <2> QED BY <1>6, <2>2, <2>3
<1>7. CASE Studio!Answers
    <2>1. PICK p \in pending : \/ Studio!LoadAnswer(p) \/ Studio!StrictAnswer(p) \/ Studio!ExploratoryAnswer(p)
                               \/ Studio!PromoteAnswer(p) \/ Studio!Fail(p)
        BY <1>7 DEF Studio!Answers
    <2>2. Returns(p) /\ p.run = ui.run /\ ui.run \in Run
        BY <1>2, <2>1, StudioTerms DEF Studio!LoadAnswer, Studio!StrictAnswer, Studio!ExploratoryAnswer,
                Studio!PromoteAnswer, Studio!Fail, Studio!PageState
    <2>3. CASE Studio!LoadAnswer(p) \/ Studio!StrictAnswer(p) \/ Studio!Fail(p)
        <3>1. UNCHANGED server
            BY <2>3 DEF Studio!LoadAnswer, Studio!StrictAnswer, Studio!Fail
        <3>2. /\ ui' \in Studio!PageState
              /\ ui'.run = ui.run /\ ui'.explor = ui.explor /\ ui'.promoted = ui.promoted
            BY <1>2, <2>2, <2>3, StudioTerms DEF Studio!LoadAnswer, Studio!StrictAnswer, Studio!Fail, SetBusy, Studio!PageState
        <3> QED BY <1>2, <1>6, <2>2, <3>1, <3>2, SameServer
    <2>4. CASE Studio!ExploratoryAnswer(p)
        <3>1. PICK done \in BOOLEAN : /\ ui' = [ui EXCEPT !.explor = NewReplay(p.run, done), !.busy = Nil]
                                      /\ StoreReplay
            BY <2>4, StudioTerms DEF Studio!ExploratoryAnswer
        <3>2. PICK replay : replay = NewReplay(p.run, done)
            OBVIOUS
        <3>3. ServerOK' /\ TestsStay /\ replay \in Replay /\ replay.run = ui.run
            BY <1>2, <2>2, <3>1, <3>2, StoreReplayIs
        <3>4. /\ ui' \in Studio!PageState
              /\ ui'.run = ui.run /\ ui'.explor = replay /\ ui'.promoted = ui.promoted
            BY <1>2, <3>1, <3>2, <3>3, StudioTerms DEF Studio!PageState
        <3> QED BY <1>6, <2>2, <3>3, <3>4
    <2>5. CASE Studio!PromoteAnswer(p)
        <3>1. /\ p.op = "promote" /\ SaveTest(p.arg)
              /\ ui' = [ui EXCEPT !.promoted = p.arg, !.busy = Nil]
            BY <2>5, StudioTerms DEF Studio!PromoteAnswer
        <3>2. p.arg \in Replay /\ p.arg.run = ui.run /\ p.arg.no \in Nat
            BY <1>2, <3>1, BoundsAssumption DEF Replay
        <3>3. ServerOK' /\ TestsStay /\ Saved(p.arg)' /\ p.arg.done
            BY <1>2, <3>1, <3>2, SaveTestIs
        <3>4. /\ ui' \in Studio!PageState
              /\ ui'.run = ui.run /\ ui'.explor = ui.explor /\ ui'.promoted = p.arg
            BY <1>2, <3>1, <3>2, StudioTerms DEF Studio!PageState
        <3> QED BY <1>6, <2>2, <3>2, <3>3, <3>4
    <2> QED BY <2>1, <2>3, <2>4, <2>5
<1> QED BY <1>1, <1>3, <1>5, <1>7 DEF Studio!Next
-----------------------------------------------------------------------------
(* A save that overlaps the request for a simulation is remembered in past; *)
(* any other is of the simulation that is shown, if one is.                 *)
NoneAsked == \A p \in pending : p.op # "exploratory"

SavesInv ==
    /\ \A p \in pending : p.op = "promote" =>
           p.arg \in Replay /\ (p.arg \in past.saves \/ (NoneAsked /\ ui.explor \in {Nil, p.arg}))
    /\ ui.promoted # Nil =>
           \/ ui.promoted \in past.saves
           \/ NoneAsked /\ (ui.explor = Nil \/ (ui.promoted = ui.explor /\ Saved(ui.explor)))

(* A button that is busy waits for the answer to a click of it.             *)
BusyInv == ui.busy # Nil => \E p \in pending : p.op = ui.busy

(* How the steps of a view change these: a simulation is asked for, one is  *)
(* saved, one comes, it goes; a save is answered.                           *)
LEMMA SavesKept ==
    ASSUME SavesInv, TestsStay, past'.saves = past.saves, ui'.promoted = ui.promoted,
           ui'.explor \in {Nil, ui.explor},
           \A p \in pending' : p.op \in {"promote", "exploratory"} =>
               \E q \in pending : q.op = p.op /\ q.arg = p.arg
    PROVE  SavesInv'
<1>1. NoneAsked => NoneAsked'
    BY DEF NoneAsked
<1>2. ASSUME NEW p \in pending', p.op = "promote"
      PROVE  p.arg \in Replay /\ (p.arg \in past'.saves \/ (NoneAsked' /\ ui'.explor \in {Nil, p.arg}))
    BY <1>1, <1>2 DEF SavesInv
<1>3. PICK s : s = ui.explor
    OBVIOUS
<1>4. Saved(s) => Saved(s)'
    BY DEF TestsStay
<1>5. ASSUME ui'.promoted # Nil
      PROVE  \/ ui'.promoted \in past'.saves
             \/ NoneAsked' /\ (ui'.explor = Nil \/ (ui'.promoted = ui'.explor /\ ui'.explor = s /\ Saved(s)'))
    BY <1>1, <1>3, <1>4, <1>5 DEF SavesInv
<1>6. ASSUME ui'.explor = s, Saved(s)' PROVE Saved(ui.explor)'
    BY <1>6 DEF Saved
<1> QED BY <1>2, <1>5, <1>6 DEF SavesInv

LEMMA SimulationAsked ==
    ASSUME SavesInv, NEW r, pending' = pending \cup {r}, r.op = "exploratory",
           past'.saves = {p.arg : p \in Waiting("promote")}, ui'.promoted = Nil
    PROVE  SavesInv'
<1>1. \A p \in pending' : p.op = "promote" => p \in Waiting("promote")
    BY DEF Waiting
<1> QED BY <1>1 DEF SavesInv

LEMMA SaveAsked ==
    ASSUME SavesInv, NEW r, pending' = pending \cup {r}, r.op = "promote", r.arg = ui.explor, ui.explor \in Replay,
           past'.saves = past.saves \cup {ui.explor : p \in Waiting("exploratory")},
           ui'.promoted = Nil, ui'.explor = ui.explor
    PROVE  SavesInv'
<1>1. NoneAsked \/ ui.explor \in past'.saves
    BY DEF NoneAsked, Waiting
<1>2. NoneAsked => NoneAsked'
    BY DEF NoneAsked
<1> QED BY <1>1, <1>2 DEF SavesInv

LEMMA SimulationComes ==
    ASSUME SavesInv, NEW p \in pending, p.op = "exploratory", pending' = pending \ {p},
           past' = past, ui'.promoted = ui.promoted
    PROVE  SavesInv'
<1>1. ~NoneAsked
    BY DEF NoneAsked
<1> QED BY <1>1 DEF SavesInv

LEMMA SaveAnswered ==
    ASSUME SavesInv, NEW p \in pending, p.op = "promote", pending' = pending \ {p},
           past' = past, ui'.promoted = p.arg, ui'.explor = ui.explor, Saved(p.arg)'
    PROVE  SavesInv'
<1>1. NoneAsked => NoneAsked'
    BY DEF NoneAsked
<1>2. PICK s : s = p.arg
    OBVIOUS
<1>3. ui'.explor = s => Saved(ui.explor)'
    BY <1>2 DEF Saved
<1> QED BY <1>1, <1>2, <1>3 DEF SavesInv

LEMMA SavesTold ==
    ASSUME SavesInv, ui.promoted # Nil, ui.explor # Nil
    PROVE  \/ ui.promoted = ui.explor /\ Saved(ui.explor)
           \/ ui.promoted \in past.saves
BY DEF SavesInv
-----------------------------------------------------------------------------
(* The page of one trace.  What is loading is the run of the route, or a    *)
(* run that was being loaded when the route changed; the run of the route   *)
(* is loading, unless its load failed or its detail, or that of such a      *)
(* former run, is shown.                                                    *)
RouteInv ==
    /\ \A p \in pending : p.op = "load" => p.run \in {ui.run} \cup past.runs
    /\ \/ \E p \in pending : p.op = "load" /\ p.run = ui.run
       \/ past.failed
       \/ ui.detail \in {ui.run} \cup past.runs

(* A result that is shown or awaited is of the run of the route, or was so  *)
(* when the route turned.                                                   *)
ResultsInv == Trace!ResultRuns \cup Trace!AwaitedRuns \subseteq {ui.run} \cup past.results

TraceTypes == /\ ui \in Trace!PageState
              /\ past = [runs |-> past.runs, saves |-> past.saves, results |-> past.results, failed |-> past.failed]
              /\ \A p \in pending : p.run \in Run

TraceOK == PendingOK /\ ServerOK /\ TraceTypes /\ SavesInv /\ RouteInv /\ ResultsInv /\ BusyInv

TraceInv == view = "trace" => TraceOK

(* What the page takes from ConsoleClient is what the console takes.        *)
LEMMA TraceTerms ==
    /\ Trace!Run = Run
    /\ Trace!Replay = Replay
    /\ \A op, stage, run, arg : Trace!NewRequest(op, stage, run, arg) = NewRequest(op, stage, run, arg)
    /\ \A op, stage, run, arg : Trace!Send(op, stage, run, arg) <=> Send(op, stage, run, arg)
    /\ \A p : Trace!Returns(p) <=> Returns(p)
    /\ \A replay : Trace!SaveTest(replay) <=> SaveTest(replay)
    /\ Trace!StoreReplay <=> StoreReplay
    /\ \A run, done : Trace!NewReplay(run, done) = NewReplay(run, done)
    /\ \A replay : Trace!Saved(replay) <=> Saved(replay)
    /\ \A op : Trace!Waiting(op) = Waiting(op)
    /\ \A u, op : Trace!SetBusy(u, op) = SetBusy(u, op)
<1>1. Trace!Run = Run
    BY DEF Trace!Run, Run
<1>2. Trace!Replay = Replay
    BY DEF Trace!Replay, Replay, Trace!Run, Run
<1>3. \A op, stage, run, arg : Trace!NewRequest(op, stage, run, arg) = NewRequest(op, stage, run, arg)
    BY DEF Trace!NewRequest, NewRequest, Trace!Seen, Seen
<1>4. \A op, stage, run, arg : Trace!Send(op, stage, run, arg) <=> Send(op, stage, run, arg)
    BY DEF Trace!Send, Send, Trace!With, With, Trace!NewRequest, NewRequest, Trace!Seen, Seen, Trace!Cardinality, Cardinality, Trace!IsFiniteSet, IsFiniteSet
<1>5. \A p : Trace!Returns(p) <=> Returns(p)
    BY DEF Trace!Returns, Returns
<1>6. \A replay : Trace!SaveTest(replay) <=> SaveTest(replay)
    BY DEF Trace!SaveTest, SaveTest
<1>7. Trace!StoreReplay <=> StoreReplay
    BY DEF Trace!StoreReplay, StoreReplay
<1>8. \A run, done : Trace!NewReplay(run, done) = NewReplay(run, done)
    BY DEF Trace!NewReplay, NewReplay
<1>9. \A replay : Trace!Saved(replay) <=> Saved(replay)
    BY DEF Trace!Saved, Saved
<1>10. \A op : Trace!Waiting(op) = Waiting(op)
    BY DEF Trace!Waiting, Waiting
<1>11. \A u, op : Trace!SetBusy(u, op) = SetBusy(u, op)
    BY DEF Trace!SetBusy, SetBusy
<1> QED BY <1>1, <1>2, <1>3, <1>4, <1>5, <1>6, <1>7, <1>8, <1>9, <1>10, <1>11

(* The results, one by one.                                                 *)
LEMMA ResultsAre ==
    ResultsInv <=>
        /\ ui.strict # Nil => ui.strict \in {ui.run} \cup past.results
        /\ ui.explor # Nil => ui.explor.run \in {ui.run} \cup past.results
        /\ ui.promoted # Nil => ui.promoted.run \in {ui.run} \cup past.results
        /\ \A p \in pending : p.op \in {"strict", "exploratory"} => p.run \in {ui.run} \cup past.results
        /\ \A p \in pending : p.op = "promote" => p.arg.run \in {ui.run} \cup past.results
BY DEF ResultsInv, Trace!ResultRuns, Trace!AwaitedRuns, Trace!Waiting

LEMMA ResultsNext ==
    (/\ ui'.strict # Nil => ui'.strict \in {ui'.run} \cup past'.results
     /\ ui'.explor # Nil => ui'.explor.run \in {ui'.run} \cup past'.results
     /\ ui'.promoted # Nil => ui'.promoted.run \in {ui'.run} \cup past'.results
     /\ \A p \in pending' : p.op \in {"strict", "exploratory"} => p.run \in {ui'.run} \cup past'.results
     /\ \A p \in pending' : p.op = "promote" => p.arg.run \in {ui'.run} \cup past'.results)
    => ResultsInv'
BY DEF ResultsInv, Trace!ResultRuns, Trace!AwaitedRuns, Trace!Waiting

LEMMA TraceMounts == Init => TraceInv
<1> SUFFICES ASSUME Init, view = "trace" PROVE TraceOK
    BY DEF TraceInv
<1>1. Holding(MaxRuns) /\ Trace!Mount
    BY DEF Init
<1>2. MaxRuns \in 0..MaxRuns
    BY BoundsAssumption
<1>3. ServerOK /\ server.runs = MaxRuns
    BY <1>1, <1>2, HoldingIs
<1>4. PICK r \in 1..server.runs : ui = Trace!Blank(r) /\ pending = {NewRequest("load", "detail", r, Nil)}
    BY <1>1, TraceTerms DEF Trace!Mount
<1>5. past = [runs |-> {}, saves |-> {}, results |-> {}, failed |-> FALSE]
    BY <1>1 DEF Trace!Mount
<1>6. PendingOK /\ \A p \in pending : p.op = "load" /\ p.run = r
    BY <1>4, MountedIs DEF IsOf
<1>7. \E p \in pending : TRUE
    BY <1>4
<1>8. r \in Run
    BY <1>3, <1>4 DEF Run
<1>9. /\ ui \in Trace!PageState
      /\ ui.run = r /\ ui.promoted = Nil /\ ui.busy = "load"
      /\ ui.strict = Nil /\ ui.explor = Nil
    BY <1>4, <1>8, TraceTerms DEF Trace!Blank, Trace!PageState
<1>10. TraceTypes
    BY <1>5, <1>6, <1>8, <1>9 DEF TraceTypes
<1>11. RouteInv /\ BusyInv /\ SavesInv
    BY <1>6, <1>7, <1>9 DEF RouteInv, BusyInv, SavesInv
<1>12. ResultsInv
    BY <1>6, <1>9, ResultsAre
<1> QED BY <1>3, <1>6, <1>10, <1>11, <1>12 DEF TraceOK

(* A click sends a request of the run that is shown.                        *)
LEMMA TraceClicks ==
    ASSUME TraceOK, Trace!Reload \/ Trace!runStrict \/ Trace!runExploratory \/ Trace!promote
    PROVE  TraceOK'
<1>1. /\ PendingOK /\ ServerOK /\ TraceTypes /\ SavesInv /\ RouteInv /\ ResultsInv /\ BusyInv
      /\ ui \in Trace!PageState /\ ui.run \in Run
      /\ past = [runs |-> past.runs, saves |-> past.saves, results |-> past.results, failed |-> past.failed]
      /\ \A p \in pending : p.run \in Run
    BY TraceTerms DEF TraceOK, TraceTypes, Trace!PageState
    (* What the four of them have in common.                                    *)
<1>2. ASSUME NEW op, NEW stage, NEW arg, Send(op, stage, ui.run, arg), UNCHANGED server,
             ui' \in Trace!PageState, ui'.run = ui.run, ui'.detail = ui.detail, ui'.busy = op,
             past' = [runs |-> past'.runs, saves |-> past'.saves, results |-> past'.results, failed |-> past'.failed],
             past'.runs = past.runs, (op = "load" \/ past'.failed = past.failed),
             past'.results = past.results, ui'.strict = ui.strict,
             ui'.explor \in {Nil, ui.explor}, ui'.promoted \in {Nil, ui.promoted},
             op = "promote" => arg = ui.explor /\ ui.explor # Nil
      PROVE  /\ PendingOK' /\ ServerOK' /\ TestsStay /\ TraceTypes' /\ RouteInv' /\ ResultsInv' /\ BusyInv'
             /\ \E r : pending' = pending \cup {r} /\ IsOf(r, op, stage, ui.run, arg)
    <2>1. PICK r : pending' = pending \cup {r} /\ IsOf(r, op, stage, ui.run, arg)
        BY <1>1, <1>2, SentIs
    <2>2. PendingOK' /\ ServerOK' /\ TestsStay
        BY <1>1, <1>2, SentIs, SameServer
    <2>3. TraceTypes' /\ BusyInv'
        BY <1>1, <1>2, <2>1 DEF TraceTypes, BusyInv, IsOf
    <2>4. RouteInv'
        BY <1>1, <1>2, <2>1 DEF RouteInv, IsOf
    <2>5. ResultsInv'
        BY <1>1, <1>2, <2>1, ResultsAre, ResultsNext DEF IsOf
    <2> QED BY <2>1, <2>2, <2>3, <2>4, <2>5
<1>3. CASE Trace!Reload
    <2>1. /\ Send("load", "detail", ui.run, Nil) /\ UNCHANGED server
          /\ ui' = SetBusy(ui, "load") /\ past' = [past EXCEPT !.failed = FALSE]
        BY <1>3, TraceTerms DEF Trace!Reload
    <2>2. /\ ui' \in Trace!PageState /\ ui'.run = ui.run /\ ui'.detail = ui.detail /\ ui'.busy = "load"
          /\ ui'.promoted = ui.promoted /\ ui'.explor = ui.explor /\ ui'.strict = ui.strict
        BY <1>1, <2>1 DEF SetBusy, Trace!PageState
    <2>3. /\ past' = [runs |-> past'.runs, saves |-> past'.saves, results |-> past'.results, failed |-> past'.failed]
          /\ past'.runs = past.runs /\ past'.saves = past.saves /\ past'.results = past.results
        BY <1>1, <2>1
    <2>4. PICK op, stage, arg : op = "load" /\ stage = "detail" /\ arg = Nil
        OBVIOUS
    <2>5. /\ PendingOK' /\ ServerOK' /\ TestsStay /\ TraceTypes' /\ RouteInv' /\ ResultsInv' /\ BusyInv'
          /\ \E r : pending' = pending \cup {r} /\ IsOf(r, op, stage, ui.run, arg)
        BY <1>2, <2>1, <2>2, <2>3, <2>4
    <2>6. PICK r : pending' = pending \cup {r} /\ r.op = "load"
        BY <2>4, <2>5 DEF IsOf
    <2>7. SavesInv'
        BY <1>1, <2>2, <2>3, <2>5, <2>6, SavesKept
    <2> QED BY <2>5, <2>7 DEF TraceOK
<1>4. CASE Trace!runStrict
    <2>1. Send("strict", "post", ui.run, Nil) /\ UNCHANGED <<server, past>> /\ ui' = SetBusy(ui, "strict")
        BY <1>4, TraceTerms DEF Trace!runStrict
    <2>2. /\ ui' \in Trace!PageState /\ ui'.run = ui.run /\ ui'.detail = ui.detail /\ ui'.busy = "strict"
          /\ ui'.promoted = ui.promoted /\ ui'.explor = ui.explor /\ ui'.strict = ui.strict
        BY <1>1, <2>1 DEF SetBusy, Trace!PageState
    <2>3. PICK op, stage, arg : op = "strict" /\ stage = "post" /\ arg = Nil
        OBVIOUS
    <2>4. /\ PendingOK' /\ ServerOK' /\ TestsStay /\ TraceTypes' /\ RouteInv' /\ ResultsInv' /\ BusyInv'
          /\ \E r : pending' = pending \cup {r} /\ IsOf(r, op, stage, ui.run, arg)
        BY <1>1, <1>2, <2>1, <2>2, <2>3
    <2>5. PICK r : pending' = pending \cup {r} /\ r.op = "strict"
        BY <2>3, <2>4 DEF IsOf
    <2>6. SavesInv'
        BY <1>1, <2>1, <2>2, <2>4, <2>5, SavesKept
    <2> QED BY <2>4, <2>6 DEF TraceOK
<1>5. CASE Trace!runExploratory
    <2>1. /\ Send("exploratory", "post", ui.run, Nil) /\ UNCHANGED server
          /\ ui' = SetBusy(Trace!Cleared(ui), "exploratory")
          /\ past' = [past EXCEPT !.saves = {p.arg : p \in Waiting("promote")}]
        BY <1>5, TraceTerms DEF Trace!runExploratory
    <2>2. PICK u : u = [ui EXCEPT !.explor = Nil, !.promoted = Nil]
        OBVIOUS
    <2>3. /\ u \in Trace!PageState /\ u.run = ui.run /\ u.detail = ui.detail /\ u.explor = Nil /\ u.promoted = Nil
          /\ u.strict = ui.strict
        BY <1>1, <2>2 DEF Trace!PageState
    <2>4. ui' = SetBusy(u, "exploratory")
        BY <2>1, <2>2 DEF Trace!Cleared
    <2>5. /\ ui' \in Trace!PageState /\ ui'.run = ui.run /\ ui'.detail = ui.detail /\ ui'.busy = "exploratory"
          /\ ui'.promoted = Nil /\ ui'.explor = Nil /\ ui'.strict = ui.strict
        BY <2>3, <2>4 DEF SetBusy, Trace!PageState
    <2>6. PICK saves : saves = {p.arg : p \in Waiting("promote")}
        OBVIOUS
    <2>7. /\ past' = [runs |-> past'.runs, saves |-> past'.saves, results |-> past'.results, failed |-> past'.failed]
          /\ past'.runs = past.runs /\ past'.failed = past.failed /\ past'.saves = saves
          /\ past'.results = past.results
        BY <1>1, <2>1, <2>6
    <2>8. PICK op, stage, arg : op = "exploratory" /\ stage = "post" /\ arg = Nil
        OBVIOUS
    <2>9. /\ PendingOK' /\ ServerOK' /\ TestsStay /\ TraceTypes' /\ RouteInv' /\ ResultsInv' /\ BusyInv'
          /\ \E r : pending' = pending \cup {r} /\ IsOf(r, op, stage, ui.run, arg)
        BY <1>2, <2>1, <2>5, <2>7, <2>8
    <2>10. PICK r : pending' = pending \cup {r} /\ r.op = "exploratory"
        BY <2>8, <2>9 DEF IsOf
    <2>11. SavesInv'
        BY <1>1, <2>5, <2>6, <2>7, <2>10, SimulationAsked
    <2> QED BY <2>9, <2>11 DEF TraceOK
<1>6. CASE Trace!promote
    <2>1. /\ Send("promote", "post", ui.run, ui.explor) /\ UNCHANGED server
          /\ ui' = SetBusy(ui, "promote")
          /\ past' = [past EXCEPT !.saves = @ \cup {ui.explor : p \in Waiting("exploratory")}]
          /\ ui.promoted = Nil /\ ui.explor # Nil
        BY <1>6, TraceTerms DEF Trace!promote, Trace!Completed
    <2>2. /\ ui' \in Trace!PageState /\ ui'.run = ui.run /\ ui'.detail = ui.detail /\ ui'.busy = "promote"
          /\ ui'.promoted = Nil /\ ui'.explor = ui.explor /\ ui'.strict = ui.strict
        BY <1>1, <2>1 DEF SetBusy, Trace!PageState
    <2>3. PICK saves : saves = past.saves \cup {ui.explor : p \in Waiting("exploratory")}
        OBVIOUS
    <2>4. /\ past' = [runs |-> past'.runs, saves |-> past'.saves, results |-> past'.results, failed |-> past'.failed]
          /\ past'.runs = past.runs /\ past'.failed = past.failed /\ past'.saves = saves
          /\ past'.results = past.results
        BY <1>1, <2>1, <2>3
    <2>5. PICK op, stage, arg : op = "promote" /\ stage = "post" /\ arg = ui.explor
        OBVIOUS
    <2>6. /\ PendingOK' /\ ServerOK' /\ TestsStay /\ TraceTypes' /\ RouteInv' /\ ResultsInv' /\ BusyInv'
          /\ \E r : pending' = pending \cup {r} /\ IsOf(r, op, stage, ui.run, arg)
        BY <1>2, <2>1, <2>2, <2>4, <2>5
    <2>7. PICK r : pending' = pending \cup {r} /\ r.op = "promote" /\ r.arg = ui.explor
        BY <2>5, <2>6 DEF IsOf
    <2>8. ui.explor \in Replay
        BY <1>1, <2>1, TraceTerms DEF Trace!PageState
    <2>9. SavesInv'
        BY <1>1, <2>1, <2>2, <2>3, <2>4, <2>7, <2>8, SaveAsked
    <2> QED BY <2>6, <2>9 DEF TraceOK
<1> QED BY <1>3, <1>4, <1>5, <1>6

LEMMA TraceNavigates ==
    ASSUME TraceOK, Trace!Navigate
    PROVE  TraceOK'
<1>1. /\ PendingOK /\ ServerOK /\ SavesInv /\ ui \in Trace!PageState
      /\ past = [runs |-> past.runs, saves |-> past.saves, results |-> past.results, failed |-> past.failed]
      /\ \A p \in pending : p.run \in Run
    BY DEF TraceOK, TraceTypes
<1>2. PICK n \in Run : /\ Send("load", "detail", n, Nil)
                       /\ ui' = [ui EXCEPT !.run = n, !.busy = "load"]
    <2>1. PICK n \in 1..server.runs \ {ui.run} : /\ Send("load", "detail", n, Nil)
                                               /\ ui' = [ui EXCEPT !.run = n, !.busy = "load"]
        BY TraceTerms DEF Trace!Navigate
    <2>2. 1..server.runs \subseteq Run
        BY <1>1, BoundsAssumption, ServerIs DEF ServerOK, Run
    <2> QED BY <2>1, <2>2
<1>3. PICK runs, results : /\ runs = {p.run : p \in Waiting("load")}
                           /\ results = Trace!ResultRuns \cup Trace!AwaitedRuns
    OBVIOUS
<1>4. past' = [past EXCEPT !.runs = runs, !.results = results, !.failed = FALSE] /\ UNCHANGED server
    BY <1>3, TraceTerms DEF Trace!Navigate
<1>5. /\ past' = [runs |-> past'.runs, saves |-> past'.saves, results |-> past'.results, failed |-> past'.failed]
      /\ past'.runs = runs /\ past'.saves = past.saves /\ past'.results = results
    BY <1>1, <1>4
<1>6. /\ ui' \in Trace!PageState /\ ui'.run = n /\ ui'.busy = "load"
      /\ ui'.promoted = ui.promoted /\ ui'.explor = ui.explor /\ ui'.strict = ui.strict
    BY <1>1, <1>2, TraceTerms DEF Trace!PageState
<1>7. PICK r : pending' = pending \cup {r} /\ r.op = "load" /\ r.run = n
    BY <1>1, <1>2, SentIs DEF IsOf
<1>8. PendingOK' /\ ServerOK' /\ TestsStay
    BY <1>1, <1>2, <1>4, SentIs, SameServer
<1>9. TraceTypes' /\ BusyInv'
    BY <1>1, <1>5, <1>6, <1>7 DEF TraceTypes, BusyInv
<1>10. \A p \in pending : p.op = "load" => p.run \in runs
    BY <1>3 DEF Waiting
<1>11. RouteInv'
    BY <1>5, <1>6, <1>7, <1>10 DEF RouteInv
<1>12. SavesInv'
    BY <1>1, <1>5, <1>6, <1>7, <1>8, SavesKept
<1>13. /\ ui.strict # Nil => ui.strict \in results
       /\ ui.explor # Nil => ui.explor.run \in results
       /\ ui.promoted # Nil => ui.promoted.run \in results
       /\ \A p \in pending : p.op \in {"strict", "exploratory"} => p.run \in results
       /\ \A p \in pending : p.op = "promote" => p.arg.run \in results
    BY <1>3 DEF Trace!ResultRuns, Trace!AwaitedRuns, Trace!Waiting
<1>14. ResultsInv'
    BY <1>5, <1>6, <1>7, <1>13, ResultsNext
<1> QED BY <1>8, <1>9, <1>11, <1>12, <1>14 DEF TraceOK

LEMMA TraceAnswered ==
    ASSUME TraceOK, Trace!Answers
    PROVE  TraceOK'
<1>1. /\ PendingOK /\ ServerOK /\ SavesInv /\ RouteInv /\ ResultsInv /\ ui \in Trace!PageState
      /\ past = [runs |-> past.runs, saves |-> past.saves, results |-> past.results, failed |-> past.failed]
      /\ \A p \in pending : p.run \in Run
    BY DEF TraceOK, TraceTypes
<1>2. PICK p \in pending : \/ Trace!LoadAnswer(p) \/ Trace!StrictAnswer(p) \/ Trace!ExploratoryAnswer(p)
                           \/ Trace!PromoteAnswer(p) \/ Trace!Fail(p)
    BY DEF Trace!Answers
<1>3. pending' = pending \ {p} /\ p.run \in Run
    BY <1>1, <1>2, TraceTerms DEF Trace!LoadAnswer, Trace!StrictAnswer, Trace!ExploratoryAnswer,
            Trace!PromoteAnswer, Trace!Fail, Returns
<1>4. PendingOK'
    BY <1>1, <1>3, ReturnsIs DEF Returns
    (* Any answer ends its handler, and the spinner with it.                    *)
<1>5. ASSUME past' = past, ui' \in Trace!PageState, ui'.busy = Nil
      PROVE  TraceTypes' /\ BusyInv'
    BY <1>1, <1>3, <1>5 DEF TraceTypes, BusyInv
<1>6. ASSUME past' = past, ui'.run = ui.run, ui'.detail = ui.detail, p.op # "load"
      PROVE  RouteInv'
    BY <1>1, <1>3, <1>6 DEF RouteInv
<1>7. ASSUME past'.results = past.results, ui'.run = ui.run,
              ui'.strict # ui.strict => p.op = "strict" /\ ui'.strict = p.run,
              ui'.explor # ui.explor => p.op = "exploratory" /\ ui'.explor.run = p.run,
              ui'.promoted # ui.promoted => p.op = "promote" /\ ui'.promoted = p.arg
       PROVE  ResultsInv'
    BY <1>1, <1>3, <1>7, ResultsAre, ResultsNext
<1>8. CASE Trace!LoadAnswer(p)
    <2>1. p.op = "load" /\ ui' = [ui EXCEPT !.detail = p.run, !.busy = Nil] /\ UNCHANGED <<server, past>>
        BY <1>8 DEF Trace!LoadAnswer
    <2>2. /\ ui' \in Trace!PageState /\ ui'.run = ui.run /\ ui'.detail = p.run /\ ui'.busy = Nil
          /\ ui'.promoted = ui.promoted /\ ui'.explor = ui.explor /\ ui'.strict = ui.strict
        BY <1>1, <1>3, <2>1, TraceTerms DEF Trace!PageState
    <2>3. ServerOK' /\ TestsStay /\ SavesInv'
        BY <1>1, <1>3, <2>1, <2>2, SameServer, SavesKept
    <2>4. RouteInv'
        BY <1>1, <1>3, <2>1, <2>2 DEF RouteInv
    <2>5. ResultsInv'
        BY <1>7, <2>1, <2>2
    <2> QED BY <1>4, <1>5, <2>1, <2>2, <2>3, <2>4, <2>5 DEF TraceOK
<1>9. CASE Trace!StrictAnswer(p)
    <2>1. p.op = "strict" /\ ui' = [ui EXCEPT !.strict = p.run, !.busy = Nil] /\ UNCHANGED <<server, past>>
        BY <1>9 DEF Trace!StrictAnswer
    <2>2. /\ ui' \in Trace!PageState /\ ui'.run = ui.run /\ ui'.detail = ui.detail /\ ui'.busy = Nil
          /\ ui'.promoted = ui.promoted /\ ui'.explor = ui.explor /\ ui'.strict = p.run
        BY <1>1, <1>3, <2>1, TraceTerms DEF Trace!PageState
    <2>3. ServerOK' /\ TestsStay /\ SavesInv'
        BY <1>1, <1>3, <2>1, <2>2, SameServer, SavesKept
    <2>4. ResultsInv'
        BY <1>7, <2>1, <2>2
    <2> QED BY <1>4, <1>5, <1>6, <2>1, <2>2, <2>3, <2>4 DEF TraceOK
<1>10. CASE Trace!ExploratoryAnswer(p)
    <2>1. PICK done \in BOOLEAN : /\ ui' = [ui EXCEPT !.explor = NewReplay(p.run, done), !.busy = Nil]
                                  /\ StoreReplay /\ p.op = "exploratory" /\ past' = past
        BY <1>10, TraceTerms DEF Trace!ExploratoryAnswer
    <2>2. PICK replay : replay = NewReplay(p.run, done)
        OBVIOUS
    <2>3. ServerOK' /\ replay \in Replay /\ replay.run = p.run
        BY <1>1, <1>3, <2>1, <2>2, StoreReplayIs DEF NewReplay
    <2>4. /\ ui' \in Trace!PageState /\ ui'.run = ui.run /\ ui'.detail = ui.detail /\ ui'.busy = Nil
          /\ ui'.promoted = ui.promoted /\ ui'.explor = replay /\ ui'.strict = ui.strict
        BY <1>1, <2>1, <2>2, <2>3, TraceTerms DEF Trace!PageState
    <2>5. SavesInv'
        BY <1>1, <1>3, <2>1, <2>4, SimulationComes
    <2>6. ResultsInv'
        BY <1>7, <2>1, <2>3, <2>4
    <2> QED BY <1>4, <1>5, <1>6, <2>1, <2>3, <2>4, <2>5, <2>6 DEF TraceOK
<1>11. CASE Trace!PromoteAnswer(p)
    <2>1. /\ p.op = "promote" /\ SaveTest(p.arg) /\ past' = past
          /\ ui' = [ui EXCEPT !.promoted = p.arg, !.busy = Nil]
        BY <1>11, TraceTerms DEF Trace!PromoteAnswer
    <2>2. p.arg \in Replay /\ p.arg.no \in Nat
        BY <1>1, <2>1, BoundsAssumption DEF SavesInv, Replay
    <2>3. ServerOK' /\ Saved(p.arg)'
        BY <1>1, <2>1, <2>2, SaveTestIs
    <2>4. /\ ui' \in Trace!PageState /\ ui'.run = ui.run /\ ui'.detail = ui.detail /\ ui'.busy = Nil
          /\ ui'.promoted = p.arg /\ ui'.explor = ui.explor /\ ui'.strict = ui.strict
        BY <1>1, <2>1, <2>2, TraceTerms DEF Trace!PageState
    <2>5. SavesInv'
        BY <1>1, <1>3, <2>1, <2>3, <2>4, SaveAnswered
    <2>6. ResultsInv'
        BY <1>7, <2>1, <2>4
    <2> QED BY <1>4, <1>5, <1>6, <2>1, <2>3, <2>4, <2>5, <2>6 DEF TraceOK
<1>12. CASE Trace!Fail(p)
    <2>1. PICK failed : failed = (past.failed \/ (p.op = "load" /\ p.run = ui.run))
        OBVIOUS
    <2>2. ui' = SetBusy(ui, Nil) /\ past' = [past EXCEPT !.failed = failed] /\ UNCHANGED server
        BY <1>12, <2>1, TraceTerms DEF Trace!Fail
    <2>3. /\ past' = [runs |-> past'.runs, saves |-> past'.saves, results |-> past'.results, failed |-> past'.failed]
          /\ past'.runs = past.runs /\ past'.saves = past.saves /\ past'.failed = failed
          /\ past'.results = past.results
        BY <1>1, <2>2
    <2>4. /\ ui' \in Trace!PageState /\ ui'.run = ui.run /\ ui'.detail = ui.detail /\ ui'.busy = Nil
          /\ ui'.promoted = ui.promoted /\ ui'.explor = ui.explor /\ ui'.strict = ui.strict
        BY <1>1, <2>2, TraceTerms DEF SetBusy, Trace!PageState
    <2>5. ServerOK' /\ TestsStay /\ SavesInv'
        BY <1>1, <1>3, <2>2, <2>3, <2>4, SameServer, SavesKept
    <2>6. TraceTypes' /\ BusyInv'
        BY <1>1, <1>3, <2>3, <2>4 DEF TraceTypes, BusyInv
    <2>7. RouteInv'
        BY <1>1, <1>3, <2>1, <2>3, <2>4 DEF RouteInv
    <2>8. ResultsInv'
        BY <1>7, <2>3, <2>4
    <2> QED BY <1>4, <2>5, <2>6, <2>7, <2>8 DEF TraceOK
<1> QED BY <1>2, <1>8, <1>9, <1>10, <1>11, <1>12

LEMMA TraceStep == TraceInv /\ [Next]_consolevars => TraceInv'
<1> SUFFICES ASSUME TraceInv, [Next]_consolevars, view = "trace" PROVE TraceOK'
    BY DEF TraceInv, Next, consolevars
<1>1. TraceOK /\ (Trace!Next \/ UNCHANGED <<server, pending, ui, past>>)
    BY DEF TraceInv, Next, consolevars, clientvars
<1>2. CASE UNCHANGED <<server, pending, ui, past>>
    BY <1>1, <1>2 DEF TraceOK, PendingOK, ServerOK, TraceTypes, SavesInv, NoneAsked, Saved, RouteInv,
            ResultsInv, Trace!ResultRuns, Trace!AwaitedRuns, Trace!Waiting, BusyInv
<1> QED BY <1>1, <1>2, TraceClicks, TraceNavigates, TraceAnswered DEF Trace!Next
-----------------------------------------------------------------------------
(* The Jira panel.  A handler is where its op and its stage tell, with what *)
(* it needs to go on.                                                       *)
RequestFits(p) ==
    /\ p.run \in Run \cup {Nil}
    /\ p.op \in {"load", "switch", "strict", "exploratory", "promote", "drift", "regression", "trace"}
    /\ p.stage = "detail" => p.op \in {"load", "switch", "trace"} /\ p.run \in Run
    /\ p.op = "switch" => p.stage = "detail"
    /\ p.op \in {"strict", "exploratory", "promote", "drift"} => p.run \in Run
    /\ p.op = "promote" /\ p.stage = "list" => Saved(p.arg)
    /\ p.stage \in {"list", "lists"} => p.seen \in SeenState
    /\ p.op = "trace" /\ p.stage = "list" => p.seen.runs > 0

PanelTypes == /\ ui \in Panel!PanelState
              /\ past = [runs |-> past.runs, saves |-> past.saves]
              /\ \A p \in pending : RequestFits(p)

(* The first load is alone, and nothing is shown before it is over.         *)
FirstLoad ==
    /\ ~ui.issue => pending = {}
    /\ ~ui.issue \/ (\E p \in pending : p.op = "load") =>
          /\ ui.loading /\ ui.busy = Nil
          /\ {ui.detail, ui.warned, ui.strict, ui.explor, ui.promoted, ui.drift} = {Nil}
          /\ \A p, q \in pending : p = q

ShowsInv ==
    /\ \A p \in pending : p.run \in {Nil, ui.run} \cup past.runs
    /\ ui.detail # Nil => {ui.detail, ui.warned} \subseteq {ui.run} \cup past.runs
    /\ {ui.strict, ui.drift} \subseteq {Nil, ui.run} \cup past.runs
    /\ ui.explor # Nil => ui.explor.run \in {ui.run} \cup past.runs

SpinnerInv == ui.loading /\ ui.issue => \E p \in pending : p.op \in {"load", "trace"}

PanelRest == PendingOK /\ ServerOK /\ PanelTypes /\ FirstLoad /\ ShowsInv /\ BusyInv /\ SpinnerInv

PanelOK == PanelRest /\ SavesInv

PanelInv == view = "panel" => PanelOK

(* What the panel takes from ConsoleClient is what the console takes.       *)
LEMMA PanelTerms ==
    /\ Panel!Run = Run
    /\ Panel!Replay = Replay
    /\ \A op, stage, run, arg : Panel!Send(op, stage, run, arg) <=> Send(op, stage, run, arg)
    /\ \A p, stage, run : Panel!Goes(p, stage, run) <=> Goes(p, stage, run)
    /\ \A p : Panel!Returns(p) <=> Returns(p)
    /\ \A replay : Panel!SaveTest(replay) <=> SaveTest(replay)
    /\ Panel!StoreReplay <=> StoreReplay
    /\ \A run, done : Panel!NewReplay(run, done) = NewReplay(run, done)
    /\ \A replay : Panel!Saved(replay) <=> Saved(replay)
    /\ \A op : Panel!Waiting(op) = Waiting(op)
    /\ \A u, op : Panel!SetBusy(u, op) = SetBusy(u, op)
    /\ Panel!RecordRun <=> RecordRun
    /\ Panel!PendingRuns = PendingRuns
    /\ \A p : Panel!RunsAnswer(p) = RunsAnswer(p)
    /\ \A p : Panel!TestsAnswer(p) = TestsAnswer(p)
<1>1. Panel!Run = Run
    BY DEF Panel!Run, Run
<1>2. Panel!Replay = Replay
    BY DEF Panel!Replay, Replay, Panel!Run, Run
<1>3. \A op, stage, run, arg : Panel!Send(op, stage, run, arg) <=> Send(op, stage, run, arg)
    BY DEF Panel!Send, Send, Panel!With, With, Panel!NewRequest, NewRequest, Panel!Seen, Seen, Panel!Cardinality, Cardinality, Panel!IsFiniteSet, IsFiniteSet
<1>4. \A p, stage, run : Panel!Goes(p, stage, run) <=> Goes(p, stage, run)
    BY DEF Panel!Goes, Goes, Panel!With, With, Panel!Seen, Seen
<1>5. \A p : Panel!Returns(p) <=> Returns(p)
    BY DEF Panel!Returns, Returns
<1>6. \A replay : Panel!SaveTest(replay) <=> SaveTest(replay)
    BY DEF Panel!SaveTest, SaveTest
<1>7. Panel!StoreReplay <=> StoreReplay
    BY DEF Panel!StoreReplay, StoreReplay
<1>8. \A run, done : Panel!NewReplay(run, done) = NewReplay(run, done)
    BY DEF Panel!NewReplay, NewReplay
<1>9. \A replay : Panel!Saved(replay) <=> Saved(replay)
    BY DEF Panel!Saved, Saved
<1>10. \A op : Panel!Waiting(op) = Waiting(op)
    BY DEF Panel!Waiting, Waiting
<1>11. \A u, op : Panel!SetBusy(u, op) = SetBusy(u, op)
    BY DEF Panel!SetBusy, SetBusy
<1>12. Panel!RecordRun <=> RecordRun
    BY DEF Panel!RecordRun, RecordRun
<1>13. Panel!PendingRuns = PendingRuns
    BY DEF Panel!PendingRuns, PendingRuns
<1>14. \A p : Panel!RunsAnswer(p) = RunsAnswer(p)
    BY DEF Panel!RunsAnswer, RunsAnswer
<1>15. \A p : Panel!TestsAnswer(p) = TestsAnswer(p)
    BY DEF Panel!TestsAnswer, TestsAnswer
<1> QED BY <1>1, <1>2, <1>3, <1>4, <1>5, <1>6, <1>7, <1>8, <1>9, <1>10, <1>11, <1>12, <1>13, <1>14, <1>15

LEMMA PanelMounts == Init => PanelInv
<1> SUFFICES ASSUME Init, view = "panel" PROVE PanelOK
    BY DEF PanelInv
<1>1. (Holding(0) \/ Holding(1)) /\ Panel!Mount
    BY DEF Init
<1>2. 0 \in 0..MaxRuns /\ 1 \in 0..MaxRuns
    BY BoundsAssumption
<1>3. ServerOK
    BY <1>1, <1>2, HoldingIs
<1>4. ui = Panel!Blank /\ pending = {} /\ past = [runs |-> {}, saves |-> {}]
    BY <1>1 DEF Panel!Mount
<1>5. PendingOK
    BY <1>4, MountIs
<1>6. ui \in Panel!PanelState
    BY <1>4, BoundsAssumption DEF Panel!Blank, Panel!PanelState
<1>7. /\ ~ui.issue /\ ui.loading /\ ui.busy = Nil
      /\ {ui.detail, ui.warned, ui.strict, ui.explor, ui.promoted, ui.drift} = {Nil}
    BY <1>4 DEF Panel!Blank
<1>8. PanelTypes /\ FirstLoad /\ ShowsInv /\ BusyInv /\ SpinnerInv /\ SavesInv
    BY <1>4, <1>6, <1>7 DEF PanelTypes, FirstLoad, ShowsInv, BusyInv, SpinnerInv, SavesInv
<1> QED BY <1>3, <1>5, <1>8 DEF PanelOK, PanelRest

LEMMA FitsStill ==
    ASSUME TestsStay, NEW p, RequestFits(p)
    PROVE  RequestFits(p)'
BY DEF RequestFits, TestsStay

LEMMA RunIsNoNil == \A r \in Run : r # Nil
BY NilAssumption, BoundsAssumption DEF Run

(* A click on a run that is shown.                                          *)
LEMMA PanelClickIs ==
    ASSUME PanelRest, ~ui.loading,
           NEW op \in {"strict", "exploratory", "promote", "drift", "regression", "trace"}, NEW run, NEW arg,
           Send(op, "post", run, arg), UNCHANGED server,
           (run = ui.run /\ ui.run \in Run) \/ (run = Nil /\ op \in {"regression", "trace"}),
           ui' \in Panel!PanelState, ui'.issue = ui.issue, ui'.loading = ui.loading, ui'.busy = op,
           ui'.run = ui.run, ui'.detail = ui.detail, ui'.warned = ui.warned,
           ui'.strict \in {Nil, ui.strict}, ui'.drift = ui.drift, ui'.explor \in {Nil, ui.explor},
           past' = [runs |-> past'.runs, saves |-> past'.saves], past'.runs = past.runs
    PROVE  /\ PanelRest' /\ TestsStay
           /\ \E r : pending' = pending \cup {r} /\ IsOf(r, op, "post", run, arg)
<1>1. PendingOK /\ ServerOK /\ PanelTypes /\ FirstLoad /\ ShowsInv
    BY DEF PanelRest
<1>2. PICK r : pending' = pending \cup {r} /\ IsOf(r, op, "post", run, arg)
    BY <1>1, SentIs
<1>3. PendingOK' /\ ServerOK' /\ TestsStay
    BY <1>1, SentIs, SameServer
<1>4. RequestFits(r)'
    BY <1>2 DEF RequestFits, IsOf
<1>5. PanelTypes'
    BY <1>1, <1>2, <1>3, <1>4, FitsStill DEF PanelTypes
<1>6. FirstLoad'
    BY <1>1, <1>2 DEF FirstLoad, IsOf
<1>7. ShowsInv'
    BY <1>1, <1>2 DEF ShowsInv, IsOf
<1>8. BusyInv' /\ SpinnerInv'
    BY <1>2 DEF BusyInv, SpinnerInv, IsOf
<1> QED BY <1>2, <1>3, <1>5, <1>6, <1>7, <1>8 DEF PanelRest

LEMMA PanelIsOpen ==
    ASSUME PanelTypes
    PROVE  Panel!Screen = "run" => ~ui.loading /\ ui.run \in Run
BY PanelTerms DEF PanelTypes, Panel!Screen, Panel!PanelState

LEMMA PanelClicks ==
    ASSUME PanelOK, Panel!runSafeReplay \/ Panel!runExploratory \/ Panel!promote \/ Panel!checkDrift
                    \/ Panel!runSavedTests \/ Panel!traceIssue
    PROVE  PanelOK'
<1>1. /\ PanelRest /\ SavesInv /\ PanelTypes /\ ui \in Panel!PanelState
      /\ past = [runs |-> past.runs, saves |-> past.saves]
    BY DEF PanelOK, PanelRest, PanelTypes
<1>2. CASE Panel!runSafeReplay
    <2>1. /\ Send("strict", "post", ui.run, Nil) /\ UNCHANGED <<server, past>>
          /\ ui' = [ui EXCEPT !.busy = "strict", !.explor = Nil] /\ Panel!Screen = "run"
        BY <1>2, PanelTerms DEF Panel!runSafeReplay
    <2>2. /\ ui' \in Panel!PanelState /\ ui'.issue = ui.issue /\ ui'.loading = ui.loading /\ ui'.busy = "strict"
          /\ ui'.run = ui.run /\ ui'.detail = ui.detail /\ ui'.warned = ui.warned
          /\ ui'.strict = ui.strict /\ ui'.drift = ui.drift /\ ui'.explor = Nil /\ ui'.promoted = ui.promoted
        BY <1>1, <2>1 DEF Panel!PanelState
    <2>3. PICK op, run, arg : op = "strict" /\ run = ui.run /\ arg = Nil
        OBVIOUS
    <2>4. ~ui.loading /\ ui.run \in Run
        BY <1>1, <2>1, PanelIsOpen
    <2>5. /\ PanelRest' /\ TestsStay
          /\ \E r : pending' = pending \cup {r} /\ IsOf(r, op, "post", run, arg)
        BY <1>1, <2>1, <2>2, <2>3, <2>4, PanelClickIs
    <2>6. PICK r : pending' = pending \cup {r} /\ r.op = "strict"
        BY <2>3, <2>5 DEF IsOf
    <2>7. SavesInv'
        BY <1>1, <2>1, <2>2, <2>5, <2>6, SavesKept
    <2> QED BY <2>5, <2>7 DEF PanelOK
<1>3. CASE Panel!runExploratory
    <2>1. /\ Send("exploratory", "post", ui.run, Nil) /\ UNCHANGED server /\ Panel!Screen = "run"
          /\ ui' = [Panel!Cleared(ui) EXCEPT !.busy = "exploratory"]
          /\ past' = [past EXCEPT !.saves = {p.arg : p \in Waiting("promote")}]
        BY <1>3, PanelTerms DEF Panel!runExploratory
    <2>2. PICK u : u = [ui EXCEPT !.strict = Nil, !.explor = Nil, !.promoted = Nil]
        OBVIOUS
    <2>3. /\ u \in Panel!PanelState /\ u.issue = ui.issue /\ u.loading = ui.loading
          /\ u.run = ui.run /\ u.detail = ui.detail /\ u.warned = ui.warned
          /\ u.strict = Nil /\ u.drift = ui.drift /\ u.explor = Nil /\ u.promoted = Nil
        BY <1>1, <2>2 DEF Panel!PanelState
    <2>4. ui' = [u EXCEPT !.busy = "exploratory"]
        BY <2>1, <2>2 DEF Panel!Cleared
    <2>5. /\ ui' \in Panel!PanelState /\ ui'.issue = ui.issue /\ ui'.loading = ui.loading /\ ui'.busy = "exploratory"
          /\ ui'.run = ui.run /\ ui'.detail = ui.detail /\ ui'.warned = ui.warned
          /\ ui'.strict = Nil /\ ui'.drift = ui.drift /\ ui'.explor = Nil /\ ui'.promoted = Nil
        BY <2>3, <2>4 DEF Panel!PanelState
    <2>6. PICK saves : saves = {p.arg : p \in Waiting("promote")}
        OBVIOUS
    <2>7. past' = [runs |-> past'.runs, saves |-> past'.saves] /\ past'.runs = past.runs /\ past'.saves = saves
        BY <1>1, <2>1, <2>6
    <2>8. PICK op, run, arg : op = "exploratory" /\ run = ui.run /\ arg = Nil
        OBVIOUS
    <2>9. ~ui.loading /\ ui.run \in Run
        BY <1>1, <2>1, PanelIsOpen
    <2>10. /\ PanelRest' /\ TestsStay
           /\ \E r : pending' = pending \cup {r} /\ IsOf(r, op, "post", run, arg)
        BY <1>1, <2>1, <2>5, <2>7, <2>8, <2>9, PanelClickIs
    <2>11. PICK r : pending' = pending \cup {r} /\ r.op = "exploratory"
        BY <2>8, <2>10 DEF IsOf
    <2>12. SavesInv'
        BY <1>1, <2>5, <2>6, <2>7, <2>11, SimulationAsked
    <2> QED BY <2>10, <2>12 DEF PanelOK
<1>4. CASE Panel!promote
    <2>1. /\ Send("promote", "post", ui.run, ui.explor) /\ UNCHANGED server /\ Panel!Screen = "run"
          /\ ui' = SetBusy(ui, "promote") /\ ui.promoted = Nil /\ ui.explor # Nil
          /\ past' = [past EXCEPT !.saves = @ \cup {ui.explor : p \in Waiting("exploratory")}]
        BY <1>4, PanelTerms DEF Panel!promote, Panel!Completed
    <2>2. /\ ui' \in Panel!PanelState /\ ui'.issue = ui.issue /\ ui'.loading = ui.loading /\ ui'.busy = "promote"
          /\ ui'.run = ui.run /\ ui'.detail = ui.detail /\ ui'.warned = ui.warned
          /\ ui'.strict = ui.strict /\ ui'.drift = ui.drift /\ ui'.explor = ui.explor /\ ui'.promoted = Nil
        BY <1>1, <2>1 DEF SetBusy, Panel!PanelState
    <2>3. PICK saves : saves = past.saves \cup {ui.explor : p \in Waiting("exploratory")}
        OBVIOUS
    <2>4. past' = [runs |-> past'.runs, saves |-> past'.saves] /\ past'.runs = past.runs /\ past'.saves = saves
        BY <1>1, <2>1, <2>3
    <2>5. PICK op, run, arg : op = "promote" /\ run = ui.run /\ arg = ui.explor
        OBVIOUS
    <2>6. ~ui.loading /\ ui.run \in Run
        BY <1>1, <2>1, PanelIsOpen
    <2>7. /\ PanelRest' /\ TestsStay
          /\ \E r : pending' = pending \cup {r} /\ IsOf(r, op, "post", run, arg)
        BY <1>1, <2>1, <2>2, <2>4, <2>5, <2>6, PanelClickIs
    <2>8. PICK r : pending' = pending \cup {r} /\ r.op = "promote" /\ r.arg = ui.explor
        BY <2>5, <2>7 DEF IsOf
    <2>9. ui.explor \in Replay
        BY <1>1, <2>1, PanelTerms DEF Panel!PanelState
    <2>10. SavesInv'
        BY <1>1, <2>2, <2>3, <2>4, <2>8, <2>9, SaveAsked
    <2> QED BY <2>7, <2>10 DEF PanelOK
<1>5. CASE Panel!checkDrift \/ Panel!runSavedTests \/ Panel!traceIssue
    <2>1. PICK op, run : /\ \/ op = "drift" /\ run = ui.run /\ Panel!Screen = "run"
                            \/ op \in {"regression", "trace"} /\ run = Nil /\ Panel!Screen # "loading"
                         /\ Send(op, "post", run, Nil) /\ UNCHANGED <<server, past>> /\ ui' = SetBusy(ui, op)
        <3>1. CASE Panel!checkDrift
            BY <3>1, PanelTerms DEF Panel!checkDrift
        <3>2. CASE Panel!runSavedTests
            BY <3>2, PanelTerms DEF Panel!runSavedTests
        <3>3. CASE Panel!traceIssue
            BY <3>3, PanelTerms DEF Panel!traceIssue
        <3> QED BY <1>5, <3>1, <3>2, <3>3
    <2>2. op \in {"drift", "regression", "trace"}
        BY <2>1
    <2>3. /\ ui' \in Panel!PanelState /\ ui'.issue = ui.issue /\ ui'.loading = ui.loading /\ ui'.busy = op
          /\ ui'.run = ui.run /\ ui'.detail = ui.detail /\ ui'.warned = ui.warned
          /\ ui'.strict = ui.strict /\ ui'.drift = ui.drift /\ ui'.explor = ui.explor /\ ui'.promoted = ui.promoted
        BY <1>1, <2>1, <2>2 DEF SetBusy, Panel!PanelState
    <2>4. ~ui.loading /\ ((run = ui.run /\ ui.run \in Run) \/ (run = Nil /\ op \in {"regression", "trace"}))
        BY <1>1, <2>1, PanelIsOpen DEF Panel!Screen
    <2>5. PICK arg : arg = Nil
        OBVIOUS
    <2>6. /\ PanelRest' /\ TestsStay
          /\ \E r : pending' = pending \cup {r} /\ IsOf(r, op, "post", run, arg)
        BY <1>1, <2>1, <2>2, <2>3, <2>4, <2>5, PanelClickIs
    <2>7. PICK r : pending' = pending \cup {r} /\ r.op = op
        BY <2>6 DEF IsOf
    <2>8. SavesInv'
        BY <1>1, <2>1, <2>2, <2>3, <2>6, <2>7, SavesKept
    <2> QED BY <2>6, <2>8 DEF PanelOK
<1> QED BY <1>2, <1>3, <1>4, <1>5

(* Each finally leaves what is shown, and the buttons of other handlers.    *)
LEMMA FinallyIs ==
    ASSUME NEW u \in Panel!PanelState, NEW p
    PROVE  LET v == Panel!Finally(u, p)
           IN  /\ v \in Panel!PanelState
               /\ v.issue = u.issue /\ v.runs = u.runs /\ v.tests = u.tests /\ v.run = u.run
               /\ v.detail = u.detail /\ v.warned = u.warned /\ v.strict = u.strict /\ v.drift = u.drift
               /\ v.explor = u.explor /\ v.promoted = u.promoted
               /\ v.busy = IF p.op \in {"load", "switch"} THEN u.busy ELSE Nil
               /\ v.loading = IF p.op \in {"load", "trace"} THEN FALSE ELSE u.loading
<1>1. PICK busy, loading : /\ busy = IF p.op \in {"load", "switch"} THEN u.busy ELSE Nil
                           /\ loading = IF p.op \in {"load", "trace"} THEN FALSE ELSE u.loading
    OBVIOUS
<1>2. PICK v : v = [u EXCEPT !.busy = busy, !.loading = loading]
    OBVIOUS
<1>3. v = Panel!Finally(u, p)
    BY <1>1, <1>2 DEF Panel!Finally
<1>4. /\ busy \in {Nil, "strict", "exploratory", "promote", "drift", "regression", "trace"}
      /\ loading \in BOOLEAN
    BY <1>1 DEF Panel!PanelState
<1>5. /\ v \in Panel!PanelState
      /\ v.issue = u.issue /\ v.runs = u.runs /\ v.tests = u.tests /\ v.run = u.run
      /\ v.detail = u.detail /\ v.warned = u.warned /\ v.strict = u.strict /\ v.drift = u.drift
      /\ v.explor = u.explor /\ v.promoted = u.promoted
      /\ v.busy = busy /\ v.loading = loading
    BY <1>2, <1>4 DEF Panel!PanelState
<1> QED BY <1>1, <1>3, <1>5

(* A handler that returns may have shown what is of its run.                *)
LEMMA PanelReturnIs ==
    ASSUME PanelRest, NEW p \in pending, Returns(p), ServerOK', TestsStay, past' = past,
           NEW u \in Panel!PanelState, ui' = Panel!Finally(u, p),
           u.issue = ui.issue, u.loading = ui.loading, u.busy = ui.busy, u.run = ui.run,
           \/ u.detail = ui.detail /\ u.warned = ui.warned
           \/ u.detail \in {ui.detail, p.run} /\ u.warned = p.run /\ p.run \in Run,
           u.strict = ui.strict \/ (u.strict = p.run /\ p.run \in Run),
           u.drift = ui.drift \/ (u.drift = p.run /\ p.run \in Run),
           u.explor = ui.explor \/ (u.explor.run = p.run /\ p.run \in Run)
    PROVE  PanelRest' /\ pending' = pending \ {p} /\ ui'.explor = u.explor /\ ui'.promoted = u.promoted
<1>1. PendingOK /\ PanelTypes /\ FirstLoad /\ ShowsInv /\ BusyInv /\ SpinnerInv
    BY DEF PanelRest
<1>2. PendingOK' /\ pending' = pending \ {p}
    BY <1>1, ReturnsIs DEF Returns
<1>3. PICK v : v = Panel!Finally(u, p)
    OBVIOUS
<1>4. /\ v \in Panel!PanelState
      /\ v.issue = u.issue /\ v.run = u.run
      /\ v.detail = u.detail /\ v.warned = u.warned /\ v.strict = u.strict /\ v.drift = u.drift
      /\ v.explor = u.explor /\ v.promoted = u.promoted
      /\ v.busy = IF p.op \in {"load", "switch"} THEN u.busy ELSE Nil
      /\ v.loading = IF p.op \in {"load", "trace"} THEN FALSE ELSE u.loading
    BY <1>3, FinallyIs
<1>5. ui' = v
    BY <1>3
<1>6. PanelTypes'
    BY <1>1, <1>2, <1>4, <1>5, FitsStill DEF PanelTypes
<1>7. FirstLoad'
    BY <1>1, <1>2, <1>4, <1>5 DEF FirstLoad
<1>8. \A r \in Run : r # Nil
    BY RunIsNoNil
<1>9. p.run \in Run => p.run \in {ui.run} \cup past.runs
    BY <1>1, <1>8 DEF ShowsInv
<1>10. ShowsInv'
    BY <1>1, <1>2, <1>4, <1>5, <1>9 DEF ShowsInv
<1>11. ui.busy \notin {"load", "switch"}
    BY <1>1, NilAssumption DEF PanelTypes, Panel!PanelState
<1>12. BusyInv'
    BY <1>1, <1>2, <1>4, <1>5, <1>11 DEF BusyInv
<1>13. SpinnerInv'
    BY <1>1, <1>2, <1>4, <1>5 DEF SpinnerInv
<1> QED BY <1>2, <1>4, <1>5, <1>6, <1>7, <1>10, <1>12, <1>13 DEF PanelRest

(* A handler that goes on without turning the panel to another run.         *)
LEMMA PanelGoesIs ==
    ASSUME PanelRest, NEW p \in pending, p.op \in {"promote", "drift", "regression", "trace"},
           NEW stage \in {"list", "warnings"}, NEW run, Goes(p, stage, run),
           run = p.run \/ (run = Nil /\ p.op \in {"regression", "trace"}),
           ServerOK', TestsStay, past' = past,
           ui' \in Panel!PanelState, ui'.issue = ui.issue, ui'.busy = ui.busy, ui'.run = ui.run,
           ui'.loading = ui.loading \/ p.op = "trace",
           ui'.detail = ui.detail, ui'.warned = ui.warned, ui'.strict = ui.strict, ui'.drift = ui.drift,
           ui'.explor = ui.explor,
           p.op = "promote" => Saved(p.arg)', p.op = "trace" => server'.runs > 0
    PROVE  PanelRest' /\ \E r : pending' = (pending \ {p}) \cup {r} /\ r.op = p.op /\ r.arg = p.arg
<1>1. PendingOK /\ PanelTypes /\ FirstLoad /\ ShowsInv /\ BusyInv /\ SpinnerInv
    BY DEF PanelRest
<1>2. PendingOK'
    BY <1>1, WentIs
<1>3. PICK r : /\ pending' = (pending \ {p}) \cup {r} /\ IsOf(r, p.op, stage, run, p.arg)
               /\ r.seen = Seen(stage, server')
    BY <1>1, WentIs
<1>4. stage = "list" => r.seen \in SeenState /\ r.seen.runs = server'.runs
    BY <1>3, SeenIs DEF ServerOK
<1>5. RequestFits(p)
    BY <1>1 DEF PanelTypes
<1>6. p.op = "promote" => Saved(r.arg)'
    BY <1>3 DEF IsOf
<1>7. RequestFits(r)'
    BY <1>3, <1>4, <1>5, <1>6 DEF RequestFits, IsOf
<1>8. PanelTypes'
    BY <1>1, <1>3, <1>7, FitsStill DEF PanelTypes
<1>9. FirstLoad'
    BY <1>1, <1>3 DEF FirstLoad, IsOf
<1>10. ShowsInv'
    BY <1>1, <1>3 DEF ShowsInv, IsOf
<1>11. BusyInv' /\ SpinnerInv'
    BY <1>1, <1>3 DEF BusyInv, SpinnerInv, IsOf
<1> QED BY <1>2, <1>3, <1>8, <1>9, <1>10, <1>11 DEF PanelRest, IsOf

(* The panel turns to a run and waits for its detail; what may still come   *)
(* of another run is remembered.                                            *)
LEMMA PanelTurnIs ==
    ASSUME PanelRest, NEW n \in Run, NEW r, NEW kept, kept \subseteq pending, pending' = kept \cup {r},
           PendingOK', ServerOK', TestsStay,
           r.op \in {"load", "switch", "trace"}, r.stage = "detail", r.run = n,
           past' = [runs |-> past'.runs, saves |-> past'.saves], past'.runs = PendingRuns,
           ui' \in Panel!PanelState, ui'.issue = ui.issue, ui'.run = n, ui'.busy = ui.busy, ui'.loading = ui.loading,
           ui'.detail = Nil, ui'.strict = Nil, ui'.drift = Nil, ui'.explor = Nil,
           \A p \in pending : p \in kept \/ p.op = r.op,
           \/ r.op = "load" /\ kept = {} /\ ui.issue /\ ui.loading /\ ui.busy = Nil /\ ui'.warned = Nil /\ ui'.promoted = Nil
           \/ r.op # "load" /\ ui.issue /\ \A p \in pending : p.op # "load"
    PROVE  PanelRest'
<1>1. PanelTypes /\ BusyInv /\ SpinnerInv
    BY DEF PanelRest
<1>2. RequestFits(r)'
    BY DEF RequestFits
<1>3. PanelTypes'
    BY <1>1, <1>2, FitsStill DEF PanelTypes
<1>4. FirstLoad'
    BY <1>1 DEF FirstLoad
<1>5. ShowsInv'
    BY DEF ShowsInv, PendingRuns
<1>6. BusyInv' /\ SpinnerInv'
    BY <1>1 DEF BusyInv, SpinnerInv
<1> QED BY <1>3, <1>4, <1>5, <1>6 DEF PanelRest

LEMMA TurnedIs ==
    ASSUME PanelTypes, Panel!Turned
    PROVE  /\ past' = [runs |-> past'.runs, saves |-> past'.saves]
           /\ past'.runs = PendingRuns /\ past'.saves = past.saves
<1>1. PICK runs : runs = PendingRuns
    OBVIOUS
<1>2. past' = [past EXCEPT !.runs = runs]
    BY <1>1, PanelTerms DEF Panel!Turned
<1>3. past = [runs |-> past.runs, saves |-> past.saves]
    BY DEF PanelTypes
<1> QED BY <1>1, <1>2, <1>3

LEMMA ShowRunIs ==
    ASSUME NEW u \in Panel!PanelState, NEW n \in Run
    PROVE  LET v == Panel!ShowRun(u, n)
           IN  /\ v \in Panel!PanelState /\ v.issue = u.issue /\ v.loading = u.loading /\ v.busy = u.busy
               /\ v.run = n /\ v.promoted = u.promoted
               /\ v.detail = Nil /\ v.strict = Nil /\ v.drift = Nil /\ v.explor = Nil
BY PanelTerms DEF Panel!ShowRun, Panel!PanelState

LEMMA PanelSelects ==
    ASSUME PanelOK, Panel!SelectRun
    PROVE  PanelOK'
<1>1. PanelRest /\ SavesInv /\ PanelTypes /\ ui \in Panel!PanelState /\ PendingOK /\ ServerOK
    BY DEF PanelOK, PanelRest, PanelTypes
<1>2. /\ Panel!Screen = "run" /\ Panel!Turned /\ UNCHANGED server
      /\ \E r \in 1..ui.runs \ {ui.run} : Send("switch", "detail", r, Nil) /\ ui' = Panel!ShowRun(ui, r)
    BY PanelTerms DEF Panel!SelectRun
<1>3. 1..ui.runs \subseteq Run
    BY <1>1, PanelTerms, BoundsAssumption DEF Panel!PanelState, Run
<1>4. PICK n \in Run : Send("switch", "detail", n, Nil) /\ ui' = Panel!ShowRun(ui, n)
    BY <1>2, <1>3
<1>5. /\ ui' \in Panel!PanelState /\ ui'.issue = ui.issue /\ ui'.loading = ui.loading /\ ui'.busy = ui.busy
      /\ ui'.run = n /\ ui'.promoted = ui.promoted
      /\ ui'.detail = Nil /\ ui'.strict = Nil /\ ui'.drift = Nil /\ ui'.explor = Nil
    BY <1>1, <1>4, ShowRunIs
<1>6. PICK r : pending' = pending \cup {r} /\ r.op = "switch" /\ r.stage = "detail" /\ r.run = n
    BY <1>1, <1>4, SentIs DEF IsOf
<1>7. PendingOK' /\ ServerOK' /\ TestsStay
    BY <1>1, <1>2, <1>4, SentIs, SameServer
<1>8. ~ui.loading
    BY <1>1, <1>2, PanelIsOpen
<1>9. ui.issue /\ \A p \in pending : p.op # "load"
    BY <1>1, <1>8 DEF PanelRest, FirstLoad
<1>10. /\ past' = [runs |-> past'.runs, saves |-> past'.saves]
       /\ past'.runs = PendingRuns /\ past'.saves = past.saves
    BY <1>1, <1>2, TurnedIs
<1>11. PICK kept : kept = pending
    OBVIOUS
<1>12. PanelRest'
    BY <1>1, <1>5, <1>6, <1>7, <1>9, <1>10, <1>11, PanelTurnIs
<1>13. SavesInv'
    BY <1>1, <1>5, <1>6, <1>7, <1>10, SavesKept
<1> QED BY <1>12, <1>13 DEF PanelOK

LEMMA PanelStarts ==
    ASSUME PanelOK, Panel!GetContext
    PROVE  PanelOK'
<1>1. PanelRest /\ SavesInv /\ PanelTypes /\ ui \in Panel!PanelState /\ PendingOK /\ ServerOK
    BY DEF PanelOK, PanelRest, PanelTypes
<1>2. /\ ~ui.issue /\ Send("load", "lists", Nil, Nil) /\ UNCHANGED <<server, past>>
      /\ ui' = [ui EXCEPT !.issue = TRUE, !.loading = TRUE]
    BY PanelTerms DEF Panel!GetContext
<1>3. /\ ui' \in Panel!PanelState /\ ui'.issue /\ ui'.loading /\ ui'.busy = ui.busy
      /\ ui'.run = ui.run /\ ui'.promoted = ui.promoted /\ ui'.warned = ui.warned
      /\ ui'.detail = ui.detail /\ ui'.strict = ui.strict /\ ui'.drift = ui.drift /\ ui'.explor = ui.explor
    BY <1>1, <1>2 DEF Panel!PanelState
<1>4. PICK r : /\ pending' = pending \cup {r} /\ IsOf(r, "load", "lists", Nil, Nil)
               /\ r.seen = Seen("lists", server)
    BY <1>1, <1>2, SentIs
<1>5. PendingOK' /\ ServerOK' /\ TestsStay
    BY <1>1, <1>2, SentIs, SameServer
<1>6. /\ pending = {} /\ pending' = {r}
      /\ ui.busy = Nil /\ {ui.detail, ui.warned, ui.strict, ui.explor, ui.promoted, ui.drift} = {Nil}
    BY <1>1, <1>2, <1>4 DEF PanelRest, FirstLoad
<1>7. r.seen \in SeenState
    BY <1>1, <1>4, SeenIs DEF ServerOK
<1>8. RequestFits(r)'
    BY <1>4, <1>7 DEF RequestFits, IsOf
<1>9. PanelTypes'
    BY <1>1, <1>2, <1>3, <1>6, <1>8 DEF PanelTypes
<1>10. FirstLoad' /\ BusyInv' /\ SpinnerInv'
    BY <1>3, <1>4, <1>6 DEF FirstLoad, BusyInv, SpinnerInv, IsOf
<1>11. ShowsInv'
    BY <1>3, <1>4, <1>6 DEF ShowsInv, IsOf
<1>12. SavesInv'
    BY <1>3, <1>4, <1>6 DEF SavesInv, IsOf
<1> QED BY <1>5, <1>9, <1>10, <1>11, <1>12 DEF PanelOK, PanelRest

LEMMA TestsAnswerIs ==
    ASSUME ServerOK, NEW p, p.seen \in SeenState, NEW k \in TestsAnswer(p)
    PROVE  k \in 0..MaxTests
<1>1. Len(server.tests) \in 0..MaxTests /\ p.seen.tests \in 0..MaxTests /\ MaxTests \in Nat
    BY ServerIs, BoundsAssumption DEF ServerOK, SeenState
<1> QED BY <1>1 DEF TestsAnswer

LEMMA RunsAnswerIs ==
    ASSUME ServerOK, NEW p, p.seen \in SeenState, NEW n \in RunsAnswer(p)
    PROVE  n \in 0..MaxRuns /\ n >= p.seen.runs /\ (n > 0 => n \in Run)
<1>1. server.runs \in 0..MaxRuns /\ p.seen.runs \in 0..MaxRuns /\ MaxRuns \in Nat
    BY ServerIs, BoundsAssumption DEF ServerOK, SeenState
<1> QED BY <1>1 DEF RunsAnswer, Run

(* A handler that returns: the answer of a save is told by SaveAnswered and *)
(* that of a simulation by SimulationComes.                                 *)
LEMMA PanelReturns ==
    ASSUME PanelOK, NEW p \in pending, Returns(p), UNCHANGED <<server, past>>,
           NEW u \in Panel!PanelState, ui' = Panel!Finally(u, p),
           u.issue = ui.issue, u.loading = ui.loading, u.busy = ui.busy, u.run = ui.run,
           \/ u.detail = ui.detail /\ u.warned = ui.warned
           \/ u.detail \in {ui.detail, p.run} /\ u.warned = p.run /\ p.run \in Run,
           u.strict = ui.strict \/ (u.strict = p.run /\ p.run \in Run),
           u.drift = ui.drift \/ (u.drift = p.run /\ p.run \in Run),
           u.explor = ui.explor, u.promoted = ui.promoted
    PROVE  PanelOK'
<1>1. PanelRest /\ SavesInv /\ ServerOK
    BY DEF PanelOK, PanelRest
<1>2. ServerOK' /\ TestsStay
    BY <1>1, SameServer
<1>3. PanelRest' /\ pending' = pending \ {p} /\ ui'.explor = ui.explor /\ ui'.promoted = ui.promoted
    BY <1>1, <1>2, PanelReturnIs
<1>4. SavesInv'
    BY <1>1, <1>2, <1>3, SavesKept
<1> QED BY <1>3, <1>4 DEF PanelOK

LEMMA LoadComes ==
    ASSUME PanelOK, NEW p \in pending, Panel!loadData(p)
    PROVE  PanelOK'
<1>1. PanelRest /\ SavesInv /\ PanelTypes /\ ui \in Panel!PanelState /\ PendingOK /\ ServerOK /\ FirstLoad
    BY DEF PanelOK, PanelRest, PanelTypes
<1>2. PICK n \in RunsAnswer(p), k \in TestsAnswer(p) :
          LET listed == [ui EXCEPT !.runs = n, !.tests = k] IN
          \/ n = 0 /\ ui' = Panel!Finally(listed, p) /\ Returns(p) /\ UNCHANGED <<server, past>>
          \/ /\ n > 0
             /\ ui' = [listed EXCEPT !.run = n]
             /\ UNCHANGED server
             /\ Goes(p, "detail", n)
             /\ Panel!Turned
    BY PanelTerms DEF Panel!loadData
<1>3. p.op = "load" /\ p.stage = "lists"
    BY DEF Panel!loadData
<1>4. p.seen \in SeenState
    BY <1>1, <1>3 DEF PanelTypes, RequestFits
<1>5. k \in 0..MaxTests /\ n \in 0..MaxRuns /\ (n > 0 => n \in Run)
    BY <1>1, <1>4, TestsAnswerIs, RunsAnswerIs
<1>6. PICK u : u = [ui EXCEPT !.runs = n, !.tests = k]
    OBVIOUS
<1>7. n \in {0} \cup Panel!Run
    BY <1>5, PanelTerms, BoundsAssumption
<1>8. /\ u \in Panel!PanelState /\ u.issue = ui.issue /\ u.loading = ui.loading /\ u.busy = ui.busy
      /\ u.run = ui.run /\ u.detail = ui.detail /\ u.warned = ui.warned
      /\ u.strict = ui.strict /\ u.drift = ui.drift /\ u.explor = ui.explor /\ u.promoted = ui.promoted
    BY <1>1, <1>5, <1>6, <1>7 DEF Panel!PanelState
<1>9. CASE n = 0
    <2>1. ui' = Panel!Finally(u, p) /\ Returns(p) /\ UNCHANGED <<server, past>>
        BY <1>2, <1>5, <1>6, <1>9
    <2> QED BY <1>8, <2>1, PanelReturns
<1>10. CASE n > 0
    <2>1. ui' = [u EXCEPT !.run = n] /\ UNCHANGED server /\ Goes(p, "detail", n) /\ Panel!Turned
        BY <1>2, <1>5, <1>6, <1>10
    <2>2. /\ ui.issue /\ ui.loading /\ ui.busy = Nil /\ pending = {p}
          /\ {ui.detail, ui.warned, ui.strict, ui.explor, ui.promoted, ui.drift} = {Nil}
        BY <1>1, <1>3 DEF FirstLoad
    <2>3. n \in Run /\ n \in Panel!Run
        BY <1>5, <1>10, PanelTerms
    <2>4a. /\ ui.detail = Nil /\ ui.warned = Nil /\ ui.strict = Nil
           /\ ui.explor = Nil /\ ui.promoted = Nil /\ ui.drift = Nil
        BY <2>2
    <2>4b. PICK w : w = [u EXCEPT !.run = n]
        OBVIOUS
    <2>4c. /\ w \in Panel!PanelState /\ w.issue = u.issue /\ w.loading = u.loading /\ w.busy = u.busy
           /\ w.run = n /\ w.detail = u.detail /\ w.warned = u.warned
           /\ w.strict = u.strict /\ w.drift = u.drift /\ w.explor = u.explor /\ w.promoted = u.promoted
        BY <1>8, <2>3, <2>4b DEF Panel!PanelState
    <2>4d. ui' = w
        BY <2>1, <2>4b
    <2>4. /\ ui' \in Panel!PanelState /\ ui'.issue = ui.issue /\ ui'.loading = ui.loading /\ ui'.busy = ui.busy
          /\ ui'.run = n /\ ui'.detail = Nil /\ ui'.warned = Nil
          /\ ui'.strict = Nil /\ ui'.drift = Nil /\ ui'.explor = Nil /\ ui'.promoted = Nil
        BY <1>8, <2>4a, <2>4c, <2>4d
    <2>5. PICK r : pending' = (pending \ {p}) \cup {r} /\ r.op = "load" /\ r.stage = "detail" /\ r.run = n
        BY <1>1, <1>3, <2>1, WentIs DEF IsOf
    <2>6. PendingOK' /\ ServerOK' /\ TestsStay
        BY <1>1, <2>1, WentIs, SameServer
    <2>7. /\ past' = [runs |-> past'.runs, saves |-> past'.saves]
          /\ past'.runs = PendingRuns /\ past'.saves = past.saves
        BY <1>1, <2>1, TurnedIs
    <2>8. PICK kept : kept = {}
        OBVIOUS
    <2>9. kept \subseteq pending /\ pending' = kept \cup {r} /\ \A q \in pending : q.op = r.op
        BY <1>3, <2>2, <2>5, <2>8
    <2>10. PanelRest'
        BY <1>1, <2>2, <2>3, <2>4, <2>5, <2>6, <2>7, <2>8, <2>9, PanelTurnIs
    <2>11. SavesInv'
        BY <2>4, <2>5, <2>8, <2>9 DEF SavesInv
    <2> QED BY <2>10, <2>11 DEF PanelOK
<1> QED BY <1>5, <1>9, <1>10

LEMMA ReturnsWithDetail ==
    ASSUME PanelOK, NEW p \in pending, Panel!DetailAnswer(p) \/ Panel!StrictAnswer(p) \/ Panel!Fail(p)
    PROVE  PanelOK'
<1>1. ui \in Panel!PanelState /\ RequestFits(p)
    BY DEF PanelOK, PanelRest, PanelTypes
<1>2. CASE Panel!DetailAnswer(p)
    <2>1. p.stage = "detail" /\ ui' = Panel!Finally(Panel!SetDetail(ui, p), p) /\ Returns(p) /\ UNCHANGED <<server, past>>
        BY <1>2, PanelTerms DEF Panel!DetailAnswer
    <2>2. p.run \in Run /\ p.run \in Panel!Run
        BY <1>1, <2>1, PanelTerms DEF RequestFits
    <2>3. PICK u : u = [ui EXCEPT !.detail = p.run, !.warned = p.run]
        OBVIOUS
    <2>4. /\ u \in Panel!PanelState /\ u.issue = ui.issue /\ u.loading = ui.loading /\ u.busy = ui.busy
          /\ u.run = ui.run /\ u.detail = p.run /\ u.warned = p.run
          /\ u.strict = ui.strict /\ u.drift = ui.drift /\ u.explor = ui.explor /\ u.promoted = ui.promoted
        BY <1>1, <2>2, <2>3 DEF Panel!PanelState
    <2>5. ui' = Panel!Finally(u, p)
        BY <2>1, <2>3 DEF Panel!SetDetail
    <2> QED BY <2>1, <2>2, <2>4, <2>5, PanelReturns
<1>3. CASE Panel!StrictAnswer(p)
    <2>1. PICK u : u = [ui EXCEPT !.strict = p.run]
        OBVIOUS
    <2>2. p.op = "strict" /\ ui' = Panel!Finally(u, p) /\ Returns(p) /\ UNCHANGED <<server, past>>
        BY <1>3, <2>1, PanelTerms DEF Panel!StrictAnswer
    <2>3. p.run \in Run /\ p.run \in Panel!Run
        BY <1>1, <2>2, PanelTerms DEF RequestFits
    <2>4. /\ u \in Panel!PanelState /\ u.issue = ui.issue /\ u.loading = ui.loading /\ u.busy = ui.busy
          /\ u.run = ui.run /\ u.detail = ui.detail /\ u.warned = ui.warned
          /\ u.strict = p.run /\ u.drift = ui.drift /\ u.explor = ui.explor /\ u.promoted = ui.promoted
        BY <1>1, <2>1, <2>3 DEF Panel!PanelState
    <2> QED BY <2>2, <2>3, <2>4, PanelReturns
<1>4. CASE Panel!Fail(p)
    <2>1. ui' = Panel!Finally(ui, p) /\ Returns(p) /\ UNCHANGED <<server, past>>
        BY <1>4, PanelTerms DEF Panel!Fail
    <2>2. PICK u : u = ui
        OBVIOUS
    <2>3. ui' = Panel!Finally(u, p) /\ u \in Panel!PanelState
        BY <1>1, <2>1, <2>2
    <2> QED BY <2>1, <2>2, <2>3, PanelReturns
<1> QED BY <1>2, <1>3, <1>4

LEMMA SimulationAnswers ==
    ASSUME PanelOK, NEW p \in pending, Panel!ExploratoryAnswer(p)
    PROVE  PanelOK'
<1>1. PanelRest /\ SavesInv /\ ui \in Panel!PanelState /\ RequestFits(p) /\ ServerOK
    BY DEF PanelOK, PanelRest, PanelTypes
<1>2. PICK done \in BOOLEAN : /\ ui' = Panel!Finally([ui EXCEPT !.explor = NewReplay(p.run, done)], p)
                              /\ p.op = "exploratory" /\ StoreReplay /\ Returns(p) /\ past' = past
    BY PanelTerms DEF Panel!ExploratoryAnswer
<1>3. PICK replay : replay = NewReplay(p.run, done)
    OBVIOUS
<1>4. p.run \in Run
    BY <1>1, <1>2 DEF RequestFits
<1>5. ServerOK' /\ TestsStay /\ replay \in Replay /\ replay.run = p.run
    BY <1>1, <1>2, <1>3, <1>4, StoreReplayIs
<1>6. PICK u : u = [ui EXCEPT !.explor = replay]
    OBVIOUS
<1>7. /\ u \in Panel!PanelState /\ u.issue = ui.issue /\ u.loading = ui.loading /\ u.busy = ui.busy
      /\ u.run = ui.run /\ u.detail = ui.detail /\ u.warned = ui.warned
      /\ u.strict = ui.strict /\ u.drift = ui.drift /\ u.explor = replay /\ u.promoted = ui.promoted
    BY <1>1, <1>5, <1>6, PanelTerms DEF Panel!PanelState
<1>8. ui' = Panel!Finally(u, p)
    BY <1>2, <1>3, <1>6
<1>9. PanelRest' /\ pending' = pending \ {p} /\ ui'.promoted = ui.promoted
    BY <1>1, <1>2, <1>4, <1>5, <1>7, <1>8, PanelReturnIs
<1>10. SavesInv'
    BY <1>1, <1>2, <1>9, SimulationComes
<1> QED BY <1>9, <1>10 DEF PanelOK

LEMMA SaveAnswers ==
    ASSUME PanelOK, NEW p \in pending, Panel!PromoteAnswer(p)
    PROVE  PanelOK'
<1>1. PanelRest /\ SavesInv /\ ui \in Panel!PanelState /\ RequestFits(p) /\ ServerOK
    BY DEF PanelOK, PanelRest, PanelTypes
<1>2. /\ p.op = "promote" /\ past' = past
      /\ \/ p.stage = "post" /\ SaveTest(p.arg) /\ Goes(p, "list", p.run) /\ UNCHANGED ui
         \/ /\ p.stage = "list" /\ Returns(p) /\ UNCHANGED server
            /\ \E k \in TestsAnswer(p) : ui' = Panel!Finally([ui EXCEPT !.tests = k, !.promoted = p.arg], p)
    BY PanelTerms DEF Panel!PromoteAnswer
<1>3a. p.op = "promote" /\ SavesInv
    BY <1>1, <1>2
<1>3b. p.arg \in Replay
    BY <1>3a DEF SavesInv
<1>3c. MaxReplays \in Nat
    BY BoundsAssumption
<1>3d. p.arg.no \in 1..MaxReplays
    BY <1>3b DEF Replay
<1>3. p.arg \in Replay /\ p.arg.no \in Nat
    BY <1>3b, <1>3c, <1>3d
<1>4. CASE p.stage = "post"
    <2>1. SaveTest(p.arg) /\ Goes(p, "list", p.run) /\ UNCHANGED ui
        BY <1>2, <1>4
    <2>2. ServerOK' /\ TestsStay /\ Saved(p.arg)'
        BY <1>1, <1>3, <2>1, SaveTestIs
    <2>3. PICK stage, run : stage = "list" /\ run = p.run
        OBVIOUS
    <2>4. PanelRest' /\ \E r : pending' = (pending \ {p}) \cup {r} /\ r.op = p.op /\ r.arg = p.arg
        BY <1>1, <1>2, <2>1, <2>2, <2>3, PanelGoesIs
    <2>5. SavesInv'
        BY <1>1, <1>2, <2>1, <2>2, <2>4, SavesKept
    <2> QED BY <2>4, <2>5 DEF PanelOK
<1>5. CASE p.stage = "list"
    <2>1. PICK k \in TestsAnswer(p) : /\ ui' = Panel!Finally([ui EXCEPT !.tests = k, !.promoted = p.arg], p)
                                      /\ Returns(p) /\ UNCHANGED server
        BY <1>2, <1>5
    <2>2. p.seen \in SeenState /\ Saved(p.arg)
        BY <1>1, <1>2, <1>5 DEF RequestFits
    <2>3. k \in 0..MaxTests
        BY <1>1, <2>1, <2>2, TestsAnswerIs
    <2>4. PICK u : u = [ui EXCEPT !.tests = k, !.promoted = p.arg]
        OBVIOUS
    <2>4a. p.arg \in Panel!Replay
        BY <1>3, PanelTerms
    <2>5. /\ u \in Panel!PanelState /\ u.issue = ui.issue /\ u.loading = ui.loading /\ u.busy = ui.busy
          /\ u.run = ui.run /\ u.detail = ui.detail /\ u.warned = ui.warned
          /\ u.strict = ui.strict /\ u.drift = ui.drift /\ u.explor = ui.explor /\ u.promoted = p.arg
        BY <1>1, <2>3, <2>4, <2>4a DEF Panel!PanelState
    <2>6. ui' = Panel!Finally(u, p)
        BY <2>1, <2>4
    <2>7. ServerOK' /\ TestsStay
        BY <1>1, <2>1, SameServer
    <2>8. PanelRest' /\ pending' = pending \ {p} /\ ui'.explor = ui.explor /\ ui'.promoted = p.arg
        BY <1>1, <1>2, <2>1, <2>5, <2>6, <2>7, PanelReturnIs
    <2>9. Saved(p.arg)'
        BY <2>2, <2>7 DEF TestsStay
    <2>10. SavesInv'
        BY <1>1, <1>2, <2>8, <2>9, SaveAnswered
    <2> QED BY <2>8, <2>10 DEF PanelOK
<1> QED BY <1>2, <1>4, <1>5

LEMMA ListsAnswer ==
    ASSUME PanelOK, NEW p \in pending, Panel!DriftAnswer(p) \/ Panel!RegressionAnswer(p)
    PROVE  PanelOK'
<1>1. PanelRest /\ SavesInv /\ ui \in Panel!PanelState /\ RequestFits(p) /\ ServerOK
    BY DEF PanelOK, PanelRest, PanelTypes
<1>2. CASE p.stage = "post"
    <2>1. PICK op, stage, run : /\ p.op = op /\ UNCHANGED <<server, ui, past>> /\ Goes(p, stage, run)
                                /\ \/ op = "drift" /\ stage = "warnings" /\ run = p.run
                                   \/ op = "regression" /\ stage = "list" /\ run = Nil
        <3>1. CASE Panel!DriftAnswer(p)
            BY <1>2, <3>1, PanelTerms DEF Panel!DriftAnswer
        <3>2. CASE Panel!RegressionAnswer(p)
            BY <1>2, <3>2, PanelTerms DEF Panel!RegressionAnswer
        <3> QED BY <3>1, <3>2
    <2>2. ServerOK' /\ TestsStay
        BY <1>1, <2>1, SameServer
    <2>3. PanelRest' /\ \E r : pending' = (pending \ {p}) \cup {r} /\ r.op = p.op /\ r.arg = p.arg
        BY <1>1, <2>1, <2>2, PanelGoesIs
    <2>4. SavesInv'
        BY <1>1, <2>1, <2>2, <2>3, SavesKept
    <2> QED BY <2>3, <2>4 DEF PanelOK
<1>3. CASE p.stage = "warnings" /\ Panel!DriftAnswer(p)
    <2>1. PICK u : u = [ui EXCEPT !.drift = p.run, !.warned = p.run]
        OBVIOUS
    <2>2. p.op = "drift" /\ ui' = Panel!Finally(u, p) /\ Returns(p) /\ UNCHANGED <<server, past>>
        BY <1>3, <2>1, PanelTerms DEF Panel!DriftAnswer
    <2>3. p.run \in Run /\ p.run \in Panel!Run
        BY <1>1, <2>2, PanelTerms DEF RequestFits
    <2>4. /\ u \in Panel!PanelState /\ u.issue = ui.issue /\ u.loading = ui.loading /\ u.busy = ui.busy
          /\ u.run = ui.run /\ u.detail = ui.detail /\ u.warned = p.run
          /\ u.strict = ui.strict /\ u.drift = p.run /\ u.explor = ui.explor /\ u.promoted = ui.promoted
        BY <1>1, <2>1, <2>3 DEF Panel!PanelState
    <2> QED BY <2>2, <2>3, <2>4, PanelReturns
<1>4. CASE p.stage = "list" /\ Panel!RegressionAnswer(p)
    <2>1. PICK k \in TestsAnswer(p) : /\ ui' = Panel!Finally([ui EXCEPT !.tests = k], p)
                                      /\ Returns(p) /\ UNCHANGED <<server, past>>
        BY <1>4, PanelTerms DEF Panel!RegressionAnswer
    <2>2. p.seen \in SeenState
        BY <1>1, <1>4 DEF RequestFits
    <2>3. k \in 0..MaxTests
        BY <1>1, <2>1, <2>2, TestsAnswerIs
    <2>4. PICK u : u = [ui EXCEPT !.tests = k]
        OBVIOUS
    <2>5. /\ u \in Panel!PanelState /\ u.issue = ui.issue /\ u.loading = ui.loading /\ u.busy = ui.busy
          /\ u.run = ui.run /\ u.detail = ui.detail /\ u.warned = ui.warned
          /\ u.strict = ui.strict /\ u.drift = ui.drift /\ u.explor = ui.explor /\ u.promoted = ui.promoted
        BY <1>1, <2>3, <2>4 DEF Panel!PanelState
    <2>6. ui' = Panel!Finally(u, p)
        BY <2>1, <2>4
    <2> QED BY <2>1, <2>5, <2>6, PanelReturns
<1> QED BY <1>2, <1>3, <1>4 DEF Panel!DriftAnswer, Panel!RegressionAnswer

LEMMA TraceAnswers ==
    ASSUME PanelOK, NEW p \in pending, Panel!TraceAnswer(p)
    PROVE  PanelOK'
<1>1. PanelRest /\ SavesInv /\ PanelTypes /\ ui \in Panel!PanelState /\ RequestFits(p) /\ PendingOK /\ ServerOK /\ FirstLoad
    BY DEF PanelOK, PanelRest, PanelTypes
<1>2. /\ p.op = "trace"
      /\ \/ /\ p.stage = "post" /\ RecordRun /\ Goes(p, "list", Nil)
            /\ ui' = [ui EXCEPT !.loading = TRUE] /\ past' = past
         \/ /\ p.stage = "list" /\ UNCHANGED server /\ Panel!Turned
            /\ \E n \in RunsAnswer(p) : /\ ui' = Panel!ShowRun([ui EXCEPT !.runs = n], n)
                                        /\ Goes(p, "detail", n)
    BY PanelTerms DEF Panel!TraceAnswer
<1>3. CASE p.stage = "post"
    <2>1. /\ RecordRun /\ Goes(p, "list", Nil)
          /\ ui' = [ui EXCEPT !.loading = TRUE] /\ past' = past
        BY <1>2, <1>3
    <2>2. ServerOK' /\ TestsStay /\ server'.runs = server.runs + 1 /\ server.runs \in 0..MaxRuns
        BY <1>1, <2>1, RecordRunIs, ServerIs DEF ServerOK
    <2>3. server'.runs > 0
        BY <2>2, BoundsAssumption
    <2>4. /\ ui' \in Panel!PanelState /\ ui'.issue = ui.issue /\ ui'.busy = ui.busy /\ ui'.run = ui.run
          /\ ui'.detail = ui.detail /\ ui'.warned = ui.warned /\ ui'.strict = ui.strict /\ ui'.drift = ui.drift
          /\ ui'.explor = ui.explor /\ ui'.promoted = ui.promoted
        BY <1>1, <2>1 DEF Panel!PanelState
    <2>5. PICK stage, run : stage = "list" /\ run = Nil
        OBVIOUS
    <2>6. PanelRest' /\ \E r : pending' = (pending \ {p}) \cup {r} /\ r.op = p.op /\ r.arg = p.arg
        BY <1>1, <1>2, <2>1, <2>2, <2>3, <2>4, <2>5, PanelGoesIs
    <2>7. SavesInv'
        BY <1>1, <1>2, <2>1, <2>2, <2>4, <2>6, SavesKept
    <2> QED BY <2>6, <2>7 DEF PanelOK
<1>4. CASE p.stage = "list"
    <2>1. PICK n \in RunsAnswer(p) : /\ ui' = Panel!ShowRun([ui EXCEPT !.runs = n], n)
                                     /\ Goes(p, "detail", n) /\ UNCHANGED server /\ Panel!Turned
        BY <1>2, <1>4
    <2>2. p.seen \in SeenState /\ p.seen.runs > 0
        BY <1>1, <1>2, <1>4 DEF RequestFits
    <2>3. n \in 0..MaxRuns /\ n >= p.seen.runs /\ (n > 0 => n \in Run)
        BY <1>1, <2>1, <2>2, RunsAnswerIs
    <2>4. n \in Run
        BY <2>2, <2>3, BoundsAssumption DEF SeenState
    <2>5. PICK u : u = [ui EXCEPT !.runs = n]
        OBVIOUS
    <2>6. /\ u \in Panel!PanelState /\ u.issue = ui.issue /\ u.loading = ui.loading /\ u.busy = ui.busy
          /\ u.promoted = ui.promoted
        BY <1>1, <2>4, <2>5, PanelTerms DEF Panel!PanelState
    <2>7. /\ ui' \in Panel!PanelState /\ ui'.issue = ui.issue /\ ui'.loading = ui.loading /\ ui'.busy = ui.busy
          /\ ui'.run = n /\ ui'.promoted = ui.promoted
          /\ ui'.detail = Nil /\ ui'.strict = Nil /\ ui'.drift = Nil /\ ui'.explor = Nil
        BY <2>1, <2>4, <2>5, <2>6, ShowRunIs
    <2>8. PICK r : pending' = (pending \ {p}) \cup {r} /\ r.op = "trace" /\ r.stage = "detail" /\ r.run = n
        BY <1>1, <1>2, <2>1, WentIs DEF IsOf
    <2>9. PendingOK' /\ ServerOK' /\ TestsStay
        BY <1>1, <2>1, WentIs, SameServer
    <2>10. /\ past' = [runs |-> past'.runs, saves |-> past'.saves]
           /\ past'.runs = PendingRuns /\ past'.saves = past.saves
        BY <1>1, <2>1, TurnedIs
    <2>11. ui.issue /\ \A q \in pending : q.op # "load"
        BY <1>1, <1>2 DEF FirstLoad
    <2>12. PICK kept : kept = pending \ {p}
        OBVIOUS
    <2>13. kept \subseteq pending /\ pending' = kept \cup {r} /\ \A q \in pending : q \in kept \/ q.op = r.op
        BY <1>2, <2>8, <2>12
    <2>14. PanelRest'
        BY <1>1, <2>4, <2>7, <2>8, <2>9, <2>10, <2>11, <2>13, PanelTurnIs
    <2>15. SavesInv'
        BY <1>1, <2>7, <2>8, <2>9, <2>10, SavesKept
    <2> QED BY <2>14, <2>15 DEF PanelOK
<1> QED BY <1>2, <1>3, <1>4

LEMMA RunIsRecorded ==
    ASSUME PanelOK, RunElsewhere
    PROVE  PanelOK'
<1>1. PanelRest /\ SavesInv /\ PendingOK /\ ServerOK /\ PanelTypes
    BY DEF PanelOK, PanelRest
<1>2. RecordRun /\ UNCHANGED <<pending, ui, past>>
    BY DEF RunElsewhere
<1>3. ServerOK' /\ TestsStay
    BY <1>1, <1>2, RecordRunIs
<1>4. PanelTypes'
    BY <1>1, <1>2, <1>3, FitsStill DEF PanelTypes
<1>5. SavesInv'
    BY <1>1, <1>2, <1>3, SavesKept
<1>6. PendingOK' /\ FirstLoad' /\ ShowsInv' /\ BusyInv' /\ SpinnerInv'
    BY <1>1, <1>2 DEF PanelRest, PendingOK, FirstLoad, ShowsInv, BusyInv, SpinnerInv
<1> QED BY <1>3, <1>4, <1>5, <1>6 DEF PanelOK, PanelRest

LEMMA PanelStep == PanelInv /\ [Next]_consolevars => PanelInv'
<1> SUFFICES ASSUME PanelInv, [Next]_consolevars, view = "panel" PROVE PanelOK'
    BY DEF PanelInv, Next, consolevars
<1>1. PanelOK /\ (Panel!Next \/ RunElsewhere \/ UNCHANGED <<server, pending, ui, past>>)
    BY DEF PanelInv, Next, consolevars, clientvars
<1>2. CASE UNCHANGED <<server, pending, ui, past>>
    BY <1>1, <1>2 DEF PanelOK, PanelRest, PendingOK, ServerOK, PanelTypes, RequestFits, FirstLoad, ShowsInv,
          BusyInv, SpinnerInv, SavesInv, NoneAsked, Saved
<1>3. CASE Panel!Click
    BY <1>1, <1>3, PanelClicks, PanelSelects DEF Panel!Click
<1>4. CASE Panel!Answers
    BY <1>1, <1>4, LoadComes, ReturnsWithDetail, SimulationAnswers, SaveAnswers, ListsAnswer, TraceAnswers
       DEF Panel!Answers, Panel!Answer
<1> QED BY <1>1, <1>2, <1>3, <1>4, PanelStarts, RunIsRecorded DEF Panel!Next

(* "Saved as regression test" stands beside the simulation that was saved,  *)
(* in the Jira panel and on the page of a trace, unless the save overlapped *)
(* the request for a simulation; and the studio says it only of a completed *)
(* simulation of its run that the pack has.                                 *)
THEOREM SavedIsShownCorrect == Spec => []SavedIsShown
<1>1. PanelInv /\ TraceInv /\ StudioInv => SavedIsShown
    <2> SUFFICES ASSUME PanelInv, TraceInv, StudioInv PROVE SavedIsShown
        OBVIOUS
    <2>1. view = "panel" => Panel!SavedIsShown
        BY SavesTold, PanelTerms DEF PanelInv, PanelOK, Panel!SavedIsShown, Panel!Completed
    <2>2. view = "trace" => Trace!SavedIsShown
        BY SavesTold, TraceTerms DEF TraceInv, TraceOK, Trace!SavedIsShown, Trace!Completed
    <2>3. view = "studio" => Studio!SavedIsInPack
        BY StudioTerms DEF StudioInv, Studio!SavedIsInPack, Studio!Card
    <2> QED BY <2>1, <2>2, <2>3 DEF SavedIsShown
<1> QED BY <1>1, PanelMounts, PanelStep, TraceMounts, TraceStep, StudioMounts, StudioStep, PTL DEF Spec
-----------------------------------------------------------------------------
(* Lists that are shown page by page.  Of n things, the one with k others   *)
(* after it exists for every k < n: those ranks are all different, so none  *)
(* is left out.                                                             *)
LEMMA RankTaken ==
    ASSUME NEW F, IsFiniteSet(F), F \subseteq Nat, NEW k \in Nat, k < Cardinality(F)
    PROVE  \E r \in F : Cardinality({q \in F : q > r}) = k
<1> DEFINE Later(r) == {q \in F : q > r}
           rank     == [r \in F |-> Cardinality(Later(r))]
<1> SUFFICES ASSUME \A r \in F : Cardinality(Later(r)) # k PROVE FALSE
    OBVIOUS
<1>1. PICK n : n = Cardinality(F)
    OBVIOUS
<1>2. n \in Nat /\ k \in 0..(n - 1)
    BY <1>1, FS_CardinalityType
<1>3. ASSUME NEW r \in F PROVE IsFiniteSet(Later(r)) /\ Cardinality(Later(r)) \in 0..(n - 1)
    <2>1. Later(r) \subseteq F /\ r \notin Later(r)
        OBVIOUS
    <2>2. IsFiniteSet(Later(r)) /\ Cardinality(Later(r)) \in Nat
        BY <2>1, FS_Subset, FS_CardinalityType
    <2>3. Cardinality(Later(r)) < n
        BY <1>1, <1>2, <2>1, <2>2, FS_Subset
    <2> QED BY <1>2, <2>2, <2>3
<1>4. ASSUME NEW r \in F, NEW s \in F, s > r PROVE Cardinality(Later(s)) < Cardinality(Later(r))
    <2>1. Later(s) \subseteq Later(r) /\ s \in Later(r) /\ s \notin Later(s)
        <3>1. r \in Nat /\ s \in Nat /\ \A q \in F : q > s => q > r
            BY <1>4
        <3>2. ASSUME NEW q \in Later(s) PROVE q \in Later(r)
            BY <3>1
        <3>3. ~(s > s)
            BY <3>1
        <3> QED BY <1>4, <3>2, <3>3
    <2>2. IsFiniteSet(Later(r)) /\ Cardinality(Later(r)) \in Nat /\ Cardinality(Later(s)) \in Nat
        BY <1>2, <1>3
    <2> HIDE DEF Later
    <2> QED BY <2>1, <2>2, FS_Subset
<1>5. PICK S : S = 0..(n - 1) \ {k}
    OBVIOUS
<1>6. IsFiniteSet(S) /\ Cardinality(S) < n
    <2>1. PICK T : T = 0..(n - 1)
        OBVIOUS
    <2>2. 0 \in Int /\ n - 1 \in Int /\ n - 1 - 0 + 1 = n /\ n > 0
        BY <1>2
    <2>3. IsFiniteSet(T) /\ Cardinality(T) = n
        BY <2>1, <2>2, FS_Interval
    <2>4. S \subseteq T /\ k \notin S /\ k \in T
        BY <1>2, <1>5, <2>1
    <2>5. IsFiniteSet(S) /\ Cardinality(S) <= Cardinality(T) /\ Cardinality(S) # Cardinality(T)
        BY <2>3, <2>4, FS_Subset
    <2>6. Cardinality(S) \in Nat
        BY <2>5, FS_CardinalityType
    <2> QED BY <1>2, <2>3, <2>5, <2>6
<1>7. rank \in [F -> S]
    BY <1>3, <1>5
<1>8. \E r, s \in F : r # s /\ rank[r] = rank[s]
    <2> HIDE DEF rank
    <2> QED BY <1>1, <1>6, <1>7, FS_PigeonHole
<1>9. PICK r, s \in F : r # s /\ Cardinality(Later(r)) = Cardinality(Later(s))
    BY <1>8
<1>10. Cardinality(Later(r)) \in Nat /\ Cardinality(Later(s)) \in Nat /\ (r > s \/ s > r)
    BY <1>2, <1>3, <1>9
<1> HIDE DEF Later
<1> QED BY <1>4, <1>9, <1>10

PagesOf(S) == (Cardinality(S) + PageSize - 1) \div PageSize

LEMMA SizeIsPositive == PageSize \in Nat \ {0}
BY ConsoleAssumption

LEMMA PagesGrow ==
    ASSUME NEW S, IsFiniteSet(S), NEW T, T \subseteq S
    PROVE  PagesOf(T) \in Nat /\ PagesOf(S) \in Nat /\ PagesOf(T) <= PagesOf(S)
<1>1. PICK m, n \in Nat : m = Cardinality(T) /\ n = Cardinality(S) /\ m <= n
    BY FS_Subset, FS_CardinalityType
<1>2. PICK b \in Nat \ {0} : b = PageSize
    BY SizeIsPositive
<1>3. PICK x, y \in Nat : x = m + b - 1 /\ y = n + b - 1 /\ x <= y
    BY <1>1
<1>4. x \div b \in Nat /\ y \div b \in Nat /\ x \div b <= y \div b
    <2>1. PICK p, q \in Nat : p = x \div b /\ q = y \div b
        OBVIOUS
    <2>2. p * b <= x /\ y < (q + 1) * b
        BY <2>1
    <2>3. p >= q + 1 => p * b >= (q + 1) * b
        OBVIOUS
    <2>4. p * b \in Nat /\ (q + 1) * b \in Nat
        OBVIOUS
    <2>5. p <= q
        BY <1>3, <2>2, <2>3, <2>4
    <2> QED BY <2>1, <2>5
<1> QED BY <1>1, <1>2, <1>3, <1>4 DEF PagesOf

(* So every page of a list shows something of it.                           *)
LEMMA NoPageIsEmpty ==
    ASSUME NEW F, IsFiniteSet(F), F \subseteq Nat, F # {}, NEW page \in Nat \ {0},
           page > 1 => page <= PagesOf(F)
    PROVE  \E r \in F : Cardinality({q \in F : q > r}) \div PageSize = page - 1
<1>1. PICK b \in Nat \ {0} : b = PageSize
    BY SizeIsPositive
<1>2. PICK n \in Nat : n = Cardinality(F) /\ n > 0
    BY FS_CardinalityType, FS_EmptySet
<1>3. PICK i \in Nat : i = page - 1
    OBVIOUS
<1>4. PICK x \in Nat : x = n + b - 1
    BY <1>2
<1>5. i < x \div b
    <2>1. CASE page = 1
        <3>1. x >= b /\ i = 0
            BY <1>2, <1>3, <1>4, <2>1
        <3>2. x \div b >= 1
            BY <3>1
        <3> QED BY <3>1, <3>2
    <2>2. CASE page > 1
        BY <1>1, <1>2, <1>3, <1>4, <2>2 DEF PagesOf
    <2> QED BY <2>1, <2>2
<1>6. i * b \in Nat /\ i * b < n
    BY <1>2, <1>4, <1>5
<1>7. PICK r \in F : Cardinality({q \in F : q > r}) = i * b
    BY <1>2, <1>6, RankTaken
<1>8. (i * b) \div b = i
    OBVIOUS
<1> QED BY <1>1, <1>3, <1>7, <1>8

(* A click of the bar leads to a page of the list, or back.                 *)
LEMMA WindowIs ==
    ASSUME NEW total \in Nat, NEW from \in 1..total, NEW to \in 0..total
    PROVE  Bar!Window(from, to) \in Seq(0..total)
<1>1. CASE to < from
    <2>1. 1..(to - from + 1) = 1..0
        BY <1>1
    <2> QED BY <2>1 DEF Bar!Window
<1>2. CASE from <= to
    <2>1. to - from + 1 \in Nat /\ \A k \in 1..(to - from + 1) : from + k - 1 \in 0..total
        BY <1>2
    <2> QED BY <2>1 DEF Bar!Window
<1> QED BY <1>1, <1>2

LEMMA NumbersAre ==
    ASSUME NEW page \in Nat, NEW total \in Nat, total > 1
    PROVE  Bar!getPages(page, total) \in Seq(0..total)
<1>1. CASE total <= 5
    <2>1. 1 \in 1..total /\ total \in 0..total
        OBVIOUS
    <2> QED BY <1>1, <2>1, WindowIs DEF Bar!getPages
<1>2. CASE total > 5
    <2>1. Bar!Start(page, total) \in 1..total /\ Bar!End(page, total) \in 0..total
        BY <1>2 DEF Bar!Start, Bar!End, Bar!Larger, Bar!Smaller
    <2> DEFINE middle == Bar!Window(Bar!Start(page, total), Bar!End(page, total))
               left   == IF Bar!Start(page, total) > 2 THEN <<Bar!Gap>> ELSE <<>>
               right  == IF Bar!End(page, total) < total - 1 THEN <<Bar!Gap>> ELSE <<>>
    <2>3. Bar!getPages(page, total) = <<1>> \o left \o middle \o right \o <<total>>
        <3>1. ~(total <= 5)
            BY <1>2
        <3> QED BY <3>1, Zenon DEF Bar!getPages
    <2>4. middle \in Seq(0..total)
        BY <2>1, WindowIs
    <2>5. << 0 >> \in Seq(0..total) /\ <<>> \in Seq(0..total) /\ <<1>> \in Seq(0..total) /\ <<total>> \in Seq(0..total)
        <3>1. 0 \in 0..total /\ 1 \in 0..total /\ total \in 0..total
            OBVIOUS
        <3> QED BY <3>1
    <2>6. left \in Seq(0..total) /\ right \in Seq(0..total)
        BY <2>5 DEF Bar!Gap
    <2> HIDE DEF left, right, middle
    <2> QED BY <2>3, <2>4, <2>5, <2>6
<1> QED BY <1>1, <1>2

LEMMA ClicksAre ==
    ASSUME NEW page \in Nat, NEW total \in Nat, NEW i \in Bar!Clicks(page, total)
    PROVE  total > 1 /\ i \in Nat \ {0} /\ (i <= total \/ i < page)
<1>1. total > 1
    BY DEF Bar!Clicks
<1>2. PICK bar : bar = Bar!getPages(page, total)
    OBVIOUS
<1>3. bar \in Seq(0..total)
    BY <1>1, <1>2, NumbersAre
<1>4. i \in Bar!Numbers(bar) \/ (page > 1 /\ i = page - 1) \/ (page < total /\ i = page + 1)
    BY <1>1, <1>2 DEF Bar!Clicks
<1>5. \A k \in 1..Len(bar) : bar[k] \in 0..total
    BY <1>3
<1>6. i \in Bar!Numbers(bar) => i \in 1..total
    BY <1>5 DEF Bar!Numbers, Bar!Gap
<1> QED BY <1>1, <1>4, <1>6
-----------------------------------------------------------------------------
(* The list of runs.  What is awaited was asked for with the query, or with *)
(* one before it; the list of the query is shown or awaited; the open page  *)
(* is one of the list under its tab.                                        *)
ListDue == \/ past.failed
           \/ ui.key \in {ui.query} \cup past.keys
           \/ \E p \in pending : p.stage = "list" /\ p.arg = ui.query

PageHeld == ui.page >= 1 /\ (ui.page > 1 => ui.page <= PagesOf(Traces!Listed))

ListSpinners == /\ ui.busy # Nil => pending # {}
                /\ ui.busy = "trace" => \E p \in pending : p.op = "trace"
                /\ ui.loading => \E p \in pending : p.stage = "list"

TracesTypes ==
    /\ ui \in Traces!PageState
    /\ past = [keys |-> past.keys, failed |-> past.failed]
    /\ \A p \in pending : /\ p.op \in {"load", "trace"} /\ p.stage \in {"list", "post"}
                          /\ p.arg \in Traces!Filter /\ p.arg \in {ui.query} \cup past.keys
                          /\ p.stage = "list" => p.seen \in SeenState

TracesOK == PendingOK /\ ServerOK /\ TracesTypes /\ ListDue /\ PageHeld /\ ListSpinners

TracesInv == view = "traces" => TracesOK

(* What the list takes from ConsoleClient and Pagination.                   *)
LEMMA TracesTerms ==
    /\ Traces!Run = Run
    /\ \A op, stage, run, arg : Traces!NewRequest(op, stage, run, arg) = NewRequest(op, stage, run, arg)
    /\ \A op, stage, run, arg : Traces!Send(op, stage, run, arg) <=> Send(op, stage, run, arg)
    /\ \A p, stage, run : Traces!Goes(p, stage, run) <=> Goes(p, stage, run)
    /\ \A p : Traces!Returns(p) <=> Returns(p)
    /\ \A op : Traces!Waiting(op) = Waiting(op)
    /\ \A u, op : Traces!SetBusy(u, op) = SetBusy(u, op)
    /\ Traces!RecordRun <=> RecordRun
    /\ \A p : Traces!RunsAnswer(p) = RunsAnswer(p)
<1>1. Traces!Run = Run
    BY DEF Traces!Run, Run
<1>2. \A op, stage, run, arg : Traces!NewRequest(op, stage, run, arg) = NewRequest(op, stage, run, arg)
    BY DEF Traces!NewRequest, NewRequest, Traces!Seen, Seen
<1>3. \A op, stage, run, arg : Traces!Send(op, stage, run, arg) <=> Send(op, stage, run, arg)
    BY DEF Traces!Send, Send, Traces!With, With, Traces!NewRequest, NewRequest, Traces!Seen, Seen, Traces!Cardinality, Cardinality, Traces!IsFiniteSet, IsFiniteSet
<1>4. \A p, stage, run : Traces!Goes(p, stage, run) <=> Goes(p, stage, run)
    BY DEF Traces!Goes, Goes, Traces!With, With, Traces!Seen, Seen
<1>5. \A p : Traces!Returns(p) <=> Returns(p)
    BY DEF Traces!Returns, Returns
<1>6. \A op : Traces!Waiting(op) = Waiting(op)
    BY DEF Traces!Waiting, Waiting
<1>7. \A u, op : Traces!SetBusy(u, op) = SetBusy(u, op)
    BY DEF Traces!SetBusy, SetBusy
<1>8. Traces!RecordRun <=> RecordRun
    BY DEF Traces!RecordRun, RecordRun
<1>9. \A p : Traces!RunsAnswer(p) = RunsAnswer(p)
    BY DEF Traces!RunsAnswer, RunsAnswer
<1> QED BY <1>1, <1>2, <1>3, <1>4, <1>5, <1>6, <1>7, <1>8, <1>9

LEMMA TracesBar ==
    /\ \A page, total : Traces!Clicks(page, total) = Bar!Clicks(page, total)
    /\ \A S : Traces!Pages(S) = PagesOf(S)
<1>1. \A page, total : Traces!Clicks(page, total) = Bar!Clicks(page, total)
    BY DEF Traces!Clicks, Traces!Numbers, Traces!getPages, Traces!Window, Traces!Start, Traces!End,
           Traces!Larger, Traces!Smaller, Traces!Gap,
           Bar!Clicks, Bar!Numbers, Bar!getPages, Bar!Window, Bar!Start, Bar!End, Bar!Larger, Bar!Smaller, Bar!Gap
<1>2. \A S : Traces!Pages(S) = PagesOf(S)
    BY DEF Traces!Pages, PagesOf, Traces!Cardinality, Cardinality, Traces!IsFiniteSet, IsFiniteSet
<1> QED BY <1>1, <1>2

LEMMA ListedIsFinite ==
    ASSUME ui \in Traces!PageState
    PROVE  IsFiniteSet(Traces!Listed) /\ Traces!Listed \subseteq Nat
<1>1. ui.runs \in Nat
    BY BoundsAssumption DEF Traces!PageState
<1>2. PICK T : T = 1..ui.runs
    OBVIOUS
<1>3. IsFiniteSet(T)
    BY <1>1, <1>2, FS_Interval
<1>4. Traces!Listed \subseteq T /\ T \subseteq Nat
    BY <1>1, <1>2 DEF Traces!Listed
<1> QED BY <1>3, <1>4, FS_Subset

LEMMA TracesMounts == Init => TracesInv
<1> SUFFICES ASSUME Init, view = "traces" PROVE TracesOK
    BY DEF TracesInv
<1>1. /\ Holding(MaxRuns - 1) /\ ui = Traces!Blank /\ past = [keys |-> {}, failed |-> FALSE]
      /\ pending = {NewRequest("load", "list", Nil, Nil)}
    BY TracesTerms DEF Init, Traces!Mount
<1>2. MaxRuns - 1 \in 0..MaxRuns
    BY BoundsAssumption
<1>3. ServerOK
    BY <1>1, <1>2, HoldingIs
<1>4. PendingOK /\ \A p \in pending : IsOf(p, "load", "list", Nil, Nil) /\ p.seen = Seen("list", server)
    BY <1>1, MountedIs
<1>5. Seen("list", server) \in SeenState
    BY <1>3, SeenIs DEF ServerOK
<1>6. ui \in Traces!PageState /\ ui.query = Nil /\ ui.key = Nil /\ ui.page = 1 /\ ui.busy = "load"
    BY <1>1, BoundsAssumption DEF Traces!Blank, Traces!PageState, Traces!Filter
<1>7. TracesTypes
    BY <1>1, <1>4, <1>5, <1>6 DEF TracesTypes, IsOf, Traces!Filter
<1>8. ListDue /\ PageHeld
    BY <1>6 DEF ListDue, PageHeld
<1>9. pending # {}
    BY <1>1
<1>10. ListSpinners
    BY <1>4, <1>6, <1>9 DEF ListSpinners, IsOf
<1> QED BY <1>3, <1>4, <1>7, <1>8, <1>10 DEF TracesOK

(* The list and its tab stay, and the open page, or the first one is.       *)
LEMMA PageStays ==
    ASSUME PageHeld, ui'.runs = ui.runs, ui'.key = ui.key, ui'.tab = ui.tab, ui'.page \in {1, ui.page}
    PROVE  PageHeld'
<1>1. Traces!Listed' = Traces!Listed
    BY DEF Traces!Listed, Traces!Of
<1> QED BY <1>1 DEF PageHeld, PagesOf

LEMMA FirstPage ==
    ASSUME ui'.page = 1
    PROVE  PageHeld'
BY DEF PageHeld

(* A handler of the list is called.                                         *)
LEMMA TracesSends ==
    ASSUME TracesOK, NEW op, NEW stage, NEW arg, Send(op, stage, Nil, arg), UNCHANGED server,
           (op = "load" /\ stage = "list") \/ (op = "trace" /\ stage = "post" /\ arg = ui.query /\ past' = past),
           ui' \in Traces!PageState, ui'.busy = op, ui'.query = arg, ui'.loading = ui.loading,
           ui'.runs = ui.runs, ui'.key = ui.key, ui'.tab = ui.tab, ui'.page \in {1, ui.page},
           past' = [keys |-> past'.keys, failed |-> past'.failed],
           (arg = ui.query /\ past'.keys = past.keys) \/ past'.keys = {p.arg : p \in pending}
    PROVE  TracesOK'
<1>1. PendingOK /\ ServerOK /\ TracesTypes /\ ListDue /\ PageHeld /\ ListSpinners
    BY DEF TracesOK
<1>2. PICK r : pending' = pending \cup {r} /\ IsOf(r, op, stage, Nil, arg) /\ r.seen = Seen(stage, server)
    BY <1>1, SentIs
<1>3. PendingOK' /\ ServerOK' /\ PageHeld'
    BY <1>1, SentIs, SameServer, PageStays
<1>4. arg \in Traces!Filter /\ (stage = "list" => r.seen \in SeenState)
    BY <1>1, <1>2, SeenIs DEF ServerOK, Traces!PageState
<1>5. \A p \in pending : p.arg \in {ui'.query} \cup past'.keys
    BY <1>1 DEF TracesTypes
<1>6. TracesTypes'
    BY <1>1, <1>2, <1>4, <1>5 DEF TracesTypes, IsOf
<1>7. ListDue'
    <2>1. CASE op = "load"
        BY <1>2, <2>1 DEF ListDue, IsOf
    <2>2. CASE arg = ui.query /\ past' = past
        BY <1>1, <1>2, <2>2 DEF ListDue
    <2> QED BY <2>1, <2>2
<1>8. ListSpinners'
    BY <1>1, <1>2 DEF ListSpinners, IsOf
<1> QED BY <1>3, <1>6, <1>7, <1>8 DEF TracesOK

(* Nothing but what is shown of the list changes.                           *)
LEMMA TracesShows ==
    ASSUME TracesOK, UNCHANGED <<server, pending, past>>,
           ui' \in Traces!PageState, ui'.busy = ui.busy, ui'.query = ui.query, ui'.loading = ui.loading,
           ui'.key = ui.key, PageHeld'
    PROVE  TracesOK'
BY SameServer DEF TracesOK, PendingOK, TracesTypes, ListDue, ListSpinners

LEMMA QuerySet ==
    ASSUME TracesOK, NEW u \in Traces!PageState, NEW k \in Traces!Filter, Traces!SetQuery(u, k), UNCHANGED server,
           u.query = ui.query, u.busy = ui.busy, u.loading = ui.loading,
           u.runs = ui.runs, u.key = ui.key, u.tab = ui.tab, u.page \in {1, ui.page}
    PROVE  TracesOK'
<1>1. PageHeld
    BY DEF TracesOK
<1>2. CASE k = u.query
    <2>1. ui' = u /\ UNCHANGED <<pending, past>>
        BY <1>2 DEF Traces!SetQuery
    <2>2. PageHeld'
        BY <1>1, <2>1, PageStays
    <2> QED BY <2>1, <2>2, TracesShows
<1>3. CASE k # u.query
    <2>1. /\ Send("load", "list", Nil, k)
          /\ ui' = [u EXCEPT !.query = k, !.busy = "load"]
          /\ past' = [keys |-> {p.arg : p \in pending}, failed |-> FALSE]
        BY <1>3, TracesTerms DEF Traces!SetQuery
    <2>2. /\ ui' \in Traces!PageState /\ ui'.busy = "load" /\ ui'.query = k /\ ui'.loading = ui.loading
          /\ ui'.runs = ui.runs /\ ui'.key = ui.key /\ ui'.tab = ui.tab /\ ui'.page \in {1, ui.page}
        BY <2>1 DEF Traces!PageState
    <2>3. PICK op, stage : op = "load" /\ stage = "list"
        OBVIOUS
    <2>4. PICK keys : keys = {p.arg : p \in pending}
        OBVIOUS
    <2>5. past' = [keys |-> past'.keys, failed |-> past'.failed] /\ past'.keys = keys
        BY <2>1, <2>4
    <2> QED BY <2>1, <2>2, <2>3, <2>4, <2>5, TracesSends
<1> QED BY <1>2, <1>3

LEMMA TracesClicks ==
    ASSUME TracesOK, \/ Traces!refresh \/ Traces!runQuery \/ Traces!GlobalSearch \/ Traces!Type
                     \/ Traces!SetTab \/ Traces!SetPage \/ Traces!startTrace
    PROVE  TracesOK'
<1>1. TracesTypes /\ PageHeld /\ ui \in Traces!PageState
    BY DEF TracesOK, TracesTypes
<1>2. CASE Traces!refresh
    <2>1. /\ Send("load", "list", Nil, ui.query) /\ ui' = SetBusy(ui, "load") /\ UNCHANGED server
          /\ past' = [past EXCEPT !.failed = FALSE]
        BY <1>2, TracesTerms DEF Traces!refresh
    <2>2. /\ ui' \in Traces!PageState /\ ui'.busy = "load" /\ ui'.query = ui.query /\ ui'.loading = ui.loading
          /\ ui'.runs = ui.runs /\ ui'.key = ui.key /\ ui'.tab = ui.tab /\ ui'.page \in {1, ui.page}
        BY <1>1, <2>1 DEF SetBusy, Traces!PageState
    <2>3. PICK op, stage, arg : op = "load" /\ stage = "list" /\ arg = ui.query
        OBVIOUS
    <2>4. past' = [keys |-> past'.keys, failed |-> past'.failed] /\ past'.keys = past.keys
        BY <1>1, <2>1 DEF TracesTypes
    <2> QED BY <2>1, <2>2, <2>3, <2>4, TracesSends
<1>3. CASE Traces!runQuery
    <2>1. Traces!SetQuery(ui, ui.search) /\ UNCHANGED server /\ ui.search \in Traces!Filter
        BY <1>1, <1>3 DEF Traces!runQuery, Traces!PageState
    <2> QED BY <1>1, <2>1, QuerySet
<1>4. CASE Traces!GlobalSearch
    <2>1. PICK k \in Traces!Filter :
              LET found == [ui EXCEPT !.search = k, !.page = 1] IN
              IF k = Nil THEN ui' = found /\ UNCHANGED <<pending, past>> ELSE Traces!SetQuery(found, Nil)
        BY <1>4 DEF Traces!GlobalSearch
    <2>2. UNCHANGED server
        BY <1>4 DEF Traces!GlobalSearch
    <2>3. PICK found : found = [ui EXCEPT !.search = k, !.page = 1]
        OBVIOUS
    <2>4. /\ found \in Traces!PageState /\ found.busy = ui.busy /\ found.query = ui.query /\ found.loading = ui.loading
          /\ found.runs = ui.runs /\ found.key = ui.key /\ found.tab = ui.tab /\ found.page = 1
        BY <1>1, <2>3 DEF Traces!PageState
    <2>5. CASE k = Nil
        <3>1. ui' = found /\ UNCHANGED <<pending, past>>
            BY <2>1, <2>3, <2>5
        <3>2. PageHeld'
            BY <2>4, <3>1, FirstPage
        <3> QED BY <2>2, <2>4, <3>1, <3>2, TracesShows
    <2>6. CASE k # Nil
        <3>1. Traces!SetQuery(found, Nil) /\ Nil \in Traces!Filter
            BY <2>1, <2>3, <2>6 DEF Traces!Filter
        <3> QED BY <2>2, <2>4, <3>1, QuerySet
    <2> QED BY <2>5, <2>6
<1>5. CASE Traces!Type
    <2>1. PICK k \in Traces!Filter : ui' = [ui EXCEPT !.search = k] /\ UNCHANGED <<server, pending, past>>
        BY <1>5 DEF Traces!Type
    <2>2. /\ ui' \in Traces!PageState /\ ui'.busy = ui.busy /\ ui'.query = ui.query /\ ui'.loading = ui.loading
          /\ ui'.runs = ui.runs /\ ui'.key = ui.key /\ ui'.tab = ui.tab /\ ui'.page = ui.page
        BY <1>1, <2>1 DEF Traces!PageState
    <2> QED BY <1>1, <2>1, <2>2, PageStays, TracesShows
<1>6. CASE Traces!SetTab
    <2>1. PICK t \in {"all", "completed"} : ui' = [ui EXCEPT !.tab = t, !.page = 1] /\ UNCHANGED <<server, pending, past>>
        BY <1>6 DEF Traces!SetTab
    <2>2. /\ ui' \in Traces!PageState /\ ui'.busy = ui.busy /\ ui'.query = ui.query /\ ui'.loading = ui.loading
          /\ ui'.key = ui.key /\ ui'.page = 1
        BY <1>1, <2>1 DEF Traces!PageState
    <2> QED BY <2>1, <2>2, FirstPage, TracesShows
<1>7. CASE Traces!SetPage
    <2>1. PICK i \in Bar!Clicks(ui.page, PagesOf(Traces!Filtered)) :
              ui' = [ui EXCEPT !.page = i] /\ UNCHANGED <<server, pending, past>>
        BY <1>7, TracesBar DEF Traces!SetPage
    <2>2. PICK listed, filtered : listed = Traces!Listed /\ filtered = Traces!Filtered
        OBVIOUS
    <2>3. IsFiniteSet(listed) /\ filtered \subseteq listed
        BY <1>1, <2>2, ListedIsFinite DEF Traces!Filtered
    <2>4. PagesOf(filtered) \in Nat /\ PagesOf(listed) \in Nat /\ PagesOf(filtered) <= PagesOf(listed)
        BY <2>3, PagesGrow
    <2>5. ui.page \in Nat
        BY <1>1 DEF Traces!PageState
    <2>6. i \in Nat \ {0} /\ (i <= PagesOf(filtered) \/ i < ui.page)
        BY <2>1, <2>2, <2>4, <2>5, ClicksAre
    <2>7. /\ ui' \in Traces!PageState /\ ui'.busy = ui.busy /\ ui'.query = ui.query /\ ui'.loading = ui.loading
          /\ ui'.runs = ui.runs /\ ui'.key = ui.key /\ ui'.tab = ui.tab /\ ui'.page = i
        BY <1>1, <2>1, <2>6 DEF Traces!PageState
    <2>8. i <= PagesOf(listed) \/ i = 1
        BY <1>1, <2>2, <2>4, <2>5, <2>6 DEF PageHeld
    <2>9. Traces!Listed' = listed
        BY <2>2, <2>7 DEF Traces!Listed, Traces!Of
    <2>10. PageHeld'
        BY <2>4, <2>6, <2>7, <2>8, <2>9 DEF PageHeld, PagesOf
    <2> QED BY <2>1, <2>7, <2>10, TracesShows
<1>8. CASE Traces!startTrace
    <2>1. /\ Send("trace", "post", Nil, ui.query) /\ ui' = SetBusy(ui, "trace") /\ UNCHANGED <<server, past>>
        BY <1>8, TracesTerms DEF Traces!startTrace
    <2>2. /\ ui' \in Traces!PageState /\ ui'.busy = "trace" /\ ui'.query = ui.query /\ ui'.loading = ui.loading
          /\ ui'.runs = ui.runs /\ ui'.key = ui.key /\ ui'.tab = ui.tab /\ ui'.page \in {1, ui.page}
        BY <1>1, <2>1 DEF SetBusy, Traces!PageState
    <2>3. PICK op, stage, arg : op = "trace" /\ stage = "post" /\ arg = ui.query
        OBVIOUS
    <2>4. past' = [keys |-> past'.keys, failed |-> past'.failed] /\ past'.keys = past.keys
        BY <1>1, <2>1 DEF TracesTypes
    <2> QED BY <2>1, <2>2, <2>3, <2>4, TracesSends
<1> QED BY <1>2, <1>3, <1>4, <1>5, <1>6, <1>7, <1>8

LEMMA TracesAnswers ==
    ASSUME TracesOK, Traces!Answers
    PROVE  TracesOK'
<1>1. PendingOK /\ ServerOK /\ TracesTypes /\ ListDue /\ PageHeld /\ ListSpinners /\ ui \in Traces!PageState
    BY DEF TracesOK, TracesTypes
<1>2. PICK p \in pending : Traces!ListAnswer(p) \/ Traces!TraceAnswer(p) \/ Traces!Fail(p)
    BY DEF Traces!Answers
<1>3. p.arg \in Traces!Filter /\ p.arg \in {ui.query} \cup past.keys
    BY <1>1 DEF TracesTypes
<1>4. CASE Traces!ListAnswer(p)
    <2>1. PICK n \in RunsAnswer(p) : ui' = Traces!Loaded(ui, p, n) /\ p.stage = "list" /\ Returns(p) /\ UNCHANGED <<server, past>>
        BY <1>4, TracesTerms DEF Traces!ListAnswer
    <2>2. n \in 0..MaxRuns
        BY <1>1, <2>1, RunsAnswerIs DEF TracesTypes
    <2>3. /\ ui' \in Traces!PageState /\ ui'.busy = Nil /\ ui'.query = ui.query /\ ~ui'.loading
          /\ ui'.key = p.arg /\ ui'.page = 1
        BY <1>1, <1>3, <2>1, <2>2 DEF Traces!Loaded, Traces!PageState
    <2>4. PendingOK' /\ ServerOK' /\ PageHeld' /\ pending' = pending \ {p}
        BY <1>1, <2>1, <2>3, ReturnsIs, SameServer, FirstPage DEF Returns
    <2>5. TracesTypes'
        BY <1>1, <2>1, <2>3, <2>4 DEF TracesTypes
    <2>6. ListDue'
        BY <1>3, <2>1, <2>3 DEF ListDue
    <2>7. ListSpinners'
        BY <2>3, NilAssumption DEF ListSpinners
    <2> QED BY <2>4, <2>5, <2>6, <2>7 DEF TracesOK
<1>5. CASE Traces!Fail(p)
    <2>1. /\ ui' = [ui EXCEPT !.busy = Nil, !.loading = @ /\ p.stage # "list"] /\ Returns(p) /\ UNCHANGED server
          /\ past' = [past EXCEPT !.failed = @ \/ (p.stage = "list" /\ p.arg = ui.query)]
        BY <1>5, TracesTerms DEF Traces!Fail
    <2>2. /\ ui' \in Traces!PageState /\ ui'.busy = Nil /\ ui'.query = ui.query
          /\ (ui'.loading => ui.loading /\ p.stage # "list")
          /\ ui'.runs = ui.runs /\ ui'.key = ui.key /\ ui'.tab = ui.tab /\ ui'.page = ui.page
        BY <1>1, <2>1 DEF Traces!PageState
    <2>3. PendingOK' /\ ServerOK' /\ PageHeld' /\ pending' = pending \ {p}
        BY <1>1, <2>1, <2>2, ReturnsIs, SameServer, PageStays DEF Returns
    <2>4. /\ past' = [keys |-> past'.keys, failed |-> past'.failed] /\ past'.keys = past.keys
          /\ past'.failed = (past.failed \/ (p.stage = "list" /\ p.arg = ui.query))
        BY <1>1, <2>1 DEF TracesTypes
    <2>5. TracesTypes'
        BY <1>1, <2>2, <2>3, <2>4 DEF TracesTypes
    <2>6. ListDue'
        BY <1>1, <2>2, <2>3, <2>4 DEF ListDue
    <2>7. ListSpinners'
        BY <1>1, <2>2, <2>3, NilAssumption DEF ListSpinners
    <2> QED BY <2>3, <2>5, <2>6, <2>7 DEF TracesOK
<1>6. CASE Traces!TraceAnswer(p)
    <2>1. p.stage = "post" /\ RecordRun /\ Goes(p, "list", Nil) /\ ui' = SetBusy(ui, "load") /\ UNCHANGED past
        BY <1>6, TracesTerms DEF Traces!TraceAnswer
    <2>2. PICK stage, run : stage = "list" /\ run = Nil
        OBVIOUS
    <2>3. PICK r : pending' = (pending \ {p}) \cup {r} /\ IsOf(r, p.op, stage, run, p.arg) /\ r.seen = Seen(stage, server')
        BY <1>1, <2>1, <2>2, WentIs
    <2>4. /\ ui' \in Traces!PageState /\ ui'.busy = "load" /\ ui'.query = ui.query /\ ui'.loading = ui.loading
          /\ ui'.runs = ui.runs /\ ui'.key = ui.key /\ ui'.tab = ui.tab /\ ui'.page = ui.page
        BY <1>1, <2>1 DEF SetBusy, Traces!PageState
    <2>5. PendingOK' /\ ServerOK' /\ PageHeld'
        BY <1>1, <2>1, <2>4, WentIs, RecordRunIs, PageStays
    <2>6. Seen("list", server') \in SeenState
        BY <2>5, SeenIs DEF ServerOK
    <2>7. TracesTypes' /\ ListDue' /\ ListSpinners'
        BY <1>1, <1>3, <2>1, <2>2, <2>3, <2>4, <2>6, NilAssumption DEF TracesTypes, ListDue, ListSpinners, IsOf
    <2> QED BY <2>5, <2>7 DEF TracesOK
<1> QED BY <1>2, <1>4, <1>5, <1>6

LEMMA TracesStep == TracesInv /\ [Next]_consolevars => TracesInv'
<1> SUFFICES ASSUME TracesInv, [Next]_consolevars, view = "traces" PROVE TracesOK'
    BY DEF TracesInv, Next, consolevars
<1>1. TracesOK /\ (Traces!Next \/ RunElsewhere \/ UNCHANGED <<server, pending, ui, past>>)
    BY DEF TracesInv, Next, consolevars, clientvars
<1>2. CASE RunElsewhere \/ UNCHANGED <<server, pending, ui, past>>
    <2>1. UNCHANGED <<pending, ui, past>> /\ ServerOK'
        BY <1>1, <1>2, RecordRunIs, SameServer DEF RunElsewhere, TracesOK
    <2>2. PageHeld'
        BY <1>1, <2>1, PageStays DEF TracesOK
    <2> QED BY <1>1, <2>1, <2>2 DEF TracesOK, PendingOK, TracesTypes, ListDue, ListSpinners
<1> QED BY <1>1, <1>2, TracesClicks, TracesAnswers DEF Traces!Next

LEMMA TracesShow ==
    ASSUME TracesOK
    PROVE  Traces!ListIsOfQuery /\ Traces!EmptyOnlyBySearch /\ Traces!NeverStuck
<1>1. Traces!ListIsOfQuery
    BY DEF TracesOK, ListDue, Traces!ListIsOfQuery
<1>2. Traces!NeverStuck
    BY TracesTerms DEF TracesOK, TracesTypes, ListSpinners, Traces!NeverStuck, Waiting
<1>3. ASSUME Traces!Listed # {}, ui.search = Nil PROVE Traces!Visible # {}
    <2>1. ui \in Traces!PageState /\ PageHeld
        BY DEF TracesOK, TracesTypes
    <2>2. PICK F : F = Traces!Listed
        OBVIOUS
    <2>3. Traces!Filtered = F
        BY <1>3, <2>2 DEF Traces!Filtered, Traces!Listed, Traces!Of
    <2>4. IsFiniteSet(F) /\ F \subseteq Nat /\ F # {}
        BY <1>3, <2>1, <2>2, ListedIsFinite
    <2>5. PICK page : page = ui.page
        OBVIOUS
    <2>6. page \in Nat \ {0} /\ (page > 1 => page <= PagesOf(F))
        BY <2>1, <2>2, <2>5 DEF PageHeld, Traces!PageState
    <2>7. PICK r \in F : Cardinality({q \in F : q > r}) \div PageSize = page - 1
        BY <2>4, <2>6, NoPageIsEmpty
    <2>8. \A S : Traces!Cardinality(S) = Cardinality(S)
        BY DEF Traces!Cardinality, Cardinality, Traces!IsFiniteSet, IsFiniteSet
    <2> QED BY <2>3, <2>5, <2>7, <2>8 DEF Traces!Visible
<1> QED BY <1>1, <1>2, <1>3 DEF Traces!EmptyOnlyBySearch
-----------------------------------------------------------------------------
(* The list of drift warnings.  Unless it shrank, the open page is one of   *)
(* it.                                                                      *)
DriftPageHeld == ui.page >= 1 /\ (~past.shrunk /\ ui.page > 1 => ui.page <= PagesOf(ui.rows))

DriftTypes == /\ ui \in Drift!PageState
              /\ past = [shrunk |-> past.shrunk] /\ past.shrunk \in BOOLEAN
              /\ \A p \in pending : /\ p.stage = "list" => p.seen \in SeenState
                                    /\ p.stage = "warnings" => p.run \in 0..MaxRuns

DriftOK == PendingOK /\ ServerOK /\ DriftTypes /\ DriftPageHeld /\ Drift!NeverStuck

DriftInv == view = "drift" => DriftOK

LEMMA DriftTerms ==
    /\ Drift!Run = Run
    /\ \A op, stage, run, arg : Drift!NewRequest(op, stage, run, arg) = NewRequest(op, stage, run, arg)
    /\ \A op, stage, run, arg : Drift!Send(op, stage, run, arg) <=> Send(op, stage, run, arg)
    /\ \A p, stage, run : Drift!Goes(p, stage, run) <=> Goes(p, stage, run)
    /\ \A p : Drift!Returns(p) <=> Returns(p)
    /\ \A p : Drift!RunsAnswer(p) = RunsAnswer(p)
<1>1. Drift!Run = Run
    BY DEF Drift!Run, Run
<1>2. \A op, stage, run, arg : Drift!NewRequest(op, stage, run, arg) = NewRequest(op, stage, run, arg)
    BY DEF Drift!NewRequest, NewRequest, Drift!Seen, Seen
<1>3. \A op, stage, run, arg : Drift!Send(op, stage, run, arg) <=> Send(op, stage, run, arg)
    BY DEF Drift!Send, Send, Drift!With, With, Drift!NewRequest, NewRequest, Drift!Seen, Seen, Drift!Cardinality, Cardinality, Drift!IsFiniteSet, IsFiniteSet
<1>4. \A p, stage, run : Drift!Goes(p, stage, run) <=> Goes(p, stage, run)
    BY DEF Drift!Goes, Goes, Drift!With, With, Drift!Seen, Seen
<1>5. \A p : Drift!Returns(p) <=> Returns(p)
    BY DEF Drift!Returns, Returns
<1>6. \A p : Drift!RunsAnswer(p) = RunsAnswer(p)
    BY DEF Drift!RunsAnswer, RunsAnswer
<1> QED BY <1>1, <1>2, <1>3, <1>4, <1>5, <1>6

LEMMA DriftBar ==
    /\ \A page, total : Drift!Clicks(page, total) = Bar!Clicks(page, total)
    /\ \A S : Drift!Pages(S) = PagesOf(S)
    /\ \A S : Drift!Cardinality(S) = Cardinality(S)
<1>1. \A page, total : Drift!Clicks(page, total) = Bar!Clicks(page, total)
    BY DEF Drift!Clicks, Drift!Numbers, Drift!getPages, Drift!Window, Drift!Start, Drift!End,
           Drift!Larger, Drift!Smaller, Drift!Gap,
           Bar!Clicks, Bar!Numbers, Bar!getPages, Bar!Window, Bar!Start, Bar!End, Bar!Larger, Bar!Smaller, Bar!Gap
<1>2. \A S : Drift!Pages(S) = PagesOf(S)
    BY DEF Drift!Pages, PagesOf, Drift!Cardinality, Cardinality, Drift!IsFiniteSet, IsFiniteSet
<1>3. \A S : Drift!Cardinality(S) = Cardinality(S)
    BY DEF Drift!Cardinality, Cardinality, Drift!IsFiniteSet, IsFiniteSet
<1> QED BY <1>1, <1>2, <1>3

LEMMA RunsAreFinite == IsFiniteSet(Run) /\ \A S \in SUBSET Run : IsFiniteSet(S) /\ S \subseteq Nat
<1>1. MaxRuns \in Nat
    BY BoundsAssumption
<1>2. IsFiniteSet(Run)
    BY <1>1, FS_Interval DEF Run
<1>3. Run \subseteq Nat
    BY <1>1 DEF Run
<1> QED BY <1>2, <1>3, FS_Subset

LEMMA DriftMounts == Init => DriftInv
<1> SUFFICES ASSUME Init, view = "drift" PROVE DriftOK
    BY DEF DriftInv
<1>1. /\ Holding(MaxRuns - 1) /\ ui = Drift!Blank /\ past = [shrunk |-> FALSE]
      /\ pending = {NewRequest("load", "list", Nil, Nil)}
    BY DriftTerms DEF Init, Drift!Mount
<1>2. MaxRuns - 1 \in 0..MaxRuns
    BY BoundsAssumption
<1>3. ServerOK
    BY <1>1, <1>2, HoldingIs
<1>4. PendingOK /\ \A p \in pending : p.stage = "list" /\ p.seen = Seen("list", server)
    BY <1>1, MountedIs DEF IsOf
<1>5. Seen("list", server) \in SeenState
    BY <1>3, SeenIs DEF ServerOK
<1>6. ui \in Drift!PageState /\ ui.page = 1
    BY <1>1 DEF Drift!Blank, Drift!PageState
<1>7. DriftTypes /\ DriftPageHeld
    BY <1>1, <1>4, <1>5, <1>6 DEF DriftTypes, DriftPageHeld
<1>8. pending # {}
    BY <1>1
<1> QED BY <1>3, <1>4, <1>7, <1>8 DEF DriftOK, Drift!NeverStuck

LEMMA DriftAnswered ==
    ASSUME DriftOK, Drift!Answers
    PROVE  DriftOK'
<1>1. PendingOK /\ ServerOK /\ DriftTypes /\ DriftPageHeld /\ ui \in Drift!PageState
    BY DEF DriftOK, DriftTypes
<1>2. PICK p \in pending : Drift!RunsListed(p) \/ Drift!WarningsAnswer(p) \/ Drift!Fail(p)
    BY DEF Drift!Answers
<1>3. CASE Drift!RunsListed(p)
    <2>1. PICK n \in RunsAnswer(p) : p.stage = "list" /\ Goes(p, "warnings", n) /\ UNCHANGED <<server, ui, past>>
        BY <1>3, DriftTerms DEF Drift!RunsListed
    <2>2. n \in 0..MaxRuns
        BY <1>1, <2>1, RunsAnswerIs DEF DriftTypes
    <2>3. PICK stage : stage = "warnings"
        OBVIOUS
    <2>4. PICK r : pending' = (pending \ {p}) \cup {r} /\ IsOf(r, p.op, stage, n, p.arg)
        BY <1>1, <2>1, <2>3, WentIs
    <2>5. PendingOK' /\ ServerOK'
        BY <1>1, <2>1, WentIs, SameServer
    <2>6. DriftTypes' /\ DriftPageHeld'
        BY <1>1, <2>1, <2>2, <2>3, <2>4 DEF DriftTypes, DriftPageHeld, PagesOf, IsOf
    <2>7. Drift!NeverStuck'
        BY <2>4 DEF Drift!NeverStuck
    <2> QED BY <2>5, <2>6, <2>7 DEF DriftOK
<1>4. CASE Drift!WarningsAnswer(p)
    <2>1. PICK lost \in SUBSET (1..p.run) :
              /\ ui' = [ui EXCEPT !.rows = 1..p.run \ lost, !.busy = FALSE, !.loading = FALSE]
              /\ past' = [shrunk |-> past.shrunk \/ PagesOf(1..p.run \ lost) < PagesOf(ui.rows)]
              /\ p.stage = "warnings" /\ Returns(p) /\ UNCHANGED server
        BY <1>4, DriftTerms, DriftBar DEF Drift!WarningsAnswer
    <2>2. PICK rows : rows = 1..p.run \ lost
        OBVIOUS
    <2>3. p.run \in 0..MaxRuns /\ MaxRuns \in Nat
        BY <1>1, <2>1, BoundsAssumption DEF DriftTypes
    <2>4. rows \in SUBSET Run
        BY <2>2, <2>3 DEF Run
    <2>5. /\ ui' \in Drift!PageState /\ ui'.rows = rows /\ ~ui'.busy /\ ~ui'.loading /\ ui'.page = ui.page
        BY <1>1, <2>1, <2>2, <2>4, DriftTerms DEF Drift!PageState
    <2>6. past' = [shrunk |-> past'.shrunk] /\ past'.shrunk = (past.shrunk \/ PagesOf(rows) < PagesOf(ui.rows))
        BY <2>1, <2>2
    <2>7. PagesOf(rows) \in Nat /\ PagesOf(ui.rows) \in Nat /\ ui.page \in Nat
        <3>1. ui.rows \in SUBSET Run /\ ui.page \in Nat
            BY <1>1, DriftTerms DEF Drift!PageState
        <3> QED BY <2>4, <3>1, RunsAreFinite, PagesGrow
    <2>8. DriftPageHeld'
        <3>1. PICK m, n \in Nat : m = PagesOf(rows) /\ n = PagesOf(ui.rows)
            BY <2>7
        <3>2. PagesOf(ui.rows)' = m
            BY <2>5, <3>1 DEF PagesOf
        <3>3. m < n \/ n <= m
            BY <3>1
        <3>4. ~past'.shrunk => ~past.shrunk /\ ~(m < n)
            <4>1. past'.shrunk = (past.shrunk \/ m < n)
                BY <2>6, <3>1
            <4>2. past.shrunk \in BOOLEAN
                BY <1>1 DEF DriftTypes
            <4> QED BY <4>1, <4>2, Zenon
        <3>5. /\ ui.page >= 1 /\ past.shrunk \in BOOLEAN
              /\ (~past.shrunk /\ ui.page > 1 => ui.page <= n)
            BY <1>1, <3>1 DEF DriftPageHeld, DriftTypes
        <3>6. ~past'.shrunk => ~past.shrunk /\ n <= m
            BY <3>3, <3>4
        <3>7. ~past'.shrunk /\ ui.page > 1 => ui.page <= m
            BY <2>7, <3>1, <3>5, <3>6
        <3> QED BY <2>5, <3>2, <3>5, <3>7 DEF DriftPageHeld
    <2>9. PendingOK' /\ ServerOK' /\ pending' = pending \ {p}
        BY <1>1, <2>1, ReturnsIs, SameServer DEF Returns
    <2>10. DriftTypes'
        BY <1>1, <2>5, <2>6, <2>9 DEF DriftTypes
    <2>11. Drift!NeverStuck'
        BY <2>5 DEF Drift!NeverStuck
    <2> QED BY <2>8, <2>9, <2>10, <2>11 DEF DriftOK
<1>5. CASE Drift!Fail(p)
    <2>1. ui' = [ui EXCEPT !.busy = FALSE, !.loading = FALSE] /\ Returns(p) /\ UNCHANGED <<server, past>>
        BY <1>5, DriftTerms DEF Drift!Fail
    <2>2. /\ ui' \in Drift!PageState /\ ui'.rows = ui.rows /\ ~ui'.busy /\ ~ui'.loading /\ ui'.page = ui.page
        BY <1>1, <2>1 DEF Drift!PageState
    <2>3. PendingOK' /\ ServerOK' /\ pending' = pending \ {p}
        BY <1>1, <2>1, ReturnsIs, SameServer DEF Returns
    <2>4. DriftTypes' /\ DriftPageHeld'
        BY <1>1, <2>1, <2>2, <2>3 DEF DriftTypes, DriftPageHeld, PagesOf
    <2>5. Drift!NeverStuck'
        BY <2>2 DEF Drift!NeverStuck
    <2> QED BY <2>3, <2>4, <2>5 DEF DriftOK
<1> QED BY <1>2, <1>3, <1>4, <1>5

LEMMA DriftClicks ==
    ASSUME DriftOK, Drift!refresh \/ Drift!Type \/ Drift!SetPage
    PROVE  DriftOK'
<1>1. PendingOK /\ ServerOK /\ DriftTypes /\ DriftPageHeld /\ ui \in Drift!PageState /\ Drift!NeverStuck
    BY DEF DriftOK, DriftTypes
<1>2. CASE Drift!refresh
    <2>1. Send("load", "list", Nil, Nil) /\ ui' = [ui EXCEPT !.busy = TRUE] /\ UNCHANGED <<server, past>>
        BY <1>2, DriftTerms DEF Drift!refresh
    <2>2. PICK op, stage, run, arg : op = "load" /\ stage = "list" /\ run = Nil /\ arg = Nil
        OBVIOUS
    <2>3. PICK r : pending' = pending \cup {r} /\ IsOf(r, op, stage, run, arg) /\ r.seen = Seen(stage, server)
        BY <1>1, <2>1, <2>2, SentIs
    <2>4. PendingOK' /\ ServerOK' /\ r.seen \in SeenState
        BY <1>1, <2>1, <2>2, <2>3, SentIs, SameServer, SeenIs DEF ServerOK
    <2>5. ui' \in Drift!PageState /\ ui'.rows = ui.rows /\ ui'.page = ui.page
        BY <1>1, <2>1 DEF Drift!PageState
    <2>6. DriftTypes' /\ DriftPageHeld'
        BY <1>1, <2>1, <2>2, <2>3, <2>4, <2>5 DEF DriftTypes, DriftPageHeld, PagesOf, IsOf
    <2>7. Drift!NeverStuck'
        BY <2>3 DEF Drift!NeverStuck
    <2> QED BY <2>4, <2>6, <2>7 DEF DriftOK
<1>3. ASSUME ui' \in Drift!PageState, ui'.busy = ui.busy, ui'.loading = ui.loading,
             past' = [shrunk |-> past'.shrunk], past'.shrunk \in BOOLEAN, UNCHANGED <<server, pending>>, DriftPageHeld'
      PROVE  DriftOK'
    <2>1. PendingOK' /\ ServerOK'
        BY <1>1, <1>3, SameServer DEF PendingOK
    <2>2. DriftTypes' /\ Drift!NeverStuck'
        BY <1>1, <1>3 DEF DriftTypes, Drift!NeverStuck
    <2> QED BY <1>3, <2>1, <2>2 DEF DriftOK
<1>4. CASE Drift!Type
    <2>1. PICK k \in Issue \cup {Nil} : ui' = [ui EXCEPT !.search = k, !.page = 1]
        BY <1>4 DEF Drift!Type
    <2>2. past' = [shrunk |-> FALSE] /\ UNCHANGED <<server, pending>>
        BY <1>4 DEF Drift!Type
    <2>3. ui' \in Drift!PageState /\ ui'.busy = ui.busy /\ ui'.loading = ui.loading /\ ui'.page = 1
        BY <1>1, <2>1 DEF Drift!PageState
    <2>4. DriftPageHeld'
        BY <2>3 DEF DriftPageHeld
    <2> QED BY <1>3, <2>2, <2>3, <2>4
<1>5. CASE Drift!SetPage
    <2>1. PICK i \in Bar!Clicks(ui.page, PagesOf(ui.rows)) :
              /\ ui' = [ui EXCEPT !.page = i]
              /\ past' = [shrunk |-> past.shrunk /\ i > PagesOf(ui.rows)]
        BY <1>5, DriftBar DEF Drift!SetPage
    <2>2. ui.rows \in SUBSET Run /\ ui.page \in Nat
        BY <1>1, DriftTerms DEF Drift!PageState
    <2>3. PICK n \in Nat : n = PagesOf(ui.rows)
        BY <2>2, RunsAreFinite, PagesGrow
    <2>4. i \in Nat \ {0} /\ (i <= n \/ i < ui.page)
        BY <2>1, <2>2, <2>3, ClicksAre
    <2>5. ui' \in Drift!PageState /\ ui'.busy = ui.busy /\ ui'.loading = ui.loading /\ ui'.page = i /\ ui'.rows = ui.rows
        BY <1>1, <2>1, <2>4 DEF Drift!PageState
    <2>6. past' = [shrunk |-> past'.shrunk] /\ past'.shrunk = (past.shrunk /\ i > n) /\ past'.shrunk \in BOOLEAN
        BY <2>1, <2>3
    <2>7. PagesOf(ui.rows)' = n
        BY <2>3, <2>5 DEF PagesOf
    <2>8. DriftPageHeld'
        BY <1>1, <2>2, <2>3, <2>4, <2>5, <2>6, <2>7 DEF DriftPageHeld, DriftTypes
    <2>9. UNCHANGED <<server, pending>>
        BY <1>5 DEF Drift!SetPage
    <2> QED BY <1>3, <2>5, <2>6, <2>8, <2>9
<1> QED BY <1>2, <1>4, <1>5

LEMMA DriftStep == DriftInv /\ [Next]_consolevars => DriftInv'
<1> SUFFICES ASSUME DriftInv, [Next]_consolevars, view = "drift" PROVE DriftOK'
    BY DEF DriftInv, Next, consolevars
<1>1. DriftOK /\ (Drift!Next \/ RunElsewhere \/ UNCHANGED <<server, pending, ui, past>>)
    BY DEF DriftInv, Next, consolevars, clientvars
<1>2. CASE RunElsewhere \/ UNCHANGED <<server, pending, ui, past>>
    <2>1. UNCHANGED <<pending, ui, past>> /\ ServerOK'
        BY <1>1, <1>2, RecordRunIs, SameServer DEF RunElsewhere, DriftOK
    <2> QED BY <1>1, <2>1 DEF DriftOK, PendingOK, DriftTypes, DriftPageHeld, PagesOf, Drift!NeverStuck
<1> QED BY <1>1, <1>2, DriftClicks, DriftAnswered DEF Drift!Next

LEMMA DriftShows ==
    ASSUME DriftOK
    PROVE  Drift!EmptyOnlyBySearch
<1> SUFFICES ASSUME ui.rows # {}, ui.search = Nil, ~past.shrunk PROVE Drift!Visible # {}
    BY DEF Drift!EmptyOnlyBySearch
<1>1. PICK F, page : F = ui.rows /\ page = ui.page
    OBVIOUS
<1>2. ui.rows \in SUBSET Run /\ ui.page \in Nat
    BY DriftTerms DEF DriftOK, DriftTypes, Drift!PageState
<1>3. IsFiniteSet(F) /\ F \subseteq Nat /\ F # {}
    BY <1>1, <1>2, RunsAreFinite
<1>4. page \in Nat \ {0} /\ (page > 1 => page <= PagesOf(F))
    BY <1>1, <1>2 DEF DriftOK, DriftPageHeld
<1>5. PICK r \in F : Cardinality({q \in F : q > r}) \div PageSize = page - 1
    BY <1>3, <1>4, NoPageIsEmpty
<1>6. Drift!Filtered = F
    BY <1>1 DEF Drift!Filtered
<1> QED BY <1>1, <1>5, <1>6, DriftBar DEF Drift!Visible
-----------------------------------------------------------------------------
(* The bar of page numbers is well formed, of however many pages and with   *)
(* whatever page open.  Of more than five pages it is the first one, a gap  *)
(* or none, the pages from start to end, a gap or none, and the last one.   *)
LEMMA ShortBar ==
    ASSUME NEW page \in Nat \ {0}, NEW total \in 2..5
    PROVE  Bar!WellFormed(Bar!getPages(page, total), page, total)
<1>1. PICK bar : bar = [k \in 1..total |-> k]
    OBVIOUS
<1>2. Bar!getPages(page, total) = bar
    <2>1. total <= 5 /\ total - 1 + 1 = total
        OBVIOUS
    <2>2. Bar!getPages(page, total) = Bar!Window(1, total)
        BY <2>1, Zenon DEF Bar!getPages
    <2>3. Bar!Window(1, total) = bar
        BY <1>1 DEF Bar!Window
    <2> QED BY <2>2, <2>3
<1>3. Len(bar) = total /\ \A k \in 1..total : bar[k] = k
    BY <1>1
<1>4. bar[1] = 1 /\ bar[Len(bar)] = total
    BY <1>3
<1>5. ASSUME NEW i \in 1..(Len(bar) - 1) PROVE bar[i + 1] # Bar!Gap /\ bar[i + 1] = bar[i] + 1
    BY <1>3, <1>5 DEF Bar!Gap
<1>6. 1..total \subseteq Bar!Numbers(bar)
    BY <1>3 DEF Bar!Numbers, Bar!Gap
<1> QED BY <1>2, <1>4, <1>5, <1>6 DEF Bar!WellFormed

IsJoined(joined, s, m, t, n) ==
    /\ joined \in Seq(Nat) /\ Len(joined) = m + n
    /\ \A k \in 1..m : joined[k] = s[k]
    /\ \A k \in 1..n : joined[m + k] = t[k]

LEMMA Joined ==
    ASSUME NEW s \in Seq(Nat), NEW t \in Seq(Nat), NEW m, Len(s) = m, NEW n, Len(t) = n, NEW joined, joined = s \o t
    PROVE  IsJoined(joined, s, m, t, n)
<1>1. /\ joined \in Seq(Nat) /\ Len(joined) = m + n
      /\ \A k \in 1..(m + n) : joined[k] = IF k <= m THEN s[k] ELSE t[k - m]
    BY ConcatProperties, Zenon
<1>2. m \in Nat /\ n \in Nat
    BY LenProperties
<1>3. ASSUME NEW k \in 1..m PROVE joined[k] = s[k]
    <2>1. k \in 1..(m + n) /\ k <= m
        BY <1>2
    <2> QED BY <1>1, <2>1, Zenon
<1>4. ASSUME NEW k \in 1..n PROVE joined[m + k] = t[k]
    <2>1. m + k \in 1..(m + n) /\ ~(m + k <= m) /\ (m + k) - m = k
        BY <1>2
    <2>2. joined[m + k] = IF m + k <= m THEN s[m + k] ELSE t[(m + k) - m]
        BY <1>1, <2>1, Zenon
    <2> QED BY <2>1, <2>2, Zenon
<1> QED BY <1>1, <1>3, <1>4 DEF IsJoined

LEMMA GapIs ==
    ASSUME NEW s \in {<<>>, << 0 >>}
    PROVE  s \in Seq(Nat) /\ Len(s) \in {0, 1} /\ (Len(s) = 1 => s[1] = 0)
<1>1. CASE s = <<>>
    BY <1>1
<1>2. CASE s = << 0 >>
    BY <1>2
<1> QED BY <1>1, <1>2

IsLongBar(bar, total, start, a, w, b) ==
    /\ Len(bar) = a + w + b + 2
    /\ bar[1] = 1 /\ (a = 1 => bar[2] = 0)
    /\ \A k \in 1..w : bar[1 + a + k] = start + k - 1
    /\ (b = 1 => bar[2 + a + w] = 0) /\ bar[a + w + b + 2] = total

LEMMA LongBarIs ==
    ASSUME NEW total \in Nat, NEW start \in 2..total, NEW end \in start..total,
           NEW left \in {<<>>, << 0 >>}, NEW right \in {<<>>, << 0 >>},
           NEW a, a = Len(left), NEW b, b = Len(right), NEW w, w = end - start + 1
    PROVE  IsLongBar(<<1>> \o left \o Bar!Window(start, end) \o right \o <<total>>, total, start, a, w, b)
<1>1. w \in Nat /\ w > 0
    OBVIOUS
<1>2. PICK mid : mid = Bar!Window(start, end)
    OBVIOUS
<1>3. mid \in Seq(Nat) /\ Len(mid) = w /\ \A k \in 1..w : mid[k] = start + k - 1
    <2>1. mid = [k \in 1..w |-> start + k - 1] /\ \A k \in 1..w : start + k - 1 \in Nat
        BY <1>2 DEF Bar!Window
    <2> QED BY <1>1, <2>1
<1>4. /\ left \in Seq(Nat) /\ Len(left) = a /\ a \in {0, 1} /\ (a = 1 => left[1] = 0)
      /\ right \in Seq(Nat) /\ Len(right) = b /\ b \in {0, 1} /\ (b = 1 => right[1] = 0)
    BY GapIs, Zenon
<1>5. PICK one, last : one = <<1>> /\ last = <<total>>
    OBVIOUS
<1>6. one \in Seq(Nat) /\ Len(one) = 1 /\ one[1] = 1 /\ last \in Seq(Nat) /\ Len(last) = 1 /\ last[1] = total
    BY <1>5
<1>7. PICK c, d, e : c = 1 + a /\ d = c + w /\ e = d + b
    OBVIOUS
<1>8. PICK x : x = one \o left
    OBVIOUS
<1>9. /\ x \in Seq(Nat) /\ Len(x) = c
      /\ \A k \in 1..1 : x[k] = one[k]
      /\ \A k \in 1..a : x[1 + k] = left[k]
    <2>1. IsJoined(x, one, 1, left, a)
        BY <1>4, <1>6, <1>8, Joined, Zenon
    <2> QED BY <1>7, <2>1 DEF IsJoined
<1>10. PICK y : y = x \o mid
    OBVIOUS
<1>11. /\ y \in Seq(Nat) /\ Len(y) = d /\ \A k \in 1..c : y[k] = x[k]
       /\ \A k \in 1..w : y[c + k] = mid[k]
    <2>1. IsJoined(y, x, c, mid, w)
        BY <1>3, <1>9, <1>10, Joined, Zenon
    <2> QED BY <1>7, <2>1 DEF IsJoined
<1>12. PICK z : z = y \o right
    OBVIOUS
<1>13. /\ z \in Seq(Nat) /\ Len(z) = e /\ \A k \in 1..d : z[k] = y[k]
       /\ \A k \in 1..b : z[d + k] = right[k]
    <2>1. IsJoined(z, y, d, right, b)
        BY <1>4, <1>11, <1>12, Joined, Zenon
    <2> QED BY <1>7, <2>1 DEF IsJoined
<1>14. PICK bar : bar = z \o last
    OBVIOUS
<1>15. /\ Len(bar) = e + 1 /\ \A k \in 1..e : bar[k] = z[k]
       /\ \A k \in 1..1 : bar[e + k] = last[k]
    <2>1. IsJoined(bar, z, e, last, 1)
        BY <1>6, <1>13, <1>14, Joined, Zenon
    <2> QED BY <1>7, <2>1 DEF IsJoined
<1>16. bar = <<1>> \o left \o Bar!Window(start, end) \o right \o <<total>>
    BY <1>2, <1>5, <1>8, <1>10, <1>12, <1>14, Zenon
<1>17. a \in {0, 1} /\ b \in {0, 1} /\ c \in Nat /\ d \in Nat /\ e \in Nat
    BY <1>1, <1>4, <1>7
<1>18. bar[1] = 1
    <2>1. 1 \in 1..1 /\ 1 \in 1..c /\ 1 \in 1..d /\ 1 \in 1..e
        BY <1>1, <1>7, <1>17
    <2>2. bar[1] = z[1] /\ z[1] = y[1]
        BY <1>13, <1>15, <2>1, Zenon
    <2>3. y[1] = x[1] /\ x[1] = one[1]
        BY <1>9, <1>11, <2>1, Zenon
    <2> QED BY <1>6, <2>2, <2>3
<1>19. ASSUME a = 1 PROVE bar[2] = 0
    <2>1. 1 \in 1..a /\ 2 = 1 + 1 /\ 2 \in 1..c /\ 2 \in 1..d /\ 2 \in 1..e
        BY <1>1, <1>7, <1>17, <1>19
    <2>2. x[2] = 0
        BY <1>4, <1>9, <1>19, <2>1, Zenon
    <2> QED BY <1>11, <1>13, <1>15, <2>1, <2>2, Zenon
<1>20. ASSUME NEW k \in 1..w PROVE bar[1 + a + k] = start + k - 1
    <2>1. PICK i : i = c + k
        OBVIOUS
    <2>2. i \in 1..d /\ i \in 1..e /\ i = 1 + a + k
        BY <1>1, <1>7, <1>17, <2>1
    <2>3. bar[i] = z[i] /\ z[i] = y[i]
        BY <1>13, <1>15, <2>2, Zenon
    <2>4. y[i] = mid[k] /\ mid[k] = start + k - 1
        BY <1>3, <1>11, <2>1, Zenon
    <2> QED BY <2>2, <2>3, <2>4, Zenon
<1>21. ASSUME b = 1 PROVE bar[2 + a + w] = 0
    <2>1. PICK n : n = d + 1
        OBVIOUS
    <2>2. 1 \in 1..b /\ n = 2 + a + w /\ n \in 1..e
        BY <1>1, <1>7, <1>17, <1>21, <2>1
    <2>3. z[n] = 0
        BY <1>4, <1>13, <1>21, <2>1, <2>2, Zenon
    <2> QED BY <1>15, <2>2, <2>3, Zenon
<1>22. bar[a + w + b + 2] = total
    <2>1. 1 \in 1..1 /\ a + w + b + 2 = e + 1
        BY <1>1, <1>7, <1>17
    <2> QED BY <1>6, <1>15, <2>1, Zenon
<1>23. Len(bar) = a + w + b + 2
    BY <1>1, <1>7, <1>15, <1>17
<1>24. IsLongBar(bar, total, start, a, w, b)
    BY <1>18, <1>19, <1>20, <1>21, <1>22, <1>23, Zenon DEF IsLongBar
<1> QED BY <1>16, <1>24, Zenon

LEMMA LongBar ==
    ASSUME NEW page \in Nat \ {0}, NEW total \in Nat, total > 5
    PROVE  Bar!WellFormed(Bar!getPages(page, total), page, total)
<1>1. PICK start, end : start = Bar!Start(page, total) /\ end = Bar!End(page, total)
    OBVIOUS
<1>2. /\ start \in 2..(total - 1) /\ end \in start..(total - 1)
      /\ {page - 1, page, page + 1} \cap (1..total) \subseteq {1, total} \cup (start..end)
    BY <1>1 DEF Bar!Start, Bar!End, Bar!Larger, Bar!Smaller
<1>3. PICK left, right : /\ left = (IF start > 2 THEN << 0 >> ELSE <<>>)
                         /\ right = (IF end < total - 1 THEN << 0 >> ELSE <<>>)
    OBVIOUS
<1>4. Bar!getPages(page, total) = <<1>> \o left \o Bar!Window(start, end) \o right \o <<total>>
    <2>1. ~(total <= 5)
        OBVIOUS
    <2> QED BY <1>1, <1>3, <2>1, Zenon DEF Bar!getPages, Bar!Gap
<1>5. PICK bar : bar = Bar!getPages(page, total)
    OBVIOUS
<1>6. PICK a, b, w : a = Len(left) /\ b = Len(right) /\ w = end - start + 1
    OBVIOUS
<1>7. /\ left \in {<<>>, << 0 >>} /\ right \in {<<>>, << 0 >>} /\ w \in Nat \ {0}
      /\ (start > 2 /\ a = 1) \/ (start = 2 /\ a = 0)
      /\ (end < total - 1 /\ b = 1) \/ (end = total - 1 /\ b = 0)
    BY <1>2, <1>3, <1>6
<1>8. /\ Len(bar) = a + w + b + 2
      /\ bar[1] = 1 /\ (a = 1 => bar[2] = 0)
      /\ \A k \in 1..w : bar[1 + a + k] = start + k - 1
      /\ (b = 1 => bar[2 + a + w] = 0) /\ bar[a + w + b + 2] = total
    <2>1. start \in 2..total /\ end \in start..total
        BY <1>2
    <2>2. total \in Nat /\ left \in {<<>>, << 0 >>} /\ right \in {<<>>, << 0 >>}
        BY <1>7
    <2>3. bar = <<1>> \o left \o Bar!Window(start, end) \o right \o <<total>>
        BY <1>4, <1>5
    <2>4. IsLongBar(<<1>> \o left \o Bar!Window(start, end) \o right \o <<total>>, total, start, a, w, b)
        BY <1>6, <2>1, <2>2, LongBarIs, Zenon
    <2>5. IsLongBar(bar, total, start, a, w, b)
        BY <2>3, <2>4, Zenon
    <2> QED BY <2>5 DEF IsLongBar
<1>9. bar[2 + a] = start /\ bar[1 + a + w] = end
    <2>1. 1 \in 1..w /\ w \in 1..w
        BY <1>7
    <2>2. bar[1 + a + 1] = start + 1 - 1 /\ bar[1 + a + w] = start + w - 1
        BY <1>8, <2>1
    <2>3. 1 + a + 1 = 2 + a /\ start + 1 - 1 = start /\ start + w - 1 = end
        BY <1>2, <1>6, <1>7
    <2> QED BY <2>2, <2>3
<1>10. bar[Len(bar)] = total
    BY <1>8
<1>11. ASSUME NEW i \in 1..(Len(bar) - 1)
       PROVE  IF bar[i + 1] = 0 THEN bar[i] # 0 /\ bar[i + 2] > bar[i] + 1
              ELSE bar[i] = 0 \/ bar[i + 1] = bar[i] + 1
    <2>1. a \in {0, 1} /\ b \in {0, 1} /\ i \in 1..(a + w + b + 1)
        BY <1>7, <1>8, <1>11
    <2>2. CASE i = 1 /\ a = 0
        BY <1>2, <1>7, <1>8, <1>9, <2>2
    <2>3. CASE i = 1 /\ a = 1
        <3>1. bar[i] = 1 /\ bar[i + 1] = 0 /\ bar[i + 2] = start /\ start > 2
            BY <1>7, <1>8, <1>9, <2>3
        <3> QED BY <1>2, <3>1
    <2>4. CASE i = 2 /\ a = 1
        BY <1>2, <1>7, <1>8, <1>9, <2>4
    <2>5. CASE i \in (2 + a)..(a + w)
        <3>1. PICK k \in 1..w : k = i - a - 1 /\ k + 1 \in 1..w /\ i = 1 + a + k /\ i + 1 = 1 + a + (k + 1)
            BY <1>7, <2>1, <2>5
        <3>2. bar[i] = start + k - 1 /\ bar[i + 1] = start + k
            <4>1. bar[1 + a + k] = start + k - 1 /\ bar[1 + a + (k + 1)] = start + (k + 1) - 1
                BY <1>8, <3>1
            <4>2. start + (k + 1) - 1 = start + k
                BY <1>2, <1>7
            <4> QED BY <3>1, <4>1, <4>2
        <3>3. start \in Nat /\ k \in Nat /\ k > 0
            BY <1>2, <1>7
        <3> QED BY <3>2, <3>3
    <2>6. CASE i = 1 + a + w /\ b = 0
        <3>1. bar[i] = end /\ bar[i + 1] = total /\ end = total - 1
            <4>1. i + 1 = a + w + b + 2
                BY <1>7, <2>1, <2>6
            <4> QED BY <1>7, <1>8, <1>9, <2>6, <4>1
        <3> QED BY <1>2, <3>1
    <2>7. CASE i = 1 + a + w /\ b = 1
        <3>1. bar[i] = end /\ bar[i + 1] = 0 /\ bar[i + 2] = total /\ end < total - 1
            <4>1. i + 1 = 2 + a + w /\ i + 2 = a + w + b + 2 /\ end < total - 1
                BY <1>2, <1>7, <2>1, <2>7
            <4> QED BY <1>8, <1>9, <2>7, <4>1
        <3> QED BY <1>2, <3>1
    <2>8. CASE i = 2 + a + w /\ b = 1
        <3>1. bar[i] = 0 /\ bar[i + 1] = total
            <4>1. i + 1 = a + w + b + 2
                BY <1>7, <2>1, <2>8
            <4> QED BY <1>8, <2>8, <4>1
        <3> QED BY <1>2, <3>1
    <2>9. \/ i = 1 \/ (i = 2 /\ a = 1) \/ i \in (2 + a)..(a + w) \/ i = 1 + a + w \/ (i = 2 + a + w /\ b = 1)
        BY <1>7, <2>1
    <2> QED BY <2>1, <2>2, <2>3, <2>4, <2>5, <2>6, <2>7, <2>8, <2>9
<1>12. {1, total} \cup (start..end) \subseteq Bar!Numbers(bar)
    <2>1. ASSUME NEW n \in {1, total} \cup (start..end) PROVE \E i \in 1..Len(bar) : bar[i] = n
        <3>1. CASE n = 1
            BY <1>7, <1>8, <3>1
        <3>2. CASE n = total
            <4>1. Len(bar) \in 1..Len(bar)
                BY <1>7, <1>8
            <4> QED BY <1>10, <3>2, <4>1
        <3>3. CASE n \in start..end
            <4>1. PICK k \in 1..w : k = n - start + 1 /\ 1 + a + k \in 1..Len(bar)
                BY <1>2, <1>6, <1>7, <1>8, <3>3
            <4>2. bar[1 + a + k] = n
                BY <1>2, <1>8, <3>3, <4>1
            <4> QED BY <4>1, <4>2
        <3> QED BY <2>1, <3>1, <3>2, <3>3
    <2>2. 0 \notin {1, total} \cup (start..end)
        BY <1>2
    <2> QED BY <2>1, <2>2 DEF Bar!Numbers, Bar!Gap
<1> QED BY <1>2, <1>5, <1>8, <1>10, <1>11, <1>12 DEF Bar!WellFormed, Bar!Gap

BarInv == view = "bar" => ui \in [page : 1..MaxPages, total : 0..MaxPages]

LEMMA BarHolds == (Init => BarInv) /\ (BarInv /\ [Next]_consolevars => BarInv')
<1>1. ASSUME Init, view = "bar" PROVE BarInv
    BY <1>1, ConsoleAssumption DEF Init, BarMount, BarInv
<1>2. ASSUME BarInv, [Next]_consolevars, view = "bar" PROVE BarInv'
    <2>1. ui \in [page : 1..MaxPages, total : 0..MaxPages] /\ (BarClick \/ NewList \/ UNCHANGED ui)
        BY <1>2 DEF BarInv, BarNext, Next, consolevars, clientvars
    <2>2. CASE BarClick
        <3>1. PICK page, total : page = ui.page /\ total = ui.total
            OBVIOUS
        <3>2. page \in 1..MaxPages /\ total \in 0..MaxPages /\ MaxPages \in Nat
            BY <2>1, <3>1, ConsoleAssumption
        <3>3. PICK i \in Bar!Clicks(page, total) : ui' = [ui EXCEPT !.page = i]
            BY <2>2, <3>1 DEF BarClick
        <3>4. i \in Nat \ {0} /\ (i <= total \/ i < page)
            BY <3>2, <3>3, ClicksAre
        <3>5. i \in 1..MaxPages
            BY <3>2, <3>4
        <3> QED BY <2>1, <3>3, <3>5 DEF BarInv
    <2>3. CASE NewList
        BY <2>1, <2>3 DEF NewList, BarInv
    <2> QED BY <2>1, <2>2, <2>3 DEF BarInv
<1> QED BY <1>1, <1>2 DEF BarInv, Next, consolevars

(* Of the list of runs and of the drift warnings every page that is open    *)
(* shows something, unless a search was typed or the list shrank; and the   *)
(* bar of page numbers, of any number of pages, is the one a reader         *)
(* expects.                                                                 *)
THEOREM PagesHoldTheListCorrect == Spec => []PagesHoldTheList
<1>1. TracesInv /\ DriftInv /\ BarInv => PagesHoldTheList
    <2> SUFFICES ASSUME TracesInv, DriftInv, BarInv PROVE PagesHoldTheList
        OBVIOUS
    <2>1. view = "traces" => Traces!EmptyOnlyBySearch
        BY TracesShow DEF TracesInv
    <2>2. view = "drift" => Drift!EmptyOnlyBySearch
        BY DriftShows DEF DriftInv
    <2>3. ASSUME view = "bar", ui.total > 1 PROVE Bar!WellFormed(Bar!getPages(ui.page, ui.total), ui.page, ui.total)
        <3>1. PICK page, total : page = ui.page /\ total = ui.total
            OBVIOUS
        <3>2. page \in Nat \ {0} /\ total \in Nat /\ (total \in 2..5 \/ total > 5)
            BY <2>3, <3>1, ConsoleAssumption DEF BarInv
        <3> QED BY <3>1, <3>2, ShortBar, LongBar
    <2> QED BY <2>1, <2>2, <2>3 DEF PagesHoldTheList
<1> QED BY <1>1, TracesMounts, TracesStep, DriftMounts, DriftStep, BarHolds, PTL DEF Spec
-----------------------------------------------------------------------------
(* The saved tests.  Unless loads crossed, at most one list is awaited, it  *)
(* was asked for after the run whose result is shown, and it is awaited or  *)
(* was shown unless it failed.                                              *)
CountersDue ==
    ~past.crossed =>
        /\ \A p, q \in pending : p.stage = "list" /\ q.stage = "list" => p = q
        /\ \A p \in pending : p.stage = "list" /\ ui.result # Nil => p.seen.ran >= ui.result
        /\ \/ past.failed \/ ui.result = Nil \/ ui.ran >= ui.result
           \/ \E p \in pending : p.stage = "list"

TestsTypes ==
    /\ ui \in Tests!PageState
    /\ ui.result # Nil => ui.result <= server.ran
    /\ past = [crossed |-> past.crossed, failed |-> past.failed]
    /\ past.crossed \in BOOLEAN /\ past.failed \in BOOLEAN
    /\ \A p \in pending : p.stage = "list" => p.seen \in SeenState

TestsSpinners ==
    /\ ui.busy # Nil => pending # {}
    /\ ui.busy \notin {Nil, "load"} => \E p \in pending : p.op = ui.busy
    /\ ui.loading => \E p \in pending : p.stage = "list"

TestsOK == PendingOK /\ ServerOK /\ TestsTypes /\ CountersDue /\ TestsSpinners

TestsInv == view = "tests" => TestsOK

LEMMA TestsTerms ==
    /\ Tests!Run = Run
    /\ \A op, stage, run, arg : Tests!NewRequest(op, stage, run, arg) = NewRequest(op, stage, run, arg)
    /\ \A op, stage, run, arg : Tests!Send(op, stage, run, arg) <=> Send(op, stage, run, arg)
    /\ \A p, stage, run : Tests!Goes(p, stage, run) <=> Goes(p, stage, run)
    /\ \A p : Tests!Returns(p) <=> Returns(p)
    /\ \A op : Tests!Waiting(op) = Waiting(op)
    /\ \A u, op : Tests!SetBusy(u, op) = SetBusy(u, op)
    /\ Tests!RunTests <=> RunTests
    /\ \A p : Tests!TestsAnswer(p) = TestsAnswer(p)
    /\ \A p : Tests!RanAnswer(p) = RanAnswer(p)
<1>1. Tests!Run = Run
    BY DEF Tests!Run, Run
<1>2. \A op, stage, run, arg : Tests!NewRequest(op, stage, run, arg) = NewRequest(op, stage, run, arg)
    BY DEF Tests!NewRequest, NewRequest, Tests!Seen, Seen
<1>3. \A op, stage, run, arg : Tests!Send(op, stage, run, arg) <=> Send(op, stage, run, arg)
    BY DEF Tests!Send, Send, Tests!With, With, Tests!NewRequest, NewRequest, Tests!Seen, Seen, Tests!Cardinality, Cardinality, Tests!IsFiniteSet, IsFiniteSet
<1>4. \A p, stage, run : Tests!Goes(p, stage, run) <=> Goes(p, stage, run)
    BY DEF Tests!Goes, Goes, Tests!With, With, Tests!Seen, Seen
<1>5. \A p : Tests!Returns(p) <=> Returns(p)
    BY DEF Tests!Returns, Returns
<1>6. \A op : Tests!Waiting(op) = Waiting(op)
    BY DEF Tests!Waiting, Waiting
<1>7. \A u, op : Tests!SetBusy(u, op) = SetBusy(u, op)
    BY DEF Tests!SetBusy, SetBusy
<1>8. Tests!RunTests <=> RunTests
    BY DEF Tests!RunTests, RunTests
<1>9. \A p : Tests!TestsAnswer(p) = TestsAnswer(p)
    BY DEF Tests!TestsAnswer, TestsAnswer
<1>10. \A p : Tests!RanAnswer(p) = RanAnswer(p)
    BY DEF Tests!RanAnswer, RanAnswer
<1> QED BY <1>1, <1>2, <1>3, <1>4, <1>5, <1>6, <1>7, <1>8, <1>9, <1>10

LEMMA RanAnswerIs ==
    ASSUME ServerOK, NEW p, p.seen \in SeenState, NEW n \in RanAnswer(p)
    PROVE  n \in 0..MaxRuns /\ n >= p.seen.ran
<1>1. server.ran \in 0..MaxRuns /\ p.seen.ran \in 0..MaxRuns /\ MaxRuns \in Nat
    BY ServerIs, BoundsAssumption DEF ServerOK, SeenState
<1> QED BY <1>1 DEF RanAnswer

LEMMA TestElsewhereIs ==
    ASSUME ServerOK, TestElsewhere
    PROVE  ServerOK' /\ server'.ran = server.ran /\ server'.runs = server.runs
<1>1. PICK n : n = 0
    OBVIOUS
<1>2. server' = [server EXCEPT !.tests = Append(@, n)] /\ Len(server.tests) < MaxTests /\ n \in Nat
    BY <1>1 DEF TestElsewhere
<1>3. ServerOK' /\ server'.runs = server.runs
    BY <1>2, TestAdded
<1>4. server'.ran = server.ran
    BY <1>2 DEF ServerOK, ServerState
<1> QED BY <1>3, <1>4

LEMMA TestsMounts == Init => TestsInv
<1> SUFFICES ASSUME Init, view = "tests" PROVE TestsOK
    BY DEF TestsInv
<1>1. /\ Holding(MaxRuns) /\ ui = Tests!Blank /\ past = [crossed |-> FALSE, failed |-> FALSE]
      /\ pending = {NewRequest("load", "list", Nil, Nil)}
    BY TestsTerms DEF Init, Tests!Mount
<1>2. MaxRuns \in 0..MaxRuns
    BY BoundsAssumption
<1>3. ServerOK
    BY <1>1, <1>2, HoldingIs
<1>4. PendingOK /\ \A p \in pending : IsOf(p, "load", "list", Nil, Nil) /\ p.seen = Seen("list", server)
    BY <1>1, MountedIs
<1>5. Seen("list", server) \in SeenState
    BY <1>3, SeenIs DEF ServerOK
<1>6. PICK r : pending = {r}
    BY <1>1
<1>7. ui \in Tests!PageState /\ ui.result = Nil /\ ui.busy = "load"
    BY <1>1, BoundsAssumption DEF Tests!Blank, Tests!PageState
<1>8. TestsTypes
    BY <1>1, <1>4, <1>5, <1>7 DEF TestsTypes
<1>9. CountersDue
    BY <1>6, <1>7 DEF CountersDue
<1>10. TestsSpinners
    BY <1>4, <1>6, <1>7 DEF TestsSpinners, IsOf
<1> QED BY <1>3, <1>4, <1>8, <1>9, <1>10 DEF TestsOK

(* A list is asked for, by the button or after a run of the tests, whose    *)
(* result is then the last one.                                             *)
LEMMA ListAsked ==
    ASSUME TestsOK, NEW others, others \subseteq pending, NEW r, pending' = others \cup {r},
           r.stage = "list", r.seen = Seen("list", server'), PendingOK', ServerOK',
           ui' \in Tests!PageState, ui'.busy = "load", ui'.result # Nil => ui'.result <= server'.ran,
           past' = [crossed |-> \E p \in others : p.stage = "list", failed |-> past.failed]
    PROVE  TestsOK'
<1>1. TestsTypes /\ server' \in ServerState
    BY DEF TestsOK, ServerOK
<1>2. r.seen \in SeenState /\ r.seen.ran = server'.ran
    BY <1>1, SeenIs
<1>3. past'.crossed = (\E p \in others : p.stage = "list") /\ past'.failed = past.failed
    OBVIOUS
<1>4. PICK crossed, failed \in BOOLEAN : past' = [crossed |-> crossed, failed |-> failed]
    BY <1>1 DEF TestsTypes
<1>5. TestsTypes'
    BY <1>1, <1>2, <1>4 DEF TestsTypes
<1>6. CountersDue'
    BY <1>2, <1>3 DEF CountersDue
<1>7. TestsSpinners'
    BY DEF TestsSpinners
<1> QED BY <1>5, <1>6, <1>7 DEF TestsOK

(* A run of the tests is asked for.                                         *)
LEMMA RunAsked ==
    ASSUME TestsOK, NEW op, Send(op, "post", Nil, Nil), UNCHANGED <<server, past>>, ui' = SetBusy(ui, op),
           op = "run" \/ \E i \in 1..MaxTests : op = TestId[i]
    PROVE  TestsOK'
<1>1. PendingOK /\ ServerOK /\ TestsTypes /\ CountersDue /\ TestsSpinners /\ ui \in Tests!PageState
    BY DEF TestsOK, TestsTypes
<1>2. PICK stage, run, arg : stage = "post" /\ run = Nil /\ arg = Nil
    OBVIOUS
<1>3. PICK r : pending' = pending \cup {r} /\ IsOf(r, op, stage, run, arg)
    BY <1>1, <1>2, SentIs
<1>4. PendingOK' /\ ServerOK'
    BY <1>1, <1>2, SentIs, SameServer
<1>5. /\ ui' \in Tests!PageState /\ ui'.busy = op
      /\ ui'.ran = ui.ran /\ ui'.result = ui.result /\ ui'.loading = ui.loading
    BY <1>1 DEF SetBusy, Tests!PageState
<1>6. TestsTypes'
    BY <1>1, <1>2, <1>3, <1>5 DEF TestsTypes, IsOf
<1>7. CountersDue'
    BY <1>1, <1>2, <1>3, <1>5 DEF CountersDue, IsOf
<1>8. TestsSpinners'
    BY <1>1, <1>3, <1>5 DEF TestsSpinners, IsOf
<1> QED BY <1>4, <1>6, <1>7, <1>8 DEF TestsOK

LEMMA TestsClicks ==
    ASSUME TestsOK, Tests!load \/ Tests!runAll \/ Tests!runTest
    PROVE  TestsOK'
<1>1. PendingOK /\ ServerOK /\ TestsTypes /\ ui \in Tests!PageState
    BY DEF TestsOK, TestsTypes
<1>2. CASE Tests!load
    <2>1. /\ Send("load", "list", Nil, Nil) /\ ui' = SetBusy(ui, "load") /\ UNCHANGED server
          /\ past' = [crossed |-> \E p \in pending : p.stage = "list", failed |-> past.failed]
        BY <1>2, TestsTerms DEF Tests!load, Tests!Loading
    <2>2. PICK op, stage, run, arg : op = "load" /\ stage = "list" /\ run = Nil /\ arg = Nil
        OBVIOUS
    <2>3. PICK r : pending' = pending \cup {r} /\ IsOf(r, op, stage, run, arg) /\ r.seen = Seen(stage, server)
        BY <1>1, <2>1, <2>2, SentIs
    <2>4. PendingOK' /\ ServerOK' /\ r.stage = "list" /\ r.seen = Seen("list", server')
        BY <1>1, <2>1, <2>2, <2>3, SentIs, SameServer DEF IsOf
    <2>5. ui' \in Tests!PageState /\ ui'.busy = "load" /\ ui'.result = ui.result
        BY <1>1, <2>1 DEF SetBusy, Tests!PageState
    <2>6. ui'.result # Nil => ui'.result <= server'.ran
        BY <1>1, <2>1, <2>5 DEF TestsTypes
    <2> QED BY <2>1, <2>3, <2>4, <2>5, <2>6, ListAsked
<1>3. CASE Tests!runAll
    <2>1. Send("run", "post", Nil, Nil) /\ ui' = SetBusy(ui, "run") /\ UNCHANGED <<server, past>>
        BY <1>3, TestsTerms DEF Tests!runAll
    <2> QED BY <2>1, RunAsked
<1>4. CASE Tests!runTest
    <2>1. PICK i \in 1..ui.tests : /\ Send(TestId[i], "post", Nil, Nil) /\ ui' = SetBusy(ui, TestId[i])
                                   /\ UNCHANGED <<server, past>>
        BY <1>4, TestsTerms DEF Tests!runTest
    <2>2. i \in 1..MaxTests
        BY <1>1, <2>1, BoundsAssumption DEF Tests!PageState
    <2>3. PICK op : op = TestId[i]
        OBVIOUS
    <2> QED BY <2>1, <2>2, <2>3, RunAsked
<1> QED BY <1>2, <1>3, <1>4

LEMMA TestsAnswered ==
    ASSUME TestsOK, Tests!Answers
    PROVE  TestsOK'
<1>1. PendingOK /\ ServerOK /\ TestsTypes /\ CountersDue /\ TestsSpinners /\ ui \in Tests!PageState
    BY DEF TestsOK, TestsTypes
<1>2. PICK p \in pending : Tests!ListAnswer(p) \/ Tests!RunAnswer(p) \/ Tests!Fail(p)
    BY DEF Tests!Answers
<1>3. CASE Tests!ListAnswer(p)
    <2>1. PICK k \in TestsAnswer(p), n \in RanAnswer(p) :
              /\ ui' = [ui EXCEPT !.tests = k, !.ran = n, !.busy = Nil, !.loading = FALSE]
              /\ p.stage = "list" /\ Returns(p) /\ past' = [past EXCEPT !.failed = FALSE] /\ UNCHANGED server
        BY <1>3, TestsTerms DEF Tests!ListAnswer
    <2>2. p.seen \in SeenState
        BY <1>1, <2>1 DEF TestsTypes
    <2>3. k \in 0..MaxTests /\ n \in 0..MaxRuns /\ n >= p.seen.ran /\ p.seen.ran \in Nat
        BY <1>1, <2>1, <2>2, TestsAnswerIs, RanAnswerIs, BoundsAssumption DEF SeenState
    <2>4. /\ ui' \in Tests!PageState /\ ui'.ran = n /\ ui'.result = ui.result /\ ui'.busy = Nil /\ ~ui'.loading
        BY <1>1, <2>1, <2>3 DEF Tests!PageState
    <2>5. PendingOK' /\ ServerOK' /\ pending' = pending \ {p}
        BY <1>1, <2>1, ReturnsIs, SameServer DEF Returns
    <2>6. past' = [crossed |-> past'.crossed, failed |-> past'.failed] /\ past'.crossed = past.crossed /\ past'.failed = FALSE
        BY <1>1, <2>1 DEF TestsTypes
    <2>7. TestsTypes'
        BY <1>1, <2>1, <2>4, <2>5, <2>6 DEF TestsTypes
    <2>8. CountersDue'
        <3>1. ui.result # Nil => ui.result \in Nat
            BY <1>1, BoundsAssumption DEF Tests!PageState
        <3>2. n \in Nat
            BY <2>3, BoundsAssumption
        <3>3. ~past.crossed => ui.result = Nil \/ n >= ui.result
            BY <1>1, <2>1, <2>3, <3>1, <3>2 DEF CountersDue
        <3> QED BY <1>1, <2>4, <2>5, <2>6, <3>3 DEF CountersDue
    <2>9. TestsSpinners'
        BY <2>4 DEF TestsSpinners
    <2> QED BY <2>5, <2>7, <2>8, <2>9 DEF TestsOK
<1>4. CASE Tests!Fail(p)
    <2>1. /\ ui' = [ui EXCEPT !.busy = Nil, !.loading = @ /\ p.stage # "list"] /\ Returns(p) /\ UNCHANGED server
          /\ past' = [past EXCEPT !.failed = @ \/ p.stage = "list"]
        BY <1>4, TestsTerms DEF Tests!Fail
    <2>2. /\ ui' \in Tests!PageState /\ ui'.ran = ui.ran /\ ui'.result = ui.result /\ ui'.busy = Nil
          /\ (ui'.loading => ui.loading /\ p.stage # "list")
        BY <1>1, <2>1 DEF Tests!PageState
    <2>3. PendingOK' /\ ServerOK' /\ pending' = pending \ {p}
        BY <1>1, <2>1, ReturnsIs, SameServer DEF Returns
    <2>4. /\ past' = [crossed |-> past'.crossed, failed |-> past'.failed] /\ past'.crossed = past.crossed
          /\ past'.failed = (past.failed \/ p.stage = "list") /\ past'.failed \in BOOLEAN
        BY <1>1, <2>1 DEF TestsTypes
    <2>5. TestsTypes'
        BY <1>1, <2>1, <2>2, <2>3, <2>4 DEF TestsTypes
    <2>6. CountersDue'
        BY <1>1, <2>2, <2>3, <2>4 DEF CountersDue
    <2>7. TestsSpinners'
        BY <1>1, <2>2, <2>3 DEF TestsSpinners
    <2> QED BY <2>3, <2>5, <2>6, <2>7 DEF TestsOK
<1>5. CASE Tests!RunAnswer(p)
    <2>1. /\ p.stage = "post" /\ RunTests /\ Goes(p, "list", Nil)
          /\ ui' = [ui EXCEPT !.result = server.ran + 1, !.busy = "load"]
          /\ past' = [crossed |-> \E q \in pending \ {p} : q.stage = "list", failed |-> past.failed]
        BY <1>5, TestsTerms DEF Tests!RunAnswer, Tests!Loading
    <2>2. PICK stage, run : stage = "list" /\ run = Nil
        OBVIOUS
    <2>3. PICK r : pending' = (pending \ {p}) \cup {r} /\ IsOf(r, p.op, stage, run, p.arg) /\ r.seen = Seen(stage, server')
        BY <1>1, <2>1, <2>2, WentIs
    <2>4. PendingOK' /\ ServerOK' /\ server'.ran = server.ran + 1 /\ server.ran + 1 \in 1..MaxRuns
        BY <1>1, <2>1, WentIs, RunTestsIs
    <2>5. ui' \in Tests!PageState /\ ui'.busy = "load" /\ ui'.result = server'.ran
        BY <1>1, <2>1, <2>4 DEF Tests!PageState
    <2>6. ui'.result <= server'.ran
        BY <2>4, <2>5, BoundsAssumption
    <2>7. PICK others : others = pending \ {p}
        OBVIOUS
    <2>8. /\ others \subseteq pending /\ pending' = others \cup {r} /\ r.stage = "list" /\ r.seen = Seen("list", server')
          /\ past' = [crossed |-> \E q \in others : q.stage = "list", failed |-> past.failed]
        BY <2>1, <2>2, <2>3, <2>7 DEF IsOf
    <2> QED BY <2>4, <2>5, <2>6, <2>8, ListAsked
<1> QED BY <1>2, <1>3, <1>4, <1>5

LEMMA TestsStep == TestsInv /\ [Next]_consolevars => TestsInv'
<1> SUFFICES ASSUME TestsInv, [Next]_consolevars, view = "tests" PROVE TestsOK'
    BY DEF TestsInv, Next, consolevars
<1>1. TestsOK /\ (Tests!Next \/ TestElsewhere \/ UNCHANGED <<server, pending, ui, past>>)
    BY DEF TestsInv, Next, consolevars, clientvars
<1>2. CASE TestElsewhere \/ UNCHANGED <<server, pending, ui, past>>
    <2>1. UNCHANGED <<pending, ui, past>> /\ ServerOK' /\ server'.ran = server.ran
        BY <1>1, <1>2, TestElsewhereIs, SameServer DEF TestElsewhere, TestsOK
    <2> QED BY <1>1, <2>1 DEF TestsOK, PendingOK, TestsTypes, CountersDue, TestsSpinners
<1> QED BY <1>1, <1>2, TestsClicks, TestsAnswered DEF Tests!Next

LEMMA TestsShow ==
    ASSUME TestsOK
    PROVE  Tests!CountersTellOfResult /\ Tests!NeverStuck
<1>1. Tests!CountersTellOfResult
    BY DEF TestsOK, CountersDue, Tests!CountersTellOfResult
<1>2. Tests!NeverStuck
    BY TestsTerms DEF TestsOK, TestsSpinners, Tests!NeverStuck, Waiting
<1> QED BY <1>1, <1>2
-----------------------------------------------------------------------------
(* The overview.  Unless refreshes crossed, at most one is awaited, and the *)
(* warnings are being gathered for the runs that are counted, or were.      *)
WarningsDue ==
    ~past.crossed =>
        /\ \A p, q \in pending : p.stage # "post" /\ q.stage # "post" => p = q
        /\ \A p \in pending : p.stage = "warnings" => p.run = ui.runs
        /\ ui.warned = ui.runs \/ \E p \in pending : p.stage = "warnings"

HomeTypes ==
    /\ ui \in Home!PageState
    /\ past = [crossed |-> past.crossed] /\ past.crossed \in BOOLEAN
    /\ \A p \in pending : /\ p.stage \in {"post", "lists", "warnings"}
                          /\ p.stage = "lists" => p.seen \in SeenState
                          /\ p.stage = "warnings" => p.run \in 0..MaxRuns

HomeSpinners ==
    /\ ui.busy # Nil => pending # {}
    /\ ui.busy = "trace" => \E p \in pending : p.op = "trace"
    /\ ui.loading => \E p \in pending : p.stage # "post"

HomeOK == PendingOK /\ ServerOK /\ HomeTypes /\ WarningsDue /\ HomeSpinners

HomeInv == view = "home" => HomeOK

LEMMA HomeTerms ==
    /\ Home!Run = Run
    /\ \A op, stage, run, arg : Home!NewRequest(op, stage, run, arg) = NewRequest(op, stage, run, arg)
    /\ \A op, stage, run, arg : Home!Send(op, stage, run, arg) <=> Send(op, stage, run, arg)
    /\ \A p, stage, run : Home!Goes(p, stage, run) <=> Goes(p, stage, run)
    /\ \A p : Home!Returns(p) <=> Returns(p)
    /\ \A op : Home!Waiting(op) = Waiting(op)
    /\ \A u, op : Home!SetBusy(u, op) = SetBusy(u, op)
    /\ Home!RecordRun <=> RecordRun
    /\ \A p : Home!RunsAnswer(p) = RunsAnswer(p)
    /\ \A p : Home!TestsAnswer(p) = TestsAnswer(p)
<1>1. Home!Run = Run
    BY DEF Home!Run, Run
<1>2. \A op, stage, run, arg : Home!NewRequest(op, stage, run, arg) = NewRequest(op, stage, run, arg)
    BY DEF Home!NewRequest, NewRequest, Home!Seen, Seen
<1>3. \A op, stage, run, arg : Home!Send(op, stage, run, arg) <=> Send(op, stage, run, arg)
    BY DEF Home!Send, Send, Home!With, With, Home!NewRequest, NewRequest, Home!Seen, Seen, Home!Cardinality, Cardinality, Home!IsFiniteSet, IsFiniteSet
<1>4. \A p, stage, run : Home!Goes(p, stage, run) <=> Goes(p, stage, run)
    BY DEF Home!Goes, Goes, Home!With, With, Home!Seen, Seen
<1>5. \A p : Home!Returns(p) <=> Returns(p)
    BY DEF Home!Returns, Returns
<1>6. \A op : Home!Waiting(op) = Waiting(op)
    BY DEF Home!Waiting, Waiting
<1>7. \A u, op : Home!SetBusy(u, op) = SetBusy(u, op)
    BY DEF Home!SetBusy, SetBusy
<1>8. Home!RecordRun <=> RecordRun
    BY DEF Home!RecordRun, RecordRun
<1>9. \A p : Home!RunsAnswer(p) = RunsAnswer(p)
    BY DEF Home!RunsAnswer, RunsAnswer
<1>10. \A p : Home!TestsAnswer(p) = TestsAnswer(p)
    BY DEF Home!TestsAnswer, TestsAnswer
<1> QED BY <1>1, <1>2, <1>3, <1>4, <1>5, <1>6, <1>7, <1>8, <1>9, <1>10

LEMMA HomeMounts == Init => HomeInv
<1> SUFFICES ASSUME Init, view = "home" PROVE HomeOK
    BY DEF HomeInv
<1>1. /\ Holding(0) /\ ui = Home!Blank /\ past = [crossed |-> FALSE]
      /\ pending = {NewRequest("refresh", "lists", Nil, Nil)}
    BY HomeTerms DEF Init, Home!Mount
<1>2. 0 \in 0..MaxRuns
    BY BoundsAssumption
<1>3. ServerOK
    BY <1>1, <1>2, HoldingIs
<1>4. PendingOK /\ \A p \in pending : IsOf(p, "refresh", "lists", Nil, Nil) /\ p.seen = Seen("lists", server)
    BY <1>1, MountedIs
<1>5. Seen("lists", server) \in SeenState
    BY <1>3, SeenIs DEF ServerOK
<1>6. PICK r : pending = {r}
    BY <1>1
<1>7. ui \in Home!PageState /\ ui.warned = ui.runs /\ ui.busy = "refresh"
    BY <1>1, BoundsAssumption DEF Home!Blank, Home!PageState
<1>8. HomeTypes
    BY <1>1, <1>4, <1>5, <1>7 DEF HomeTypes, IsOf
<1>9. WarningsDue
    BY <1>4, <1>6, <1>7 DEF WarningsDue, IsOf
<1>10. HomeSpinners
    BY <1>4, <1>6, <1>7 DEF HomeSpinners, IsOf
<1> QED BY <1>3, <1>4, <1>8, <1>9, <1>10 DEF HomeOK

(* The lists are asked for, by the button or after a trace.                 *)
LEMMA ListsAsked ==
    ASSUME HomeOK, NEW others, others \subseteq pending, NEW r, pending' = others \cup {r},
           r.stage = "lists", r.seen = Seen("lists", server'), PendingOK', ServerOK',
           \A p \in pending : p.stage # "post" => p \in others,
           ui' \in Home!PageState, ui'.busy = "refresh", ui'.runs = ui.runs, ui'.warned = ui.warned,
           past' = [crossed |-> past.crossed \/ \E p \in others : p.stage # "post"]
    PROVE  HomeOK'
<1>1. HomeTypes /\ WarningsDue /\ server' \in ServerState
    BY DEF HomeOK, ServerOK
<1>2. r.seen \in SeenState
    BY <1>1, SeenIs
<1>3. past'.crossed = (past.crossed \/ \E p \in others : p.stage # "post")
    OBVIOUS
<1>4. PICK crossed \in BOOLEAN : past' = [crossed |-> crossed]
    BY <1>1 DEF HomeTypes
<1>5. HomeTypes'
    BY <1>1, <1>2, <1>4 DEF HomeTypes
<1>6. WarningsDue'
    BY <1>1, <1>3 DEF WarningsDue
<1>7. HomeSpinners'
    BY DEF HomeSpinners
<1> QED BY <1>5, <1>6, <1>7 DEF HomeOK

LEMMA HomeClicks ==
    ASSUME HomeOK, Home!refresh \/ Home!Type \/ Home!traceIssue
    PROVE  HomeOK'
<1>1. PendingOK /\ ServerOK /\ HomeTypes /\ WarningsDue /\ HomeSpinners /\ ui \in Home!PageState
    BY DEF HomeOK, HomeTypes
<1>2. CASE Home!refresh
    <2>1. /\ Send("refresh", "lists", Nil, Nil) /\ ui' = SetBusy(ui, "refresh") /\ UNCHANGED server
          /\ past' = [crossed |-> past.crossed \/ \E p \in pending : p.stage # "post"]
        BY <1>2, HomeTerms DEF Home!refresh, Home!Gathering
    <2>2. PICK op, stage, run, arg : op = "refresh" /\ stage = "lists" /\ run = Nil /\ arg = Nil
        OBVIOUS
    <2>3. PICK r : pending' = pending \cup {r} /\ IsOf(r, op, stage, run, arg) /\ r.seen = Seen(stage, server)
        BY <1>1, <2>1, <2>2, SentIs
    <2>4. PendingOK' /\ ServerOK' /\ r.stage = "lists" /\ r.seen = Seen("lists", server')
        BY <1>1, <2>1, <2>2, <2>3, SentIs, SameServer DEF IsOf
    <2>5. ui' \in Home!PageState /\ ui'.busy = "refresh" /\ ui'.runs = ui.runs /\ ui'.warned = ui.warned
        BY <1>1, <2>1 DEF SetBusy, Home!PageState
    <2> QED BY <2>1, <2>3, <2>4, <2>5, ListsAsked
<1>3. CASE Home!Type
    <2>1. ui' = [ui EXCEPT !.typed = TRUE] /\ UNCHANGED <<server, pending, past>>
        BY <1>3 DEF Home!Type
    <2>2. /\ ui' \in Home!PageState /\ ui'.runs = ui.runs /\ ui'.warned = ui.warned
          /\ ui'.busy = ui.busy /\ ui'.loading = ui.loading
        BY <1>1, <2>1 DEF Home!PageState
    <2>3. PendingOK' /\ ServerOK'
        BY <1>1, <2>1, SameServer DEF PendingOK
    <2> QED BY <1>1, <2>1, <2>2, <2>3 DEF HomeOK, HomeTypes, WarningsDue, HomeSpinners
<1>4. CASE Home!traceIssue
    <2>1. Send("trace", "post", Nil, Nil) /\ ui' = SetBusy(ui, "trace") /\ UNCHANGED <<server, past>>
        BY <1>4, HomeTerms DEF Home!traceIssue
    <2>2. PICK op, stage, run, arg : op = "trace" /\ stage = "post" /\ run = Nil /\ arg = Nil
        OBVIOUS
    <2>3. PICK r : pending' = pending \cup {r} /\ IsOf(r, op, stage, run, arg)
        BY <1>1, <2>1, <2>2, SentIs
    <2>4. PendingOK' /\ ServerOK' /\ r.stage = "post" /\ r.op = "trace"
        BY <1>1, <2>1, <2>2, <2>3, SentIs, SameServer DEF IsOf
    <2>5. /\ ui' \in Home!PageState /\ ui'.busy = "trace" /\ ui'.runs = ui.runs /\ ui'.warned = ui.warned
          /\ ui'.loading = ui.loading
        BY <1>1, <2>1 DEF SetBusy, Home!PageState
    <2>6. HomeTypes'
        BY <1>1, <2>1, <2>3, <2>4, <2>5 DEF HomeTypes
    <2>7. WarningsDue'
        BY <1>1, <2>1, <2>3, <2>4, <2>5 DEF WarningsDue
    <2>8. HomeSpinners'
        BY <1>1, <2>3, <2>4, <2>5 DEF HomeSpinners
    <2> QED BY <2>4, <2>6, <2>7, <2>8 DEF HomeOK
<1> QED BY <1>2, <1>3, <1>4

LEMMA HomeAnswered ==
    ASSUME HomeOK, Home!Answers
    PROVE  HomeOK'
<1>1. PendingOK /\ ServerOK /\ HomeTypes /\ WarningsDue /\ HomeSpinners /\ ui \in Home!PageState
    BY DEF HomeOK, HomeTypes
<1>2. PICK p \in pending : \/ Home!ListsAnswer(p) \/ Home!WarningsAnswer(p) \/ Home!TraceAnswer(p) \/ Home!Fail(p)
    BY DEF Home!Answers
<1>3. CASE Home!ListsAnswer(p)
    <2>1. PICK n \in RunsAnswer(p), k \in TestsAnswer(p) :
              /\ ui' = [ui EXCEPT !.runs = n, !.tests = k] /\ Goes(p, "warnings", n)
              /\ p.stage = "lists" /\ UNCHANGED server
              /\ past' = [crossed |-> past.crossed /\ \E q \in pending \ {p} : q.stage # "post"]
        BY <1>3, HomeTerms DEF Home!ListsAnswer
    <2>2. p.seen \in SeenState
        BY <1>1, <2>1 DEF HomeTypes
    <2>3. k \in 0..MaxTests /\ n \in 0..MaxRuns
        BY <1>1, <2>1, <2>2, TestsAnswerIs, RunsAnswerIs
    <2>4. /\ ui' \in Home!PageState /\ ui'.runs = n /\ ui'.warned = ui.warned
          /\ ui'.busy = ui.busy /\ ui'.loading = ui.loading
        BY <1>1, <2>1, <2>3 DEF Home!PageState
    <2>5. PICK stage : stage = "warnings"
        OBVIOUS
    <2>6. PICK r : pending' = (pending \ {p}) \cup {r} /\ IsOf(r, p.op, stage, n, p.arg)
        BY <1>1, <2>1, <2>5, WentIs
    <2>7. PendingOK' /\ ServerOK' /\ r.stage = "warnings" /\ r.run = n /\ r.op = p.op
        BY <1>1, <2>1, <2>5, <2>6, WentIs, SameServer DEF IsOf
    <2>8. past'.crossed = (past.crossed /\ \E q \in pending \ {p} : q.stage # "post")
        BY <2>1
    <2>9. PICK crossed \in BOOLEAN : past' = [crossed |-> crossed]
        BY <1>1, <2>1 DEF HomeTypes
    <2>10. HomeTypes'
        BY <1>1, <2>3, <2>4, <2>6, <2>7, <2>9 DEF HomeTypes
    <2>11. ~past'.crossed => \A q \in pending \ {p} : q.stage = "post"
        BY <1>1, <2>1, <2>8 DEF WarningsDue
    <2>12. WarningsDue'
        BY <2>4, <2>6, <2>7, <2>11 DEF WarningsDue
    <2>13. HomeSpinners'
        BY <1>1, <2>4, <2>6, <2>7 DEF HomeSpinners
    <2> QED BY <2>7, <2>10, <2>12, <2>13 DEF HomeOK
<1>4. CASE Home!WarningsAnswer(p)
    <2>1. /\ ui' = [ui EXCEPT !.warned = p.run, !.busy = Nil, !.loading = FALSE]
          /\ p.stage = "warnings" /\ Returns(p) /\ UNCHANGED <<server, past>>
        BY <1>4, HomeTerms DEF Home!WarningsAnswer
    <2>2. p.run \in 0..MaxRuns
        BY <1>1, <2>1 DEF HomeTypes
    <2>3. /\ ui' \in Home!PageState /\ ui'.runs = ui.runs /\ ui'.warned = p.run
          /\ ui'.busy = Nil /\ ~ui'.loading
        BY <1>1, <2>1, <2>2 DEF Home!PageState
    <2>4. PendingOK' /\ ServerOK' /\ pending' = pending \ {p}
        BY <1>1, <2>1, ReturnsIs, SameServer DEF Returns
    <2>5. HomeTypes'
        BY <1>1, <2>1, <2>3, <2>4 DEF HomeTypes
    <2>6. WarningsDue'
        BY <1>1, <2>1, <2>3, <2>4 DEF WarningsDue
    <2>7. HomeSpinners'
        BY <2>3, NilAssumption DEF HomeSpinners
    <2> QED BY <2>4, <2>5, <2>6, <2>7 DEF HomeOK
<1>5. CASE Home!Fail(p)
    <2>1. /\ ui' = [ui EXCEPT !.busy = Nil, !.loading = @ /\ p.stage = "post"]
          /\ p.stage # "warnings" /\ Returns(p) /\ UNCHANGED <<server, past>>
        BY <1>5, HomeTerms DEF Home!Fail
    <2>2. /\ ui' \in Home!PageState /\ ui'.runs = ui.runs /\ ui'.warned = ui.warned
          /\ ui'.busy = Nil /\ (ui'.loading => ui.loading /\ p.stage = "post")
        BY <1>1, <2>1 DEF Home!PageState
    <2>3. PendingOK' /\ ServerOK' /\ pending' = pending \ {p}
        BY <1>1, <2>1, ReturnsIs, SameServer DEF Returns
    <2>4. HomeTypes'
        BY <1>1, <2>1, <2>2, <2>3 DEF HomeTypes
    <2>5. WarningsDue'
        BY <1>1, <2>1, <2>2, <2>3 DEF WarningsDue
    <2>6. HomeSpinners'
        BY <1>1, <2>2, <2>3, NilAssumption DEF HomeSpinners
    <2> QED BY <2>3, <2>4, <2>5, <2>6 DEF HomeOK
<1>6. CASE Home!TraceAnswer(p)
    <2>1. /\ p.stage = "post" /\ RecordRun /\ Goes(p, "lists", Nil)
          /\ ui' = [ui EXCEPT !.typed = FALSE, !.busy = "refresh"]
          /\ past' = [crossed |-> past.crossed \/ \E q \in pending \ {p} : q.stage # "post"]
        BY <1>6, HomeTerms DEF Home!TraceAnswer, Home!Gathering
    <2>2. PICK stage, run : stage = "lists" /\ run = Nil
        OBVIOUS
    <2>3. PICK r : pending' = (pending \ {p}) \cup {r} /\ IsOf(r, p.op, stage, run, p.arg) /\ r.seen = Seen(stage, server')
        BY <1>1, <2>1, <2>2, WentIs
    <2>4. PendingOK' /\ ServerOK'
        BY <1>1, <2>1, WentIs, RecordRunIs
    <2>5. ui' \in Home!PageState /\ ui'.busy = "refresh" /\ ui'.runs = ui.runs /\ ui'.warned = ui.warned
        BY <1>1, <2>1 DEF Home!PageState
    <2>6. PICK others : others = pending \ {p}
        OBVIOUS
    <2>7. /\ others \subseteq pending /\ pending' = others \cup {r} /\ r.stage = "lists" /\ r.seen = Seen("lists", server')
          /\ past' = [crossed |-> past.crossed \/ \E q \in others : q.stage # "post"]
          /\ \A q \in pending : q.stage # "post" => q \in others
        BY <2>1, <2>2, <2>3, <2>6 DEF IsOf
    <2> QED BY <2>4, <2>5, <2>7, ListsAsked
<1> QED BY <1>2, <1>3, <1>4, <1>5, <1>6

LEMMA HomeStep == HomeInv /\ [Next]_consolevars => HomeInv'
<1> SUFFICES ASSUME HomeInv, [Next]_consolevars, view = "home" PROVE HomeOK'
    BY DEF HomeInv, Next, consolevars
<1>1. HomeOK /\ (Home!Next \/ RunElsewhere \/ TestElsewhere \/ UNCHANGED <<server, pending, ui, past>>)
    BY DEF HomeInv, Next, consolevars, clientvars
<1>2. CASE RunElsewhere \/ TestElsewhere \/ UNCHANGED <<server, pending, ui, past>>
    <2>1. UNCHANGED <<pending, ui, past>> /\ ServerOK'
        BY <1>1, <1>2, RecordRunIs, TestElsewhereIs, SameServer DEF RunElsewhere, TestElsewhere, HomeOK
    <2> QED BY <1>1, <2>1 DEF HomeOK, PendingOK, HomeTypes, WarningsDue, HomeSpinners
<1> QED BY <1>1, <1>2, HomeClicks, HomeAnswered DEF Home!Next

LEMMA HomeShows ==
    ASSUME HomeOK
    PROVE  Home!WarningsAreOfRuns /\ Home!NeverStuck
<1>1. Home!WarningsAreOfRuns
    BY DEF HomeOK, WarningsDue, Home!WarningsAreOfRuns
<1>2. Home!NeverStuck
    BY HomeTerms DEF HomeOK, HomeSpinners, Home!NeverStuck, Waiting
<1> QED BY <1>1, <1>2

(* At rest, unless loads failed or crossed, the list of runs is that of its *)
(* query, the counters of the saved tests tell of the result above them,    *)
(* the drift count is of the runs beside it; and an empty search never      *)
(* stands above a list that the address filters.                            *)
THEOREM ListsAreCurrentCorrect == Spec => []ListsAreCurrent
<1>1. TracesInv /\ TestsInv /\ HomeInv /\ ShellInv => ListsAreCurrent
    <2> SUFFICES ASSUME TracesInv, TestsInv, HomeInv, ShellInv PROVE ListsAreCurrent
        OBVIOUS
    <2>1. view = "shell" => Shell!SearchIsOfAddress
        BY DEF ShellInv, ShellOK, SearchIsShown, Shell!SearchIsOfAddress
    <2> QED BY <2>1, TracesShow, TestsShow, HomeShows DEF ListsAreCurrent, TracesInv, TestsInv, HomeInv
<1> QED BY <1>1, TracesMounts, TracesStep, TestsMounts, TestsStep, HomeMounts, HomeStep, ShellMounts, ShellStep,
        PTL DEF Spec
-----------------------------------------------------------------------------
(* The drift dialog.  A check that is awaited is of the run of the page, or *)
(* one that past tells of; what is shown is too, be the dialog open or not. *)
ModalOK ==
    /\ PendingOK /\ ui \in Modal!ModalState
    /\ \A p \in pending : p.run \in Run /\ p.run \in {ui.run} \cup past
    /\ ui.result \in {Nil, ui.run} \cup past
    /\ Modal!NeverStuck

ModalInv == view = "modal" => ModalOK

LEMMA ModalTerms ==
    /\ Modal!Run = Run
    /\ \A op, stage, run, arg : Modal!Send(op, stage, run, arg) <=> Send(op, stage, run, arg)
    /\ \A p : Modal!Returns(p) <=> Returns(p)
    /\ Modal!PendingRuns = PendingRuns
<1>1. Modal!Run = Run
    BY DEF Modal!Run, Run
<1>2. \A op, stage, run, arg : Modal!Send(op, stage, run, arg) <=> Send(op, stage, run, arg)
    BY DEF Modal!Send, Send, Modal!With, With, Modal!NewRequest, NewRequest, Modal!Seen, Seen, Modal!Cardinality, Cardinality, Modal!IsFiniteSet, IsFiniteSet
<1>3. \A p : Modal!Returns(p) <=> Returns(p)
    BY DEF Modal!Returns, Returns
<1>4. Modal!PendingRuns = PendingRuns
    BY DEF Modal!PendingRuns, PendingRuns
<1> QED BY <1>1, <1>2, <1>3, <1>4

LEMMA ModalMounts == Init => ModalInv
<1> SUFFICES ASSUME Init, view = "modal" PROVE ModalOK
    BY DEF ModalInv
<1>1. PICK r \in Run : ui = [open |-> FALSE, run |-> r, result |-> Nil, running |-> FALSE, error |-> FALSE]
    BY ModalTerms DEF Init, Modal!Mount
<1>2. pending = {} /\ past = {}
    BY DEF Init, Modal!Mount
<1>3. PendingOK
    BY <1>2, MountIs
<1>4. ui \in Modal!ModalState /\ ui.result = Nil /\ ~ui.running
    BY <1>1, ModalTerms DEF Modal!ModalState
<1> QED BY <1>2, <1>3, <1>4 DEF ModalOK, Modal!NeverStuck

LEMMA ModalClicks ==
    ASSUME ModalOK, Modal!Open \/ Modal!handleClose \/ Modal!TurnTo \/ Modal!handleRun
    PROVE  ModalOK'
<1>1. /\ PendingOK /\ ui \in Modal!ModalState /\ ui.run \in Run
      /\ \A p \in pending : p.run \in Run /\ p.run \in {ui.run} \cup past
      /\ ui.result \in {Nil, ui.run} \cup past
      /\ ui.running => pending # {}
    BY ModalTerms DEF ModalOK, Modal!ModalState, Modal!NeverStuck
<1>2. \A p \in pending : p.run \in PendingRuns
    BY <1>1, RunIsNoNil DEF PendingRuns
<1>3. ASSUME UNCHANGED pending PROVE PendingOK'
    BY <1>1, <1>3 DEF PendingOK
<1>4. CASE Modal!Open
    <2>1. ui' = [ui EXCEPT !.open = TRUE] /\ UNCHANGED <<pending, past>>
        BY <1>4 DEF Modal!Open
    <2>2. ui' \in Modal!ModalState /\ ui'.run = ui.run /\ ui'.result = ui.result /\ ui'.running = ui.running
        BY <1>1, <2>1 DEF Modal!ModalState
    <2> QED BY <1>1, <1>3, <2>1, <2>2 DEF ModalOK, Modal!NeverStuck
<1>5. CASE Modal!handleClose
    <2>1. ui' = Modal!Closed(ui) /\ past' = PendingRuns /\ UNCHANGED pending
        BY <1>5, ModalTerms DEF Modal!handleClose
    <2>2. ui' \in Modal!ModalState /\ ui'.run = ui.run /\ ui'.result = Nil /\ ui'.running = ui.running
        BY <1>1, <2>1 DEF Modal!Closed, Modal!ModalState
    <2> QED BY <1>1, <1>2, <1>3, <2>1, <2>2 DEF ModalOK, Modal!NeverStuck
<1>6. CASE Modal!TurnTo
    <2>1. PICK r \in Run : ui' = [ui EXCEPT !.run = r]
        BY <1>6, ModalTerms DEF Modal!TurnTo
    <2>2. past' = PendingRuns \cup ({ui.result} \ {Nil}) /\ UNCHANGED pending
        BY <1>6, ModalTerms DEF Modal!TurnTo, Modal!Remember
    <2>3. ui' \in Modal!ModalState /\ ui'.run = r /\ ui'.result = ui.result /\ ui'.running = ui.running
        BY <1>1, <2>1, ModalTerms DEF Modal!ModalState
    <2> QED BY <1>1, <1>2, <1>3, <2>1, <2>2, <2>3 DEF ModalOK, Modal!NeverStuck
<1>7. CASE Modal!handleRun
    <2>1. /\ Send("check", "post", ui.run, Nil) /\ UNCHANGED past
          /\ ui' = [ui EXCEPT !.running = TRUE, !.error = FALSE]
        BY <1>7, ModalTerms DEF Modal!handleRun
    <2>2. PICK r : pending' = pending \cup {r} /\ r.run = ui.run
        BY <1>1, <2>1, SentIs DEF IsOf
    <2>3. PendingOK'
        BY <1>1, <2>1, SentIs
    <2>4. ui' \in Modal!ModalState /\ ui'.run = ui.run /\ ui'.result = ui.result
        BY <1>1, <2>1 DEF Modal!ModalState
    <2> QED BY <1>1, <2>1, <2>2, <2>3, <2>4 DEF ModalOK, Modal!NeverStuck
<1> QED BY <1>4, <1>5, <1>6, <1>7

(* Any answer ends the spinner, also while another check is still awaited.  *)
LEMMA ModalAnswered ==
    ASSUME ModalOK, Modal!Answers
    PROVE  ModalOK'
<1>1. /\ PendingOK /\ ui \in Modal!ModalState
      /\ \A p \in pending : p.run \in Run /\ p.run \in {ui.run} \cup past
      /\ ui.result \in {Nil, ui.run} \cup past
    BY DEF ModalOK
<1>2. PICK p \in pending : Modal!CheckAnswer(p) \/ Modal!CheckFails(p)
    BY DEF Modal!Answers
<1>3. Returns(p) /\ UNCHANGED past
    BY <1>2, ModalTerms DEF Modal!CheckAnswer, Modal!CheckFails
<1>4. PendingOK' /\ pending' = pending \ {p}
    BY <1>1, <1>3, ReturnsIs DEF Returns
<1>5. ui' \in Modal!ModalState /\ ui'.run = ui.run /\ ui'.result \in {ui.result, p.run} /\ ~ui'.running
    BY <1>1, <1>2, ModalTerms DEF Modal!CheckAnswer, Modal!CheckFails, Modal!ModalState
<1> QED BY <1>1, <1>3, <1>4, <1>5 DEF ModalOK, Modal!NeverStuck

LEMMA ModalStep == ModalInv /\ [Next]_consolevars => ModalInv'
<1> SUFFICES ASSUME ModalInv, [Next]_consolevars, view = "modal" PROVE ModalOK'
    BY DEF ModalInv, Next, consolevars
<1>1. ModalOK /\ (Modal!Next \/ UNCHANGED <<server, pending, ui, past>>)
    BY DEF ModalInv, Next, consolevars, clientvars
<1>2. CASE UNCHANGED <<server, pending, ui, past>>
    BY <1>1, <1>2 DEF ModalOK, PendingOK, Modal!NeverStuck
<1> QED BY <1>1, <1>2, ModalClicks, ModalAnswered DEF Modal!Next
-----------------------------------------------------------------------------
(* The page of the Forge app, which bounds its requests by itself.          *)
ForgeRequests(S) == IsFiniteSet(S) /\ Cardinality(S) <= ForgePending /\ \A p \in S : IsRequest(p)

(* A handler is where its op and its stage tell.                            *)
ForgeFits(p) ==
    /\ p.run \in Run \cup {Nil}
    /\ p.op \in {"refresh", "left", "detail", "trace", "strict", "patch", "tests"}
    /\ p.op = "detail" => p.stage = "detail"
    /\ p.stage = "detail" => p.op \in {"detail", "strict"}
    /\ p.stage \in {"lists", "runs"} => p.op \in {"refresh", "left", "trace"} /\ p.seen \in SeenState
    /\ p.stage = "lists" => p.op = "refresh"

ForgeTypes == /\ ui \in Forge!PageState
              /\ past = [runs |-> past.runs, failed |-> past.failed, pick |-> past.pick]

(* A list that was asked for before any run was selected may select one.    *)
MaySelect(p) == p.op \in {"refresh", "left", "trace"} /\ p.run = Nil /\ p.stage # "tests"

(* With the state u and the requests S, what is shown or awaited is of the  *)
(* selected run, or of one of runs; its detail has failed to load, or is    *)
(* awaited, or has come; and a busy page waits.                             *)
ForgeHolds(u, S, runs, failed) ==
    /\ {u.strict, u.explor} \subseteq {Nil, u.selected} \cup runs
    /\ \A p \in S : p.op \in {"detail", "strict", "patch"} => p.run \in {u.selected} \cup runs
    /\ \/ failed
       \/ \E p \in S : p.op = "detail" /\ p.run = u.selected
       \/ u.detail \in {u.selected} \cup runs
    /\ u.busy # Nil => \E p \in S : p.op = u.busy

(* A chosen run is selected, and no list will select another.               *)
ChoiceInv == past.pick # Nil => ui.selected = past.pick /\ \A p \in pending : ~MaySelect(p)

ForgeOK ==
    /\ ForgeRequests(pending) /\ (\A p \in pending : ForgeFits(p)) /\ ServerOK /\ ForgeTypes
    /\ ForgeHolds(ui, pending, past.runs, past.failed)
    /\ ChoiceInv

ForgeInv == view = "forge" => ForgeOK

(* What the page takes from ConsoleClient, with its own bound.              *)
LEMMA ForgeTerms ==
    /\ Forge!Run = Run
    /\ \A op, stage, run, arg : Forge!NewRequest(op, stage, run, arg) = NewRequest(op, stage, run, arg)
    /\ \A others, request : Forge!With(others, request) = Added(ForgePending, others, request)
    /\ \A stage, s : Forge!Seen(stage, s) = Seen(stage, s)
    /\ Forge!RecordRun <=> RecordRun
    /\ \A op : Forge!Waiting(op) = Waiting(op)
    /\ \A u, op : Forge!SetBusy(u, op) = SetBusy(u, op)
    /\ \A S : Forge!Cardinality(S) = Cardinality(S)
<1>1. Forge!Run = Run
    BY DEF Forge!Run, Run
<1>2. \A op, stage, run, arg : Forge!NewRequest(op, stage, run, arg) = NewRequest(op, stage, run, arg)
    BY DEF Forge!NewRequest, NewRequest, Forge!Seen, Seen
<1>3. \A others, request : Forge!With(others, request) = Added(ForgePending, others, request)
    BY DEF Forge!With, Added
<1>4. \A stage, s : Forge!Seen(stage, s) = Seen(stage, s)
    BY DEF Forge!Seen, Seen
<1>5. Forge!RecordRun <=> RecordRun
    BY DEF Forge!RecordRun, RecordRun
<1>6. \A op : Forge!Waiting(op) = Waiting(op)
    BY DEF Forge!Waiting, Waiting
<1>7. \A u, op : Forge!SetBusy(u, op) = SetBusy(u, op)
    BY DEF Forge!SetBusy, SetBusy
<1>8. \A S : Forge!Cardinality(S) = Cardinality(S)
    BY DEF Forge!Cardinality, Cardinality, Forge!IsFiniteSet, IsFiniteSet
<1> QED BY <1>1, <1>2, <1>3, <1>4, <1>5, <1>6, <1>7, <1>8

LEMMA ForgeBound == ForgePending \in Nat /\ ForgePending >= 1
BY ConsoleAssumption

LEMMA ForgeMounts == Init => ForgeInv
<1> SUFFICES ASSUME Init, view = "forge" PROVE ForgeOK
    BY DEF ForgeInv
<1>1. /\ Holding(MaxRuns - 1) /\ ui = Forge!Blank /\ past = [runs |-> {}, failed |-> FALSE, pick |-> Nil]
      /\ pending = {NewRequest("refresh", "lists", Nil, Nil)}
    BY ForgeTerms DEF Init, Forge!Mount
<1>2. MaxRuns - 1 \in 0..MaxRuns /\ 0 \in 0..MaxRuns
    BY BoundsAssumption
<1>3. ServerOK
    BY <1>1, <1>2, HoldingIs
<1>4. PICK r : r = NewRequest("refresh", "lists", Nil, Nil)
    OBVIOUS
<1>5. IsRequest(r) /\ r.op = "refresh" /\ r.stage = "lists" /\ r.run = Nil /\ r.seen = Seen("lists", server)
    BY <1>4, NewRequestIs
<1>6. Seen("lists", server) \in SeenState
    BY <1>3, SeenIs DEF ServerOK
<1>7. ForgeFits(r)
    BY <1>5, <1>6 DEF ForgeFits
<1>8. pending = {r}
    BY <1>1, <1>4
<1>9. ForgeRequests(pending)
    <2>1. IsFiniteSet({r}) /\ Cardinality({r}) = 1
        BY FS_Singleton
    <2> QED BY <1>5, <1>8, <2>1, ForgeBound DEF ForgeRequests
<1>10. ui \in Forge!PageState /\ ui.selected = Nil /\ ui.detail = Nil /\ ui.strict = Nil /\ ui.explor = Nil /\ ui.busy = "refresh"
    BY <1>1, <1>2 DEF Forge!Blank, Forge!PageState
<1>11. ForgeTypes /\ ChoiceInv
    BY <1>1, <1>10 DEF ForgeTypes, ChoiceInv
<1>12. ForgeHolds(ui, pending, past.runs, past.failed)
    BY <1>1, <1>5, <1>8, <1>10 DEF ForgeHolds
<1> QED BY <1>3, <1>7, <1>8, <1>9, <1>11, <1>12 DEF ForgeOK

(* The effects, when the selection changed: one asks for the lists, one for *)
(* the detail.                                                              *)
LEMMA ForgeSends ==
    ASSUME ServerOK', NEW v \in Forge!PageState, NEW rest, ForgeRequests(rest), v.selected # ui.selected,
           Cardinality(rest) + 2 <= ForgePending
    PROVE  /\ ForgeRequests(Forge!Sent(v, rest))
           /\ \E a, b : /\ Forge!Sent(v, rest) = rest \cup {a, b}
                        /\ a.op = "refresh" /\ a.stage = "lists" /\ a.run = v.selected /\ a.seen \in SeenState
                        /\ b.op = "detail" /\ b.stage = "detail" /\ b.run = v.selected
<1>1. PICK seen : seen = Seen("lists", server')
    OBVIOUS
<1>2. seen \in SeenState
    BY <1>1, SeenIs DEF ServerOK
<1>3. PICK q : q = Forge!refresh(v)
    OBVIOUS
<1>4. q = [no |-> 1, op |-> "refresh", stage |-> "lists", run |-> v.selected, arg |-> Nil, seen |-> seen]
    BY <1>1, <1>3, ForgeTerms DEF Forge!refresh, NewRequest
<1>5. IsRequest(q)
    BY <1>4 DEF IsRequest
<1>6. PICK d : d = NewRequest("detail", "detail", v.selected, Nil)
    OBVIOUS
<1>7. IsRequest(d) /\ d.op = "detail" /\ d.stage = "detail" /\ d.run = v.selected
    BY <1>6, NewRequestIs
<1>8. Cardinality(rest) \in Nat /\ ForgePending \in Nat
    BY FS_CardinalityType, ForgeBound DEF ForgeRequests
<1>9. ASSUME NEW S, NEW r, IsFiniteSet(S), Cardinality(S) < ForgePending, \A p \in S : IsRequest(p), IsRequest(r)
      PROVE  LET S2 == Added(ForgePending, S, r)
             IN  /\ IsFiniteSet(S2) /\ Cardinality(S2) = Cardinality(S) + 1 /\ \A p \in S2 : IsRequest(p)
                 /\ \E p : S2 = S \cup {p} /\ p.op = r.op /\ p.stage = r.stage /\ p.run = r.run /\ p.seen = r.seen
    <2>1. ForgePending \in Nat
        BY ForgeBound
    <2> HIDE DEF IsRequest
    <2> QED BY <1>9, <2>1, AddedIs
<1>10. PICK one : one = Added(ForgePending, rest, q)
    OBVIOUS
<1>11. /\ IsFiniteSet(one) /\ Cardinality(one) = Cardinality(rest) + 1 /\ \A p \in one : IsRequest(p)
       /\ \E r : one = rest \cup {r} /\ r.op = q.op /\ r.stage = q.stage /\ r.run = q.run /\ r.seen = q.seen
    <2>1. IsFiniteSet(rest) /\ Cardinality(rest) < ForgePending /\ \A p \in rest : IsRequest(p)
        BY <1>8 DEF ForgeRequests
    <2> QED BY <1>5, <1>9, <1>10, <2>1
<1>12. PICK two : two = Added(ForgePending, one, d)
    OBVIOUS
<1>13. /\ IsFiniteSet(two) /\ Cardinality(two) = Cardinality(one) + 1 /\ \A p \in two : IsRequest(p)
       /\ \E r : two = one \cup {r} /\ r.op = d.op /\ r.stage = d.stage /\ r.run = d.run /\ r.seen = d.seen
    <2>1. Cardinality(one) < ForgePending
        BY <1>8, <1>11
    <2>2. IsFiniteSet(one) /\ (\A p \in one : IsRequest(p)) /\ IsRequest(d)
        BY <1>7, <1>11
    <2> QED BY <1>9, <1>12, <2>1, <2>2
<1>14. Forge!Sent(v, rest) = two
    BY <1>3, <1>6, <1>10, <1>12, ForgeTerms DEF Forge!Sent
<1>15. ForgeRequests(two)
    BY <1>8, <1>11, <1>13 DEF ForgeRequests
<1>16. PICK a : one = rest \cup {a} /\ a.op = q.op /\ a.stage = q.stage /\ a.run = q.run /\ a.seen = q.seen
    BY <1>11
<1>17. PICK b : two = one \cup {b} /\ b.op = d.op /\ b.stage = d.stage /\ b.run = d.run
    BY <1>13
<1>18. two = rest \cup {a, b}
    BY <1>16, <1>17
<1>19. a.op = "refresh" /\ a.stage = "lists" /\ a.run = v.selected /\ a.seen \in SeenState
    BY <1>2, <1>4, <1>16
<1> QED BY <1>7, <1>14, <1>15, <1>17, <1>18, <1>19

(* The page becomes v: it must hold where the selection stays, and a chosen *)
(* run must be the selected one.                                            *)
LEMMA ForgeBecomes ==
    ASSUME ForgeOK, ServerOK', NEW v \in Forge!PageState, NEW rest, ForgeRequests(rest), \A p \in rest : ForgeFits(p),
           NEW failed, NEW pick, Forge!Becomes(v, rest, failed, pick),
           v.selected = ui.selected => ForgeHolds(v, rest, past.runs, failed),
           v.selected # ui.selected => v.selected \in Run,
           pick # Nil => v.selected = pick,
           pick = Nil /\ past.pick # Nil => v.selected = ui.selected /\ \A p \in rest : ~MaySelect(p)
    PROVE  ForgeOK'
<1>1. /\ Cardinality(rest) + (IF v.selected # ui.selected THEN 2 ELSE 0) <= ForgePending
      /\ ui' = Forge!Effect(v) /\ pending' = Forge!Sent(v, rest) /\ Forge!Remember(v, rest, failed, pick)
    BY ForgeTerms DEF Forge!Becomes
<1>2. past' = [runs |-> past'.runs, failed |-> past'.failed, pick |-> past'.pick]
    BY <1>1 DEF Forge!Remember
<1>3. past'.pick \in {Nil, v.selected, past.pick}
    BY <1>1 DEF Forge!Remember
<1>4. past'.pick # Nil => \A p \in rest : ~MaySelect(p)
    BY <1>1 DEF Forge!Remember, MaySelect
<1>5. past'.pick # Nil => v.selected = past'.pick
    BY <1>1 DEF Forge!Remember, ForgeOK, ChoiceInv
<1>6. CASE v.selected = ui.selected
    <2>1. ui' = v /\ pending' = rest
        BY <1>1, <1>6 DEF Forge!Effect, Forge!Sent
    <2>2. past'.runs = past.runs /\ (past'.failed <=> failed)
        BY <1>1, <1>6 DEF Forge!Remember
    <2>3. ForgeHolds(v, rest, past.runs, past'.failed)
        BY <1>6, <2>2 DEF ForgeHolds
    <2>4. ForgeHolds(ui, pending, past.runs, past.failed)'
        BY <2>1, <2>2, <2>3 DEF ForgeHolds
    <2>5. ForgeTypes' /\ ChoiceInv'
        BY <1>2, <1>4, <1>5, <2>1 DEF ForgeTypes, ChoiceInv
    <2>6. ForgeRequests(pending)' /\ \A p \in pending' : ForgeFits(p)
        BY <2>1 DEF ForgeRequests
    <2> QED BY <2>4, <2>5, <2>6 DEF ForgeOK
<1>7. CASE v.selected # ui.selected
    <2>1. Cardinality(rest) + 2 <= ForgePending /\ v.selected \in Run
        BY <1>1, <1>7
    <2>2. ui' = [v EXCEPT !.strict = Nil, !.explor = Nil, !.busy = "detail"]
        BY <1>1, <1>7 DEF Forge!Effect
    <2>3. past'.runs = {p.run : p \in {q \in rest : q.op \in {"detail", "strict", "patch"}}} \ {v.selected}
        BY <1>1, <1>7 DEF Forge!Remember
    <2>4. PICK a, b : /\ pending' = rest \cup {a, b}
                      /\ a.op = "refresh" /\ a.stage = "lists" /\ a.run = v.selected /\ a.seen \in SeenState
                      /\ b.op = "detail" /\ b.stage = "detail" /\ b.run = v.selected
        BY <1>1, <1>7, <2>1, ForgeSends
    <2>5. ForgeRequests(pending)'
        <3>1. ForgeRequests(Forge!Sent(v, rest))
            BY <1>7, <2>1, ForgeSends
        <3> QED BY <1>1, <3>1 DEF ForgeRequests
    <2>6. /\ ui' \in Forge!PageState /\ ui'.selected = v.selected
          /\ ui'.strict = Nil /\ ui'.explor = Nil /\ ui'.busy = "detail"
        BY <2>2 DEF Forge!PageState
    <2>7. ForgeFits(a) /\ ForgeFits(b)
        BY <2>1, <2>4 DEF ForgeFits
    <2>8. v.selected # Nil
        BY <2>1, RunIsNoNil
    <2>9. ~MaySelect(a) /\ ~MaySelect(b)
        BY <2>4, <2>8 DEF MaySelect
    <2>10. ForgeHolds(ui, pending, past.runs, past.failed)'
        BY <2>3, <2>4, <2>6 DEF ForgeHolds
    <2>11. ForgeTypes' /\ ChoiceInv'
        BY <1>2, <1>4, <1>5, <2>4, <2>6, <2>9 DEF ForgeTypes, ChoiceInv
    <2>12. \A p \in pending' : ForgeFits(p)
        BY <2>4, <2>7
    <2> QED BY <2>5, <2>10, <2>11, <2>12 DEF ForgeOK
<1> QED BY <1>6, <1>7

(* How the requests of the page change: a click adds one, an answer makes   *)
(* its handler go on or return.                                             *)
LEMMA ForgeAdds ==
    ASSUME NEW S, ForgeRequests(S), Cardinality(S) < ForgePending, NEW request, IsRequest(request)
    PROVE  /\ ForgeRequests(Forge!With(S, request))
           /\ \E r : /\ Forge!With(S, request) = S \cup {r}
                     /\ r.op = request.op /\ r.stage = request.stage /\ r.run = request.run /\ r.seen = request.seen
<1>1. ForgePending \in Nat /\ Cardinality(S) \in Nat
    BY ForgeBound, FS_CardinalityType DEF ForgeRequests
<1>2. PICK now : now = Added(ForgePending, S, request)
    OBVIOUS
<1>3. IsFiniteSet(S) /\ \A p \in S : IsRequest(p)
    BY DEF ForgeRequests
<1>4. /\ IsFiniteSet(now) /\ Cardinality(now) = Cardinality(S) + 1 /\ \A p \in now : IsRequest(p)
      /\ \E r : /\ r \notin S /\ now = S \cup {r}
                /\ r.op = request.op /\ r.stage = request.stage /\ r.run = request.run
                /\ r.arg = request.arg /\ r.seen = request.seen
    BY <1>1, <1>2, <1>3, AddedIs
<1>5. Forge!With(S, request) = now
    BY <1>2, ForgeTerms
<1>6. ForgeRequests(now)
    BY <1>1, <1>4 DEF ForgeRequests
<1> QED BY <1>4, <1>5, <1>6

LEMMA ForgeGone ==
    ASSUME ForgeRequests(pending), NEW p \in pending
    PROVE  /\ ForgeRequests(Forge!Gone(p)) /\ Cardinality(Forge!Gone(p)) < ForgePending
           /\ Forge!Gone(p) = pending \ {p}
<1>1. Cardinality(pending) \in Nat /\ ForgePending \in Nat
    BY FS_CardinalityType, ForgeBound DEF ForgeRequests
<1>2. PICK rest : rest = pending \ {p}
    OBVIOUS
<1>3. IsFiniteSet(rest) /\ Cardinality(rest) = Cardinality(pending) - 1
    BY <1>2, FS_RemoveElement DEF ForgeRequests
<1>4. \A q \in rest : IsRequest(q)
    BY <1>2 DEF ForgeRequests
<1> QED BY <1>1, <1>2, <1>3, <1>4 DEF ForgeRequests, Forge!Gone

LEMMA ForgeOnward ==
    ASSUME ServerOK', ForgeRequests(pending), NEW p \in pending, NEW stage
    PROVE  /\ ForgeRequests(Forge!Onward(p, stage))
           /\ \E r : /\ Forge!Onward(p, stage) = (pending \ {p}) \cup {r}
                     /\ r.op = p.op /\ r.stage = stage /\ r.run = p.run
                     /\ stage \in {"list", "lists", "runs"} => r.seen \in SeenState
<1>1. PICK seen : seen = Seen(stage, server')
    OBVIOUS
<1>2. stage \in {"list", "lists", "runs"} => seen \in SeenState
    BY <1>1, SeenIs DEF ServerOK
<1>3. PICK q : q = [p EXCEPT !.stage = stage, !.seen = seen]
    OBVIOUS
<1>4. PICK no, op, s, run, arg, n : p = [no |-> no, op |-> op, stage |-> s, run |-> run, arg |-> arg, seen |-> n]
    BY DEF ForgeRequests, IsRequest
<1>5. q = [no |-> no, op |-> op, stage |-> stage, run |-> run, arg |-> arg, seen |-> seen]
    BY <1>3, <1>4
<1>6. IsRequest(q) /\ q.op = p.op /\ q.stage = stage /\ q.run = p.run /\ q.seen = seen
    BY <1>4, <1>5 DEF IsRequest
<1>7. PICK rest : rest = pending \ {p}
    OBVIOUS
<1>8. ForgeRequests(rest) /\ Cardinality(rest) < ForgePending
    BY <1>7, ForgeGone
<1>9. Forge!Onward(p, stage) = Forge!With(rest, q)
    BY <1>1, <1>3, <1>7, ForgeTerms DEF Forge!Onward
<1> QED BY <1>2, <1>6, <1>7, <1>8, <1>9, ForgeAdds

(* A click: the request it sends is of the selected run, or of none.        *)
LEMMA ForgeStarts ==
    ASSUME ForgeOK, UNCHANGED server, Cardinality(pending) < ForgePending,
           NEW op \in {"refresh", "trace", "strict", "patch", "tests"}, NEW request,
           IsRequest(request), ForgeFits(request), request.op = op, request.run \in {ui.selected, Nil},
           op # "tests" => request.run = ui.selected,
           SetBusy(ui, op) \in Forge!PageState,
           Forge!Becomes(SetBusy(ui, op), Forge!With(pending, request), past.failed, Nil)
    PROVE  ForgeOK'
<1>1. /\ ForgeRequests(pending) /\ (\A p \in pending : ForgeFits(p)) /\ ServerOK /\ ui \in Forge!PageState
      /\ ForgeHolds(ui, pending, past.runs, past.failed) /\ ChoiceInv
    BY DEF ForgeOK, ForgeTypes
<1>2. PICK r : /\ Forge!With(pending, request) = pending \cup {r}
               /\ r.op = request.op /\ r.stage = request.stage /\ r.run = request.run /\ r.seen = request.seen
    BY <1>1, ForgeAdds
<1>3. PICK rest : rest = Forge!With(pending, request)
    OBVIOUS
<1>4. ForgeRequests(rest)
    BY <1>1, <1>3, ForgeAdds
<1>5. rest = pending \cup {r} /\ ForgeFits(r)
    BY <1>2, <1>3 DEF ForgeFits
<1>6. PICK v : v = SetBusy(ui, op)
    OBVIOUS
<1>7. /\ v \in Forge!PageState /\ v.selected = ui.selected /\ v.strict = ui.strict /\ v.explor = ui.explor
      /\ v.detail = ui.detail /\ v.busy = op
    BY <1>1, <1>6 DEF SetBusy, Forge!PageState
<1>8. ForgeHolds(v, rest, past.runs, past.failed)
    BY <1>1, <1>2, <1>5, <1>7 DEF ForgeHolds
<1>9. past.pick # Nil => \A p \in rest : ~MaySelect(p)
    <2>1. past.pick # Nil => ui.selected # Nil /\ \A p \in pending : ~MaySelect(p)
        BY <1>1 DEF ChoiceInv
    <2>2. ASSUME past.pick # Nil PROVE ~MaySelect(r)
        BY <1>2, <2>1, <2>2 DEF MaySelect, ForgeFits
    <2> QED BY <1>5, <2>1, <2>2
<1>10. ServerOK'
    BY <1>1 DEF ServerOK
<1>11. \A p \in rest : ForgeFits(p)
    BY <1>1, <1>5
<1>12. Forge!Becomes(v, rest, past.failed, Nil)
    BY <1>3, <1>6
<1>13. PICK failed, pick : failed = past.failed /\ pick = Nil
    OBVIOUS
<1>14. Forge!Becomes(v, rest, failed, pick) /\ ForgeHolds(v, rest, past.runs, failed)
    BY <1>8, <1>12, <1>13
<1> QED BY <1>4, <1>7, <1>9, <1>10, <1>11, <1>13, <1>14, ForgeBecomes

LEMMA ForgeClicks ==
    ASSUME ForgeOK,
           \/ Forge!setIssueFilter \/ Forge!sync \/ Forge!traceJiraIssue \/ Forge!runStrictReplay
           \/ Forge!runPatchReplay \/ Forge!promoteRegression \/ Forge!runRegressionPack
    PROVE  ForgeOK'
<1>1. ServerOK /\ ui \in Forge!PageState /\ ui.selected \in Run \cup {Nil}
    BY ForgeTerms DEF ForgeOK, ForgeTypes, Forge!PageState
<1>2. CASE Forge!Reloads
    <2>1. /\ Cardinality(pending) < ForgePending /\ UNCHANGED server
          /\ Forge!Becomes(SetBusy(ui, "refresh"), Forge!With(pending, Forge!refresh(ui)), past.failed, Nil)
        BY <1>2, ForgeTerms DEF Forge!Reloads, Forge!Room
    <2>2. PICK seen : seen = Seen("lists", server')
        OBVIOUS
    <2>3. seen \in SeenState
        BY <1>1, <2>1, <2>2, SeenIs DEF ServerOK
    <2>4. PICK q, op : q = Forge!refresh(ui) /\ op = "refresh"
        OBVIOUS
    <2>5. q = [no |-> 1, op |-> "refresh", stage |-> "lists", run |-> ui.selected, arg |-> Nil, seen |-> seen]
        BY <2>2, <2>4, ForgeTerms DEF Forge!refresh, NewRequest
    <2>6. IsRequest(q) /\ ForgeFits(q) /\ q.op = op /\ q.run = ui.selected
        BY <1>1, <2>3, <2>4, <2>5 DEF IsRequest, ForgeFits
    <2>7. op \in {"refresh", "trace", "strict", "patch", "tests"} /\ SetBusy(ui, op) \in Forge!PageState
        BY <1>1, <2>4 DEF SetBusy, Forge!PageState
    <2>8. Forge!Becomes(SetBusy(ui, op), Forge!With(pending, q), past.failed, Nil)
        BY <2>1, <2>4
    <2>9. (op # "tests" => q.run = ui.selected)
        BY <2>4, <2>6
    <2> QED BY <2>1, <2>6, <2>7, <2>8, <2>9, ForgeStarts
<1>3. ASSUME NEW op \in {"trace", "strict", "patch", "tests"}, NEW run, Forge!Starts(op, "post", run, Nil),
             run = ui.selected \/ (op = "tests" /\ run = Nil)
      PROVE  ForgeOK'
    <2>1. /\ Cardinality(pending) < ForgePending /\ UNCHANGED server
          /\ Forge!Becomes(SetBusy(ui, op), Forge!With(pending, NewRequest(op, "post", run, Nil)), past.failed, Nil)
        BY <1>3, ForgeTerms DEF Forge!Starts, Forge!Room
    <2>2. PICK q : q = NewRequest(op, "post", run, Nil)
        OBVIOUS
    <2>3. IsRequest(q) /\ q.op = op /\ q.stage = "post" /\ q.run = run
        BY <2>2, NewRequestIs
    <2>4. ForgeFits(q)
        BY <1>1, <1>3, <2>3 DEF ForgeFits
    <2>5. SetBusy(ui, op) \in Forge!PageState
        BY <1>1, <1>3 DEF SetBusy, Forge!PageState
    <2>6. Forge!Becomes(SetBusy(ui, op), Forge!With(pending, q), past.failed, Nil)
        BY <2>1, <2>2
    <2>7. (op # "tests" => q.run = ui.selected) /\ q.run \in {ui.selected, Nil}
        BY <1>3, <2>3
    <2> QED BY <2>1, <2>3, <2>4, <2>5, <2>6, <2>7, ForgeStarts
<1>4. CASE Forge!setIssueFilter \/ Forge!sync
    BY <1>2, <1>4 DEF Forge!setIssueFilter, Forge!sync
<1>5. \/ Forge!Starts("trace", "post", ui.selected, Nil)
      \/ Forge!Starts("strict", "post", ui.selected, Nil)
      \/ Forge!Starts("patch", "post", ui.selected, Nil)
      \/ Forge!Starts("tests", "post", Nil, Nil)
      \/ Forge!setIssueFilter \/ Forge!sync
    BY DEF Forge!traceJiraIssue, Forge!runStrictReplay, Forge!runPatchReplay, Forge!promoteRegression, Forge!runRegressionPack
<1>6. ASSUME NEW op \in {"trace", "strict", "patch"}, Forge!Starts(op, "post", ui.selected, Nil) PROVE ForgeOK'
    <2>1. PICK run : run = ui.selected
        OBVIOUS
    <2>2. Forge!Starts(op, "post", run, Nil)
        BY <1>6, <2>1
    <2> QED BY <1>3, <1>6, <2>1, <2>2
<1>7. CASE Forge!Starts("tests", "post", Nil, Nil)
    <2>1. PICK op, run : op = "tests" /\ run = Nil
        OBVIOUS
    <2>2. Forge!Starts(op, "post", run, Nil)
        BY <1>7, <2>1
    <2> QED BY <1>3, <2>1, <2>2
<1> QED BY <1>4, <1>5, <1>6, <1>7

(* An answer to p, after which the requests are those of rest and the page  *)
(* has become v.                                                            *)
LEMMA ForgeReplies ==
    ASSUME ForgeOK, ServerOK', NEW p \in pending, NEW v \in Forge!PageState, NEW rest,
           ForgeRequests(rest), \A q \in rest : ForgeFits(q),
           pending \ {p} \subseteq rest,
           \A q \in rest \ pending : q.run = p.run /\ q.op \in {p.op, "left"} /\ (MaySelect(q) => MaySelect(p)),
           NEW failed, NEW pick, Forge!Becomes(v, rest, failed, pick), past.failed => failed,
           v.selected = ui.selected =>
               /\ {v.strict, v.explor} \subseteq {Nil, ui.selected} \cup past.runs
               /\ v.detail \in {ui.detail, ui.selected} \cup past.runs
               /\ failed \/ v.detail \in {ui.selected} \cup past.runs \/ p.op # "detail" \/ p.run # ui.selected
               /\ v.busy # Nil => v.busy = ui.busy /\ (p.op = ui.busy => \E q \in rest : q.op = p.op),
           v.selected # ui.selected => v.selected \in Run,
           pick # Nil => v.selected = pick,
           pick = Nil => v.selected = ui.selected \/ MaySelect(p)
    PROVE  ForgeOK'
<1>1. (\A q \in pending : ForgeFits(q)) /\ ForgeHolds(ui, pending, past.runs, past.failed) /\ ChoiceInv
    BY DEF ForgeOK
<1>2. ASSUME v.selected = ui.selected PROVE ForgeHolds(v, rest, past.runs, failed)
    <2>1. {v.strict, v.explor} \subseteq {Nil, v.selected} \cup past.runs
        BY <1>2
    <2>2. ASSUME NEW q \in rest, q.op \in {"detail", "strict", "patch"} PROVE q.run \in {v.selected} \cup past.runs
        BY <1>1, <1>2, <2>2 DEF ForgeHolds
    <2>3. \/ failed
          \/ \E q \in rest : q.op = "detail" /\ q.run = v.selected
          \/ v.detail \in {v.selected} \cup past.runs
        BY <1>1, <1>2 DEF ForgeHolds
    <2>4. ASSUME v.busy # Nil PROVE \E q \in rest : q.op = v.busy
        BY <1>1, <1>2, <2>4 DEF ForgeHolds
    <2> QED BY <2>1, <2>2, <2>3, <2>4 DEF ForgeHolds
<1>3. ASSUME pick = Nil, past.pick # Nil PROVE v.selected = ui.selected /\ \A q \in rest : ~MaySelect(q)
    <2>1. \A q \in pending : ~MaySelect(q)
        BY <1>1, <1>3 DEF ChoiceInv
    <2> QED BY <1>3, <2>1
<1> QED BY <1>2, <1>3, ForgeBecomes

LEMMA ForgeSelects == ASSUME ForgeOK, Forge!SelectRun PROVE ForgeOK'
<1>1. PICK r \in 1..ui.runs : Forge!Becomes([ui EXCEPT !.selected = r], pending, past.failed, r)
    BY DEF Forge!SelectRun
<1>2. /\ ForgeRequests(pending) /\ (\A p \in pending : ForgeFits(p)) /\ ServerOK /\ ui \in Forge!PageState
      /\ ForgeHolds(ui, pending, past.runs, past.failed)
    BY DEF ForgeOK, ForgeTypes
<1>3. r \in Run /\ r # Nil
    <2>1. ui.runs \in 0..MaxRuns /\ MaxRuns \in Nat
        BY <1>2, BoundsAssumption DEF Forge!PageState
    <2>2. r \in Run
        BY <2>1 DEF Run
    <2> QED BY <2>2, RunIsNoNil
<1>4. ServerOK'
    BY <1>2 DEF Forge!SelectRun, ServerOK
<1>5. PICK v : v = [ui EXCEPT !.selected = r]
    OBVIOUS
<1>6. /\ v \in Forge!PageState /\ v.selected = r /\ v.strict = ui.strict /\ v.explor = ui.explor
      /\ v.detail = ui.detail /\ v.busy = ui.busy
    BY <1>2, <1>3, <1>5, ForgeTerms DEF Forge!PageState
<1>7. ASSUME v.selected = ui.selected PROVE ForgeHolds(v, pending, past.runs, past.failed)
    BY <1>2, <1>6, <1>7 DEF ForgeHolds
<1>8. PICK failed : failed = past.failed
    OBVIOUS
<1>9. Forge!Becomes(v, pending, failed, r) /\ (v.selected = ui.selected => ForgeHolds(v, pending, past.runs, failed))
    BY <1>1, <1>5, <1>7, <1>8
<1> QED BY <1>2, <1>3, <1>4, <1>6, <1>9, ForgeBecomes

(* The handler of p goes on, to its next stage.                             *)
LEMMA ForgeGoesOn ==
    ASSUME ForgeOK, ServerOK', NEW p \in pending, NEW stage \in {"runs", "tests", "detail"},
           stage = "runs" => p.op \in {"refresh", "trace"}, stage = "detail" => p.op = "strict", p.op # "detail",
           stage = "tests" \/ p.stage # "tests"
    PROVE  /\ ForgeRequests(Forge!Onward(p, stage)) /\ \A q \in Forge!Onward(p, stage) : ForgeFits(q)
           /\ pending \ {p} \subseteq Forge!Onward(p, stage)
           /\ \A q \in Forge!Onward(p, stage) \ pending :
                  q.run = p.run /\ q.op \in {p.op, "left"} /\ (MaySelect(q) => MaySelect(p))
           /\ \E q \in Forge!Onward(p, stage) : q.op = p.op
<1>1. ForgeRequests(pending) /\ \A q \in pending : ForgeFits(q)
    BY DEF ForgeOK
<1>2. PICK r : /\ Forge!Onward(p, stage) = (pending \ {p}) \cup {r}
               /\ r.op = p.op /\ r.stage = stage /\ r.run = p.run
               /\ stage \in {"list", "lists", "runs"} => r.seen \in SeenState
    BY <1>1, ForgeOnward
<1>3. ForgeFits(r)
    BY <1>1, <1>2 DEF ForgeFits
<1>4. MaySelect(r) => MaySelect(p)
    BY <1>2 DEF MaySelect
<1>5. ForgeRequests(Forge!Onward(p, stage))
    BY <1>1, ForgeOnward
<1> QED BY <1>1, <1>2, <1>3, <1>4, <1>5

LEMMA ForgeReturns ==
    ASSUME ForgeOK, NEW p \in pending
    PROVE  /\ ForgeRequests(Forge!Gone(p)) /\ \A q \in Forge!Gone(p) : ForgeFits(q)
           /\ Forge!Gone(p) = pending \ {p}
<1>1. ForgeRequests(pending) /\ \A q \in pending : ForgeFits(q)
    BY DEF ForgeOK
<1> QED BY <1>1, ForgeGone

(* The finally of a handler ends the spinner; that of a list whose refresh  *)
(* has failed leaves it.                                                    *)
LEMMA ForgeEnds ==
    ASSUME NEW v \in Forge!PageState, NEW p
    PROVE  /\ Forge!Finally(v, p) \in Forge!PageState /\ Forge!Finally(v, p).selected = v.selected
           /\ Forge!Finally(v, p).strict = v.strict /\ Forge!Finally(v, p).explor = v.explor
           /\ Forge!Finally(v, p).detail = v.detail
           /\ Forge!Finally(v, p).busy # Nil => Forge!Finally(v, p).busy = v.busy /\ p.op # v.busy
<1>1. CASE p.op = "left"
    <2>1. "left" # v.busy \/ v.busy = Nil
        BY DEF Forge!PageState
    <2> QED BY <1>1, <2>1 DEF Forge!Finally
<1>2. CASE p.op # "left"
    <2>1. PICK u : u = Forge!Finally(v, p)
        OBVIOUS
    <2>2. u = [v EXCEPT !.busy = Nil]
        BY <1>2, <2>1 DEF Forge!Finally, Forge!SetBusy
    <2>3. u \in Forge!PageState /\ u.selected = v.selected /\ u.strict = v.strict /\ u.explor = v.explor /\ u.detail = v.detail /\ u.busy = Nil
        BY <2>2 DEF Forge!PageState
    <2> QED BY <2>1, <2>3
<1> QED BY <1>1, <1>2

LEMMA ForgePosts ==
    ASSUME ForgeOK, NEW p \in pending, Forge!PostAnswer(p)
    PROVE  ForgeOK'
<1>1. /\ ForgeFits(p) /\ ServerOK /\ ui \in Forge!PageState
      /\ ForgeHolds(ui, pending, past.runs, past.failed)
    BY DEF ForgeOK, ForgeTypes
<1>2. p.stage = "post" /\ p.op # "detail"
    BY <1>1 DEF Forge!PostAnswer, ForgeFits
<1>3. PICK failed, none : failed = past.failed /\ none = Nil
    OBVIOUS
<1>4. {ui.strict, ui.explor} \subseteq {Nil, ui.selected} \cup past.runs
    BY <1>1 DEF ForgeHolds
<1>5. p.op \in {"strict", "patch"} => p.run \in {ui.selected} \cup past.runs
    BY <1>1 DEF ForgeHolds
<1>6. CASE p.op = "trace"
    <2>1. /\ RecordRun
          /\ Forge!Becomes([ui EXCEPT !.selected = server.runs + 1], Forge!Onward(p, "runs"), past.failed, server.runs + 1)
        BY <1>6, ForgeTerms DEF Forge!PostAnswer
    <2>2. ServerOK' /\ server'.runs = server.runs + 1
        BY <1>1, <2>1, RecordRunIs
    <2>3. PICK r : r = server.runs + 1
        OBVIOUS
    <2>4. r \in Run /\ r # Nil
        <3>1. server.runs \in 0..MaxRuns /\ server.runs < MaxRuns /\ MaxRuns \in Nat
            BY <1>1, <2>1, BoundsAssumption, ServerIs DEF ServerOK, RecordRun
        <3>2. r \in Run
            BY <2>3, <3>1 DEF Run
        <3> QED BY <3>2, RunIsNoNil
    <2>5. PICK v : v = [ui EXCEPT !.selected = r]
        OBVIOUS
    <2>6. /\ v \in Forge!PageState /\ v.selected = r /\ v.strict = ui.strict /\ v.explor = ui.explor
          /\ v.detail = ui.detail /\ v.busy = ui.busy
        BY <1>1, <2>4, <2>5, ForgeTerms DEF Forge!PageState
    <2>7. PICK stage : stage = "runs"
        OBVIOUS
    <2>8. PICK rest : rest = Forge!Onward(p, stage)
        OBVIOUS
    <2>9. /\ ForgeRequests(rest) /\ (\A q \in rest : ForgeFits(q)) /\ pending \ {p} \subseteq rest
          /\ \A q \in rest \ pending : q.run = p.run /\ q.op \in {p.op, "left"} /\ (MaySelect(q) => MaySelect(p))
          /\ \E q \in rest : q.op = p.op
        BY <1>2, <1>6, <2>2, <2>7, <2>8, ForgeGoesOn
    <2>10. Forge!Becomes(v, rest, failed, r)
        BY <1>3, <2>1, <2>3, <2>5, <2>7, <2>8
    <2> QED BY <1>2, <1>3, <1>4, <2>2, <2>4, <2>6, <2>9, <2>10, ForgeReplies
<1>7. CASE p.op = "strict"
    <2>1. /\ UNCHANGED server
          /\ Forge!Becomes([ui EXCEPT !.strict = p.run], Forge!Onward(p, "detail"), past.failed, Nil)
        BY <1>7 DEF Forge!PostAnswer
    <2>2. ServerOK'
        BY <1>1, <2>1 DEF ServerOK
    <2>3. PICK v, stage : v = [ui EXCEPT !.strict = p.run] /\ stage = "detail"
        OBVIOUS
    <2>4. /\ v \in Forge!PageState /\ v.selected = ui.selected /\ v.strict = p.run /\ v.explor = ui.explor
          /\ v.detail = ui.detail /\ v.busy = ui.busy
        BY <1>1, <2>3, ForgeTerms DEF Forge!PageState, ForgeFits
    <2>5. PICK rest : rest = Forge!Onward(p, stage)
        OBVIOUS
    <2>6. /\ ForgeRequests(rest) /\ (\A q \in rest : ForgeFits(q)) /\ pending \ {p} \subseteq rest
          /\ \A q \in rest \ pending : q.run = p.run /\ q.op \in {p.op, "left"} /\ (MaySelect(q) => MaySelect(p))
          /\ \E q \in rest : q.op = p.op
        BY <1>2, <1>7, <2>2, <2>3, <2>5, ForgeGoesOn
    <2>7. Forge!Becomes(v, rest, failed, none)
        BY <1>3, <2>1, <2>3, <2>5
    <2> QED BY <1>2, <1>3, <1>4, <1>5, <1>7, <2>2, <2>4, <2>6, <2>7, ForgeReplies
<1>8. CASE p.op = "patch"
    <2>1. /\ UNCHANGED server
          /\ Forge!Becomes(Forge!Finally([ui EXCEPT !.explor = p.run], p), Forge!Gone(p), past.failed, Nil)
        BY <1>8 DEF Forge!PostAnswer
    <2>2. ServerOK'
        BY <1>1, <2>1 DEF ServerOK
    <2>3. PICK u : u = [ui EXCEPT !.explor = p.run]
        OBVIOUS
    <2>4. /\ u \in Forge!PageState /\ u.selected = ui.selected /\ u.strict = ui.strict /\ u.explor = p.run
          /\ u.detail = ui.detail /\ u.busy = ui.busy
        BY <1>1, <2>3, ForgeTerms DEF Forge!PageState, ForgeFits
    <2>5. PICK v, rest : v = Forge!Finally(u, p) /\ rest = Forge!Gone(p)
        OBVIOUS
    <2>6. /\ v \in Forge!PageState /\ v.selected = u.selected /\ v.strict = u.strict /\ v.explor = u.explor
          /\ v.detail = u.detail /\ (v.busy # Nil => v.busy = u.busy /\ p.op # u.busy)
        BY <2>4, <2>5, ForgeEnds
    <2>7. ForgeRequests(rest) /\ (\A q \in rest : ForgeFits(q)) /\ rest = pending \ {p}
        BY <2>5, ForgeReturns
    <2>8. Forge!Becomes(v, rest, failed, none)
        BY <1>3, <2>1, <2>3, <2>5
    <2> QED BY <1>2, <1>3, <1>4, <1>5, <1>8, <2>2, <2>4, <2>6, <2>7, <2>8, ForgeReplies
<1>9. CASE p.op = "tests"
    <2>1. UNCHANGED server /\ Forge!Becomes(ui, Forge!Onward(p, "tests"), past.failed, Nil)
        BY <1>9 DEF Forge!PostAnswer
    <2>2. ServerOK'
        BY <1>1, <2>1 DEF ServerOK
    <2>3. PICK v, stage : v = ui /\ stage = "tests"
        OBVIOUS
    <2>4. PICK rest : rest = Forge!Onward(p, stage)
        OBVIOUS
    <2>5. /\ ForgeRequests(rest) /\ (\A q \in rest : ForgeFits(q)) /\ pending \ {p} \subseteq rest
          /\ \A q \in rest \ pending : q.run = p.run /\ q.op \in {p.op, "left"} /\ (MaySelect(q) => MaySelect(p))
          /\ \E q \in rest : q.op = p.op
        BY <1>2, <1>9, <2>2, <2>3, <2>4, ForgeGoesOn
    <2>6. Forge!Becomes(v, rest, failed, none) /\ v \in Forge!PageState
        BY <1>1, <1>3, <2>1, <2>3, <2>4
    <2> QED BY <1>2, <1>3, <1>4, <2>2, <2>3, <2>5, <2>6, ForgeReplies
<1> QED BY <1>6, <1>7, <1>8, <1>9 DEF Forge!PostAnswer

(* A list of runs comes; without a run in its closure it selects one.       *)
LEMMA ForgeRuns ==
    ASSUME ForgeOK, NEW p \in pending, Forge!RunsCome(p)
    PROVE  ForgeOK'
<1>1. /\ ForgeFits(p) /\ ServerOK /\ ui \in Forge!PageState
      /\ ForgeHolds(ui, pending, past.runs, past.failed)
    BY DEF ForgeOK, ForgeTypes
<1>2. p.stage \in {"lists", "runs"} /\ p.op \in {"refresh", "left", "trace"} /\ p.seen \in SeenState /\ UNCHANGED server
    BY <1>1 DEF Forge!RunsCome, ForgeFits
<1>3. PICK n \in p.seen.runs..server.runs :
          \E first \in IF p.run = Nil THEN 1..n \cup {ui.selected} ELSE {ui.selected} :
              LET v == [ui EXCEPT !.runs = n, !.selected = first]
              IN  IF p.stage = "lists" \/ p.op = "trace"
                  THEN Forge!Becomes(v, Forge!Onward(p, "tests"), past.failed, Nil)
                  ELSE Forge!Becomes(Forge!Finally(v, p), Forge!Gone(p), past.failed, Nil)
    BY DEF Forge!RunsCome
<1>4. PICK first \in IF p.run = Nil THEN 1..n \cup {ui.selected} ELSE {ui.selected} :
          LET v == [ui EXCEPT !.runs = n, !.selected = first]
          IN  IF p.stage = "lists" \/ p.op = "trace"
              THEN Forge!Becomes(v, Forge!Onward(p, "tests"), past.failed, Nil)
              ELSE Forge!Becomes(Forge!Finally(v, p), Forge!Gone(p), past.failed, Nil)
    BY <1>3
<1>5. PICK u : u = [ui EXCEPT !.runs = n, !.selected = first]
    OBVIOUS
<1>6. n \in 0..MaxRuns
    <2>1. p.seen.runs \in 0..MaxRuns /\ server.runs \in 0..MaxRuns /\ MaxRuns \in Nat
        BY <1>1, <1>2, BoundsAssumption, ServerIs DEF ServerOK, SeenState
    <2> QED BY <2>1
<1>7. first = ui.selected \/ (p.run = Nil /\ first \in Run)
    <2>1. ASSUME p.run = Nil, first \in 1..n PROVE first \in Run
        <3>1. MaxRuns \in Nat
            BY BoundsAssumption
        <3> QED BY <1>6, <2>1, <3>1 DEF Run
    <2> QED BY <2>1
<1>8. /\ u \in Forge!PageState /\ u.selected = first /\ u.strict = ui.strict /\ u.explor = ui.explor
      /\ u.detail = ui.detail /\ u.busy = ui.busy
    BY <1>1, <1>5, <1>6, <1>7, ForgeTerms DEF Forge!PageState
<1>9. PICK failed, none, stage : failed = past.failed /\ none = Nil /\ stage = "tests"
    OBVIOUS
<1>10. {ui.strict, ui.explor} \subseteq {Nil, ui.selected} \cup past.runs
    BY <1>1 DEF ForgeHolds
<1>11. ServerOK' /\ p.op # "detail"
    BY <1>1, <1>2 DEF ServerOK
<1>12. first = ui.selected \/ MaySelect(p)
    BY <1>2, <1>7 DEF MaySelect
<1>13. first # ui.selected => first \in Run
    BY <1>7
<1>14. CASE p.stage = "lists" \/ p.op = "trace"
    <2>1. PICK rest : rest = Forge!Onward(p, stage)
        OBVIOUS
    <2>2. Forge!Becomes(u, rest, failed, none)
        BY <1>4, <1>5, <1>9, <1>14, <2>1
    <2>3. /\ ForgeRequests(rest) /\ (\A q \in rest : ForgeFits(q)) /\ pending \ {p} \subseteq rest
          /\ \A q \in rest \ pending : q.run = p.run /\ q.op \in {p.op, "left"} /\ (MaySelect(q) => MaySelect(p))
          /\ \E q \in rest : q.op = p.op
        BY <1>2, <1>9, <1>11, <2>1, ForgeGoesOn
    <2> QED BY <1>8, <1>9, <1>10, <1>11, <1>12, <1>13, <2>2, <2>3, ForgeReplies
<1>15. CASE ~(p.stage = "lists" \/ p.op = "trace")
    <2>1. PICK v, rest : v = Forge!Finally(u, p) /\ rest = Forge!Gone(p)
        OBVIOUS
    <2>2. Forge!Becomes(v, rest, failed, none)
        BY <1>4, <1>5, <1>9, <1>15, <2>1
    <2>3. /\ v \in Forge!PageState /\ v.selected = u.selected /\ v.strict = u.strict /\ v.explor = u.explor
          /\ v.detail = u.detail /\ (v.busy # Nil => v.busy = u.busy /\ p.op # u.busy)
        BY <1>8, <2>1, ForgeEnds
    <2>4. ForgeRequests(rest) /\ (\A q \in rest : ForgeFits(q)) /\ rest = pending \ {p}
        BY <2>1, ForgeReturns
    <2> QED BY <1>8, <1>9, <1>10, <1>11, <1>12, <1>13, <2>2, <2>3, <2>4, ForgeReplies
<1> QED BY <1>14, <1>15

LEMMA ForgeTests ==
    ASSUME ForgeOK, NEW p \in pending, Forge!TestsCome(p)
    PROVE  ForgeOK'
<1>1. /\ ForgeFits(p) /\ ServerOK /\ ui \in Forge!PageState
      /\ ForgeHolds(ui, pending, past.runs, past.failed)
    BY DEF ForgeOK, ForgeTypes
<1>2. p.stage \in {"lists", "tests"} /\ p.op # "detail" /\ UNCHANGED server
    BY <1>1 DEF Forge!TestsCome, ForgeFits
<1>3. PICK failed, none, stage : failed = past.failed /\ none = Nil /\ stage = "runs"
    OBVIOUS
<1>4. {ui.strict, ui.explor} \subseteq {Nil, ui.selected} \cup past.runs
    BY <1>1 DEF ForgeHolds
<1>5. ServerOK'
    BY <1>1, <1>2 DEF ServerOK
<1>6. CASE p.stage = "lists"
    <2>1. PICK v, rest : v = ui /\ rest = Forge!Onward(p, stage)
        OBVIOUS
    <2>2. Forge!Becomes(v, rest, failed, none) /\ v \in Forge!PageState
        BY <1>1, <1>3, <1>6, <2>1 DEF Forge!TestsCome
    <2>3. p.op = "refresh"
        BY <1>1, <1>6 DEF ForgeFits
    <2>4. /\ ForgeRequests(rest) /\ (\A q \in rest : ForgeFits(q)) /\ pending \ {p} \subseteq rest
          /\ \A q \in rest \ pending : q.run = p.run /\ q.op \in {p.op, "left"} /\ (MaySelect(q) => MaySelect(p))
          /\ \E q \in rest : q.op = p.op
        BY <1>2, <1>3, <1>5, <1>6, <2>1, <2>3, ForgeGoesOn
    <2> QED BY <1>2, <1>3, <1>4, <1>5, <2>1, <2>2, <2>4, ForgeReplies
<1>7. CASE p.stage # "lists"
    <2>1. PICK v, rest : v = Forge!Finally(ui, p) /\ rest = Forge!Gone(p)
        OBVIOUS
    <2>2. Forge!Becomes(v, rest, failed, none)
        BY <1>3, <1>7, <2>1 DEF Forge!TestsCome
    <2>3. /\ v \in Forge!PageState /\ v.selected = ui.selected /\ v.strict = ui.strict /\ v.explor = ui.explor
          /\ v.detail = ui.detail /\ (v.busy # Nil => v.busy = ui.busy /\ p.op # ui.busy)
        BY <1>1, <2>1, ForgeEnds
    <2>4. ForgeRequests(rest) /\ (\A q \in rest : ForgeFits(q)) /\ rest = pending \ {p}
        BY <2>1, ForgeReturns
    <2> QED BY <1>2, <1>3, <1>4, <1>5, <2>2, <2>3, <2>4, ForgeReplies
<1> QED BY <1>6, <1>7

LEMMA ForgeDetails ==
    ASSUME ForgeOK, NEW p \in pending, Forge!DetailAnswer(p)
    PROVE  ForgeOK'
<1>1. /\ ForgeFits(p) /\ ServerOK /\ ui \in Forge!PageState
      /\ ForgeHolds(ui, pending, past.runs, past.failed)
    BY DEF ForgeOK, ForgeTypes
<1>2. /\ p.stage = "detail" /\ p.op \in {"detail", "strict"} /\ p.run \in Run \cup {Nil} /\ UNCHANGED server
      /\ Forge!Becomes(Forge!Finally([ui EXCEPT !.detail = p.run], p), Forge!Gone(p), past.failed, Nil)
    BY <1>1 DEF Forge!DetailAnswer, ForgeFits
<1>3. PICK failed, none : failed = past.failed /\ none = Nil
    OBVIOUS
<1>4. /\ {ui.strict, ui.explor} \subseteq {Nil, ui.selected} \cup past.runs
      /\ p.run \in {ui.selected} \cup past.runs
    BY <1>1, <1>2 DEF ForgeHolds
<1>5. ServerOK'
    BY <1>1, <1>2 DEF ServerOK
<1>6. PICK u : u = [ui EXCEPT !.detail = p.run]
    OBVIOUS
<1>7. /\ u \in Forge!PageState /\ u.selected = ui.selected /\ u.strict = ui.strict /\ u.explor = ui.explor
      /\ u.detail = p.run /\ u.busy = ui.busy
    BY <1>1, <1>2, <1>6, ForgeTerms DEF Forge!PageState
<1>8. PICK v, rest : v = Forge!Finally(u, p) /\ rest = Forge!Gone(p)
    OBVIOUS
<1>9. /\ v \in Forge!PageState /\ v.selected = u.selected /\ v.strict = u.strict /\ v.explor = u.explor
      /\ v.detail = u.detail /\ (v.busy # Nil => v.busy = u.busy /\ p.op # u.busy)
    BY <1>7, <1>8, ForgeEnds
<1>10. ForgeRequests(rest) /\ (\A q \in rest : ForgeFits(q)) /\ rest = pending \ {p}
    BY <1>8, ForgeReturns
<1>11. Forge!Becomes(v, rest, failed, none)
    BY <1>2, <1>3, <1>6, <1>8
<1> QED BY <1>3, <1>4, <1>5, <1>7, <1>9, <1>10, <1>11, ForgeReplies

(* A request fails; the other list of its refresh may still come.           *)
LEMMA ForgeFails ==
    ASSUME ForgeOK, NEW p \in pending, Forge!Fail(p)
    PROVE  ForgeOK'
<1>1. /\ ForgeFits(p) /\ ServerOK /\ ui \in Forge!PageState /\ ForgeRequests(pending)
      /\ \A q \in pending : ForgeFits(q)
      /\ ForgeHolds(ui, pending, past.runs, past.failed)
    BY DEF ForgeOK, ForgeTypes
<1>2. {ui.strict, ui.explor} \subseteq {Nil, ui.selected} \cup past.runs
    BY <1>1 DEF ForgeHolds
<1>3. ServerOK'
    BY <1>1 DEF ServerOK, Forge!Fail
<1>4. PICK v, none : v = Forge!Finally(ui, p) /\ none = Nil
    OBVIOUS
<1>5. /\ v \in Forge!PageState /\ v.selected = ui.selected /\ v.strict = ui.strict /\ v.explor = ui.explor
      /\ v.detail = ui.detail /\ (v.busy # Nil => v.busy = ui.busy /\ p.op # ui.busy)
    BY <1>1, <1>4, ForgeEnds
<1>6. CASE Forge!Becomes(Forge!Finally(ui, p), Forge!Gone(p),
                         past.failed \/ (p.op = "detail" /\ p.run = ui.selected), Nil)
    <2>1. PICK rest : rest = Forge!Gone(p)
        OBVIOUS
    <2>2. PICK failed \in BOOLEAN : failed <=> past.failed \/ (p.op = "detail" /\ p.run = ui.selected)
        OBVIOUS
    <2>3. Forge!Becomes(v, rest, failed, none)
        <3>1. PICK f : f = (past.failed \/ (p.op = "detail" /\ p.run = ui.selected))
            OBVIOUS
        <3>2. f = failed
            BY <2>2, <3>1
        <3>3. Forge!Becomes(v, rest, f, none)
            BY <1>4, <1>6, <2>1, <3>1
        <3> QED BY <3>2, <3>3
    <2>4. ForgeRequests(rest) /\ (\A q \in rest : ForgeFits(q)) /\ rest = pending \ {p}
        BY <2>1, ForgeReturns
    <2> QED BY <1>2, <1>3, <1>4, <1>5, <2>2, <2>3, <2>4, ForgeReplies
<1>7. CASE /\ p.stage = "lists"
           /\ Forge!Becomes(Forge!Finally(ui, p), Forge!With(Forge!Gone(p), [p EXCEPT !.op = "left", !.stage = "runs"]),
                            past.failed, Nil)
    <2>1. PICK q : q = [p EXCEPT !.op = "left", !.stage = "runs"]
        OBVIOUS
    <2>2. PICK no, op, s, run, arg, n : p = [no |-> no, op |-> op, stage |-> s, run |-> run, arg |-> arg, seen |-> n]
        BY <1>1 DEF ForgeRequests, IsRequest
    <2>3. q = [no |-> no, op |-> "left", stage |-> "runs", run |-> run, arg |-> arg, seen |-> n]
        BY <2>1, <2>2
    <2>4. IsRequest(q) /\ q.op = "left" /\ q.stage = "runs" /\ q.run = p.run /\ q.seen = p.seen
        BY <2>2, <2>3 DEF IsRequest
    <2>5. PICK rest : rest = Forge!With(Forge!Gone(p), q)
        OBVIOUS
    <2>6. ForgeRequests(Forge!Gone(p)) /\ Cardinality(Forge!Gone(p)) < ForgePending /\ Forge!Gone(p) = pending \ {p}
        BY <1>1, ForgeGone
    <2>7. /\ ForgeRequests(rest)
          /\ \E r : rest = (pending \ {p}) \cup {r} /\ r.op = q.op /\ r.stage = q.stage /\ r.run = q.run /\ r.seen = q.seen
        <3>1. PICK S : S = Forge!Gone(p)
            OBVIOUS
        <3>2. ForgeRequests(S) /\ Cardinality(S) < ForgePending /\ IsRequest(q) /\ rest = Forge!With(S, q) /\ S = pending \ {p}
            BY <2>4, <2>5, <2>6, <3>1
        <3> QED BY <3>2, ForgeAdds
    <2>8. PICK r : rest = (pending \ {p}) \cup {r} /\ r.op = q.op /\ r.stage = q.stage /\ r.run = q.run /\ r.seen = q.seen
        BY <2>7
    <2>9. p.op = "refresh"
        BY <1>1, <1>7 DEF ForgeFits
    <2>10. ForgeFits(r)
        BY <1>1, <1>7, <2>4, <2>8 DEF ForgeFits
    <2>11. MaySelect(r) => MaySelect(p)
        BY <1>7, <2>4, <2>8, <2>9 DEF MaySelect
    <2>12. PICK failed : failed = past.failed
        OBVIOUS
    <2>13. Forge!Becomes(v, rest, failed, none)
        BY <1>4, <1>7, <2>1, <2>5, <2>12
    <2>14. /\ \A t \in rest : ForgeFits(t)
           /\ pending \ {p} \subseteq rest
           /\ \A t \in rest \ pending : t.run = p.run /\ t.op \in {p.op, "left"} /\ (MaySelect(t) => MaySelect(p))
        BY <1>1, <2>4, <2>8, <2>10, <2>11
    <2> QED BY <1>2, <1>3, <1>4, <1>5, <2>7, <2>9, <2>12, <2>13, <2>14, ForgeReplies
<1> QED BY <1>6, <1>7 DEF Forge!Fail

LEMMA ForgeStep == ForgeInv /\ [Next]_consolevars => ForgeInv'
<1> SUFFICES ASSUME ForgeInv, [Next]_consolevars, view = "forge" PROVE ForgeOK'
    BY DEF ForgeInv, Next, consolevars
<1>1. ForgeOK /\ (Forge!Next \/ UNCHANGED <<server, pending, ui, past>>)
    BY DEF ForgeInv, Next, consolevars, clientvars
<1>2. CASE UNCHANGED <<server, pending, ui, past>>
    BY <1>1, <1>2 DEF ForgeOK, ForgeRequests, ServerOK, ForgeTypes, ForgeHolds, ChoiceInv
<1>3. CASE Forge!Answers
    <2>1. PICK p \in pending : Forge!PostAnswer(p) \/ Forge!RunsCome(p) \/ Forge!TestsCome(p) \/ Forge!DetailAnswer(p) \/ Forge!Fail(p)
        BY <1>3 DEF Forge!Answers
    <2> QED BY <1>1, <2>1, ForgePosts, ForgeRuns, ForgeTests, ForgeDetails, ForgeFails
<1> QED BY <1>1, <1>2, <1>3, ForgeClicks, ForgeSelects DEF Forge!Next

LEMMA ForgeShows ==
    ASSUME ForgeOK
    PROVE  Forge!ShowsSelected /\ Forge!ChoiceStays /\ Forge!NeverStuck
<1>1. ForgeHolds(ui, pending, past.runs, past.failed) /\ ChoiceInv
    BY DEF ForgeOK
<1>2. Forge!ShowsSelected
    <2>1. \A p \in pending : p.op = "detail" /\ p.run = ui.selected => p \in Forge!DetailsAwaited
        BY DEF Forge!DetailsAwaited, Forge!Waiting
    <2> QED BY <1>1, <2>1 DEF ForgeHolds, Forge!ShowsSelected
<1>3. Forge!NeverStuck
    BY <1>1 DEF ForgeHolds, Forge!NeverStuck, Forge!Waiting
<1> QED BY <1>1, <1>2, <1>3 DEF ChoiceInv, Forge!ChoiceStays
-----------------------------------------------------------------------------
(* The studio waits for an answer as long as a button of it is busy.        *)
StudioBusy == view = "studio" => StudioInv /\ BusyInv

LEMMA StudioWaits == (Init => StudioBusy) /\ (StudioBusy /\ [Next]_consolevars => StudioBusy')
<1>1. ASSUME Init, view = "studio" PROVE BusyInv
    <2>1. PICK r : ui = Studio!Blank(r) /\ pending = {NewRequest("load", "detail", r, Nil)}
        BY <1>1, StudioTerms DEF Init, Studio!Mount
    <2>2. ui.busy = "load" /\ (\A p \in pending : p.op = "load") /\ \E p \in pending : TRUE
        BY <2>1, MountedIs DEF Studio!Blank, IsOf
    <2> QED BY <2>2 DEF BusyInv
<1>2. ASSUME StudioBusy, [Next]_consolevars, view = "studio" PROVE StudioInv' /\ BusyInv'
    <2>1. StudioInv /\ BusyInv /\ (Studio!Next \/ UNCHANGED <<pending, ui>>)
        BY <1>2 DEF StudioBusy, Next, consolevars, clientvars
    <2>2. StudioInv'
        BY <1>2, <2>1, StudioStep
    <2>3. PendingOK /\ ui \in Studio!PageState
        BY <1>2, <2>1 DEF StudioInv
    <2>4. CASE UNCHANGED <<pending, ui>>
        BY <2>1, <2>2, <2>4 DEF BusyInv
    <2>5. ASSUME NEW op, NEW arg, Send(op, "post", ui.run, arg), ui' = SetBusy(ui, op) PROVE BusyInv'
        <3>1. PICK r : pending' = pending \cup {r} /\ r.op = op
            BY <2>3, <2>5, SentIs DEF IsOf
        <3>2. ui'.busy = op
            BY <2>3, <2>5 DEF SetBusy, Studio!PageState
        <3> QED BY <3>1, <3>2 DEF BusyInv
    <2>6. CASE Studio!runStrict \/ Studio!runExploratory \/ Studio!promote
        <3>1. \E op, arg : Send(op, "post", ui.run, arg) /\ ui' = SetBusy(ui, op)
            BY <2>6, StudioTerms DEF Studio!runStrict, Studio!runExploratory, Studio!promote
        <3> QED BY <2>2, <2>5, <3>1
    <2>7. CASE Studio!Answers
        <3>1. ui'.busy = Nil
            BY <2>3, <2>7 DEF Studio!Answers, Studio!LoadAnswer, Studio!StrictAnswer, Studio!ExploratoryAnswer,
                Studio!PromoteAnswer, Studio!Fail, Studio!SetBusy, Studio!PageState
        <3> QED BY <2>2, <3>1 DEF BusyInv
    <2> QED BY <2>1, <2>2, <2>4, <2>6, <2>7 DEF Studio!Next
<1>3. ASSUME StudioBusy, [Next]_consolevars, view # "studio" PROVE view' # "studio"
    BY <1>3 DEF Next, consolevars
<1> QED BY <1>1, <1>2, <1>3, StudioMounts DEF StudioBusy

(* What is shown with a run is of that run, or of one that a request was    *)
(* pending for when the view turned to it: in the Jira panel, in the drift  *)
(* dialog of a trace and on the Forge page, where a chosen run stays        *)
(* selected.  On the page of a trace so is the trace; its replay, its       *)
(* simulation and its "saved" may also have been shown before the turn.     *)
THEOREM ShowsSelectedCorrect == Spec => []ShowsSelected
<1>1. PanelInv /\ TraceInv /\ ModalInv /\ ForgeInv => ShowsSelected
    <2> SUFFICES ASSUME PanelInv, TraceInv, ModalInv, ForgeInv PROVE ShowsSelected
        OBVIOUS
    <2>1. ASSUME view = "panel" PROVE Panel!ShowsSelected
        <3>1. ShowsInv
            BY <2>1 DEF PanelInv, PanelOK, PanelRest
        <3>2. Panel!Screen = "run" => ui.detail # Nil
            BY DEF Panel!Screen
        <3> QED BY <3>1, <3>2 DEF ShowsInv, Panel!ShowsSelected
    <2>2. ASSUME view = "trace" PROVE Trace!ShowsRoute
        <3>1. RouteInv /\ ResultsInv
            BY <2>2 DEF TraceInv, TraceOK
        <3> QED BY <3>1, TraceTerms DEF RouteInv, ResultsInv, Trace!ShowsRoute, Waiting
    <2>3. ASSUME view = "modal" PROVE Modal!ShowsOwnRun
        BY <2>3 DEF ModalInv, ModalOK, Modal!ShowsOwnRun
    <2>4. ASSUME view = "forge" PROVE Forge!ShowsSelected /\ Forge!ChoiceStays
        BY <2>4, ForgeShows DEF ForgeInv
    <2> QED BY <2>1, <2>2, <2>3, <2>4 DEF ShowsSelected
<1> QED BY <1>1, PanelMounts, PanelStep, TraceMounts, TraceStep, ModalMounts, ModalStep, ForgeMounts, ForgeStep,
        PTL DEF Spec

(* A view that looks busy waits for an answer: on every page of the console *)
(* the spinners end and the buttons come back, also when requests fail and  *)
(* when what is shown changed under them.                                   *)
THEOREM NeverStuckCorrect == Spec => []NeverStuck
<1>1. /\ PanelInv /\ TraceInv /\ StudioBusy /\ CardInv /\ ModalInv
      /\ TracesInv /\ DriftInv /\ TestsInv /\ HomeInv /\ ForgeInv
      => NeverStuck
    <2> SUFFICES ASSUME PanelInv, TraceInv, StudioBusy, CardInv, ModalInv, TracesInv, DriftInv, TestsInv, HomeInv, ForgeInv
                 PROVE  NeverStuck
        OBVIOUS
    <2>1. view = "panel" => Panel!NeverStuck
        BY DEF PanelInv, PanelOK, PanelRest, BusyInv, SpinnerInv, Panel!NeverStuck
    <2>2. view = "trace" => Trace!NeverStuck
        BY TraceTerms DEF TraceInv, TraceOK, BusyInv, Trace!NeverStuck, Waiting
    <2>3. view = "studio" => Studio!NeverStuck
        BY DEF StudioBusy, BusyInv, Studio!NeverStuck, Studio!Waiting
    <2>4. view = "card" => Card!NeverStuck
        BY DEF CardInv
    <2>5. view = "modal" => Modal!NeverStuck
        BY DEF ModalInv, ModalOK
    <2>6. view = "drift" => Drift!NeverStuck
        BY DEF DriftInv, DriftOK
    <2>7. view = "forge" => Forge!NeverStuck
        BY ForgeShows DEF ForgeInv
    <2>8. /\ view = "traces" => Traces!NeverStuck
          /\ view = "tests" => Tests!NeverStuck
          /\ view = "home" => Home!NeverStuck
        BY TracesShow, TestsShow, HomeShows DEF TracesInv, TestsInv, HomeInv
    <2> QED BY <2>1, <2>2, <2>3, <2>4, <2>5, <2>6, <2>7, <2>8 DEF NeverStuck
<1> QED BY <1>1, PanelMounts, PanelStep, TraceMounts, TraceStep, StudioWaits, CardMounts, CardInvHolds,
        ModalMounts, ModalStep, TracesMounts, TracesStep, DriftMounts, DriftStep, TestsMounts, TestsStep,
        HomeMounts, HomeStep, ForgeMounts, ForgeStep, PTL DEF Spec
-----------------------------------------------------------------------------
(* Which step is inspected.  Unless it was misnamed, the marked node is the *)
(* one of the step; a recorded step is one of the detail that is shown, a   *)
(* simulated one of the simulation that is shown if none was cleared since. *)
RecordedOf(u, step)  == \E i \in 1..StepCount[u.detail] : step = Picks!Recorded(u.detail, i)
SimulatedOf(u, step) == u.sim # Nil /\ \E i \in 1..u.sim.len : step = Picks!SimStep(u.sim, i)

Drawn(u, cleared, misnamed) ==
    u.detail # Nil /\ u.step # Nil /\ ~misnamed =>
        /\ u.node = <<u.step.branch, u.step.index>>
        /\ u.step.branch = "o" => RecordedOf(u, u.step)
        /\ u.step.branch = "p" /\ ~cleared => SimulatedOf(u, u.step)

PicksOK ==
    /\ ui \in Picks!PickState
    /\ past = [cleared |-> past.cleared, misnamed |-> past.misnamed] /\ {past.cleared, past.misnamed} \subseteq BOOLEAN
    /\ ui.node = Nil <=> ui.step = Nil
    /\ Drawn(ui, past.cleared, past.misnamed)

PicksInv == view = "picks" => PicksOK

(* A sequence that is given element by element.                             *)
LEMMA LenIs ==
    ASSUME NEW n \in Nat, NEW S, NEW s \in [1..n -> S]
    PROVE  s \in Seq(S) /\ Len(s) = n
<1>1. s \in Seq(S)
    BY SeqDef
<1> QED BY <1>1

(* No run has more steps than the longest one.                              *)
LEMMA LastIs ==
    ASSUME NEW r \in Picks!Run
    PROVE  StepCount[r] \in Nat /\ Picks!Last \in Nat /\ StepCount[r] <= Picks!Last
<1> DEFINE counts == {StepCount[q] : q \in Picks!Run}
<1>1. StepCount \in Seq(Nat) /\ Len(StepCount) \in Nat
    BY ConsoleAssumption
<1>2. \A q \in Picks!Run : StepCount[q] \in Nat
    BY <1>1 DEF Picks!Run
<1>3. PICK F : F = counts
    OBVIOUS
<1>4. IsFiniteSet(F)
    <2>1. IsFiniteSet(Picks!Run)
        BY <1>1, FS_Interval DEF Picks!Run
    <2>2. [q \in Picks!Run |-> StepCount[q]] \in Surjection(Picks!Run, F)
        BY <1>3 DEF Surjection
    <2> QED BY <2>1, <2>2, FS_Surjection
<1>5. F \subseteq Nat /\ StepCount[r] \in F
    BY <1>2, <1>3
<1>6. 0 < Cardinality(F)
    <2>1. F # {} /\ Cardinality(F) \in Nat
        BY <1>4, <1>5, FS_CardinalityType
    <2> QED BY <1>4, <2>1, FS_EmptySet
<1>7. PICK most \in F : Cardinality({q \in F : q > most}) = 0
    <2>1. PICK k \in Nat : k = 0
        OBVIOUS
    <2> QED BY <1>4, <1>5, <1>6, <2>1, RankTaken
<1>8. {q \in F : q > most} = {}
    <2>1. IsFiniteSet({q \in F : q > most})
        BY <1>4, FS_Subset
    <2> QED BY <1>7, <2>1, FS_EmptySet
<1>9. most \in Nat /\ \A q \in Picks!Run : StepCount[q] <= most
    BY <1>2, <1>3, <1>5, <1>8
<1>10. PICK last : last = Picks!Last
    OBVIOUS
<1>11. last \in F /\ \A q \in Picks!Run : StepCount[q] <= last
    BY <1>3, <1>9, <1>10 DEF Picks!Last
<1> QED BY <1>2, <1>5, <1>10, <1>11

(* The steps of a run and those of a simulation are steps, in their order.  *)
LEMMA RecordedIs ==
    ASSUME NEW r \in Picks!Run, NEW i \in 1..StepCount[r]
    PROVE  /\ Picks!Recorded(r, i) \in Picks!Step
           /\ Picks!Recorded(r, i).branch = "o" /\ Picks!Recorded(r, i).index = i
           /\ Picks!Recorded(r, i).id \in Picks!StepIds
           /\ i \in 1..(Picks!Last + 1)
<1>1. StepCount[r] \in Nat /\ Picks!Last \in Nat /\ StepCount[r] <= Picks!Last
    BY LastIs
<1>2. i \in 1..Picks!Last /\ i \in 1..(Picks!Last + 1)
    BY <1>1
<1> QED BY <1>2 DEF Picks!Recorded, Picks!Step, Picks!StepIds

LEMMA SimStepIs ==
    ASSUME NEW sim \in [no : 1..MaxReplays, run : Picks!Run, len : 1..(Picks!Last + 1)], NEW i \in 1..sim.len
    PROVE  /\ Picks!SimStep(sim, i) \in Picks!Step
           /\ Picks!SimStep(sim, i).branch = "p" /\ Picks!SimStep(sim, i).index = i
           /\ Picks!SimStep(sim, i).id \in Picks!StepIds \cup {Nil}
           /\ i \in 1..(Picks!Last + 1)
<1>1. sim.run \in Picks!Run /\ sim.no \in 1..MaxReplays /\ sim.len \in 1..(Picks!Last + 1)
    OBVIOUS
<1>2. StepCount[sim.run] \in Nat /\ Picks!Last \in Nat /\ StepCount[sim.run] <= Picks!Last
    BY <1>1, LastIs
<1>3. i \in 1..(Picks!Last + 1) /\ (i <= StepCount[sim.run] => i \in 1..Picks!Last)
    BY <1>1, <1>2
<1>4. PICK id : id = IF i <= StepCount[sim.run] THEN [run |-> sim.run, index |-> i] ELSE Nil
    OBVIOUS
<1>5. id \in Picks!StepIds \cup {Nil}
    BY <1>1, <1>3, <1>4 DEF Picks!StepIds
<1>6. Picks!SimStep(sim, i) = [branch |-> "p", of |-> sim.no, index |-> i, id |-> id]
    BY <1>4 DEF Picks!SimStep
<1> QED BY <1>1, <1>3, <1>5, <1>6 DEF Picks!Step

LEMMA RowsOf ==
    ASSUME NEW u \in Picks!PickState
    PROVE  /\ u.detail # Nil =>
                  /\ u.detail \in Picks!Run /\ StepCount[u.detail] \in Nat
                  /\ DOMAIN Picks!Original(u.detail) = 1..StepCount[u.detail]
                  /\ Len(Picks!Original(u.detail)) = StepCount[u.detail]
                  /\ \A i \in 1..StepCount[u.detail] : Picks!Original(u.detail)[i] = Picks!Recorded(u.detail, i)
           /\ u.sim # Nil => u.sim \in [no : 1..MaxReplays, run : Picks!Run, len : 1..(Picks!Last + 1)] /\ u.sim.len \in Nat
<1>1. ASSUME u.detail # Nil
      PROVE  /\ u.detail \in Picks!Run /\ StepCount[u.detail] \in Nat
             /\ DOMAIN Picks!Original(u.detail) = 1..StepCount[u.detail]
             /\ Len(Picks!Original(u.detail)) = StepCount[u.detail]
             /\ \A i \in 1..StepCount[u.detail] : Picks!Original(u.detail)[i] = Picks!Recorded(u.detail, i)
    <2>1. PICK r \in Picks!Run : r = u.detail
        BY <1>1 DEF Picks!PickState
    <2>2. PICK n \in Nat : n = StepCount[r]
        BY LastIs
    <2>3. PICK s : s = Picks!Original(r)
        OBVIOUS
    <2>4. s = [i \in 1..n |-> Picks!Recorded(r, i)]
        BY <2>2, <2>3 DEF Picks!Original
    <2>5. s \in [1..n -> Picks!Step]
        BY <2>2, <2>4, RecordedIs
    <2>6. Len(s) = n
        BY <2>5, LenIs
    <2> QED BY <2>1, <2>2, <2>3, <2>4, <2>6
<1>2. ASSUME u.sim # Nil
      PROVE  u.sim \in [no : 1..MaxReplays, run : Picks!Run, len : 1..(Picks!Last + 1)] /\ u.sim.len \in Nat
    <2>1. u.sim \in [no : 1..MaxReplays, run : Picks!Run, len : 1..(Picks!Last + 1)]
        BY <1>2 DEF Picks!PickState
    <2>2. u.sim.run \in Picks!Run
        BY <2>1
    <2>3. Picks!Last \in Nat
        BY <2>2, LastIs
    <2> QED BY <2>1, <2>3
<1> QED BY <1>1, <1>2

(* The rows of a simulation that is shown.                                  *)
LEMMA PatchedIs ==
    ASSUME ui \in Picks!PickState, ui.sim # Nil
    PROVE  /\ DOMAIN Picks!patchedSteps = 1..ui.sim.len /\ Len(Picks!patchedSteps) = ui.sim.len
           /\ \A i \in 1..ui.sim.len : Picks!patchedSteps[i] = Picks!SimStep(ui.sim, i)
<1>1. PICK sim : sim = ui.sim
    OBVIOUS
<1>2. sim \in [no : 1..MaxReplays, run : Picks!Run, len : 1..(Picks!Last + 1)] /\ sim.len \in Nat
    BY <1>1, RowsOf
<1>3. PICK n \in Nat : n = sim.len
    BY <1>2
<1>4. PICK s : s = Picks!patchedSteps
    OBVIOUS
<1>5. s = [i \in 1..n |-> Picks!SimStep(sim, i)]
    BY <1>1, <1>3, <1>4 DEF Picks!patchedSteps
<1>6. s \in [1..n -> Picks!Step]
    BY <1>2, <1>3, <1>5, SimStepIs
<1>7. Len(s) = n
    BY <1>6, LenIs
<1> QED BY <1>1, <1>3, <1>4, <1>5, <1>7

LEMMA PicksMounts == Init => PicksInv
<1> SUFFICES ASSUME Init, view = "picks" PROVE PicksOK
    BY DEF PicksInv
<1>1. PICK page \in {"panel", "trace"} :
          ui = [page |-> page, detail |-> Nil, sim |-> Nil, last |-> 0,
                node |-> Nil, step |-> Nil, sid |-> Nil, mode |-> "original"]
    BY DEF Init, Picks!Mount
<1>2. past = [cleared |-> FALSE, misnamed |-> FALSE]
    BY DEF Init, Picks!Mount
<1>3. ui \in Picks!PickState
    BY <1>1, BoundsAssumption DEF Picks!PickState
<1>4. ui.node = Nil /\ ui.step = Nil
    BY <1>1
<1> QED BY <1>2, <1>3, <1>4 DEF PicksOK, Drawn

(* A step is picked in its own node, or nothing is.                         *)
LEMMA PickIs ==
    ASSUME NEW u \in Picks!PickState, NEW step \in Picks!Step, NEW node \in Picks!Node,
           step.id \in Picks!StepIds \cup {Nil}
    PROVE  LET v == Picks!Pick(u, node, step)
           IN  /\ v \in Picks!PickState /\ v.page = u.page /\ v.detail = u.detail /\ v.sim = u.sim
               /\ v.node = node /\ v.step = step /\ v.node # Nil /\ v.step # Nil
<1>1. PICK v : v = Picks!Pick(u, node, step)
    OBVIOUS
<1>2. PICK sid : sid = IF u.page = "trace" \/ step = Nil THEN Nil ELSE step.id
    OBVIOUS
<1>3. v = [u EXCEPT !.node = node, !.step = step, !.sid = sid]
    BY <1>1, <1>2 DEF Picks!Pick
<1>4. sid \in Picks!StepIds \cup {Nil}
    BY <1>2
<1>5. /\ v \in Picks!PickState /\ v.page = u.page /\ v.detail = u.detail /\ v.sim = u.sim
      /\ v.node = node /\ v.step = step
    BY <1>3, <1>4 DEF Picks!PickState
<1> QED BY <1>1, <1>5, PickAssumption

LEMMA NoPick ==
    ASSUME NEW u \in Picks!PickState
    PROVE  LET v == Picks!Pick(u, Nil, Nil)
           IN  /\ v \in Picks!PickState /\ v.page = u.page /\ v.detail = u.detail /\ v.sim = u.sim
               /\ v.node = Nil /\ v.step = Nil
<1>1. PICK v : v = Picks!Pick(u, Nil, Nil)
    OBVIOUS
<1>2. v = [u EXCEPT !.node = Nil, !.step = Nil, !.sid = Nil]
    BY <1>1 DEF Picks!Pick
<1>3. /\ v \in Picks!PickState /\ v.page = u.page /\ v.detail = u.detail /\ v.sim = u.sim
      /\ v.node = Nil /\ v.step = Nil
    BY <1>2 DEF Picks!PickState
<1> QED BY <1>1, <1>3

(* A recorded step of the detail is picked in its node, or a simulated one; *)
(* or a recorded one in the node of the simulated one.                      *)
LEMMA PickedIs ==
    ASSUME NEW u \in Picks!PickState, u.detail # Nil, NEW node, NEW step, NEW misnamed \in BOOLEAN,
           ui' = Picks!Pick(u, node, step), past' = [cleared |-> FALSE, misnamed |-> misnamed],
           RecordedOf(u, step) \/ (SimulatedOf(u, step) /\ ~misnamed),
           node = <<step.branch, step.index>> \/ (misnamed /\ node = <<"p", step.index>>)
    PROVE  PicksOK'
<1>1. /\ step \in Picks!Step /\ step.id \in Picks!StepIds \cup {Nil}
      /\ step.index \in 1..(Picks!Last + 1) /\ step.branch \in {"o", "p"}
      /\ step.branch = "o" => RecordedOf(u, step)
      /\ step.branch = "p" => SimulatedOf(u, step)
    <2>1. CASE RecordedOf(u, step)
        <3>1. PICK r \in Picks!Run : r = u.detail
            BY RowsOf
        <3>2. PICK i \in 1..StepCount[r] : step = Picks!Recorded(r, i)
            BY <2>1, <3>1 DEF RecordedOf
        <3> QED BY <2>1, <3>2, RecordedIs
    <2>2. CASE SimulatedOf(u, step)
        <3>1. PICK sim \in [no : 1..MaxReplays, run : Picks!Run, len : 1..(Picks!Last + 1)] : sim = u.sim
            BY <2>2, RowsOf DEF SimulatedOf
        <3>2. PICK i \in 1..sim.len : step = Picks!SimStep(sim, i)
            BY <2>2, <3>1 DEF SimulatedOf
        <3> QED BY <2>2, <3>2, SimStepIs
    <2> QED BY <2>1, <2>2
<1>2. node \in Picks!Node
    BY <1>1 DEF Picks!Node
<1>3. /\ ui' \in Picks!PickState /\ ui'.detail = u.detail /\ ui'.sim = u.sim
      /\ ui'.node = node /\ ui'.step = step /\ ui'.node # Nil /\ ui'.step # Nil
    BY <1>1, <1>2, PickIs
<1>4. RecordedOf(u, step) => RecordedOf(ui', step)
    BY <1>3 DEF RecordedOf
<1>5. SimulatedOf(u, step) => SimulatedOf(ui', step)
    BY <1>3 DEF SimulatedOf
<1>6. past'.cleared = FALSE /\ past'.misnamed = misnamed
    OBVIOUS
<1>7. Drawn(ui, past.cleared, past.misnamed)'
    BY <1>1, <1>3, <1>4, <1>5, <1>6 DEF Drawn
<1> QED BY <1>3, <1>6, <1>7 DEF PicksOK

LEMMA NothingPicked ==
    ASSUME NEW u \in Picks!PickState, NEW misnamed \in BOOLEAN,
           ui' = Picks!Pick(u, Nil, Nil), past' = [cleared |-> FALSE, misnamed |-> misnamed]
    PROVE  PicksOK'
<1>1. ui' \in Picks!PickState /\ ui'.node = Nil /\ ui'.step = Nil
    BY NoPick
<1>2. past'.cleared = FALSE /\ past'.misnamed = misnamed
    OBVIOUS
<1>3. Drawn(ui, past.cleared, past.misnamed)'
    BY <1>1 DEF Drawn
<1> QED BY <1>1, <1>2, <1>3 DEF PicksOK

(* A detail comes, and its first step is picked.                            *)
LEMMA DetailComes ==
    ASSUME PicksOK, Picks!loadRunDetail \/ Picks!loadDetail
    PROVE  PicksOK'
<1>1. PICK r \in Picks!Run : ui' = Picks!FirstOf(ui, r)
    BY DEF Picks!loadRunDetail, Picks!loadDetail
<1>2. past' = [cleared |-> FALSE, misnamed |-> FALSE]
    BY DEF Picks!loadRunDetail, Picks!loadDetail, Picks!Picked
<1>3. PICK u : u = [ui EXCEPT !.detail = r]
    OBVIOUS
<1>4. u \in Picks!PickState /\ u.detail = r
    BY <1>3 DEF PicksOK, Picks!PickState
<1>5. PICK misnamed \in BOOLEAN : misnamed = FALSE
    OBVIOUS
<1>6. past' = [cleared |-> FALSE, misnamed |-> misnamed]
    BY <1>2, <1>5
<1>7. CASE StepCount[r] = 0
    <2>1. ui' = Picks!Pick(u, Nil, Nil)
        BY <1>1, <1>3, <1>7 DEF Picks!FirstOf
    <2> QED BY <1>4, <1>6, <2>1, NothingPicked
<1>8. CASE StepCount[r] # 0
    <2>1. StepCount[r] \in Nat
        BY LastIs
    <2>2. 1 \in 1..StepCount[r]
        BY <1>8, <2>1
    <2>3. PICK step, node : step = Picks!Recorded(r, 1) /\ node = <<"o", 1>>
        OBVIOUS
    <2>4. ui' = Picks!Pick(u, node, step)
        BY <1>1, <1>3, <1>8, <2>3 DEF Picks!FirstOf
    <2>5. RecordedOf(u, step)
        BY <1>4, <2>2, <2>3 DEF RecordedOf
    <2>6. node = <<step.branch, step.index>>
        BY <2>2, <2>3, RecordedIs
    <2>7. u.detail # Nil
        BY <1>4, NilAssumption, ConsoleAssumption DEF Picks!Run
    <2> QED BY <1>4, <1>6, <2>4, <2>5, <2>6, <2>7, PickedIs
<1> QED BY <1>7, <1>8

(* The panel turns away, a simulation goes or another one comes, or the     *)
(* timeline changes between them: the pick stays.                           *)
LEMMA PickStays ==
    ASSUME PicksOK, Picks!TurnAway \/ Picks!ClearSimulation \/ Picks!SetSimulation \/ Picks!setTimelineMode
    PROVE  PicksOK'
<1>1. /\ ui \in Picks!PickState /\ (ui.node = Nil <=> ui.step = Nil) /\ Drawn(ui, past.cleared, past.misnamed)
      /\ past = [cleared |-> past.cleared, misnamed |-> past.misnamed] /\ {past.cleared, past.misnamed} \subseteq BOOLEAN
    BY DEF PicksOK
<1>2. ASSUME ui' \in Picks!PickState, ui'.node = ui.node, ui'.step = ui.step, ui'.detail \in {Nil, ui.detail},
             past' = [cleared |-> TRUE, misnamed |-> past.misnamed]
      PROVE  PicksOK'
    <2>1. past'.cleared = TRUE /\ past'.misnamed = past.misnamed
        BY <1>2
    <2>2. ui'.detail # Nil => (RecordedOf(ui, ui.step) => RecordedOf(ui', ui.step))
        BY <1>2 DEF RecordedOf
    <2>3. Drawn(ui, past.cleared, past.misnamed)'
        BY <1>1, <1>2, <2>1, <2>2 DEF Drawn
    <2> QED BY <1>1, <1>2, <2>1, <2>3 DEF PicksOK
<1>3. CASE Picks!TurnAway
    <2>1. ui' = [ui EXCEPT !.detail = Nil, !.sim = Nil] /\ past' = [cleared |-> TRUE, misnamed |-> past.misnamed]
        BY <1>3 DEF Picks!TurnAway, Picks!Picked
    <2>2. ui' \in Picks!PickState /\ ui'.node = ui.node /\ ui'.step = ui.step /\ ui'.detail = Nil
        BY <1>1, <2>1 DEF Picks!PickState
    <2> QED BY <1>2, <2>1, <2>2
<1>4. CASE Picks!ClearSimulation
    <2>1. ui' = [ui EXCEPT !.sim = Nil] /\ past' = [cleared |-> TRUE, misnamed |-> past.misnamed]
        BY <1>4 DEF Picks!ClearSimulation, Picks!Picked
    <2>2. ui' \in Picks!PickState /\ ui'.node = ui.node /\ ui'.step = ui.step /\ ui'.detail = ui.detail
        BY <1>1, <2>1 DEF Picks!PickState
    <2> QED BY <1>2, <2>1, <2>2
<1>5. CASE Picks!SetSimulation
    <2>1. PICK r \in Picks!Run : \E n \in 1..(StepCount[r] + 1) :
              ui' = [ui EXCEPT !.sim = [no |-> ui.last + 1, run |-> r, len |-> n], !.last = @ + 1]
        BY <1>5 DEF Picks!SetSimulation
    <2>2. PICK n \in 1..(StepCount[r] + 1) :
              ui' = [ui EXCEPT !.sim = [no |-> ui.last + 1, run |-> r, len |-> n], !.last = @ + 1]
        BY <2>1
    <2>3. past' = [cleared |-> TRUE, misnamed |-> past.misnamed] /\ ui.last < MaxReplays
        BY <1>5 DEF Picks!SetSimulation, Picks!Picked
    <2>4. StepCount[r] \in Nat /\ Picks!Last \in Nat /\ StepCount[r] <= Picks!Last
        BY LastIs
    <2>5. n \in 1..(Picks!Last + 1)
        BY <2>4
    <2>6. ui.last + 1 \in 1..MaxReplays /\ ui.last + 1 \in 0..MaxReplays
        <3>1. ui.last \in 0..MaxReplays /\ MaxReplays \in Nat
            BY <1>1, BoundsAssumption DEF Picks!PickState
        <3> QED BY <2>3, <3>1
    <2>7. PICK sim, last : sim = [no |-> ui.last + 1, run |-> r, len |-> n] /\ last = ui.last + 1
        OBVIOUS
    <2>8. sim \in [no : 1..MaxReplays, run : Picks!Run, len : 1..(Picks!Last + 1)] /\ last \in 0..MaxReplays
        BY <2>5, <2>6, <2>7
    <2>9. ui' = [ui EXCEPT !.sim = sim, !.last = last]
        BY <2>2, <2>7
    <2>10. ui' \in Picks!PickState /\ ui'.node = ui.node /\ ui'.step = ui.step /\ ui'.detail = ui.detail
        BY <1>1, <2>8, <2>9 DEF Picks!PickState
    <2> QED BY <1>2, <2>3, <2>10
<1>6. CASE Picks!setTimelineMode
    <2>1. PICK m \in {"original", "simulated"} : ui' = [ui EXCEPT !.mode = m]
        BY <1>6 DEF Picks!setTimelineMode
    <2>2. past' = past
        BY <1>6 DEF Picks!setTimelineMode
    <2>3. /\ ui' \in Picks!PickState /\ ui'.node = ui.node /\ ui'.step = ui.step
          /\ ui'.detail = ui.detail /\ ui'.sim = ui.sim
        BY <1>1, <2>1 DEF Picks!PickState
    <2>4. RecordedOf(ui, ui.step) => RecordedOf(ui', ui.step)
        BY <2>3 DEF RecordedOf
    <2>5. SimulatedOf(ui, ui.step) => SimulatedOf(ui', ui.step)
        BY <2>3 DEF SimulatedOf
    <2>6. Drawn(ui, past.cleared, past.misnamed)'
        BY <1>1, <2>2, <2>3, <2>4, <2>5 DEF Drawn
    <2> QED BY <1>1, <2>2, <2>3, <2>6 DEF PicksOK
<1> QED BY <1>3, <1>4, <1>5, <1>6

(* The nodes are those of the steps of the detail and of the simulation.    *)
LEMMA NodesAre ==
    ASSUME ui \in Picks!PickState, ui.detail # Nil
    PROVE  /\ \A step : RecordedOf(ui, step) \/ SimulatedOf(ui, step) =>
                  [id |-> <<step.branch, step.index>>, step |-> step] \in Picks!Nodes
           /\ \A n \in Picks!Nodes : /\ RecordedOf(ui, n.step) \/ SimulatedOf(ui, n.step)
                                     /\ n.id = <<n.step.branch, n.step.index>>
<1>1. \A step : RecordedOf(ui, step) <=> step \in Picks!Range(Picks!Original(ui.detail))
    BY RowsOf DEF RecordedOf, Picks!Range
<1>2. \A step : SimulatedOf(ui, step) <=> step \in Picks!Range(Picks!patchedSteps)
    <2>1. CASE ui.sim = Nil
        <3>1. PICK none : none = Picks!patchedSteps
            OBVIOUS
        <3>2. none = <<>>
            BY <2>1, <3>1 DEF Picks!patchedSteps
        <3>3. DOMAIN none = {}
            BY <3>2
        <3> QED BY <2>1, <3>1, <3>3 DEF SimulatedOf, Picks!Range
    <2>2. CASE ui.sim # Nil
        BY <2>2, PatchedIs DEF SimulatedOf, Picks!Range
    <2> QED BY <2>1, <2>2
<1>3. PICK steps : steps = Picks!Range(Picks!Original(ui.detail)) \cup Picks!Range(Picks!patchedSteps)
    OBVIOUS
<1>4. Picks!Nodes = {[id |-> <<s.branch, s.index>>, step |-> s] : s \in steps}
    BY <1>3 DEF Picks!Nodes
<1>5. \A step : RecordedOf(ui, step) \/ SimulatedOf(ui, step) <=> step \in steps
    BY <1>1, <1>2, <1>3
<1>6. \A step \in steps : [id |-> <<step.branch, step.index>>, step |-> step] \in Picks!Nodes
    BY <1>4
<1>7. \A n \in Picks!Nodes : n.step \in steps /\ n.id = <<n.step.branch, n.step.index>>
    BY <1>4
<1> QED BY <1>5, <1>6, <1>7

LEMMA NodeClicked ==
    ASSUME PicksOK, Picks!PanelNode \/ Picks!PageNode
    PROVE  PicksOK'
<1>1. ui \in Picks!PickState
    BY DEF PicksOK
<1>2. ui.detail # Nil /\ past' = [cleared |-> FALSE, misnamed |-> FALSE]
    BY DEF Picks!PanelNode, Picks!PageNode, Picks!Picked
<1>3. PICK n \in Picks!Nodes : ui' = Picks!Pick(ui, n.id, n.step)
    BY DEF Picks!PanelNode, Picks!PageNode
<1>4. (RecordedOf(ui, n.step) \/ SimulatedOf(ui, n.step)) /\ n.id = <<n.step.branch, n.step.index>>
    BY <1>1, <1>2, NodesAre
<1>5. PICK u, node, step : u = ui /\ node = n.id /\ step = n.step
    OBVIOUS
<1>6. PICK misnamed \in BOOLEAN : misnamed = FALSE
    OBVIOUS
<1>7. /\ u \in Picks!PickState /\ u.detail # Nil
      /\ ui' = Picks!Pick(u, node, step) /\ past' = [cleared |-> FALSE, misnamed |-> misnamed]
      /\ RecordedOf(u, step) \/ (SimulatedOf(u, step) /\ ~misnamed)
      /\ node = <<step.branch, step.index>>
    BY <1>1, <1>2, <1>3, <1>4, <1>5, <1>6
<1> QED BY <1>7, PickedIs

(* A row of the panel is opened or closed.                                  *)
LEMMA RowClicked ==
    ASSUME PicksOK, Picks!PanelRow
    PROVE  PicksOK'
<1>1. ui \in Picks!PickState /\ ui.detail # Nil
    BY DEF PicksOK, Picks!PanelRow
<1>2. PICK misnamed \in BOOLEAN : misnamed <=> (ui.mode = "simulated" /\ ui.sim = Nil)
    OBVIOUS
<1>3. past' = [cleared |-> FALSE, misnamed |-> misnamed]
    <2>1. PICK m : m = (ui.mode = "simulated" /\ ui.sim = Nil)
        OBVIOUS
    <2>2. past' = [cleared |-> FALSE, misnamed |-> m]
        BY <2>1 DEF Picks!PanelRow, Picks!Picked
    <2>3. m = misnamed
        BY <1>2, <2>1
    <2> QED BY <2>2, <2>3
<1>4. PICK i \in 1..Len(Picks!Rows) :
          ui' = IF Picks!Rows[i].id = ui.sid THEN Picks!Pick(ui, Nil, Nil)
                ELSE Picks!Pick(ui, <<Picks!Prefix, Picks!Rows[i].index>>, Picks!Rows[i])
    BY DEF Picks!PanelRow
<1>5. PICK u, step : u = ui /\ step = Picks!Rows[i]
    OBVIOUS
<1>6. PICK node : node = <<Picks!Prefix, step.index>>
    OBVIOUS
<1>7. \/ ui' = Picks!Pick(u, Nil, Nil)
      \/ ui' = Picks!Pick(u, node, step)
    BY <1>4, <1>5, <1>6
<1>8. /\ RecordedOf(u, step) \/ (SimulatedOf(u, step) /\ ~misnamed)
      /\ node = <<step.branch, step.index>> \/ (misnamed /\ node = <<"p", step.index>>)
    <2>1. CASE ui.mode = "simulated" /\ ui.sim # Nil
        <3>1. Picks!Rows = Picks!patchedSteps /\ Picks!Prefix = "p" /\ ~misnamed
            BY <1>2, <2>1 DEF Picks!Rows, Picks!Prefix
        <3>2. PICK sim \in [no : 1..MaxReplays, run : Picks!Run, len : 1..(Picks!Last + 1)] : sim = ui.sim
            BY <1>1, <2>1, RowsOf
        <3>3. i \in 1..sim.len /\ step = Picks!SimStep(sim, i)
            BY <1>1, <1>5, <2>1, <3>1, <3>2, PatchedIs
        <3>4. step.branch = "p"
            BY <3>3, SimStepIs
        <3> QED BY <1>5, <1>6, <2>1, <3>1, <3>2, <3>3, <3>4 DEF SimulatedOf
    <2>2. CASE ~(ui.mode = "simulated" /\ ui.sim # Nil)
        <3>1. Picks!Rows = Picks!Original(ui.detail) /\ Picks!Prefix = (IF misnamed THEN "p" ELSE "o")
            BY <1>2, <2>2 DEF Picks!Rows, Picks!Prefix
        <3>2. PICK r \in Picks!Run : r = ui.detail
            BY <1>1, RowsOf
        <3>3. i \in 1..StepCount[r] /\ step = Picks!Recorded(r, i)
            BY <1>1, <1>5, <3>1, <3>2, RowsOf
        <3>4. step.branch = "o"
            BY <3>3, RecordedIs
        <3> QED BY <1>5, <1>6, <3>1, <3>2, <3>3, <3>4 DEF RecordedOf
    <2> QED BY <2>1, <2>2
<1>9. u \in Picks!PickState /\ u.detail # Nil
    BY <1>1, <1>5
<1>10. CASE ui' = Picks!Pick(u, Nil, Nil)
    BY <1>3, <1>9, <1>10, NothingPicked
<1>11. CASE ui' = Picks!Pick(u, node, step)
    BY <1>3, <1>8, <1>9, <1>11, PickedIs
<1> QED BY <1>7, <1>10, <1>11

(* A row of the page of a trace; the page looks its step up by its id.      *)
LEMMA PageRowClicked ==
    ASSUME PicksOK, Picks!PageRow
    PROVE  PicksOK'
<1>1. ui \in Picks!PickState /\ ui.detail # Nil /\ past' = [cleared |-> FALSE, misnamed |-> FALSE]
    BY DEF PicksOK, Picks!PageRow, Picks!Picked
<1>2. PICK r \in Picks!Run : r = ui.detail
    BY <1>1, RowsOf
<1>3. PICK i \in 1..StepCount[r] : ui' = Picks!onSelect(Picks!Original(r)[i].id)
    BY <1>2 DEF Picks!PageRow
<1>4. PICK steps, id : steps = Picks!Range(Picks!Original(r)) /\ id = Picks!Original(r)[i].id
    OBVIOUS
<1>5. Picks!Original(r)[i] \in steps /\ \A s \in steps : \E j \in 1..StepCount[r] : s = Picks!Recorded(r, j)
    BY <1>1, <1>2, <1>4, RowsOf DEF Picks!Range
<1>6. PICK u, step : u = ui /\ step = CHOOSE s \in steps : s.id = id
    OBVIOUS
<1>7. step \in steps
    BY <1>4, <1>5, <1>6
<1>8. PICK node : node = <<"o", step.index>>
    OBVIOUS
<1>9. ui' = Picks!Pick(u, node, step)
    BY <1>2, <1>3, <1>4, <1>6, <1>8 DEF Picks!onSelect
<1>10. PICK j \in 1..StepCount[r] : step = Picks!Recorded(r, j)
    BY <1>5, <1>7
<1>11. step.branch = "o" /\ RecordedOf(u, step)
    <2>1. step.branch = "o"
        BY <1>10, RecordedIs
    <2>2. u.detail = r
        BY <1>2, <1>6
    <2> QED BY <1>10, <2>1, <2>2 DEF RecordedOf
<1>12. PICK misnamed \in BOOLEAN : misnamed = FALSE
    OBVIOUS
<1>13. /\ u \in Picks!PickState /\ u.detail # Nil /\ past' = [cleared |-> FALSE, misnamed |-> misnamed]
       /\ node = <<step.branch, step.index>>
    BY <1>1, <1>6, <1>8, <1>11, <1>12
<1> QED BY <1>9, <1>11, <1>13, PickedIs

LEMMA PicksStep == PicksInv /\ [Next]_consolevars => PicksInv'
<1> SUFFICES ASSUME PicksInv, [Next]_consolevars, view = "picks" PROVE PicksOK'
    BY DEF PicksInv, Next, consolevars
<1>1. PicksOK /\ (Picks!Next \/ UNCHANGED <<server, pending, ui, past>>)
    BY DEF PicksInv, Next, consolevars, clientvars
<1>2. CASE UNCHANGED <<server, pending, ui, past>>
    BY <1>1, <1>2 DEF PicksOK, Drawn, RecordedOf, SimulatedOf
<1> QED BY <1>1, <1>2, DetailComes, PickStays, NodeClicked, RowClicked, PageRowClicked DEF Picks!Next

(* The step above one of the same branch has the node above.                *)
LEMMA PicksShow ==
    ASSUME PicksOK
    PROVE  Picks!InspectsDrawn
<1>1. ui \in Picks!PickState /\ (ui.node = Nil <=> ui.step = Nil) /\ Drawn(ui, past.cleared, past.misnamed)
    BY DEF PicksOK
<1>2. ASSUME ui.detail # Nil, ui.step # Nil, ~past.misnamed, past.cleared => ui.step.branch = "o"
      PROVE  /\ [id |-> ui.node, step |-> ui.step] \in Picks!Nodes
             /\ Picks!previousStep # Nil =>
                    [id |-> <<ui.node[1], ui.node[2] - 1>>, step |-> Picks!previousStep] \in Picks!Nodes
    <2>1. ui.node = <<ui.step.branch, ui.step.index>>
        BY <1>1, <1>2 DEF Drawn
    <2>2. ui.step.branch \in {"o", "p"}
        BY <1>1, <1>2 DEF Picks!PickState, Picks!Step
    <2>3. CASE ui.step.branch = "o"
        <3>1. RecordedOf(ui, ui.step)
            BY <1>1, <1>2, <2>3 DEF Drawn
        <3>2. PICK r \in Picks!Run : r = ui.detail
            BY <1>1, <1>2, RowsOf
        <3>3. PICK i \in 1..StepCount[r] : ui.step = Picks!Recorded(r, i)
            BY <3>1, <3>2 DEF RecordedOf
        <3>4. ui.step.index = i
            BY <3>3, RecordedIs
        <3>5. ~Picks!Simulated
            BY <2>1, <2>3 DEF Picks!Simulated
        <3>6. ASSUME Picks!previousStep # Nil
              PROVE  [id |-> <<ui.node[1], ui.node[2] - 1>>, step |-> Picks!previousStep] \in Picks!Nodes
            <4>1. i \in 2..StepCount[r] /\ Picks!previousStep = Picks!Original(r)[i - 1]
                BY <1>1, <1>2, <3>2, <3>4, <3>5, <3>6, RowsOf DEF Picks!previousStep
            <4>2. StepCount[r] \in Nat
                BY LastIs
            <4>3. PICK j \in 1..StepCount[r] : j = i - 1
                BY <4>1, <4>2
            <4>4. PICK step : step = Picks!previousStep
                OBVIOUS
            <4>5. step = Picks!Recorded(r, j)
                BY <1>1, <1>2, <3>2, <4>1, <4>3, <4>4, RowsOf
            <4>6. step.branch = "o" /\ step.index = j /\ RecordedOf(ui, step)
                BY <3>2, <4>5, RecordedIs DEF RecordedOf
            <4>7. <<ui.node[1], ui.node[2] - 1>> = <<step.branch, step.index>>
                BY <2>1, <2>3, <3>4, <4>3, <4>6
            <4> QED BY <1>1, <1>2, <4>4, <4>6, <4>7, NodesAre
        <3> QED BY <1>1, <1>2, <2>1, <3>1, <3>6, NodesAre
    <2>4. CASE ui.step.branch = "p"
        <3>1. SimulatedOf(ui, ui.step)
            BY <1>1, <1>2, <2>4 DEF Drawn
        <3>2. PICK sim \in [no : 1..MaxReplays, run : Picks!Run, len : 1..(Picks!Last + 1)] : sim = ui.sim
            BY <1>1, <3>1, RowsOf DEF SimulatedOf
        <3>3. PICK i \in 1..sim.len : ui.step = Picks!SimStep(sim, i)
            BY <3>1, <3>2 DEF SimulatedOf
        <3>4. ui.step.index = i /\ ui.sim # Nil /\ sim.len \in Nat
            BY <1>1, <3>1, <3>2, <3>3, SimStepIs, RowsOf DEF SimulatedOf
        <3>5. Picks!Simulated
            BY <1>1, <1>2, <2>1, <2>4 DEF Picks!Simulated
        <3>6. ASSUME Picks!previousStep # Nil
              PROVE  [id |-> <<ui.node[1], ui.node[2] - 1>>, step |-> Picks!previousStep] \in Picks!Nodes
            <4>1. i \in 2..sim.len /\ Picks!previousStep = Picks!patchedSteps[i - 1]
                BY <1>1, <3>2, <3>4, <3>5, <3>6, PatchedIs DEF Picks!previousStep
            <4>2. PICK j \in 1..sim.len : j = i - 1
                BY <3>4, <4>1
            <4>3. PICK step : step = Picks!previousStep
                OBVIOUS
            <4>4. step = Picks!SimStep(sim, j)
                BY <1>1, <3>2, <3>4, <4>1, <4>2, <4>3, PatchedIs
            <4>5. step.branch = "p" /\ step.index = j /\ SimulatedOf(ui, step)
                BY <3>2, <3>4, <4>4, SimStepIs DEF SimulatedOf
            <4>6. <<ui.node[1], ui.node[2] - 1>> = <<step.branch, step.index>>
                BY <2>1, <2>4, <3>4, <4>2, <4>5
            <4> QED BY <1>1, <1>2, <4>3, <4>5, <4>6, NodesAre
        <3> QED BY <1>1, <1>2, <2>1, <3>1, <3>6, NodesAre
    <2> QED BY <2>2, <2>3, <2>4
<1> QED BY <1>1, <1>2 DEF Picks!InspectsDrawn
-----------------------------------------------------------------------------
(* The snapshots.  A value nests at most twice, and what is inside of a     *)
(* snapshot at most once.                                                   *)
Flat   == Diff!Node({})
Nested == Diff!Node(Key \X Flat)

LEMMA ValuesAre ==
    /\ Flat \subseteq Nested /\ Nested \subseteq Diff!Value
    /\ \A v \in Diff!Value : Diff!KeysOf(v) \subseteq Key /\ \A k \in Diff!KeysOf(v) : Diff!At(v, k) \in Nested
    /\ \A v \in Nested : \A k \in Diff!KeysOf(v) : Diff!At(v, k) \in Flat
    /\ \A v \in Flat : Diff!KeysOf(v) = {}
    /\ Diff!Undefined \in Flat
    /\ \A v \in Diff!Value : \A k : Diff!At(v, k) \in Diff!Value
<1>1. /\ Flat = [isObject : BOOLEAN, leaf : Leaf \cup {Nil}, entries : Seq({})]
      /\ Nested = [isObject : BOOLEAN, leaf : Leaf \cup {Nil}, entries : Seq(Key \X Flat)]
      /\ Diff!Value = [isObject : BOOLEAN, leaf : Leaf \cup {Nil}, entries : Seq(Key \X Nested)]
    BY DEF Flat, Nested, Diff!Node, Diff!Value
<1>2. ASSUME NEW S, NEW T, S \subseteq T PROVE Seq(S) \subseteq Seq(T)
    BY <1>2
<1>3. Flat \subseteq Nested
    <2>1. Seq({}) \subseteq Seq(Key \X Flat)
        BY <1>2
    <2> QED BY <1>1, <2>1
<1>4. Nested \subseteq Diff!Value
    <2>1. Key \X Flat \subseteq Key \X Nested
        BY <1>3
    <2>2. Seq(Key \X Flat) \subseteq Seq(Key \X Nested)
        BY <1>2, <2>1
    <2> QED BY <1>1, <2>2
<1>5. ASSUME NEW S, NEW v, v.entries \in Seq(Key \X S)
      PROVE  /\ Diff!KeysOf(v) \subseteq Key
             /\ \A k \in Diff!KeysOf(v) : Diff!At(v, k) \in S
    <2>1. \A e \in Diff!Range(v.entries) : e \in Key \X S
        BY <1>5 DEF Diff!Range
    <2>2. Diff!KeysOf(v) \subseteq Key
        BY <2>1 DEF Diff!KeysOf
    <2>3. ASSUME NEW k \in Diff!KeysOf(v) PROVE Diff!At(v, k) \in S
        <3>1. \E e \in Diff!Range(v.entries) : e[1] = k
            BY DEF Diff!KeysOf
        <3>2. PICK f : f = CHOOSE e \in Diff!Range(v.entries) : e[1] = k
            OBVIOUS
        <3>3. f \in Diff!Range(v.entries)
            BY <3>1, <3>2
        <3>4. Diff!At(v, k) = f[2]
            BY <3>2 DEF Diff!At
        <3> QED BY <2>1, <3>3, <3>4
    <2> QED BY <2>2, <2>3
<1>6. \A v \in Flat : Diff!KeysOf(v) = {}
    <2> SUFFICES ASSUME NEW v \in Flat PROVE Diff!KeysOf(v) = {}
        OBVIOUS
    <2>1. v.entries \in Seq({})
        BY <1>1
    <2>2. Diff!Range(v.entries) = {}
        BY <2>1 DEF Diff!Range
    <2> QED BY <2>2 DEF Diff!KeysOf
<1>7. Diff!Undefined \in Flat
    BY <1>1 DEF Diff!Undefined, Diff!Scalar
<1>8. \A v \in Diff!Value : Diff!KeysOf(v) \subseteq Key /\ \A k \in Diff!KeysOf(v) : Diff!At(v, k) \in Nested
    BY <1>1, <1>5
<1>9. \A v \in Nested : \A k \in Diff!KeysOf(v) : Diff!At(v, k) \in Flat
    BY <1>1, <1>5
<1>10. \A v \in Diff!Value : \A k : Diff!At(v, k) \in Diff!Value
    <2> SUFFICES ASSUME NEW v \in Diff!Value, NEW k PROVE Diff!At(v, k) \in Diff!Value
        OBVIOUS
    <2>1. CASE k \in Diff!KeysOf(v)
        BY <1>4, <1>8, <2>1
    <2>2. CASE k \notin Diff!KeysOf(v)
        BY <1>3, <1>4, <1>7, <2>2 DEF Diff!At
    <2> QED BY <2>1, <2>2
<1> QED BY <1>3, <1>4, <1>6, <1>7, <1>8, <1>9, <1>10

Scalars == {Diff!Scalar(x) : x \in Leaf}

LEMMA SnapshotsAre ==
    /\ Scalars \subseteq Flat
    /\ Diff!Inner \subseteq Nested
    /\ \A v \in Diff!Inner \ Scalars : v.isObject /\ \A k \in Diff!KeysOf(v) : Diff!At(v, k) \in Scalars
    /\ \A v \in Diff!Snapshot : v \in Diff!Value /\ v.isObject /\ \A k \in Diff!KeysOf(v) : Diff!At(v, k) \in Diff!Inner
<1>1. /\ Flat = [isObject : BOOLEAN, leaf : Leaf \cup {Nil}, entries : Seq({})]
      /\ Nested = [isObject : BOOLEAN, leaf : Leaf \cup {Nil}, entries : Seq(Key \X Flat)]
      /\ Diff!Value = [isObject : BOOLEAN, leaf : Leaf \cup {Nil}, entries : Seq(Key \X Nested)]
    BY DEF Flat, Nested, Diff!Node, Diff!Value
<1>2. Scalars \subseteq Flat
    <2>1. ASSUME NEW x \in Leaf PROVE Diff!Scalar(x) \in Flat
        BY <1>1 DEF Diff!Scalar
    <2> QED BY <2>1 DEF Scalars
<1>3. ASSUME NEW S, NEW n \in Nat, NEW e \in Diff!Entries(S, n)
      PROVE  /\ e \in Seq(Key \X S)
             /\ Diff!Object(e).isObject /\ Diff!Object(e).entries = e
             /\ \A k \in Diff!KeysOf(Diff!Object(e)) : Diff!At(Diff!Object(e), k) \in S
    <2>1. e \in [1..n -> Key \X S]
        BY DEF Diff!Entries
    <2>2. e \in Seq(Key \X S)
        BY <2>1
    <2>3. Diff!Object(e).isObject /\ Diff!Object(e).entries = e
        BY DEF Diff!Object
    <2>4. ASSUME NEW k \in Diff!KeysOf(Diff!Object(e)) PROVE Diff!At(Diff!Object(e), k) \in S
        <3>1. \E f \in Diff!Range(e) : f[1] = k
            BY <2>3 DEF Diff!KeysOf
        <3>2. PICK f : f = CHOOSE g \in Diff!Range(e) : g[1] = k
            OBVIOUS
        <3>3. f \in Diff!Range(e)
            BY <3>1, <3>2
        <3>4. Diff!At(Diff!Object(e), k) = f[2]
            BY <2>3, <3>2 DEF Diff!At
        <3> QED BY <2>1, <3>3, <3>4 DEF Diff!Range
    <2> QED BY <2>2, <2>3, <2>4
<1>4. ASSUME NEW v \in Diff!Inner \ Scalars
      PROVE  v \in Nested /\ v.isObject /\ \A k \in Diff!KeysOf(v) : Diff!At(v, k) \in Scalars
    <2>1. PICK n \in Nat : \E e \in Diff!Entries(Scalars, n) : v = Diff!Object(e)
        BY DEF Diff!Inner, Scalars
    <2>2. PICK e \in Diff!Entries(Scalars, n) : v = Diff!Object(e)
        BY <2>1
    <2>3. /\ e \in Seq(Key \X Scalars) /\ v.isObject
          /\ \A k \in Diff!KeysOf(v) : Diff!At(v, k) \in Scalars
        BY <1>3, <2>2
    <2>4. e \in Seq(Key \X Flat)
        BY <1>2, <2>3
    <2> QED BY <1>1, <2>2, <2>3, <2>4 DEF Diff!Object
<1>5. Diff!Inner \subseteq Nested
    BY <1>2, <1>4, ValuesAre
<1>6. ASSUME NEW v \in Diff!Snapshot
      PROVE  v \in Diff!Value /\ v.isObject /\ \A k \in Diff!KeysOf(v) : Diff!At(v, k) \in Diff!Inner
    <2>1. PICK n \in Nat : \E e \in Diff!Entries(Diff!Inner, n) : v = Diff!Object(e)
        BY DEF Diff!Snapshot
    <2>2. PICK e \in Diff!Entries(Diff!Inner, n) : v = Diff!Object(e)
        BY <2>1
    <2>3. /\ e \in Seq(Key \X Diff!Inner) /\ v.isObject
          /\ \A k \in Diff!KeysOf(v) : Diff!At(v, k) \in Diff!Inner
        BY <1>3, <2>2
    <2>4. e \in Seq(Key \X Nested)
        BY <1>5, <2>3
    <2> QED BY <1>1, <2>2, <2>3, <2>4 DEF Diff!Object
<1> QED BY <1>2, <1>4, <1>5, <1>6

(* What renderDiffNode highlights and marks, of values that nest less and   *)
(* less; beyond the depth of a value it finds nothing more.                 *)
Shown(old, new) == IF old = new THEN {} ELSE {<<>>}
Lit0(old, new)  == IF new.isObject THEN {} ELSE Shown(old, new)
Lit1(old, new)  == IF new.isObject THEN UNION {Diff!Below(k, Lit0(Diff!At(old, k), Diff!At(new, k))) : k \in Diff!KeysOf(new)}
                   ELSE Shown(old, new)
Lit2(old, new)  == IF new.isObject THEN UNION {Diff!Below(k, Lit1(Diff!At(old, k), Diff!At(new, k))) : k \in Diff!KeysOf(new)}
                   ELSE Shown(old, new)

Rows(old, new)  == {<<k>> : k \in {l \in Diff!KeysOf(new) : Diff!IsDifferent(old, new, l)}}
Mark1(old, new) == Rows(old, new) \cup UNION {Diff!Below(k, {}) : k \in Diff!KeysOf(new)}
Mark2(old, new) == Rows(old, new) \cup UNION {Diff!Below(k, Mark1(Diff!At(old, k), Diff!At(new, k))) : k \in Diff!KeysOf(new)}

(* The recursive definition has a solution, so it is one.                   *)
LEMMA HighlightedIs ==
    ASSUME NEW old \in Diff!Value, NEW new \in Diff!Value
    PROVE  Diff!Highlighted[<<old, new>>] =
               IF new.isObject
               THEN UNION {Diff!Below(k, Diff!Highlighted[<<Diff!At(old, k), Diff!At(new, k)>>]) : k \in Diff!KeysOf(new)}
               ELSE IF old = new THEN {} ELSE {<<>>}
<1> DEFINE V == Diff!Value
           F == [p \in V \X V |-> Lit2(p[1], p[2])]
           Body(f) == [p \in V \X V |->
                          IF p[2].isObject
                          THEN UNION {Diff!Below(k, f[<<Diff!At(p[1], k), Diff!At(p[2], k)>>]) : k \in Diff!KeysOf(p[2])}
                          ELSE IF p[1] = p[2] THEN {} ELSE {<<>>}]
<1>1. ASSUME NEW o, NEW n \in Flat PROVE Lit1(o, n) = Lit0(o, n)
    <2>1. Diff!KeysOf(n) = {}
        BY ValuesAre
    <2> QED BY <2>1 DEF Lit1, Lit0
<1>2. ASSUME NEW o, NEW n \in Nested PROVE Lit2(o, n) = Lit1(o, n)
    <2>1. \A k \in Diff!KeysOf(n) : Lit1(Diff!At(o, k), Diff!At(n, k)) = Lit0(Diff!At(o, k), Diff!At(n, k))
        BY <1>1, ValuesAre
    <2> QED BY <2>1 DEF Lit2, Lit1
<1>3. ASSUME NEW o \in V, NEW n \in V, NEW k \in Diff!KeysOf(n)
      PROVE  F[<<Diff!At(o, k), Diff!At(n, k)>>] = Lit1(Diff!At(o, k), Diff!At(n, k))
    <2>1. PICK a, b : a = Diff!At(o, k) /\ b = Diff!At(n, k)
        OBVIOUS
    <2>2. a \in V /\ b \in V /\ b \in Nested
        BY <2>1, ValuesAre
    <2>3. F[<<a, b>>] = Lit2(a, b)
        BY <2>2
    <2> QED BY <1>2, <2>1, <2>2, <2>3
<1>4. F = Body(F)
    <2>1. ASSUME NEW o \in V, NEW n \in V
          PROVE  Lit2(o, n) = IF n.isObject
                              THEN UNION {Diff!Below(k, F[<<Diff!At(o, k), Diff!At(n, k)>>]) : k \in Diff!KeysOf(n)}
                              ELSE IF o = n THEN {} ELSE {<<>>}
        <3>1. \A k \in Diff!KeysOf(n) : F[<<Diff!At(o, k), Diff!At(n, k)>>] = Lit1(Diff!At(o, k), Diff!At(n, k))
            BY <1>3
        <3> HIDE DEF F
        <3> QED BY <3>1 DEF Lit2, Shown
    <2> HIDE DEF V
    <2> QED BY <2>1, Zenon
<1>5. Diff!Highlighted = CHOOSE f : f = Body(f)
    BY DEF Diff!Highlighted
<1> HIDE DEF F, Body
<1>6. Diff!Highlighted = Body(Diff!Highlighted)
    BY <1>4, <1>5
<1>7. PICK f : f = Diff!Highlighted
    OBVIOUS
<1>8. f = Body(f)
    BY <1>6, <1>7
<1>9. PICK p \in V \X V : p = <<old, new>>
    OBVIOUS
<1>10. f[p] = Body(f)[p]
    BY <1>8
<1>11. p[1] = old /\ p[2] = new
    BY <1>9
<1>12. Body(f)[p] = IF p[2].isObject
                    THEN UNION {Diff!Below(k, f[<<Diff!At(p[1], k), Diff!At(p[2], k)>>]) : k \in Diff!KeysOf(p[2])}
                    ELSE IF p[1] = p[2] THEN {} ELSE {<<>>}
    BY DEF Body
<1>13. f[<<old, new>>] = IF new.isObject
                         THEN UNION {Diff!Below(k, f[<<Diff!At(old, k), Diff!At(new, k)>>]) : k \in Diff!KeysOf(new)}
                         ELSE IF old = new THEN {} ELSE {<<>>}
    BY <1>9, <1>10, <1>11, <1>12
<1> QED BY <1>7, <1>13

LEMMA MarkedIs ==
    ASSUME NEW old \in Diff!Value, NEW new \in Diff!Value
    PROVE  Diff!Marked[<<old, new>>] =
               Rows(old, new)
               \cup UNION {Diff!Below(k, Diff!Marked[<<Diff!At(old, k), Diff!At(new, k)>>]) : k \in Diff!KeysOf(new)}
<1> DEFINE V == Diff!Value
           F == [p \in V \X V |-> Mark2(p[1], p[2])]
           Body(f) == [p \in V \X V |->
                          Rows(p[1], p[2])
                          \cup UNION {Diff!Below(k, f[<<Diff!At(p[1], k), Diff!At(p[2], k)>>]) : k \in Diff!KeysOf(p[2])}]
<1>1. ASSUME NEW o, NEW n \in Flat PROVE Mark1(o, n) = {}
    <2>1. Diff!KeysOf(n) = {}
        BY ValuesAre
    <2> QED BY <2>1 DEF Mark1, Rows
<1>2. ASSUME NEW o, NEW n \in Nested PROVE Mark2(o, n) = Mark1(o, n)
    <2>1. \A k \in Diff!KeysOf(n) : Mark1(Diff!At(o, k), Diff!At(n, k)) = {}
        BY <1>1, ValuesAre
    <2> QED BY <2>1 DEF Mark2, Mark1
<1>3. ASSUME NEW o \in V, NEW n \in V, NEW k \in Diff!KeysOf(n)
      PROVE  F[<<Diff!At(o, k), Diff!At(n, k)>>] = Mark1(Diff!At(o, k), Diff!At(n, k))
    <2>1. PICK a, b : a = Diff!At(o, k) /\ b = Diff!At(n, k)
        OBVIOUS
    <2>2. a \in V /\ b \in V /\ b \in Nested
        BY <2>1, ValuesAre
    <2>3. F[<<a, b>>] = Mark2(a, b)
        BY <2>2
    <2> QED BY <1>2, <2>1, <2>2, <2>3
<1>4. F = Body(F)
    <2>1. ASSUME NEW o \in V, NEW n \in V
          PROVE  Mark2(o, n) =
                     Rows(o, n) \cup UNION {Diff!Below(k, F[<<Diff!At(o, k), Diff!At(n, k)>>]) : k \in Diff!KeysOf(n)}
        <3>1. \A k \in Diff!KeysOf(n) : F[<<Diff!At(o, k), Diff!At(n, k)>>] = Mark1(Diff!At(o, k), Diff!At(n, k))
            BY <1>3
        <3> HIDE DEF F
        <3> QED BY <3>1 DEF Mark2
    <2> HIDE DEF V
    <2> QED BY <2>1, Zenon
<1>5. Diff!Marked = CHOOSE f : f = Body(f)
    BY DEF Diff!Marked, Rows
<1> HIDE DEF F, Body
<1>6. Diff!Marked = Body(Diff!Marked)
    BY <1>4, <1>5
<1>7. PICK f : f = Diff!Marked
    OBVIOUS
<1>8. f = Body(f)
    BY <1>6, <1>7
<1>9. PICK p \in V \X V : p = <<old, new>>
    OBVIOUS
<1>10. f[p] = Body(f)[p]
    BY <1>8
<1> QED BY <1>7, <1>9, <1>10 DEF Body

(* A path of two keys, put together and cut short.                          *)
LEMMA PathIs ==
    ASSUME NEW k, NEW l
    PROVE  /\ <<k>> \o <<l>> = <<k, l>>
           /\ SubSeq(<<k>>, 1, 1) = <<k>>
           /\ SubSeq(<<k, l>>, 1, 1) = <<k>> /\ SubSeq(<<k, l>>, 1, 2) = <<k, l>>
<1> DEFINE S == {k, l}
<1>1. /\ <<k>> \in Seq(S) /\ <<l>> \in Seq(S) /\ <<k, l>> \in Seq(S)
      /\ Len(<<k>>) = 1 /\ Len(<<l>>) = 1 /\ Len(<<k, l>>) = 2
      /\ <<k>>[1] = k /\ <<l>>[1] = l /\ <<k, l>>[1] = k /\ <<k, l>>[2] = l
    OBVIOUS
<1>2. <<k>> \o <<l>> = <<k, l>>
    <2>1. PICK s, t : s = <<k>> /\ t = <<l>>
        OBVIOUS
    <2>2. /\ s \in Seq(S) /\ t \in Seq(S) /\ Len(s) = 1 /\ Len(t) = 1 /\ s[1] = k /\ t[1] = l
        BY <1>1, <2>1
    <2>3. PICK u : u = s \o t
        OBVIOUS
    <2> HIDE DEF S
    <2>4. u \in Seq(S) /\ Len(u) = 2 /\ u[1] = s[1] /\ u[2] = t[1]
        BY <2>2, <2>3, ConcatProperties
    <2>5. u = <<k, l>>
        BY <1>1, <2>2, <2>4, SeqEqual
    <2> QED BY <2>1, <2>3, <2>5
<1>3. ASSUME NEW p \in Seq(S), NEW n \in 1..Len(p)
      PROVE  /\ SubSeq(p, 1, n) \in Seq(S) /\ Len(SubSeq(p, 1, n)) = n
             /\ \A i \in 1..n : SubSeq(p, 1, n)[i] = p[i]
    <2> HIDE DEF S
    <2> QED BY SubSeqProperties
<1>4. SubSeq(<<k>>, 1, 1) = <<k>>
    <2>1. PICK p, s : p = <<k>> /\ s = SubSeq(p, 1, 1)
        OBVIOUS
    <2>2. p \in Seq(S) /\ s \in Seq(S) /\ Len(s) = 1 /\ Len(p) = 1 /\ s[1] = p[1]
        BY <1>1, <1>3, <2>1
    <2> HIDE DEF S
    <2>3. s = p
        BY <2>2, SeqEqual
    <2> QED BY <2>1, <2>3
<1>5. SubSeq(<<k, l>>, 1, 1) = <<k>>
    <2>1. PICK p, s, t : p = <<k, l>> /\ s = SubSeq(p, 1, 1) /\ t = <<k>>
        OBVIOUS
    <2>2. t \in Seq(S) /\ s \in Seq(S) /\ Len(s) = 1 /\ Len(t) = 1 /\ s[1] = t[1]
        BY <1>1, <1>3, <2>1
    <2> HIDE DEF S
    <2>3. s = t
        BY <2>2, SeqEqual
    <2> QED BY <2>1, <2>3
<1>6. SubSeq(<<k, l>>, 1, 2) = <<k, l>>
    <2>1. PICK p, s : p = <<k, l>> /\ s = SubSeq(p, 1, 2)
        OBVIOUS
    <2>2. p \in Seq(S) /\ s \in Seq(S) /\ Len(s) = 2 /\ Len(p) = 2 /\ s[1] = p[1] /\ s[2] = p[2]
        BY <1>1, <1>3, <2>1
    <2> HIDE DEF S
    <2>3. s = p
        BY <2>2, SeqEqual
    <2> QED BY <2>1, <2>3
<1> QED BY <1>2, <1>4, <1>5, <1>6

(* The keys that do not hold what they held before.                         *)
Changed(old, new) == {k \in Diff!KeysOf(new) : Diff!At(old, k) # Diff!At(new, k)}

LEMMA BelowIs ==
    ASSUME NEW k
    PROVE  /\ Diff!Below(k, {}) = {}
           /\ Diff!Below(k, {<<>>}) = {<<k>>}
           /\ \A L : Diff!Below(k, {<<l>> : l \in L}) = {<<k, l>> : l \in L}
<1>1. <<k>> \o <<>> = <<k>>
    OBVIOUS
<1>2. \A l : <<k>> \o <<l>> = <<k, l>>
    BY PathIs
<1>3. ASSUME NEW L PROVE Diff!Below(k, {<<l>> : l \in L}) = {<<k, l>> : l \in L}
    <2>1. ASSUME NEW p PROVE p \in Diff!Below(k, {<<l>> : l \in L}) <=> \E l \in L : p = <<k>> \o <<l>>
        BY DEF Diff!Below
    <2>2. ASSUME NEW p PROVE p \in {<<k, l>> : l \in L} <=> \E l \in L : p = <<k>> \o <<l>>
        BY <1>2
    <2> QED BY <2>1, <2>2
<1> QED BY <1>1, <1>3 DEF Diff!Below

(* Nothing in a snapshot is undefined, so a row is marked when its value    *)
(* changed.                                                                 *)
LEMMA InnerIsDefined ==
    /\ \A v \in Scalars : ~v.isObject
    /\ \A v \in Diff!Inner : v # Diff!Undefined
<1>1. ASSUME NEW x \in Leaf PROVE ~Diff!Scalar(x).isObject /\ Diff!Scalar(x) # Diff!Undefined
    <2>1. Diff!Scalar(x).leaf = x /\ Diff!Undefined.leaf = Nil /\ Diff!Scalar(x).isObject = FALSE
        BY DEF Diff!Scalar, Diff!Undefined
    <2> QED BY <2>1, LeafAssumption
<1>2. \A v \in Scalars : ~v.isObject /\ v # Diff!Undefined
    BY <1>1 DEF Scalars
<1>3. Diff!Undefined.isObject = FALSE
    BY DEF Diff!Scalar, Diff!Undefined
<1> QED BY <1>2, <1>3, SnapshotsAre

LEMMA RowsAre ==
    ASSUME NEW old, NEW new, \A k \in Diff!KeysOf(new) : Diff!At(new, k) \in Diff!Inner
    PROVE  Rows(old, new) = {<<k>> : k \in Changed(old, new)}
<1>1. ASSUME NEW k \in Diff!KeysOf(new) PROVE Diff!IsDifferent(old, new, k) <=> Diff!At(old, k) # Diff!At(new, k)
    <2>1. Diff!At(new, k) # Diff!Undefined
        BY <1>1, InnerIsDefined
    <2>2. k \notin Diff!KeysOf(old) => Diff!At(old, k) = Diff!Undefined
        BY DEF Diff!At
    <2> QED BY <2>1, <2>2 DEF Diff!IsDifferent
<1>2. {l \in Diff!KeysOf(new) : Diff!IsDifferent(old, new, l)} = Changed(old, new)
    BY <1>1 DEF Changed
<1> QED BY <1>2 DEF Rows

LEMMA NothingMarked ==
    ASSUME NEW old \in Diff!Value, NEW new \in Diff!Value,
           \A k \in Diff!KeysOf(new) : Diff!Marked[<<Diff!At(old, k), Diff!At(new, k)>>] = {}
    PROVE  Diff!Marked[<<old, new>>] = Rows(old, new)
<1>1. \A k \in Diff!KeysOf(new) : Diff!Below(k, Diff!Marked[<<Diff!At(old, k), Diff!At(new, k)>>]) = {}
    BY BelowIs
<1> DEFINE below == UNION {Diff!Below(k, Diff!Marked[<<Diff!At(old, k), Diff!At(new, k)>>]) : k \in Diff!KeysOf(new)}
<1>2. below = {}
    BY <1>1
<1>3. Diff!Marked[<<old, new>>] = Rows(old, new) \cup below
    BY MarkedIs, Zenon
<1> QED BY <1>2, <1>3

LEMMA InnerIs ==
    ASSUME NEW old \in Diff!Value, NEW new \in Diff!Inner
    PROVE  /\ Diff!Marked[<<old, new>>] = {<<k>> : k \in Changed(old, new)}
           /\ new.isObject => Diff!Highlighted[<<old, new>>] = {<<k>> : k \in Changed(old, new)}
           /\ ~new.isObject => Diff!Highlighted[<<old, new>>] = Shown(old, new) /\ Diff!KeysOf(new) = {}
<1>1. new \in Nested /\ new \in Diff!Value
    BY SnapshotsAre, ValuesAre
<1>2. CASE new \in Scalars
    <2>1. ~new.isObject /\ Diff!KeysOf(new) = {}
        BY <1>2, InnerIsDefined, SnapshotsAre, ValuesAre
    <2>2. Diff!Marked[<<old, new>>] = {} /\ Changed(old, new) = {}
        BY <1>1, <2>1, NothingMarked DEF Rows, Changed
    <2>3. Diff!Highlighted[<<old, new>>] = Shown(old, new)
        BY <1>1, <2>1, HighlightedIs DEF Shown
    <2> QED BY <2>1, <2>2, <2>3
<1>3. CASE new \notin Scalars
    <2>1. new.isObject /\ \A k \in Diff!KeysOf(new) : Diff!At(new, k) \in Scalars
        BY <1>3, SnapshotsAre
    <2>2. ASSUME NEW k \in Diff!KeysOf(new)
          PROVE  /\ Diff!Marked[<<Diff!At(old, k), Diff!At(new, k)>>] = {}
                 /\ Diff!Highlighted[<<Diff!At(old, k), Diff!At(new, k)>>] = Shown(Diff!At(old, k), Diff!At(new, k))
        <3>1. PICK a, b : a = Diff!At(old, k) /\ b = Diff!At(new, k)
            OBVIOUS
        <3>2. a \in Diff!Value /\ b \in Scalars /\ b \in Diff!Value
            BY <2>1, <3>1, SnapshotsAre, ValuesAre
        <3>3. ~b.isObject /\ Diff!KeysOf(b) = {}
            BY <3>2, InnerIsDefined, SnapshotsAre, ValuesAre
        <3>4. Diff!Marked[<<a, b>>] = {}
            BY <3>2, <3>3, NothingMarked DEF Rows
        <3>5. Diff!Highlighted[<<a, b>>] = Shown(a, b)
            BY <3>2, <3>3, HighlightedIs DEF Shown
        <3> QED BY <3>1, <3>4, <3>5
    <2>3. \A k \in Diff!KeysOf(new) : Diff!At(new, k) \in Diff!Inner
        BY <2>1 DEF Scalars, Diff!Inner
    <2>4. Diff!Marked[<<old, new>>] = {<<k>> : k \in Changed(old, new)}
        <3>1. Diff!Marked[<<old, new>>] = Rows(old, new)
            BY <1>1, <2>2, NothingMarked
        <3> QED BY <2>3, <3>1, RowsAre
    <2>5. Diff!Highlighted[<<old, new>>] = {<<k>> : k \in Changed(old, new)}
        <3>1. ASSUME NEW k \in Diff!KeysOf(new)
              PROVE  Diff!Below(k, Diff!Highlighted[<<Diff!At(old, k), Diff!At(new, k)>>])
                     = IF k \in Changed(old, new) THEN {<<k>>} ELSE {}
            <4>1. Diff!Highlighted[<<Diff!At(old, k), Diff!At(new, k)>>]
                  = IF k \in Changed(old, new) THEN {<<>>} ELSE {}
                BY <2>2 DEF Shown, Changed
            <4> QED BY <4>1, BelowIs
        <3>2. ASSUME NEW p
              PROVE  p \in UNION {Diff!Below(k, Diff!Highlighted[<<Diff!At(old, k), Diff!At(new, k)>>]) : k \in Diff!KeysOf(new)}
                     <=> \E k \in Changed(old, new) : p = <<k>>
            <4>1. Changed(old, new) \subseteq Diff!KeysOf(new)
                BY DEF Changed
            <4> QED BY <3>1, <4>1
        <3>3. UNION {Diff!Below(k, Diff!Highlighted[<<Diff!At(old, k), Diff!At(new, k)>>]) : k \in Diff!KeysOf(new)}
              = {<<k>> : k \in Changed(old, new)}
            BY <3>2
        <3> QED BY <1>1, <2>1, <3>3, HighlightedIs
    <2> QED BY <2>1, <2>4, <2>5
<1> QED BY <1>2, <1>3

LEMMA SnapshotIs ==
    ASSUME NEW old \in Diff!Value, NEW new \in Diff!Snapshot
    PROVE  /\ \A p : p \in Diff!Marked[<<old, new>>] <=>
                        \/ \E k \in Changed(old, new) : p = <<k>>
                        \/ \E k \in Diff!KeysOf(new) : \E l \in Changed(Diff!At(old, k), Diff!At(new, k)) : p = <<k, l>>
           /\ \A p : p \in Diff!Highlighted[<<old, new>>] <=>
                        \/ \E k \in Changed(old, new) : ~Diff!At(new, k).isObject /\ p = <<k>>
                        \/ \E k \in Diff!KeysOf(new) : \E l \in Changed(Diff!At(old, k), Diff!At(new, k)) : p = <<k, l>>
<1>1. new \in Diff!Value /\ new.isObject /\ \A k \in Diff!KeysOf(new) : Diff!At(new, k) \in Diff!Inner
    BY SnapshotsAre
<1>2. ASSUME NEW k \in Diff!KeysOf(new)
      PROVE  /\ Diff!Below(k, Diff!Marked[<<Diff!At(old, k), Diff!At(new, k)>>])
                = {<<k, l>> : l \in Changed(Diff!At(old, k), Diff!At(new, k))}
             /\ Diff!Below(k, Diff!Highlighted[<<Diff!At(old, k), Diff!At(new, k)>>])
                = {<<k, l>> : l \in Changed(Diff!At(old, k), Diff!At(new, k))}
                  \cup (IF ~Diff!At(new, k).isObject /\ k \in Changed(old, new) THEN {<<k>>} ELSE {})
    <2>1. PICK a, b : a = Diff!At(old, k) /\ b = Diff!At(new, k)
        OBVIOUS
    <2>2. a \in Diff!Value /\ b \in Diff!Inner
        BY <1>1, <2>1, ValuesAre
    <2>3. Diff!Marked[<<a, b>>] = {<<l>> : l \in Changed(a, b)}
        BY <2>2, InnerIs
    <2>4. Diff!Below(k, Diff!Marked[<<a, b>>]) = {<<k, l>> : l \in Changed(a, b)}
        BY <2>3, BelowIs
    <2>5. k \in Changed(old, new) <=> a # b
        BY <2>1 DEF Changed
    <2>6. CASE b.isObject
        <3>1. Diff!Highlighted[<<a, b>>] = {<<l>> : l \in Changed(a, b)}
            BY <2>2, <2>6, InnerIs
        <3>2. Diff!Below(k, Diff!Highlighted[<<a, b>>]) = {<<k, l>> : l \in Changed(a, b)}
            BY <3>1, BelowIs
        <3> QED BY <2>1, <2>4, <2>6, <3>2
    <2>7. CASE ~b.isObject
        <3>1. Diff!Highlighted[<<a, b>>] = Shown(a, b) /\ Diff!KeysOf(b) = {}
            BY <2>2, <2>7, InnerIs
        <3>2. Changed(a, b) = {} /\ {<<k, l>> : l \in Changed(a, b)} = {}
            BY <3>1 DEF Changed
        <3>3. Diff!Below(k, Diff!Highlighted[<<a, b>>]) = IF k \in Changed(old, new) THEN {<<k>>} ELSE {}
            BY <2>5, <3>1, BelowIs DEF Shown
        <3> QED BY <2>1, <2>4, <2>7, <3>2, <3>3
    <2> QED BY <2>6, <2>7
<1>3. Changed(old, new) \subseteq Diff!KeysOf(new)
    BY DEF Changed
<1>4. ASSUME NEW p
      PROVE  p \in Diff!Marked[<<old, new>>] <=>
                \/ \E k \in Changed(old, new) : p = <<k>>
                \/ \E k \in Diff!KeysOf(new) : \E l \in Changed(Diff!At(old, k), Diff!At(new, k)) : p = <<k, l>>
    <2> DEFINE below == UNION {Diff!Below(k, Diff!Marked[<<Diff!At(old, k), Diff!At(new, k)>>]) : k \in Diff!KeysOf(new)}
    <2>1. Diff!Marked[<<old, new>>] = Rows(old, new) \cup below
        BY <1>1, MarkedIs, Zenon
    <2>2. Rows(old, new) = {<<k>> : k \in Changed(old, new)}
        BY <1>1, RowsAre
    <2>3. p \in below <=> \E k \in Diff!KeysOf(new) : p \in {<<k, l>> : l \in Changed(Diff!At(old, k), Diff!At(new, k))}
        BY <1>2
    <2> QED BY <2>1, <2>2, <2>3
<1>5. ASSUME NEW p
      PROVE  p \in Diff!Highlighted[<<old, new>>] <=>
                \/ \E k \in Changed(old, new) : ~Diff!At(new, k).isObject /\ p = <<k>>
                \/ \E k \in Diff!KeysOf(new) : \E l \in Changed(Diff!At(old, k), Diff!At(new, k)) : p = <<k, l>>
    <2> DEFINE below == UNION {Diff!Below(k, Diff!Highlighted[<<Diff!At(old, k), Diff!At(new, k)>>]) : k \in Diff!KeysOf(new)}
    <2>1. Diff!Highlighted[<<old, new>>] = below
        BY <1>1, HighlightedIs
    <2>2. p \in below <=> \E k \in Diff!KeysOf(new) :
                              \/ p \in {<<k, l>> : l \in Changed(Diff!At(old, k), Diff!At(new, k))}
                              \/ ~Diff!At(new, k).isObject /\ k \in Changed(old, new) /\ p = <<k>>
        BY <1>2
    <2> QED BY <1>3, <2>1, <2>2
<1> QED BY <1>4, <1>5

(* For all snapshots that nest once, whatever stood there before: the       *)
(* inspector highlights the values that changed and marks the rows above.   *)
LEMMA ChangeIsTold ==
    ASSUME NEW old \in Diff!Value, NEW new \in Diff!Snapshot
    PROVE  Diff!TellsChange(old, new)
<1>1. /\ \A v, k : Diff!Walk(v, <<k>>) = Diff!At(v, k)
      /\ \A v, k, l : Diff!Walk(v, <<k, l>>) = Diff!At(Diff!At(v, k), l)
    BY DEF Diff!Walk
<1>2. \A k \in Diff!KeysOf(new) :
          /\ Diff!At(new, k) \in Diff!Inner
          /\ \A l \in Diff!KeysOf(Diff!At(new, k)) : ~Diff!At(Diff!At(new, k), l).isObject
    <2>1. \A k \in Diff!KeysOf(new) : Diff!At(new, k) \in Diff!Inner
        BY SnapshotsAre
    <2>2. ASSUME NEW v \in Diff!Inner, NEW l \in Diff!KeysOf(v) PROVE ~Diff!At(v, l).isObject
        <3>1. v \notin Scalars
            BY <2>2, SnapshotsAre, ValuesAre
        <3> QED BY <3>1, SnapshotsAre, InnerIsDefined
    <2> QED BY <2>1, <2>2
<1> DEFINE changed == {p \in Diff!Paths(new) : Diff!Walk(old, p) # Diff!Walk(new, p)}
<1>3. ASSUME NEW p
      PROVE  p \in changed <=>
                \/ \E k \in Changed(old, new) : p = <<k>>
                \/ \E k \in Diff!KeysOf(new) : \E l \in Changed(Diff!At(old, k), Diff!At(new, k)) : p = <<k, l>>
    <2>1. p \in Diff!Paths(new) <=> \/ \E k \in Diff!KeysOf(new) : p = <<k>>
                                    \/ \E k \in Diff!KeysOf(new) : \E l \in Diff!KeysOf(Diff!At(new, k)) : p = <<k, l>>
        BY DEF Diff!Paths
    <2> QED BY <1>1, <2>1 DEF Changed
<1>4. ASSUME NEW p \in changed
      PROVE  p \in Diff!Highlighted[<<old, new>>] <=> ~Diff!Walk(new, p).isObject
    <2>1. CASE \E k \in Changed(old, new) : p = <<k>>
        <3>1. PICK k \in Changed(old, new) : p = <<k>>
            BY <2>1
        <3>2. p \in Diff!Highlighted[<<old, new>>] <=> ~Diff!At(new, k).isObject
            <4>1. \A i, j, l : p = <<i>> => i = k /\ p # <<j, l>>
                BY <3>1
            <4> QED BY <3>1, <4>1, SnapshotIs
        <3> QED BY <1>1, <3>1, <3>2
    <2>2. CASE \E k \in Diff!KeysOf(new) : \E l \in Changed(Diff!At(old, k), Diff!At(new, k)) : p = <<k, l>>
        <3>1. PICK k \in Diff!KeysOf(new) : \E l \in Changed(Diff!At(old, k), Diff!At(new, k)) : p = <<k, l>>
            BY <2>2
        <3>2. PICK l \in Changed(Diff!At(old, k), Diff!At(new, k)) : p = <<k, l>>
            BY <3>1
        <3>3. ~Diff!Walk(new, p).isObject
            BY <1>1, <1>2, <3>2 DEF Changed
        <3> QED BY <2>2, <3>3, SnapshotIs
    <2> QED BY <1>3, <2>1, <2>2
<1>5. Diff!Highlighted[<<old, new>>] \subseteq changed
    BY <1>3, SnapshotIs
<1>6. Diff!Marked[<<old, new>>] \subseteq changed
    BY <1>3, SnapshotIs
<1>7. ASSUME NEW p \in Diff!Highlighted[<<old, new>>], NEW n \in 1..Len(p)
      PROVE  SubSeq(p, 1, n) \in Diff!Marked[<<old, new>>]
    <2>1. CASE \E k \in Changed(old, new) : p = <<k>>
        <3>1. PICK k \in Changed(old, new) : p = <<k>>
            BY <2>1
        <3>2. Len(p) = 1
            BY <3>1
        <3>3. n = 1
            BY <1>7, <3>2
        <3>4. SubSeq(p, 1, n) = <<k>>
            BY <3>1, <3>3, PathIs
        <3> QED BY <3>4, SnapshotIs
    <2>2. CASE \E k \in Diff!KeysOf(new) : \E l \in Changed(Diff!At(old, k), Diff!At(new, k)) : p = <<k, l>>
        <3>1. PICK k \in Diff!KeysOf(new) : \E l \in Changed(Diff!At(old, k), Diff!At(new, k)) : p = <<k, l>>
            BY <2>2
        <3>2. PICK l \in Changed(Diff!At(old, k), Diff!At(new, k)) : p = <<k, l>>
            BY <3>1
        <3>3. k \in Changed(old, new)
            BY <3>2 DEF Changed
        <3>4. SubSeq(p, 1, n) \in {<<k>>, p}
            <4>1. n = 1 \/ n = 2
                BY <1>7, <3>2
            <4> QED BY <3>2, <4>1, PathIs
        <3> QED BY <2>2, <3>3, <3>4, SnapshotIs
    <2> QED BY <2>1, <2>2, SnapshotIs
<1>8. Diff!Highlighted[<<old, new>>] = {p \in changed : ~Diff!Walk(new, p).isObject}
    <2> HIDE DEF changed
    <2> QED BY <1>4, <1>5
<1> QED BY <1>6, <1>7, <1>8 DEF Diff!TellsChange

DiffInv == view = "diff" => ui \in [old : Diff!Value, new : Diff!Snapshot]

LEMMA DiffHolds == (Init => DiffInv) /\ (DiffInv /\ [Next]_consolevars => DiffInv')
<1>1. ASSUME Init, view = "diff" PROVE DiffInv
    <2>1. PICK v \in Diff!Snapshot : ui = [old |-> Diff!Undefined, new |-> v]
        BY <1>1 DEF Init, DiffMount
    <2>2. Diff!Undefined \in Diff!Value
        BY ValuesAre
    <2> QED BY <2>1, <2>2 DEF DiffInv
<1>2. ASSUME DiffInv, [Next]_consolevars, view = "diff" PROVE DiffInv'
    <2>1. ui \in [old : Diff!Value, new : Diff!Snapshot] /\ (DiffNext \/ UNCHANGED ui)
        BY <1>2 DEF DiffInv, Next, consolevars, clientvars
    <2>2. CASE DiffNext
        <3>1. PICK v \in Diff!Snapshot : ui' = [old |-> ui.new, new |-> v]
            BY <2>2 DEF DiffNext
        <3>2. ui.new \in Diff!Value
            BY <2>1, SnapshotsAre
        <3> QED BY <3>1, <3>2 DEF DiffInv
    <2> QED BY <2>1, <2>2 DEF DiffInv
<1> QED BY <1>1, <1>2 DEF DiffInv, Next, consolevars

(* The step that is inspected is the one drawn in the marked node, with the *)
(* step before it to compare it with; and of two snapshots it marks exactly *)
(* what changed.                                                            *)
THEOREM InspectsDrawnCorrect == Spec => []InspectsDrawn
<1>1. PicksInv /\ DiffInv => InspectsDrawn
    <2> SUFFICES ASSUME PicksInv, DiffInv PROVE InspectsDrawn
        OBVIOUS
    <2>1. view = "picks" => Picks!InspectsDrawn
        BY PicksShow DEF PicksInv
    <2>2. ASSUME view = "diff" PROVE Diff!TellsChange(ui.old, ui.new)
        <3>1. PICK old \in Diff!Value, new \in Diff!Snapshot : old = ui.old /\ new = ui.new
            BY <2>2 DEF DiffInv
        <3> QED BY <3>1, ChangeIsTold
    <2> QED BY <2>1, <2>2 DEF InspectsDrawn
<1> QED BY <1>1, PicksMounts, PicksStep, DiffHolds, PTL DEF Spec
-----------------------------------------------------------------------------
(* Every view keeps the types of its state, whatever is answered and fails, *)
(* in whatever order.                                                       *)
THEOREM ConsoleTypeCorrect == Spec => []TypeOK
<1>1. /\ PanelInv /\ TraceInv /\ StudioInv /\ CardInv /\ ModalInv /\ TracesInv /\ DriftInv /\ TestsInv /\ HomeInv
      /\ ShellInv /\ PicksInv /\ ForgeInv /\ DiffInv /\ TipInv /\ BarInv
      => TypeOK
    <2> SUFFICES ASSUME PanelInv, TraceInv, StudioInv, CardInv, ModalInv, TracesInv, DriftInv, TestsInv, HomeInv,
                        ShellInv, PicksInv, ForgeInv, DiffInv, TipInv, BarInv
                 PROVE  TypeOK
        OBVIOUS
    <2>1. /\ view = "panel"  => ui \in Panel!PanelState
          /\ view = "trace"  => ui \in Trace!PageState
          /\ view = "studio" => ui \in Studio!PageState
          /\ view = "card"   => ui \in Card!CardState
          /\ view = "modal"  => ui \in Modal!ModalState
        BY DEF PanelInv, PanelOK, PanelRest, PanelTypes, TraceInv, TraceOK, TraceTypes, StudioInv, CardInv,
            ModalInv, ModalOK
    <2>2. /\ view = "traces" => ui \in Traces!PageState
          /\ view = "drift"  => ui \in Drift!PageState
          /\ view = "tests"  => ui \in Tests!PageState
          /\ view = "home"   => ui \in Home!PageState
        BY DEF TracesInv, TracesOK, TracesTypes, DriftInv, DriftOK, DriftTypes, TestsInv, TestsOK, TestsTypes,
            HomeInv, HomeOK, HomeTypes
    <2>3. /\ view = "shell"  => ui \in Shell!ShellState
          /\ view = "picks"  => ui \in Picks!PickState
          /\ view = "forge"  => ui \in Forge!PageState
          /\ view = "diff"   => ui \in [old : Diff!Value, new : Diff!Snapshot]
          /\ view = "tip"    => ui \in Tip!TipState
          /\ view = "bar"    => ui \in [page : 1..MaxPages, total : 0..MaxPages]
        BY DEF ShellInv, ShellOK, PicksInv, PicksOK, ForgeInv, ForgeOK, ForgeTypes, DiffInv, TipInv, BarInv
    <2> QED BY <2>1, <2>2, <2>3 DEF TypeOK
<1> QED BY <1>1, PanelMounts, PanelStep, TraceMounts, TraceStep, StudioMounts, StudioStep, CardMounts, CardInvHolds,
        ModalMounts, ModalStep, TracesMounts, TracesStep, DriftMounts, DriftStep, TestsMounts, TestsStep,
        HomeMounts, HomeStep, ShellMounts, ShellStep, PicksMounts, PicksStep, ForgeMounts, ForgeStep, DiffHolds,
        TipMounts, TipStep, BarHolds, PTL DEF Spec
=============================================================================
