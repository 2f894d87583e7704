--------------------------- MODULE DriftCheckModal ---------------------------
(***************************************************************************)
(* The dialog that checks the drift of the run of a trace page.  It keeps   *)
(* its state while it is closed and when the page turns to another run.     *)
(***************************************************************************)
EXTENDS ConsoleClient

ModalState == [open : BOOLEAN, run : Run, result : Run \cup {Nil},
               running : BOOLEAN, error : BOOLEAN]

Mount == /\ \E r \in Run : ui = [open |-> FALSE, run |-> r, result |-> Nil,
                                 running |-> FALSE, error |-> FALSE]
         /\ pending = {} /\ past = {}

(* past: the runs whose result was shown or awaited when the dialog was     *)
(* last closed or turned to another run.                                    *)
Remember == past' = PendingRuns \cup ({ui.result} \ {Nil})

(* What the open dialog renders: the intro with its button, the spinner,    *)
(* the results with theirs; a re-run leaves the results above the spinner.  *)
Shown == (IF ui.result # Nil THEN {"results"} ELSE IF ui.running THEN {} ELSE {"intro"})
         \cup (IF ui.running THEN {"spinner"} ELSE {})

Open == /\ ~ui.open
        /\ ui' = [ui EXCEPT !.open = TRUE]
        /\ UNCHANGED <<server, pending, past>>

(* Mutant: the result stays.                                              *)
ClosedOnly(u) == [u EXCEPT !.open = FALSE, !.error = FALSE]

(* Neither running nor the pending check goes.                              *)
Closed(u) == [u EXCEPT !.open = FALSE, !.result = Nil, !.error = FALSE]

(* The buttons, the cross, Escape or a click beside the dialog.             *)
handleClose == /\ ui.open
               /\ ui' = Closed(ui)
               /\ past' = PendingRuns
               /\ UNCHANGED <<server, pending>>

TurnTo == /\ \E r \in Run \ {ui.run} : ui' = [ui EXCEPT !.run = r]
          /\ Remember
          /\ UNCHANGED <<server, pending>>

(* "Run Drift Check", or "Re-run".                                          *)
handleRun == /\ ui.open /\ Shown \cap {"intro", "results"} # {}
             /\ Send("check", "post", ui.run, Nil)
             /\ ui' = [ui EXCEPT !.running = TRUE, !.error = FALSE]
             /\ UNCHANGED <<server, past>>

CheckAnswer(p) == /\ ui' = [ui EXCEPT !.result = p.run, !.running = FALSE]
                  /\ Returns(p)
                  /\ UNCHANGED <<server, past>>

CheckFails(p) == /\ ui' = [ui EXCEPT !.error = TRUE, !.running = FALSE]
                 /\ Returns(p)
                 /\ UNCHANGED <<server, past>>

Answers == \E p \in pending : CheckAnswer(p) \/ CheckFails(p)

Next == \/ Open
        \/ handleClose
        \/ TurnTo
        \/ handleRun
        \/ Answers
-----------------------------------------------------------------------------
(* The dialog shows the check of its run, or of one that was shown or       *)
(* awaited when it last turned to its run, or was awaited when it was last  *)
(* closed: a result that was closed does not come back.                     *)
ShowsOwnRun == ui.open /\ ui.result # Nil => ui.result \in {ui.run} \cup past

NeverStuck == ui.running => pending # {}
=============================================================================
