----------------------------- MODULE ReplayStudio -----------------------------
(***************************************************************************)
(* The page that compares a run with its replays.  It is left before it is  *)
(* opened for another run.                                                  *)
(***************************************************************************)
EXTENDS ConsoleClient

CONSTANT Routed   \* the runs that have a get_project_key step to patch

Blank(r) == [run |-> r, detail |-> Nil, strict |-> Nil, explor |-> Nil,
             promoted |-> Nil, busy |-> "load"]

PageState == [run : Run, detail : Run \cup {Nil}, strict : Run \cup {Nil},
              explor : Replay \cup {Nil}, promoted : Replay \cup {Nil},
              busy : {Nil, "load", "strict", "exploratory", "promote"}]

Mount == /\ \E r \in 1..server.runs :
               /\ ui = Blank(r)
               /\ pending = {NewRequest("load", "detail", r, Nil)}
         /\ past = Nil

patchStep == IF ui.detail \in Routed THEN ui.detail ELSE Nil

(* The card below the controls: nothing, the offer to save, or "saved".     *)
Card == IF ui.explor = Nil THEN "none"
        ELSE IF ui.promoted = Nil THEN "save" ELSE "saved"
-----------------------------------------------------------------------------
LoadAnswer(p) == /\ p.op = "load"
                 /\ ui' = [ui EXCEPT !.detail = p.run, !.busy = Nil]
                 /\ Returns(p)
                 /\ UNCHANGED <<server, past>>

Fail(p) == /\ ui' = SetBusy(ui, Nil)
           /\ Returns(p)
           /\ UNCHANGED <<server, past>>

runStrict == /\ Offered("strict")
             /\ Send("strict", "post", ui.run, Nil)
             /\ ui' = SetBusy(ui, "strict")
             /\ UNCHANGED <<server, past>>

StrictAnswer(p) == /\ p.op = "strict"
                   /\ ui' = [ui EXCEPT !.strict = p.run, !.busy = Nil]
                   /\ Returns(p)
                   /\ UNCHANGED <<server, past>>

(* Neither the former simulation nor promotedId is cleared.                 *)
runExploratory ==
    /\ Offered("exploratory") /\ patchStep # Nil
    /\ Send("exploratory", "post", ui.run, Nil)
    /\ ui' = SetBusy(ui, "exploratory")
    /\ UNCHANGED <<server, past>>

ExploratoryAnswer(p) ==
    /\ p.op = "exploratory"
    /\ StoreReplay
    /\ \E done \in BOOLEAN : ui' = [ui EXCEPT !.explor = NewReplay(p.run, done), !.busy = Nil]
    /\ Returns(p)
    /\ UNCHANGED past

(* Offered for any simulation: the server refuses one that did not complete. *)
promote == /\ Card = "save" /\ Offered("promote")
           /\ Send("promote", "post", ui.run, ui.explor)
           /\ ui' = SetBusy(ui, "promote")
           /\ UNCHANGED <<server, past>>

(* Mutant: saved before the server has answered for it.                   *)
PromoteAnswerUnchecked(p) == /\ p.op = "promote"
                             /\ SaveTest(p.arg) \/ UNCHANGED server
                             /\ ui' = [ui EXCEPT !.promoted = p.arg, !.busy = Nil]
                             /\ Returns(p)
                             /\ UNCHANGED past

PromoteAnswer(p) == /\ p.op = "promote"
                    /\ SaveTest(p.arg)
                    /\ ui' = [ui EXCEPT !.promoted = p.arg, !.busy = Nil]
                    /\ Returns(p)
                    /\ UNCHANGED past

Answers == \E p \in pending : \/ LoadAnswer(p)
                              \/ StrictAnswer(p)
                              \/ ExploratoryAnswer(p)
                              \/ PromoteAnswer(p)
                              \/ Fail(p)

Next == \/ runStrict
        \/ runExploratory
        \/ promote
        \/ Answers
-----------------------------------------------------------------------------
NeverStuck == ui.busy # Nil => Waiting(ui.busy) # {}

(* The page says "Saved as regression test" only when the pack holds a test *)
(* made from a simulation of this run that completed, and offers to save    *)
(* again only what it has not saved.                                        *)
SavedIsInPack == Card = "saved" => Saved(ui.promoted) /\ ui.promoted.run = ui.run /\ ui.promoted.done
=============================================================================
