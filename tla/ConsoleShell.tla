----------------------------- MODULE ConsoleShell -----------------------------
(***************************************************************************)
(* The frame around the pages: the address, the search of the top bar, the  *)
(* drawer of narrow windows, the command palette, and the tours.  A tour    *)
(* comes once to each page, 800 ms after it was opened on a wide window.    *)
(*                                                                          *)
(* Keys go to window listeners of all of these and then to the element that *)
(* has the focus, wherever that is; only the mouse is kept off the page by  *)
(* the overlay of a tour.                                                   *)
(***************************************************************************)
EXTENDS ConsoleClient

CONSTANT Page   \* the paths that are visited

TourSteps == [p \in {"/", "/traces", "/drift", "/regression", "/traces/id", "/traces/id/replay", "*"} |->
                 CASE p \in {"/", "/traces/id"} -> 4
                   [] p = "/traces/id/replay"   -> 3
                   [] p = "*"                   -> 0
                   [] OTHER                     -> 2]

Text == {Nil, "text"}

(* timer: the page its closure holds; step counts from 0; seen is what the  *)
(* local storage holds, of earlier visits too.                              *)
ShellState == [path : Page, query : Text, text : Text, mobile : BOOLEAN, nav : BOOLEAN,
               palette : BOOLEAN, timer : Page \cup {Nil}, tour : Page \cup {Nil}, step : Nat,
               seen : SUBSET Page]

TimerFor(u) == IF u.mobile THEN Nil ELSE u.path

Mount == /\ \E p \in Page, narrow \in BOOLEAN, old \in SUBSET Page :
               LET u == [path |-> p, query |-> Nil, text |-> Nil, mobile |-> narrow, nav |-> FALSE,
                         palette |-> FALSE, timer |-> Nil, tour |-> Nil, step |-> 0, seen |-> old]
               IN  ui = [u EXCEPT !.timer = TimerFor(u)]
         /\ pending = {} /\ past = Nil

Becomes(u) == ui' = u /\ UNCHANGED <<server, pending, past>>
-----------------------------------------------------------------------------
(* Mutant: the timer of the last page goes on.                            *)
GoToTimerLeft(u, page, query) ==
    IF page = u.path /\ query = u.query THEN u
    ELSE [u EXCEPT !.path = page, !.query = query, !.nav = FALSE,
                   !.text = IF page = "/traces" THEN query ELSE @,
                   !.timer = IF u.mobile \/ @ # Nil THEN @ ELSE page]

(* The effects of a new location: the drawer closes, the search of the top  *)
(* bar is that of the address, and the timer starts again on a new page.    *)
GoTo(u, page, query) ==
    IF page = u.path /\ query = u.query THEN u
    ELSE [u EXCEPT !.path = page, !.query = query, !.nav = FALSE,
                   !.text = IF page = "/traces" THEN query ELSE @,
                   !.timer = IF page = u.path \/ u.mobile THEN @ ELSE page]

(* Back, forward, a link of a page, or a link of the drawer.                *)
Navigate == \E p \in Page, q \in Text :
                /\ p # "/traces" => q = Nil
                /\ Becomes([GoTo(ui, p, q) EXCEPT !.nav = FALSE])

Resize == LET u == [ui EXCEPT !.mobile = ~@] IN Becomes([u EXCEPT !.timer = TimerFor(u)])

ToggleNav == ui.mobile /\ Becomes([ui EXCEPT !.nav = ~@])

(* Mutant: the address keeps its search.                                  *)
handleSearchOnly == \E t \in Text : Becomes([ui EXCEPT !.text = t])

(* The search of the top bar; one that is emptied leaves the address too.   *)
handleSearch == \E t \in Text :
    LET u == [ui EXCEPT !.text = t] IN
    Becomes(IF t = Nil /\ u.path = "/traces" THEN GoTo(u, "/traces", Nil) ELSE u)

submitSearch(u) == IF u.text = Nil THEN u ELSE GoTo(u, "/traces", u.text)

TogglePalette == Becomes([ui EXCEPT !.palette = ~@])

navigateTo(u, p) == [GoTo(u, p, Nil) EXCEPT !.palette = FALSE]
-----------------------------------------------------------------------------
(* Mutant: the step of the last tour stays.                               *)
startTourInPlace(u, p) == [u EXCEPT !.tour = p]

(* The timer shows the tour of the page, if it was never ended; another     *)
(* tour goes without being ended.                                           *)
startTour(u, p) == [u EXCEPT !.tour = p, !.step = 0]

Timeout == /\ ui.timer # Nil
           /\ LET u == [ui EXCEPT !.timer = Nil] IN
              Becomes(IF TourSteps[ui.timer] = 0 \/ ui.timer \in ui.seen THEN u
                      ELSE startTour(u, ui.timer))

endTour(u) == IF u.tour = Nil THEN u
              ELSE [u EXCEPT !.seen = @ \cup {u.tour}, !.tour = Nil, !.step = 0]

onNext(u) == IF u.tour = Nil THEN u
             ELSE IF u.step < TourSteps[u.tour] - 1 THEN [u EXCEPT !.step = @ + 1]
             ELSE endTour(u)

(* The overlay's buttons and its backdrop; the right arrow.                 *)
Advance == ui.tour # Nil /\ Becomes(onNext(ui))
Skip    == ui.tour # Nil /\ Becomes(endTour(ui))

(* Enter advances a tour, and is then the key of the focused element: the   *)
(* top bar's field, or a button, the overlay's own among them.              *)
Enter == \/ Becomes(submitSearch(onNext(ui)))
         \/ ui.tour # Nil /\ Becomes(onNext(onNext(ui)))
         \/ ui.palette /\ \E p \in Page : Becomes(navigateTo(onNext(ui), p))

PickPage == ui.palette /\ ui.tour = Nil /\ \E p \in Page : Becomes(navigateTo(ui, p))

(* One Escape closes all that is open.                                      *)
Escape == Becomes([endTour(ui) EXCEPT !.palette = FALSE, !.nav = FALSE])

Next == \/ Navigate
        \/ Resize
        \/ ToggleNav
        \/ handleSearch
        \/ TogglePalette
        \/ Timeout
        \/ Advance
        \/ Skip
        \/ Enter
        \/ PickPage
        \/ Escape
-----------------------------------------------------------------------------
(* The step that is drawn is one of the tour's: reading another would take  *)
(* the whole console down.                                                  *)
StepInTour == ui.tour # Nil => ui.step < TourSteps[ui.tour]

(* A list that the address filters is never shown below an empty search.    *)
SearchIsOfAddress == ui.path = "/traces" /\ ui.text = Nil => ui.query = Nil

(* A tour that starts is that of the page that is open, and was never ended *)
(* on this browser before.                                                  *)
TourIsDue == ui'.tour \notin {Nil, ui.tour} => ui'.tour = ui'.path /\ ui'.tour \notin ui.seen

(* The tour of the page that is open is shown, or its timer runs, unless    *)
(* the window is narrow or the tour was ended before: no way of coming to a *)
(* page, nor another tour, keeps its own tour away from it.                 *)
TourIsAwaited == ~ui.mobile /\ ui.path \notin ui.seen /\ TourSteps[ui.path] > 0
                 => ui.path \in {ui.timer, ui.tour}
=============================================================================
