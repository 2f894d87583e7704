------------------------------- MODULE TourTip -------------------------------
(***************************************************************************)
(* The overlay of a tour: a spotlight on the element its step is about and  *)
(* a card beside it.  The element is looked for at once, after 100 ms and   *)
(* after 400 ms, for a page may still be loading or scrolling.              *)
(***************************************************************************)
EXTENDS Integers, ConsoleClient

CONSTANTS
    WindowSize,  \* sizes of the window, [width, height]
    Box,         \* places an element may have, [top, left, width, height]
    CardHeight   \* measured heights of the card

(* Where the steps of the tour of the dashboard want their card.  The       *)
(* element of a step is named by the number of the step.                    *)
Placement == <<"right", "bottom", "top", "left">>

TipState == [step : DOMAIN Placement, rect : {Nil} \cup [of : DOMAIN Placement, box : Box],
             looks : SUBSET [of : DOMAIN Placement, after : {100, 400}], h : CardHeight]

(* The card is measured after every rendering.                              *)
Renders(u) == /\ \E h \in CardHeight : ui' = [u EXCEPT !.h = h]
              /\ UNCHANGED <<server, pending, past>>

findRect(target) == {Nil} \cup [of : {target}, box : Box]

Looks(target) == [of : {target}, after : {100, 400}]

Mount == /\ \E i \in DOMAIN Placement, h \in CardHeight : \E r \in findRect(i) :
               ui = [step |-> i, rect |-> r, looks |-> Looks(i), h |-> h]
         /\ pending = {} /\ past = Nil

(* Mutant: the looks for the last element go on.                            *)
TurnLooking(i) == /\ i # ui.step
                  /\ \E r \in findRect(i) :
                        Renders([ui EXCEPT !.step = i, !.rect = r, !.looks = @ \cup Looks(i)])

(* The next step, or a step of another tour.                                *)
Turn(i) == /\ i # ui.step
           /\ \E r \in findRect(i) :
                 Renders([ui EXCEPT !.step = i, !.rect = r, !.looks = Looks(i)])

Look(t) == /\ \A u \in ui.looks : u.of = t.of => t.after <= u.after
           /\ \E r \in findRect(t.of) :
                 Renders([ui EXCEPT !.rect = r, !.looks = @ \ {t}])

Next == \/ \E i \in DOMAIN Placement : Turn(i)
        \/ \E t \in ui.looks : Look(t)
-----------------------------------------------------------------------------
CardWidth == 330
GapWidth  == 16
Margin    == 12

Least(i, j)    == IF i < j THEN i ELSE j
Greatest(i, j) == IF i > j THEN i ELSE j

(* Mutant: the far side of the window wins over the near one.               *)
WithinFar(x, card, size) == Least(Greatest(Margin, x), size - card - Margin)

(* A place that keeps off the edges of the window, the near one first.      *)
Within(x, card, size) == Greatest(Margin, Least(x, size - card - Margin))

Middle(from, size, card) == from + size \div 2 - card \div 2

(* Where the card would be put in an unbounded window.                      *)
Beside(box, placement, h) ==
    CASE placement = "top"    -> [top  |-> box.top - h - GapWidth,
                                  left |-> Middle(box.left, box.width, CardWidth)]
      [] placement = "bottom" -> [top  |-> box.top + box.height + GapWidth,
                                  left |-> Middle(box.left, box.width, CardWidth)]
      [] placement = "left"   -> [top  |-> Middle(box.top, box.height, h),
                                  left |-> box.left - CardWidth - GapWidth]
      [] placement = "right"  -> [top  |-> Middle(box.top, box.height, h),
                                  left |-> box.left + box.width + GapWidth]

(* Without its element the card is in the middle, and nothing cuts it.      *)
calcTooltipPosition(u, window) ==
    IF u.rect = Nil
    THEN [top |-> Middle(0, window.height, u.h), left |-> Middle(0, window.width, CardWidth)]
    ELSE LET place == Beside(u.rect.box, Placement[u.step], u.h)
         IN  [top  |-> Within(place.top, u.h, window.height),
              left |-> Within(place.left, CardWidth, window.width)]
-----------------------------------------------------------------------------
(* A step never points at the element of another one: what is lit belongs   *)
(* to the step whose text is shown.                                         *)
SpotlightIsOfStep == ui.rect # Nil => ui.rect.of = ui.step

(* The card, with its Next and Skip, lies in any window that is large       *)
(* enough for it, wherever its element is, also beyond the window; in a     *)
(* smaller one its upper left corner does, unless it is centred.            *)
TipFits ==
    \A s \in WindowSize :
        LET tip == calcTooltipPosition(ui, s)
            Lies(x, card, size) ==
                /\ card + 2 * Margin <= size => Margin <= x /\ x + card <= size - Margin
                /\ ui.rect # Nil => x >= Margin
        IN  Lies(tip.top, ui.h, s.height) /\ Lies(tip.left, CardWidth, s.width)
=============================================================================
