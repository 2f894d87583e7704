------------------------------ MODULE Pagination ------------------------------
(***************************************************************************)
(* The page numbers below a list.  Of many pages only the first, the last   *)
(* and those around the current one are offered, with a "..." for a gap.    *)
(***************************************************************************)
EXTENDS Integers, Sequences

Gap == 0   \* stands for the "..."

Larger(i, j)  == IF i > j THEN i ELSE j
Smaller(i, j) == IF i < j THEN i ELSE j

Window(from, to) == [k \in 1..(to - from + 1) |-> from + k - 1]

(* Mutant: the window around the current page is not widened at the end.    *)
StartAtEnd(page, total) == IF page >= total - 2 THEN total - 1 ELSE Larger(2, page - 1)

(* Mutant: nor is it cut there.                                             *)
EndUncut(page, total) == IF page <= 3 THEN 4 ELSE page + 1

(* Where the run of page numbers around the current one starts and ends.    *)
Start(page, total) == IF page >= total - 2 THEN Larger(2, total - 3) ELSE Larger(2, page - 1)
End(page, total)   == IF page <= 3 THEN Smaller(4, total - 1) ELSE Smaller(total - 1, page + 1)

getPages(page, total) ==
    IF total <= 5 THEN Window(1, total)
    ELSE <<1>> \o (IF Start(page, total) > 2 THEN <<Gap>> ELSE <<>>)
         \o Window(Start(page, total), End(page, total))
         \o (IF End(page, total) < total - 1 THEN <<Gap>> ELSE <<>>) \o <<total>>

Numbers(bar) == {bar[i] : i \in 1..Len(bar)} \ {Gap}

(* The pages a click leads to.  One page needs no bar.                      *)
Clicks(page, total) ==
    IF total <= 1 THEN {}
    ELSE Numbers(getPages(page, total))
         \cup (IF page > 1 THEN {page - 1} ELSE {})
         \cup (IF page < total THEN {page + 1} ELSE {})

(* The bar as a reader expects it: from the first page to the last, in      *)
(* ascending order, with the current page and the pages beside it, and with *)
(* a gap exactly where pages are left out.                                  *)
WellFormed(bar, page, total) ==
    /\ bar[1] = 1 /\ bar[Len(bar)] = total
    /\ \A i \in 1..(Len(bar) - 1) :
          IF bar[i + 1] = Gap THEN bar[i] # Gap /\ bar[i + 2] > bar[i] + 1
          ELSE bar[i] = Gap \/ bar[i + 1] = bar[i] + 1
    /\ {page - 1, page, page + 1} \cap (1..total) \subseteq Numbers(bar)
=============================================================================
