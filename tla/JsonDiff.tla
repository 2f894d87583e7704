------------------------------- MODULE JsonDiff -------------------------------
(***************************************************************************)
(* What the inspector marks in the snapshot of a step: the keys and values  *)
(* that are not those of the step before it.  An object is the sequence of  *)
(* its entries, as JSON.stringify tells their order too; an array is a leaf. *)
(***************************************************************************)
EXTENDS Naturals, Sequences, FiniteSets, Functions

CONSTANTS Nil, Leaf, Key

Scalar(x) == [isObject |-> FALSE, leaf |-> x, entries |-> <<>>]
Object(e) == [isObject |-> TRUE, leaf |-> Nil, entries |-> e]
Undefined == Scalar(Nil)

KeysOf(v) == {e[1] : e \in Range(v.entries)}

Entries(values, n) == {s \in [1..n -> Key \X values] : IsInjective([i \in 1..n |-> s[i][1]])}

(* Snapshots that nest once, with at most one entry inside.                 *)
Inner     == {Scalar(x) : x \in Leaf} \cup {Object(e) : e \in Entries({Scalar(x) : x \in Leaf}, 0)
                                                      \cup Entries({Scalar(x) : x \in Leaf}, 1)}
Snapshot  == {Object(e) : e \in UNION {Entries(Inner, n) : n \in 0..Cardinality(Key)}}

Node(entry) == [isObject : BOOLEAN, leaf : Leaf \cup {Nil}, entries : Seq(entry)]
Value       == Node(Key \X Node(Key \X Node({})))

(* v[k], of a value that may not be an object.                              *)
At(v, k) == IF k \in KeysOf(v)
            THEN (CHOOSE e \in Range(v.entries) : e[1] = k)[2] ELSE Undefined

Below(k, paths) == {<<k>> \o p : p \in paths}
-----------------------------------------------------------------------------
(* renderDiffNode: the paths of the values it highlights, and of the keys   *)
(* whose rows it marks.                                                     *)
Highlighted[pair \in Value \X Value] ==
    LET old == pair[1]
        new == pair[2]
    IN  IF new.isObject THEN UNION {Below(k, Highlighted[<<At(old, k), At(new, k)>>]) : k \in KeysOf(new)}
        ELSE IF old = new THEN {} ELSE {<<>>}

(* Mutant: only the rows of new keys are marked.                            *)
IsDifferentIfNew(old, new, k) == k \notin KeysOf(old)

IsDifferent(old, new, k) == k \notin KeysOf(old) \/ At(old, k) # At(new, k)

Marked[pair \in Value \X Value] ==
    LET old == pair[1]
        new == pair[2]
    IN  {<<k>> : k \in {l \in KeysOf(new) : IsDifferent(old, new, l)}}
        \cup UNION {Below(k, Marked[<<At(old, k), At(new, k)>>]) : k \in KeysOf(new)}
-----------------------------------------------------------------------------
(* The reference: the value at the end of a path.                           *)
Walk(v, path) == IF path = <<>> THEN v
                 ELSE IF Len(path) = 1 THEN At(v, path[1]) ELSE At(At(v, path[1]), path[2])

Paths(v) == {<<k>> : k \in KeysOf(v)}
            \cup UNION {{<<k, l>> : l \in KeysOf(At(v, k))} : k \in KeysOf(v)}

(* A value is highlighted exactly when it is not the one of the step        *)
(* before, and then every row on the way down to it is marked; a row is     *)
(* marked only above what changed, be it the order of keys.                 *)
TellsChange(old, new) ==
    LET changed == {p \in Paths(new) : Walk(old, p) # Walk(new, p)}
    IN  /\ Highlighted[<<old, new>>] = {p \in changed : ~Walk(new, p).isObject}
        /\ \A p \in Highlighted[<<old, new>>] : \A n \in 1..Len(p) : SubSeq(p, 1, n) \in Marked[<<old, new>>]
        /\ Marked[<<old, new>>] \subseteq changed
=============================================================================
