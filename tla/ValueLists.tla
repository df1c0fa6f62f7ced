----------------------------- MODULE ValueLists -----------------------------
(***************************************************************************)
(* What the list exercise (src/c_practice/p32_33) promises: sequences of   *)
(* values that grow and shrink at both ends, lose a value anywhere, are    *)
(* joined, and are sorted, whichever of the three sorts is called.  A call *)
(* begins and returns in steps of their own, and what the lists hold       *)
(* changes with the return: a call that does nothing is seen to.           *)
(***************************************************************************)
EXTENDS Integers, Sequences

CONSTANTS Lists, Values     \* Values are numbers, as the Comparer sees them
VARIABLES
    seq,                    \* the values of every list there is
    op                      \* the call that runs, with its arguments, or None

None == [fn |-> "none"]
Request(fn, x, arg) == [fn |-> fn, list |-> x, arg |-> arg]
Sorts == {"List_mergesort", "List_bubblesort", "List_sort_from_bottom_to_top"}

Sorted(s) == \A i, j \in 1 .. Len(s) : i < j => s[i] <= s[j]
SameValues(s, t) ==
    \E p \in [1 .. Len(s) -> 1 .. Len(s)] :
        /\ \A i \in 1 .. Len(s) : \E k \in 1 .. Len(s) : p[k] = i
        /\ t = [i \in 1 .. Len(s) |-> s[p[i]]]
WithoutPlace(s, i) == [k \in 1 .. Len(s) - 1 |-> IF k < i THEN s[k] ELSE s[k + 1]]

\* List_connect is called with two lists, the second of them not empty unless
\* the first one is.
Begin ==
    /\ op = None
    /\ \/ \E x \in Lists \ DOMAIN seq : op' = Request("List_create", x, 0)
       \/ \E x \in DOMAIN seq :
            \/ \E fn \in {"List_destroy", "List_pop", "List_shift"} \cup Sorts : op' = Request(fn, x, 0)
            \/ \E fn \in {"List_push", "List_unshift"}, v \in Values : op' = Request(fn, x, v)
            \/ \E i \in 1 .. Len(seq[x]) : op' = Request("List_remove", x, i)
            \/ \E y \in DOMAIN seq \ {x} :
                 (seq[x] = <<>> \/ seq[y] # <<>>) /\ op' = Request("List_connect", x, y)
    /\ UNCHANGED seq

(* What a call on list x makes of s, the values of all lists: the result is *)
(* t.                                                                       *)

Others(x, s, t) == DOMAIN t = DOMAIN s /\ \A y \in DOMAIN s \ {x} : t[y] = s[y]

Create(x, s, t) == t = [y \in DOMAIN s \cup {x} |-> IF y = x THEN <<>> ELSE s[y]]
Destroy(x, s, t) == t = [y \in DOMAIN s \ {x} |-> s[y]]
AddLast(x, v, s, t) == Others(x, s, t) /\ t[x] = Append(s[x], v)
AddFirst(x, v, s, t) == Others(x, s, t) /\ t[x] = <<v>> \o s[x]
RemovePlace(x, i, s, t) ==
    Others(x, s, t) /\ t[x] = IF i \in 1 .. Len(s[x]) THEN WithoutPlace(s[x], i) ELSE s[x]
Join(x, y, s, t) == t = [z \in DOMAIN s \ {y} |-> IF z = x THEN s[x] \o s[y] ELSE s[z]]
Sort(x, s, t) == Others(x, s, t) /\ Sorted(t[x]) /\ SameValues(s[x], t[x])

Effect(c, s, t) ==
    \/ c.fn = "List_create" /\ Create(c.list, s, t)
    \/ c.fn = "List_destroy" /\ Destroy(c.list, s, t)
    \/ c.fn = "List_push" /\ AddLast(c.list, c.arg, s, t)
    \/ c.fn = "List_unshift" /\ AddFirst(c.list, c.arg, s, t)
    \/ c.fn = "List_pop" /\ RemovePlace(c.list, Len(s[c.list]), s, t)
    \/ c.fn = "List_shift" /\ RemovePlace(c.list, 1, s, t)
    \/ c.fn = "List_remove" /\ RemovePlace(c.list, c.arg, s, t)
    \/ c.fn = "List_connect" /\ Join(c.list, c.arg, s, t)
    \/ c.fn \in Sorts /\ Sort(c.list, s, t)

Return ==
    /\ op # None /\ op' = None
    /\ \E s \in {seq}, t \in {seq'} : Effect(op, s, t)

Init == seq = <<>> /\ op = None
Next == Begin \/ Return
Spec == Init /\ [][Next]_<<seq, op>>
=============================================================================
