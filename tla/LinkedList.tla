----------------------------- MODULE LinkedList -----------------------------
(***************************************************************************)
(* The doubly linked list of src/c_practice/p32_33 (p32_list.c), which p42 *)
(* uses for its queue and its stack: the allocated nodes with their two    *)
(* links, and the lists that hold the ends and the count.  A node that is  *)
(* not allocated is not in the domain of `node`, so reading a freed node,  *)
(* or through NULL, is an error TLC reports.                               *)
(*                                                                         *)
(* A call is a step of the caller.  A function without a loop then is one  *)
(* step; of the others every round of a loop is a step, and a recursive    *)
(* call puts a frame on a stack.  The merge sorts pass ListNode**: a cell  *)
(* is the next link of a node, an end of a list or a local variable.       *)
(* List_clear, which frees what the values point to, and a calloc that     *)
(* fails are left out.                                                     *)
(***************************************************************************)
EXTENDS Integers, Sequences

CONSTANTS Lists, Values, Nodes, NULL

ASSUME LinkedListAssumption == Values \subseteq Int /\ NULL \notin Nodes

VARIABLES
    asked,      \* what the caller called, with its arguments, or Idle
    node,       \* the allocated ListNodes: next, prev, value
    list,       \* the allocated Lists: count, first, last
    call,       \* the running function with its arguments and variables, or Idle
    local,      \* its variables whose address it passes on: p_mid of each
                \* __List_sort, l and r of List_sort_from_bottom_to_top
    order,      \* history: the nodes of each list in their order
    was         \* history: the values of its list when the function was called

vars == <<asked, node, list, call, local, order, was>>

Idle == [fn |-> "none"]
Request(fn, x, arg) == [fn |-> fn, list |-> x, arg |-> arg]

Put(f, x, y) == [z \in DOMAIN f \cup {x} |-> IF z = x THEN y ELSE f[z]]
Without(f, S) == [x \in DOMAIN f \ S |-> f[x]]

\* Assignments through a pointer, which must be to an allocated node.
SetNext(nd, n, to) == Put(nd, n, [nd[n] EXCEPT !.next = to])
SetPrev(nd, n, to) == Put(nd, n, [nd[n] EXCEPT !.prev = to])
SetValue(nd, n, v) == Put(nd, n, [nd[n] EXCEPT !.value = v])

\* The i-th node of a list, and what a link holds beyond its ends.
At(s, i) == IF i \in 1 .. Len(s) THEN s[i] ELSE NULL
Place(s, n) == CHOOSE i \in 1 .. Len(s) : s[i] = n
CutOut(s, i) == [k \in 1 .. Len(s) - 1 |-> IF k < i THEN s[k] ELSE s[k + 1]]
Contents(x) == [i \in 1 .. Len(order[x]) |-> node[order[x][i]].value]

\* A function that is one step; the start, a round and the return of one that is
\* not.
AtOnce == call = Idle /\ asked' = Idle /\ UNCHANGED <<call, local, was>>
Begins(x, c, variables) ==
    /\ asked = Request(c.fn, x, 0) /\ call = Idle /\ call' = c
    /\ local' = variables /\ was' = Contents(x) /\ UNCHANGED <<asked, node, list, order>>
Moves == UNCHANGED <<asked, node, list, order, was>>
Returns == asked' = Idle /\ call' = Idle /\ local' = <<>> /\ was' = <<>>

-----------------------------------------------------------------------------
(* The caller. *)

\* The caller of List_connect owes a list_b that is not empty, unless list_a is:
\* list_b->first is written through.
Connectable(a, b) == a # b /\ (list[a].count = 0 \/ list[b].count # 0)

\* The bound is Nodes: nothing is added to lists that hold them all.
Calls ==
    /\ asked = Idle
    /\ \/ \E x \in Lists \ DOMAIN list : asked' = Request("List_create", x, 0)
       \/ \E x \in DOMAIN list :
            \/ \E fn \in {"List_destroy", "List_pop", "List_shift",
                         "List_mergesort", "List_bubblesort", "List_sort_from_bottom_to_top"} :
                  asked' = Request(fn, x, 0)
            \/ /\ DOMAIN node # Nodes
               /\ \E fn \in {"List_push", "List_unshift"}, v \in Values : asked' = Request(fn, x, v)
            \/ \E i \in 1 .. Len(order[x]) : asked' = Request("List_remove", x, i)
            \/ \E y \in DOMAIN list : Connectable(x, y) /\ asked' = Request("List_connect", x, y)
    /\ UNCHANGED <<node, list, call, local, order, was>>

-----------------------------------------------------------------------------
(* The ends of a list. *)

\* calloc, and the links the new node is given.
WithNode(n, v, next, prev) == Put(node, n, [next |-> next, prev |-> prev, value |-> v])

List_create(x) ==
    /\ asked = Request("List_create", x, 0) /\ AtOnce
    /\ x \notin DOMAIN list
    /\ list' = Put(list, x, [count |-> 0, first |-> NULL, last |-> NULL])
    /\ order' = Put(order, x, <<>>)
    /\ UNCHANGED node

\* List_destroy, List_clear_destroy: the node before each node, then the last.
List_destroy(x) == Begins(x, [fn |-> "List_destroy", list |-> x, cur |-> list[x].first], <<>>)

FreePrev ==
    /\ call.fn = "List_destroy" /\ call.cur # NULL
    /\ node' = Without(node, {node[call.cur].prev})
    /\ call' = [call EXCEPT !.cur = node'[@].next]
    /\ UNCHANGED <<asked, list, local, order, was>>

FreeList ==
    /\ call.fn = "List_destroy" /\ call.cur = NULL
    /\ node' = Without(node, {list[call.list].last})
    /\ list' = Without(list, {call.list}) /\ order' = Without(order, {call.list})
    /\ Returns

List_push(x, v) ==
    /\ asked = Request("List_push", x, v) /\ AtOnce
    /\ \E n \in Nodes \ DOMAIN node :
        LET l == list[x]
        IN  /\ order' = [order EXCEPT ![x] = Append(@, n)]
            /\ IF l.last = NULL
               THEN /\ node' = WithNode(n, v, NULL, NULL)
                    /\ list' = [list EXCEPT ![x] = [count |-> l.count + 1, first |-> n, last |-> n]]
               ELSE /\ node' = SetNext(WithNode(n, v, NULL, l.last), l.last, n)
                    /\ list' = [list EXCEPT ![x] = [count |-> l.count + 1, first |-> l.first, last |-> n]]

List_unshift(x, v) ==
    /\ asked = Request("List_unshift", x, v) /\ AtOnce
    /\ \E n \in Nodes \ DOMAIN node :
        LET l == list[x]
        IN  /\ order' = [order EXCEPT ![x] = <<n>> \o @]
            /\ IF l.first = NULL
               THEN /\ node' = WithNode(n, v, NULL, NULL)
                    /\ list' = [list EXCEPT ![x] = [count |-> l.count + 1, first |-> n, last |-> n]]
               ELSE /\ node' = SetPrev(WithNode(n, v, l.first, NULL), l.first, n)
                    /\ list' = [list EXCEPT ![x] = [count |-> l.count + 1, first |-> n, last |-> l.last]]

\* Mutant: the node before n still points to it.
Bypassed_backwards_only(n) == SetPrev(node, node[n].next, node[n].prev)

\* The links that List_remove mends around a node inside the list.
Bypassed(n) == SetNext(SetPrev(node, node[n].next, node[n].prev), node[n].prev, node[n].next)

\* The nodes once n is out of the list l.
Mended(l, n) ==
    CASE n = l.first /\ n = l.last -> node
      [] n = l.first /\ n # l.last -> SetPrev(node, node[n].next, NULL)
      [] n = l.last /\ n # l.first -> SetNext(node, node[n].prev, NULL)
      [] OTHER -> Bypassed(n)

\* The caller of List_remove owes a node of the list.
List_remove(x, n) ==
    LET l == list[x]
    IN  /\ AtOnce
        /\ list' = [list EXCEPT ![x] =
                      [count |-> l.count - 1,
                       first |-> IF n # l.first THEN l.first
                                 ELSE IF n = l.last THEN NULL ELSE node[n].next,
                       last |-> IF n # l.last THEN l.last
                                ELSE IF n = l.first THEN NULL ELSE node[n].prev]]
        /\ node' = Without(Mended(l, n), {n})
        /\ order' = [order EXCEPT ![x] = CutOut(@, Place(@, n))]

Nothing == AtOnce /\ UNCHANGED <<node, list, order>>

\* List_pop and List_shift remove the last and the first node, if there is one.
List_remove_at(x, i) == asked = Request("List_remove", x, i) /\ List_remove(x, order[x][i])
List_pop(x) ==
    /\ asked = Request("List_pop", x, 0)
    /\ IF list[x].last # NULL THEN List_remove(x, list[x].last) ELSE Nothing
List_shift(x) ==
    /\ asked = Request("List_shift", x, 0)
    /\ IF list[x].first # NULL THEN List_remove(x, list[x].first) ELSE Nothing

List_connect(a, b) ==
    LET la == list[a]  lb == list[b]
    IN  /\ asked = Request("List_connect", a, b) /\ AtOnce
        /\ Connectable(a, b)
        /\ order' = Without([order EXCEPT ![a] = @ \o order[b]], {b})
        /\ IF la.count = 0
           THEN list' = Without([list EXCEPT ![a] = lb], {b}) /\ UNCHANGED node
           ELSE /\ node' = SetPrev(SetNext(node, la.last, lb.first), lb.first, la.last)
                /\ list' = Without([list EXCEPT ![a] =
                     [count |-> la.count + lb.count, first |-> la.first, last |-> lb.last]], {b})

-----------------------------------------------------------------------------
(* List_bubblesort: the values move, the nodes stay. *)

List_bubblesort(x) ==
    Begins(x, [fn |-> "List_bubblesort", list |-> x, curi |-> 0, curj |-> 0, j |-> list[x].first], <<>>)

Compared == list[call.list].count - 1 - call.curi

\* The values of j and j->next are put in order.
Bubble ==
    /\ call.fn = "List_bubblesort" /\ call.curj < Compared
    /\ LET k == node[call.j].next
       IN  /\ node' = IF node[call.j].value > node[k].value
                      THEN SetValue(SetValue(node, call.j, node[k].value), k, node[call.j].value)
                      ELSE node
           /\ call' = [call EXCEPT !.curj = @ + 1, !.j = k]
    /\ UNCHANGED <<asked, list, local, order, was>>

NextBubbles ==
    /\ call.fn = "List_bubblesort" /\ Compared > 0 /\ call.curj >= Compared
    /\ call' = [call EXCEPT !.curi = @ + 1, !.curj = 0, !.j = list[call.list].first]
    /\ UNCHANGED local /\ Moves

BubblesEnd == call.fn = "List_bubblesort" /\ Compared <= 0 /\ Returns /\ UNCHANGED <<node, list, order>>

-----------------------------------------------------------------------------
(* __List_merge. *)

Memory == [node |-> node, list |-> list, local |-> local]

Read(h, c) ==
    CASE c[1] = "next" -> h.node[c[2]].next
      [] c[1] = "first" -> h.list[c[2]].first
      [] c[1] = "last" -> h.list[c[2]].last
      [] c[1] = "local" -> h.local[c[2]]
Write(h, c, n) ==
    CASE c[1] = "next" -> [h EXCEPT !.node = SetNext(@, c[2], n)]
      [] c[1] = "first" -> [h EXCEPT !.list[c[2]].first = n]
      [] c[1] = "last" -> [h EXCEPT !.list[c[2]].last = n]
      [] c[1] = "local" -> [h EXCEPT !.local[c[2]] = n]
WriteIf(cond, h, c, n) == IF cond THEN Write(h, c, n) ELSE h

\* m goes in front of l and its neighbours close up.
Relinked(nd, mid, l, m) ==
    LET nd1 == IF nd[m].next # NULL THEN SetPrev(nd, nd[m].next, mid) ELSE nd
        nd2 == SetNext(nd1, mid, nd1[m].next)
        nd3 == SetPrev(SetNext(nd2, m, l), m, nd2[l].prev)
        nd4 == IF nd3[l].prev # NULL THEN SetNext(nd3, nd3[l].prev, m) ELSE nd3
    IN  SetPrev(nd4, l, m)

\* The else branch of the loop: the ends move before the links.
Moved(left, right, mid, l, m) ==
    LET h1 == WriteIf(Read(Memory, right) = m, Memory, right, mid)
        h2 == WriteIf(Read(h1, left) = l, h1, left, m)
    IN  [h2 EXCEPT !.node = Relinked(@, mid, l, m)]

\* The j-th element goes in front of the i-th.
Rotated(s, i, j) ==
    [k \in 1 .. Len(s) |-> IF k = i THEN s[j] ELSE IF k \in i + 1 .. j THEN s[k - 1] ELSE s[k]]

\* The variables l, m and end_pos of a merge are fields of s, which is the frame
\* of its caller.
MergeStart(s, left, right, mid) ==
    [s EXCEPT !.at = "merge", !.l = Read(Memory, left), !.m = node[mid].next,
              !.end = node[Read(Memory, right)].next]

Merging(s) == s.at = "merge" /\ s.m # s.end /\ s.l # s.m
MergeEnds(s) == s.at = "merge" /\ (s.m = s.end \/ s.l = s.m)

Precedes(s) == node[s.l].value < node[s.m].value
AfterRound(s) == IF Precedes(s) THEN [s EXCEPT !.l = node[@].next] ELSE [s EXCEPT !.m = node[@].next]

MergeRound(s, left, right, mid) ==
    /\ IF Precedes(s) THEN UNCHANGED <<node, list, local, order>>
       ELSE /\ \E h \in {Moved(left, right, mid, s.l, s.m)} :
                 node' = h.node /\ list' = h.list /\ local' = h.local
            /\ order' = [order EXCEPT ![call.list] = Rotated(@, Place(@, s.l), Place(@, s.m))]
    /\ UNCHANGED <<asked, was>>

-----------------------------------------------------------------------------
(* __List_sort, called by List_mergesort and by itself: `at` is where it is, *)
(* and local[d] is the p_mid of the d-th frame.                              *)

Frame(left, right) ==
    [left |-> left, right |-> right, helper |-> Read(Memory, left), at |-> "halve",
     l |-> NULL, m |-> NULL, end |-> NULL]

\* Mutant: two values are left as they are.
HasPairs_of_three(x) == list[x].count > 2

HasPairs(x) == list[x].count > 1

List_mergesort(x) ==
    IF HasPairs(x)
    THEN Begins(x, [fn |-> "List_mergesort", list |-> x,
                    stack |-> <<Frame(<<"first", x>>, <<"last", x>>)>>], <<list[x].first>>)
    ELSE asked = Request("List_mergesort", x, 0) /\ Nothing

depth == Len(call.stack)
top == call.stack[depth]
p_mid == local[depth]

\* The loop with the two pointers: p_mid goes one step where p_helper goes two.
Halve ==
    /\ call.fn = "List_mergesort" /\ top.at = "halve" /\ top.helper # Read(Memory, top.right)
    /\ LET next == node[top.helper].next
       IN  IF next = Read(Memory, top.right)
           THEN call' = [call EXCEPT !.stack[depth].helper = next] /\ UNCHANGED local
           ELSE /\ call' = [call EXCEPT !.stack[depth].helper = node[next].next]
                /\ local' = [local EXCEPT ![depth] = node[@].next]
    /\ Moves

Halved == call.fn = "List_mergesort" /\ top.at = "halve" /\ top.helper = Read(Memory, top.right)

\* __List_sort calls itself with the cells left and right.
Recurse(at, left, right) ==
    /\ call' = [call EXCEPT !.stack = Append([@ EXCEPT ![depth].at = at], Frame(left, right))]
    /\ local' = Append(local, Read(Memory, left))
    /\ Moves

SortLeft == Halved /\ p_mid # top.helper /\ Recurse("left", top.left, <<"local", depth>>)

SortRight ==
    /\ call.fn = "List_mergesort" /\ top.at = "left"
    /\ Recurse("right", <<"next", p_mid>>, top.right)

MergeHalves ==
    /\ call.fn = "List_mergesort" /\ top.at = "right"
    /\ call' = [call EXCEPT !.stack[depth] = MergeStart(@, top.left, top.right, p_mid)]
    /\ UNCHANGED local /\ Moves

MergeRoundOfHalves ==
    /\ call.fn = "List_mergesort" /\ Merging(top)
    /\ MergeRound(top, top.left, top.right, p_mid)
    /\ call' = [call EXCEPT !.stack[depth] = AfterRound(@)]

\* Segments of one node need no merge.
SortReturns ==
    /\ call.fn = "List_mergesort"
    /\ (Halved /\ p_mid = top.helper) \/ MergeEnds(top)
    /\ IF depth = 1 THEN Returns
       ELSE /\ call' = [call EXCEPT !.stack = SubSeq(@, 1, depth - 1)]
            /\ local' = SubSeq(local, 1, depth - 1)
            /\ UNCHANGED <<asked, was>>
    /\ UNCHANGED <<node, list, order>>

-----------------------------------------------------------------------------
(* List_sort_from_bottom_to_top: runs of `step` nodes are merged in pairs.   *)

l_ == <<"local", 1>>
r_ == <<"local", 2>>

List_sort_from_bottom_to_top(x) ==
    Begins(x, [fn |-> "List_sort_from_bottom_to_top", list |-> x, at |-> "round", step |-> 1, i |-> 0, k |-> 0,
               mid |-> NULL, l |-> NULL, m |-> NULL, end |-> NULL,
               isFirst |-> FALSE, isLast |-> FALSE], <<NULL, NULL>>)

InBottomUp(at) == call.fn = "List_sort_from_bottom_to_top" /\ call.at = at

\* How many pairs of runs a round merges (n_iter).
pairs == (list[call.list].count + call.step - 1) \div (call.step * 2)

\* r->next, but not beyond the end of the list.
NextOfRight == IF local[2] # list[call.list].last THEN node[local[2]].next ELSE local[2]

RoundStarts ==
    /\ InBottomUp("round") /\ call.step < list[call.list].count
    /\ call' = [call EXCEPT !.at = "mid", !.i = 0, !.k = 0, !.mid = list[call.list].first]
    /\ local' = <<list[call.list].first, list[call.list].first>>
    /\ Moves

\* p_mid and r go to the end of the first run,
WalkMid ==
    /\ InBottomUp("mid")
    /\ IF call.k < call.step - 1
       THEN /\ call' = [call EXCEPT !.k = @ + 1, !.mid = node[@].next]
            /\ local' = [local EXCEPT ![2] = node[@].next]
       ELSE call' = [call EXCEPT !.at = "right", !.k = 0] /\ UNCHANGED local
    /\ Moves

\* and r to that of the second, which may be short.
WalkRight ==
    /\ InBottomUp("right")
    /\ IF call.k < call.step /\ local[2] # list[call.list].last
       THEN call' = [call EXCEPT !.k = @ + 1] /\ local' = [local EXCEPT ![2] = NextOfRight]
       ELSE call' = [call EXCEPT !.at = "pair"] /\ UNCHANGED local
    /\ Moves

MergePair ==
    /\ InBottomUp("pair") /\ call.i < pairs
    /\ call' = [MergeStart(call, l_, r_, call.mid) EXCEPT
                  !.isFirst = local[1] = list[call.list].first,
                  !.isLast = local[2] = list[call.list].last]
    /\ UNCHANGED local /\ Moves

MergeRoundOfPair ==
    /\ call.fn = "List_sort_from_bottom_to_top" /\ Merging(call)
    /\ MergeRound(call, l_, r_, call.mid)
    /\ call' = AfterRound(call)

PairMerged ==
    /\ call.fn = "List_sort_from_bottom_to_top" /\ MergeEnds(call)
    /\ list' = [list EXCEPT ![call.list].first = IF call.isFirst THEN local[1] ELSE @,
                            ![call.list].last = IF call.isLast THEN local[2] ELSE @]
    /\ call' = IF call.i = pairs - 1 THEN [call EXCEPT !.at = "pair", !.i = @ + 1]
               ELSE [call EXCEPT !.at = "next", !.k = 0]
    /\ UNCHANGED <<asked, node, local, order, was>>

\* l and r go to the next pair of runs,
WalkNext ==
    /\ InBottomUp("next")
    /\ IF call.k < call.step * 2
       THEN call' = [call EXCEPT !.k = @ + 1] /\ local' = <<node[local[1]].next, NextOfRight>>
       ELSE call' = [call EXCEPT !.at = "nextmid", !.k = 0, !.mid = local[1]] /\ UNCHANGED local
    /\ Moves

\* and p_mid to the end of the first of the two.
WalkNextMid ==
    /\ InBottomUp("nextmid")
    /\ call' = IF call.k < call.step - 1 THEN [call EXCEPT !.k = @ + 1, !.mid = node[@].next]
               ELSE [call EXCEPT !.at = "pair", !.i = @ + 1]
    /\ UNCHANGED local /\ Moves

\* A round doubles the length of the runs in order.
RoundEnds ==
    /\ InBottomUp("pair") /\ call.i >= pairs
    /\ call' = [call EXCEPT !.at = "round", !.step = @ * 2]
    /\ UNCHANGED local /\ Moves

BottomUpEnds ==
    /\ InBottomUp("round") /\ call.step >= list[call.list].count
    /\ Returns /\ UNCHANGED <<node, list, order>>

-----------------------------------------------------------------------------
Init ==
    /\ asked = Idle
    /\ node = <<>> /\ list = <<>> /\ order = <<>>
    /\ call = Idle /\ local = <<>> /\ was = <<>>

Next ==
    \/ Calls
    \/ \E x \in Lists : List_create(x)
    \/ \E x \in DOMAIN list :
        \/ List_destroy(x)
        \/ \E v \in Values : List_push(x, v) \/ List_unshift(x, v)
        \/ \E i \in 1 .. Len(order[x]) : List_remove_at(x, i)
        \/ List_pop(x) \/ List_shift(x)
        \/ List_mergesort(x) \/ List_bubblesort(x) \/ List_sort_from_bottom_to_top(x)
        \/ \E y \in DOMAIN list : List_connect(x, y)
    \/ FreePrev \/ FreeList
    \/ Bubble \/ NextBubbles \/ BubblesEnd
    \/ Halve \/ SortLeft \/ SortRight \/ MergeHalves \/ MergeRoundOfHalves \/ SortReturns
    \/ RoundStarts \/ WalkMid \/ WalkRight \/ MergePair \/ MergeRoundOfPair \/ PairMerged
    \/ WalkNext \/ WalkNextMid \/ RoundEnds \/ BottomUpEnds

Spec == Init /\ [][Next]_vars

-----------------------------------------------------------------------------
(* Correctness. *)

Owned(x) == {order[x][i] : i \in 1 .. Len(order[x])}

\* Both links of the nodes of a list are those of the order s.
Linked(nd, s) ==
    \A i \in 1 .. Len(s) :
        s[i] \in DOMAIN nd /\ nd[s[i]].next = At(s, i + 1) /\ nd[s[i]].prev = At(s, i - 1)

EndsOf(s) == [count |-> Len(s), first |-> At(s, 1), last |-> At(s, Len(s))]

Busy(x) == call # Idle /\ call.list = x

\* After any sequence of calls, and between two rounds of a sort, both directions
\* of the links of a list agree, no node is in two lists, and the allocated nodes
\* are those of the lists: none is leaked (List_destroy, List_remove,
\* List_connect) and none is reached after it was freed.  No function that
\* returned leaves a wrong count or a wrong end behind.
ListTypeOK ==
    /\ DOMAIN list = DOMAIN order /\ DOMAIN list \subseteq Lists /\ DOMAIN node \subseteq Nodes
    /\ \A x \in DOMAIN list :
        /\ (call.fn = "List_destroy" /\ Busy(x)) \/ Linked(node, order[x])
        /\ Busy(x) \/ list[x] = EndsOf(order[x])
    /\ \A x, y \in DOMAIN list : x # y => Owned(x) \cap Owned(y) = {}
    /\ call.fn = "List_destroy" \/ DOMAIN node = UNION {Owned(x) : x \in DOMAIN list}

Abstract == INSTANCE ValueLists WITH
    op <- asked,
    seq <- [x \in DOMAIN list |-> IF Busy(x) THEN was ELSE Contents(x)]

\* Seen through its next links a list is what its calls made of it: when one of
\* the three sorts returns the list holds the values it held, in order, although
\* the merge sorts move the very link their caller's `left` points to, and when
\* any other function returns it has done to the sequence what it is called for.
IsSequence == Abstract!Spec
=============================================================================
