-------------------------- MODULE LinkedListProofs --------------------------
(***************************************************************************)
(* Theorems about the doubly linked lists of c_practice/p32_33, for any    *)
(* number of lists, nodes and values.                                      *)
(*                                                                         *)
(* The model's list operations assign through pointers one by one; the     *)
(* history variable order gives each list the sequence of its nodes.  The  *)
(* invariant IInv says at every point of every call which parts of the     *)
(* heap are whole lists: all of it between calls, all but what has been    *)
(* freed in List_destroy, and in a sort the pieces the recursion or the    *)
(* walk has cut and joined so far, which together hold the nodes and the   *)
(* values the sort found.                                                  *)
(*                                                                         *)
(* In order: assignments through pointers; chains of nodes; the segments   *)
(* they are cut into and joined from; merging; each function; the          *)
(* invariant; and the refinement of ValueLists.                            *)
(***************************************************************************)
EXTENDS LinkedList, SequenceTheorems, TLAPS

-----------------------------------------------------------------------------
(* Assignments through pointers. *)

Links == Nodes \cup {NULL}
NodeRecord == [next : Links, prev : Links, value : Values]

\* The allocated nodes and what is in them.
Heap(nd) == DOMAIN nd \subseteq Nodes /\ nd \in [DOMAIN nd -> NodeRecord]

\* nd2 is nd but for the fields named.
SameBut(nd2, nd, n) ==
    /\ Heap(nd2) /\ DOMAIN nd2 = DOMAIN nd
    /\ \A q \in DOMAIN nd : q # n => nd2[q] = nd[q]

\* An assignment to n->next changes that field of that node only.
LEMMA SetNextIs ==
    ASSUME NEW nd, NEW n \in DOMAIN nd, NEW to \in Links, Heap(nd)
    PROVE  /\ SameBut(SetNext(nd, n, to), nd, n)
           /\ SetNext(nd, n, to)[n] = [next |-> to, prev |-> nd[n].prev, value |-> nd[n].value]
<1> DEFINE r == SetNext(nd, n, to)
<1>1. /\ DOMAIN r = DOMAIN nd
      /\ r = [q \in DOMAIN nd |-> IF q = n THEN [nd[n] EXCEPT !.next = to] ELSE nd[q]]
  BY DEF SetNext, Put
<1>2. nd[n] \in NodeRecord
  BY DEF Heap
<1>3. [nd[n] EXCEPT !.next = to] = [next |-> to, prev |-> nd[n].prev, value |-> nd[n].value]
  BY <1>2 DEF NodeRecord
<1>4. [nd[n] EXCEPT !.next = to] \in NodeRecord
  BY <1>2, <1>3 DEF NodeRecord
<1> HIDE DEF r
<1>5. SameBut(r, nd, n)
  BY <1>1, <1>4 DEF SameBut, Heap
<1>6. r[n] = [next |-> to, prev |-> nd[n].prev, value |-> nd[n].value]
  BY <1>1, <1>3
<1>7. QED
  BY <1>5, <1>6 DEF r

\* The same of n->prev,
LEMMA SetPrevIs ==
    ASSUME NEW nd, NEW n \in DOMAIN nd, NEW to \in Links, Heap(nd)
    PROVE  /\ SameBut(SetPrev(nd, n, to), nd, n)
           /\ SetPrev(nd, n, to)[n] = [next |-> nd[n].next, prev |-> to, value |-> nd[n].value]
<1> DEFINE r == SetPrev(nd, n, to)
<1>1. /\ DOMAIN r = DOMAIN nd
      /\ r = [q \in DOMAIN nd |-> IF q = n THEN [nd[n] EXCEPT !.prev = to] ELSE nd[q]]
  BY DEF SetPrev, Put
<1>2. nd[n] \in NodeRecord
  BY DEF Heap
<1>3. [nd[n] EXCEPT !.prev = to] = [next |-> nd[n].next, prev |-> to, value |-> nd[n].value]
  BY <1>2 DEF NodeRecord
<1>4. [nd[n] EXCEPT !.prev = to] \in NodeRecord
  BY <1>2, <1>3 DEF NodeRecord
<1> HIDE DEF r
<1>5. SameBut(r, nd, n)
  BY <1>1, <1>4 DEF SameBut, Heap
<1>6. r[n] = [next |-> nd[n].next, prev |-> to, value |-> nd[n].value]
  BY <1>1, <1>3
<1>7. QED
  BY <1>5, <1>6 DEF r

\* and of n->value.
LEMMA SetValueIs ==
    ASSUME NEW nd, NEW n \in DOMAIN nd, NEW w \in Values, Heap(nd)
    PROVE  /\ SameBut(SetValue(nd, n, w), nd, n)
           /\ SetValue(nd, n, w)[n] = [next |-> nd[n].next, prev |-> nd[n].prev, value |-> w]
<1> DEFINE r == SetValue(nd, n, w)
<1>1. /\ DOMAIN r = DOMAIN nd
      /\ r = [q \in DOMAIN nd |-> IF q = n THEN [nd[n] EXCEPT !.value = w] ELSE nd[q]]
  BY DEF SetValue, Put
<1>2. nd[n] \in NodeRecord
  BY DEF Heap
<1>3. [nd[n] EXCEPT !.value = w] = [next |-> nd[n].next, prev |-> nd[n].prev, value |-> w]
  BY <1>2 DEF NodeRecord
<1>4. [nd[n] EXCEPT !.value = w] \in NodeRecord
  BY <1>2, <1>3 DEF NodeRecord
<1> HIDE DEF r
<1>5. SameBut(r, nd, n)
  BY <1>1, <1>4 DEF SameBut, Heap
<1>6. r[n] = [next |-> nd[n].next, prev |-> nd[n].prev, value |-> w]
  BY <1>1, <1>3
<1>7. QED
  BY <1>5, <1>6 DEF r

-----------------------------------------------------------------------------
(* The move of a node by __List_merge. *)

\* The nodes of a list: no node is there twice.
OrderOK(s) == s \in Seq(Nodes) /\ \A i, k \in 1 .. Len(s) : s[i] = s[k] => i = k

\* What a merge may find when it moves m: the left cell, if it is the link before
\* l, was already written.
AlmostLinked(nd, s, i, j) ==
    \A k \in 1 .. Len(s) :
        /\ s[k] \in DOMAIN nd /\ nd[s[k]].prev = At(s, k - 1)
        /\ nd[s[k]].next = At(s, k + 1) \/ (k = i - 1 /\ nd[s[k]].next = s[j])

\* At gives the k-th node, and NULL past either end.
LEMMA AtIs ==
    ASSUME NEW s, OrderOK(s)
    PROVE  /\ \A k \in Int : At(s, k) \in Links
           /\ \A k \in 1 .. Len(s) : At(s, k) = s[k] /\ s[k] \in Nodes /\ s[k] # NULL
           /\ \A k \in Int : (k \in 1 .. Len(s)) \/ At(s, k) = NULL
           /\ Len(s) \in Nat
<1>1. Len(s) \in Nat /\ \A k \in 1 .. Len(s) : s[k] \in Nodes
  BY DEF OrderOK
<1>2. QED
  BY <1>1, LinkedListAssumption DEF At, Links

\* The six assignments of the body of __List_merge move the j-th node before the i-th.
LEMMA Relinking ==
    ASSUME NEW nd, Heap(nd), NEW s, OrderOK(s),
           NEW i \in 1 .. Len(s), NEW j \in 1 .. Len(s), i < j,
           AlmostLinked(nd, s, i, j)
    PROVE  LET r == Relinked(nd, s[j - 1], s[i], s[j])
           IN  /\ Heap(r) /\ DOMAIN r = DOMAIN nd
               /\ Linked(r, Rotated(s, i, j))
               /\ \A q \in DOMAIN nd : r[q].value = nd[q].value
               /\ \A q \in DOMAIN nd : (\A k \in 1 .. Len(s) : q # s[k]) => r[q] = nd[q]
<1> DEFINE l == s[i]
           m == s[j]
           mid == s[j - 1]
           a == At(s, i - 1)
           b == At(s, j + 1)
           nd1 == IF b # NULL THEN SetPrev(nd, b, mid) ELSE nd
           nd2 == SetNext(nd1, mid, b)
           nd3a == SetNext(nd2, m, l)
           nd3 == SetPrev(nd3a, m, a)
           nd4 == IF a # NULL THEN SetNext(nd3, a, m) ELSE nd3
           r == SetPrev(nd4, l, m)
           D == DOMAIN nd
<1>1. /\ Len(s) \in Nat /\ j - 1 \in 1 .. Len(s) /\ i <= j - 1 /\ i \in Int /\ j \in Int
      /\ l \in D /\ m \in D /\ mid \in D /\ l # m /\ m # mid
      /\ l \in Nodes /\ m \in Nodes /\ mid \in Nodes
      /\ l # b /\ m # b /\ mid # b /\ l # a /\ m # a /\ mid # a
      /\ a \in Links /\ b \in Links
      /\ a # NULL => a \in D /\ a # l /\ a # m /\ a # mid /\ a # b /\ i - 1 \in 1 .. Len(s) /\ a = s[i - 1]
      /\ b # NULL => b \in D /\ b # l /\ b # m /\ b # mid /\ j + 1 \in 1 .. Len(s) /\ b = s[j + 1]
      /\ a = NULL => i = 1
      /\ b = NULL => j = Len(s)
  BY AtIs, LinkedListAssumption DEF OrderOK, AlmostLinked, At
<1>2. nd[m].next = b /\ nd[l].prev = a
  <2>1. j # i - 1
    BY <1>1
  <2>2. QED
    BY <2>1 DEF AlmostLinked
<1> HIDE DEF l, m, mid, a, b
<1>3. /\ Heap(nd1) /\ DOMAIN nd1 = D
      /\ \A q \in D : /\ nd1[q].next = nd[q].next /\ nd1[q].value = nd[q].value
                      /\ nd1[q].prev = IF q = b THEN mid ELSE nd[q].prev
                      /\ q # b => nd1[q] = nd[q]
  <2>1. CASE b # NULL
    <3>1. /\ SameBut(nd1, nd, b)
          /\ nd1[b] = [next |-> nd[b].next, prev |-> mid, value |-> nd[b].value]
      BY <1>1, <2>1, SetPrevIs DEF Links
    <3> HIDE DEF nd1
    <3>2. QED
      BY <3>1 DEF SameBut
  <2>2. CASE b = NULL
    BY <2>2, LinkedListAssumption DEF Heap
  <2>3. QED
    BY <2>1, <2>2
<1> HIDE DEF nd1
<1>4. /\ Heap(nd2) /\ DOMAIN nd2 = D
      /\ \A q \in D : /\ nd2[q].next = (IF q = mid THEN b ELSE nd[q].next) /\ nd2[q].value = nd[q].value
                      /\ nd2[q].prev = IF q = b THEN mid ELSE nd[q].prev
                      /\ q # b /\ q # mid => nd2[q] = nd[q]
  <2>1. /\ SameBut(nd2, nd1, mid)
        /\ nd2[mid] = [next |-> b, prev |-> nd1[mid].prev, value |-> nd1[mid].value]
    BY <1>1, <1>3, SetNextIs
  <2> HIDE DEF nd2
  <2>2. QED
    BY <1>1, <1>3, <2>1 DEF SameBut
<1> HIDE DEF nd2
<1>5. /\ Heap(nd3a) /\ DOMAIN nd3a = D
      /\ \A q \in D : /\ nd3a[q].next = (IF q = m THEN l ELSE IF q = mid THEN b ELSE nd[q].next)
                      /\ nd3a[q].value = nd[q].value
                      /\ nd3a[q].prev = IF q = b THEN mid ELSE nd[q].prev
                      /\ q # b /\ q # mid /\ q # m => nd3a[q] = nd[q]
  <2>1. /\ SameBut(nd3a, nd2, m)
        /\ nd3a[m] = [next |-> l, prev |-> nd2[m].prev, value |-> nd2[m].value]
    BY <1>1, <1>4, SetNextIs DEF Links
  <2> HIDE DEF nd3a
  <2>2. QED
    BY <1>1, <1>4, <2>1 DEF SameBut
<1> HIDE DEF nd3a
<1>6. /\ Heap(nd3) /\ DOMAIN nd3 = D
      /\ \A q \in D : /\ nd3[q].next = (IF q = m THEN l ELSE IF q = mid THEN b ELSE nd[q].next)
                      /\ nd3[q].value = nd[q].value
                      /\ nd3[q].prev = IF q = m THEN a ELSE IF q = b THEN mid ELSE nd[q].prev
                      /\ q # b /\ q # mid /\ q # m => nd3[q] = nd[q]
  <2>1. /\ SameBut(nd3, nd3a, m)
        /\ nd3[m] = [next |-> nd3a[m].next, prev |-> a, value |-> nd3a[m].value]
    BY <1>1, <1>5, SetPrevIs
  <2> HIDE DEF nd3
  <2>2. QED
    BY <1>1, <1>5, <2>1 DEF SameBut
<1> HIDE DEF nd3
<1>7. /\ Heap(nd4) /\ DOMAIN nd4 = D
      /\ \A q \in D : /\ nd4[q].next = (IF q = a THEN m ELSE IF q = m THEN l ELSE IF q = mid THEN b ELSE nd[q].next)
                      /\ nd4[q].value = nd[q].value
                      /\ nd4[q].prev = IF q = m THEN a ELSE IF q = b THEN mid ELSE nd[q].prev
                      /\ q # b /\ q # mid /\ q # m /\ q # a => nd4[q] = nd[q]
  <2>1. CASE a # NULL
    <3>1. /\ SameBut(nd4, nd3, a)
          /\ nd4[a] = [next |-> m, prev |-> nd3[a].prev, value |-> nd3[a].value]
      BY <1>1, <1>6, <2>1, SetNextIs DEF Links
    <3> HIDE DEF nd4
    <3>2. QED
      BY <1>1, <1>6, <2>1, <3>1 DEF SameBut
  <2>2. CASE a = NULL
    BY <1>6, <2>2, LinkedListAssumption DEF Heap
  <2>3. QED
    BY <2>1, <2>2
<1> HIDE DEF nd4
<1>8. /\ Heap(r) /\ DOMAIN r = D
      /\ \A q \in D : /\ r[q].next = (IF q = a THEN m ELSE IF q = m THEN l ELSE IF q = mid THEN b ELSE nd[q].next)
                      /\ r[q].value = nd[q].value
                      /\ r[q].prev = IF q = l THEN m ELSE IF q = m THEN a ELSE IF q = b THEN mid ELSE nd[q].prev
                      /\ q # b /\ q # mid /\ q # m /\ q # a /\ q # l => r[q] = nd[q]
  <2>1. /\ SameBut(r, nd4, l)
        /\ r[l] = [next |-> nd4[l].next, prev |-> m, value |-> nd4[l].value]
    BY <1>1, <1>7, SetPrevIs DEF Links
  <2> HIDE DEF r
  <2>2. QED
    BY <1>1, <1>7, <2>1 DEF SameBut
<1>9. r = Relinked(nd, mid, l, m)
  <2>1. nd1 = IF nd[m].next # NULL THEN SetPrev(nd, nd[m].next, mid) ELSE nd
    BY <1>2 DEF nd1
  <2>2. nd2 = SetNext(nd1, mid, nd1[m].next)
    BY <1>1, <1>2, <1>3 DEF nd2
  <2>3. nd3 = SetPrev(SetNext(nd2, m, l), m, nd2[l].prev)
    BY <1>1, <1>2, <1>4 DEF nd3, nd3a
  <2>4. nd4 = IF nd3[l].prev # NULL THEN SetNext(nd3, nd3[l].prev, m) ELSE nd3
    BY <1>1, <1>2, <1>6 DEF nd4
  <2>5. QED
    BY <2>1, <2>2, <2>3, <2>4 DEF Relinked
<1> HIDE DEF r
<1>10. \A q \in D : (\A k \in 1 .. Len(s) : q # s[k]) => r[q] = nd[q]
  <2> SUFFICES ASSUME NEW q \in D, \A k \in 1 .. Len(s) : q # s[k] PROVE r[q] = nd[q]
    OBVIOUS
  <2>1. q \in Nodes /\ q # NULL
    BY LinkedListAssumption DEF Heap
  <2>2. q # b /\ q # mid /\ q # m /\ q # a /\ q # l
    BY <1>1, <2>1 DEF l, m, mid
  <2>3. QED
    BY <1>8, <2>2
<1>11. Linked(r, Rotated(s, i, j))
  <2> DEFINE t == Rotated(s, i, j)
  <2>1. Len(t) = Len(s) /\ \A k \in 1 .. Len(s) : t[k] = IF k = i THEN s[j] ELSE IF k \in i + 1 .. j THEN s[k - 1] ELSE s[k]
    BY DEF Rotated, OrderOK
  <2>2. \A k \in Int : At(t, k) = IF k = i THEN s[j] ELSE IF k \in i + 1 .. j THEN s[k - 1] ELSE At(s, k)
    BY <1>1, <2>1 DEF At
  <2>3. \A k \in 1 .. Len(s) : s[k] \in D /\ nd[s[k]].prev = At(s, k - 1) /\ (k # i - 1 => nd[s[k]].next = At(s, k + 1))
    BY DEF AlmostLinked
  <2> HIDE DEF t
  <2>4. SUFFICES ASSUME NEW k \in 1 .. Len(s)
                 PROVE  t[k] \in D /\ r[t[k]].next = At(t, k + 1) /\ r[t[k]].prev = At(t, k - 1)
    BY <2>1, <1>8 DEF Linked, t
  <2>5. CASE k = i
    <3>1. t[k] = m /\ At(t, k + 1) = l /\ At(t, k - 1) = a
      BY <1>1, <2>1, <2>2, <2>5 DEF l, m, a
    <3>2. QED
      BY <1>1, <1>8, <3>1
  <2>6. CASE k \in i + 1 .. j
    <3>1. /\ k - 1 \in 1 .. Len(s) /\ t[k] = s[k - 1] /\ t[k] \in D /\ t[k] # m /\ t[k] # a
          /\ k \in Int /\ k - 2 \in Int /\ k - 1 # j /\ k - 1 # i - 1 /\ t[k] # b
      <4>1. k - 1 \in 1 .. Len(s) /\ k - 1 # j /\ k - 1 # i - 1 /\ k - 1 # j + 1 /\ k \in Int /\ k - 2 \in Int
        BY <1>1, <2>6
      <4>2. t[k] = s[k - 1] /\ t[k] \in D
        BY <1>1, <2>1, <2>3, <2>6, <4>1
      <4>3. t[k] # m
        BY <4>1, <4>2 DEF m, OrderOK
      <4>4. t[k] # a
        BY <1>1, <4>1, <4>2, AtIs DEF a, OrderOK
      <4>5. t[k] # b
        BY <1>1, <4>1, <4>2, AtIs DEF b, OrderOK
      <4>6. QED
        BY <4>1, <4>2, <4>3, <4>4, <4>5
    <3>2. r[t[k]].next = At(t, k + 1)
      <4>1. CASE k = j
        BY <1>1, <1>8, <2>2, <3>1, <4>1 DEF mid, b
      <4>2. CASE k # j
        <5>1. t[k] # mid
          BY <1>1, <2>6, <3>1, <4>2 DEF mid, OrderOK
        <5>2. nd[t[k]].next = s[k] /\ At(t, k + 1) = s[k]
          <6>1. k + 1 \in i + 1 .. j /\ k + 1 # i /\ k + 1 - 1 = k /\ k - 1 + 1 = k /\ k + 1 \in Int
            BY <1>1, <2>6, <4>2
          <6>2. At(t, k + 1) = s[k]
            BY <2>2, <6>1
          <6>3. nd[s[k - 1]].next = At(s, k)
            BY <2>3, <3>1, <6>1
          <6>4. QED
            BY <3>1, <6>2, <6>3, AtIs
        <5>3. QED
          BY <1>8, <3>1, <5>1, <5>2
      <4>3. QED
        BY <4>1, <4>2
    <3>3. r[t[k]].prev = At(t, k - 1)
      <4>1. CASE k = i + 1
        BY <1>1, <1>8, <2>2, <3>1, <4>1 DEF l, m
      <4>2. CASE k # i + 1
        <5>1. t[k] # l
          BY <1>1, <2>6, <3>1, <4>2 DEF l, OrderOK
        <5>2. nd[t[k]].prev = s[k - 2] /\ At(t, k - 1) = s[k - 2]
          <6>1. k - 1 \in i + 1 .. j /\ k - 1 # i /\ k - 1 - 1 = k - 2 /\ k - 2 \in 1 .. Len(s)
            BY <1>1, <2>6, <4>2
          <6>2. At(t, k - 1) = s[k - 2]
            BY <2>2, <3>1, <6>1
          <6>3. nd[s[k - 1]].prev = At(s, k - 2)
            BY <2>3, <3>1, <6>1
          <6>4. QED
            BY <3>1, <6>1, <6>2, <6>3, AtIs
        <5>3. QED
          BY <1>8, <3>1, <5>1, <5>2
      <4>3. QED
        BY <4>1, <4>2
    <3>4. QED
      BY <3>1, <3>2, <3>3
  <2>7. CASE k # i /\ k \notin i + 1 .. j
    <3>1. t[k] = s[k] /\ t[k] \in D /\ t[k] # m /\ t[k] # l /\ t[k] # mid
      <4>1. t[k] = s[k] /\ t[k] \in D
        BY <2>1, <2>3, <2>7
      <4>2. k # i /\ k # j /\ k # j - 1
        BY <1>1, <2>7
      <4>3. s[k] # s[i] /\ s[k] # s[j] /\ s[k] # s[j - 1]
        BY <1>1, <4>2 DEF OrderOK
      <4>4. QED
        BY <4>1, <4>3 DEF l, m, mid
    <3>2. r[t[k]].next = At(t, k + 1)
      <4>1. CASE k = i - 1
        BY <1>1, <1>8, <2>2, <3>1, <4>1, AtIs DEF a, m
      <4>2. CASE k # i - 1
        <5>1. t[k] # a
          BY <1>1, <3>1, <4>2, AtIs DEF OrderOK
        <5>2. nd[t[k]].next = At(t, k + 1)
          BY <1>1, <2>2, <2>3, <2>7, <3>1, <4>2
        <5>3. QED
          BY <1>8, <3>1, <5>1, <5>2
      <4>3. QED
        BY <4>1, <4>2
    <3>3. r[t[k]].prev = At(t, k - 1)
      <4>1. CASE k = j + 1
        BY <1>1, <1>8, <2>2, <3>1, <4>1, AtIs DEF b, mid
      <4>2. CASE k # j + 1
        <5>1. t[k] # b
          BY <1>1, <3>1, <4>2, AtIs DEF OrderOK
        <5>2. nd[t[k]].prev = At(t, k - 1)
          BY <1>1, <2>2, <2>3, <2>7, <3>1, <4>2
        <5>3. QED
          BY <1>8, <3>1, <5>1, <5>2
      <4>3. QED
        BY <4>1, <4>2
    <3>4. QED
      BY <3>1, <3>2, <3>3
  <2>8. QED
    BY <2>5, <2>6, <2>7
<1>12. QED
  BY <1>8, <1>9, <1>10, <1>11 DEF l, m, mid

ListRecord == [count : Nat, first : Links, last : Links]

\* The i-th node is in the cell c which a merge calls left or right.
LeftCell(c, x, i) ==
    \/ i > 1 /\ c = <<"next", order[x][i - 1]>>
    \/ i = 1 /\ c = <<"first", x>> /\ list[x].first = order[x][i]
    \/ \E d \in DOMAIN local : c = <<"local", d>> /\ local[d] = order[x][i]
RightCell(c, x, i) ==
    \/ c = <<"last", x>> /\ list[x].last = order[x][i]
    \/ \E d \in DOMAIN local : c = <<"local", d>> /\ local[d] = order[x][i]

\* What Rotated holds at each place.
LEMMA RotatedIs ==
    ASSUME NEW s, Len(s) \in Nat, NEW i \in 1 .. Len(s), NEW j \in 1 .. Len(s), i < j
    PROVE  /\ Len(Rotated(s, i, j)) = Len(s) /\ DOMAIN Rotated(s, i, j) = 1 .. Len(s)
           /\ \A k \in 1 .. Len(s) :
                Rotated(s, i, j)[k] = IF k = i THEN s[j] ELSE IF k \in i + 1 .. j THEN s[k - 1] ELSE s[k]
BY DEF Rotated

\* The memory h after a move that made t of s: the segment lo .. hi has its first
\* node in left and its last in right, as before.
Rearranged(h, s, t, lo, hi, left, right) ==
    /\ Heap(h.node) /\ DOMAIN h.node = DOMAIN node /\ Linked(h.node, t)
    /\ \A q \in DOMAIN node : h.node[q].value = node[q].value
    /\ \A q \in DOMAIN node : (\A k \in 1 .. Len(s) : q # s[k]) => h.node[q] = node[q]
    /\ h.list = [y \in DOMAIN list |->
         [count |-> list[y].count,
          first |-> IF left = <<"first", y>> THEN t[lo] ELSE list[y].first,
          last |-> IF right = <<"last", y>> THEN t[hi] ELSE list[y].last]]
    /\ h.local = [d \in DOMAIN local |->
         IF left = <<"local", d>> THEN t[lo]
         ELSE IF right = <<"local", d>> THEN t[hi] ELSE local[d]]

\* The writes to the ends and then the links.
LEMMA Moving ==
    ASSUME Heap(node), list \in [DOMAIN list -> ListRecord], local \in [DOMAIN local -> Links],
           NEW x \in DOMAIN list, NEW s, s = order[x], OrderOK(s), Linked(node, s),
           NEW lo \in 1 .. Len(s), NEW i \in lo .. Len(s), NEW hi \in 1 .. Len(s), NEW j \in 1 .. hi, i < j,
           NEW left, NEW right, left # right, LeftCell(left, x, lo), RightCell(right, x, hi)
    PROVE  Rearranged(Moved(left, right, s[j - 1], s[i], s[j]), s, Rotated(s, i, j), lo, hi, left, right)
<1> DEFINE l == s[i]
           m == s[j]
           mid == s[j - 1]
           t == Rotated(s, i, j)
           h1 == WriteIf(Read(Memory, right) = m, Memory, right, mid)
           h2 == WriteIf(Read(h1, left) = l, h1, left, m)
           ls1 == [y \in DOMAIN list |->
                    [count |-> list[y].count, first |-> list[y].first,
                     last |-> IF right = <<"last", y>> THEN t[hi] ELSE list[y].last]]
           lc1 == [d \in DOMAIN local |-> IF right = <<"local", d>> THEN t[hi] ELSE local[d]]
           ls2 == [y \in DOMAIN list |->
                    [count |-> list[y].count,
                     first |-> IF left = <<"first", y>> THEN t[lo] ELSE list[y].first,
                     last |-> IF right = <<"last", y>> THEN t[hi] ELSE list[y].last]]
           lc2 == [d \in DOMAIN local |->
                    IF left = <<"local", d>> THEN t[lo]
                    ELSE IF right = <<"local", d>> THEN t[hi] ELSE local[d]]
<1>1. /\ Len(s) \in Nat /\ i \in 1 .. Len(s) /\ j \in 1 .. Len(s) /\ j - 1 \in 1 .. Len(s)
      /\ lo \in Int /\ i \in Int /\ j \in Int /\ hi \in Int /\ lo <= i /\ j <= hi
  BY DEF OrderOK
<1>2. /\ t[hi] = IF j = hi THEN mid ELSE s[hi]
      /\ t[lo] = IF i = lo THEN m ELSE s[lo]
  <2>1. /\ hi # i /\ hi \in 1 .. Len(s) /\ (hi \in i + 1 .. j <=> hi = j)
        /\ lo \notin i + 1 .. j /\ lo \in 1 .. Len(s)
    BY <1>1
  <2>2. \A k \in 1 .. Len(s) : t[k] = IF k = i THEN s[j] ELSE IF k \in i + 1 .. j THEN s[k - 1] ELSE s[k]
    <3>1. i < j
      OBVIOUS
    <3>2. QED
      BY ONLY <1>1, <3>1, RotatedIs
  <2> HIDE DEF t
  <2>3. QED
    BY <2>1, <2>2
<1>3. /\ s[hi] = m <=> j = hi
      /\ s[lo] = l <=> i = lo
  BY <1>1 DEF OrderOK
<1>4. h1 = [node |-> node, list |-> ls1, local |-> lc1]
  <2> HIDE DEF t, mid
  <2>1. ASSUME right = <<"last", x>>, list[x].last = s[hi]
        PROVE  h1 = [node |-> node, list |-> ls1, local |-> lc1]
    <3>1. Read(Memory, right) = s[hi]
      BY <2>1 DEF Read, Memory
    <3>2. local = lc1
      BY <2>1
    <3>3. CASE j = hi
      <4>1. [list EXCEPT ![x].last = mid] = ls1
        BY <1>2, <2>1, <3>3 DEF ListRecord
      <4>2. h1 = [Memory EXCEPT !.list[x].last = mid]
        BY <1>3, <2>1, <3>1, <3>3 DEF Write, WriteIf
      <4>3. QED
        BY <3>2, <4>1, <4>2 DEF Memory
    <3>4. CASE j # hi
      <4>1. list = ls1
        BY <1>2, <2>1, <3>4 DEF ListRecord
      <4>2. h1 = Memory
        BY <1>3, <3>1, <3>4 DEF WriteIf
      <4>3. QED
        BY <3>2, <4>1, <4>2 DEF Memory
    <3>5. QED
      BY <3>3, <3>4
  <2>2. ASSUME NEW d \in DOMAIN local, right = <<"local", d>>, local[d] = s[hi]
        PROVE  h1 = [node |-> node, list |-> ls1, local |-> lc1]
    <3>1. Read(Memory, right) = s[hi]
      BY <2>2 DEF Read, Memory
    <3>2. list = ls1
      BY <2>2 DEF ListRecord
    <3>3. CASE j = hi
      <4>1. [local EXCEPT ![d] = mid] = lc1
        BY <1>2, <2>2, <3>3
      <4>2. h1 = [Memory EXCEPT !.local[d] = mid]
        BY <1>3, <2>2, <3>1, <3>3 DEF Write, WriteIf
      <4>3. QED
        BY <3>2, <4>1, <4>2 DEF Memory
    <3>4. CASE j # hi
      <4>1. local = lc1
        BY <1>2, <2>2, <3>4
      <4>2. h1 = Memory
        BY <1>3, <3>1, <3>4 DEF WriteIf
      <4>3. QED
        BY <3>2, <4>1, <4>2 DEF Memory
    <3>5. QED
      BY <3>3, <3>4
  <2>3. QED
    BY <2>1, <2>2 DEF RightCell
<1> HIDE DEF h1
<1> DEFINE Written ==
           /\ h2.list = ls2 /\ h2.local = lc2 /\ h2 = [node |-> h2.node, list |-> h2.list, local |-> h2.local]
           /\ Heap(h2.node) /\ DOMAIN h2.node = DOMAIN node /\ AlmostLinked(h2.node, s, i, j)
           /\ \A q \in DOMAIN node : h2.node[q].value = node[q].value
           /\ \A q \in DOMAIN node : (\A k \in 1 .. Len(s) : q # s[k]) => h2.node[q] = node[q]
<1>5. Written
  <2> HIDE DEF t, mid, m
  <2>0. /\ AlmostLinked(node, s, i, j)
        /\ m \in Links
    BY <1>1, AtIs DEF AlmostLinked, Linked, m, Links
  <2>1. ASSUME lo > 1, left = <<"next", s[lo - 1]>> PROVE Written
    <3>1. ls1 = ls2 /\ lc1 = lc2
      BY <2>1
    <3>2. lo - 1 \in 1 .. Len(s) /\ s[lo - 1] \in DOMAIN node /\ At(s, lo - 1 + 1) = s[lo]
      <4>1. lo - 1 \in 1 .. Len(s) /\ lo - 1 + 1 = lo /\ lo \in 1 .. Len(s)
        BY <1>1, <2>1
      <4>2. QED
        BY <4>1, AtIs DEF Linked
    <3>3. Read(h1, left) = s[lo]
      BY <1>4, <2>1, <3>2 DEF Read, Linked
    <3>4. CASE i = lo
      <4>1. h2 = [h1 EXCEPT !.node = SetNext(node, s[lo - 1], m)]
        BY <1>3, <1>4, <2>1, <3>3, <3>4 DEF Write, WriteIf
      <4>2. h2 = [node |-> SetNext(node, s[lo - 1], m), list |-> ls2, local |-> lc2]
        BY <1>4, <3>1, <4>1
      <4>3. /\ SameBut(h2.node, node, s[lo - 1])
            /\ h2.node[s[lo - 1]] = [next |-> m, prev |-> node[s[lo - 1]].prev, value |-> node[s[lo - 1]].value]
        BY <2>0, <3>2, <4>2, SetNextIs
      <4> HIDE DEF h2
      <4>4. AlmostLinked(h2.node, s, i, j)
        <5> SUFFICES ASSUME NEW k \in 1 .. Len(s)
                     PROVE  /\ s[k] \in DOMAIN h2.node /\ h2.node[s[k]].prev = At(s, k - 1)
                            /\ h2.node[s[k]].next = At(s, k + 1) \/ (k = i - 1 /\ h2.node[s[k]].next = s[j])
          BY DEF AlmostLinked
        <5>1. /\ s[k] \in DOMAIN node /\ node[s[k]].prev = At(s, k - 1) /\ node[s[k]].next = At(s, k + 1)
          BY DEF Linked
        <5>2. CASE k = lo - 1
          BY <3>4, <4>3, <5>1, <5>2 DEF SameBut, m
        <5>3. CASE k # lo - 1
          <6>1. s[k] # s[lo - 1]
            BY <3>2, <5>3 DEF OrderOK
          <6>2. QED
            BY <4>3, <5>1, <6>1 DEF SameBut
        <5>4. QED
          BY <5>2, <5>3
      <4>5. \A q \in DOMAIN node : h2.node[q].value = node[q].value
        BY <4>3 DEF SameBut
      <4>6. \A q \in DOMAIN node : (\A k \in 1 .. Len(s) : q # s[k]) => h2.node[q] = node[q]
        BY <3>2, <4>3 DEF SameBut
      <4>7. Heap(h2.node) /\ DOMAIN h2.node = DOMAIN node
        BY <4>3 DEF SameBut
      <4> HIDE DEF ls2, lc2
      <4>8. h2.list = ls2 /\ h2.local = lc2 /\ h2 = [node |-> h2.node, list |-> h2.list, local |-> h2.local]
        BY <4>2
      <4>9. QED
        BY <4>4, <4>5, <4>6, <4>7, <4>8
    <3>5. CASE i # lo
      <4>1. h2 = h1
        BY <1>3, <3>3, <3>5 DEF WriteIf
      <4> HIDE DEF h2, ls2, lc2
      <4>2. QED
        BY <1>4, <2>0, <3>1, <4>1
    <3>6. QED
      BY <3>4, <3>5
  <2>2. ASSUME lo = 1, left = <<"first", x>>, list[x].first = s[lo] PROVE Written
    <3>1. lc1 = lc2
      BY <2>2
    <3>2. Read(h1, left) = s[lo]
      BY <1>4, <2>2 DEF Read
    <3>3. h2 = [node |-> node, list |-> ls2, local |-> lc2]
      <4>1. CASE i = lo
        <5>1. h2 = [h1 EXCEPT !.list[x].first = m]
          BY <1>3, <2>2, <3>2, <4>1 DEF Write, WriteIf
        <5>2. [ls1 EXCEPT ![x].first = m] = ls2
          <6>1. \A y \in DOMAIN list \ {x} : ls2[y] = ls1[y]
            BY <2>2
          <6>2. ls2[x] = [ls1[x] EXCEPT !.first = m]
            BY <1>2, <2>2, <4>1
          <6>3. DOMAIN ls1 = DOMAIN list /\ DOMAIN ls2 = DOMAIN list
            OBVIOUS
          <6>4. ls1 = [y \in DOMAIN list |-> ls1[y]] /\ ls2 = [y \in DOMAIN list |-> ls2[y]]
            OBVIOUS
          <6> HIDE DEF ls1, ls2
          <6>5. QED
            BY <6>1, <6>2, <6>3, <6>4
        <5>3. QED
          BY <1>4, <3>1, <5>1, <5>2
      <4>2. CASE i # lo
        <5>1. h2 = h1
          BY <1>3, <3>2, <4>2 DEF WriteIf
        <5>2. ls1 = ls2
          BY <1>2, <2>2, <4>2
        <5>3. QED
          BY <1>4, <3>1, <5>1, <5>2
      <4>3. QED
        BY <4>1, <4>2
    <3> HIDE DEF h2, ls2, lc2
    <3>4. QED
      BY <2>0, <3>3
  <2>3. ASSUME NEW d \in DOMAIN local, left = <<"local", d>>, local[d] = s[lo] PROVE Written
    <3>1. ls1 = ls2
      BY <2>3
    <3>2. Read(h1, left) = s[lo] /\ lc1[d] = s[lo]
      BY <1>4, <2>3 DEF Read
    <3>3. h2 = [node |-> node, list |-> ls2, local |-> lc2]
      <4>1. CASE i = lo
        <5>1. h2 = [h1 EXCEPT !.local[d] = m]
          BY <1>3, <2>3, <3>2, <4>1 DEF Write, WriteIf
        <5>2. [lc1 EXCEPT ![d] = m] = lc2
          BY <1>2, <2>3, <4>1
        <5>3. QED
          BY <1>4, <3>1, <5>1, <5>2
      <4>2. CASE i # lo
        <5>1. h2 = h1
          BY <1>3, <3>2, <4>2 DEF WriteIf
        <5>2. lc1 = lc2
          BY <1>2, <2>3, <4>2
        <5>3. QED
          BY <1>4, <3>1, <5>1, <5>2
      <4>3. QED
        BY <4>1, <4>2
    <3> HIDE DEF h2, ls2, lc2
    <3>4. QED
      BY <2>0, <3>3
  <2>4. QED
    BY <2>1, <2>2, <2>3 DEF LeftCell
<1> DEFINE h == Moved(left, right, mid, l, m)
           r == Relinked(h2.node, mid, l, m)
<1>6. h = [h2 EXCEPT !.node = r]
  BY DEF Moved, h1
<1> HIDE DEF h2
<1>7. h = [node |-> r, list |-> h2.list, local |-> h2.local]
  <2> HIDE DEF r, h, ls2, lc2
  <2>1. QED
    BY <1>5, <1>6
<1>8. /\ Heap(r) /\ DOMAIN r = DOMAIN h2.node
      /\ Linked(r, t)
      /\ \A q \in DOMAIN h2.node : r[q].value = h2.node[q].value
      /\ \A q \in DOMAIN h2.node : (\A k \in 1 .. Len(s) : q # s[k]) => r[q] = h2.node[q]
  BY ONLY <1>1, <1>5, Relinking, i < j, OrderOK(s)
<1> HIDE DEF r, h, t, ls2, lc2
<1>9. /\ Heap(h.node) /\ DOMAIN h.node = DOMAIN node /\ Linked(h.node, t)
      /\ \A q \in DOMAIN node : h.node[q].value = node[q].value
      /\ \A q \in DOMAIN node : (\A k \in 1 .. Len(s) : q # s[k]) => h.node[q] = node[q]
      /\ h.list = ls2 /\ h.local = lc2
  BY <1>5, <1>7, <1>8
<1>10. Rearranged(h, s, t, lo, hi, left, right)
  BY <1>9 DEF ls2, lc2, Rearranged
<1>11. QED
  BY <1>10 DEF h, t

-----------------------------------------------------------------------------
(* Values in order. *)

Ordered(v, lo, hi) == \A a, b \in lo .. hi : a < b => v[a] <= v[b]

\* A merge of lo .. hi that compares i with j: what is before i is in its final
\* place, and the rest of the two runs is in order.
InMerge(v, lo, i, j, hi) ==
    \A a, b \in lo .. hi : a < b /\ (a < i \/ b < j \/ j <= a) => v[a] <= v[b]

Numbers(v) == Len(v) \in Nat /\ \A a \in 1 .. Len(v) : v[a] \in Int

\* Two ordered runs side by side are a merge that has not begun.
LEMMA MergeStarts ==
    ASSUME NEW v, NEW lo \in Int, NEW k \in Int, NEW hi \in Int, Ordered(v, lo, k), Ordered(v, k + 1, hi)
    PROVE  InMerge(v, lo, lo, k + 1, hi)
BY DEF Ordered, InMerge

\* A round that leaves the left value where it is keeps the merge,
LEMMA MergeAdvances ==
    ASSUME NEW v, Numbers(v), NEW lo \in Int, NEW i \in Int, NEW j \in Int, NEW hi \in Int,
           1 <= lo, lo <= i, i < j, j <= hi, hi <= Len(v),
           InMerge(v, lo, i, j, hi), v[i] < v[j]
    PROVE  InMerge(v, lo, i + 1, j, hi)
<1> SUFFICES ASSUME NEW a \in lo .. hi, NEW b \in lo .. hi, a < b, a < i + 1 \/ b < j \/ j <= a
             PROVE  v[a] <= v[b]
  BY DEF InMerge
<1>1. v[a] \in Int /\ v[b] \in Int /\ v[i] \in Int /\ v[j] \in Int
  BY DEF Numbers
<1>2. CASE a < i \/ b < j \/ j <= a
  BY <1>2 DEF InMerge
<1>3. CASE a = i /\ j <= b
  <2>1. v[j] <= v[b]
    <3>1. CASE j = b
      BY <1>1, <3>1
    <3>2. CASE j # b
      BY <1>3, <3>2 DEF InMerge
    <3>3. QED
      BY <3>1, <3>2
  <2>2. QED
    BY <1>1, <1>3, <2>1
<1>4. QED
  BY <1>2, <1>3

\* and so does one that moves the right value before it.
LEMMA MergeMoves ==
    ASSUME NEW v, Numbers(v), NEW lo \in Int, NEW i \in Int, NEW j \in Int, NEW hi \in Int,
           1 <= lo, lo <= i, i < j, j <= hi, hi <= Len(v),
           InMerge(v, lo, i, j, hi), v[j] <= v[i]
    PROVE  InMerge(Rotated(v, i, j), lo, i + 1, j + 1, hi)
<1> DEFINE t == Rotated(v, i, j)
<1>1. \A k \in lo .. hi : t[k] = IF k = i THEN v[j] ELSE IF k \in i + 1 .. j THEN v[k - 1] ELSE v[k]
  <2>1. Len(v) \in Nat /\ i \in 1 .. Len(v) /\ j \in 1 .. Len(v) /\ lo .. hi \subseteq 1 .. Len(v)
    BY DEF Numbers
  <2>2. \A k \in 1 .. Len(v) : t[k] = IF k = i THEN v[j] ELSE IF k \in i + 1 .. j THEN v[k - 1] ELSE v[k]
    BY <2>1, RotatedIs
  <2> HIDE DEF t
  <2>3. QED
    BY ONLY <2>1, <2>2
<1> HIDE DEF t
<1> SUFFICES ASSUME NEW a \in lo .. hi, NEW b \in lo .. hi, a < b, a < i + 1 \/ b < j + 1 \/ j + 1 <= a
             PROVE  t[a] <= t[b]
  BY DEF InMerge, t
<1>3. \A c \in lo .. hi : v[c] \in Int
  BY DEF Numbers
<1>4. \A c, d \in lo .. hi : c < d /\ (c < i \/ d < j \/ j <= c) => v[c] <= v[d]
  BY DEF InMerge
<1>5. i \in lo .. hi /\ j \in lo .. hi
  OBVIOUS
<1>6. CASE a < i
  <2>1. t[a] = v[a]
    BY <1>1, <1>6
  <2>2. CASE b = i
    BY <1>1, <1>4, <1>5, <1>6, <2>1, <2>2
  <2>3. CASE b \in i + 1 .. j
    <3>1. b # i /\ b - 1 \in lo .. hi /\ a < b - 1
      BY <1>5, <1>6, <2>3
    <3>2. t[b] = v[b - 1]
      BY <1>1, <2>3, <3>1
    <3>3. v[a] <= v[b - 1]
      BY <1>4, <1>6, <3>1
    <3>4. QED
      BY <2>1, <3>2, <3>3
  <2>4. CASE b # i /\ b \notin i + 1 .. j
    BY <1>1, <1>4, <1>5, <1>6, <2>1, <2>4
  <2>5. QED
    BY <2>2, <2>3, <2>4
<1>7. CASE a = i
  <2>1. t[a] = v[j]
    BY <1>1, <1>7
  <2>2. CASE b \in i + 1 .. j
    <3>1. t[b] = v[b - 1] /\ b - 1 \in lo .. hi /\ (b - 1 = i \/ i < b - 1)
      BY <1>1, <1>5, <2>2
    <3>2. v[i] <= v[b - 1]
      BY <1>3, <1>4, <1>5, <2>2, <3>1
    <3>3. QED
      BY <1>3, <1>5, <2>1, <3>1, <3>2
  <2>3. CASE b \notin i + 1 .. j
    <3>1. b # i /\ j < b
      BY <1>5, <1>7, <2>3
    <3>2. t[b] = v[b]
      BY <1>1, <2>3, <3>1
    <3>3. v[j] <= v[b]
      BY <1>4, <1>5, <3>1
    <3>4. QED
      BY <2>1, <3>2, <3>3
  <2>4. QED
    BY <2>2, <2>3
<1>8. CASE i < a /\ b < j + 1
  <2>1. /\ t[a] = v[a - 1] /\ t[b] = v[b - 1] /\ a - 1 \in lo .. hi /\ b - 1 \in lo .. hi
        /\ a - 1 < b - 1 /\ b - 1 < j
    <3>1. /\ a - 1 \in lo .. hi /\ b - 1 \in lo .. hi /\ a - 1 < b - 1 /\ b - 1 < j
          /\ a \in i + 1 .. j /\ b \in i + 1 .. j /\ a # i /\ b # i
      BY <1>5, <1>8
    <3>2. QED
      BY <1>1, <3>1
  <2>2. QED
    BY <1>4, <2>1
<1>9. CASE j + 1 <= a
  <2>1. a # i /\ b # i /\ a \notin i + 1 .. j /\ b \notin i + 1 .. j /\ j <= a
    BY <1>5, <1>9
  <2>2. t[a] = v[a] /\ t[b] = v[b]
    BY <1>1, <2>1
  <2>3. QED
    BY <1>4, <2>1, <2>2
<1>10. QED
  BY <1>6, <1>7, <1>8, <1>9

\* When either run is used up, the whole is ordered.
LEMMA MergeIsDone ==
    ASSUME NEW v, NEW lo \in Int, NEW i \in Int, NEW j \in Int, NEW hi \in Int,
           InMerge(v, lo, i, j, hi), i = j \/ j = hi + 1
    PROVE  Ordered(v, lo, hi)
BY DEF InMerge, Ordered

\* Moving one value loses and repeats none.
LEMMA RotatedSame ==
    ASSUME NEW s, NEW v, Len(s) \in Nat, Len(v) = Len(s), Abstract!SameValues(s, v),
           NEW i \in 1 .. Len(s), NEW j \in 1 .. Len(s), i < j
    PROVE  Abstract!SameValues(s, Rotated(v, i, j))
<1> DEFINE n == Len(s)
<1>1. PICK p \in [1 .. n -> 1 .. n] :
        /\ \A a \in 1 .. n : \E k \in 1 .. n : p[k] = a
        /\ v = [a \in 1 .. n |-> s[p[a]]]
  BY DEF Abstract!SameValues
<1> DEFINE from(k) == IF k = i THEN j ELSE IF k \in i + 1 .. j THEN k - 1 ELSE k
           q == [k \in 1 .. n |-> p[from(k)]]
<1>2. \A k \in 1 .. n : from(k) \in 1 .. n
  OBVIOUS
<1>3. q \in [1 .. n -> 1 .. n]
  BY <1>2
<1>4. \A a \in 1 .. n : \E k \in 1 .. n : q[k] = a
  <2> SUFFICES ASSUME NEW a \in 1 .. n PROVE \E k \in 1 .. n : q[k] = a
    OBVIOUS
  <2>1. PICK u \in 1 .. n : p[u] = a
    BY <1>1
  <2> DEFINE k == IF u = j THEN i ELSE IF u \in i .. j - 1 THEN u + 1 ELSE u
  <2>2. k \in 1 .. n /\ from(k) = u
    OBVIOUS
  <2> HIDE DEF k, from
  <2>3. q[k] = a
    BY <2>1, <2>2
  <2>4. QED
    BY <2>2, <2>3
<1>5. Rotated(v, i, j) = [k \in 1 .. n |-> s[q[k]]]
  <2>1. Rotated(v, i, j) = [k \in 1 .. n |-> v[from(k)]]
    BY DEF Rotated
  <2> HIDE DEF from
  <2>2. \A k \in 1 .. n : v[from(k)] = s[q[k]]
    BY <1>1, <1>2
  <2> HIDE DEF q
  <2>3. QED
    BY <2>1, <2>2
<1> HIDE DEF q
<1>6. QED
  BY <1>3, <1>4, <1>5 DEF Abstract!SameValues

-----------------------------------------------------------------------------
(* The inductive invariant. *)

Apart(s, t) == \A i \in 1 .. Len(s), k \in 1 .. Len(t) : s[i] # t[k]
ListOK(nd, s, l) == Linked(nd, s) /\ l = EndsOf(s)

\* No list shares a node, and those that no function works on are as their order
\* says.
Base ==
    /\ Heap(node) /\ DOMAIN list \subseteq Lists
    /\ list \in [DOMAIN list -> ListRecord] /\ order \in [DOMAIN list -> Seq(Nodes)]
    /\ \A x \in DOMAIN list : OrderOK(order[x]) /\ (Busy(x) \/ ListOK(node, order[x], list[x]))
    /\ \A x, y \in DOMAIN list : x # y => Apart(order[x], order[y])

\* No node is leaked.
InSome(q, L, ord) == \E x \in L : \E i \in 1 .. Len(ord[x]) : q = ord[x][i]
AllOwned == \A q \in DOMAIN node : InSome(q, DOMAIN list, order)

nodes == order[call.list]
values == Contents(call.list)

\* List_destroy is at the p-th node: those up to the one before the last it left
\* are freed.
DestroyCall == [fn : {"List_destroy"}, list : Lists, cur : Links]
DestroyAt(p) ==
    /\ call.cur = At(nodes, p)
    /\ \A q \in DOMAIN node : \/ InSome(q, DOMAIN list \ {call.list}, order)
                              \/ \E a \in 1 .. Len(nodes) : a >= p - 1 /\ q = nodes[a]
    /\ \A a \in 1 .. Len(nodes) : a >= p - 1 =>
          nodes[a] \in DOMAIN node /\ node[nodes[a]].next = At(nodes, a + 1) /\ node[nodes[a]].prev = At(nodes, a - 1)
DestroyOK ==
    /\ call \in DestroyCall /\ call.list \in DOMAIN list /\ local = <<>>
    /\ list[call.list] = EndsOf(nodes)
    /\ \E p \in 1 .. Len(nodes) + 1 : DestroyAt(p)

\* What the three sorts keep.
Sorting ==
    /\ call.list \in DOMAIN list
    /\ Linked(node, nodes) /\ AllOwned
    /\ list[call.list].count = Len(nodes)
    /\ Len(was) = Len(nodes) /\ Abstract!SameValues(was, values)

BubbleCall == [fn : {"List_bubblesort"}, list : Lists, curi : Nat, curj : Nat, j : Links]

\* The last curi values are in their places; j holds the greatest so far.
BubbleAt(s, v, i, j) ==
    /\ j <= Len(s) - 1 - i \/ (i = 0 /\ j = 0)
    /\ \A a, b \in 1 .. Len(s) : a < b /\ Len(s) - i < b => v[a] <= v[b]
    /\ \A a \in 1 .. j : v[a] <= v[j + 1]
BubbleOK ==
    /\ call \in BubbleCall /\ Sorting /\ local = <<>>
    /\ list[call.list] = EndsOf(nodes)
    /\ call.j = At(nodes, call.curj + 1)
    /\ BubbleAt(nodes, values, call.curi, call.curj)

\* The variables of a merge of lo .. hi, which compares the i-th with the j-th.
MergeAt(s, v, f, mid, lo, i, j, hi) ==
    /\ lo <= i /\ i <= j /\ i <= hi /\ lo < j /\ j <= hi + 1
    /\ f.l = s[i] /\ f.m = At(s, j) /\ mid = s[j - 1] /\ f.end = At(s, hi + 1)
    /\ InMerge(v, lo, i, j, hi)

FrameRecord ==
    [left : ({"first"} \X Lists) \cup ({"next"} \X Nodes),
     right : ({"last"} \X Lists) \cup ({"local"} \X Nat),
     helper : Links, at : {"halve", "left", "right", "merge"}, l : Links, m : Links, end : Links]
SortCall == [fn : {"List_mergesort"}, list : Lists, stack : Seq(FrameRecord)]

\* The frame f of a __List_sort of lo .. hi, whose p_mid is the k-th node.
FrameAt(x, s, v, f, mid, isTop, lo, hi, k) ==
    /\ 1 <= lo /\ lo <= k /\ k <= hi /\ hi <= Len(s) /\ mid = s[k]
    /\ f.left = IF lo = 1 THEN <<"first", x>> ELSE <<"next", s[lo - 1]>>
    /\ (f.right = <<"last", x>> /\ hi = Len(s)) \/ \E e \in Nat : f.right = <<"local", e>>
    /\ ~isTop => f.at \in {"left", "right"}
    /\ f.at \in {"left", "right"} => k < hi
    /\ f.at = "halve" => \E g \in k .. hi : f.helper = s[g] /\ (g = k => g = lo)
    /\ f.at = "left" /\ isTop => Ordered(v, lo, k)
    /\ f.at = "right" => Ordered(v, lo, k) /\ (isTop => Ordered(v, k + 1, hi))
    /\ f.at = "merge" => \E i \in lo .. hi : MergeAt(s, v, f, mid, lo, i, k + 1, hi)

\* Frame d sorts a part of what frame e sorts, which is at the one or the other
\* half; they end at the same node when d was passed the p_mid of e.
Nested(st, e, d, lo, hi, k) ==
    /\ lo[e] <= lo[d] /\ hi[d] <= hi[e]
    /\ st[e].at = "left" => hi[d] <= k[e]
    /\ st[e].at = "right" => k[e] < lo[d]
    /\ st[d].right = <<"local", e>> <=> (st[e].at = "left" /\ hi[d] = k[e])
    /\ d = e + 1 => IF st[e].at = "left" THEN lo[d] = lo[e] /\ hi[d] = k[e]
                    ELSE lo[d] = k[e] + 1 /\ hi[d] = hi[e]

Frames(x, s, v, st, loc, lo, hi, k) ==
    /\ lo[1] = 1 /\ hi[1] = Len(s)
    /\ \A d \in 1 .. Len(st) :
        /\ FrameAt(x, s, v, st[d], loc[d], d = Len(st), lo[d], hi[d], k[d])
        /\ \A e \in 1 .. Len(st) : e < d => Nested(st, e, d, lo, hi, k)
        /\ \A e \in Nat : st[d].right = <<"local", e>> => 1 <= e /\ e < d

Stacked(x, s, v, st, loc) ==
    /\ Len(st) >= 1 /\ loc \in Seq(Links) /\ Len(loc) = Len(st)
    /\ \E lo, hi, k \in [1 .. Len(st) -> Nat] : Frames(x, s, v, st, loc, lo, hi, k)
SortOK ==
    /\ call \in SortCall /\ Sorting
    /\ list[call.list] = EndsOf(nodes)
    /\ Stacked(call.list, nodes, values, call.stack, local)

BottomUpCall ==
    [fn : {"List_sort_from_bottom_to_top"}, list : Lists,
     at : {"round", "mid", "right", "pair", "merge", "next", "nextmid"},
     step : Nat \ {0}, i : Nat, k : Nat, mid : Links, l : Links, m : Links, end : Links,
     isFirst : BOOLEAN, isLast : BOOLEAN]

MinOf(a, b) == IF a <= b THEN a ELSE b
Multiple(c, w) == \E q \in Nat : c = q * w

\* The runs of 2w values that start before `done` and those of w values that start
\* at `rest` or after it are in order.
Runs(v, w, done, rest) ==
    /\ \A c \in Nat : Multiple(c, 2 * w) /\ c < done => Ordered(v, c + 1, MinOf(c + 2 * w, Len(v)))
    /\ \A c \in Nat : Multiple(c, w) /\ rest <= c => Ordered(v, c + 1, MinOf(c + w, Len(v)))

\* Where the walks and the merges of a round are; the pair starts after the node
\* `base`.
BottomUpAt(c, s, v, l, r, base) ==
    LET w == c.step
        n == Len(s)
        hi == MinOf(base + 2 * w, n)
    IN  /\ c.at = "round" => Runs(v, w, 0, 0)
        /\ c.at = "mid" =>
             /\ Runs(v, w, 0, 0) /\ c.i = 0 /\ w < n /\ c.k < w
             /\ l = s[1] /\ c.mid = s[c.k + 1] /\ r = s[c.k + 1]
        /\ c.at = "right" =>
             /\ Runs(v, w, 0, 0) /\ c.i = 0 /\ w < n /\ c.k <= w
             /\ l = s[1] /\ c.mid = s[w] /\ r = s[MinOf(w + c.k, n)]
        /\ c.at = "pair" =>
             /\ Runs(v, w, base, base)
             /\ base + w < n => l = s[base + 1] /\ c.mid = s[base + w] /\ r = s[hi]
        /\ c.at = "merge" =>
             /\ Runs(v, w, base, base + 2 * w) /\ base + w < n
             /\ l = s[base + 1] /\ r = s[hi] /\ (c.isFirst <=> base = 0) /\ (c.isLast <=> hi = n)
             /\ \E i, j \in 1 .. hi + 1 : MergeAt(s, v, c, c.mid, base + 1, i, j, hi)
        /\ c.at = "next" =>
             /\ Runs(v, w, base + 2 * w, base + 2 * w) /\ base + 3 * w < n /\ c.k <= 2 * w
             /\ l = s[base + 1 + c.k] /\ r = s[MinOf(base + 2 * w + c.k, n)]
        /\ c.at = "nextmid" =>
             /\ Runs(v, w, base + 2 * w, base + 2 * w) /\ base + 3 * w < n /\ c.k < w
             /\ l = s[base + 2 * w + 1] /\ r = s[MinOf(base + 4 * w, n)]
             /\ c.mid = s[base + 2 * w + 1 + c.k]
BottomUpOK ==
    /\ call \in BottomUpCall /\ Sorting
    /\ \E l, r \in Links :
        /\ local = << l, r >>
        /\ BottomUpAt(call, nodes, values, l, r, 2 * call.step * call.i)
    /\ list[call.list].first = At(nodes, 1) \/ (call.at = "merge" /\ call.isFirst)
    /\ list[call.list].last = At(nodes, Len(nodes)) \/ (call.at = "merge" /\ call.isLast)

CallOK ==
    \/ call = Idle /\ local = <<>> /\ AllOwned
    \/ DestroyOK \/ BubbleOK \/ SortOK \/ BottomUpOK
IInv == Base /\ CallOK

-----------------------------------------------------------------------------
(* The functions of one step. *)

\* No call is running when none is.
LEMMA NotCalls == Idle \notin DestroyCall /\ Idle \notin BubbleCall /\ Idle \notin SortCall /\ Idle \notin BottomUpCall
BY DEF Idle, DestroyCall, BubbleCall, SortCall, BottomUpCall

\* Between calls every list is whole and every node is in one.
LEMMA WhenIdle ==
    ASSUME IInv, call = Idle
    PROVE  /\ Heap(node) /\ DOMAIN list \subseteq Lists /\ local = <<>> /\ AllOwned
           /\ list \in [DOMAIN list -> ListRecord] /\ order \in [DOMAIN list -> Seq(Nodes)]
           /\ \A x \in DOMAIN list : OrderOK(order[x]) /\ Linked(node, order[x]) /\ list[x] = EndsOf(order[x])
           /\ \A x, y \in DOMAIN list : x # y => Apart(order[x], order[y])
BY NotCalls DEF IInv, Base, CallOK, DestroyOK, BubbleOK, SortOK, BottomUpOK, Busy, ListOK

\* Nodes that did not change are linked as they were.
LEMMA LinkedElsewhere ==
    ASSUME NEW nd, NEW nd2, NEW s, Linked(nd, s),
           \A k \in 1 .. Len(s) : s[k] \in DOMAIN nd2 /\ nd2[s[k]] = nd[s[k]]
    PROVE  Linked(nd2, s)
BY DEF Linked

\* The record List_push and the others leave for a list is well-typed.
LEMMA EndsType ==
    ASSUME NEW s, OrderOK(s)
    PROVE  EndsOf(s) \in ListRecord /\ Len(s) \in Nat
BY AtIs DEF EndsOf, ListRecord

\* A function of one step that leaves the list x and changes no other.
LEMMA AtOnceKeeps ==
    ASSUME IInv, AtOnce, Heap(node'), NEW x, DOMAIN list' \subseteq Lists,
           DOMAIN order' = DOMAIN list',
           list' = [y \in DOMAIN list' |-> list'[y]], order' = [y \in DOMAIN order' |-> order'[y]],
           OrderOK(order'[x]), Linked(node', order'[x]), list'[x] = EndsOf(order'[x]),
           \A y \in DOMAIN list' \ {x} :
              /\ y \in DOMAIN list /\ list'[y] = list[y] /\ order'[y] = order[y]
              /\ Apart(order'[x], order[y])
              /\ \A k \in 1 .. Len(order[y]) : order[y][k] \in DOMAIN node' /\ node'[order[y][k]] = node[order[y][k]],
           \A q \in DOMAIN node' : InSome(q, DOMAIN list', order')
    PROVE  IInv'
<1>1. call = Idle /\ call' = Idle /\ local' = local
  BY DEF AtOnce
<1> DEFINE L == DOMAIN list'
<1>2. \A y \in L : OrderOK(order'[y]) /\ Linked(node', order'[y]) /\ list'[y] = EndsOf(order'[y])
  <2> SUFFICES ASSUME NEW y \in L, y # x
               PROVE  OrderOK(order'[y]) /\ Linked(node', order'[y]) /\ list'[y] = EndsOf(order'[y])
    OBVIOUS
  <2>1. y \in DOMAIN list /\ list'[y] = list[y] /\ order'[y] = order[y]
    OBVIOUS
  <2>2. Linked(node', order[y])
    BY <1>1, <2>1, WhenIdle, LinkedElsewhere
  <2>3. QED
    BY <1>1, <2>1, <2>2, WhenIdle
<1>3. \A y, z \in L : y # z => Apart(order'[y], order'[z])
  <2> SUFFICES ASSUME NEW y \in L, NEW z \in L, y # z PROVE Apart(order'[y], order'[z])
    OBVIOUS
  <2>1. CASE y # x /\ z # x
    BY <1>1, <2>1, WhenIdle
  <2>2. CASE y = x
    BY <2>2
  <2>3. CASE z = x
    BY <2>3 DEF Apart
  <2>4. QED
    BY <2>1, <2>2, <2>3
<1>4. list' \in [L -> ListRecord] /\ order' \in [L -> Seq(Nodes)]
  BY <1>2, EndsType DEF OrderOK
<1>5. Base'
  BY <1>2, <1>3, <1>4 DEF Base, ListOK
<1>6. CallOK'
  <2>1. AllOwned'
    BY DEF AllOwned
  <2>2. QED
    BY <1>1, <2>1, WhenIdle DEF CallOK
<1>7. QED
  BY <1>5, <1>6 DEF IInv

\* A step that changes no variable of a function and no list: a call, or none.
LEMMA StutterKeeps ==
    ASSUME IInv, UNCHANGED <<node, list, call, local, order, was>>
    PROVE  IInv'
<1>1. node' = node /\ list' = list /\ call' = call /\ local' = local /\ order' = order /\ was' = was
  OBVIOUS
<1>2. \A y : Contents(y)' = Contents(y)
  BY <1>1 DEF Contents
<1>3. nodes' = nodes /\ values' = values
  BY <1>1 DEF nodes, values, Contents
<1>4. Base'
  BY <1>1 DEF IInv, Base, Busy
<1>5. AllOwned' <=> AllOwned
  BY <1>1 DEF AllOwned
<1>6. Sorting => Sorting'
  <2>1. was' = was /\ values' = values
    BY <1>1, <1>3
  <2>2. Abstract!SameValues(was, values) => Abstract!SameValues(was, values)'
    BY ONLY <2>1 DEF Abstract!SameValues
  <2>3. QED
    BY <1>1, <1>3, <1>5, <2>2 DEF Sorting
<1>7. CallOK'
  <2>1. CASE call = Idle /\ local = <<>> /\ AllOwned
    BY <1>1, <1>5, <2>1 DEF CallOK
  <2>2. CASE DestroyOK
    BY <1>1, <1>3, <2>2 DEF CallOK, DestroyOK, DestroyAt
  <2>3. CASE BubbleOK
    BY <1>1, <1>3, <1>6, <2>3 DEF CallOK, BubbleOK
  <2>4. CASE SortOK
    BY <1>1, <1>3, <1>6, <2>4 DEF CallOK, SortOK
  <2>5. CASE BottomUpOK
    BY <1>1, <1>3, <1>6, <2>5 DEF CallOK, BottomUpOK
  <2>6. QED
    BY <2>1, <2>2, <2>3, <2>4, <2>5 DEF IInv, CallOK
<1>8. QED
  BY <1>4, <1>7 DEF IInv

\* A function that returns at once, like List_pop of an empty list.
LEMMA NothingKeeps ==
    ASSUME IInv, Nothing
    PROVE  IInv'
BY StutterKeeps DEF Nothing, AtOnce

\* List_create makes an empty list.
LEMMA CreateKeeps ==
    ASSUME IInv, NEW x \in Lists, List_create(x)
    PROVE  IInv'
<1>1. call = Idle /\ x \notin DOMAIN list /\ node' = node /\ AtOnce
  BY DEF List_create, AtOnce
<1>2. /\ DOMAIN list' = DOMAIN list \cup {x} /\ DOMAIN order' = DOMAIN list'
      /\ list' = [y \in DOMAIN list' |-> list'[y]] /\ order' = [y \in DOMAIN order' |-> order'[y]]
      /\ list'[x] = [count |-> 0, first |-> NULL, last |-> NULL] /\ order'[x] = <<>>
      /\ \A y \in DOMAIN list : list'[y] = list[y] /\ order'[y] = order[y]
  BY <1>1, WhenIdle DEF List_create, Put
<1>3. OrderOK(<<>>) /\ Linked(node, <<>>) /\ EndsOf(<<>>) = [count |-> 0, first |-> NULL, last |-> NULL]
  BY DEF OrderOK, Linked, EndsOf, At
<1>4. \A q \in DOMAIN node : InSome(q, DOMAIN list', order')
  BY <1>1, <1>2, WhenIdle DEF AllOwned, InSome
<1>5. \A y \in DOMAIN list' \ {x} :
        /\ y \in DOMAIN list /\ Apart(<<>>, order[y])
        /\ \A k \in 1 .. Len(order[y]) : order[y][k] \in DOMAIN node
  BY <1>1, <1>2, WhenIdle DEF Apart, Linked
<1>6. Heap(node') /\ DOMAIN list' \subseteq Lists
  BY <1>1, <1>2, WhenIdle
<1>7. OrderOK(order'[x]) /\ Linked(node', order'[x]) /\ list'[x] = EndsOf(order'[x])
  BY <1>1, <1>2, <1>3
<1>8. \A y \in DOMAIN list' \ {x} :
        /\ y \in DOMAIN list /\ list'[y] = list[y] /\ order'[y] = order[y]
        /\ Apart(order'[x], order[y])
        /\ \A k \in 1 .. Len(order[y]) : order[y][k] \in DOMAIN node' /\ node'[order[y][k]] = node[order[y][k]]
  BY <1>1, <1>2, <1>5
<1>9. \A q \in DOMAIN node' : InSome(q, DOMAIN list', order')
  BY <1>1, <1>4
<1>10. QED
  BY ONLY IInv, <1>1, <1>2, <1>6, <1>7, <1>8, <1>9, AtOnceKeeps

\* A node that is allocated.
Allocated(r, n, e) ==
    /\ Heap(r) /\ DOMAIN r = DOMAIN node \cup {n} /\ r[n] = e
    /\ \A q \in DOMAIN node : r[q] = node[q]

\* calloc and the assignments to the new node.
LEMMA WithNodeIs ==
    ASSUME Heap(node), NEW n \in Nodes \ DOMAIN node, NEW w \in Values, NEW next \in Links, NEW prev \in Links
    PROVE  Allocated(WithNode(n, w, next, prev), n, [next |-> next, prev |-> prev, value |-> w])
<1> DEFINE e == [next |-> next, prev |-> prev, value |-> w]
           r == WithNode(n, w, next, prev)
<1>1. e \in NodeRecord
  BY DEF NodeRecord
<1> HIDE DEF e
<1>2. r = [q \in DOMAIN node \cup {n} |-> IF q = n THEN e ELSE node[q]]
  BY DEF WithNode, Put, e
<1> HIDE DEF r
<1>3. Allocated(r, n, e)
  BY <1>1, <1>2 DEF Heap, Allocated
<1>4. QED
  BY <1>3 DEF r, e

\* A node added at the end of a list,
LEMMA AppendIs ==
    ASSUME NEW s, OrderOK(s), NEW n \in Nodes, \A k \in 1 .. Len(s) : s[k] # n
    PROVE  LET t == Append(s, n)
           IN  /\ OrderOK(t) /\ Len(t) = Len(s) + 1
               /\ \A k \in 1 .. Len(s) : t[k] = s[k]
               /\ t[Len(s) + 1] = n
               /\ \A k \in Int : At(t, k) = IF k = Len(s) + 1 THEN n ELSE At(s, k)
<1> DEFINE t == Append(s, n)
<1>1. /\ t \in Seq(Nodes) /\ Len(t) = Len(s) + 1 /\ Len(s) \in Nat
      /\ \A k \in 1 .. Len(s) : t[k] = s[k]
      /\ t[Len(s) + 1] = n
  BY DEF OrderOK
<1> HIDE DEF t
<1>2. \A i, k \in 1 .. Len(t) : t[i] = t[k] => i = k
  BY <1>1 DEF OrderOK
<1>3. \A k \in Int : At(t, k) = IF k = Len(s) + 1 THEN n ELSE At(s, k)
  BY <1>1 DEF At
<1>4. QED
  BY <1>1, <1>2, <1>3 DEF OrderOK, t

\* and at its beginning.
LEMMA PrependIs ==
    ASSUME NEW s, OrderOK(s), NEW n \in Nodes, \A k \in 1 .. Len(s) : s[k] # n
    PROVE  LET t == << n >> \o s
           IN  /\ OrderOK(t) /\ Len(t) = Len(s) + 1
               /\ \A k \in 1 .. Len(s) : t[k + 1] = s[k]
               /\ t[1] = n
               /\ \A k \in Int : At(t, k) = IF k = 1 THEN n ELSE At(s, k - 1)
<1> DEFINE t == << n >> \o s
<1>0. s \in Seq(Nodes) /\ << n >> \in Seq(Nodes) /\ Len(<< n >>) = 1 /\ << n >>[1] = n /\ Len(s) \in Nat
  BY DEF OrderOK
<1>1. /\ t \in Seq(Nodes) /\ Len(t) = Len(s) + 1
      /\ \A k \in 1 .. Len(t) : t[k] = IF k <= 1 THEN << n >>[k] ELSE s[k - 1]
  BY <1>0
<1> HIDE DEF t
<1>2. t[1] = n /\ \A k \in 1 .. Len(s) : t[k + 1] = s[k]
  BY <1>0, <1>1
<1>3. \A k \in 2 .. Len(t) : t[k] = s[k - 1] /\ k - 1 \in 1 .. Len(s)
  BY <1>0, <1>1
<1>4. \A i, k \in 1 .. Len(t) : t[i] = t[k] => i = k
  <2> SUFFICES ASSUME NEW i \in 1 .. Len(t), NEW k \in 1 .. Len(t), t[i] = t[k] PROVE i = k
    OBVIOUS
  <2>0. \A a \in 2 .. Len(t) : t[a] # n
    BY <1>3
  <2>1. CASE i = 1 \/ k = 1
    <3>1. (i = 1 \/ i \in 2 .. Len(t)) /\ (k = 1 \/ k \in 2 .. Len(t))
      BY <1>0, <1>1
    <3>2. QED
      BY <1>2, <2>0, <2>1, <3>1
  <2>2. CASE i # 1 /\ k # 1
    <3>1. i \in 2 .. Len(t) /\ k \in 2 .. Len(t)
      BY <1>0, <1>1, <2>2
    <3>2. s[i - 1] = s[k - 1] /\ i - 1 \in 1 .. Len(s) /\ k - 1 \in 1 .. Len(s)
      BY <1>3, <3>1
    <3>3. i - 1 = k - 1
      BY <3>2 DEF OrderOK
    <3>4. QED
      BY <3>1, <3>3
  <2>3. QED
    BY <2>1, <2>2
<1>5. \A k \in Int : At(t, k) = IF k = 1 THEN n ELSE At(s, k - 1)
  BY <1>0, <1>1, <1>2, <1>3 DEF At
<1>6. QED
  BY <1>0, <1>1, <1>2, <1>4, <1>5 DEF OrderOK, t

\* A new node is in no list.
LEMMA NewNode ==
    ASSUME IInv, call = Idle, NEW n \in Nodes \ DOMAIN node, NEW x \in DOMAIN list
    PROVE  \A k \in 1 .. Len(order[x]) : order[x][k] # n /\ order[x][k] \in DOMAIN node
BY WhenIdle DEF Linked

\* A node at either end of the list x: t is its order, l2 its List.
LEMMA OneMore ==
    ASSUME IInv, AtOnce, NEW x \in DOMAIN list, NEW n \in Nodes \ DOMAIN node, NEW t, NEW l2,
           Heap(node'), DOMAIN node' = DOMAIN node \cup {n},
           \A q \in DOMAIN node : (\A k \in 1 .. Len(order[x]) : q # order[x][k]) => node'[q] = node[q],
           order' = [order EXCEPT ![x] = t], list' = [list EXCEPT ![x] = l2],
           OrderOK(t), Linked(node', t), l2 = EndsOf(t),
           \A k \in 1 .. Len(t) : t[k] = n \/ \E i \in 1 .. Len(order[x]) : t[k] = order[x][i],
           \E k \in 1 .. Len(t) : t[k] = n,
           \A i \in 1 .. Len(order[x]) : \E k \in 1 .. Len(t) : t[k] = order[x][i]
    PROVE  IInv'
<1>1. call = Idle
  BY DEF AtOnce
<1>2. /\ DOMAIN list' = DOMAIN list /\ DOMAIN order' = DOMAIN list /\ DOMAIN list \subseteq Lists
      /\ list' = [y \in DOMAIN list' |-> list'[y]] /\ order' = [y \in DOMAIN order' |-> order'[y]]
      /\ order'[x] = t /\ list'[x] = l2
      /\ \A y \in DOMAIN list \ {x} : list'[y] = list[y] /\ order'[y] = order[y]
  BY <1>1, WhenIdle
<1>3. OrderOK(order'[x]) /\ Linked(node', order'[x]) /\ list'[x] = EndsOf(order'[x])
  BY <1>2
<1>4. \A y \in DOMAIN list' \ {x} :
        /\ y \in DOMAIN list /\ list'[y] = list[y] /\ order'[y] = order[y]
        /\ Apart(order'[x], order[y])
        /\ \A k \in 1 .. Len(order[y]) : order[y][k] \in DOMAIN node' /\ node'[order[y][k]] = node[order[y][k]]
  <2> SUFFICES ASSUME NEW y \in DOMAIN list \ {x}
               PROVE  /\ Apart(t, order[y])
                      /\ \A k \in 1 .. Len(order[y]) : order[y][k] \in DOMAIN node' /\ node'[order[y][k]] = node[order[y][k]]
    BY <1>2
  <2>1. Apart(order[x], order[y]) /\ Linked(node, order[y])
    BY <1>1, WhenIdle
  <2>2. Apart(t, order[y])
    <3> SUFFICES ASSUME NEW k \in 1 .. Len(t), NEW i \in 1 .. Len(order[y]) PROVE t[k] # order[y][i]
      BY DEF Apart
    <3>1. order[y][i] # n
      BY <1>1, NewNode
    <3>2. QED
      BY <2>1, <3>1 DEF Apart
  <2>3. QED
    BY <2>1, <2>2 DEF Apart, Linked
<1>5. \A q \in DOMAIN node' : InSome(q, DOMAIN list', order')
  <2> SUFFICES ASSUME NEW q \in DOMAIN node' PROVE InSome(q, DOMAIN list, order')
    BY <1>2
  <2>1. CASE q = n
    BY <1>2, <2>1 DEF InSome
  <2>2. CASE q # n
    <3>1. PICK y \in DOMAIN list : \E i \in 1 .. Len(order[y]) : q = order[y][i]
      BY <1>1, <2>2, WhenIdle DEF AllOwned, InSome
    <3>2. CASE y = x
      BY <1>2, <3>1, <3>2 DEF InSome
    <3>3. CASE y # x
      BY <1>2, <3>1, <3>3 DEF InSome
    <3>4. QED
      BY <3>2, <3>3
  <2>3. QED
    BY <2>1, <2>2
<1>6. QED
  BY ONLY IInv, AtOnce, Heap(node'), <1>2, <1>3, <1>4, <1>5, AtOnceKeeps

\* List_push keeps the invariant: an empty list, or a last node to link after.
LEMMA PushKeeps ==
    ASSUME IInv, NEW x \in DOMAIN list, NEW v \in Values, List_push(x, v)
    PROVE  IInv'
<1>1. call = Idle /\ AtOnce
  BY DEF List_push, AtOnce
<1> DEFINE s == order[x]
           l == list[x]
<1>2. PICK n \in Nodes \ DOMAIN node :
        /\ order' = [order EXCEPT ![x] = Append(s, n)]
        /\ IF l.last = NULL
           THEN /\ node' = WithNode(n, v, NULL, NULL)
                /\ list' = [list EXCEPT ![x] = [count |-> l.count + 1, first |-> n, last |-> n]]
           ELSE /\ node' = SetNext(WithNode(n, v, NULL, l.last), l.last, n)
                /\ list' = [list EXCEPT ![x] = [count |-> l.count + 1, first |-> l.first, last |-> n]]
  <2>1. \E n \in Nodes \ DOMAIN node :
          /\ order' = [order EXCEPT ![x] = Append(@, n)]
          /\ IF l.last = NULL
             THEN /\ node' = WithNode(n, v, NULL, NULL)
                  /\ list' = [list EXCEPT ![x] = [count |-> l.count + 1, first |-> n, last |-> n]]
             ELSE /\ node' = SetNext(WithNode(n, v, NULL, l.last), l.last, n)
                  /\ list' = [list EXCEPT ![x] = [count |-> l.count + 1, first |-> l.first, last |-> n]]
    BY DEF List_push
  <2>2. QED
    BY <2>1
<1>3. /\ OrderOK(s) /\ Linked(node, s) /\ l = EndsOf(s) /\ Heap(node) /\ Len(s) \in Nat
      /\ \A k \in 1 .. Len(s) : s[k] # n /\ s[k] \in DOMAIN node
      /\ n \in Links /\ NULL \in Links
  BY <1>1, WhenIdle, NewNode, AtIs DEF Links
<1> DEFINE t == Append(s, n)
<1>4. /\ OrderOK(t) /\ Len(t) = Len(s) + 1
      /\ \A k \in 1 .. Len(s) : t[k] = s[k]
      /\ t[Len(s) + 1] = n
      /\ \A k \in Int : At(t, k) = IF k = Len(s) + 1 THEN n ELSE At(s, k)
  BY <1>3, AppendIs
<1>5. /\ \A k \in Int : At(s, k) \in Links
      /\ \A k \in 1 .. Len(s) : At(s, k) = s[k] /\ s[k] # NULL
      /\ \A k \in Int : k \in 1 .. Len(s) \/ At(s, k) = NULL
  BY <1>3, AtIs
<1> HIDE DEF t
<1>6. /\ \A k \in 1 .. Len(t) : t[k] = n \/ \E i \in 1 .. Len(s) : t[k] = s[i]
      /\ \E k \in 1 .. Len(t) : t[k] = n
      /\ \A i \in 1 .. Len(s) : \E k \in 1 .. Len(t) : t[k] = s[i]
  <2>1. \A k \in 1 .. Len(t) : k = Len(s) + 1 \/ k \in 1 .. Len(s)
    BY <1>3, <1>4
  <2>2. Len(s) + 1 \in 1 .. Len(t) /\ \A k \in 1 .. Len(s) : k \in 1 .. Len(t)
    BY <1>3, <1>4
  <2>3. QED
    BY <1>4, <2>1, <2>2
<1>7. CASE Len(s) = 0
  <2>1. l.last = NULL /\ l.count = 0
    BY <1>3, <1>5, <1>7 DEF EndsOf
  <2>2. /\ Heap(node') /\ DOMAIN node' = DOMAIN node \cup {n}
        /\ \A q \in DOMAIN node : node'[q] = node[q]
        /\ node'[n] = [next |-> NULL, prev |-> NULL, value |-> v]
    <3>1. node' = WithNode(n, v, NULL, NULL)
      BY <1>2, <2>1
    <3>3. n \in Nodes \ DOMAIN node /\ v \in Values
      OBVIOUS
    <3>4. Allocated(WithNode(n, v, NULL, NULL), n, [next |-> NULL, prev |-> NULL, value |-> v])
      BY ONLY <1>3, <3>3, WithNodeIs
    <3>5. QED
      BY ONLY <3>1, <3>4 DEF Allocated
  <2>3. EndsOf(t) = [count |-> l.count + 1, first |-> n, last |-> n]
    BY <1>4, <1>7, <2>1 DEF EndsOf
  <2>4. Linked(node', t)
    BY <1>4, <1>5, <1>7, <2>2 DEF Linked
  <2>5. list' = [list EXCEPT ![x] = EndsOf(t)] /\ order' = [order EXCEPT ![x] = t]
    BY <1>2, <2>1, <2>3 DEF t
  <2>6. QED
    BY ONLY IInv, <1>1, <1>4, <1>6, <2>2, <2>4, <2>5, OneMore, x \in DOMAIN list, n \in Nodes \ DOMAIN node
<1>8. CASE Len(s) # 0
  <2>1. l.last = s[Len(s)] /\ l.last # NULL /\ l.last \in DOMAIN node /\ l.count = Len(s) /\ l.first = s[1]
        /\ 1 \in 1 .. Len(s) /\ Len(s) \in 1 .. Len(s) /\ l.last \in Links /\ l.last # n
    BY <1>3, <1>5, <1>8 DEF EndsOf
  <2> DEFINE r == WithNode(n, v, NULL, l.last)
  <2>2. /\ Heap(r) /\ DOMAIN r = DOMAIN node \cup {n}
        /\ \A q \in DOMAIN node : r[q] = node[q]
        /\ r[n] = [next |-> NULL, prev |-> l.last, value |-> v]
    <3>1. n \in Nodes \ DOMAIN node /\ v \in Values
      OBVIOUS
    <3>2. Allocated(r, n, [next |-> NULL, prev |-> l.last, value |-> v])
      BY ONLY <1>3, <2>1, <3>1, WithNodeIs
    <3> HIDE DEF r
    <3>3. QED
      BY ONLY <3>2 DEF Allocated
  <2> HIDE DEF l
  <2>3. /\ SameBut(node', r, l.last)
        /\ node'[l.last] = [next |-> n, prev |-> r[l.last].prev, value |-> r[l.last].value]
    BY <1>2, <1>3, <2>1, <2>2, SetNextIs
  <2> HIDE DEF r
  <2>4. EndsOf(t) = [count |-> l.count + 1, first |-> l.first, last |-> n]
    <3>1. l = [count |-> Len(s), first |-> s[1], last |-> s[Len(s)]]
      BY <1>3, <1>5, <2>1 DEF EndsOf, l
    <3>2. At(t, 1) = s[1] /\ At(t, Len(t)) = n
      BY <1>3, <1>4, <1>5, <1>8, <2>1
    <3>3. EndsOf(t) = [count |-> Len(s) + 1, first |-> s[1], last |-> n]
      BY <1>4, <3>2 DEF EndsOf
    <3>4. l.count = Len(s) /\ l.first = s[1]
      BY <3>1
    <3>5. QED
      BY <3>3, <3>4
  <2>5. /\ Heap(node') /\ DOMAIN node' = DOMAIN node \cup {n}
        /\ \A q \in DOMAIN node : (\A k \in 1 .. Len(s) : q # s[k]) => node'[q] = node[q]
    BY <2>1, <2>2, <2>3 DEF SameBut
  <2>6. Linked(node', t)
    <3> SUFFICES ASSUME NEW k \in 1 .. Len(t)
                 PROVE  t[k] \in DOMAIN node' /\ node'[t[k]].next = At(t, k + 1) /\ node'[t[k]].prev = At(t, k - 1)
      BY DEF Linked
    <3>1. CASE k = Len(s) + 1
      <4>1. t[k] = n /\ n # l.last /\ node'[n] = [next |-> NULL, prev |-> l.last, value |-> v] /\ n \in DOMAIN node'
        BY <1>4, <2>1, <2>2, <2>3, <3>1 DEF SameBut
      <4>2. At(t, k + 1) = NULL /\ At(t, k - 1) = l.last
        BY <1>3, <1>4, <1>5, <2>1, <3>1
      <4>3. QED
        BY <4>1, <4>2
    <3>2. CASE k = Len(s)
      <4>1. t[k] = l.last /\ node[l.last].prev = At(s, k - 1)
        BY <1>3, <1>4, <2>1, <3>2 DEF Linked
      <4>2. At(t, k + 1) = n /\ At(t, k - 1) = At(s, k - 1)
        BY <1>3, <1>4, <3>2
      <4>3. QED
        BY <2>1, <2>2, <2>3, <2>5, <4>1, <4>2
    <3>3. CASE k \in 1 .. Len(s) - 1
      <4>1. k \in 1 .. Len(s) /\ t[k] = s[k] /\ s[k] # l.last /\ s[k] \in DOMAIN node
        BY <1>3, <1>4, <2>1, <3>3, SMTT(20) DEF OrderOK
      <4>2. node'[s[k]] = node[s[k]]
        BY <2>2, <2>3, <4>1 DEF SameBut
      <4>3. At(t, k + 1) = At(s, k + 1) /\ At(t, k - 1) = At(s, k - 1)
        <5>1. k + 1 \in Int /\ k - 1 \in Int /\ k + 1 # Len(s) + 1 /\ k - 1 # Len(s) + 1
          BY <1>3, <3>3
        <5>2. QED
          BY <1>4, <5>1
      <4>4. QED
        BY <1>3, <2>5, <4>1, <4>2, <4>3 DEF Linked
    <3>4. QED
      BY <1>3, <1>4, <3>1, <3>2, <3>3
  <2>7. list' = [list EXCEPT ![x] = EndsOf(t)] /\ order' = [order EXCEPT ![x] = t]
    BY <1>2, <2>1, <2>4 DEF t
  <2>8. QED
    BY ONLY IInv, <1>1, <1>4, <1>6, <2>5, <2>6, <2>7, OneMore, x \in DOMAIN list, n \in Nodes \ DOMAIN node
<1>9. QED
  BY <1>7, <1>8

\* List_unshift, likewise.
LEMMA UnshiftKeeps ==
    ASSUME IInv, NEW x \in DOMAIN list, NEW v \in Values, List_unshift(x, v)
    PROVE  IInv'
<1>1. call = Idle /\ AtOnce
  BY DEF List_unshift, AtOnce
<1> DEFINE s == order[x]
           l == list[x]
<1>2. PICK n \in Nodes \ DOMAIN node :
        /\ order' = [order EXCEPT ![x] = << n >> \o s]
        /\ IF l.first = NULL
           THEN /\ node' = WithNode(n, v, NULL, NULL)
                /\ list' = [list EXCEPT ![x] = [count |-> l.count + 1, first |-> n, last |-> n]]
           ELSE /\ node' = SetPrev(WithNode(n, v, l.first, NULL), l.first, n)
                /\ list' = [list EXCEPT ![x] = [count |-> l.count + 1, first |-> n, last |-> l.last]]
  <2>1. \E n \in Nodes \ DOMAIN node :
          /\ order' = [order EXCEPT ![x] = << n >> \o @]
          /\ IF l.first = NULL
             THEN /\ node' = WithNode(n, v, NULL, NULL)
                  /\ list' = [list EXCEPT ![x] = [count |-> l.count + 1, first |-> n, last |-> n]]
             ELSE /\ node' = SetPrev(WithNode(n, v, l.first, NULL), l.first, n)
                  /\ list' = [list EXCEPT ![x] = [count |-> l.count + 1, first |-> n, last |-> l.last]]
    BY DEF List_unshift
  <2>2. QED
    BY <2>1
<1>3. /\ OrderOK(s) /\ Linked(node, s) /\ l = EndsOf(s) /\ Heap(node) /\ Len(s) \in Nat
      /\ \A k \in 1 .. Len(s) : s[k] # n /\ s[k] \in DOMAIN node
      /\ n \in Links /\ NULL \in Links
  BY <1>1, WhenIdle, NewNode, AtIs DEF Links
<1> DEFINE t == << n >> \o s
<1>4. /\ OrderOK(t) /\ Len(t) = Len(s) + 1
      /\ \A k \in 1 .. Len(s) : t[k + 1] = s[k]
      /\ t[1] = n
      /\ \A k \in Int : At(t, k) = IF k = 1 THEN n ELSE At(s, k - 1)
  BY <1>3, PrependIs
<1>5. /\ \A k \in Int : At(s, k) \in Links
      /\ \A k \in 1 .. Len(s) : At(s, k) = s[k] /\ s[k] # NULL
      /\ \A k \in Int : k \in 1 .. Len(s) \/ At(s, k) = NULL
  BY <1>3, AtIs
<1> HIDE DEF t
<1>6. /\ \A k \in 1 .. Len(t) : t[k] = n \/ \E i \in 1 .. Len(s) : t[k] = s[i]
      /\ \E k \in 1 .. Len(t) : t[k] = n
      /\ \A i \in 1 .. Len(s) : \E k \in 1 .. Len(t) : t[k] = s[i]
  <2>1. \A k \in 1 .. Len(t) : k = 1 \/ (k - 1 \in 1 .. Len(s) /\ t[k] = s[k - 1])
    <3> SUFFICES ASSUME NEW k \in 1 .. Len(t), k # 1 PROVE k - 1 \in 1 .. Len(s) /\ t[k] = s[k - 1]
      OBVIOUS
    <3>1. k - 1 \in 1 .. Len(s) /\ k - 1 + 1 = k
      BY <1>3, <1>4
    <3>2. QED
      BY <1>4, <3>1
  <2>2. 1 \in 1 .. Len(t) /\ \A k \in 1 .. Len(s) : k + 1 \in 1 .. Len(t)
    BY <1>3, <1>4
  <2>3. QED
    BY <1>4, <2>1, <2>2
<1>7. CASE Len(s) = 0
  <2>1. l.first = NULL /\ l.count = 0
    BY <1>3, <1>5, <1>7 DEF EndsOf
  <2>2. /\ Heap(node') /\ DOMAIN node' = DOMAIN node \cup {n}
        /\ \A q \in DOMAIN node : node'[q] = node[q]
        /\ node'[n] = [next |-> NULL, prev |-> NULL, value |-> v]
    <3>1. node' = WithNode(n, v, NULL, NULL)
      BY <1>2, <2>1
    <3>2. n \in Nodes \ DOMAIN node /\ v \in Values
      OBVIOUS
    <3>3. Allocated(WithNode(n, v, NULL, NULL), n, [next |-> NULL, prev |-> NULL, value |-> v])
      BY ONLY <1>3, <3>2, WithNodeIs
    <3>4. QED
      BY ONLY <3>1, <3>3 DEF Allocated
  <2>3. EndsOf(t) = [count |-> l.count + 1, first |-> n, last |-> n]
    BY <1>4, <1>7, <2>1 DEF EndsOf
  <2>4. Linked(node', t)
    BY <1>4, <1>5, <1>7, <2>2 DEF Linked
  <2>5. list' = [list EXCEPT ![x] = EndsOf(t)] /\ order' = [order EXCEPT ![x] = t]
    BY <1>2, <2>1, <2>3 DEF t
  <2>6. QED
    BY ONLY IInv, <1>1, <1>4, <1>6, <2>2, <2>4, <2>5, OneMore, x \in DOMAIN list, n \in Nodes \ DOMAIN node
<1>8. CASE Len(s) # 0
  <2>1. l.first = s[1] /\ l.first # NULL /\ l.first \in DOMAIN node /\ l.count = Len(s) /\ l.last = s[Len(s)]
        /\ 1 \in 1 .. Len(s) /\ Len(s) \in 1 .. Len(s) /\ l.first \in Links /\ l.first # n
    BY <1>3, <1>5, <1>8 DEF EndsOf
  <2> DEFINE r == WithNode(n, v, l.first, NULL)
  <2>2. /\ Heap(r) /\ DOMAIN r = DOMAIN node \cup {n}
        /\ \A q \in DOMAIN node : r[q] = node[q]
        /\ r[n] = [next |-> l.first, prev |-> NULL, value |-> v]
    <3>1. n \in Nodes \ DOMAIN node /\ v \in Values
      OBVIOUS
    <3>2. Allocated(r, n, [next |-> l.first, prev |-> NULL, value |-> v])
      BY ONLY <1>3, <2>1, <3>1, WithNodeIs
    <3> HIDE DEF r
    <3>3. QED
      BY ONLY <3>2 DEF Allocated
  <2> HIDE DEF l
  <2>3. /\ SameBut(node', r, l.first)
        /\ node'[l.first] = [next |-> r[l.first].next, prev |-> n, value |-> r[l.first].value]
    BY <1>2, <1>3, <2>1, <2>2, SetPrevIs
  <2> HIDE DEF r
  <2>4. EndsOf(t) = [count |-> l.count + 1, first |-> n, last |-> l.last]
    <3>1. At(t, 1) = n /\ At(t, Len(t)) = s[Len(s)]
      BY <1>3, <1>4, <1>5, <1>8, <2>1
    <3>2. QED
      BY <1>4, <2>1, <3>1 DEF EndsOf
  <2>5. /\ Heap(node') /\ DOMAIN node' = DOMAIN node \cup {n}
        /\ \A q \in DOMAIN node : (\A k \in 1 .. Len(s) : q # s[k]) => node'[q] = node[q]
    BY <2>1, <2>2, <2>3 DEF SameBut
  <2>6. Linked(node', t)
    <3> SUFFICES ASSUME NEW k \in 1 .. Len(t)
                 PROVE  t[k] \in DOMAIN node' /\ node'[t[k]].next = At(t, k + 1) /\ node'[t[k]].prev = At(t, k - 1)
      BY DEF Linked
    <3>1. CASE k = 1
      <4>1. t[k] = n /\ n # l.first /\ node'[n] = [next |-> l.first, prev |-> NULL, value |-> v] /\ n \in DOMAIN node'
        BY <1>4, <2>1, <2>2, <2>3, <3>1 DEF SameBut
      <4>2. At(t, k + 1) = l.first /\ At(t, k - 1) = NULL
        <5>1. k + 1 \in Int /\ k + 1 # 1 /\ k + 1 - 1 = 1 /\ k - 1 \in Int /\ k - 1 # 1 /\ k - 1 - 1 \notin 1 .. Len(s)
              /\ k - 1 - 1 \in Int
          BY <1>3, <3>1
        <5>2. QED
          BY <1>4, <1>5, <2>1, <5>1
      <4>3. QED
        BY <4>1, <4>2
    <3>2. CASE k = 2
      <4>1. t[k] = l.first /\ node[l.first].next = At(s, k)
        BY <1>3, <1>4, <2>1, <3>2 DEF Linked
      <4>2. At(t, k + 1) = At(s, k) /\ At(t, k - 1) = n
        BY <1>3, <1>4, <3>2
      <4>3. QED
        BY <2>1, <2>2, <2>3, <2>5, <4>1, <4>2
    <3>3. CASE k # 1 /\ k # 2
      <4>1. k - 1 \in 1 .. Len(s) /\ k - 1 # 1 /\ k - 1 + 1 = k /\ k - 1 - 1 = k - 2
            /\ k + 1 \in Int /\ k - 1 \in Int /\ k + 1 # 1 /\ k + 1 - 1 = k
        BY <1>3, <1>4, <3>3
      <4>2. t[k] = s[k - 1] /\ s[k - 1] # l.first /\ s[k - 1] \in DOMAIN node
        BY <1>3, <1>4, <2>1, <4>1 DEF OrderOK
      <4>3. node'[s[k - 1]] = node[s[k - 1]]
        BY <2>2, <2>3, <4>2 DEF SameBut
      <4>4. At(t, k + 1) = At(s, k) /\ At(t, k - 1) = At(s, k - 2)
        BY <1>4, <4>1
      <4>5. node[s[k - 1]].next = At(s, k) /\ node[s[k - 1]].prev = At(s, k - 2)
        BY <1>3, <4>1 DEF Linked
      <4>6. QED
        BY <2>5, <4>2, <4>3, <4>4, <4>5
    <3>4. QED
      BY <3>1, <3>2, <3>3
  <2>7. list' = [list EXCEPT ![x] = EndsOf(t)] /\ order' = [order EXCEPT ![x] = t]
    BY <1>2, <2>1, <2>4 DEF t
  <2>8. QED
    BY ONLY IInv, <1>1, <1>4, <1>6, <2>5, <2>6, <2>7, OneMore, x \in DOMAIN list, n \in Nodes \ DOMAIN node
<1>9. QED
  BY <1>7, <1>8

-----------------------------------------------------------------------------
(* A node taken out of a list, and a list that goes. *)

\* A list without its i-th node.
LEMMA CutOutIs ==
    ASSUME NEW s, OrderOK(s), NEW i \in 1 .. Len(s)
    PROVE  LET t == CutOut(s, i)
           IN  /\ OrderOK(t) /\ Len(t) = Len(s) - 1
               /\ \A k \in 1 .. Len(s) - 1 : t[k] = IF k < i THEN s[k] ELSE s[k + 1]
               /\ \A k \in Int : At(t, k) = IF k < i THEN At(s, k) ELSE At(s, k + 1)
               /\ \A k \in 1 .. Len(t) : t[k] # s[i]
<1> DEFINE t == CutOut(s, i)
<1>1. Len(s) \in Nat /\ \A k \in 1 .. Len(s) : s[k] \in Nodes
  BY DEF OrderOK
<1>2. /\ t = [k \in 1 .. Len(s) - 1 |-> IF k < i THEN s[k] ELSE s[k + 1]]
      /\ Len(s) - 1 \in Nat
  BY <1>1 DEF CutOut
<1> HIDE DEF t
<1>3. /\ Len(t) = Len(s) - 1 /\ t \in Seq(Nodes)
      /\ \A k \in 1 .. Len(s) - 1 : t[k] = IF k < i THEN s[k] ELSE s[k + 1]
  BY <1>1, <1>2
<1>4. \A a, k \in 1 .. Len(t) : t[a] = t[k] => a = k
  BY <1>1, <1>3 DEF OrderOK
<1>5. \A k \in Int : At(t, k) = IF k < i THEN At(s, k) ELSE At(s, k + 1)
  BY <1>1, <1>3 DEF At
<1>6. \A k \in 1 .. Len(t) : t[k] # s[i]
  BY <1>1, <1>3, SMTT(20) DEF OrderOK
<1>7. QED
  BY <1>3, <1>4, <1>5, <1>6 DEF OrderOK, t

\* No node is in a list twice, so it has one place there.
LEMMA PlaceIs ==
    ASSUME NEW s, OrderOK(s), NEW i \in 1 .. Len(s)
    PROVE  Place(s, s[i]) = i
BY DEF Place, OrderOK

\* The four cases of List_remove, field by field.
LEMMA MendedIs ==
    ASSUME Heap(node), NEW s, OrderOK(s), Linked(node, s), NEW i \in 1 .. Len(s)
    PROVE  LET r == Mended(EndsOf(s), s[i])
           IN  /\ Heap(r) /\ DOMAIN r = DOMAIN node
               /\ \A q \in DOMAIN node :
                    /\ r[q].next = IF i > 1 /\ q = At(s, i - 1) THEN At(s, i + 1) ELSE node[q].next
                    /\ r[q].prev = IF i < Len(s) /\ q = At(s, i + 1) THEN At(s, i - 1) ELSE node[q].prev
                    /\ r[q].value = node[q].value
                    /\ (\A k \in 1 .. Len(s) : q # s[k]) => r[q] = node[q]
<1> DEFINE l == EndsOf(s)
           n == s[i]
           a == At(s, i - 1)
           b == At(s, i + 1)
           r == Mended(l, n)
           D == DOMAIN node
<1>1. /\ Len(s) \in Nat /\ a \in Links /\ b \in Links /\ NULL \in Links
      /\ n \in D /\ node[n].next = b /\ node[n].prev = a
      /\ i > 1 => a \in D /\ (\E k \in 1 .. Len(s) : a = s[k])
      /\ i < Len(s) => b \in D /\ (\E k \in 1 .. Len(s) : b = s[k])
      /\ i > 1 /\ i < Len(s) => a # b
      /\ ~(i > 1) => a = NULL
      /\ ~(i < Len(s)) => b = NULL
  <2>1. /\ Len(s) \in Nat /\ a \in Links /\ b \in Links /\ NULL \in Links
        /\ n \in D /\ node[n].next = b /\ node[n].prev = a
    BY AtIs DEF Linked, Links
  <2>2. i > 1 => a \in D /\ a = s[i - 1] /\ i - 1 \in 1 .. Len(s)
    BY <2>1 DEF At, Linked
  <2>3. i < Len(s) => b \in D /\ b = s[i + 1] /\ i + 1 \in 1 .. Len(s)
    BY <2>1 DEF At, Linked
  <2>4. /\ i > 1 /\ i < Len(s) => a # b
    BY <2>2, <2>3 DEF OrderOK
  <2>5. (~(i > 1) => a = NULL) /\ (~(i < Len(s)) => b = NULL)
    BY <2>1 DEF At
  <2>6. QED
    BY <2>1, <2>2, <2>3, <2>4, <2>5
<1>2. (n = l.first <=> i = 1) /\ (n = l.last <=> i = Len(s))
  <2>1. l.first = s[1] /\ l.last = s[Len(s)] /\ 1 \in 1 .. Len(s) /\ Len(s) \in 1 .. Len(s)
    BY <1>1 DEF EndsOf, At
  <2> HIDE DEF l
  <2>2. QED
    BY <2>1 DEF OrderOK
<1> HIDE DEF l, a, b
<1> DEFINE Fields(f) ==
             /\ Heap(f) /\ DOMAIN f = D
             /\ \A q \in D :
                  /\ f[q].next = IF i > 1 /\ q = a THEN b ELSE node[q].next
                  /\ f[q].prev = IF i < Len(s) /\ q = b THEN a ELSE node[q].prev
                  /\ f[q].value = node[q].value
                  /\ (\A k \in 1 .. Len(s) : q # s[k]) => f[q] = node[q]
<1>3. Fields(r)
  <2>1. CASE i = 1 /\ i = Len(s)
    <3>1. r = node /\ ~(i > 1) /\ ~(i < Len(s))
      <4>0. ~(i > 1) /\ ~(i < Len(s))
        <5>1. ~(1 > 1) /\ ~(1 < 1)
          OBVIOUS
        <5>2. QED
          BY ONLY <2>1, <5>1
      <4>1. n = l.first /\ n = l.last /\ ~(i > 1) /\ ~(i < Len(s))
        BY <1>2, <2>1, <4>0
      <4> HIDE DEF n
      <4>2. r = node
        BY <4>1 DEF Mended
      <4>3. QED
        BY <4>1, <4>2
    <3> HIDE DEF r
    <3>2. QED
      BY <3>1
  <2>2. CASE i = 1 /\ i # Len(s)
    <3>0. i < Len(s) /\ ~(i > 1)
      BY <2>2
    <3>1. r = SetPrev(node, b, a) /\ i < Len(s) /\ ~(i > 1)
      <4>1. n = l.first /\ n # l.last /\ node[n].next = b /\ a = NULL
        BY <1>1, <1>2, <2>2, <3>0
      <4> HIDE DEF n
      <4>2. r = SetPrev(node, node[n].next, NULL)
        BY <4>1 DEF Mended
      <4>3. QED
        BY <3>0, <4>1, <4>2
    <3> HIDE DEF r
    <3>2. /\ SameBut(r, node, b)
          /\ r[b] = [next |-> node[b].next, prev |-> a, value |-> node[b].value]
      BY <1>1, <3>1, SetPrevIs
    <3>3. QED
      BY <1>1, <3>1, <3>2 DEF SameBut
  <2>3. CASE i # 1 /\ i = Len(s)
    <3>1. r = SetNext(node, a, b) /\ i > 1 /\ ~(i < Len(s))
      BY <1>1, <1>2, <2>3 DEF Mended
    <3> HIDE DEF r
    <3>2. /\ SameBut(r, node, a)
          /\ r[a] = [next |-> b, prev |-> node[a].prev, value |-> node[a].value]
      BY <1>1, <3>1, SetNextIs
    <3>3. QED
      BY <1>1, <3>1, <3>2 DEF SameBut
  <2>4. CASE i # 1 /\ i # Len(s)
    <3> DEFINE m == SetPrev(node, b, a)
    <3>1. r = SetNext(m, a, b) /\ i > 1 /\ i < Len(s)
      BY <1>1, <1>2, <2>4 DEF Mended, Bypassed
    <3> HIDE DEF r
    <3>2. /\ SameBut(m, node, b)
          /\ m[b] = [next |-> node[b].next, prev |-> a, value |-> node[b].value]
      BY <1>1, <3>1, SetPrevIs
    <3> HIDE DEF m
    <3>3. /\ SameBut(r, m, a)
          /\ r[a] = [next |-> b, prev |-> m[a].prev, value |-> m[a].value]
      BY <1>1, <3>1, <3>2, SetNextIs DEF SameBut
    <3>4. QED
      BY <1>1, <3>1, <3>2, <3>3 DEF SameBut
  <2>5. QED
    BY <2>1, <2>2, <2>3, <2>4
<1>4. QED
  BY <1>3 DEF a, b, l

\* List_remove unlinks and frees the node it is given.
LEMMA RemoveKeeps ==
    ASSUME IInv, NEW x \in DOMAIN list, NEW i \in 1 .. Len(order[x]), List_remove(x, order[x][i])
    PROVE  IInv'
<1> DEFINE s == order[x]
           l == list[x]
           n == s[i]
           r == Mended(l, n)
           t == CutOut(s, i)
<1>1. call = Idle /\ AtOnce
  BY DEF List_remove, AtOnce
<1>2. /\ OrderOK(s) /\ Linked(node, s) /\ l = EndsOf(s) /\ Heap(node) /\ Len(s) \in Nat
      /\ n \in DOMAIN node /\ NULL \in Links
  BY <1>1, WhenIdle, AtIs DEF Linked, Links
<1>3. /\ list' = [list EXCEPT ![x] =
                    [count |-> l.count - 1,
                     first |-> IF n # l.first THEN l.first
                               ELSE IF n = l.last THEN NULL ELSE node[n].next,
                     last |-> IF n # l.last THEN l.last
                              ELSE IF n = l.first THEN NULL ELSE node[n].prev]]
      /\ node' = Without(r, {n})
      /\ order' = [order EXCEPT ![x] = t]
  BY <1>2, PlaceIs DEF List_remove
<1>4. /\ Heap(r) /\ DOMAIN r = DOMAIN node
      /\ \A q \in DOMAIN node :
           /\ r[q].next = IF i > 1 /\ q = At(s, i - 1) THEN At(s, i + 1) ELSE node[q].next
           /\ r[q].prev = IF i < Len(s) /\ q = At(s, i + 1) THEN At(s, i - 1) ELSE node[q].prev
           /\ r[q].value = node[q].value
           /\ (\A k \in 1 .. Len(s) : q # s[k]) => r[q] = node[q]
  BY <1>2, MendedIs
<1>5. /\ OrderOK(t) /\ Len(t) = Len(s) - 1
      /\ \A k \in 1 .. Len(s) - 1 : t[k] = IF k < i THEN s[k] ELSE s[k + 1]
      /\ \A k \in Int : At(t, k) = IF k < i THEN At(s, k) ELSE At(s, k + 1)
      /\ \A k \in 1 .. Len(t) : t[k] # n
  BY <1>2, CutOutIs
<1> HIDE DEF r, t
<1>6. /\ Heap(node') /\ DOMAIN node' = DOMAIN node \ {n}
      /\ \A q \in DOMAIN node \ {n} : node'[q] = r[q]
  BY <1>3, <1>4 DEF Without, Heap
<1>7. Linked(node', t)
  <2> SUFFICES ASSUME NEW k \in 1 .. Len(t)
               PROVE  t[k] \in DOMAIN node' /\ node'[t[k]].next = At(t, k + 1) /\ node'[t[k]].prev = At(t, k - 1)
    BY DEF Linked
  <2> DEFINE c == IF k < i THEN k ELSE k + 1
  <2>1. c \in 1 .. Len(s) /\ c # i /\ t[k] = s[c] /\ k \in Int /\ c \in Int
    <3>1. k \in 1 .. Len(s) - 1 /\ k \in Int
      BY <1>5
    <3>2. c \in 1 .. Len(s) /\ c # i /\ c \in Int
      BY <1>2, <3>1
    <3>3. t[k] = s[c]
      BY <1>5, <3>1
    <3>4. QED
      BY <3>1, <3>2, <3>3
  <2>2. s[c] \in DOMAIN node /\ node[s[c]].next = At(s, c + 1) /\ node[s[c]].prev = At(s, c - 1) /\ s[c] # n
    BY <1>2, <2>1 DEF Linked, OrderOK
  <2>3. At(t, k + 1) = IF c = i - 1 THEN At(s, i + 1) ELSE At(s, c + 1)
    <3>1. k + 1 \in Int /\ (k + 1 < i <=> c < i - 1) /\ (c = i - 1 => ~(k + 1 < i) /\ k + 1 + 1 = i + 1)
      OBVIOUS
    <3>2. /\ c < i - 1 => k + 1 = c + 1
          /\ c > i => ~(k + 1 < i) /\ k + 1 + 1 = c + 1
      OBVIOUS
    <3>3. c = i - 1 \/ c < i - 1 \/ c > i
      BY <2>1
    <3> HIDE DEF c
    <3>4. QED
      BY <1>5, <2>1, <3>1, <3>2, <3>3
  <2>4. At(t, k - 1) = IF c = i + 1 THEN At(s, i - 1) ELSE At(s, c - 1)
    <3>1. k - 1 \in Int /\ (c = i + 1 => k - 1 = i - 1 /\ k - 1 < i)
      BY <2>1
    <3>2. /\ c < i => k - 1 < i /\ k - 1 = c - 1
          /\ c > i + 1 => ~(k - 1 < i) /\ k - 1 + 1 = c - 1
      BY <2>1
    <3>3. c = i + 1 \/ c < i \/ c > i + 1
      BY <2>1
    <3> HIDE DEF c
    <3>4. QED
      BY <1>5, <2>1, <3>1, <3>2, <3>3
  <2> HIDE DEF c
  <2>5. (i > 1 /\ s[c] = At(s, i - 1)) <=> c = i - 1
    <3>1. i > 1 => i - 1 \in 1 .. Len(s) /\ At(s, i - 1) = s[i - 1]
      BY <1>2 DEF At
    <3>2. QED
      BY <1>2, <2>1, <3>1 DEF OrderOK
  <2>6. (i < Len(s) /\ s[c] = At(s, i + 1)) <=> c = i + 1
    <3>1. i < Len(s) => i + 1 \in 1 .. Len(s) /\ At(s, i + 1) = s[i + 1]
      BY <1>2 DEF At
    <3>2. QED
      BY <1>2, <2>1, <3>1 DEF OrderOK
  <2>7. t[k] = s[c] /\ t[k] \in DOMAIN node' /\ node'[t[k]] = r[s[c]]
    BY ONLY <1>6, <2>1, <2>2
  <2>8. /\ r[s[c]].next = IF c = i - 1 THEN At(s, i + 1) ELSE At(s, c + 1)
        /\ r[s[c]].prev = IF c = i + 1 THEN At(s, i - 1) ELSE At(s, c - 1)
    <3>1. /\ r[s[c]].next = IF i > 1 /\ s[c] = At(s, i - 1) THEN At(s, i + 1) ELSE node[s[c]].next
          /\ r[s[c]].prev = IF i < Len(s) /\ s[c] = At(s, i + 1) THEN At(s, i - 1) ELSE node[s[c]].prev
      BY <1>4, <2>2
    <3>2. QED
      BY ONLY <2>2, <2>5, <2>6, <3>1
  <2>9. QED
    BY ONLY <2>3, <2>4, <2>7, <2>8
<1>8. list' = [list EXCEPT ![x] = EndsOf(t)]
  <2>1. l.count = Len(s) /\ l.first = s[1] /\ l.last = s[Len(s)] /\ 1 \in 1 .. Len(s) /\ Len(s) \in 1 .. Len(s)
    BY <1>2 DEF EndsOf, At
  <2>2. node[n].next = At(s, i + 1) /\ node[n].prev = At(s, i - 1)
    BY <1>2 DEF Linked
  <2>3. (n = l.first <=> i = 1) /\ (n = l.last <=> i = Len(s))
    BY <1>2, <2>1 DEF OrderOK
  <2>4. At(t, 1) = IF i = 1 THEN At(s, 2) ELSE s[1]
    BY <1>2, <1>5, <2>1 DEF At
  <2>5. At(t, Len(t)) = IF i = Len(s) THEN At(s, i - 1) ELSE s[Len(s)]
    <3>0. Len(t) = Len(s) - 1
      BY <1>5
    <3>1. Len(t) \in Int /\ (Len(t) < i <=> i = Len(s)) /\ Len(t) = Len(s) - 1 /\ Len(t) + 1 = Len(s)
      BY <1>2, <3>0
    <3>2. QED
      BY <1>2, <1>5, <2>1, <3>1 DEF At
  <2>6. i = 1 /\ i = Len(s) => At(s, 2) = NULL /\ At(s, i - 1) = NULL
    BY <1>2 DEF At
  <2> HIDE DEF l, n
  <2>7. /\ At(t, 1) = IF n # l.first THEN l.first ELSE IF n = l.last THEN NULL ELSE node[n].next
        /\ At(t, Len(t)) = IF n # l.last THEN l.last ELSE IF n = l.first THEN NULL ELSE node[n].prev
        /\ Len(t) = l.count - 1
    <3>1. i = 1 => i + 1 = 2
      OBVIOUS
    <3>2. QED
      BY <1>5, <2>1, <2>2, <2>3, <2>4, <2>5, <2>6, <3>1
  <2>8. QED
    BY <1>3, <2>7 DEF EndsOf
<1>9. /\ DOMAIN list' = DOMAIN list /\ DOMAIN order' = DOMAIN list /\ DOMAIN list \subseteq Lists
      /\ list' = [y \in DOMAIN list' |-> list'[y]] /\ order' = [y \in DOMAIN order' |-> order'[y]]
      /\ order'[x] = t /\ list'[x] = EndsOf(t)
      /\ \A y \in DOMAIN list \ {x} : list'[y] = list[y] /\ order'[y] = order[y]
  BY <1>1, <1>3, <1>8, WhenIdle
<1>10. \A k \in 1 .. Len(t) : \E c \in 1 .. Len(s) : t[k] = s[c]
  <2>1. \A k \in 1 .. Len(t) : k \in 1 .. Len(s) - 1 /\ k \in 1 .. Len(s) /\ k + 1 \in 1 .. Len(s)
    BY <1>2, <1>5
  <2>2. QED
    BY <1>5, <2>1
<1>11. \A y \in DOMAIN list' \ {x} :
        /\ y \in DOMAIN list /\ list'[y] = list[y] /\ order'[y] = order[y]
        /\ Apart(order'[x], order[y])
        /\ \A k \in 1 .. Len(order[y]) : order[y][k] \in DOMAIN node' /\ node'[order[y][k]] = node[order[y][k]]
  <2> SUFFICES ASSUME NEW y \in DOMAIN list \ {x}
               PROVE  /\ Apart(t, order[y])
                      /\ \A k \in 1 .. Len(order[y]) : order[y][k] \in DOMAIN node' /\ node'[order[y][k]] = node[order[y][k]]
    BY <1>9
  <2>1. Apart(s, order[y]) /\ Linked(node, order[y])
    BY <1>1, WhenIdle
  <2>2. Apart(t, order[y])
    BY <1>10, <2>1 DEF Apart
  <2>3. QED
    BY <1>4, <1>6, <2>1, <2>2, SMTT(20) DEF Apart, Linked
<1>12. \A q \in DOMAIN node' : InSome(q, DOMAIN list', order')
  <2> SUFFICES ASSUME NEW q \in DOMAIN node \ {n} PROVE InSome(q, DOMAIN list, order')
    BY <1>6, <1>9
  <2>1. PICK y \in DOMAIN list : \E k \in 1 .. Len(order[y]) : q = order[y][k]
    BY <1>1, WhenIdle DEF AllOwned, InSome
  <2>2. PICK k \in 1 .. Len(order[y]) : q = order[y][k]
    BY <2>1
  <2>3. CASE y = x
    <3>1. k # i
      BY <2>2, <2>3
    <3> DEFINE c == IF k < i THEN k ELSE k - 1
    <3>2. c \in 1 .. Len(s) - 1 /\ (c < i => c = k) /\ (~(c < i) => c + 1 = k)
      BY <1>2, <2>3, <3>1
    <3> HIDE DEF c
    <3>3. t[c] = q /\ c \in 1 .. Len(t)
      BY <1>5, <2>2, <2>3, <3>2
    <3>4. QED
      BY <1>9, <2>3, <3>3 DEF InSome
  <2>4. CASE y # x
    BY <1>9, <2>2, <2>4 DEF InSome
  <2>5. QED
    BY <2>3, <2>4
<1>13. OrderOK(order'[x]) /\ Linked(node', order'[x]) /\ list'[x] = EndsOf(order'[x])
  BY <1>5, <1>7, <1>9
<1>14. QED
  BY ONLY IInv, <1>1, <1>6, <1>9, <1>11, <1>12, <1>13, AtOnceKeeps

\* List_pop and List_shift are List_remove of an end.
LEMMA PopKeeps ==
    ASSUME IInv, NEW x \in DOMAIN list,
           List_pop(x) \/ List_shift(x) \/ \E i \in 1 .. Len(order[x]) : List_remove_at(x, i)
    PROVE  IInv'
<1>1. CASE \E i \in 1 .. Len(order[x]) : List_remove_at(x, i)
  BY <1>1, RemoveKeeps DEF List_remove_at
<1>2. CASE List_pop(x) \/ List_shift(x)
  <2>1. call = Idle
    BY <1>2 DEF List_pop, List_shift, List_remove, Nothing, AtOnce
  <2>2. OrderOK(order[x]) /\ list[x] = EndsOf(order[x])
    BY <2>1, WhenIdle
  <2>3. Len(order[x]) \in Nat /\ list[x].first = At(order[x], 1) /\ list[x].last = At(order[x], Len(order[x]))
    BY <2>2, EndsType DEF EndsOf
  <2>4. CASE Nothing
    BY <2>4, NothingKeeps
  <2>5. CASE List_pop(x) /\ list[x].last # NULL
    <3>1. Len(order[x]) \in 1 .. Len(order[x]) /\ list[x].last = order[x][Len(order[x])]
      BY <2>3, <2>5 DEF At
    <3>2. QED
      BY <2>5, <3>1, RemoveKeeps DEF List_pop
  <2>6. CASE List_shift(x) /\ list[x].first # NULL
    <3>1. 1 \in 1 .. Len(order[x]) /\ list[x].first = order[x][1]
      BY <2>3, <2>6 DEF At
    <3>2. QED
      BY <2>6, <3>1, RemoveKeeps DEF List_shift
  <2>7. QED
    BY <1>2, <2>4, <2>5, <2>6 DEF List_pop, List_shift
<1>3. QED
  BY <1>1, <1>2

-----------------------------------------------------------------------------
(* Two lists that are joined. *)

Joined(t, s, u) ==
    /\ OrderOK(t) /\ Len(t) = Len(s) + Len(u)
    /\ \A k \in 1 .. Len(s) : k \in 1 .. Len(t) /\ t[k] = s[k]
    /\ \A k \in 1 .. Len(u) : Len(s) + k \in 1 .. Len(t) /\ t[Len(s) + k] = u[k]
    /\ \A k \in 1 .. Len(t) : (k \in 1 .. Len(s)) \/ (\E c \in 1 .. Len(u) : k = Len(s) + c)

\* Two lists that share no node, one after the other.
LEMMA JoinedIs ==
    ASSUME NEW s, NEW u, OrderOK(s), OrderOK(u), Apart(s, u)
    PROVE  Joined(s \o u, s, u)
<1> DEFINE t == s \o u
<1>1. /\ s \in Seq(Nodes) /\ u \in Seq(Nodes) /\ Len(s) \in Nat /\ Len(u) \in Nat
  BY DEF OrderOK
<1>2. /\ t \in Seq(Nodes) /\ Len(t) = Len(s) + Len(u)
      /\ \A k \in 1 .. Len(t) : t[k] = IF k <= Len(s) THEN s[k] ELSE u[k - Len(s)]
  BY <1>1
<1> HIDE DEF t
<1>3. \A k \in 1 .. Len(s) : k \in 1 .. Len(t) /\ t[k] = s[k]
  <2>1. \A k \in 1 .. Len(s) : k \in 1 .. Len(t) /\ k <= Len(s)
    BY <1>1, <1>2
  <2>2. QED
    BY <1>2, <2>1
<1>4. \A k \in 1 .. Len(u) : Len(s) + k \in 1 .. Len(t) /\ t[Len(s) + k] = u[k]
  <2>1. \A k \in 1 .. Len(u) : Len(s) + k \in 1 .. Len(t) /\ ~(Len(s) + k <= Len(s)) /\ (Len(s) + k) - Len(s) = k
    BY <1>1, <1>2
  <2>2. QED
    BY <1>2, <2>1
<1>5. ASSUME NEW a \in 1 .. Len(t), NEW b \in 1 .. Len(t), t[a] = t[b] PROVE a = b
  <2>1. CASE a <= Len(s) /\ b <= Len(s)
    BY <1>1, <1>2, <1>5, <2>1 DEF OrderOK
  <2>2. CASE ~(a <= Len(s)) /\ ~(b <= Len(s))
    <3>1. a - Len(s) \in 1 .. Len(u) /\ b - Len(s) \in 1 .. Len(u)
      BY <1>1, <1>2, <2>2
    <3>2. u[a - Len(s)] = u[b - Len(s)]
      BY <1>2, <1>5, <2>2
    <3>3. a - Len(s) = b - Len(s)
      BY <3>1, <3>2 DEF OrderOK
    <3>4. QED
      BY <1>1, <3>3
  <2>3. CASE a <= Len(s) /\ ~(b <= Len(s))
    <3>1. a \in 1 .. Len(s) /\ b - Len(s) \in 1 .. Len(u)
      BY <1>1, <1>2, <2>3
    <3>2. QED
      BY <1>2, <1>5, <2>3, <3>1 DEF Apart
  <2>4. CASE ~(a <= Len(s)) /\ b <= Len(s)
    <3>1. b \in 1 .. Len(s) /\ a - Len(s) \in 1 .. Len(u)
      BY <1>1, <1>2, <2>4
    <3>2. QED
      BY <1>2, <1>5, <2>4, <3>1 DEF Apart
  <2>5. QED
    BY <2>1, <2>2, <2>3, <2>4
<1>6. ASSUME NEW k \in 1 .. Len(t) PROVE (k \in 1 .. Len(s)) \/ (\E c \in 1 .. Len(u) : k = Len(s) + c)
  <2>1. CASE k <= Len(s)
    BY <1>1, <2>1
  <2>2. CASE ~(k <= Len(s))
    <3>1. k - Len(s) \in 1 .. Len(u) /\ k = Len(s) + (k - Len(s))
      BY <1>1, <1>2, <2>2
    <3>2. QED
      BY <3>1
  <2>3. QED
    BY <2>1, <2>2
<1>7. Joined(t, s, u)
  BY <1>2, <1>3, <1>4, <1>5, <1>6 DEF OrderOK, Joined
<1>8. QED
  BY <1>7 DEF t

\* r holds the nodes of nd, linked as t says.
Relinks(r, nd, t) ==
    /\ Heap(r) /\ DOMAIN r = DOMAIN nd /\ Linked(r, t)
    /\ \A q \in DOMAIN nd : (\A k \in 1 .. Len(t) : q # t[k]) => r[q] = nd[q]
    /\ \A q \in DOMAIN nd : r[q].value = nd[q].value

\* The last node of the one points to the first of the other, and back.
LEMMA JoiningIs ==
    ASSUME NEW nd, Heap(nd), NEW s, NEW u, NEW t, OrderOK(s), OrderOK(u), Apart(s, u), Joined(t, s, u),
           Linked(nd, s), Linked(nd, u), Len(s) # 0, Len(u) # 0
    PROVE  Relinks(SetPrev(SetNext(nd, At(s, Len(s)), At(u, 1)), At(u, 1), At(s, Len(s))), nd, t)
<1> DEFINE a == s[Len(s)]
           b == u[1]
           m == SetNext(nd, a, b)
           r == SetPrev(m, b, a)
           D == DOMAIN nd
<1>1. Len(s) \in Nat /\ Len(u) \in Nat
  BY AtIs
<1>2. 1 \in 1 .. Len(s) /\ Len(s) \in 1 .. Len(s) /\ 1 \in 1 .. Len(u) /\ Len(u) \in 1 .. Len(u)
  BY <1>1
<1>3. At(s, Len(s)) = a /\ At(u, 1) = b
  BY <1>2 DEF At
<1>4. a \in D /\ b \in D /\ a \in Links /\ b \in Links /\ a # b
  BY <1>2, AtIs DEF Linked, Apart, Links
<1>5. /\ SameBut(m, nd, a)
      /\ m[a] = [next |-> b, prev |-> nd[a].prev, value |-> nd[a].value]
  BY <1>4, SetNextIs
<1> HIDE DEF m
<1>6. /\ SameBut(r, m, b)
      /\ r[b] = [next |-> m[b].next, prev |-> a, value |-> m[b].value]
  BY <1>4, <1>5, SetPrevIs DEF SameBut
<1> HIDE DEF r
<1>7. /\ Heap(r) /\ DOMAIN r = D
      /\ \A q \in D : /\ r[q].next = IF q = a THEN b ELSE nd[q].next
                      /\ r[q].prev = IF q = b THEN a ELSE nd[q].prev
                      /\ r[q].value = nd[q].value
                      /\ q # a /\ q # b => r[q] = nd[q]
  BY <1>4, <1>5, <1>6 DEF SameBut
<1>8. \A k \in 1 .. Len(s) : At(t, k) = s[k] /\ t[k] = s[k]
  BY DEF Joined, At
<1>9. \A c \in 1 .. Len(u) : At(t, Len(s) + c) = u[c] /\ t[Len(s) + c] = u[c]
  BY DEF Joined, At
<1>10. At(t, 0) = NULL /\ At(t, Len(s) + Len(u) + 1) = NULL
  BY <1>1 DEF Joined, At
<1> HIDE DEF a, b
<1>11. Linked(r, t)
  <2> SUFFICES ASSUME NEW k \in 1 .. Len(t)
               PROVE  t[k] \in D /\ r[t[k]].next = At(t, k + 1) /\ r[t[k]].prev = At(t, k - 1)
    BY <1>7 DEF Linked
  <2>1. CASE k \in 1 .. Len(s)
    <3>1. t[k] = s[k] /\ s[k] \in D /\ nd[s[k]].next = At(s, k + 1) /\ nd[s[k]].prev = At(s, k - 1) /\ s[k] # b
      BY <1>2, <1>8, <2>1 DEF Linked, Apart, b
    <3>2. At(t, k - 1) = At(s, k - 1)
      <4>1. CASE k = 1
        <5>1. k - 1 = 0 /\ 0 \notin 1 .. Len(s)
          BY <4>1
        <5>2. QED
          BY <1>10, <5>1 DEF At
      <4>2. CASE k # 1
        <5>1. k - 1 \in 1 .. Len(s)
          BY <1>1, <2>1, <4>2
        <5>2. QED
          BY <1>8, <5>1 DEF At
      <4>3. QED
        BY <4>1, <4>2
    <3>3. CASE k = Len(s)
      <4>1. s[k] = a /\ At(t, k + 1) = b
        BY <1>2, <1>9, <3>3 DEF a, b
      <4>2. QED
        BY <1>7, <3>1, <3>2, <4>1
    <3>4. CASE k # Len(s)
      <4>1. k + 1 \in 1 .. Len(s)
        BY <1>1, <2>1, <3>4
      <4>2. s[k] # a
        BY <1>2, <2>1, <3>4 DEF OrderOK, a
      <4>3. At(t, k + 1) = s[k + 1] /\ At(s, k + 1) = s[k + 1]
        BY <1>8, <4>1 DEF At
      <4>4. QED
        BY <1>7, <3>1, <3>2, <4>2, <4>3
    <3>5. QED
      BY <3>3, <3>4
  <2>2. ASSUME NEW c \in 1 .. Len(u), k = Len(s) + c
        PROVE  t[k] \in D /\ r[t[k]].next = At(t, k + 1) /\ r[t[k]].prev = At(t, k - 1)
    <3>1. t[k] = u[c] /\ u[c] \in D /\ nd[u[c]].next = At(u, c + 1) /\ nd[u[c]].prev = At(u, c - 1) /\ u[c] # a
      BY <1>2, <1>9, <2>2 DEF Linked, Apart, a
    <3>2. At(t, k + 1) = At(u, c + 1)
      <4>1. CASE c = Len(u)
        <5>1. k + 1 = Len(s) + Len(u) + 1 /\ c + 1 \notin 1 .. Len(u)
          BY <1>1, <2>2, <4>1
        <5>2. QED
          BY <1>10, <5>1 DEF At
      <4>2. CASE c # Len(u)
        <5>1. k + 1 = Len(s) + (c + 1) /\ c + 1 \in 1 .. Len(u)
          BY <1>1, <2>2, <4>2
        <5>2. QED
          BY <1>9, <5>1 DEF At
      <4>3. QED
        BY <4>1, <4>2
    <3>3. CASE c = 1
      <4>1. u[c] = b /\ k - 1 = Len(s)
        BY <1>1, <2>2, <3>3 DEF b
      <4>2. At(t, k - 1) = a
        BY <1>2, <1>8, <4>1 DEF a
      <4>3. QED
        BY <1>7, <3>1, <3>2, <4>1, <4>2
    <3>4. CASE c # 1
      <4>1. c - 1 \in 1 .. Len(u) /\ k - 1 = Len(s) + (c - 1)
        BY <1>1, <2>2, <3>4
      <4>2. At(t, k - 1) = At(u, c - 1)
        BY <1>9, <4>1 DEF At
      <4>3. u[c] # b
        BY <1>2, <3>4 DEF OrderOK, b
      <4>4. QED
        BY <1>7, <3>1, <3>2, <4>2, <4>3
    <3>5. QED
      BY <3>3, <3>4
  <2>3. QED
    BY <2>1, <2>2 DEF Joined
<1>12. \A q \in D : (\A k \in 1 .. Len(t) : q # t[k]) => r[q] = nd[q]
  <2>1. Len(s) \in 1 .. Len(t) /\ Len(s) + 1 \in 1 .. Len(t) /\ t[Len(s)] = a /\ t[Len(s) + 1] = b
    BY <1>2, <1>8, <1>9 DEF a, b, Joined
  <2>2. QED
    BY <1>7, <2>1
<1>13. r = SetPrev(SetNext(nd, At(s, Len(s)), At(u, 1)), At(u, 1), At(s, Len(s)))
  BY <1>3 DEF r, m
<1>14. Relinks(r, nd, t)
  BY <1>7, <1>11, <1>12 DEF Relinks
<1>15. QED
  BY <1>13, <1>14

\* What List_connect(x, z) leaves behind.
Connected(x, z, t) ==
    /\ Heap(node') /\ DOMAIN node' = DOMAIN node /\ Linked(node', t)
    /\ list' = Without([list EXCEPT ![x] = EndsOf(t)], {z})
    /\ \A q \in DOMAIN node : (\A k \in 1 .. Len(t) : q # t[k]) => node'[q] = node[q]
    /\ \A q \in DOMAIN node : node'[q].value = node[q].value

\* List_connect joins two lists that are not both empty, or returns.
LEMMA ConnectIs ==
    ASSUME IInv, NEW x \in DOMAIN list, NEW z \in DOMAIN list, List_connect(x, z),
           NEW s, NEW u, NEW t, s = order[x], u = order[z], t = s \o u
    PROVE  Joined(t, s, u) /\ Connected(x, z, t) /\ x # z
<1> DEFINE la == list[x]
           lb == list[z]
<1>1. call = Idle /\ x # z /\ (la.count = 0 \/ lb.count # 0)
  BY DEF List_connect, Connectable, AtOnce
<1>2. /\ OrderOK(s) /\ Linked(node, s) /\ la = EndsOf(s) /\ Len(s) \in Nat
      /\ OrderOK(u) /\ Linked(node, u) /\ lb = EndsOf(u) /\ Len(u) \in Nat
      /\ Heap(node) /\ Apart(s, u)
  BY <1>1, WhenIdle, EndsType
<1>3. Joined(t, s, u)
  BY <1>2, JoinedIs
<1>4. la.count = Len(s) /\ lb.count = Len(u) /\ la.first = At(s, 1) /\ lb.first = At(u, 1)
      /\ la.last = At(s, Len(s)) /\ lb.last = At(u, Len(u))
  BY <1>2 DEF EndsOf
<1>5. CASE Len(s) = 0
  <2>1. t = u
    <3>1. s = << >> /\ u \in Seq(Nodes)
      BY <1>2, <1>5 DEF OrderOK
    <3>2. QED
      BY <3>1
  <2>2. node' = node /\ list' = Without([list EXCEPT ![x] = lb], {z})
    BY <1>4, <1>5 DEF List_connect
  <2>3. Connected(x, z, t)
    BY <1>2, <2>1, <2>2 DEF Connected
  <2>4. QED
    BY <1>1, <1>3, <2>3
<1>6. CASE Len(s) # 0
  <2>1. Len(u) # 0
    BY <1>1, <1>4, <1>6
  <2> DEFINE r == SetPrev(SetNext(node, At(s, Len(s)), At(u, 1)), At(u, 1), At(s, Len(s)))
  <2>2. /\ node' = r
        /\ list' = Without([list EXCEPT ![x] =
             [count |-> la.count + lb.count, first |-> la.first, last |-> lb.last]], {z})
    BY <1>4, <1>6 DEF List_connect
  <2>3. Relinks(r, node, t)
    BY <1>2, <1>3, <1>6, <2>1, JoiningIs
  <2> HIDE DEF r
  <2>4. EndsOf(t) = [count |-> la.count + lb.count, first |-> la.first, last |-> lb.last]
    <3>1. 1 \in 1 .. Len(s) /\ Len(u) \in 1 .. Len(u)
      BY <1>2, <1>6, <2>1
    <3>2. At(t, 1) = At(s, 1) /\ At(t, Len(t)) = At(u, Len(u)) /\ Len(t) = Len(s) + Len(u)
      BY <1>3, <3>1 DEF At, Joined
    <3>3. QED
      BY <1>4, <3>2 DEF EndsOf
  <2>5. Connected(x, z, t)
    BY <2>2, <2>3, <2>4 DEF Connected, Relinks
  <2>6. QED
    BY <1>1, <1>3, <2>5
<1>7. QED
  BY <1>5, <1>6

\* List_connect frees the second list and keeps all of its nodes.
LEMMA ConnectKeeps ==
    ASSUME IInv, NEW x \in DOMAIN list, NEW z \in DOMAIN list, List_connect(x, z)
    PROVE  IInv'
<1>1. PICK s, u, t : s = order[x] /\ u = order[z] /\ t = s \o u
  OBVIOUS
<1>2. Joined(t, s, u) /\ Connected(x, z, t) /\ x # z
  BY <1>1, ConnectIs
<1>3. AtOnce /\ call = Idle /\ order' = Without([order EXCEPT ![x] = t], {z})
  BY <1>1 DEF List_connect, AtOnce
<1>4. DOMAIN order = DOMAIN list /\ DOMAIN list \subseteq Lists
  BY <1>3, WhenIdle
<1>5. /\ DOMAIN list' = DOMAIN list \ {z} /\ DOMAIN order' = DOMAIN list' /\ DOMAIN list' \subseteq Lists
      /\ list' = [y \in DOMAIN list' |-> list'[y]] /\ order' = [y \in DOMAIN order' |-> order'[y]]
      /\ order'[x] = t /\ list'[x] = EndsOf(t)
      /\ \A y \in DOMAIN list \ {x, z} : list'[y] = list[y] /\ order'[y] = order[y]
  BY <1>2, <1>3, <1>4 DEF Without, Connected
<1>6. \A k \in 1 .. Len(t) : (\E c \in 1 .. Len(s) : t[k] = s[c]) \/ (\E c \in 1 .. Len(u) : t[k] = u[c])
  BY <1>2 DEF Joined
<1>7. \A y \in DOMAIN list' \ {x} :
        /\ y \in DOMAIN list /\ list'[y] = list[y] /\ order'[y] = order[y]
        /\ Apart(order'[x], order[y])
        /\ \A k \in 1 .. Len(order[y]) : order[y][k] \in DOMAIN node' /\ node'[order[y][k]] = node[order[y][k]]
  <2> SUFFICES ASSUME NEW y \in DOMAIN list \ {x, z}
               PROVE  /\ Apart(t, order[y])
                      /\ \A k \in 1 .. Len(order[y]) : order[y][k] \in DOMAIN node' /\ node'[order[y][k]] = node[order[y][k]]
    BY <1>5
  <2>1. Apart(s, order[y]) /\ Apart(u, order[y]) /\ Linked(node, order[y])
    BY <1>1, <1>3, WhenIdle
  <2>2. Apart(t, order[y])
    BY <1>6, <2>1 DEF Apart
  <2>3. QED
    BY <1>2, <2>1, <2>2 DEF Apart, Linked, Connected
<1>8. \A q \in DOMAIN node' : InSome(q, DOMAIN list', order')
  <2> SUFFICES ASSUME NEW q \in DOMAIN node PROVE InSome(q, DOMAIN list', order')
    BY <1>2 DEF Connected
  <2>1. PICK y \in DOMAIN list : \E k \in 1 .. Len(order[y]) : q = order[y][k]
    BY <1>3, WhenIdle DEF AllOwned, InSome
  <2>2. PICK k \in 1 .. Len(order[y]) : q = order[y][k]
    BY <2>1
  <2>3. CASE y = x
    <3>1. k \in 1 .. Len(t) /\ q = t[k]
      BY <1>1, <1>2, <2>2, <2>3 DEF Joined
    <3>2. QED
      BY <1>2, <1>5, <3>1 DEF InSome
  <2>4. CASE y = z
    <3>1. Len(s) + k \in 1 .. Len(t) /\ q = t[Len(s) + k]
      BY <1>1, <1>2, <2>2, <2>4 DEF Joined
    <3>2. QED
      BY <1>2, <1>5, <3>1 DEF InSome
  <2>5. CASE y # x /\ y # z
    BY <1>5, <2>2, <2>5 DEF InSome
  <2>6. QED
    BY <2>3, <2>4, <2>5
<1>9. OrderOK(order'[x]) /\ Linked(node', order'[x]) /\ list'[x] = EndsOf(order'[x])
  BY <1>2, <1>5 DEF Joined, Connected
<1>10. Heap(node')
  BY <1>2 DEF Connected
<1>11. QED
  BY ONLY IInv, <1>3, <1>5, <1>7, <1>8, <1>9, <1>10, AtOnceKeeps

-----------------------------------------------------------------------------
(* The start, the steps and the return of a sort. *)

\* The values of a whole list.
LEMMA ContentsIs ==
    ASSUME NEW x, Heap(node), OrderOK(order[x]), Linked(node, order[x])
    PROVE  /\ Len(Contents(x)) = Len(order[x]) /\ Len(order[x]) \in Nat
           /\ Contents(x) = [i \in 1 .. Len(Contents(x)) |-> Contents(x)[i]]
           /\ \A i \in 1 .. Len(order[x]) : Contents(x)[i] = node[order[x][i]].value
           /\ \A i \in 1 .. Len(order[x]) : Contents(x)[i] \in Values
           /\ Numbers(Contents(x))
<1> DEFINE s == order[x]
           v == Contents(x)
<1>1. Len(s) \in Nat
  BY AtIs
<1>2. /\ v = [i \in 1 .. Len(s) |-> node[s[i]].value]
      /\ Len(v) = Len(s)
  BY <1>1 DEF Contents
<1> HIDE DEF v
<1>3. \A i \in 1 .. Len(s) : v[i] = node[s[i]].value /\ v[i] \in Values
  BY <1>2 DEF Linked, Heap, NodeRecord
<1>4. Numbers(v)
  BY <1>1, <1>2, <1>3, LinkedListAssumption DEF Numbers
<1>5. v = [i \in 1 .. Len(v) |-> v[i]]
  BY <1>2
<1>6. QED
  BY <1>1, <1>2, <1>3, <1>4, <1>5 DEF v

\* A sequence holds its own values.
LEMMA SameAsItself ==
    ASSUME NEW v, Len(v) \in Nat, v = [i \in 1 .. Len(v) |-> v[i]]
    PROVE  Abstract!SameValues(v, v)
<1> DEFINE p == [i \in 1 .. Len(v) |-> i]
<1>1. p \in [1 .. Len(v) -> 1 .. Len(v)] /\ \A i \in 1 .. Len(v) : p[i] = i
  OBVIOUS
<1> HIDE DEF p
<1>2. \A i \in 1 .. Len(v) : \E k \in 1 .. Len(v) : p[k] = i
  BY <1>1
<1>3. v = [i \in 1 .. Len(v) |-> v[p[i]]]
  BY <1>1
<1>4. QED
  BY <1>1, <1>2, <1>3 DEF Abstract!SameValues

\* A sort starts on a whole list, with the values that list shows.
LEMMA BeginsKeeps ==
    ASSUME IInv, NEW x \in DOMAIN list, NEW c, NEW variables, Begins(x, c, variables), c # Idle, c.list = x
    PROVE  /\ Base' /\ Sorting' /\ call' = c /\ local' = variables
           /\ nodes' = order[x] /\ values' = Contents(x)
           /\ node' = node /\ list' = list /\ order' = order /\ list[x] = EndsOf(order[x])
           /\ OrderOK(order[x])
<1>1. /\ call = Idle /\ call' = c /\ local' = variables /\ was' = Contents(x)
      /\ node' = node /\ list' = list /\ order' = order
  BY DEF Begins
<1>2. Base'
  BY <1>1, WhenIdle DEF Base, ListOK
<1>3. OrderOK(order[x]) /\ Linked(node, order[x]) /\ list[x] = EndsOf(order[x]) /\ Heap(node)
  BY <1>1, WhenIdle
<1>4. nodes' = order[x] /\ values' = Contents(x)
  BY <1>1 DEF nodes, values, Contents
<1>5. Abstract!SameValues(Contents(x), Contents(x)) /\ Len(Contents(x)) = Len(order[x])
  BY <1>3, ContentsIs, SameAsItself
<1>6. Abstract!SameValues(was, values)'
  <2>1. was' = Contents(x) /\ values' = Contents(x)
    BY <1>1, <1>4
  <2>2. QED
    BY ONLY <1>5, <2>1 DEF Abstract!SameValues
<1>7. AllOwned'
  BY <1>1, WhenIdle DEF AllOwned, InSome
<1>8. list[x].count = Len(order[x])
  BY <1>3 DEF EndsOf
<1>9. Sorting'
  BY <1>1, <1>3, <1>4, <1>5, <1>6, <1>7, <1>8 DEF Sorting
<1>10. QED
  BY <1>1, <1>2, <1>3, <1>4, <1>9

\* A step of a sort that writes its variables only keeps the heap.
LEMMA MovesKeep ==
    ASSUME IInv, Sorting, Moves, call # Idle, call' # Idle, call'.list = call.list
    PROVE  /\ Base' /\ Sorting' /\ nodes' = nodes /\ values' = values
           /\ node' = node /\ list' = list /\ order' = order
<1>1. node' = node /\ list' = list /\ order' = order /\ was' = was
  BY DEF Moves
<1>2. Base'
  BY <1>1 DEF IInv, Base, Busy, ListOK
<1>3. nodes' = nodes /\ values' = values
  BY <1>1 DEF nodes, values, Contents
<1>4. Abstract!SameValues(was, values)'
  <2>1. Abstract!SameValues(was, values)
    BY DEF Sorting
  <2>2. was' = was /\ values' = values
    BY <1>1, <1>3
  <2>3. QED
    BY ONLY <2>1, <2>2 DEF Abstract!SameValues
<1>5. AllOwned'
  BY <1>1 DEF Sorting, AllOwned, InSome
<1>6. Sorting'
  BY <1>1, <1>3, <1>4, <1>5 DEF Sorting
<1>7. QED
  BY <1>1, <1>2, <1>3, <1>6

\* A sort that returns leaves a whole list.
LEMMA ReturnsKeeps ==
    ASSUME IInv, Sorting, Returns, UNCHANGED <<node, list, order>>, call # Idle,
           list[call.list] = EndsOf(nodes)
    PROVE  IInv'
<1>1. node' = node /\ list' = list /\ order' = order /\ call' = Idle /\ local' = <<>>
  BY DEF Returns
<1>2. \A y \in DOMAIN list : ListOK(node, order[y], list[y])
  <2> SUFFICES ASSUME NEW y \in DOMAIN list PROVE ListOK(node, order[y], list[y])
    OBVIOUS
  <2>1. CASE y = call.list
    BY <2>1 DEF Sorting, ListOK, nodes
  <2>2. CASE y # call.list
    BY <2>2 DEF IInv, Base, Busy
  <2>3. QED
    BY <2>1, <2>2
<1>3. Base'
  BY <1>1, <1>2 DEF IInv, Base, ListOK
<1>4. AllOwned'
  BY <1>1 DEF Sorting, AllOwned, InSome
<1>5. CallOK'
  BY <1>1, <1>4 DEF CallOK
<1>6. QED
  BY <1>3, <1>5 DEF IInv

\* Lists that share no node still do after one of them is rearranged.
LEMMA ApartStill ==
    ASSUME NEW s, NEW t, NEW u, Len(t) = Len(s), \A k \in 1 .. Len(s) : \E c \in 1 .. Len(s) : t[k] = s[c]
    PROVE  /\ Apart(s, u) => Apart(t, u)
           /\ Apart(u, s) => Apart(u, t)
BY DEF Apart

\* A step of a sort that writes to the list it sorts.
LEMMA WritesKeep ==
    ASSUME IInv, Sorting, call # Idle, call' # Idle, call'.list = call.list, was' = was,
           NEW t, OrderOK(t), Linked(node', t), Len(t) = Len(nodes),
           \A k \in 1 .. Len(nodes) : \E c \in 1 .. Len(nodes) : t[k] = nodes[c],
           \A c \in 1 .. Len(nodes) : \E k \in 1 .. Len(nodes) : t[k] = nodes[c],
           order' = [order EXCEPT ![call.list] = t],
           Heap(node'), DOMAIN node' = DOMAIN node,
           \A q \in DOMAIN node : (\A k \in 1 .. Len(nodes) : q # nodes[k]) => node'[q] = node[q],
           list' = [y \in DOMAIN list |-> list'[y]], list'[call.list] \in ListRecord,
           list'[call.list].count = list[call.list].count,
           \A y \in DOMAIN list : y # call.list => list'[y] = list[y],
           Abstract!SameValues(was, Contents(call.list)'), Len(was) = Len(nodes)
    PROVE  Base' /\ Sorting' /\ nodes' = t
<1> DEFINE x == call.list
<1>1. x \in DOMAIN list /\ DOMAIN order = DOMAIN list /\ nodes = order[x]
  BY DEF Sorting, IInv, Base, nodes
<1>2. DOMAIN list' = DOMAIN list /\ DOMAIN order' = DOMAIN list /\ order'[x] = t
      /\ \A y \in DOMAIN list : y # x => order'[y] = order[y]
  BY <1>1
<1>3. \A y \in DOMAIN list : OrderOK(order'[y]) /\ (y # x => ListOK(node', order'[y], list'[y]))
  <2> SUFFICES ASSUME NEW y \in DOMAIN list, y # x
               PROVE  OrderOK(order'[y]) /\ ListOK(node', order'[y], list'[y])
    BY <1>2
  <2>1. OrderOK(order[y]) /\ ListOK(node, order[y], list[y]) /\ Apart(nodes, order[y])
    BY <1>1 DEF IInv, Base, Busy
  <2>2. \A k \in 1 .. Len(order[y]) : order[y][k] \in DOMAIN node' /\ node'[order[y][k]] = node[order[y][k]]
    BY <2>1 DEF ListOK, Linked, Apart
  <2>3. Linked(node', order[y])
    BY <2>1, <2>2 DEF ListOK, Linked
  <2>4. QED
    BY <1>2, <2>1, <2>3 DEF ListOK
<1>4. \A y, z \in DOMAIN list : y # z => Apart(order'[y], order'[z])
  <2> SUFFICES ASSUME NEW y \in DOMAIN list, NEW z \in DOMAIN list, y # z PROVE Apart(order'[y], order'[z])
    OBVIOUS
  <2>1. Apart(order[y], order[z])
    BY DEF IInv, Base
  <2>0. Len(t) = Len(order[x]) /\ \A k \in 1 .. Len(order[x]) : \E c \in 1 .. Len(order[x]) : t[k] = order[x][c]
    BY <1>1
  <2>2. CASE y = x
    <3>1. Apart(order[x], order[z]) => Apart(t, order[z])
      BY ONLY <2>0, ApartStill
    <3>2. QED
      BY <1>2, <2>1, <2>2, <3>1
  <2>3. CASE z = x
    <3>1. Apart(order[y], order[x]) => Apart(order[y], t)
      BY ONLY <2>0, ApartStill
    <3>2. QED
      BY <1>2, <2>1, <2>3, <3>1
  <2>4. CASE y # x /\ z # x
    BY <1>2, <2>1, <2>4
  <2>5. QED
    BY <2>2, <2>3, <2>4
<1>5. list' \in [DOMAIN list -> ListRecord] /\ order' \in [DOMAIN list -> Seq(Nodes)]
  <2>1. \A y \in DOMAIN list : list'[y] \in ListRecord
    BY DEF IInv, Base
  <2>2. \A y \in DOMAIN list : order'[y] \in Seq(Nodes)
    BY <1>3 DEF OrderOK
  <2>3. order' = [y \in DOMAIN list |-> order'[y]]
    BY <1>1
  <2>4. QED
    BY <2>1, <2>2, <2>3
<1>6. Base'
  BY <1>2, <1>3, <1>4, <1>5 DEF IInv, Base, Busy, Idle
<1>7. AllOwned'
  <2> SUFFICES ASSUME NEW q \in DOMAIN node PROVE InSome(q, DOMAIN list, order')
    BY <1>2 DEF AllOwned
  <2>1. PICK y \in DOMAIN list : \E k \in 1 .. Len(order[y]) : q = order[y][k]
    BY DEF Sorting, AllOwned, InSome
  <2>2. CASE y = x
    BY <1>1, <1>2, <2>1, <2>2 DEF InSome
  <2>3. CASE y # x
    BY <1>2, <2>1, <2>3 DEF InSome
  <2>4. QED
    BY <2>2, <2>3
<1>8. nodes' = t
  BY <1>2 DEF nodes
<1>9. values' = Contents(x)'
  BY DEF values, Contents
<1>10. Abstract!SameValues(was, values)'
  <2>1. Abstract!SameValues(was, Contents(x)') /\ was' = was
    OBVIOUS
  <2>2. QED
    BY ONLY <1>9, <2>1, ZenonT(30) DEF Abstract!SameValues
<1>11. Sorting'
  BY <1>1, <1>2, <1>7, <1>8, <1>10 DEF Sorting
<1>12. QED
  BY <1>6, <1>8, <1>11

-----------------------------------------------------------------------------
(* Which function runs. *)

\* What is known of the call that runs.
LEMMA Running ==
    ASSUME IInv
    PROVE  /\ call.fn = "List_destroy" => DestroyOK
           /\ call.fn = "List_bubblesort" => BubbleOK
           /\ call.fn = "List_mergesort" => SortOK
           /\ call.fn = "List_sort_from_bottom_to_top" => BottomUpOK
<1>1. call = Idle => call.fn = "none"
  BY DEF Idle
<1>2. DestroyOK => call.fn = "List_destroy"
  BY DEF DestroyOK, DestroyCall
<1>3. BubbleOK => call.fn = "List_bubblesort"
  BY DEF BubbleOK, BubbleCall
<1>4. SortOK => call.fn = "List_mergesort"
  BY DEF SortOK, SortCall
<1>5. BottomUpOK => call.fn = "List_sort_from_bottom_to_top"
  BY DEF BottomUpOK, BottomUpCall
<1>6. QED
  BY <1>1, <1>2, <1>3, <1>4, <1>5 DEF IInv, CallOK

-----------------------------------------------------------------------------
(* List_destroy. *)

\* free removes a node and changes no other.
LEMMA WithoutIs ==
    ASSUME NEW nd, Heap(nd), NEW S
    PROVE  /\ Heap(Without(nd, S)) /\ DOMAIN Without(nd, S) = DOMAIN nd \ S
           /\ \A q \in DOMAIN nd \ S : Without(nd, S)[q] = nd[q]
BY DEF Heap, Without

\* List_destroy starts at the first node.
LEMMA DestroyBegins ==
    ASSUME IInv, NEW x \in DOMAIN list, List_destroy(x)
    PROVE  IInv'
<1> DEFINE c == [fn |-> "List_destroy", list |-> x, cur |-> list[x].first]
<1>1. Begins(x, c, <<>>) /\ c # Idle /\ c.list = x
  BY DEF List_destroy, Idle
<1>2. /\ Base' /\ Sorting' /\ call' = c /\ local' = <<>>
      /\ nodes' = order[x] /\ node' = node /\ list' = list /\ order' = order
      /\ list[x] = EndsOf(order[x]) /\ OrderOK(order[x])
  BY <1>1, BeginsKeeps
<1>3. c.cur = At(order[x], 1) /\ c.cur \in Links /\ x \in Lists /\ Len(order[x]) \in Nat
  BY <1>2, AtIs DEF EndsOf, Base
<1>4. call' \in DestroyCall
  BY <1>2, <1>3 DEF DestroyCall
<1>5. DestroyAt(1)'
  <2>1. \A q \in DOMAIN node : \/ InSome(q, DOMAIN list \ {x}, order)
                               \/ \E a \in 1 .. Len(order[x]) : q = order[x][a]
    BY <1>2 DEF Sorting, AllOwned, InSome
  <2>2. Linked(node, order[x])
    BY <1>2 DEF Sorting
  <2>3. \A a \in 1 .. Len(order[x]) : a >= 1 - 1
    BY <1>3
  <2>4. call'.cur = At(order[x], 1) /\ call'.list = x
    BY <1>2, <1>3
  <2>5. QED
    BY <1>2, <2>1, <2>2, <2>3, <2>4 DEF DestroyAt, Linked
<1>6. DestroyOK'
  <2>1. 1 \in 1 .. Len(nodes') + 1
    BY <1>2, <1>3
  <2>2. call'.list = x
    BY <1>2
  <2>3. QED
    BY <1>2, <1>4, <1>5, <2>1, <2>2 DEF DestroyOK
<1>7. QED
  BY <1>2, <1>6 DEF IInv, CallOK

\* What List_destroy frees is not in another list.
LEMMA FreeOther ==
    ASSUME IInv, DestroyOK, NEW q, q = NULL \/ (\E a \in 1 .. Len(nodes) : q = nodes[a]),
           node' = Without(node, {q})
    PROVE  /\ Heap(node') /\ DOMAIN node' = DOMAIN node \ {q}
           /\ \A p \in DOMAIN node \ {q} : node'[p] = node[p]
           /\ \A y \in DOMAIN list \ {call.list} :
                OrderOK(order[y]) /\ ListOK(node', order[y], list[y])
<1>1. /\ Heap(node') /\ DOMAIN node' = DOMAIN node \ {q}
      /\ \A p \in DOMAIN node \ {q} : node'[p] = node[p]
  BY WithoutIs, ZenonT(30) DEF IInv, Base
<1>2. ASSUME NEW y \in DOMAIN list \ {call.list}
      PROVE  OrderOK(order[y]) /\ ListOK(node', order[y], list[y])
  <2>1. OrderOK(order[y]) /\ ListOK(node, order[y], list[y])
    BY DEF IInv, Base, Busy
  <2>2. Apart(nodes, order[y])
    BY DEF IInv, Base, DestroyOK, nodes
  <2>3. \A k \in 1 .. Len(order[y]) : order[y][k] # q
    BY <2>1, <2>2, AtIs DEF Apart
  <2>4. Linked(node', order[y])
    BY <1>1, <2>1, <2>3 DEF ListOK, Linked
  <2>5. QED
    BY <2>1, <2>4 DEF ListOK
<1>3. QED
  BY <1>1, <1>2

\* The loop of List_destroy frees each node once it has passed it:
LEMMA FreePrevKeeps ==
    ASSUME IInv, FreePrev
    PROVE  IInv'
<1> DEFINE s == nodes
           x == call.list
<1>1. /\ DestroyOK /\ call.cur # NULL /\ node' = Without(node, {node[call.cur].prev})
      /\ call' = [call EXCEPT !.cur = node'[@].next]
      /\ list' = list /\ local' = local /\ order' = order
  BY Running DEF FreePrev
<1>2. PICK p \in 1 .. Len(s) + 1 : DestroyAt(p)
  BY <1>1 DEF DestroyOK
<1>3. OrderOK(s) /\ x \in DOMAIN list /\ s = order[x]
  BY <1>1 DEF DestroyOK, IInv, Base, nodes
<1>4. Len(s) \in Nat /\ p \in 1 .. Len(s) /\ p \in Int
  BY <1>1, <1>2, <1>3, AtIs DEF DestroyAt
<1>5. /\ call.cur = s[p] /\ s[p] \in DOMAIN node
      /\ node[s[p]].next = At(s, p + 1) /\ node[s[p]].prev = At(s, p - 1)
  BY <1>2, <1>4 DEF DestroyAt, At
<1> DEFINE q == At(s, p - 1)
<1>6. q = NULL \/ (p - 1 \in 1 .. Len(s) /\ q = s[p - 1])
  BY DEF At
<1>7. q # s[p]
  BY <1>3, <1>4, <1>6, AtIs DEF OrderOK
<1>8. node' = Without(node, {q})
  BY <1>1, <1>5
<1>9. q = NULL \/ (\E a \in 1 .. Len(nodes) : q = nodes[a])
  BY <1>6
<1> HIDE DEF q
<1>10. /\ Heap(node') /\ DOMAIN node' = DOMAIN node \ {q}
       /\ \A e \in DOMAIN node \ {q} : node'[e] = node[e]
       /\ \A y \in DOMAIN list \ {call.list} : OrderOK(order[y]) /\ ListOK(node', order[y], list[y])
  BY ONLY IInv, <1>1, <1>8, <1>9, FreeOther
<1>11. node'[call.cur].next = At(s, p + 1) /\ At(s, p + 1) \in Links
  BY <1>3, <1>4, <1>5, <1>7, <1>10, AtIs
<1>12. /\ call' \in DestroyCall /\ call'.list = x /\ call'.cur = At(s, p + 1) /\ call'.fn = "List_destroy"
  BY <1>1, <1>11 DEF DestroyOK, DestroyCall
<1>13. nodes' = s
  BY <1>1, <1>12 DEF nodes
<1>14. Base'
  BY <1>1, <1>3, <1>10, <1>12 DEF IInv, Base, Busy, Idle
<1>15. DestroyAt(p + 1)'
  <2>1. \A a \in 1 .. Len(s) : a >= p - 1 => a = p - 1 \/ a >= p + 1 - 1
    BY <1>4
  <2>2. ASSUME NEW e \in DOMAIN node'
        PROVE  \/ InSome(e, DOMAIN list \ {x}, order)
               \/ \E a \in 1 .. Len(s) : a >= p + 1 - 1 /\ e = s[a]
    <3>1. e \in DOMAIN node /\ e # q
      BY <1>10
    <3>2. \A a \in 1 .. Len(s) : a = p - 1 => s[a] = q
      BY <1>6 DEF q, At
    <3>3. QED
      BY <1>2, <2>1, <3>1, <3>2 DEF DestroyAt
  <2>3. ASSUME NEW a \in 1 .. Len(s), a >= p + 1 - 1
        PROVE  s[a] \in DOMAIN node' /\ node'[s[a]].next = At(s, a + 1) /\ node'[s[a]].prev = At(s, a - 1)
    <3>1. a >= p - 1 /\ a # p - 1
      BY <1>4, <2>3
    <3>2. s[a] \in DOMAIN node /\ node[s[a]].next = At(s, a + 1) /\ node[s[a]].prev = At(s, a - 1)
      BY <1>2, <3>1 DEF DestroyAt
    <3>3. s[a] # q
      BY <1>3, <1>6, <3>1, AtIs DEF OrderOK
    <3>4. QED
      BY <1>10, <3>2, <3>3
  <2>4. DOMAIN list' = DOMAIN list /\ order' = order /\ call'.list = x /\ call'.cur = At(s, p + 1)
    BY <1>1, <1>12
  <2> HIDE DEF s, x
  <2>5. DOMAIN list' \ {call'.list} = DOMAIN list \ {x}
    BY <2>4
  <2>6. \A e \in DOMAIN node' : \/ InSome(e, DOMAIN list' \ {call'.list}, order')
                                \/ \E a \in 1 .. Len(nodes') : a >= p + 1 - 1 /\ e = nodes'[a]
    BY ONLY <1>13, <2>2, <2>4, <2>5
  <2>7. \A a \in 1 .. Len(nodes') : a >= p + 1 - 1 =>
           /\ nodes'[a] \in DOMAIN node'
           /\ node'[nodes'[a]].next = At(nodes', a + 1) /\ node'[nodes'[a]].prev = At(nodes', a - 1)
    BY ONLY <1>13, <2>3
  <2>8. call'.cur = At(nodes', p + 1)
    BY ONLY <1>13, <2>4
  <2>9. QED
    BY ONLY <2>6, <2>7, <2>8 DEF DestroyAt
<1>16. DestroyOK'
  <2>1. p + 1 \in 1 .. Len(s) + 1
    BY <1>4
  <2>2. list[x] = EndsOf(s) /\ local = <<>>
    BY <1>1 DEF DestroyOK
  <2>3. QED
    BY <1>1, <1>3, <1>12, <1>13, <1>15, <2>1, <2>2 DEF DestroyOK
<1>17. QED
  BY <1>14, <1>16 DEF IInv, CallOK

\* the last one and the list are freed after it.
LEMMA FreeListKeeps ==
    ASSUME IInv, FreeList
    PROVE  IInv'
<1> DEFINE s == nodes
           x == call.list
           q == list[x].last
<1>1. /\ DestroyOK /\ call.cur = NULL /\ node' = Without(node, {q})
      /\ list' = Without(list, {x}) /\ order' = Without(order, {x})
      /\ call' = Idle /\ local' = <<>>
  BY Running DEF FreeList, Returns
<1>2. PICK p \in 1 .. Len(s) + 1 : DestroyAt(p)
  BY <1>1 DEF DestroyOK
<1>3. OrderOK(s) /\ x \in DOMAIN list /\ s = order[x] /\ DOMAIN order = DOMAIN list
  BY <1>1 DEF DestroyOK, IInv, Base, nodes
<1>4. Len(s) \in Nat /\ p = Len(s) + 1
  <2>1. Len(s) \in Nat
    BY <1>3, AtIs
  <2>2. call.cur = At(s, p)
    BY <1>2 DEF DestroyAt
  <2>3. p \notin 1 .. Len(s)
    BY <1>1, <1>3, <2>2, AtIs
  <2>4. QED
    BY <2>1, <2>3
<1>5. q = At(s, Len(s))
  BY <1>1 DEF DestroyOK, EndsOf
<1>6. q = NULL \/ (\E a \in 1 .. Len(nodes) : q = nodes[a])
  BY <1>5 DEF At
<1> HIDE DEF q
<1>7. /\ Heap(node') /\ DOMAIN node' = DOMAIN node \ {q}
      /\ \A e \in DOMAIN node \ {q} : node'[e] = node[e]
      /\ \A y \in DOMAIN list \ {call.list} : OrderOK(order[y]) /\ ListOK(node', order[y], list[y])
  BY ONLY IInv, <1>1, <1>6, FreeOther
<1>8. /\ DOMAIN list' = DOMAIN list \ {x} /\ DOMAIN order' = DOMAIN list'
      /\ \A y \in DOMAIN list' : list'[y] = list[y] /\ order'[y] = order[y]
      /\ list' = [y \in DOMAIN list' |-> list[y]] /\ order' = [y \in DOMAIN list' |-> order[y]]
  BY <1>1, <1>3 DEF Without
<1>9. list' \in [DOMAIN list' -> ListRecord] /\ order' \in [DOMAIN list' -> Seq(Nodes)]
  <2>1. \A y \in DOMAIN list' : list[y] \in ListRecord /\ order[y] \in Seq(Nodes)
    BY <1>8 DEF IInv, Base
  <2>2. QED
    BY <1>8, <2>1
<1>10. Base'
  BY <1>7, <1>8, <1>9 DEF IInv, Base
<1>11. AllOwned'
  <2> SUFFICES ASSUME NEW e \in DOMAIN node, e # q PROVE InSome(e, DOMAIN list', order')
    BY <1>7 DEF AllOwned
  <2>1. \A a \in 1 .. Len(s) : a >= p - 1 => a = Len(s) /\ s[a] = q
    <3>1. \A a \in 1 .. Len(s) : a >= p - 1 => a = Len(s)
      BY <1>4
    <3>2. QED
      BY <1>5, <3>1 DEF At
  <2>2. InSome(e, DOMAIN list \ {x}, order)
    BY <1>2, <2>1 DEF DestroyAt
  <2>3. QED
    BY <1>8, <2>2 DEF InSome
<1>12. QED
  BY <1>1, <1>10, <1>11 DEF IInv, CallOK

-----------------------------------------------------------------------------
(* List_bubblesort. *)

\* List_bubblesort starts with nothing in its final place.
LEMMA BubbleBegins ==
    ASSUME IInv, NEW x \in DOMAIN list, List_bubblesort(x)
    PROVE  IInv'
<1> DEFINE c == [fn |-> "List_bubblesort", list |-> x, curi |-> 0, curj |-> 0, j |-> list[x].first]
<1>1. Begins(x, c, <<>>) /\ c # Idle /\ c.list = x
  BY DEF List_bubblesort, Idle
<1>2. /\ Base' /\ Sorting' /\ call' = c /\ local' = <<>>
      /\ nodes' = order[x] /\ values' = Contents(x) /\ node' = node /\ list' = list /\ order' = order
      /\ list[x] = EndsOf(order[x]) /\ OrderOK(order[x])
  BY <1>1, BeginsKeeps
<1>3. c.j = At(order[x], 1) /\ c.j \in Links /\ x \in Lists /\ Len(order[x]) \in Nat
  BY <1>2, AtIs DEF EndsOf, Base
<1>4. call' \in BubbleCall
  BY <1>2, <1>3 DEF BubbleCall
<1>5. BubbleAt(order[x], Contents(x), 0, 0)
  <2>1. \A b \in 1 .. Len(order[x]) : ~(Len(order[x]) - 0 < b)
    BY <1>3
  <2>2. \A a \in 1 .. 0 : FALSE
    OBVIOUS
  <2>3. QED
    BY <2>1, <2>2 DEF BubbleAt
<1>6. BubbleOK'
  <2>1. call'.curi = 0 /\ call'.curj = 0 /\ call'.j = At(order[x], 0 + 1) /\ call'.list = x
    BY <1>2, <1>3
  <2>2. QED
    BY <1>2, <1>4, <1>5, <2>1 DEF BubbleOK
<1>7. QED
  BY <1>2, <1>6 DEF IInv, CallOK

\* r is nd but for two values.
Revalued(r, nd, a, u, b, w) ==
    /\ Heap(r) /\ DOMAIN r = DOMAIN nd
    /\ \A q \in DOMAIN nd : /\ r[q].next = nd[q].next /\ r[q].prev = nd[q].prev
                            /\ r[q].value = (IF q = a THEN u ELSE IF q = b THEN w ELSE nd[q].value)
                            /\ q # a /\ q # b => r[q] = nd[q]

\* The two assignments that exchange the values of two nodes.
LEMMA Swapped ==
    ASSUME NEW nd, Heap(nd), NEW a \in DOMAIN nd, NEW b \in DOMAIN nd, a # b, NEW u \in Values, NEW w \in Values
    PROVE  Revalued(SetValue(SetValue(nd, a, u), b, w), nd, a, u, b, w)
<1> DEFINE m == SetValue(nd, a, u)
           r == SetValue(m, b, w)
<1>1. /\ SameBut(m, nd, a)
      /\ m[a] = [next |-> nd[a].next, prev |-> nd[a].prev, value |-> u]
  BY SetValueIs
<1> HIDE DEF m
<1>2. /\ SameBut(r, m, b)
      /\ r[b] = [next |-> m[b].next, prev |-> m[b].prev, value |-> w]
  BY <1>1, SetValueIs DEF SameBut
<1> HIDE DEF r
<1>3. Revalued(r, nd, a, u, b, w)
  BY <1>1, <1>2 DEF SameBut, Revalued
<1>4. QED
  BY <1>3 DEF r, m

\* A comparison of List_bubblesort carries the largest value one place on.
LEMMA BubbleValues ==
    ASSUME NEW s, NEW v, Numbers(v), Len(s) = Len(v), NEW i \in Nat, NEW j \in Nat, j < Len(v) - 1 - i,
           BubbleAt(s, v, i, j), NEW w,
           w = IF v[j + 1] > v[j + 2] THEN Rotated(v, j + 1, j + 2) ELSE v
    PROVE  BubbleAt(s, w, i, j + 1)
<1> DEFINE n == Len(v)
<1>1. n \in Nat /\ j + 1 \in 1 .. n /\ j + 2 \in 1 .. n /\ j + 1 < j + 2 /\ j + 2 <= n - i /\ i \in Int /\ n \in Int
  BY DEF Numbers
<1>2. \A a \in 1 .. n : v[a] \in Int
  BY DEF Numbers
<1>3. /\ \A a, b \in 1 .. n : a < b /\ n - i < b => v[a] <= v[b]
      /\ \A a \in 1 .. j : v[a] <= v[j + 1]
  BY DEF BubbleAt
<1>4. /\ \A a \in 1 .. n : a # j + 1 /\ a # j + 2 => w[a] = v[a]
      /\ (w[j + 1] = v[j + 1] /\ w[j + 2] = v[j + 2]) \/ (w[j + 1] = v[j + 2] /\ w[j + 2] = v[j + 1])
      /\ w[j + 1] <= w[j + 2] /\ v[j + 1] <= w[j + 2]
  <2>1. CASE v[j + 1] > v[j + 2]
    <3>1. \A a \in 1 .. n : w[a] = IF a = j + 1 THEN v[j + 2] ELSE IF a \in (j + 1) + 1 .. j + 2 THEN v[a - 1] ELSE v[a]
      BY <1>1, <2>1, RotatedIs
    <3>2. \A a \in 1 .. n : (a \in (j + 1) + 1 .. j + 2 <=> a = j + 2) /\ (a = j + 2 => a - 1 = j + 1 /\ a # j + 1)
      BY <1>1
    <3>3. w[j + 1] = v[j + 2] /\ w[j + 2] = v[j + 1] /\ \A a \in 1 .. n : a # j + 1 /\ a # j + 2 => w[a] = v[a]
      BY <1>1, <3>1, <3>2
    <3>4. QED
      BY <1>1, <1>2, <2>1, <3>3
  <2>2. CASE ~(v[j + 1] > v[j + 2])
    BY <1>1, <1>2, <2>2
  <2>3. QED
    BY <2>1, <2>2
<1>5. ASSUME NEW a \in 1 .. n, NEW b \in 1 .. n, a < b, n - i < b PROVE w[a] <= w[b]
  <2>1. b # j + 1 /\ b # j + 2 /\ j + 1 < b /\ j + 2 < b
    BY <1>1, <1>5
  <2>2. w[b] = v[b] /\ v[j + 1] <= v[b] /\ v[j + 2] <= v[b] /\ v[a] <= v[b]
    BY <1>1, <1>3, <1>4, <1>5, <2>1
  <2>3. QED
    BY <1>4, <2>2
<1>6. ASSUME NEW a \in 1 .. j + 1 PROVE w[a] <= w[(j + 1) + 1]
  <2>1. (j + 1) + 1 = j + 2 /\ a \in 1 .. n /\ a # j + 2 /\ (a # j + 1 => a \in 1 .. j)
    BY <1>1
  <2>2. CASE a = j + 1
    BY <1>4, <2>1, <2>2
  <2>3. CASE a # j + 1
    <3>1. w[a] = v[a] /\ v[a] <= v[j + 1] /\ v[j + 1] <= w[j + 2] /\ v[a] \in Int /\ v[j + 1] \in Int /\ w[j + 2] \in Int
      BY <1>1, <1>2, <1>3, <1>4, <2>1, <2>3
    <3>2. QED
      BY <2>1, <3>1
  <2>4. QED
    BY <2>2, <2>3
<1>7. j + 1 <= Len(s) - 1 - i
  BY <1>1
<1>8. QED
  BY <1>5, <1>6, <1>7 DEF BubbleAt

\* The values of the other lists, which a step of a sort leaves alone.
OthersShown == \A y \in DOMAIN list : y # call.list => Contents(y)' = Contents(y)

\* A call that runs changes nothing of the other lists.
LEMMA OthersAreShown ==
    ASSUME IInv, call # Idle, call.list \in DOMAIN list,
           \A q \in DOMAIN node : (\A k \in 1 .. Len(nodes) : q # nodes[k]) => node'[q] = node[q],
           \A y \in DOMAIN list : y # call.list => order'[y] = order[y]
    PROVE  OthersShown
<1> SUFFICES ASSUME NEW y \in DOMAIN list, y # call.list PROVE Contents(y)' = Contents(y)
  BY DEF OthersShown
<1>1. Linked(node, order[y]) /\ Apart(nodes, order[y]) /\ order'[y] = order[y]
  BY DEF IInv, Base, Busy, ListOK, nodes
<1>2. \A k \in 1 .. Len(order[y]) : node'[order[y][k]] = node[order[y][k]]
  BY <1>1 DEF Linked, Apart
<1>3. QED
  BY <1>1, <1>2 DEF Contents

\* One comparison, and the exchange if there is one.
LEMMA BubbleKeeps ==
    ASSUME IInv, Bubble
    PROVE  IInv' /\ OthersShown
<1> DEFINE x == call.list
           s == nodes
           v == values
           j == call.curj
           i == call.curi
           t == IF v[j + 1] > v[j + 2] THEN Rotated(v, j + 1, j + 2) ELSE v
<1>1. /\ BubbleOK /\ call.fn = "List_bubblesort" /\ j < Compared
      /\ list' = list /\ local' = local /\ order' = order /\ was' = was
  BY Running DEF Bubble
<1>2. /\ Sorting /\ call \in BubbleCall /\ local = <<>> /\ list[x] = EndsOf(s)
      /\ call.j = At(s, j + 1) /\ BubbleAt(s, v, i, j)
  BY <1>1 DEF BubbleOK
<1>3. /\ x \in DOMAIN list /\ OrderOK(s) /\ Linked(node, s) /\ Heap(node) /\ s = order[x] /\ v = Contents(x)
      /\ i \in Nat /\ j \in Nat /\ order \in [DOMAIN list -> Seq(Nodes)] /\ list \in [DOMAIN list -> ListRecord]
  BY <1>2 DEF Sorting, IInv, Base, nodes, values, BubbleCall
<1>4. /\ Len(v) = Len(s) /\ Len(s) \in Nat /\ Numbers(v)
      /\ v = [a \in 1 .. Len(v) |-> v[a]]
      /\ \A a \in 1 .. Len(s) : v[a] = node[s[a]].value /\ v[a] \in Values
  BY <1>3, ContentsIs
<1>5. Compared = Len(s) - 1 - i
  BY <1>2 DEF Compared, Sorting
<1>6. j + 1 \in 1 .. Len(s) /\ j + 2 \in 1 .. Len(s) /\ j < Len(v) - 1 - i /\ (j + 1) + 1 = j + 2
  BY <1>1, <1>3, <1>4, <1>5, SMTT(20)
<1> DEFINE a == s[j + 1]
           b == s[j + 2]
<1>7. call.j = a /\ node[a].next = b /\ a # b /\ a \in DOMAIN node /\ b \in DOMAIN node /\ b \in Links
  <2>1. call.j = a
    BY <1>2, <1>6 DEF At
  <2>2. node[a].next = b
    BY <1>3, <1>6 DEF Linked, At
  <2>3. a # b
    BY <1>3, <1>4, <1>6 DEF OrderOK
  <2>4. QED
    BY <1>3, <1>6, <2>1, <2>2, <2>3, AtIs DEF Linked, Links
<1> DEFINE r == SetValue(SetValue(node, a, v[j + 2]), b, v[j + 1])
<1>8. node' = IF v[j + 1] > v[j + 2] THEN r ELSE node
  BY <1>4, <1>6, <1>7 DEF Bubble
<1>9. /\ Heap(r) /\ DOMAIN r = DOMAIN node
      /\ \A q \in DOMAIN node : /\ r[q].next = node[q].next /\ r[q].prev = node[q].prev
                                /\ r[q].value = (IF q = a THEN v[j + 2] ELSE IF q = b THEN v[j + 1] ELSE node[q].value)
                                /\ q # a /\ q # b => r[q] = node[q]
  <2>1. v[j + 1] \in Values /\ v[j + 2] \in Values
    BY <1>4, <1>6
  <2>2. Revalued(r, node, a, v[j + 2], b, v[j + 1])
    BY ONLY <1>3, <1>7, <2>1, Swapped
  <2> HIDE DEF r
  <2>3. QED
    BY <2>2 DEF Revalued
<1>10. call' = [call EXCEPT !.curj = @ + 1, !.j = b]
  BY <1>7 DEF Bubble
<1> HIDE DEF r
<1>11. /\ Heap(node') /\ DOMAIN node' = DOMAIN node /\ Linked(node', s)
       /\ \A q \in DOMAIN node : (\A k \in 1 .. Len(s) : q # s[k]) => node'[q] = node[q]
  <2>1. CASE v[j + 1] > v[j + 2]
    <3>1. Linked(r, s)
      BY <1>3, <1>9 DEF Linked
    <3>2. QED
      BY <1>6, <1>8, <1>9, <2>1, <3>1
  <2>2. CASE ~(v[j + 1] > v[j + 2])
    BY <1>3, <1>8, <2>2
  <2>3. QED
    BY <2>1, <2>2
<1>12. \A k \in 1 .. Len(s) : node'[s[k]].value = t[k]
  <2>1. CASE v[j + 1] > v[j + 2]
    <3>1. \A k \in 1 .. Len(s) : t[k] = IF k = j + 1 THEN v[j + 2] ELSE IF k \in (j + 1) + 1 .. j + 2 THEN v[k - 1] ELSE v[k]
      BY <1>4, <1>6, <2>1, RotatedIs
    <3>2. \A k \in 1 .. Len(s) : (k \in (j + 1) + 1 .. j + 2 <=> k = j + 2) /\ (k = j + 2 => k - 1 = j + 1 /\ k # j + 1)
      BY <1>3, <1>6
    <3>3. \A k \in 1 .. Len(s) : s[k] \in DOMAIN node /\ (s[k] = a <=> k = j + 1) /\ (s[k] = b <=> k = j + 2)
      BY <1>3, <1>6 DEF OrderOK, Linked
    <3>4. \A k \in 1 .. Len(s) : t[k] = IF k = j + 1 THEN v[j + 2] ELSE IF k = j + 2 THEN v[j + 1] ELSE v[k]
      BY <3>1, <3>2
    <3> HIDE DEF a, b, t
    <3>5. QED
      BY <1>4, <1>8, <1>9, <2>1, <3>3, <3>4
  <2>2. CASE ~(v[j + 1] > v[j + 2])
    BY <1>4, <1>8, <2>2
  <2>3. QED
    BY <2>1, <2>2
<1>13. call'.list = x /\ call'.curi = i /\ call'.curj = j + 1 /\ call'.j = b /\ call' \in BubbleCall /\ call' # Idle
  <2>1. call'.list = x /\ call'.curi = i /\ call'.curj = j + 1 /\ call'.j = b /\ call'.fn = "List_bubblesort"
    BY <1>1, <1>2, <1>10 DEF BubbleCall
  <2>2. call' = [fn |-> call'.fn, list |-> call'.list, curi |-> call'.curi, curj |-> call'.curj, j |-> call'.j]
    BY <1>2, <1>10 DEF BubbleCall
  <2>3. x \in Lists /\ j + 1 \in Nat
    BY <1>2, <1>3 DEF BubbleCall
  <2>4. call' \in BubbleCall
    BY <1>3, <1>7, <2>1, <2>2, <2>3 DEF BubbleCall
  <2>5. QED
    BY <2>1, <2>4, NotCalls
<1>14. Contents(x)' = t
  <2>1. Contents(x)' = [k \in 1 .. Len(s) |-> node'[s[k]].value]
    BY <1>1, <1>3, <1>13 DEF Contents
  <2>2. t = [k \in 1 .. Len(s) |-> t[k]]
    BY <1>4 DEF Rotated
  <2>3. QED
    BY <1>12, <2>1, <2>2
<1>15. Abstract!SameValues(was, t) /\ Len(was) = Len(s)
  <2>1. Abstract!SameValues(was, v) /\ Len(was) = Len(s) /\ Len(v) = Len(was) /\ Len(was) \in Nat
    BY <1>2, <1>4 DEF Sorting
  <2>2. Abstract!SameValues(was, Rotated(v, j + 1, j + 2))
    <3>1. j + 1 \in 1 .. Len(was) /\ j + 2 \in 1 .. Len(was) /\ j + 1 < j + 2
      BY <1>3, <1>6, <2>1
    <3>2. QED
      BY ONLY <2>1, <3>1, RotatedSame
  <2>3. QED
    BY <2>1, <2>2
<1>16. BubbleAt(s, t, i, j + 1)
  BY <1>2, <1>3, <1>4, <1>6, BubbleValues
<1> HIDE DEF t
<1>17. Base' /\ Sorting' /\ nodes' = s
  <2>1. order' = [order EXCEPT ![call.list] = s]
    BY <1>1, <1>3
  <2>2. /\ list' = [y \in DOMAIN list |-> list'[y]] /\ list'[call.list] \in ListRecord
        /\ list'[call.list].count = list[call.list].count
        /\ \A y \in DOMAIN list : y # call.list => list'[y] = list[y]
    BY <1>1, <1>3
  <2>3. /\ \A k \in 1 .. Len(nodes) : \E c \in 1 .. Len(nodes) : s[k] = nodes[c]
        /\ \A c \in 1 .. Len(nodes) : \E k \in 1 .. Len(nodes) : s[k] = nodes[c]
    OBVIOUS
  <2>4. call # Idle /\ call' # Idle /\ call'.list = call.list
    BY <1>1, <1>13 DEF Idle
  <2>5. Abstract!SameValues(was, Contents(call.list)') /\ Len(was) = Len(nodes)
    BY <1>14, <1>15
  <2>6. QED
    BY ONLY IInv, <1>1, <1>2, <1>3, <1>11, <2>1, <2>2, <2>3, <2>4, <2>5, WritesKeep
<1>18. values' = t
  BY <1>13, <1>14 DEF values, Contents
<1>19. BubbleOK'
  <2>1. b = At(s, (j + 1) + 1)
    BY <1>6 DEF At
  <2>2. QED
    BY <1>1, <1>2, <1>13, <1>16, <1>17, <1>18, <2>1 DEF BubbleOK
<1>20. OthersShown
  <2>1. \A y \in DOMAIN list : y # call.list => order'[y] = order[y]
    BY <1>1
  <2>2. call # Idle
    BY <1>1 DEF Idle
  <2>3. QED
    BY ONLY IInv, <1>3, <1>11, <2>1, <2>2, OthersAreShown
<1>21. QED
  BY <1>17, <1>19, <1>20 DEF IInv, CallOK

\* After a pass its last value is in its final place.
LEMMA NextBubblesKeeps ==
    ASSUME IInv, NextBubbles
    PROVE  IInv'
<1> DEFINE x == call.list
           s == nodes
           v == values
           j == call.curj
           i == call.curi
           n == Len(s)
<1>1. /\ BubbleOK /\ call.fn = "List_bubblesort" /\ Compared > 0 /\ j >= Compared /\ local' = local /\ Moves
      /\ call' = [call EXCEPT !.curi = @ + 1, !.curj = 0, !.j = list[call.list].first]
  BY Running DEF NextBubbles
<1>2. /\ Sorting /\ call \in BubbleCall /\ local = <<>> /\ list[x] = EndsOf(s)
      /\ call.j = At(s, j + 1) /\ BubbleAt(s, v, i, j) /\ Compared = Len(s) - 1 - i
  BY <1>1 DEF BubbleOK, Sorting, Compared
<1>3. i \in Nat /\ j \in Nat /\ OrderOK(s) /\ n \in Nat
  BY <1>2, AtIs DEF BubbleCall, Sorting, IInv, Base, nodes
<1>4. list[x].first = At(s, 1) /\ At(s, 1) \in Links
  BY <1>2, <1>3, AtIs DEF EndsOf
<1>5. call'.list = x /\ call'.curi = i + 1 /\ call'.curj = 0 /\ call'.j = At(s, 1) /\ call' \in BubbleCall /\ call' # Idle
  <2>1. call'.list = x /\ call'.curi = i + 1 /\ call'.curj = 0 /\ call'.j = At(s, 1) /\ call'.fn = "List_bubblesort"
    BY <1>1, <1>2, <1>4 DEF BubbleCall
  <2>2. call' = [fn |-> call'.fn, list |-> call'.list, curi |-> call'.curi, curj |-> call'.curj, j |-> call'.j]
    BY <1>1, <1>2 DEF BubbleCall
  <2>3. x \in Lists /\ i + 1 \in Nat /\ 0 \in Nat
    BY <1>2, <1>3 DEF BubbleCall
  <2>4. call' \in BubbleCall
    BY <1>4, <2>1, <2>2, <2>3 DEF BubbleCall
  <2>5. QED
    BY <2>1, <2>4, NotCalls
<1>6. call # Idle
  BY <1>1 DEF Idle
<1>7. Base' /\ Sorting' /\ nodes' = s /\ values' = v /\ list' = list
  BY <1>1, <1>2, <1>5, <1>6, MovesKeep
<1>8. BubbleAt(s, v, i + 1, 0)
  <2>1. j = n - 1 - i
    BY <1>1, <1>2, <1>3 DEF BubbleAt
  <2>2. /\ \A a, b \in 1 .. n : a < b /\ n - i < b => v[a] <= v[b]
        /\ \A a \in 1 .. n - 1 - i : v[a] <= v[(n - 1 - i) + 1]
    BY <1>2, <2>1 DEF BubbleAt
  <2>3. ASSUME NEW a \in 1 .. n, NEW b \in 1 .. n, a < b, n - (i + 1) < b PROVE v[a] <= v[b]
    <3>1. CASE n - i < b
      BY <2>2, <2>3, <3>1
    <3>2. CASE ~(n - i < b)
      <4>1. b = (n - 1 - i) + 1 /\ a \in 1 .. n - 1 - i
        BY <1>3, <2>3, <3>2
      <4>2. QED
        BY <2>2, <4>1
    <3>3. QED
      BY <3>1, <3>2
  <2>4. 0 <= n - 1 - (i + 1)
    BY <1>1, <1>2, <1>3
  <2>5. \A a \in 1 .. 0 : FALSE
    OBVIOUS
  <2>6. QED
    BY <2>3, <2>4, <2>5 DEF BubbleAt
<1>9. BubbleOK'
  <2>1. call'.j = At(s, 0 + 1)
    BY <1>5
  <2>2. QED
    BY <1>1, <1>2, <1>5, <1>7, <1>8, <2>1 DEF BubbleOK
<1>10. QED
  BY <1>7, <1>9 DEF IInv, CallOK

\* After the last pass the values are in order.
LEMMA BubblesEndKeeps ==
    ASSUME IInv, BubblesEnd
    PROVE  IInv' /\ Abstract!Sorted(values) /\ Sorting
<1>1. BubbleOK /\ call.fn = "List_bubblesort" /\ Compared <= 0 /\ Returns /\ UNCHANGED <<node, list, order>>
  BY Running DEF BubblesEnd
<1>2. Sorting /\ list[call.list] = EndsOf(nodes) /\ call \in BubbleCall
  BY <1>1 DEF BubbleOK
<1>3. call # Idle
  BY <1>1 DEF Idle
<1>4. IInv'
  BY <1>1, <1>2, <1>3, ReturnsKeeps
<1> DEFINE s == nodes
           v == values
           n == Len(s)
           i == call.curi
           j == call.curj
<1>5. i \in Nat /\ j \in Nat /\ OrderOK(s) /\ n \in Nat /\ Compared = n - 1 - i
  BY <1>2, AtIs DEF BubbleCall, Sorting, IInv, Base, nodes, Compared
<1>6. BubbleAt(s, v, i, j)
  BY <1>1 DEF BubbleOK
<1>7. n - i <= 1
  BY <1>1, <1>5
<1>8. Len(v) = n
  <2>1. Linked(node, order[call.list]) /\ Heap(node) /\ OrderOK(order[call.list])
    BY <1>2, <1>5 DEF Sorting, nodes, IInv, Base
  <2>2. QED
    BY <2>1, ContentsIs DEF values, nodes
<1>9. Abstract!Sorted(v)
  <2> SUFFICES ASSUME NEW a \in 1 .. n, NEW b \in 1 .. n, a < b PROVE v[a] <= v[b]
    BY <1>8 DEF Abstract!Sorted
  <2>1. n - i < b
    BY <1>5, <1>7
  <2>2. QED
    BY <1>6, <2>1 DEF BubbleAt
<1>10. QED
  BY <1>2, <1>4, <1>9

-----------------------------------------------------------------------------
(* A round of a merge, whose caller sorts lo .. hi of the list. *)

\* The nodes are now in the order t, with the values w.
MergedTo(f, left, right, mid, lo, hi, t, w) ==
    /\ Base' /\ Sorting' /\ nodes' = t /\ values' = w /\ OthersShown
    /\ DOMAIN list' = DOMAIN list
    /\ Len(t) = Len(nodes) /\ Len(w) = Len(nodes)
    /\ \A k \in 1 .. Len(nodes) : k < lo \/ hi < k => t[k] = nodes[k] /\ w[k] = values[k]
    /\ \E i, j \in lo .. hi + 1 : MergeAt(t, w, AfterRound(f), mid, lo, i, j, hi)
    /\ list'[call.list] =
         [count |-> list[call.list].count,
          first |-> IF left = <<"first", call.list>> THEN t[lo] ELSE list[call.list].first,
          last |-> IF right = <<"last", call.list>> THEN t[hi] ELSE list[call.list].last]
    /\ local' = [d \in DOMAIN local |->
         IF left = <<"local", d>> THEN t[lo]
         ELSE IF right = <<"local", d>> THEN t[hi] ELSE local[d]]

\* The list a sort works on.
LEMMA NodesAre ==
    ASSUME IInv, Sorting
    PROVE  /\ call.list \in DOMAIN list /\ OrderOK(nodes) /\ Linked(node, nodes) /\ Heap(node)
           /\ nodes = order[call.list] /\ values = Contents(call.list)
           /\ Len(nodes) \in Nat /\ Len(values) = Len(nodes) /\ Numbers(values)
           /\ values = [i \in 1 .. Len(values) |-> values[i]]
           /\ \A i \in 1 .. Len(nodes) : values[i] = node[nodes[i]].value
           /\ list \in [DOMAIN list -> ListRecord] /\ DOMAIN order = DOMAIN list
<1>1. /\ call.list \in DOMAIN list /\ OrderOK(nodes) /\ Linked(node, nodes) /\ Heap(node)
      /\ nodes = order[call.list] /\ values = Contents(call.list)
      /\ list \in [DOMAIN list -> ListRecord] /\ DOMAIN order = DOMAIN list
  BY DEF Sorting, IInv, Base, nodes, values
<1>2. /\ Len(nodes) \in Nat /\ Len(values) = Len(nodes) /\ Numbers(values)
      /\ values = [i \in 1 .. Len(values) |-> values[i]]
      /\ \A i \in 1 .. Len(nodes) : values[i] = node[nodes[i]].value
  BY <1>1, ContentsIs
<1>3. QED
  BY <1>1, <1>2

\* Where the variables of a merge are when the loop goes on.
LEMMA MergingAt ==
    ASSUME NEW s, OrderOK(s), NEW v, NEW f, NEW mid, NEW lo \in 1 .. Len(s), NEW hi \in 1 .. Len(s),
           NEW i \in Int, NEW j \in Int, MergeAt(s, v, f, mid, lo, i, j, hi), f.m # f.end, f.l # f.m
    PROVE  /\ i < j /\ j <= hi /\ lo <= i /\ i \in 1 .. Len(s) /\ j \in 1 .. Len(s) /\ j - 1 \in 1 .. Len(s)
           /\ f.l = s[i] /\ f.m = s[j] /\ mid = s[j - 1] /\ f.end = At(s, hi + 1)
           /\ InMerge(v, lo, i, j, hi)
<1>1. /\ lo <= i /\ i <= j /\ i <= hi /\ lo < j /\ j <= hi + 1
      /\ f.l = s[i] /\ f.m = At(s, j) /\ mid = s[j - 1] /\ f.end = At(s, hi + 1)
      /\ InMerge(v, lo, i, j, hi)
  BY DEF MergeAt
<1>2. j # hi + 1
  BY <1>1
<1>3. Len(s) \in Nat /\ lo \in Int /\ hi \in Int
  BY AtIs
<1>4. i \in 1 .. Len(s) /\ j \in 1 .. Len(s) /\ j - 1 \in 1 .. Len(s) /\ j <= hi
  BY <1>1, <1>2, <1>3
<1>5. f.m = s[j]
  BY <1>1, <1>4 DEF At
<1>6. i < j
  BY <1>1, <1>5
<1>7. QED
  BY <1>1, <1>4, <1>5, <1>6

\* A round that finds the left value smaller,
LEMMA MergePrecedes ==
    ASSUME IInv, Sorting, call # Idle, call' # Idle, call'.list = call.list,
           NEW f, NEW left, NEW right, NEW mid, MergeRound(f, left, right, mid), Merging(f), Precedes(f),
           NEW lo \in 1 .. Len(nodes), NEW hi \in 1 .. Len(nodes), NEW i \in Int, NEW j \in Int,
           MergeAt(nodes, values, f, mid, lo, i, j, hi),
           local \in [DOMAIN local -> Links], left # right,
           LeftCell(left, call.list, lo), RightCell(right, call.list, hi),
           "l" \in DOMAIN f, "m" \in DOMAIN f
    PROVE  MergedTo(f, left, right, mid, lo, hi, nodes, values)
<1> DEFINE s == nodes
           v == values
           x == call.list
<1>1. /\ node' = node /\ list' = list /\ local' = local /\ order' = order /\ was' = was
      /\ asked' = asked
  BY DEF MergeRound
<1>2. /\ x \in DOMAIN list /\ OrderOK(s) /\ Linked(node, s) /\ s = order[x]
      /\ Len(s) \in Nat /\ Len(v) = Len(s) /\ Numbers(v)
      /\ \A k \in 1 .. Len(s) : v[k] = node[s[k]].value
      /\ list \in [DOMAIN list -> ListRecord]
  BY NodesAre
<1>3. Base' /\ Sorting' /\ nodes' = nodes /\ values' = values
  BY <1>1, MovesKeep DEF Moves
<1>4. /\ i < j /\ j <= hi /\ lo <= i /\ i \in 1 .. Len(s) /\ j \in 1 .. Len(s) /\ j - 1 \in 1 .. Len(s)
      /\ f.l = s[i] /\ f.m = s[j] /\ mid = s[j - 1] /\ f.end = At(s, hi + 1)
      /\ InMerge(v, lo, i, j, hi)
  BY <1>2, MergingAt DEF Merging
<1>5. v[i] < v[j]
  BY <1>2, <1>4 DEF Precedes
<1>6. InMerge(v, lo, i + 1, j, hi)
  <2>1. 1 <= lo /\ hi <= Len(v) /\ lo \in Int /\ hi \in Int
    BY <1>2
  <2>2. QED
    BY <1>2, <1>4, <1>5, <2>1, MergeAdvances
<1>7. i + 1 \in 1 .. Len(s) /\ i + 1 <= hi /\ i + 1 <= j /\ lo <= i + 1 /\ lo < j /\ j <= hi + 1
  <2>1. Len(s) \in Nat
    BY <1>2
  <2> HIDE DEF s
  <2>2. i \in 1 .. Len(s) /\ j \in 1 .. Len(s) /\ lo <= i /\ i < j /\ j <= hi
    BY <1>4
  <2>3. lo \in 1 .. Len(s) /\ hi \in 1 .. Len(s)
    BY DEF s
  <2>4. QED
    BY ONLY <2>1, <2>2, <2>3
<1>8. AfterRound(f).l = s[i + 1] /\ AfterRound(f).m = f.m /\ AfterRound(f).end = f.end
  <2>1. node[f.l].next = s[i + 1]
    BY <1>2, <1>4, <1>7 DEF Linked, At
  <2>2. QED
    BY <2>1 DEF AfterRound
<1>9. MergeAt(s, v, AfterRound(f), mid, lo, i + 1, j, hi)
  <2>1. f.m = At(s, j)
    BY <1>4 DEF At
  <2>2. QED
    BY <1>4, <1>6, <1>7, <1>8, <2>1 DEF MergeAt
<1>10. i + 1 \in lo .. hi + 1 /\ j \in lo .. hi + 1
  BY <1>2, <1>4, <1>7
<1>11. list[x] = [count |-> list[x].count,
                  first |-> IF left = <<"first", x>> THEN s[lo] ELSE list[x].first,
                  last |-> IF right = <<"last", x>> THEN s[hi] ELSE list[x].last]
  <2>1. left = <<"first", x>> => list[x].first = s[lo]
    BY <1>2 DEF LeftCell
  <2>2. right = <<"last", x>> => list[x].last = s[hi]
    BY <1>2 DEF RightCell
  <2>3. list[x] = [count |-> list[x].count, first |-> list[x].first, last |-> list[x].last]
    BY <1>2 DEF ListRecord
  <2>4. QED
    BY <2>1, <2>2, <2>3
<1>12. local = [d \in DOMAIN local |->
         IF left = <<"local", d>> THEN s[lo]
         ELSE IF right = <<"local", d>> THEN s[hi] ELSE local[d]]
  <2>1. \A d \in DOMAIN local : left = <<"local", d>> => local[d] = s[lo]
    BY <1>2 DEF LeftCell
  <2>2. \A d \in DOMAIN local : right = <<"local", d>> => local[d] = s[hi]
    BY <1>2 DEF RightCell
  <2>3. QED
    BY <2>1, <2>2
<1>13. OthersShown
  BY <1>1 DEF OthersShown, Contents
<1>14. QED
  BY <1>1, <1>2, <1>3, <1>9, <1>10, <1>11, <1>12, <1>13 DEF MergedTo

\* and one that does not.
LEMMA MergeFollows ==
    ASSUME IInv, Sorting, call # Idle, call' # Idle, call'.list = call.list,
           NEW f, NEW left, NEW right, NEW mid, MergeRound(f, left, right, mid), Merging(f), ~Precedes(f),
           NEW lo \in 1 .. Len(nodes), NEW hi \in 1 .. Len(nodes), NEW i \in Int, NEW j \in Int,
           MergeAt(nodes, values, f, mid, lo, i, j, hi),
           local \in [DOMAIN local -> Links], left # right,
           LeftCell(left, call.list, lo), RightCell(right, call.list, hi),
           "l" \in DOMAIN f, "m" \in DOMAIN f
    PROVE  MergedTo(f, left, right, mid, lo, hi, Rotated(nodes, i, j), Rotated(values, i, j))
<1> DEFINE s == nodes
           v == values
           x == call.list
           t == Rotated(s, i, j)
           w == Rotated(v, i, j)
           h == Moved(left, right, mid, f.l, f.m)
<1>1. /\ node' = h.node /\ list' = h.list /\ local' = h.local /\ was' = was
      /\ order' = [order EXCEPT ![x] = Rotated(@, Place(@, f.l), Place(@, f.m))]
  BY DEF MergeRound
<1>2. /\ x \in DOMAIN list /\ OrderOK(s) /\ Linked(node, s) /\ s = order[x] /\ Heap(node)
      /\ Len(s) \in Nat /\ Len(v) = Len(s) /\ Numbers(v) /\ v = Contents(x)
      /\ \A k \in 1 .. Len(s) : v[k] = node[s[k]].value
      /\ list \in [DOMAIN list -> ListRecord] /\ DOMAIN order = DOMAIN list
  BY NodesAre
<1>3. /\ i < j /\ j <= hi /\ lo <= i /\ i \in 1 .. Len(s) /\ j \in 1 .. Len(s) /\ j - 1 \in 1 .. Len(s)
      /\ f.l = s[i] /\ f.m = s[j] /\ mid = s[j - 1] /\ f.end = At(s, hi + 1)
      /\ InMerge(v, lo, i, j, hi)
  BY <1>2, MergingAt DEF Merging
<1>4. order' = [order EXCEPT ![x] = t]
  BY <1>1, <1>2, <1>3, PlaceIs
<1>5. /\ Len(t) = Len(s) /\ DOMAIN t = 1 .. Len(s)
      /\ \A k \in 1 .. Len(s) : t[k] = IF k = i THEN s[j] ELSE IF k \in i + 1 .. j THEN s[k - 1] ELSE s[k]
  <2>1. Len(s) \in Nat /\ i \in 1 .. Len(s) /\ j \in 1 .. Len(s) /\ i < j
    BY <1>2, <1>3
  <2> HIDE DEF s
  <2>2. QED
    BY ONLY <2>1, RotatedIs
<1>6. /\ Len(w) = Len(s) /\ DOMAIN w = 1 .. Len(s)
      /\ \A k \in 1 .. Len(s) : w[k] = IF k = i THEN v[j] ELSE IF k \in i + 1 .. j THEN v[k - 1] ELSE v[k]
  BY <1>2, <1>3, RotatedIs, SMTT(20)
<1>7. Rearranged(h, s, t, lo, hi, left, right)
  <2>1. i \in lo .. Len(s) /\ j \in 1 .. hi
    BY <1>2, <1>3
  <2>2. h = Moved(left, right, s[j - 1], s[i], s[j])
    BY <1>3
  <2> HIDE DEF h, t, s
  <2>3. QED
    BY <1>2, <1>3, <2>1, <2>2, Moving DEF t, s
<1> HIDE DEF h, t, w
<1>8. /\ Heap(node') /\ DOMAIN node' = DOMAIN node /\ Linked(node', t)
      /\ \A q \in DOMAIN node : node'[q].value = node[q].value
      /\ \A q \in DOMAIN node : (\A k \in 1 .. Len(s) : q # s[k]) => node'[q] = node[q]
  BY <1>1, <1>7 DEF Rearranged
<1>9. /\ list' = [y \in DOMAIN list |->
           [count |-> list[y].count,
            first |-> IF left = <<"first", y>> THEN t[lo] ELSE list[y].first,
            last |-> IF right = <<"last", y>> THEN t[hi] ELSE list[y].last]]
      /\ local' = [d \in DOMAIN local |->
           IF left = <<"local", d>> THEN t[lo]
           ELSE IF right = <<"local", d>> THEN t[hi] ELSE local[d]]
  BY <1>1, <1>7 DEF Rearranged
<1>10. \A k \in 1 .. Len(s) : \E c \in 1 .. Len(s) : t[k] = s[c] /\ w[k] = v[c]
  <2>1. \A k \in 1 .. Len(s) : k \in i + 1 .. j => k - 1 \in 1 .. Len(s)
    <3>1. Len(s) \in Nat /\ i \in 1 .. Len(s) /\ j \in 1 .. Len(s)
      BY <1>2, <1>3
    <3> HIDE DEF s
    <3>2. QED
      BY ONLY <3>1
  <2>2. QED
    BY <1>3, <1>5, <1>6, <2>1
<1>11. \A c \in 1 .. Len(s) : \E k \in 1 .. Len(s) : t[k] = s[c]
  <2> SUFFICES ASSUME NEW c \in 1 .. Len(s) PROVE \E k \in 1 .. Len(s) : t[k] = s[c]
    OBVIOUS
  <2>1. CASE c = j
    BY <1>3, <1>5, <2>1
  <2>2. CASE c \in i .. j - 1
    <3>1. c + 1 \in 1 .. Len(s) /\ c + 1 # i /\ c + 1 \in i + 1 .. j /\ (c + 1) - 1 = c
      <4>1. Len(s) \in Nat /\ i \in 1 .. Len(s) /\ j \in 1 .. Len(s)
        BY <1>2, <1>3
      <4> HIDE DEF s
      <4>2. QED
        BY ONLY <2>2, <4>1
    <3>2. QED
      BY <1>5, <3>1
  <2>3. CASE c # j /\ c \notin i .. j - 1
    <3>1. c # i /\ c \notin i + 1 .. j
      BY <1>2, <1>3, <2>3
    <3>2. QED
      BY <1>5, <3>1
  <2>4. QED
    BY <2>1, <2>2, <2>3
<1>12. OrderOK(t)
  <2>1. t \in Seq(Nodes)
    <3>1. \A k \in 1 .. Len(s) : t[k] \in Nodes
      <4>1. \A c \in 1 .. Len(s) : s[c] \in Nodes
        BY <1>2, AtIs
      <4>2. QED
        BY ONLY <1>10, <4>1
    <3>2. t = [k \in 1 .. Len(s) |-> t[k]]
      BY <1>2, <1>3 DEF t, Rotated
    <3>3. t \in [1 .. Len(s) -> Nodes]
      BY ONLY <3>1, <3>2
    <3>4. Len(s) \in Nat
      BY <1>2
    <3>5. QED
      BY ONLY <3>3, <3>4
  <2>2. ASSUME NEW a \in 1 .. Len(s), NEW b \in 1 .. Len(s), t[a] = t[b] PROVE a = b
    <3> DEFINE from(k) == IF k = i THEN j ELSE IF k \in i + 1 .. j THEN k - 1 ELSE k
    <3>1. \A k \in 1 .. Len(s) : from(k) \in 1 .. Len(s) /\ t[k] = s[from(k)]
      <4>1. \A k \in 1 .. Len(s) : k \in i + 1 .. j => k - 1 \in 1 .. Len(s)
        <5>1. Len(s) \in Nat /\ i \in 1 .. Len(s) /\ j \in 1 .. Len(s)
          BY <1>2, <1>3
        <5> HIDE DEF s
        <5>2. QED
          BY ONLY <5>1
      <4>2. QED
        BY <1>3, <1>5, <4>1
    <3>2. from(a) = from(b)
      <4>1. from(a) \in 1 .. Len(s) /\ from(b) \in 1 .. Len(s) /\ s[from(a)] = s[from(b)]
        BY <2>2, <3>1
      <4> HIDE DEF from
      <4>2. QED
        BY <1>2, <4>1 DEF OrderOK
    <3>3. QED
      BY <1>2, <1>3, <3>2, SMTT(20)
  <2>3. QED
    BY <1>5, <2>1, <2>2 DEF OrderOK
<1>13. Contents(x)' = w
  <2>1. Contents(x)' = [k \in 1 .. Len(t) |-> node'[t[k]].value]
    <3>1. order'[call'.list] = t /\ order'[x] = t
      BY <1>2, <1>4
    <3>2. QED
      BY <3>1 DEF Contents
  <2>2. \A k \in 1 .. Len(s) : node'[t[k]].value = w[k]
    <3> SUFFICES ASSUME NEW k \in 1 .. Len(s) PROVE node'[t[k]].value = w[k]
      OBVIOUS
    <3>1. PICK c \in 1 .. Len(s) : t[k] = s[c] /\ w[k] = v[c]
      BY <1>10
    <3>2. s[c] \in DOMAIN node
      BY <1>2 DEF Linked
    <3>3. QED
      BY <1>2, <1>8, <3>1, <3>2
  <2>3. w = [k \in 1 .. Len(s) |-> w[k]]
    BY <1>2, <1>3 DEF w, Rotated
  <2>4. QED
    BY <1>5, <2>1, <2>2, <2>3
<1>14. Abstract!SameValues(was, w) /\ Len(was) = Len(s)
  <2>1. Abstract!SameValues(was, v) /\ Len(was) = Len(s) /\ Len(v) = Len(was) /\ Len(was) \in Nat
    BY <1>2 DEF Sorting
  <2>2. i \in 1 .. Len(was) /\ j \in 1 .. Len(was) /\ i < j
    BY <1>3, <2>1
  <2>3. QED
    BY ONLY <2>1, <2>2, RotatedSame DEF w
<1>15. /\ list' = [y \in DOMAIN list |-> list'[y]] /\ list'[x] \in ListRecord
       /\ list'[x].count = list[x].count
       /\ \A y \in DOMAIN list : y # x => list'[y] = list[y]
       /\ list'[x] = [count |-> list[x].count,
                      first |-> IF left = <<"first", x>> THEN t[lo] ELSE list[x].first,
                      last |-> IF right = <<"last", x>> THEN t[hi] ELSE list[x].last]
  <2>1. /\ list' = [y \in DOMAIN list |-> list'[y]]
        /\ list'[x] = [count |-> list[x].count,
                       first |-> IF left = <<"first", x>> THEN t[lo] ELSE list[x].first,
                       last |-> IF right = <<"last", x>> THEN t[hi] ELSE list[x].last]
    BY <1>2, <1>9
  <2>2. list[x].count \in Nat /\ list[x].first \in Links /\ list[x].last \in Links /\ t[lo] \in Links /\ t[hi] \in Links
    BY <1>2, <1>5, <1>12 DEF ListRecord, OrderOK, Links
  <2>3. list'[x].count = list[x].count /\ list'[x] \in ListRecord
    BY <2>1, <2>2 DEF ListRecord
  <2>4. ASSUME NEW y \in DOMAIN list, y # x PROVE list'[y] = list[y]
    <3>1. left # <<"first", y>> /\ right # <<"last", y>>
      BY <2>4 DEF LeftCell, RightCell
    <3>2. list[y] = [count |-> list[y].count, first |-> list[y].first, last |-> list[y].last]
      BY <1>2 DEF ListRecord
    <3>3. QED
      BY <1>9, <3>1, <3>2
  <2>5. QED
    BY <2>1, <2>3, <2>4
<1>16. Base' /\ Sorting' /\ nodes' = t
  <2>1. /\ \A k \in 1 .. Len(nodes) : \E c \in 1 .. Len(nodes) : t[k] = nodes[c]
        /\ Len(t) = Len(nodes)
    BY <1>5, <1>10
  <2>2. Abstract!SameValues(was, Contents(call.list)')
    BY <1>13, <1>14
  <2>3. call # Idle /\ call' # Idle /\ call'.list = call.list /\ was' = was
    BY <1>1
  <2>4. QED
    BY ONLY IInv, Sorting, <1>4, <1>8, <1>11, <1>12, <1>14, <1>15, <2>1, <2>2, <2>3, WritesKeep
<1>17. values' = w
  BY <1>13 DEF values, Contents
<1>18. \A k \in 1 .. Len(s) : k < lo \/ hi < k => t[k] = s[k] /\ w[k] = v[k]
  <2>1. \A k \in 1 .. Len(s) : k < lo \/ hi < k => k # i /\ k \notin i + 1 .. j
    BY <1>2, <1>3
  <2>2. QED
    BY <1>5, <1>6, <2>1
<1>19. MergeAt(t, w, AfterRound(f), mid, lo, i + 1, j + 1, hi)
  <2>1. node[f.m].next = At(s, j + 1)
    BY <1>2, <1>3 DEF Linked
  <2>2. At(t, j + 1) = At(s, j + 1)
    <3>1. j + 1 \notin i + 1 .. j /\ j + 1 # i
      BY <1>3
    <3>2. QED
      BY <1>5, <3>1 DEF At
  <2>3. At(t, hi + 1) = At(s, hi + 1)
    <3>1. hi + 1 \notin i + 1 .. j /\ hi + 1 # i
      BY <1>3
    <3>2. QED
      BY <1>5, <3>1 DEF At
  <2>4. t[i + 1] = s[i] /\ t[j] = s[j - 1]
    <3>1. i + 1 \in 1 .. Len(s) /\ i + 1 \in i + 1 .. j /\ (i + 1) - 1 = i /\ i + 1 # i /\ j \in i + 1 .. j /\ j # i
      BY <1>2, <1>3, SMTT(20)
    <3>2. QED
      BY <1>3, <1>5, <3>1
  <2>5. AfterRound(f).l = f.l /\ AfterRound(f).m = node[f.m].next /\ AfterRound(f).end = f.end
    BY DEF AfterRound
  <2>6. /\ lo <= i + 1 /\ i + 1 <= j + 1 /\ i + 1 <= hi /\ lo < j + 1 /\ j + 1 <= hi + 1 /\ (j + 1) - 1 = j
    BY <1>2, <1>3, SMTT(20)
  <2>7. InMerge(w, lo, i + 1, j + 1, hi)
    <3>1. v[j] <= v[i]
      BY <1>2, <1>3 DEF Precedes, Numbers
    <3>2. 1 <= lo /\ hi <= Len(v) /\ lo \in Int /\ hi \in Int
      BY <1>2
    <3>3. QED
      BY <1>2, <1>3, <3>1, <3>2, MergeMoves DEF w
  <2>8. QED
    BY <1>3, <2>1, <2>2, <2>3, <2>4, <2>5, <2>6, <2>7 DEF MergeAt
<1>20. i + 1 \in lo .. hi + 1 /\ j + 1 \in lo .. hi + 1
  BY <1>2, <1>3, SMTT(20)
<1>21. OthersShown
  <2>1. \A y \in DOMAIN list : y # call.list => order'[y] = order[y]
    BY <1>2, <1>4
  <2>2. QED
    BY ONLY IInv, call # Idle, <1>2, <1>8, <2>1, OthersAreShown
<1>22. MergedTo(f, left, right, mid, lo, hi, t, w)
  BY <1>5, <1>6, <1>9, <1>15, <1>16, <1>17, <1>18, <1>19, <1>20, <1>21 DEF MergedTo
<1>23. QED
  BY <1>22 DEF t, w

\* One round of a merge, whichever way it goes.
LEMMA MergeRoundIs ==
    ASSUME IInv, Sorting, call # Idle, call' # Idle, call'.list = call.list,
           NEW f, NEW left, NEW right, NEW mid, MergeRound(f, left, right, mid), Merging(f),
           NEW lo \in 1 .. Len(nodes), NEW hi \in 1 .. Len(nodes), NEW i \in Int, NEW j \in Int,
           MergeAt(nodes, values, f, mid, lo, i, j, hi),
           local \in [DOMAIN local -> Links], left # right,
           LeftCell(left, call.list, lo), RightCell(right, call.list, hi),
           "l" \in DOMAIN f, "m" \in DOMAIN f
    PROVE  \E t, w : MergedTo(f, left, right, mid, lo, hi, t, w)
<1>1. CASE Precedes(f)
  <2>1. MergedTo(f, left, right, mid, lo, hi, nodes, values)
    BY <1>1, MergePrecedes
  <2>2. QED
    BY <2>1
<1>2. CASE ~Precedes(f)
  <2>1. MergedTo(f, left, right, mid, lo, hi, Rotated(nodes, i, j), Rotated(values, i, j))
    BY <1>2, MergeFollows
  <2>2. QED
    BY <2>1
<1>3. QED
  BY <1>1, <1>2

-----------------------------------------------------------------------------
(* Runs of w values. *)

\* Multiples of the width of a run.
LEMMA Multiples ==
    ASSUME NEW w \in Nat \ {0}
    PROVE  /\ Multiple(0, w)
           /\ \A c \in Nat : Multiple(c, w) => Multiple(c + w, w)
           /\ \A c \in Nat : Multiple(c, 2 * w) => Multiple(c, w)
           /\ \A c, e \in Nat : Multiple(c, w) /\ Multiple(e, w) /\ c < e => c + w <= e
<1>1. Multiple(0, w)
  <2>1. 0 = 0 * w
    OBVIOUS
  <2>2. QED
    BY <2>1 DEF Multiple
<1>2. ASSUME NEW c \in Nat, Multiple(c, w) PROVE Multiple(c + w, w)
  <2>1. PICK q \in Nat : c = q * w
    BY <1>2 DEF Multiple
  <2>2. c + w = (q + 1) * w /\ q + 1 \in Nat
    BY <2>1
  <2>3. QED
    BY <2>2 DEF Multiple
<1>3. ASSUME NEW c \in Nat, Multiple(c, 2 * w) PROVE Multiple(c, w)
  <2>1. PICK q \in Nat : c = q * (2 * w)
    BY <1>3 DEF Multiple
  <2>2. c = (2 * q) * w /\ 2 * q \in Nat
    BY <2>1
  <2>3. QED
    BY <2>2 DEF Multiple
<1>4. ASSUME NEW c \in Nat, NEW e \in Nat, Multiple(c, w), Multiple(e, w), c < e PROVE c + w <= e
  <2>1. PICK p \in Nat : c = p * w
    BY <1>4 DEF Multiple
  <2>2. PICK q \in Nat : e = q * w
    BY <1>4 DEF Multiple
  <2>3. p < q
    <3>1. CASE q <= p
      <4>1. (p - q) * w >= 0 /\ p * w = q * w + (p - q) * w
        BY <3>1
      <4>2. QED
        BY <1>4, <2>1, <2>2, <4>1
    <3>2. QED
      BY <3>1
  <2>4. (q - p - 1) * w >= 0
    BY <2>3
  <2>5. q * w = p * w + w + (q - p - 1) * w
    OBVIOUS
  <2>6. QED
    BY <2>1, <2>2, <2>4, <2>5
<1>5. QED
  BY <1>1, <1>2, <1>3, <1>4

\* The i-th pair of runs starts at 2 * w * i.
LEMMA PairBase ==
    ASSUME NEW w \in Nat \ {0}, NEW i \in Nat
    PROVE  /\ 2 * w * i \in Nat /\ 2 * w * (i + 1) = 2 * w * i + 2 * w /\ 2 * w * 0 = 0
           /\ Multiple(2 * w * i, 2 * w) /\ Multiple(2 * w * i, w) /\ Multiple(2 * w * i + w, w)
           /\ i = 0 => 2 * w * i = 0
<1>1. 2 * w * i \in Nat /\ 2 * w * (i + 1) = 2 * w * i + 2 * w /\ 2 * w * 0 = 0
  OBVIOUS
<1>2. Multiple(2 * w * i, 2 * w)
  <2>1. 2 * w * i = i * (2 * w)
    OBVIOUS
  <2>2. QED
    BY <2>1 DEF Multiple
<1>3. QED
  BY <1>1, <1>2, Multiples

\* How many pairs of runs there are.
LEMMA PairsAre ==
    ASSUME NEW w \in Nat \ {0}, NEW i \in Nat, NEW n \in Nat
    PROVE  i < (n + w - 1) \div (w * 2) <=> 2 * w * i + w < n
<1> DEFINE d == w * 2
           m == n + w - 1
           q == m \div d
<1>1. d \in Nat /\ d > 0 /\ m \in Nat
  OBVIOUS
<1> HIDE DEF d, m
<1>2. q \in Int /\ q * d <= m /\ m < (q + 1) * d
  BY <1>1
<1> HIDE DEF q
<1>3. 2 * w * i + w < n <=> (i + 1) * d <= m
  BY DEF d, m
<1>4. i < q => (i + 1) * d <= m
  <2> SUFFICES ASSUME i < q PROVE (i + 1) * d <= m
    OBVIOUS
  <2>1. (q - (i + 1)) * d >= 0 /\ q * d = (i + 1) * d + (q - (i + 1)) * d
    BY <1>1, <1>2
  <2>2. QED
    BY <1>1, <1>2, <2>1
<1>5. q <= i => m < (i + 1) * d
  <2> SUFFICES ASSUME q <= i PROVE m < (i + 1) * d
    OBVIOUS
  <2>1. ((i + 1) - (q + 1)) * d >= 0 /\ (i + 1) * d = (q + 1) * d + ((i + 1) - (q + 1)) * d
    BY <1>1, <1>2
  <2>2. QED
    BY <1>1, <1>2, <2>1
<1>6. i < q <=> 2 * w * i + w < n
  BY <1>1, <1>2, <1>3, <1>4, <1>5
<1>7. QED
  BY <1>6 DEF q, d, m

\* The smaller of two numbers.
LEMMA MinIs ==
    ASSUME NEW a \in Int, NEW b \in Int
    PROVE  /\ MinOf(a, b) \in Int /\ MinOf(a, b) <= a /\ MinOf(a, b) <= b
           /\ MinOf(a, b) = a \/ MinOf(a, b) = b
           /\ a <= b => MinOf(a, b) = a
           /\ b <= a => MinOf(a, b) = b
BY DEF MinOf

\* A single value is an ordered run.
LEMMA RunsAtFirst ==
    ASSUME NEW v, Len(v) \in Nat
    PROVE  Runs(v, 1, 0, 0)
<1>1. ASSUME NEW c \in Nat PROVE Ordered(v, c + 1, MinOf(c + 1, Len(v)))
  <2>1. MinOf(c + 1, Len(v)) <= c + 1 /\ MinOf(c + 1, Len(v)) \in Int
    BY MinIs
  <2>2. QED
    BY <2>1 DEF Ordered
<1>2. QED
  BY <1>1 DEF Runs

\* The pair after base is merged.
LEMMA RunsExtend ==
    ASSUME NEW v, Len(v) \in Nat, NEW w \in Nat \ {0}, NEW base \in Nat, Multiple(base, 2 * w),
           Runs(v, w, base, base + 2 * w), Ordered(v, base + 1, MinOf(base + 2 * w, Len(v)))
    PROVE  Runs(v, w, base + 2 * w, base + 2 * w)
<1>1. ASSUME NEW c \in Nat, Multiple(c, 2 * w), c < base + 2 * w
      PROVE  Ordered(v, c + 1, MinOf(c + 2 * w, Len(v)))
  <2>1. CASE c < base
    BY <1>1, <2>1 DEF Runs
  <2>2. CASE c = base
    BY <2>2
  <2>3. CASE base < c
    <3>1. 2 * w \in Nat \ {0}
      OBVIOUS
    <3>2. base + 2 * w <= c
      BY <1>1, <2>3, <3>1, Multiples
    <3>3. QED
      BY <1>1, <3>2
  <2>4. QED
    BY <2>1, <2>2, <2>3
<1>2. QED
  BY <1>1 DEF Runs

\* The round is over.
LEMMA RunsDouble ==
    ASSUME NEW v, Len(v) \in Nat, NEW w \in Nat \ {0}, NEW base \in Nat, Multiple(base, 2 * w),
           Runs(v, w, base, base), Len(v) <= base + w
    PROVE  Runs(v, 2 * w, 0, 0)
<1>1. ASSUME NEW c \in Nat, Multiple(c, 2 * w)
      PROVE  Ordered(v, c + 1, MinOf(c + 2 * w, Len(v)))
  <2>1. CASE c < base
    BY <1>1, <2>1 DEF Runs
  <2>2. CASE base <= c
    <3>1. Multiple(c, w)
      BY <1>1, Multiples
    <3>2. Ordered(v, c + 1, MinOf(c + w, Len(v)))
      BY <2>2, <3>1 DEF Runs
    <3>3. MinOf(c + w, Len(v)) = MinOf(c + 2 * w, Len(v))
      BY <2>2 DEF MinOf
    <3>4. QED
      BY <3>2, <3>3
  <2>3. QED
    BY <2>1, <2>2
<1>2. QED
  BY <1>1 DEF Runs

\* A merge of the pair after base disturbs no other run.
LEMMA RunsStay ==
    ASSUME NEW v, NEW u, Len(v) \in Nat, Len(u) = Len(v), NEW w \in Nat \ {0}, NEW base \in Nat, Multiple(base, 2 * w),
           Runs(v, w, base, base + 2 * w),
           \A k \in 1 .. Len(v) : k < base + 1 \/ MinOf(base + 2 * w, Len(v)) < k => u[k] = v[k]
    PROVE  Runs(u, w, base, base + 2 * w)
<1>1. ASSUME NEW c \in Nat, Multiple(c, 2 * w), c < base
      PROVE  Ordered(u, c + 1, MinOf(c + 2 * w, Len(u)))
  <2>1. 2 * w \in Nat \ {0}
    OBVIOUS
  <2>2. c + 2 * w <= base
    BY <1>1, <2>1, Multiples
  <2>3. Ordered(v, c + 1, MinOf(c + 2 * w, Len(v)))
    BY <1>1 DEF Runs
  <2>4. \A k \in c + 1 .. MinOf(c + 2 * w, Len(v)) : k \in 1 .. Len(v) /\ k < base + 1
    <3> DEFINE e == MinOf(c + 2 * w, Len(v))
    <3>1. e \in Int /\ e <= c + 2 * w /\ e <= Len(v)
      BY DEF MinOf
    <3> HIDE DEF e
    <3>2. \A k \in c + 1 .. e : k \in 1 .. Len(v) /\ k < base + 1
      BY <2>2, <3>1
    <3>3. QED
      BY <3>2 DEF e
  <2>5. QED
    BY <2>3, <2>4 DEF Ordered
<1>2. ASSUME NEW c \in Nat, Multiple(c, w), base + 2 * w <= c
      PROVE  Ordered(u, c + 1, MinOf(c + w, Len(u)))
  <2>1. Ordered(v, c + 1, MinOf(c + w, Len(v)))
    BY <1>2 DEF Runs
  <2>2. \A k \in c + 1 .. MinOf(c + w, Len(v)) : k \in 1 .. Len(v) /\ MinOf(base + 2 * w, Len(v)) < k
    <3> DEFINE e == MinOf(c + w, Len(v))
               d == MinOf(base + 2 * w, Len(v))
    <3>1. e \in Int /\ e <= Len(v) /\ d \in Int /\ d <= base + 2 * w
      BY DEF MinOf
    <3> HIDE DEF e, d
    <3>2. \A k \in c + 1 .. e : k \in 1 .. Len(v) /\ d < k
      BY <1>2, <3>1
    <3>3. QED
      BY <3>2 DEF e, d
  <2>3. QED
    BY <2>1, <2>2 DEF Ordered
<1>3. QED
  BY <1>1, <1>2 DEF Runs

-----------------------------------------------------------------------------
(* List_sort_from_bottom_to_top. *)

\* What is known while List_sort_from_bottom_to_top runs.
LEMMA InBottom ==
    ASSUME IInv, call.fn = "List_sort_from_bottom_to_top"
    PROVE  /\ Sorting /\ call \in BottomUpCall /\ call # Idle
           /\ local = << local[1], local[2] >> /\ local[1] \in Links /\ local[2] \in Links
           /\ call.step \in Nat \ {0} /\ call.i \in Nat /\ call.k \in Nat
           /\ BottomUpAt(call, nodes, values, local[1], local[2], 2 * call.step * call.i)
           /\ list[call.list].count = Len(nodes)
           /\ call.at # "merge" => list[call.list] = EndsOf(nodes)
<1>1. BottomUpOK
  BY Running
<1>2. Sorting /\ call \in BottomUpCall /\ list[call.list].count = Len(nodes)
  BY <1>1 DEF BottomUpOK, Sorting
<1>3. call # Idle
  BY DEF Idle
<1>4. PICK l \in Links, r \in Links :
        /\ local = << l, r >>
        /\ BottomUpAt(call, nodes, values, l, r, 2 * call.step * call.i)
  BY <1>1 DEF BottomUpOK
<1>5. local[1] = l /\ local[2] = r
  BY <1>4
<1>6. call.at # "merge" => list[call.list] = EndsOf(nodes)
  <2> SUFFICES ASSUME call.at # "merge" PROVE list[call.list] = EndsOf(nodes)
    OBVIOUS
  <2>1. list[call.list].first = At(nodes, 1) /\ list[call.list].last = At(nodes, Len(nodes))
    BY <1>1 DEF BottomUpOK
  <2>2. list[call.list] \in ListRecord
    BY <1>2 DEF IInv, Base, Sorting
  <2>3. QED
    BY <1>2, <2>1, <2>2 DEF ListRecord, EndsOf
<1>7. call.step \in Nat \ {0} /\ call.i \in Nat /\ call.k \in Nat
  BY <1>2 DEF BottomUpCall
<1>8. QED
  BY <1>2, <1>3, <1>4, <1>5, <1>6, <1>7

\* The link of a node that is not the last.
LEMMA NextIs ==
    ASSUME IInv, Sorting
    PROVE  /\ \A k \in 1 .. Len(nodes) : nodes[k] \in Links /\ nodes[k] # NULL
           /\ \A k \in 1 .. Len(nodes) : node[nodes[k]].next = At(nodes, k + 1)
           /\ \A k \in 1 .. Len(nodes) : k < Len(nodes) => node[nodes[k]].next = nodes[k + 1]
           /\ \A k, m \in 1 .. Len(nodes) : nodes[k] = nodes[m] <=> k = m
<1>1. OrderOK(nodes) /\ Linked(node, nodes) /\ Len(nodes) \in Nat
  BY NodesAre
<1>2. \A k \in 1 .. Len(nodes) : nodes[k] \in Links /\ nodes[k] # NULL
  BY <1>1, AtIs DEF Links
<1>3. \A k \in 1 .. Len(nodes) : node[nodes[k]].next = At(nodes, k + 1)
  BY <1>1 DEF Linked
<1>4. \A k \in 1 .. Len(nodes) : k < Len(nodes) => At(nodes, k + 1) = nodes[k + 1]
  BY <1>1 DEF At
<1>5. \A k, m \in 1 .. Len(nodes) : nodes[k] = nodes[m] <=> k = m
  BY <1>1 DEF OrderOK
<1>6. QED
  BY <1>2, <1>3, <1>4, <1>5

BottomUpRecord(d) ==
    [fn |-> d.fn, list |-> d.list, at |-> d.at, step |-> d.step, i |-> d.i, k |-> d.k, mid |-> d.mid,
     l |-> d.l, m |-> d.m, end |-> d.end, isFirst |-> d.isFirst, isLast |-> d.isLast]

\* A step that only moves the variables.
LEMMA WalkKeeps ==
    ASSUME IInv, call.fn = "List_sort_from_bottom_to_top", call.at # "merge", Moves, call' \in BottomUpCall, call'.list = call.list,
           NEW l \in Links, NEW r \in Links, local' = << l, r >>,
           BottomUpAt(call', nodes, values, l, r, 2 * call'.step * call'.i)
    PROVE  IInv'
<1>1. Sorting /\ call # Idle /\ list[call.list] = EndsOf(nodes)
  BY InBottom
<1>2. call' # Idle
  BY NotCalls
<1>3. Base' /\ Sorting' /\ nodes' = nodes /\ values' = values /\ list' = list
  BY <1>1, <1>2, MovesKeep
<1>4. BottomUpOK'
  BY <1>1, <1>3 DEF BottomUpOK, EndsOf
<1>5. QED
  BY <1>3, <1>4 DEF IInv, CallOK

\* It starts with runs of one value.
LEMMA BottomUpBegins ==
    ASSUME IInv, NEW x \in DOMAIN list, List_sort_from_bottom_to_top(x)
    PROVE  IInv'
<1> DEFINE c == [fn |-> "List_sort_from_bottom_to_top", list |-> x, at |-> "round", step |-> 1, i |-> 0, k |-> 0,
                 mid |-> NULL, l |-> NULL, m |-> NULL, end |-> NULL,
                 isFirst |-> FALSE, isLast |-> FALSE]
<1>1. Begins(x, c, <<NULL, NULL>>) /\ c # Idle /\ c.list = x
  BY DEF List_sort_from_bottom_to_top, Idle
<1>2. /\ Base' /\ Sorting' /\ call' = c /\ local' = <<NULL, NULL>>
      /\ nodes' = order[x] /\ values' = Contents(x) /\ node' = node /\ list' = list /\ order' = order
      /\ list[x] = EndsOf(order[x]) /\ OrderOK(order[x])
  BY <1>1, BeginsKeeps
<1>3. call' \in BottomUpCall
  <2>1. x \in Lists /\ NULL \in Links
    BY <1>2 DEF Base, Links
  <2>2. QED
    BY <1>2, <2>1 DEF BottomUpCall
<1>4. Len(Contents(x)) \in Nat
  <2>1. Len(order[x]) \in Nat
    BY <1>2, AtIs
  <2>2. QED
    BY <2>1 DEF Contents
<1>5. Runs(Contents(x), 1, 0, 0)
  BY <1>4, RunsAtFirst
<1>6. c.at = "round" /\ c.step = 1 /\ c.list = x /\ call'.list = x
  BY <1>2
<1> HIDE DEF c
<1>7. BottomUpAt(c, order[x], Contents(x), NULL, NULL, 2 * c.step * c.i)
  BY <1>5, <1>6 DEF BottomUpAt
<1>8. BottomUpOK'
  <2>1. NULL \in Links
    BY DEF Links
  <2>2. list'[call'.list].first = At(nodes', 1) /\ list'[call'.list].last = At(nodes', Len(nodes'))
    BY <1>2, <1>6 DEF EndsOf
  <2>3. QED
    BY <1>2, <1>3, <1>7, <2>1, <2>2 DEF BottomUpOK
<1>9. QED
  BY <1>2, <1>8 DEF IInv, CallOK

\* A record with the fields of this function is one of its states.
LEMMA BottomUpTyped ==
    ASSUME NEW d, d = BottomUpRecord(d), d.fn = "List_sort_from_bottom_to_top", d.list \in Lists,
           d.at \in {"round", "mid", "right", "pair", "merge", "next", "nextmid"},
           d.step \in Nat \ {0}, d.i \in Nat, d.k \in Nat, d.mid \in Links,
           d.l \in Links, d.m \in Links, d.end \in Links, d.isFirst \in BOOLEAN, d.isLast \in BOOLEAN
    PROVE  d \in BottomUpCall
<1>1. BottomUpRecord(d) \in BottomUpCall
  BY DEF BottomUpRecord, BottomUpCall
<1>2. QED
  BY <1>1

\* A round starts at the first pair, with its walk to the end of the left run.
LEMMA RoundStartsKeeps ==
    ASSUME IInv, RoundStarts
    PROVE  IInv'
<1> DEFINE s == nodes
           v == values
           w == call.step
           n == Len(s)
<1>1. /\ call.fn = "List_sort_from_bottom_to_top" /\ call.at = "round" /\ w < list[call.list].count /\ Moves
      /\ call' = [call EXCEPT !.at = "mid", !.i = 0, !.k = 0, !.mid = list[call.list].first]
      /\ local' = <<list[call.list].first, list[call.list].first>>
  BY DEF RoundStarts, InBottomUp
<1>2. /\ Sorting /\ call \in BottomUpCall /\ w \in Nat \ {0} /\ list[call.list] = EndsOf(s)
      /\ BottomUpAt(call, s, v, local[1], local[2], 2 * w * call.i) /\ list[call.list].count = n
  BY <1>1, InBottom
<1>3. n \in Nat /\ 1 \in 1 .. n /\ w < n
  BY <1>1, <1>2, NodesAre
<1>4. list[call.list].first = s[1] /\ s[1] \in Links
  BY <1>2, <1>3, NextIs DEF EndsOf, At
<1>5. /\ call'.at = "mid" /\ call'.i = 0 /\ call'.k = 0 /\ call'.mid = s[1] /\ call'.step = w /\ call'.list = call.list
      /\ call' \in BottomUpCall
  <2>1. /\ call'.at = "mid" /\ call'.i = 0 /\ call'.k = 0 /\ call'.mid = s[1] /\ call'.step = w /\ call'.list = call.list
        /\ call'.fn = call.fn /\ call'.l = call.l /\ call'.m = call.m /\ call'.end = call.end
        /\ call'.isFirst = call.isFirst /\ call'.isLast = call.isLast
    BY <1>1, <1>2, <1>4 DEF BottomUpCall
  <2>2. call' = BottomUpRecord(call')
    BY <1>1, <1>2 DEF BottomUpCall, BottomUpRecord
  <2>3. /\ call.fn = "List_sort_from_bottom_to_top" /\ call.list \in Lists /\ call.l \in Links /\ call.m \in Links /\ call.end \in Links
        /\ call.isFirst \in BOOLEAN /\ call.isLast \in BOOLEAN
    BY <1>2 DEF BottomUpCall
  <2>4. QED
    BY <1>2, <1>4, <2>1, <2>2, <2>3, BottomUpTyped
<1>6. Runs(v, w, 0, 0)
  BY <1>1, <1>2 DEF BottomUpAt
<1>7. BottomUpAt(call', s, v, s[1], s[1], 2 * call'.step * call'.i)
  <2>1. call'.k + 1 = 1 /\ call'.k < w
    BY <1>2, <1>5
  <2>2. QED
    BY <1>3, <1>5, <1>6, <2>1 DEF BottomUpAt
<1>8. local' = << s[1], s[1] >>
  BY <1>1, <1>4
<1>9. QED
  BY <1>1, <1>4, <1>5, <1>7, <1>8, WalkKeeps

\* One node of that walk,
LEMMA WalkMidKeeps ==
    ASSUME IInv, WalkMid
    PROVE  IInv'
<1> DEFINE s == nodes
           v == values
           w == call.step
           k == call.k
           n == Len(s)
<1>1. call.fn = "List_sort_from_bottom_to_top" /\ call.at = "mid" /\ Moves
  BY DEF WalkMid, InBottomUp
<1>2. /\ Sorting /\ call \in BottomUpCall /\ w \in Nat \ {0} /\ list[call.list] = EndsOf(s)
      /\ local = << local[1], local[2] >>
      /\ k \in Nat /\ BottomUpAt(call, s, v, local[1], local[2], 2 * w * call.i)
  BY <1>1, InBottom
<1>3. /\ Runs(v, w, 0, 0) /\ call.i = 0 /\ w < n /\ k < w
      /\ local[1] = s[1] /\ call.mid = s[k + 1] /\ local[2] = s[k + 1]
  BY <1>1, <1>2 DEF BottomUpAt
<1>4. /\ n \in Nat /\ 1 \in 1 .. n /\ k + 1 \in 1 .. n /\ k + 1 < n /\ k + 2 \in 1 .. n /\ (k + 1) + 1 = k + 2
  <2>1. n \in Nat
    BY <1>2, NodesAre
  <2>2. QED
    BY <1>2, <1>3, <2>1, SMTT(20)
<1>5. /\ s[1] \in Links /\ s[k + 1] \in Links /\ s[k + 2] \in Links /\ node[s[k + 1]].next = s[k + 2]
  BY <1>2, <1>4, NextIs
<1>6. /\ call.fn = "List_sort_from_bottom_to_top" /\ call.list \in Lists /\ call.l \in Links /\ call.m \in Links /\ call.end \in Links
      /\ call.isFirst \in BOOLEAN /\ call.isLast \in BOOLEAN
  BY <1>2 DEF BottomUpCall
<1>7. CASE k < w - 1
  <2>1. /\ call' = [call EXCEPT !.k = @ + 1, !.mid = node[@].next]
        /\ local' = [local EXCEPT ![2] = node[@].next]
    BY <1>7 DEF WalkMid
  <2>2. /\ call'.at = "mid" /\ call'.i = 0 /\ call'.k = k + 1 /\ call'.mid = s[k + 2] /\ call'.step = w
        /\ call'.list = call.list
        /\ call'.fn = call.fn /\ call'.l = call.l /\ call'.m = call.m /\ call'.end = call.end
        /\ call'.isFirst = call.isFirst /\ call'.isLast = call.isLast
    BY <1>1, <1>2, <1>3, <1>5, <2>1 DEF BottomUpCall
  <2>3. call' = BottomUpRecord(call')
    BY <1>2, <2>1 DEF BottomUpCall, BottomUpRecord
  <2>4. call' \in BottomUpCall
    BY <1>2, <1>5, <1>6, <2>2, <2>3, BottomUpTyped
  <2>5. local' = << s[1], s[k + 2] >>
    <3>1. local = << s[1], s[k + 1] >>
      BY <1>2, <1>3
    <3>2. local' = [<< s[1], s[k + 1] >> EXCEPT ![2] = s[k + 2]]
      BY <1>3, <1>5, <2>1, <3>1
    <3>3. QED
      BY ONLY <3>2
  <2>6. BottomUpAt(call', s, v, s[1], s[k + 2], 2 * call'.step * call'.i)
    <3>1. call'.k + 1 = k + 2 /\ call'.k < w
      BY <1>2, <1>7, <2>2
    <3>2. QED
      BY <1>3, <2>2, <3>1 DEF BottomUpAt
  <2>7. QED
    BY <1>1, <1>5, <2>2, <2>4, <2>5, <2>6, WalkKeeps
<1>8. CASE ~(k < w - 1)
  <2>1. call' = [call EXCEPT !.at = "right", !.k = 0] /\ local' = local
    BY <1>8 DEF WalkMid
  <2>2. /\ call'.at = "right" /\ call'.i = 0 /\ call'.k = 0 /\ call'.mid = s[k + 1] /\ call'.step = w
        /\ call'.list = call.list
        /\ call'.fn = call.fn /\ call'.l = call.l /\ call'.m = call.m /\ call'.end = call.end
        /\ call'.isFirst = call.isFirst /\ call'.isLast = call.isLast
    BY <1>1, <1>2, <1>3, <2>1 DEF BottomUpCall
  <2>3. call' = BottomUpRecord(call')
    BY <1>2, <2>1 DEF BottomUpCall, BottomUpRecord
  <2>4. call' \in BottomUpCall
    BY <1>2, <1>5, <1>6, <2>2, <2>3, BottomUpTyped
  <2>5. local' = << s[1], s[w] >> /\ k + 1 = w /\ s[w] \in Links
    <3>1. k + 1 = w
      BY <1>2, <1>3, <1>8
    <3>2. QED
      BY <1>2, <1>3, <1>5, <2>1, <3>1
  <2>6. BottomUpAt(call', s, v, s[1], s[w], 2 * call'.step * call'.i)
    <3>1. MinOf(w + call'.k, n) = w /\ call'.k <= w
      BY <1>2, <1>3, <2>2 DEF MinOf
    <3>2. QED
      BY <1>3, <2>2, <2>5, <3>1 DEF BottomUpAt
  <2>7. QED
    BY <1>1, <1>5, <2>2, <2>4, <2>5, <2>6, WalkKeeps
<1>9. QED
  BY <1>7, <1>8

\* and one of the walk to the end of the right run.
LEMMA WalkRightKeeps ==
    ASSUME IInv, WalkRight
    PROVE  IInv'
<1> DEFINE s == nodes
           v == values
           w == call.step
           k == call.k
           n == Len(s)
           g == MinOf(w + k, n)
<1>1. call.fn = "List_sort_from_bottom_to_top" /\ call.at = "right" /\ Moves
  BY DEF WalkRight, InBottomUp
<1>2. /\ Sorting /\ call \in BottomUpCall /\ w \in Nat \ {0} /\ list[call.list] = EndsOf(s)
      /\ local = << local[1], local[2] >> /\ local[1] \in Links /\ local[2] \in Links
      /\ k \in Nat /\ BottomUpAt(call, s, v, local[1], local[2], 2 * w * call.i)
  BY <1>1, InBottom
<1>3. /\ Runs(v, w, 0, 0) /\ call.i = 0 /\ w < n /\ k <= w
      /\ local[1] = s[1] /\ call.mid = s[w] /\ local[2] = s[g]
  BY <1>1, <1>2 DEF BottomUpAt
<1>4. n \in Nat /\ n \in 1 .. n /\ g \in 1 .. n /\ w \in 1 .. n /\ (g = n \/ (g = w + k /\ w + k < n))
  <2>1. n \in Nat
    BY <1>2, NodesAre
  <2>2. n \in 1 .. n /\ w \in 1 .. n
    BY <1>2, <1>3, <2>1
  <2>3. g \in 1 .. n /\ (g = n \/ (g = w + k /\ w + k < n))
    BY <1>2, <1>3, <2>1 DEF MinOf
  <2>4. QED
    BY <2>1, <2>2, <2>3
<1>5. list[call.list].last = s[n]
  BY <1>2, <1>4 DEF EndsOf, At
<1>6. /\ call.fn = "List_sort_from_bottom_to_top" /\ call.list \in Lists /\ call.l \in Links /\ call.m \in Links /\ call.end \in Links
      /\ call.isFirst \in BOOLEAN /\ call.isLast \in BOOLEAN /\ call.mid \in Links
  BY <1>2 DEF BottomUpCall
<1> HIDE DEF g
<1>7. local[2] # list[call.list].last <=> g # n
  <2>1. s[g] = s[n] <=> g = n
    BY <1>2, <1>4, NextIs
  <2>2. QED
    BY <1>3, <1>5, <2>1
<1>8. CASE k < w /\ local[2] # list[call.list].last
  <2>0. g = w + k /\ w + k < n /\ g < n /\ g + 1 \in 1 .. n /\ (w + k) + 1 = g + 1 /\ w + (k + 1) = g + 1 /\ w + k + 1 <= n
    BY <1>2, <1>4, <1>7, <1>8
  <2>1. /\ call' = [call EXCEPT !.k = @ + 1] /\ local' = [local EXCEPT ![2] = NextOfRight]
    BY <1>8 DEF WalkRight
  <2>2. NextOfRight = s[g + 1] /\ s[g + 1] \in Links
    <3>1. NextOfRight = node[local[2]].next
      BY <1>8 DEF NextOfRight
    <3>2. node[s[g]].next = s[g + 1]
      BY <1>2, <1>4, <2>0, NextIs
    <3>3. s[g + 1] \in Links
      BY <1>2, <2>0, NextIs
    <3>4. QED
      BY <1>3, <3>1, <3>2, <3>3
  <2>3. /\ call'.at = "right" /\ call'.i = 0 /\ call'.k = k + 1 /\ call'.mid = call.mid /\ call'.step = w
        /\ call'.list = call.list
        /\ call'.fn = call.fn /\ call'.l = call.l /\ call'.m = call.m /\ call'.end = call.end
        /\ call'.isFirst = call.isFirst /\ call'.isLast = call.isLast
    BY <1>1, <1>2, <1>3, <2>1 DEF BottomUpCall
  <2>4. call' = BottomUpRecord(call')
    BY <1>2, <2>1 DEF BottomUpCall, BottomUpRecord
  <2>5. call' \in BottomUpCall
    BY <1>2, <1>6, <2>3, <2>4, BottomUpTyped
  <2>6. local' = << local[1], s[g + 1] >>
    BY <1>2, <2>1, <2>2
  <2>7. BottomUpAt(call', s, v, local[1], s[g + 1], 2 * call'.step * call'.i)
    <3>1. MinOf(w + call'.k, n) = g + 1 /\ call'.k <= w
      BY <1>2, <1>4, <1>8, <2>0, <2>3 DEF MinOf
    <3>2. QED
      BY <1>3, <2>3, <3>1 DEF BottomUpAt
  <2>8. QED
    BY <1>1, <1>2, <2>2, <2>3, <2>5, <2>6, <2>7, WalkKeeps
<1>9. CASE ~(k < w /\ local[2] # list[call.list].last)
  <2>1. call' = [call EXCEPT !.at = "pair"] /\ local' = local
    BY <1>9 DEF WalkRight
  <2>2. /\ call'.at = "pair" /\ call'.i = 0 /\ call'.k = k /\ call'.mid = s[w] /\ call'.step = w
        /\ call'.list = call.list
        /\ call'.fn = call.fn /\ call'.l = call.l /\ call'.m = call.m /\ call'.end = call.end
        /\ call'.isFirst = call.isFirst /\ call'.isLast = call.isLast
    BY <1>1, <1>2, <1>3, <2>1 DEF BottomUpCall
  <2>3. call' = BottomUpRecord(call')
    BY <1>2, <2>1 DEF BottomUpCall, BottomUpRecord
  <2>4. call' \in BottomUpCall
    BY <1>2, <1>3, <1>6, <2>2, <2>3, BottomUpTyped
  <2>5. BottomUpAt(call', s, v, local[1], local[2], 2 * call'.step * call'.i)
    <3>1. 2 * call'.step * call'.i = 0
      BY <1>2, <2>2
    <3>2. MinOf(0 + 2 * w, n) = g
      <4>1. g = MinOf(w + k, n) /\ (k = w \/ g = n)
        BY <1>2, <1>3, <1>7, <1>9 DEF g
      <4>2. QED
        BY <1>2, <1>3, <1>4, <4>1 DEF MinOf
    <3>3. 0 + 1 = 1 /\ 0 + w = w
      BY <1>2
    <3>4. BottomUpAt(call', s, v, local[1], local[2], 0)
      BY <1>3, <2>2, <3>2, <3>3 DEF BottomUpAt
    <3>5. QED
      BY <3>1, <3>4
  <2>6. local' = << local[1], local[2] >>
    BY <1>2, <2>1
  <2>7. QED
    BY <1>1, <1>2, <2>2, <2>4, <2>5, <2>6, WalkKeeps
<1>10. QED
  BY <1>8, <1>9

\* The call of __List_merge with the two runs.
LEMMA MergePairKeeps ==
    ASSUME IInv, MergePair
    PROVE  IInv'
<1> DEFINE s == nodes
           v == values
           w == call.step
           n == Len(s)
           base == 2 * w * call.i
           hi == MinOf(base + 2 * w, n)
           l == local[1]
           r == local[2]
<1>1. /\ call.fn = "List_sort_from_bottom_to_top" /\ call.at = "pair" /\ call.i < pairs /\ Moves /\ local' = local
      /\ call' = [MergeStart(call, l_, r_, call.mid) EXCEPT
                    !.isFirst = l = list[call.list].first, !.isLast = r = list[call.list].last]
  BY DEF MergePair, InBottomUp
<1>2. /\ Sorting /\ call \in BottomUpCall /\ w \in Nat \ {0} /\ call.i \in Nat /\ list[call.list] = EndsOf(s)
      /\ local = << l, r >> /\ l \in Links /\ r \in Links
      /\ BottomUpAt(call, s, v, l, r, base) /\ list[call.list].count = n
  BY <1>1, InBottom
<1>3. n \in Nat /\ OrderOK(s) /\ Len(v) = n
  BY <1>2, NodesAre
<1>4. base + w < n
  BY <1>1, <1>2, <1>3, PairsAre DEF pairs
<1>5. base \in Nat /\ Multiple(base, w) /\ Multiple(base + w, w) /\ (call.i = 0 => base = 0)
  <2>1. w \in Nat \ {0} /\ call.i \in Nat
    BY <1>2
  <2> HIDE DEF w
  <2>2. QED
    BY ONLY <2>1, PairBase
<1>6. base = 2 * call'.step * call'.i /\ call'.step = w /\ call'.i = call.i /\ call'.list = call.list /\ call'.at = "merge"
  BY <1>1, <1>2 DEF MergeStart, BottomUpCall
<1> HIDE DEF base
<1>7. Runs(v, w, base, base) /\ l = s[base + 1] /\ call.mid = s[base + w] /\ r = s[hi]
  BY <1>1, <1>2, <1>4 DEF BottomUpAt
<1>8. /\ base + 1 \in 1 .. n /\ base + w \in 1 .. n /\ hi \in 1 .. n /\ base + w < hi /\ n \in 1 .. n /\ 1 \in 1 .. n
      /\ base + w + 1 \in 1 .. n /\ hi <= base + 2 * w /\ w \in Int /\ w >= 1
  BY <1>2, <1>3, <1>4, <1>5, SMTT(20) DEF MinOf
<1>9. list[call.list].first = s[1] /\ list[call.list].last = s[n]
  BY <1>2, <1>8 DEF EndsOf, At
<1>10. /\ (l = list[call.list].first <=> base = 0) /\ (r = list[call.list].last <=> hi = n)
  <2>1. l = s[1] <=> base + 1 = 1
    BY <1>2, <1>7, <1>8, NextIs
  <2>2. r = s[n] <=> hi = n
    BY <1>2, <1>7, <1>8, NextIs
  <2>3. QED
    BY <1>5, <1>9, <2>1, <2>2
<1>11. Read(Memory, l_) = l /\ Read(Memory, r_) = r
  BY DEF Read, Memory, l_, r_
<1>12. node[call.mid].next = s[base + w + 1] /\ node[r].next = At(s, hi + 1) /\ s[base + w + 1] \in Links
       /\ At(s, hi + 1) \in Links
  <2>1. node[s[base + w]].next = s[base + w + 1]
    BY <1>2, <1>4, <1>8, NextIs
  <2>2. node[s[hi]].next = At(s, hi + 1)
    BY <1>2, <1>8, NextIs
  <2>3. s[base + w + 1] \in Links
    BY <1>2, <1>8, NextIs
  <2>4. hi + 1 \in Int
    BY <1>8
  <2>5. At(s, hi + 1) \in Links
    BY <1>3, <2>4, AtIs
  <2>6. QED
    BY <1>7, <2>1, <2>2, <2>3, <2>5
<1> HIDE DEF hi
<1>13. /\ call'.mid = call.mid /\ call'.k = call.k /\ call'.l = l /\ call'.m = s[base + w + 1] /\ call'.end = At(s, hi + 1)
       /\ (call'.isFirst <=> base = 0) /\ (call'.isLast <=> hi = n)
       /\ call' \in BottomUpCall
  <2>1. /\ call'.fn = call.fn /\ call'.mid = call.mid /\ call'.k = call.k /\ call'.l = l
        /\ call'.m = s[base + w + 1] /\ call'.end = At(s, hi + 1)
    BY <1>1, <1>2, <1>11, <1>12 DEF MergeStart, BottomUpCall
  <2>2. /\ call'.isFirst = (l = list[call.list].first) /\ call'.isLast = (r = list[call.list].last)
    BY <1>1, <1>2 DEF MergeStart, BottomUpCall
  <2>3. call' = BottomUpRecord(call')
    BY <1>1, <1>2 DEF BottomUpCall, BottomUpRecord, MergeStart
  <2>4. call.list \in Lists /\ call.mid \in Links /\ call.k \in Nat
    BY <1>2 DEF BottomUpCall
  <2>5. call'.isFirst \in BOOLEAN /\ call'.isLast \in BOOLEAN
    BY <2>2
  <2>6. call' \in BottomUpCall
    <3>1. /\ call'.fn = "List_sort_from_bottom_to_top" /\ call'.list \in Lists /\ call'.at = "merge" /\ call'.step \in Nat \ {0}
          /\ call'.i \in Nat /\ call'.k \in Nat /\ call'.mid \in Links
          /\ call'.l \in Links /\ call'.m \in Links /\ call'.end \in Links
      BY <1>1, <1>2, <1>6, <1>12, <2>1, <2>4
    <3>2. QED
      BY ONLY <2>3, <2>5, <3>1, BottomUpTyped
  <2>7. QED
    BY <1>10, <2>1, <2>2, <2>6
<1>14. InMerge(v, base + 1, base + 1, base + w + 1, hi)
  <2>1. Ordered(v, base + 1, base + w)
    <3>1. Ordered(v, base + 1, MinOf(base + w, Len(v)))
      BY <1>5, <1>7 DEF Runs
    <3>2. MinOf(base + w, Len(v)) = base + w
      <4>1. base + w <= Len(v)
        BY <1>2, <1>3, <1>4, <1>5
      <4>2. QED
        BY <4>1 DEF MinOf
    <3>3. QED
      BY <3>1, <3>2
  <2>2. Ordered(v, base + w + 1, hi)
    <3>1. base + w \in Nat /\ base <= base + w
      BY <1>2, <1>5
    <3>2. Ordered(v, base + w + 1, MinOf(base + w + w, Len(v)))
      BY <1>5, <1>7, <3>1 DEF Runs
    <3>3. base + w + w = base + 2 * w
      BY <1>2, <1>5
    <3>4. QED
      BY <1>3, <3>2, <3>3 DEF hi
  <2>3. base + 1 \in Int /\ base + w \in Int /\ hi \in Int
    BY <1>8
  <2>4. QED
    BY <2>1, <2>2, <2>3, MergeStarts
<1>15. MergeAt(s, v, call', call'.mid, base + 1, base + 1, base + w + 1, hi)
  <2>1. (base + w + 1) - 1 = base + w /\ base + 1 <= base + 1 /\ base + 1 <= base + w + 1 /\ base + 1 <= hi
        /\ base + 1 < base + w + 1 /\ base + w + 1 <= hi + 1
    BY <1>5, <1>8
  <2>2. s[base + w + 1] = At(s, base + w + 1)
    BY <1>8 DEF At
  <2>3. QED
    <3>1. /\ call'.l = s[base + 1] /\ call'.m = At(s, base + w + 1) /\ call'.mid = s[(base + w + 1) - 1]
          /\ call'.end = At(s, hi + 1)
      BY <1>7, <1>13, <2>1, <2>2
    <3>2. PICK lo, j : lo = base + 1 /\ j = base + w + 1
      OBVIOUS
    <3>3. lo <= lo /\ lo <= j /\ lo <= hi /\ lo < j /\ j <= hi + 1
      BY <2>1, <3>2
    <3>4. call'.l = s[lo] /\ call'.m = At(s, j) /\ call'.mid = s[j - 1] /\ call'.end = At(s, hi + 1)
      BY <3>1, <3>2
    <3>5. InMerge(v, lo, lo, j, hi)
      BY <1>14, <3>2
    <3>6. MergeAt(s, v, call', call'.mid, lo, lo, j, hi)
      BY ONLY <3>3, <3>4, <3>5 DEF MergeAt
    <3>7. QED
      BY <3>2, <3>6
<1>16. BottomUpAt(call', s, v, l, r, base)
  <2>1. base + 1 \in 1 .. hi + 1 /\ base + w + 1 \in 1 .. hi + 1
    BY <1>5, <1>8
  <2>2. Runs(v, w, base, base + 2 * w)
    <3>1. \A c \in Nat : base + 2 * w <= c => base <= c
      BY <1>2, <1>5
    <3>2. QED
      BY <1>7, <3>1 DEF Runs
  <2>3. QED
    BY <1>4, <1>6, <1>7, <1>13, <1>15, <2>1, <2>2 DEF BottomUpAt, hi
<1>17. QED
  BY <1>1, <1>2, <1>6, <1>13, <1>16, WalkKeeps

\* One round of that merge.
LEMMA MergeRoundOfPairKeeps ==
    ASSUME IInv, MergeRoundOfPair
    PROVE  IInv' /\ OthersShown /\ DOMAIN list' = DOMAIN list
<1> DEFINE s == nodes
           v == values
           x == call.list
           w == call.step
           n == Len(s)
           base == 2 * w * call.i
           hi == MinOf(base + 2 * w, n)
           l == local[1]
           r == local[2]
<1>1. /\ call.fn = "List_sort_from_bottom_to_top" /\ call.at = "merge" /\ Merging(call)
      /\ MergeRound(call, l_, r_, call.mid) /\ call' = AfterRound(call)
  BY DEF MergeRoundOfPair, Merging
<1>2. /\ Sorting /\ call \in BottomUpCall /\ w \in Nat \ {0} /\ call.i \in Nat /\ call # Idle
      /\ local = << l, r >> /\ l \in Links /\ r \in Links
      /\ BottomUpAt(call, s, v, l, r, base) /\ list[x].count = n
  BY <1>1, InBottom
<1>3. n \in Nat /\ OrderOK(s) /\ Len(v) = n /\ Linked(node, s) /\ Heap(node)
  BY <1>2, NodesAre
<1>4. base \in Nat /\ Multiple(base, 2 * w)
  BY <1>2, PairBase
<1> HIDE DEF base
<1>5. /\ Runs(v, w, base, base + 2 * w) /\ base + w < n
      /\ l = s[base + 1] /\ r = s[hi] /\ (call.isFirst <=> base = 0) /\ (call.isLast <=> hi = n)
      /\ \E i, j \in 1 .. hi + 1 : MergeAt(s, v, call, call.mid, base + 1, i, j, hi)
  BY <1>1, <1>2 DEF BottomUpAt
<1>6. base + 1 \in 1 .. n /\ hi \in 1 .. n /\ base + 1 <= hi /\ w \in Int /\ n \in 1 .. n /\ 1 \in 1 .. n
  <2>1. base \in Nat /\ n \in Nat /\ w \in Nat \ {0} /\ base + w < n
    BY <1>2, <1>3, <1>4, <1>5
  <2>2. (hi = base + 2 * w /\ base + 2 * w <= n) \/ (hi = n /\ ~(base + 2 * w <= n))
    BY DEF MinOf
  <2> HIDE DEF w, n, hi
  <2>3. QED
    BY <2>1, <2>2
<1>7. hi = MinOf(base + 2 * w, n)
  OBVIOUS
<1> HIDE DEF hi
<1>8. PICK i \in 1 .. hi + 1, j \in 1 .. hi + 1 : MergeAt(s, v, call, call.mid, base + 1, i, j, hi)
  BY <1>5
<1>9. i \in Int /\ j \in Int
  BY <1>6
<1>10. call.l \in Links /\ call.m \in Links /\ call.l # NULL /\ call.m # NULL
       /\ call.l \in DOMAIN node /\ call.m \in DOMAIN node
  <2>1. /\ i \in 1 .. n /\ j \in 1 .. n /\ call.l = s[i] /\ call.m = s[j]
    BY <1>1, <1>3, <1>6, <1>8, <1>9, MergingAt DEF Merging
  <2>2. QED
    BY <1>2, <1>3, <2>1, NextIs DEF Linked
<1>11. node[call.l].next \in Links /\ node[call.m].next \in Links
  BY <1>3, <1>10 DEF Heap, NodeRecord
<1>12. /\ call'.fn = "List_sort_from_bottom_to_top" /\ call'.list = x /\ call'.at = "merge" /\ call'.step = w /\ call'.i = call.i
       /\ call'.mid = call.mid /\ call'.isFirst = call.isFirst /\ call'.isLast = call.isLast
       /\ call' \in BottomUpCall /\ call' # Idle
  <2>1. /\ call'.fn = call.fn /\ call'.list = x /\ call'.at = "merge" /\ call'.step = w /\ call'.i = call.i
        /\ call'.k = call.k /\ call'.end = call.end
        /\ call'.mid = call.mid /\ call'.isFirst = call.isFirst /\ call'.isLast = call.isLast
    BY <1>1, <1>2 DEF AfterRound, BottomUpCall
  <2>2. call'.l \in Links /\ call'.m \in Links
    BY <1>1, <1>2, <1>10, <1>11 DEF AfterRound, BottomUpCall
  <2>3. call' = BottomUpRecord(call')
    <3>1. CASE Precedes(call)
      BY <1>1, <1>2, <3>1 DEF AfterRound, BottomUpCall, BottomUpRecord
    <3>2. CASE ~Precedes(call)
      BY <1>1, <1>2, <3>2 DEF AfterRound, BottomUpCall, BottomUpRecord
    <3>3. QED
      BY <3>1, <3>2
  <2>4. call.list \in Lists /\ call.mid \in Links /\ call.k \in Nat /\ call.end \in Links
        /\ call.isFirst \in BOOLEAN /\ call.isLast \in BOOLEAN
    BY <1>2 DEF BottomUpCall
  <2>5. call' \in BottomUpCall
    BY <1>1, <1>2, <2>1, <2>2, <2>3, <2>4, BottomUpTyped
  <2>6. QED
    BY <1>1, <2>1, <2>5, NotCalls
<1>13. /\ local \in [DOMAIN local -> Links] /\ DOMAIN local = {1, 2}
       /\ LeftCell(l_, x, base + 1) /\ RightCell(r_, x, hi) /\ l_ # r_
  <2>1. DOMAIN local = {1, 2} /\ local \in [DOMAIN local -> Links]
    BY <1>2
  <2>2. s = order[x]
    BY DEF nodes
  <2>3. QED
    BY <1>5, <2>1, <2>2 DEF LeftCell, RightCell, l_, r_
<1>14. PICK t, u : MergedTo(call, l_, r_, call.mid, base + 1, hi, t, u)
  <2>1. "l" \in DOMAIN call /\ "m" \in DOMAIN call
    BY <1>2 DEF BottomUpCall
  <2>2. QED
    BY <1>1, <1>2, <1>6, <1>8, <1>9, <1>12, <1>13, <2>1, MergeRoundIs
<1>15. /\ Base' /\ Sorting' /\ nodes' = t /\ values' = u
       /\ Len(t) = n /\ Len(u) = n
       /\ \A k \in 1 .. n : k < base + 1 \/ hi < k => t[k] = s[k] /\ u[k] = v[k]
       /\ \E a, b \in base + 1 .. hi + 1 : MergeAt(t, u, call', call.mid, base + 1, a, b, hi)
  BY <1>1, <1>14 DEF MergedTo
<1>16. list'[x] = list[x]
  <2>1. l_ # <<"first", x>> /\ r_ # <<"last", x>>
    BY DEF l_, r_
  <2>2. list[x] \in ListRecord
    BY <1>2 DEF Sorting, IInv, Base
  <2>3. list[x] = [count |-> list[x].count, first |-> list[x].first, last |-> list[x].last]
    BY <2>2 DEF ListRecord
  <2>4. QED
    BY <1>14, <2>1, <2>3 DEF MergedTo
<1>17. local' = << t[base + 1], t[hi] >>
  <2>1. local' = [d \in {1, 2} |-> IF l_ = <<"local", d>> THEN t[base + 1]
                                   ELSE IF r_ = <<"local", d>> THEN t[hi] ELSE local[d]]
    BY <1>13, <1>14 DEF MergedTo
  <2>2. local' = [d \in {1, 2} |-> IF d = 1 THEN t[base + 1] ELSE t[hi]]
    BY <2>1 DEF l_, r_
  <2>3. QED
    BY <2>2
<1>18. t[base + 1] \in Links /\ t[hi] \in Links
  <2>1. OrderOK(t) /\ Len(t) = n
    BY <1>15 DEF Base, Sorting, nodes
  <2>2. QED
    BY <1>6, <2>1, AtIs DEF Links
<1>19. Runs(u, w, base, base + 2 * w)
  <2>1. \A k \in 1 .. Len(v) : k < base + 1 \/ MinOf(base + 2 * w, Len(v)) < k => u[k] = v[k]
    BY <1>3, <1>7, <1>15
  <2>2. QED
    <3>1. Len(v) \in Nat /\ Len(u) = Len(v) /\ w \in Nat \ {0} /\ base \in Nat /\ Multiple(base, 2 * w)
          /\ Runs(v, w, base, base + 2 * w)
      BY <1>2, <1>3, <1>4, <1>5, <1>15
    <3> HIDE DEF v, w
    <3>2. QED
      BY ONLY <2>1, <3>1, RunsStay
<1>20. BottomUpAt(call', t, u, t[base + 1], t[hi], base)
  <2>1. \E a, b \in 1 .. hi + 1 : MergeAt(t, u, call', call'.mid, base + 1, a, b, hi)
    <3>1. \A a \in base + 1 .. hi + 1 : a \in 1 .. hi + 1
      BY <1>4, <1>6
    <3>2. QED
      BY <1>12, <1>15, <3>1
  <2>2. QED
    BY <1>5, <1>7, <1>12, <1>15, <1>19, <2>1 DEF BottomUpAt
<1>21. /\ list'[x].first = At(t, 1) \/ call.isFirst
       /\ list'[x].last = At(t, n) \/ call.isLast
  <2>1. BottomUpOK
    BY <1>1, Running
  <2>2. list[x].first = At(s, 1) \/ call.isFirst
    BY <2>1 DEF BottomUpOK
  <2>3. list[x].last = At(s, n) \/ call.isLast
    BY <2>1 DEF BottomUpOK
  <2>4. ~call.isFirst => At(t, 1) = At(s, 1)
    <3>1. base # 0 => 1 < base + 1
      BY <1>4
    <3>2. QED
      BY <1>5, <1>6, <1>15, <3>1 DEF At
  <2>5. ~call.isLast => At(t, n) = At(s, n)
    <3>1. hi # n => hi < n
      BY <1>6
    <3>2. QED
      BY <1>5, <1>6, <1>15, <3>1 DEF At
  <2>6. QED
    BY <1>16, <2>2, <2>3, <2>4, <2>5
<1>22. BottomUpOK'
  <2>1. base = 2 * call'.step * call'.i
    BY <1>12 DEF base
  <2>2. QED
    BY <1>12, <1>15, <1>17, <1>18, <1>20, <1>21, <2>1 DEF BottomUpOK
<1>23. OthersShown /\ DOMAIN list' = DOMAIN list
  BY <1>14 DEF MergedTo
<1>24. QED
  BY <1>15, <1>22, <1>23 DEF IInv, CallOK

\* The number of pairs is an integer.
LEMMA PairsType ==
    ASSUME NEW w \in Nat \ {0}, NEW n \in Nat
    PROVE  (n + w - 1) \div (w * 2) \in Int
<1> DEFINE d == w * 2
           m == n + w - 1
<1>1. d \in Nat /\ d > 0 /\ m \in Int
  OBVIOUS
<1> HIDE DEF d, m
<1>2. m \div d \in Int
  BY <1>1
<1>3. QED
  BY <1>2 DEF d, m

\* After the merge the pair is one run, and the walk goes on from its end.
LEMMA PairMergedKeeps ==
    ASSUME IInv, PairMerged
    PROVE  IInv'
<1> DEFINE s == nodes
           v == values
           x == call.list
           w == call.step
           n == Len(s)
           base == 2 * w * call.i
           hi == MinOf(base + 2 * w, n)
           l == local[1]
           r == local[2]
           first == IF call.isFirst THEN l ELSE list[x].first
           last == IF call.isLast THEN r ELSE list[x].last
<1>1. /\ call.fn = "List_sort_from_bottom_to_top" /\ call.at = "merge" /\ MergeEnds(call)
      /\ list' = [list EXCEPT ![x].first = IF call.isFirst THEN local[1] ELSE @,
                              ![x].last = IF call.isLast THEN local[2] ELSE @]
      /\ call' = IF call.i = pairs - 1 THEN [call EXCEPT !.at = "pair", !.i = @ + 1]
                 ELSE [call EXCEPT !.at = "next", !.k = 0]
      /\ node' = node /\ local' = local /\ order' = order /\ was' = was
  BY DEF PairMerged, MergeEnds
<1>2. /\ Sorting /\ call \in BottomUpCall /\ w \in Nat \ {0} /\ call.i \in Nat /\ call # Idle
      /\ local = << l, r >> /\ l \in Links /\ r \in Links
      /\ BottomUpAt(call, s, v, l, r, base) /\ list[x].count = n
  BY <1>1, InBottom
<1>3. /\ n \in Nat /\ OrderOK(s) /\ Len(v) = n /\ Linked(node, s) /\ Heap(node) /\ x \in DOMAIN list
      /\ list \in [DOMAIN list -> ListRecord] /\ order \in [DOMAIN list -> Seq(Nodes)] /\ s = order[x] /\ v = Contents(x)
  BY <1>2, NodesAre DEF IInv, Base
<1>4. base \in Nat /\ Multiple(base, 2 * w) /\ 2 * w * (call.i + 1) = base + 2 * w
  BY <1>2, PairBase
<1>5. call.i + 1 < pairs <=> base + 2 * w + w < n
  <2>1. call.i + 1 \in Nat
    BY <1>2
  <2>2. QED
    BY <1>2, <1>3, <1>4, <2>1, PairsAre DEF pairs
<1>6. call.i < pairs
  <2>1. base + w < n
    BY <1>1, <1>2 DEF BottomUpAt
  <2>2. QED
    BY <1>2, <1>3, <2>1, PairsAre DEF pairs
<1> HIDE DEF base
<1>7. /\ Runs(v, w, base, base + 2 * w) /\ base + w < n
      /\ l = s[base + 1] /\ r = s[hi] /\ (call.isFirst <=> base = 0) /\ (call.isLast <=> hi = n)
      /\ \E i, j \in 1 .. hi + 1 : MergeAt(s, v, call, call.mid, base + 1, i, j, hi)
  BY <1>1, <1>2 DEF BottomUpAt
<1>8. base + 1 \in 1 .. n /\ hi \in 1 .. n /\ base + 1 <= hi /\ w \in Int /\ n \in 1 .. n /\ 1 \in 1 .. n
  <2>1. base \in Nat /\ n \in Nat /\ w \in Nat \ {0} /\ base + w < n
    BY <1>2, <1>3, <1>4, <1>7
  <2>2. hi = base + 2 * w \/ hi = n
    BY DEF MinOf
  <2>3. hi <= n
    BY <2>1 DEF MinOf
  <2> HIDE DEF hi, n, w
  <2>4. QED
    BY <2>1, <2>2, <2>3
<1>9. hi = MinOf(base + 2 * w, n)
  OBVIOUS
<1> HIDE DEF hi
<1>10. Ordered(v, base + 1, hi)
  <2>1. PICK i \in 1 .. hi + 1, j \in 1 .. hi + 1 : MergeAt(s, v, call, call.mid, base + 1, i, j, hi)
    BY <1>7
  <2>2. /\ i <= j /\ i <= hi /\ base + 1 <= i /\ j <= hi + 1 /\ call.l = s[i] /\ call.m = At(s, j) /\ call.end = At(s, hi + 1)
        /\ InMerge(v, base + 1, i, j, hi) /\ base + 1 < j
    BY <2>1 DEF MergeAt
  <2>3. i \in Int /\ j \in Int /\ i \in 1 .. n /\ hi \in Int /\ base + 1 \in Int
    BY <1>8, <2>2
  <2>4. i = j \/ j = hi + 1
    <3>1. CASE j \in 1 .. n
      <4>1. At(s, j) = s[j] /\ s[j] # NULL /\ s[i] # NULL
        BY <1>2, <2>3, <3>1, NextIs DEF At
      <4>2. CASE hi + 1 \in 1 .. n
        BY <1>1, <1>2, <2>2, <2>3, <3>1, <4>1, <4>2, NextIs DEF MergeEnds, At
      <4>3. CASE hi + 1 \notin 1 .. n
        BY <1>1, <1>2, <2>2, <2>3, <3>1, <4>1, <4>3, NextIs DEF MergeEnds, At
      <4>4. QED
        BY <4>2, <4>3
    <3>2. CASE j \notin 1 .. n
      BY <1>8, <2>2, <2>3, <3>2
    <3>3. QED
      BY <3>1, <3>2
  <2>5. QED
    BY <2>2, <2>3, <2>4, MergeIsDone
<1>11. Runs(v, w, base + 2 * w, base + 2 * w)
  BY <1>2, <1>3, <1>4, <1>7, <1>9, <1>10, RunsExtend
<1>12. first = At(s, 1) /\ last = At(s, n)
  <2>1. BottomUpOK
    BY <1>1, Running
  <2>2. list[x].first = At(s, 1) \/ call.isFirst
    BY <2>1 DEF BottomUpOK
  <2>3. list[x].last = At(s, n) \/ call.isLast
    BY <2>1 DEF BottomUpOK
  <2>4. call.isFirst => l = At(s, 1)
    BY <1>7, <1>8 DEF At
  <2>5. call.isLast => r = At(s, n)
    BY <1>7, <1>8 DEF At
  <2>6. QED
    BY <2>2, <2>3, <2>4, <2>5
<1>13. /\ list' = [y \in DOMAIN list |-> list'[y]] /\ list'[x] = EndsOf(s)
       /\ \A y \in DOMAIN list : y # x => list'[y] = list[y]
  <2>1. list[x] = [count |-> list[x].count, first |-> list[x].first, last |-> list[x].last]
    BY <1>3 DEF ListRecord
  <2>2. /\ list' = [y \in DOMAIN list |-> list'[y]]
        /\ list'[x] = [list[x] EXCEPT !.first = first, !.last = last]
        /\ \A y \in DOMAIN list : y # x => list'[y] = list[y]
    BY <1>1, <1>3
  <2>3. [list[x] EXCEPT !.first = first, !.last = last] = [count |-> list[x].count, first |-> first, last |-> last]
    <3>1. PICK e : e = list[x] /\ e \in ListRecord
      BY <1>3
    <3>2. first \in Links /\ last \in Links
      BY <1>2, <3>1 DEF ListRecord
    <3> HIDE DEF first, last
    <3> DEFINE f == [e EXCEPT !.first = first, !.last = last]
    <3>3. f.count = e.count /\ f.first = first /\ f.last = last /\ f \in ListRecord
      BY <3>1, <3>2 DEF ListRecord
    <3> HIDE DEF f
    <3>4. f = [count |-> f.count, first |-> f.first, last |-> f.last]
      BY <3>3 DEF ListRecord
    <3>5. f = [count |-> e.count, first |-> first, last |-> last]
      BY <3>3, <3>4
    <3>6. [e EXCEPT !.first = first, !.last = last] = [count |-> e.count, first |-> first, last |-> last]
      BY <3>5 DEF f
    <3>7. QED
      BY <3>1, <3>6
  <2>4. QED
    BY <1>2, <1>12, <2>2, <2>3 DEF EndsOf
<1> HIDE DEF first, last
<1>14. call'.list = x /\ call'.step = w /\ call' \in BottomUpCall /\ call' # Idle /\ call'.mid = call.mid
  <2>1. /\ call'.fn = call.fn /\ call'.list = x /\ call'.at \in {"pair", "next"} /\ call'.step = w
        /\ call'.i \in Nat /\ call'.k \in Nat /\ call'.mid = call.mid
        /\ call'.l = call.l /\ call'.m = call.m /\ call'.end = call.end
        /\ call'.isFirst = call.isFirst /\ call'.isLast = call.isLast
    <3>1. call.k \in Nat /\ call.i + 1 \in Nat /\ 0 \in Nat
      BY <1>2 DEF BottomUpCall
    <3>2. CASE call.i = pairs - 1
      BY <1>1, <1>2, <3>1, <3>2 DEF BottomUpCall
    <3>3. CASE call.i # pairs - 1
      BY <1>1, <1>2, <3>1, <3>3 DEF BottomUpCall
    <3>4. QED
      BY <3>2, <3>3
  <2>2. call' = BottomUpRecord(call')
    <3>1. CASE call.i = pairs - 1
      BY <1>1, <1>2, <3>1 DEF BottomUpCall, BottomUpRecord
    <3>2. CASE call.i # pairs - 1
      BY <1>1, <1>2, <3>2 DEF BottomUpCall, BottomUpRecord
    <3>3. QED
      BY <3>1, <3>2
  <2>3. /\ call.fn = "List_sort_from_bottom_to_top" /\ call.list \in Lists /\ call.l \in Links /\ call.m \in Links /\ call.end \in Links
        /\ call.isFirst \in BOOLEAN /\ call.isLast \in BOOLEAN /\ call.mid \in Links
    BY <1>2 DEF BottomUpCall
  <2>4. call' \in BottomUpCall
    <3>1. /\ call'.fn = "List_sort_from_bottom_to_top" /\ call'.list \in Lists
          /\ call'.at \in {"round", "mid", "right", "pair", "merge", "next", "nextmid"} /\ call'.step \in Nat \ {0}
          /\ call'.i \in Nat /\ call'.k \in Nat /\ call'.mid \in Links
          /\ call'.l \in Links /\ call'.m \in Links /\ call'.end \in Links
          /\ call'.isFirst \in BOOLEAN /\ call'.isLast \in BOOLEAN
      BY <1>2, <2>1, <2>3
    <3>2. QED
      BY ONLY <2>2, <3>1, BottomUpTyped
  <2>5. QED
    BY <2>1, <2>4, NotCalls
<1>15. Base' /\ Sorting' /\ nodes' = s
  <2>1. order' = [order EXCEPT ![call.list] = s]
    BY <1>1, <1>3
  <2>2. /\ list'[call.list] \in ListRecord /\ list'[call.list].count = list[call.list].count
    BY <1>2, <1>3, <1>13, EndsType DEF EndsOf
  <2>3. /\ \A k \in 1 .. Len(nodes) : \E c \in 1 .. Len(nodes) : s[k] = nodes[c]
        /\ \A c \in 1 .. Len(nodes) : \E k \in 1 .. Len(nodes) : s[k] = nodes[c]
    OBVIOUS
  <2>4. Contents(call.list)' = values
    BY <1>1, <1>3, <1>14 DEF Contents
  <2>5. Abstract!SameValues(was, Contents(call.list)') /\ Len(was) = Len(nodes)
    <3>1. Abstract!SameValues(was, values) /\ Len(was) = Len(nodes)
      BY <1>2 DEF Sorting
    <3>2. QED
      BY ONLY <2>4, <3>1
  <2>6. /\ Heap(node') /\ DOMAIN node' = DOMAIN node /\ Linked(node', s) /\ Len(s) = Len(nodes)
        /\ \A q \in DOMAIN node : (\A k \in 1 .. Len(nodes) : q # nodes[k]) => node'[q] = node[q]
    BY <1>1, <1>3
  <2>7. call'.list = call.list /\ call' # Idle /\ call # Idle
    BY <1>2, <1>14
  <2>8. QED
    BY ONLY IInv, <1>1, <1>2, <1>3, <1>13, <2>1, <2>2, <2>3, <2>5, <2>6, <2>7, WritesKeep
<1>16. values' = v
  BY <1>1, <1>3, <1>14 DEF values, Contents
<1>17. BottomUpAt(call', s, v, l, r, 2 * call'.step * call'.i)
  <2>1. CASE call.i = pairs - 1
    <3>1. call'.at = "pair" /\ call'.i = call.i + 1
      BY <1>1, <1>2, <2>1 DEF BottomUpCall
    <3>2. 2 * call'.step * call'.i = base + 2 * w
      BY <1>4, <1>14, <3>1
    <3>3. ~(base + 2 * w + w < n)
      <4>1. pairs \in Int
        BY <1>2, <1>3, PairsType DEF pairs
      <4>2. ~(call.i + 1 < pairs)
        BY <1>2, <2>1, <4>1
      <4>3. QED
        BY <1>5, <4>2
    <3>4. BottomUpAt(call', s, v, l, r, base + 2 * w)
      BY <1>11, <1>14, <3>1, <3>3 DEF BottomUpAt
    <3>5. QED
      BY <3>2, <3>4
  <2>2. CASE call.i # pairs - 1
    <3>1. call'.at = "next" /\ call'.i = call.i /\ call'.k = 0
      BY <1>1, <1>2, <2>2 DEF BottomUpCall
    <3>2. 2 * call'.step * call'.i = base
      BY <1>14, <3>1 DEF base
    <3>3. base + 2 * w + w < n
      <4>1. pairs \in Int
        BY <1>2, <1>3, PairsType DEF pairs
      <4>2. call.i + 1 < pairs
        BY <1>2, <1>6, <2>2, <4>1
      <4>3. QED
        BY <1>5, <4>2
    <3>4. base + 3 * w < n /\ base + 1 + 0 = base + 1 /\ MinOf(base + 2 * w + 0, n) = hi /\ 0 <= 2 * w
      BY <1>2, <1>3, <1>4, <1>9, <3>3
    <3>5. BottomUpAt(call', s, v, l, r, base)
      BY <1>7, <1>11, <1>14, <3>1, <3>4 DEF BottomUpAt
    <3>6. QED
      BY <3>2, <3>5
  <2>3. QED
    BY <2>1, <2>2
<1>18. BottomUpOK'
  <2>1. local' = << l, r >>
    BY <1>1, <1>2
  <2>2. list'[call'.list].first = At(nodes', 1) /\ list'[call'.list].last = At(nodes', Len(nodes'))
    BY <1>13, <1>14, <1>15 DEF EndsOf
  <2>3. QED
    BY <1>2, <1>14, <1>15, <1>16, <1>17, <2>1, <2>2 DEF BottomUpOK
<1>19. QED
  BY <1>15, <1>18 DEF IInv, CallOK

\* One node of the walk to the next pair,
LEMMA WalkNextKeeps ==
    ASSUME IInv, WalkNext
    PROVE  IInv'
<1> DEFINE s == nodes
           v == values
           w == call.step
           k == call.k
           n == Len(s)
           base == 2 * w * call.i
           l == local[1]
           r == local[2]
           g == MinOf(base + 2 * w + k, n)
<1>1. call.fn = "List_sort_from_bottom_to_top" /\ call.at = "next" /\ Moves
  BY DEF WalkNext, InBottomUp
<1>2. /\ Sorting /\ call \in BottomUpCall /\ w \in Nat \ {0} /\ k \in Nat /\ call.i \in Nat /\ list[call.list] = EndsOf(s)
      /\ local = << l, r >> /\ l \in Links /\ r \in Links
      /\ BottomUpAt(call, s, v, l, r, base)
  BY <1>1, InBottom
<1>3. n \in Nat /\ base \in Nat
  BY <1>2, NodesAre, PairBase
<1> HIDE DEF base
<1>4. /\ Runs(v, w, base + 2 * w, base + 2 * w) /\ base + 3 * w < n /\ k <= 2 * w
      /\ l = s[base + 1 + k] /\ r = s[g]
  BY <1>1, <1>2 DEF BottomUpAt
<1>5. /\ base + 1 + k \in 1 .. n /\ base + 1 + k < n /\ base + 1 + k + 1 \in 1 .. n /\ g \in 1 .. n /\ n \in 1 .. n
      /\ (g = n \/ (g < n /\ g = base + 2 * w + k))
  <2>1. w \in Nat \ {0} /\ k \in Nat /\ base \in Nat /\ n \in Nat /\ base + 3 * w < n /\ k <= 2 * w
    BY <1>2, <1>3, <1>4
  <2>2. (g = base + 2 * w + k /\ base + 2 * w + k <= n) \/ (g = n /\ ~(base + 2 * w + k <= n))
    BY DEF MinOf
  <2> HIDE DEF w, k, n, g
  <2>3. base + 1 + k < n
    BY <2>1
  <2>4. QED
    BY <2>1, <2>2, <2>3
<1>6. g = MinOf(base + 2 * w + k, n)
  OBVIOUS
<1> HIDE DEF g
<1>7. node[l].next = s[base + 1 + k + 1] /\ s[base + 1 + k + 1] \in Links
  <2>1. node[s[base + 1 + k]].next = s[base + 1 + k + 1]
    BY <1>2, <1>5, NextIs
  <2>2. s[base + 1 + k + 1] \in Links
    BY <1>2, <1>5, NextIs
  <2>3. QED
    BY <1>4, <2>1, <2>2
<1>8. list[call.list].last = s[n] /\ (r # list[call.list].last <=> g # n)
  <2>1. list[call.list].last = s[n]
    BY <1>2, <1>5 DEF EndsOf, At
  <2>2. s[g] = s[n] <=> g = n
    BY <1>2, <1>5, NextIs
  <2>3. QED
    BY <1>4, <2>1, <2>2
<1>9. NextOfRight = s[MinOf(base + 2 * w + (k + 1), n)] /\ NextOfRight \in Links
  <2>1. CASE g = n
    <3>1. NextOfRight = r
      BY <1>8, <2>1 DEF NextOfRight
    <3>2. MinOf(base + 2 * w + (k + 1), n) = n
      BY <1>2, <1>3, <1>6, <2>1 DEF MinOf
    <3>3. QED
      BY <1>2, <1>4, <2>1, <3>1, <3>2
  <2>2. CASE g # n
    <3>1. g < n /\ g = base + 2 * w + k /\ g + 1 \in 1 .. n
      BY <1>3, <1>5, <2>2
    <3>2. MinOf(base + 2 * w + (k + 1), n) = g + 1
      <4>1. /\ w \in Nat /\ k \in Nat /\ base \in Nat /\ n \in Nat
            /\ g = base + 2 * w + k /\ g + 1 <= n
        BY <1>2, <1>3, <3>1
      <4> HIDE DEF w, k, n
      <4>2. base + 2 * w + (k + 1) = g + 1
        BY <4>1
      <4>3. QED
        BY <4>1, <4>2 DEF MinOf
    <3>3. NextOfRight = node[r].next
      BY <1>8, <2>2 DEF NextOfRight
    <3>4. node[s[g]].next = s[g + 1]
      BY <1>2, <1>5, <3>1, NextIs
    <3>5. s[g + 1] \in Links
      BY <1>2, <3>1, NextIs
    <3>6. QED
      BY <1>4, <3>2, <3>3, <3>4, <3>5
  <2>3. QED
    BY <2>1, <2>2
<1>10. /\ call.fn = "List_sort_from_bottom_to_top" /\ call.list \in Lists /\ call.l \in Links /\ call.m \in Links /\ call.end \in Links
       /\ call.isFirst \in BOOLEAN /\ call.isLast \in BOOLEAN /\ call.mid \in Links
  BY <1>2 DEF BottomUpCall
<1>11. CASE k < w * 2
  <2>1. call' = [call EXCEPT !.k = @ + 1] /\ local' = <<node[l].next, NextOfRight>>
    BY <1>11 DEF WalkNext
  <2>2. /\ call'.at = "next" /\ call'.i = call.i /\ call'.k = k + 1 /\ call'.mid = call.mid /\ call'.step = w
        /\ call'.list = call.list
        /\ call'.fn = call.fn /\ call'.l = call.l /\ call'.m = call.m /\ call'.end = call.end
        /\ call'.isFirst = call.isFirst /\ call'.isLast = call.isLast
    BY <1>1, <1>2, <2>1 DEF BottomUpCall
  <2>3. call' = BottomUpRecord(call')
    BY <1>2, <2>1 DEF BottomUpCall, BottomUpRecord
  <2>4. call' \in BottomUpCall
    BY <1>2, <1>10, <2>2, <2>3, BottomUpTyped
  <2>5. BottomUpAt(call', s, v, node[l].next, NextOfRight, base)
    <3>1. base + 1 + (k + 1) = base + 1 + k + 1 /\ k + 1 <= 2 * w
      BY <1>2, <1>3, <1>11
    <3>2. QED
      BY <1>4, <1>7, <1>9, <2>2, <3>1 DEF BottomUpAt
  <2>6. base = 2 * call'.step * call'.i
    BY <2>2 DEF base
  <2>7. node[l].next \in Links
    BY <1>7
  <2>8. QED
    BY <1>1, <1>9, <2>1, <2>2, <2>4, <2>5, <2>6, <2>7, WalkKeeps
<1>12. CASE ~(k < w * 2)
  <2>0. k = 2 * w
    BY <1>2, <1>4, <1>12
  <2>1. call' = [call EXCEPT !.at = "nextmid", !.k = 0, !.mid = local[1]] /\ local' = local
    BY <1>12 DEF WalkNext
  <2>2. /\ call'.at = "nextmid" /\ call'.i = call.i /\ call'.k = 0 /\ call'.mid = l /\ call'.step = w
        /\ call'.list = call.list
        /\ call'.fn = call.fn /\ call'.l = call.l /\ call'.m = call.m /\ call'.end = call.end
        /\ call'.isFirst = call.isFirst /\ call'.isLast = call.isLast
    BY <1>1, <1>2, <2>1 DEF BottomUpCall
  <2>3. call' = BottomUpRecord(call')
    BY <1>2, <2>1 DEF BottomUpCall, BottomUpRecord
  <2>4. call' \in BottomUpCall
    BY <1>2, <1>10, <2>2, <2>3, BottomUpTyped
  <2>5. BottomUpAt(call', s, v, l, r, base)
    <3>1. base + 1 + k = base + 2 * w + 1 /\ base + 2 * w + 1 + 0 = base + 2 * w + 1 /\ 0 < w
          /\ base + 2 * w + k = base + 4 * w
      <4>1. base \in Nat /\ w \in Nat \ {0} /\ k = 2 * w
        BY <1>2, <1>3, <2>0
      <4> HIDE DEF w, k
      <4>2. QED
        BY ONLY <4>1
    <3>2. l = s[base + 2 * w + 1] /\ r = s[MinOf(base + 4 * w, n)]
      BY <1>4, <1>6, <3>1
    <3>3. QED
      BY <1>4, <2>2, <3>1, <3>2 DEF BottomUpAt
  <2>6. base = 2 * call'.step * call'.i
    BY <2>2 DEF base
  <2>7. local' = << l, r >>
    BY <1>2, <2>1
  <2>8. QED
    BY <1>1, <1>2, <2>2, <2>4, <2>5, <2>6, <2>7, WalkKeeps
<1>13. QED
  BY <1>11, <1>12

\* and one of the walk to the end of its left run.
LEMMA WalkNextMidKeeps ==
    ASSUME IInv, WalkNextMid
    PROVE  IInv'
<1> DEFINE s == nodes
           v == values
           w == call.step
           k == call.k
           n == Len(s)
           base == 2 * w * call.i
           l == local[1]
           r == local[2]
           c == base + 2 * w + 1 + k
<1>1. call.fn = "List_sort_from_bottom_to_top" /\ call.at = "nextmid" /\ Moves /\ local' = local
  BY DEF WalkNextMid, InBottomUp
<1>2. /\ Sorting /\ call \in BottomUpCall /\ w \in Nat \ {0} /\ k \in Nat /\ call.i \in Nat
      /\ local = << l, r >> /\ l \in Links /\ r \in Links
      /\ BottomUpAt(call, s, v, l, r, base)
  BY <1>1, InBottom
<1>3. n \in Nat /\ base \in Nat /\ 2 * w * (call.i + 1) = base + 2 * w
  BY <1>2, NodesAre, PairBase
<1> HIDE DEF base
<1>4. /\ Runs(v, w, base + 2 * w, base + 2 * w) /\ base + 3 * w < n /\ k < w
      /\ l = s[base + 2 * w + 1] /\ r = s[MinOf(base + 4 * w, n)] /\ call.mid = s[c]
  BY <1>1, <1>2 DEF BottomUpAt
<1>5. c \in 1 .. n /\ c < n /\ c + 1 \in 1 .. n
  <2>1. w \in Nat \ {0} /\ k \in Nat /\ base \in Nat /\ n \in Nat /\ base + 3 * w < n /\ k < w
    BY <1>2, <1>3, <1>4
  <2> HIDE DEF w, k, n
  <2>2. c < n
    BY <2>1
  <2>3. QED
    BY <2>1, <2>2
<1>6. node[call.mid].next = s[c + 1] /\ s[c + 1] \in Links
  BY <1>2, <1>4, <1>5, NextIs
<1>7. /\ call.fn = "List_sort_from_bottom_to_top" /\ call.list \in Lists /\ call.l \in Links /\ call.m \in Links /\ call.end \in Links
      /\ call.isFirst \in BOOLEAN /\ call.isLast \in BOOLEAN /\ call.mid \in Links
  BY <1>2 DEF BottomUpCall
<1>8. CASE k < w - 1
  <2>1. call' = [call EXCEPT !.k = @ + 1, !.mid = node[@].next]
    BY <1>8 DEF WalkNextMid
  <2>2. /\ call'.at = "nextmid" /\ call'.i = call.i /\ call'.k = k + 1 /\ call'.mid = s[c + 1] /\ call'.step = w
        /\ call'.list = call.list
        /\ call'.fn = call.fn /\ call'.l = call.l /\ call'.m = call.m /\ call'.end = call.end
        /\ call'.isFirst = call.isFirst /\ call'.isLast = call.isLast
    BY <1>1, <1>2, <1>6, <2>1 DEF BottomUpCall
  <2>3. call' = BottomUpRecord(call')
    BY <1>2, <2>1 DEF BottomUpCall, BottomUpRecord
  <2>4. call' \in BottomUpCall
    BY <1>2, <1>6, <1>7, <2>2, <2>3, BottomUpTyped
  <2>5. BottomUpAt(call', s, v, l, r, base)
    <3>1. base + 2 * w + 1 + (k + 1) = c + 1 /\ k + 1 < w
      BY <1>2, <1>3, <1>8, SMTT(20)
    <3>2. QED
      BY <1>4, <2>2, <3>1 DEF BottomUpAt
  <2>6. base = 2 * call'.step * call'.i
    BY <2>2 DEF base
  <2>7. local' = << l, r >>
    BY <1>1, <1>2
  <2>8. QED
    BY <1>1, <1>2, <2>2, <2>4, <2>5, <2>6, <2>7, WalkKeeps
<1>9. CASE ~(k < w - 1)
  <2>1. call' = [call EXCEPT !.at = "pair", !.i = @ + 1]
    BY <1>9 DEF WalkNextMid
  <2>2. /\ call'.at = "pair" /\ call'.i = call.i + 1 /\ call'.k = k /\ call'.mid = call.mid /\ call'.step = w
        /\ call'.list = call.list
        /\ call'.fn = call.fn /\ call'.l = call.l /\ call'.m = call.m /\ call'.end = call.end
        /\ call'.isFirst = call.isFirst /\ call'.isLast = call.isLast
    BY <1>1, <1>2, <2>1 DEF BottomUpCall
  <2>3. call' = BottomUpRecord(call')
    BY <1>2, <2>1 DEF BottomUpCall, BottomUpRecord
  <2>4. call' \in BottomUpCall
    BY <1>2, <1>7, <2>2, <2>3, BottomUpTyped
  <2>5. BottomUpAt(call', s, v, l, r, base + 2 * w)
    <3>1. c = base + 2 * w + w /\ base + 2 * w + 2 * w = base + 4 * w
      <4>1. base \in Nat /\ w \in Nat \ {0} /\ k \in Nat
        BY <1>2, <1>3
      <4>2. k < w /\ ~(k < w - 1)
        BY <1>4, <1>9
      <4> HIDE DEF w, k
      <4>3. base + 2 * w + 1 + k = base + 2 * w + w
        BY ONLY <4>1, <4>2
      <4>4. QED
        BY <4>1, <4>3
    <3>2. QED
      BY <1>4, <2>2, <3>1 DEF BottomUpAt
  <2>6. base + 2 * w = 2 * call'.step * call'.i
    BY <1>3, <2>2
  <2>7. local' = << l, r >>
    BY <1>1, <1>2
  <2>8. QED
    BY <1>1, <1>2, <2>2, <2>4, <2>5, <2>6, <2>7, WalkKeeps
<1>10. QED
  BY <1>8, <1>9

\* A round ends with every run twice as long.
LEMMA RoundEndsKeeps ==
    ASSUME IInv, RoundEnds
    PROVE  IInv'
<1> DEFINE s == nodes
           v == values
           w == call.step
           n == Len(s)
           base == 2 * w * call.i
           l == local[1]
           r == local[2]
<1>1. call.fn = "List_sort_from_bottom_to_top" /\ call.at = "pair" /\ Moves /\ local' = local /\ call.i >= pairs
  BY DEF RoundEnds, InBottomUp
<1>2. /\ Sorting /\ call \in BottomUpCall /\ w \in Nat \ {0} /\ call.k \in Nat /\ call.i \in Nat
      /\ local = << l, r >> /\ l \in Links /\ r \in Links /\ list[call.list].count = n
      /\ BottomUpAt(call, s, v, l, r, base)
  BY <1>1, InBottom
<1>3. n \in Nat /\ Len(v) = n /\ base \in Nat /\ Multiple(base, 2 * w)
  BY <1>2, NodesAre, PairBase
<1>4. n <= base + w
  <2>1. pairs = (n + w - 1) \div (w * 2) /\ pairs \in Int
    BY <1>2, <1>3, PairsType DEF pairs
  <2>2. ~(call.i < pairs)
    BY <1>1, <1>2, <2>1
  <2>3. ~(base + w < n)
    BY <1>2, <1>3, <2>1, <2>2, PairsAre
  <2> HIDE DEF base
  <2>4. QED
    BY <1>2, <1>3, <2>3
<1>5. Runs(v, 2 * w, 0, 0)
  <2> HIDE DEF base
  <2>1. Runs(v, w, base, base)
    BY <1>1, <1>2 DEF BottomUpAt
  <2>2. Len(v) \in Nat /\ Len(v) <= base + w
    BY <1>3, <1>4
  <2> HIDE DEF v, w
  <2>3. QED
    BY ONLY <1>2, <1>3, <2>1, <2>2, RunsDouble
<1>6. /\ call.fn = "List_sort_from_bottom_to_top" /\ call.list \in Lists /\ call.l \in Links /\ call.m \in Links /\ call.end \in Links
      /\ call.isFirst \in BOOLEAN /\ call.isLast \in BOOLEAN /\ call.mid \in Links
  BY <1>2 DEF BottomUpCall
<1>7. call' = [call EXCEPT !.at = "round", !.step = @ * 2]
  BY DEF RoundEnds
<1>8. /\ call'.at = "round" /\ call'.i = call.i /\ call'.k = call.k /\ call'.mid = call.mid /\ call'.step = w * 2
      /\ call'.list = call.list
      /\ call'.fn = call.fn /\ call'.l = call.l /\ call'.m = call.m /\ call'.end = call.end
      /\ call'.isFirst = call.isFirst /\ call'.isLast = call.isLast
  BY <1>1, <1>2, <1>7 DEF BottomUpCall
<1>9. call' = BottomUpRecord(call')
  BY <1>2, <1>7 DEF BottomUpCall, BottomUpRecord
<1>10. w * 2 \in Nat \ {0} /\ w * 2 = 2 * w
  BY <1>2
<1>11. call' \in BottomUpCall
  BY <1>2, <1>6, <1>8, <1>9, <1>10, BottomUpTyped
<1>12. BottomUpAt(call', s, v, l, r, 2 * call'.step * call'.i)
  BY <1>5, <1>8, <1>10 DEF BottomUpAt
<1>13. local' = << l, r >>
  BY <1>1, <1>2
<1>14. QED
  BY <1>1, <1>2, <1>8, <1>11, <1>12, <1>13, WalkKeeps

\* When one run holds every value, the values are in order.
LEMMA BottomUpEndsKeeps ==
    ASSUME IInv, BottomUpEnds
    PROVE  IInv' /\ Abstract!Sorted(values) /\ Sorting
<1> DEFINE v == values
           w == call.step
           n == Len(nodes)
<1>1. /\ call.fn = "List_sort_from_bottom_to_top" /\ call.at = "round" /\ Returns /\ UNCHANGED <<node, list, order>>
      /\ w >= list[call.list].count
  BY DEF BottomUpEnds, InBottomUp
<1>2. /\ Sorting /\ w \in Nat \ {0} /\ call # Idle /\ list[call.list].count = n /\ list[call.list] = EndsOf(nodes)
      /\ BottomUpAt(call, nodes, v, local[1], local[2], 2 * w * call.i)
  BY <1>1, InBottom
<1>3. n \in Nat /\ Len(v) = n
  BY <1>2, NodesAre
<1>4. Runs(v, w, 0, 0)
  BY <1>1, <1>2 DEF BottomUpAt
<1>5. Multiple(0, w)
  BY <1>2, Multiples
<1>6. Ordered(v, 0 + 1, MinOf(0 + w, Len(v)))
  BY <1>4, <1>5 DEF Runs
<1>7. 0 + 1 = 1 /\ MinOf(0 + w, Len(v)) = Len(v)
  BY <1>1, <1>2, <1>3 DEF MinOf
<1>8. Abstract!Sorted(v)
  BY <1>6, <1>7 DEF Ordered, Abstract!Sorted
<1>9. IInv'
  BY <1>1, <1>2, ReturnsKeeps
<1>10. QED
  BY <1>2, <1>8, <1>9

-----------------------------------------------------------------------------
(* The frames of __List_sort. *)

\* The frame d ends where the p_mid of frame e is only if it was passed that
\* variable; numbers make the cells of two frames different.
LEMMA FramesAre ==
    ASSUME NEW x, NEW s, NEW v, NEW st, NEW loc, NEW lo, NEW hi, NEW k,
           Len(st) \in Nat \ {0}, Len(s) \in Nat,
           lo \in [1 .. Len(st) -> Nat], hi \in [1 .. Len(st) -> Nat], k \in [1 .. Len(st) -> Nat],
           Frames(x, s, v, st, loc, lo, hi, k)
    PROVE  /\ lo[1] = 1 /\ hi[1] = Len(s)
           /\ \A d \in 1 .. Len(st) :
                /\ lo[d] \in Nat /\ hi[d] \in Nat /\ k[d] \in Nat
                /\ 1 <= lo[d] /\ lo[d] <= k[d] /\ k[d] <= hi[d] /\ hi[d] <= Len(s)
                /\ loc[d] = s[k[d]]
                /\ FrameAt(x, s, v, st[d], loc[d], d = Len(st), lo[d], hi[d], k[d])
                /\ \A e \in 1 .. Len(st) : e < d =>
                     /\ Nested(st, e, d, lo, hi, k)
                     /\ st[e].at \in {"left", "right"} /\ k[e] < hi[e]
<1>1. \A d \in 1 .. Len(st) :
        /\ FrameAt(x, s, v, st[d], loc[d], d = Len(st), lo[d], hi[d], k[d])
        /\ \A e \in 1 .. Len(st) : e < d => Nested(st, e, d, lo, hi, k)
  BY DEF Frames
<1>2. lo[1] = 1 /\ hi[1] = Len(s)
  BY DEF Frames
<1>3. \A d \in 1 .. Len(st) :
        /\ lo[d] \in Nat /\ hi[d] \in Nat /\ k[d] \in Nat
        /\ 1 <= lo[d] /\ lo[d] <= k[d] /\ k[d] <= hi[d] /\ hi[d] <= Len(s)
        /\ loc[d] = s[k[d]]
  BY <1>1 DEF FrameAt
<1>4. \A e \in 1 .. Len(st) : e # Len(st) => st[e].at \in {"left", "right"} /\ k[e] < hi[e]
  <2> SUFFICES ASSUME NEW e \in 1 .. Len(st), e # Len(st)
               PROVE  st[e].at \in {"left", "right"} /\ k[e] < hi[e]
    OBVIOUS
  <2>1. FrameAt(x, s, v, st[e], loc[e], e = Len(st), lo[e], hi[e], k[e])
    BY <1>1
  <2>2. QED
    BY <2>1 DEF FrameAt
<1>5. \A d, e \in 1 .. Len(st) : e < d => e # Len(st)
  OBVIOUS
<1>6. QED
  BY <1>1, <1>2, <1>3, <1>4, <1>5

FrameFacts(x, s, v, st, loc, lo, hi, k) ==
    /\ lo[1] = 1 /\ hi[1] = Len(s)
    /\ \A d \in 1 .. Len(st) :
         /\ lo[d] \in Nat /\ hi[d] \in Nat /\ k[d] \in Nat
         /\ 1 <= lo[d] /\ lo[d] <= k[d] /\ k[d] <= hi[d] /\ hi[d] <= Len(s)
         /\ loc[d] = s[k[d]]
         /\ FrameAt(x, s, v, st[d], loc[d], d = Len(st), lo[d], hi[d], k[d])
         /\ \A e \in 1 .. Len(st) : e < d =>
              Nested(st, e, d, lo, hi, k) /\ st[e].at \in {"left", "right"} /\ k[e] < hi[e]

\* The same, by the name the step proofs use.
LEMMA FramesFacts ==
    ASSUME NEW x, NEW s, NEW v, NEW st, NEW loc, NEW lo, NEW hi, NEW k,
           Len(st) \in Nat \ {0}, Len(s) \in Nat,
           lo \in [1 .. Len(st) -> Nat], hi \in [1 .. Len(st) -> Nat], k \in [1 .. Len(st) -> Nat],
           Frames(x, s, v, st, loc, lo, hi, k)
    PROVE  FrameFacts(x, s, v, st, loc, lo, hi, k)
<1>1. /\ Len(st) \in Nat \ {0} /\ Len(s) \in Nat
      /\ lo \in [1 .. Len(st) -> Nat] /\ hi \in [1 .. Len(st) -> Nat] /\ k \in [1 .. Len(st) -> Nat]
      /\ Frames(x, s, v, st, loc, lo, hi, k)
  OBVIOUS
<1>2. QED
  BY ONLY <1>1, FramesAre DEF FrameFacts

\* The innermost frame goes on.
LEMMA TopChanges ==
    ASSUME NEW x, NEW s, NEW v, NEW t, NEW u, NEW st, NEW st2, NEW loc, NEW loc2, NEW lo, NEW hi, NEW k, NEW k2,
           Len(st) \in Nat \ {0}, Len(st2) = Len(st), Len(t) = Len(s),
           Frames(x, s, v, st, loc, lo, hi, k),
           \A d \in 1 .. Len(st) : d # Len(st) =>
              /\ st2[d] = st[d] /\ k2[d] = k[d]
              /\ FrameAt(x, t, u, st2[d], loc2[d], FALSE, lo[d], hi[d], k2[d]),
           st2[Len(st)].right = st[Len(st)].right,
           FrameAt(x, t, u, st2[Len(st)], loc2[Len(st)], TRUE, lo[Len(st)], hi[Len(st)], k2[Len(st)])
    PROVE  Frames(x, t, u, st2, loc2, lo, hi, k2)
<1> DEFINE n == Len(st)
<1>1. lo[1] = 1 /\ hi[1] = Len(t)
  BY DEF Frames
<1> SUFFICES ASSUME NEW d \in 1 .. n
             PROVE  /\ FrameAt(x, t, u, st2[d], loc2[d], d = n, lo[d], hi[d], k2[d])
                    /\ \A e \in 1 .. n : e < d => Nested(st2, e, d, lo, hi, k2)
                    /\ \A e \in Nat : st2[d].right = <<"local", e>> => 1 <= e /\ e < d
  BY <1>1 DEF Frames
<1>2. FrameAt(x, t, u, st2[d], loc2[d], d = n, lo[d], hi[d], k2[d])
  <2>1. CASE d = n
    <3>1. (d = n) = TRUE
      BY <2>1
    <3>2. QED
      BY <2>1, <3>1
  <2>2. CASE d # n
    <3>1. (d = n) = FALSE
      BY <2>2
    <3>2. QED
      BY <2>2, <3>1
  <2>3. QED
    BY <2>1, <2>2
<1>3. st2[d].right = st[d].right
  OBVIOUS
<1>4. \A e \in 1 .. n : e < d => Nested(st2, e, d, lo, hi, k2)
  <2> SUFFICES ASSUME NEW e \in 1 .. n, e < d PROVE Nested(st2, e, d, lo, hi, k2)
    OBVIOUS
  <2>1. Nested(st, e, d, lo, hi, k)
    BY DEF Frames
  <2>2. e # n
    OBVIOUS
  <2>3. QED
    BY <1>3, <2>1, <2>2 DEF Nested
<1>5. \A e \in Nat : st2[d].right = <<"local", e>> => 1 <= e /\ e < d
  BY <1>3 DEF Frames
<1>6. QED
  BY <1>2, <1>4, <1>5

\* The frames below the innermost one.
OthersAt(x, s, v, st, loc, lo, hi, k) ==
    \A d \in 1 .. Len(st) : d # Len(st) => FrameAt(x, s, v, st[d], loc[d], FALSE, lo[d], hi[d], k[d])

\* A merge of the innermost frame made t of s and u of v.
Rearranges(s, v, t, u, st, loc, loc2, lo, hi) ==
    /\ Len(t) = Len(s)
    /\ \A a \in 1 .. Len(s) : a < lo[Len(st)] \/ hi[Len(st)] < a => t[a] = s[a] /\ u[a] = v[a]
    /\ \A d \in 1 .. Len(st) : d # Len(st) =>
          loc2[d] = IF st[Len(st)].right = <<"local", d>> THEN t[hi[Len(st)]] ELSE loc[d]

\* What a merge of the innermost frame leaves as it was for the others.
LEMMA OthersStay ==
    ASSUME NEW x, NEW s, NEW v, NEW t, NEW u, NEW st, NEW loc, NEW loc2, NEW lo, NEW hi, NEW k,
           Len(st) \in Nat \ {0}, Len(s) \in Nat,
           lo \in [1 .. Len(st) -> Nat], hi \in [1 .. Len(st) -> Nat], k \in [1 .. Len(st) -> Nat],
           Frames(x, s, v, st, loc, lo, hi, k), Rearranges(s, v, t, u, st, loc, loc2, lo, hi)
    PROVE  OthersAt(x, t, u, st, loc2, lo, hi, k)
<1> DEFINE n == Len(st)
<1> SUFFICES ASSUME NEW d \in 1 .. n, d # n
             PROVE  FrameAt(x, t, u, st[d], loc2[d], FALSE, lo[d], hi[d], k[d])
  BY DEF OthersAt
<1>0. /\ Len(t) = Len(s)
      /\ \A a \in 1 .. Len(s) : a < lo[n] \/ hi[n] < a => t[a] = s[a] /\ u[a] = v[a]
      /\ loc2[d] = IF st[n].right = <<"local", d>> THEN t[hi[n]] ELSE loc[d]
  BY DEF Rearranges
<1>1. n \in 1 .. n /\ d < n
  OBVIOUS
<1>2. /\ lo[d] \in Nat /\ hi[d] \in Nat /\ k[d] \in Nat
      /\ 1 <= lo[d] /\ lo[d] <= k[d] /\ k[d] <= hi[d] /\ hi[d] <= Len(s)
      /\ loc[d] = s[k[d]]
      /\ FrameAt(x, s, v, st[d], loc[d], d = n, lo[d], hi[d], k[d])
  BY FramesAre
<1>3. /\ lo[n] \in Nat /\ hi[n] \in Nat /\ k[n] \in Nat
      /\ 1 <= lo[n] /\ lo[n] <= k[n] /\ k[n] <= hi[n] /\ hi[n] <= Len(s)
      /\ Nested(st, d, n, lo, hi, k)
      /\ st[d].at \in {"left", "right"} /\ k[d] < hi[d]
  <2>1. \A c \in 1 .. n :
          /\ lo[c] \in Nat /\ hi[c] \in Nat /\ k[c] \in Nat
          /\ 1 <= lo[c] /\ lo[c] <= k[c] /\ k[c] <= hi[c] /\ hi[c] <= Len(s)
          /\ \A e \in 1 .. n : e < c =>
               Nested(st, e, c, lo, hi, k) /\ st[e].at \in {"left", "right"} /\ k[e] < hi[e]
    BY FramesAre
  <2>2. QED
    BY ONLY <1>1, <2>1, d \in 1 .. n
<1>4. lo[d] <= lo[n] /\ (st[d].at = "right" => k[d] < lo[n]) /\ (st[d].at = "left" => hi[n] <= k[d])
      /\ (st[n].right = <<"local", d>> <=> (st[d].at = "left" /\ hi[n] = k[d]))
  BY <1>3 DEF Nested
<1>5. loc2[d] = t[k[d]]
  <2>1. CASE st[n].right = <<"local", d>>
    BY <1>0, <1>1, <1>4, <2>1
  <2>2. CASE st[n].right # <<"local", d>>
    <3>1. loc2[d] = s[k[d]]
      BY <1>0, <1>1, <1>2, <2>2
    <3>2. k[d] \in 1 .. Len(s) /\ (k[d] < lo[n] \/ hi[n] < k[d])
      BY <1>2, <1>3, <1>4, <2>2
    <3>3. QED
      BY <1>0, <3>1, <3>2
  <2>3. QED
    BY <2>1, <2>2
<1>6. st[d].left = IF lo[d] = 1 THEN <<"first", x>> ELSE <<"next", t[lo[d] - 1]>>
  <2>1. st[d].left = IF lo[d] = 1 THEN <<"first", x>> ELSE <<"next", s[lo[d] - 1]>>
    BY <1>2 DEF FrameAt
  <2>2. lo[d] # 1 => lo[d] - 1 \in 1 .. Len(s) /\ lo[d] - 1 < lo[n]
    BY <1>2, <1>3, <1>4, SMTT(20)
  <2>3. QED
    BY <1>0, <2>1, <2>2
<1>7. (st[d].right = <<"last", x>> /\ hi[d] = Len(t)) \/ \E e \in Nat : st[d].right = <<"local", e>>
  BY <1>0, <1>2 DEF FrameAt
<1>8. st[d].at = "right" => Ordered(u, lo[d], k[d])
  <2> SUFFICES ASSUME st[d].at = "right" PROVE Ordered(u, lo[d], k[d])
    OBVIOUS
  <2>1. Ordered(v, lo[d], k[d])
    BY <1>2 DEF FrameAt
  <2>2. \A a \in lo[d] .. k[d] : a \in 1 .. Len(s) /\ a < lo[n]
    BY <1>2, <1>3, <1>4
  <2>3. \A a \in lo[d] .. k[d] : u[a] = v[a]
    BY <1>0, <2>2
  <2>4. QED
    BY <2>1, <2>3 DEF Ordered
<1>9. QED
  BY <1>0, <1>2, <1>3, <1>5, <1>6, <1>7, <1>8 DEF FrameAt

\* __List_sort calls itself for a .. b, the one or the other half.
LEMMA FramePushed ==
    ASSUME NEW x, NEW s, NEW v, NEW st, NEW st2, NEW loc, NEW loc2, NEW lo, NEW hi, NEW k, NEW a \in Nat, NEW b \in Nat,
           Len(st) \in Nat \ {0}, Len(s) \in Nat, Len(st2) = Len(st) + 1,
           lo \in [1 .. Len(st) -> Nat], hi \in [1 .. Len(st) -> Nat], k \in [1 .. Len(st) -> Nat],
           Frames(x, s, v, st, loc, lo, hi, k),
           \A d \in 1 .. Len(st) : loc2[d] = loc[d] /\ st2[d].right = st[d].right /\ (d # Len(st) => st2[d] = st[d]),
           FrameAt(x, s, v, st2[Len(st)], loc[Len(st)], FALSE, lo[Len(st)], hi[Len(st)], k[Len(st)]),
           FrameAt(x, s, v, st2[Len(st) + 1], loc2[Len(st) + 1], TRUE, a, b, a),
           k[Len(st)] < hi[Len(st)],
           \/ /\ st2[Len(st)].at = "left" /\ a = lo[Len(st)] /\ b = k[Len(st)]
              /\ st2[Len(st) + 1].right = <<"local", Len(st)>>
           \/ /\ st2[Len(st)].at = "right" /\ a = k[Len(st)] + 1 /\ b = hi[Len(st)]
              /\ st2[Len(st) + 1].right = st[Len(st)].right
    PROVE  \E lo2, hi2, k2 \in [1 .. Len(st2) -> Nat] : Frames(x, s, v, st2, loc2, lo2, hi2, k2)
<1> DEFINE n == Len(st)
           lo2 == [d \in 1 .. n + 1 |-> IF d = n + 1 THEN a ELSE lo[d]]
           hi2 == [d \in 1 .. n + 1 |-> IF d = n + 1 THEN b ELSE hi[d]]
           k2 == [d \in 1 .. n + 1 |-> IF d = n + 1 THEN a ELSE k[d]]
<1>1. /\ lo[1] = 1 /\ hi[1] = Len(s)
      /\ \A d \in 1 .. n :
           /\ lo[d] \in Nat /\ hi[d] \in Nat /\ k[d] \in Nat
           /\ 1 <= lo[d] /\ lo[d] <= k[d] /\ k[d] <= hi[d] /\ hi[d] <= Len(s)
           /\ FrameAt(x, s, v, st[d], loc[d], d = n, lo[d], hi[d], k[d])
           /\ \A e \in 1 .. n : e < d =>
                Nested(st, e, d, lo, hi, k) /\ st[e].at \in {"left", "right"} /\ k[e] < hi[e]
  BY FramesAre, SMTT(20)
<1>2. n \in Nat \ {0} /\ n \in 1 .. n /\ 1 \in 1 .. n /\ n + 1 \in 1 .. n + 1 /\ \A d \in 1 .. n : d \in 1 .. n + 1 /\ d # n + 1
  OBVIOUS
<1>3. \A d \in 1 .. n + 1 : d \in 1 .. n \/ d = n + 1
  OBVIOUS
<1>4. /\ \A d \in 1 .. n : lo2[d] = lo[d] /\ hi2[d] = hi[d] /\ k2[d] = k[d]
      /\ lo2[n + 1] = a /\ hi2[n + 1] = b /\ k2[n + 1] = a
  BY <1>2
<1>5. /\ lo2 \in [1 .. Len(st2) -> Nat] /\ hi2 \in [1 .. Len(st2) -> Nat] /\ k2 \in [1 .. Len(st2) -> Nat]
  BY <1>1, <1>3
<1> HIDE DEF lo2, hi2, k2, n
<1>6. ASSUME NEW d \in 1 .. n + 1
      PROVE  FrameAt(x, s, v, st2[d], loc2[d], d = n + 1, lo2[d], hi2[d], k2[d])
  <2>1. CASE d = n + 1
    <3>1. (d = n + 1) = TRUE
      BY <2>1
    <3>2. QED
      BY <1>4, <2>1, <3>1 DEF n
  <2>2. CASE d \in 1 .. n
    <3>1. (d = n + 1) = FALSE
      BY <1>2, <2>2
    <3>2. CASE d = n
      BY <1>2, <1>4, <3>1, <3>2 DEF n
    <3>3. CASE d # n
      <4>1. (d = n) = FALSE
        BY <3>3
      <4>2. st2[d] = st[d] /\ loc2[d] = loc[d]
        BY <2>2, <3>3 DEF n
      <4>3. QED
        BY <1>1, <1>4, <2>2, <3>1, <4>1, <4>2
    <3>4. QED
      BY <3>2, <3>3
  <2>3. QED
    BY <1>3, <2>1, <2>2
<1>7. ASSUME NEW d \in 1 .. n + 1, NEW e \in Nat, st2[d].right = <<"local", e>>
      PROVE  1 <= e /\ e < d
  <2>1. \A c \in 1 .. n : st[c].right = <<"local", e>> => 1 <= e /\ e < c
    BY DEF Frames, n
  <2>2. CASE d \in 1 .. n
    BY <1>7, <2>1, <2>2 DEF n
  <2>3. CASE d = n + 1
    <3>1. st2[n + 1].right = <<"local", n>> \/ st2[n + 1].right = st[n].right
      BY DEF n
    <3>2. QED
      BY <1>2, <1>7, <2>1, <2>3, <3>1
  <2>4. QED
    BY <1>3, <2>2, <2>3
<1>8. ASSUME NEW d \in 1 .. n + 1, NEW e \in 1 .. n + 1, e < d
      PROVE  Nested(st2, e, d, lo2, hi2, k2)
  <2>1. e \in 1 .. n
    BY <1>2, <1>8
  <2>2. CASE d \in 1 .. n
    <3>0. e # n /\ e < d
      BY <1>2, <1>8, <2>1, <2>2
    <3>1. Nested(st, e, d, lo, hi, k) /\ e # n
      BY <1>1, <2>1, <2>2, <3>0
    <3>2. st2[e] = st[e] /\ st2[d].right = st[d].right
      BY <2>1, <2>2, <3>1 DEF n
    <3>3. QED
      BY <1>4, <2>1, <2>2, <3>1, <3>2 DEF Nested
  <2>3. CASE d = n + 1 /\ e = n
    <3>1. /\ lo[n] \in Nat /\ hi[n] \in Nat /\ k[n] \in Nat /\ lo[n] <= k[n] /\ k[n] < hi[n]
      BY <1>1, <1>2 DEF n
    <3>2. CASE /\ st2[n].at = "left" /\ a = lo[n] /\ b = k[n]
               /\ st2[n + 1].right = <<"local", n>>
      BY <1>2, <1>4, <2>3, <3>1, <3>2 DEF Nested
    <3>3. CASE /\ st2[n].at = "right" /\ a = k[n] + 1 /\ b = hi[n]
               /\ st2[n + 1].right = st[n].right
      <4>1. st[n].right # <<"local", n>>
        BY <1>2, SMTT(20) DEF Frames, n
      <4>2. lo2[n] = lo[n] /\ hi2[n] = hi[n] /\ k2[n] = k[n] /\ lo2[n + 1] = a /\ hi2[n + 1] = b
        BY <1>2, <1>4
      <4>3. lo[n] <= a /\ b <= hi[n] /\ k[n] < a
        BY ONLY <3>1, <3>3
      <4>4. /\ lo2[n] <= lo2[n + 1] /\ hi2[n + 1] <= hi2[n] /\ k2[n] < lo2[n + 1]
            /\ lo2[n + 1] = k2[n] + 1 /\ hi2[n + 1] = hi2[n]
            /\ st2[n].at = "right" /\ st2[n + 1].right # <<"local", n>>
        BY <3>3, <4>1, <4>2, <4>3
      <4>5. Nested(st2, n, n + 1, lo2, hi2, k2)
        BY ONLY <4>4 DEF Nested
      <4>6. QED
        BY <2>3, <4>5
    <3>4. QED
      BY <3>2, <3>3 DEF n
  <2>4. CASE d = n + 1 /\ e < n
    <3>0. /\ lo[n] \in Nat /\ hi[n] \in Nat /\ k[n] \in Nat /\ lo[n] <= k[n] /\ k[n] < hi[n]
          /\ lo[e] \in Nat /\ hi[e] \in Nat /\ k[e] \in Nat
      BY <1>1, <1>2, <2>1, <2>4 DEF n
    <3>1. Nested(st, e, n, lo, hi, k)
      BY <1>1, <1>2, <2>1, <2>4 DEF n
    <3>2. st2[e] = st[e] /\ d # e + 1
      BY <1>2, <2>1, <2>4 DEF n
    <3>6. /\ lo[e] <= lo[n] /\ hi[n] <= hi[e]
          /\ st[e].at = "left" => hi[n] <= k[e]
          /\ st[e].at = "right" => k[e] < lo[n]
          /\ st[n].right = <<"local", e>> <=> (st[e].at = "left" /\ hi[n] = k[e])
      BY <3>1 DEF Nested
    <3>7. Nested(st2, e, d, lo2, hi2, k2) <=>
            /\ lo[e] <= a /\ b <= hi[e]
            /\ st[e].at = "left" => b <= k[e]
            /\ st[e].at = "right" => k[e] < a
            /\ st2[n + 1].right = <<"local", e>> <=> (st[e].at = "left" /\ b = k[e])
      BY <1>4, <2>1, <2>4, <3>2 DEF Nested
    <3>3. CASE /\ st2[n].at = "left" /\ a = lo[n] /\ b = k[n]
               /\ st2[n + 1].right = <<"local", n>>
      <4>1. <<"local", n>> # <<"local", e>>
        BY <1>2, <2>4
      <4>2. st2[n + 1].right # <<"local", e>>
        BY <3>3, <4>1
      <4>3. lo[e] <= a /\ b <= hi[e] /\ b < hi[n]
        BY ONLY <3>0, <3>3, <3>6
      <4>4. st[e].at = "left" => b < k[e]
        BY ONLY <3>0, <3>3, <3>6
      <4>5. QED
        BY <3>0, <3>3, <3>6, <3>7, <4>2, <4>3, <4>4, SMTT(20)
    <3>4. CASE /\ st2[n].at = "right" /\ a = k[n] + 1 /\ b = hi[n]
               /\ st2[n + 1].right = st[n].right
      <4>0. a = k[n] + 1 /\ b = hi[n] /\ lo[e] <= lo[n] /\ hi[n] <= hi[e]
        BY <3>4, <3>6
      <4>1. lo[e] <= a /\ b <= hi[e] /\ lo[n] < a
        BY ONLY <3>0, <4>0
      <4>2. st[e].at = "right" => k[e] < a
        BY <3>0, <3>6, <4>1, SMTT(20)
      <4>3. st2[n + 1].right = <<"local", e>> <=> (st[e].at = "left" /\ b = k[e])
        BY <3>4, <3>6
      <4>4. QED
        BY <3>6, <3>7, <4>0, <4>1, <4>2, <4>3
    <3>5. QED
      BY <3>3, <3>4 DEF n
  <2>5. QED
    BY <1>2, <1>3, <1>8, <2>1, <2>2, <2>3, <2>4
<1>9. lo2[1] = 1 /\ hi2[1] = Len(s)
  BY <1>1, <1>2, <1>4
<1>10. Frames(x, s, v, st2, loc2, lo2, hi2, k2)
  <2>1. Len(st2) = n + 1
    BY DEF n
  <2>2. QED
    BY <1>6, <1>7, <1>8, <1>9, <2>1 DEF Frames
<1>11. QED
  BY <1>5, <1>10

\* __List_sort returns to the frame below with its half in order.
LEMMA FramePopped ==
    ASSUME NEW x, NEW s, NEW v, NEW st, NEW st2, NEW loc, NEW loc2, NEW lo, NEW hi, NEW k,
           Len(st) \in Nat \ {0}, Len(st) # 1, Len(s) \in Nat, Len(st2) = Len(st) - 1,
           lo \in [1 .. Len(st) -> Nat], hi \in [1 .. Len(st) -> Nat], k \in [1 .. Len(st) -> Nat],
           Frames(x, s, v, st, loc, lo, hi, k),
           \A d \in 1 .. Len(st) - 1 : st2[d] = st[d] /\ loc2[d] = loc[d],
           Ordered(v, lo[Len(st)], hi[Len(st)])
    PROVE  \E lo2, hi2, k2 \in [1 .. Len(st2) -> Nat] : Frames(x, s, v, st2, loc2, lo2, hi2, k2)
<1> DEFINE n == Len(st)
           lo2 == [d \in 1 .. n - 1 |-> lo[d]]
           hi2 == [d \in 1 .. n - 1 |-> hi[d]]
           k2 == [d \in 1 .. n - 1 |-> k[d]]
<1>1. /\ lo[1] = 1 /\ hi[1] = Len(s)
      /\ \A d \in 1 .. n :
           /\ lo[d] \in Nat /\ hi[d] \in Nat /\ k[d] \in Nat
           /\ 1 <= lo[d] /\ lo[d] <= k[d] /\ k[d] <= hi[d] /\ hi[d] <= Len(s)
           /\ FrameAt(x, s, v, st[d], loc[d], d = n, lo[d], hi[d], k[d])
           /\ \A e \in 1 .. n : e < d =>
                Nested(st, e, d, lo, hi, k) /\ st[e].at \in {"left", "right"} /\ k[e] < hi[e]
  <2>1. /\ Len(st) \in Nat \ {0} /\ Len(s) \in Nat
        /\ lo \in [1 .. Len(st) -> Nat] /\ hi \in [1 .. Len(st) -> Nat] /\ k \in [1 .. Len(st) -> Nat]
        /\ Frames(x, s, v, st, loc, lo, hi, k)
    OBVIOUS
  <2>2. QED
    BY ONLY <2>1, FramesAre
<1>2. n - 1 \in 1 .. n /\ n \in 1 .. n /\ n - 1 < n /\ 1 \in 1 .. n - 1 /\ n = n - 1 + 1 /\ \A d \in 1 .. n - 1 : d \in 1 .. n /\ d # n
  OBVIOUS
<1>3. \A d \in 1 .. n - 1 : lo2[d] = lo[d] /\ hi2[d] = hi[d] /\ k2[d] = k[d]
  OBVIOUS
<1>4. /\ lo2 \in [1 .. Len(st2) -> Nat] /\ hi2 \in [1 .. Len(st2) -> Nat] /\ k2 \in [1 .. Len(st2) -> Nat]
  BY <1>1, <1>2
<1> HIDE DEF lo2, hi2, k2, n
<1>5. FrameAt(x, s, v, st[n - 1], loc[n - 1], TRUE, lo[n - 1], hi[n - 1], k[n - 1])
  <2>1. FrameAt(x, s, v, st[n - 1], loc[n - 1], FALSE, lo[n - 1], hi[n - 1], k[n - 1])
    <3>1. (n - 1 = n) = FALSE
      BY <1>2 DEF n
    <3>2. FrameAt(x, s, v, st[n - 1], loc[n - 1], n - 1 = n, lo[n - 1], hi[n - 1], k[n - 1])
      BY <1>1, <1>2
    <3>3. QED
      BY <3>1, <3>2
  <2>2. Nested(st, n - 1, n, lo, hi, k) /\ st[n - 1].at \in {"left", "right"}
    BY <1>1, <1>2
  <2>3. IF st[n - 1].at = "left" THEN lo[n] = lo[n - 1] /\ hi[n] = k[n - 1]
        ELSE lo[n] = k[n - 1] + 1 /\ hi[n] = hi[n - 1]
    BY <1>2, <2>2 DEF Nested
  <2>4. /\ st[n - 1].at = "left" => Ordered(v, lo[n - 1], k[n - 1])
        /\ st[n - 1].at = "right" => Ordered(v, k[n - 1] + 1, hi[n - 1])
    BY <2>3 DEF n
  <2>5. QED
    BY <2>1, <2>2, <2>4 DEF FrameAt
<1>6. ASSUME NEW d \in 1 .. n - 1
      PROVE  FrameAt(x, s, v, st2[d], loc2[d], d = n - 1, lo2[d], hi2[d], k2[d])
  <2>1. st2[d] = st[d] /\ loc2[d] = loc[d]
    BY DEF n
  <2>2. CASE d = n - 1
    <3>1. (d = n - 1) = TRUE
      BY <2>2
    <3>2. QED
      BY <1>3, <1>5, <2>1, <2>2, <3>1
  <2>3. CASE d # n - 1
    <3>1. (d = n - 1) = FALSE /\ (d = n) = FALSE
      BY <1>2, <2>3
    <3>2. FrameAt(x, s, v, st[d], loc[d], d = n, lo[d], hi[d], k[d])
      BY <1>1, <1>2
    <3>3. QED
      BY <1>3, <2>1, <3>1, <3>2
  <2>4. QED
    BY <2>2, <2>3
<1>7. ASSUME NEW d \in 1 .. n - 1, NEW e \in 1 .. n - 1, e < d
      PROVE  Nested(st2, e, d, lo2, hi2, k2)
  <2>1. Nested(st, e, d, lo, hi, k)
    BY <1>1, <1>2, <1>7
  <2>2. st2[d] = st[d] /\ st2[e] = st[e]
    BY DEF n
  <2>3. QED
    BY <1>3, <2>1, <2>2 DEF Nested
<1>8. ASSUME NEW d \in 1 .. n - 1, NEW e \in Nat, st2[d].right = <<"local", e>>
      PROVE  1 <= e /\ e < d
  <2>1. st2[d] = st[d] /\ d \in 1 .. n
    BY <1>2 DEF n
  <2>2. QED
    BY <1>8, <2>1 DEF Frames, n
<1>9. lo2[1] = 1 /\ hi2[1] = Len(s)
  BY <1>1, <1>2, <1>3
<1>10. Frames(x, s, v, st2, loc2, lo2, hi2, k2)
  <2>1. Len(st2) = n - 1
    BY DEF n
  <2>2. QED
    BY <1>6, <1>7, <1>8, <1>9, <2>1 DEF Frames
<1>11. QED
  BY <1>4, <1>10

-----------------------------------------------------------------------------
(* The steps of List_mergesort. *)

\* The pointer a frame has to its first node points to it,
LEMMA LeftIs ==
    ASSUME NEW c, NEW x, NEW i \in 1 .. Len(order[x]), OrderOK(order[x]), Linked(node, order[x]), LeftCell(c, x, i)
    PROVE  Read(Memory, c) = order[x][i]
<1>1. CASE i > 1 /\ c = <<"next", order[x][i - 1]>>
  <2>1. Read(Memory, c) = node[order[x][i - 1]].next
    BY <1>1 DEF Read, Memory
  <2>2. i - 1 \in 1 .. Len(order[x]) /\ i - 1 + 1 = i
    BY <1>1, AtIs
  <2>3. node[order[x][i - 1]].next = At(order[x], i)
    BY <2>2 DEF Linked
  <2>4. QED
    BY <2>1, <2>3 DEF At
<1>2. CASE i = 1 /\ c = <<"first", x>> /\ list[x].first = order[x][i]
  BY <1>2 DEF Read, Memory
<1>3. CASE \E d \in DOMAIN local : c = <<"local", d>> /\ local[d] = order[x][i]
  BY <1>3 DEF Read, Memory
<1>4. QED
  BY <1>1, <1>2, <1>3 DEF LeftCell

\* and the one to its last node to that.
LEMMA RightIs ==
    ASSUME NEW c, NEW x, NEW i, RightCell(c, x, i)
    PROVE  Read(Memory, c) = order[x][i]
BY DEF RightCell, Read, Memory

\* What is known while List_mergesort runs,
LEMMA TopIs ==
    ASSUME IInv, call.fn = "List_mergesort"
    PROVE  /\ Sorting /\ call \in SortCall /\ call # Idle /\ list[call.list] = EndsOf(nodes)
           /\ depth \in Nat \ {0} /\ call.stack \in Seq(FrameRecord) /\ top \in FrameRecord
           /\ local \in Seq(Links) /\ Len(local) = depth /\ depth \in 1 .. depth
           /\ \E lo, hi, k \in [1 .. depth -> Nat] :
                Frames(call.list, nodes, values, call.stack, local, lo, hi, k)
<1>1. SortOK
  BY Running
<1>2. /\ Sorting /\ call \in SortCall /\ list[call.list] = EndsOf(nodes)
      /\ Stacked(call.list, nodes, values, call.stack, local)
  BY <1>1 DEF SortOK
<1>3. call.stack \in Seq(FrameRecord)
  BY <1>2 DEF SortCall
<1>4. /\ Len(call.stack) >= 1 /\ local \in Seq(Links) /\ Len(local) = Len(call.stack)
      /\ \E lo, hi, k \in [1 .. Len(call.stack) -> Nat] :
           Frames(call.list, nodes, values, call.stack, local, lo, hi, k)
  BY <1>2 DEF Stacked
<1>5. depth \in Nat \ {0} /\ depth \in 1 .. depth
  BY <1>3, <1>4 DEF depth
<1>6. top \in FrameRecord
  BY <1>3, <1>5 DEF top, depth
<1>7. QED
  BY <1>2, <1>3, <1>4, <1>5, <1>6, NotCalls DEF depth

\* and of the frame that runs.
LEMMA TopFrame ==
    ASSUME IInv, call.fn = "List_mergesort",
           NEW lo \in [1 .. depth -> Nat], NEW hi \in [1 .. depth -> Nat], NEW k \in [1 .. depth -> Nat],
           Frames(call.list, nodes, values, call.stack, local, lo, hi, k)
    PROVE  /\ lo[depth] \in 1 .. Len(nodes) /\ k[depth] \in 1 .. Len(nodes) /\ hi[depth] \in 1 .. Len(nodes)
           /\ lo[depth] <= k[depth] /\ k[depth] <= hi[depth]
           /\ p_mid = nodes[k[depth]]
           /\ FrameAt(call.list, nodes, values, top, p_mid, TRUE, lo[depth], hi[depth], k[depth])
           /\ LeftCell(top.left, call.list, lo[depth]) /\ RightCell(top.right, call.list, hi[depth])
           /\ top.left # top.right
           /\ Read(Memory, top.left) = nodes[lo[depth]] /\ Read(Memory, top.right) = nodes[hi[depth]]
           /\ \A e \in Nat : top.right = <<"local", e>> => e \in 1 .. depth /\ e # depth /\ hi[depth] < Len(nodes)
<1> DEFINE x == call.list
           s == nodes
           n == depth
<1>1. /\ Sorting /\ n \in Nat \ {0} /\ n \in 1 .. n /\ Len(call.stack) = n /\ list[x] = EndsOf(s)
      /\ local \in Seq(Links) /\ Len(local) = n
  BY TopIs DEF depth
<1>2. OrderOK(s) /\ Linked(node, s) /\ Len(s) \in Nat /\ s = order[x]
  BY <1>1, NodesAre
<1>3. \A d \in 1 .. n :
        /\ lo[d] \in Nat /\ hi[d] \in Nat /\ k[d] \in Nat
        /\ 1 <= lo[d] /\ lo[d] <= k[d] /\ k[d] <= hi[d] /\ hi[d] <= Len(s)
        /\ local[d] = s[k[d]]
        /\ FrameAt(x, s, values, call.stack[d], local[d], d = n, lo[d], hi[d], k[d])
        /\ \A e \in 1 .. n : e < d =>
             Nested(call.stack, e, d, lo, hi, k) /\ call.stack[e].at \in {"left", "right"} /\ k[e] < hi[e]
  <2> DEFINE st == call.stack
             v == values
             loc == local
  <2>1. /\ Len(st) \in Nat \ {0} /\ Len(s) \in Nat
        /\ lo \in [1 .. Len(st) -> Nat] /\ hi \in [1 .. Len(st) -> Nat] /\ k \in [1 .. Len(st) -> Nat]
        /\ Frames(x, s, v, st, loc, lo, hi, k) /\ Len(st) = n
    BY <1>1, <1>2
  <2> HIDE DEF st, v, loc, x, s, n
  <2>2. FrameFacts(x, s, v, st, loc, lo, hi, k)
    BY ONLY <2>1, FramesFacts
  <2>3. n = Len(st)
    BY <2>1
  <2>4. FrameFacts(call.list, nodes, values, call.stack, local, lo, hi, k) /\ depth = Len(call.stack)
    BY <2>2, <2>3 DEF st, v, loc, x, s, n
  <2>5. QED
    BY ONLY <2>4 DEF FrameFacts, x, s, n
<1>4. FrameAt(x, s, values, top, p_mid, TRUE, lo[n], hi[n], k[n])
  <2>1. (n = n) = TRUE
    OBVIOUS
  <2>2. FrameAt(x, s, values, call.stack[n], local[n], n = n, lo[n], hi[n], k[n])
    BY <1>1, <1>3
  <2>3. QED
    BY <2>1, <2>2 DEF top, p_mid
<1>5. /\ lo[n] \in 1 .. Len(s) /\ k[n] \in 1 .. Len(s) /\ hi[n] \in 1 .. Len(s)
      /\ lo[n] <= k[n] /\ k[n] <= hi[n] /\ p_mid = s[k[n]]
  <2>1. /\ lo[n] \in Nat /\ hi[n] \in Nat /\ k[n] \in Nat /\ n \in 1 .. n
        /\ 1 <= lo[n] /\ lo[n] <= k[n] /\ k[n] <= hi[n] /\ hi[n] <= Len(s)
        /\ local[n] = s[k[n]]
    BY <1>1, <1>3
  <2>2. p_mid = s[k[n]]
    BY <2>1 DEF p_mid
  <2> HIDE DEF s, n
  <2>3. QED
    BY <1>2, <2>1, <2>2
<1>6. LeftCell(top.left, x, lo[n])
  <2>1. top.left = IF lo[n] = 1 THEN <<"first", x>> ELSE <<"next", s[lo[n] - 1]>>
    BY <1>4 DEF FrameAt
  <2>2. lo[n] = 1 => list[x].first = s[lo[n]]
    BY <1>1, <1>5 DEF EndsOf, At
  <2>3. lo[n] # 1 => lo[n] > 1
    BY <1>5
  <2>4. QED
    BY <1>2, <2>1, <2>2, <2>3 DEF LeftCell
<1>7. \A e \in Nat : top.right = <<"local", e>> =>
        e \in 1 .. n /\ e # n /\ hi[n] < Len(s) /\ local[e] = s[hi[n]] /\ e \in DOMAIN local
  <2> SUFFICES ASSUME NEW e \in Nat, top.right = <<"local", e>>
               PROVE  e \in 1 .. n /\ e # n /\ hi[n] < Len(s) /\ local[e] = s[hi[n]] /\ e \in DOMAIN local
    OBVIOUS
  <2>1. 1 <= e /\ e < n
    BY <1>1 DEF Frames, top
  <2>2. e \in 1 .. n /\ e # n
    BY <1>1, <2>1
  <2>3. Nested(call.stack, e, n, lo, hi, k) /\ k[e] < hi[e] /\ hi[e] <= Len(s)
        /\ k[e] \in Nat /\ hi[e] \in Nat /\ local[e] = s[k[e]]
    BY <1>1, <1>3, <2>1, <2>2
  <2>4. hi[n] = k[e]
    BY <2>3 DEF Nested, top
  <2>5. hi[n] < Len(s)
    BY <1>2, <2>3, <2>4
  <2>6. QED
    BY <1>1, <2>2, <2>3, <2>4, <2>5
<1>8. RightCell(top.right, x, hi[n])
  <2>1. CASE top.right = <<"last", x>> /\ hi[n] = Len(s)
    <3>1. list[x].last = s[hi[n]]
      BY <1>1, <1>5, <2>1 DEF EndsOf, At
    <3>2. QED
      BY <1>2, <2>1, <3>1 DEF RightCell
  <2>2. CASE \E e \in Nat : top.right = <<"local", e>>
    BY <1>2, <1>7, <2>2 DEF RightCell
  <2>3. QED
    BY <1>4, <2>1, <2>2 DEF FrameAt
<1>9. top.left # top.right
  <2>1. top.left = <<"first", x>> \/ top.left = <<"next", s[lo[n] - 1]>>
    BY <1>4 DEF FrameAt
  <2>2. top.right = <<"last", x>> \/ \E e \in Nat : top.right = <<"local", e>>
    BY <1>4 DEF FrameAt
  <2>3. QED
    BY <2>1, <2>2
<1>10. Read(Memory, top.left) = s[lo[n]] /\ Read(Memory, top.right) = s[hi[n]]
  <2>1. Read(Memory, top.left) = order[x][lo[n]]
    BY <1>2, <1>5, <1>6, LeftIs
  <2>2. Read(Memory, top.right) = order[x][hi[n]]
    BY <1>8, RightIs
  <2>3. QED
    BY <1>2, <2>1, <2>2
<1>11. QED
  BY <1>4, <1>5, <1>6, <1>7, <1>8, <1>9, <1>10

\* The innermost frame becomes f.
StackWith(st, f) == [st EXCEPT ![Len(st)] = f]

\* The stack with another top frame.
LEMMA StackWithIs ==
    ASSUME NEW st \in Seq(FrameRecord), NEW f \in FrameRecord, Len(st) \in Nat \ {0}
    PROVE  /\ StackWith(st, f) \in Seq(FrameRecord) /\ Len(StackWith(st, f)) = Len(st)
           /\ StackWith(st, f)[Len(st)] = f
           /\ \A d \in 1 .. Len(st) : d # Len(st) => StackWith(st, f)[d] = st[d]
BY DEF StackWith

\* A call with another stack is still one of List_mergesort.
LEMMA SortTyped ==
    ASSUME NEW c \in SortCall, NEW st \in Seq(FrameRecord)
    PROVE  LET d == [c EXCEPT !.stack = st]
           IN  d \in SortCall /\ d.list = c.list /\ d.stack = st /\ d.fn = "List_mergesort"
BY DEF SortCall

\* A step that moves only the variables of the frames.
LEMMA HalvesKeep ==
    ASSUME IInv, call.fn = "List_mergesort", Moves, NEW st \in Seq(FrameRecord),
           call' = [call EXCEPT !.stack = st],
           Stacked(call.list, nodes, values, st, local')
    PROVE  IInv'
<1>1. /\ Sorting /\ call \in SortCall /\ call # Idle /\ list[call.list] = EndsOf(nodes)
  BY TopIs
<1>2. call' \in SortCall /\ call'.list = call.list /\ call'.stack = st
  BY <1>1, SortTyped
<1>3. call' # Idle
  BY <1>2, NotCalls
<1>4. /\ Base' /\ Sorting' /\ nodes' = nodes /\ values' = values
      /\ node' = node /\ list' = list /\ order' = order
  BY <1>1, <1>2, <1>3, MovesKeep
<1>5. SortOK'
  BY <1>1, <1>2, <1>4 DEF SortOK
<1>6. QED
  BY <1>4, <1>5 DEF IInv, CallOK

\* The innermost frame and its p_mid change, the nodes do not.
LEMMA TopMoves ==
    ASSUME IInv, call.fn = "List_mergesort", Moves,
           NEW lo \in [1 .. depth -> Nat], NEW hi \in [1 .. depth -> Nat], NEW k \in [1 .. depth -> Nat],
           Frames(call.list, nodes, values, call.stack, local, lo, hi, k),
           NEW f \in FrameRecord, f.right = top.right, NEW c \in Nat, NEW mid \in Links,
           call' = [call EXCEPT !.stack = StackWith(call.stack, f)], local' = [local EXCEPT ![depth] = mid],
           FrameAt(call.list, nodes, values, f, mid, TRUE, lo[depth], hi[depth], c)
    PROVE  IInv'
<1> DEFINE x == call.list
           s == nodes
           v == values
           st == call.stack
           st2 == StackWith(call.stack, f)
           k2 == [k EXCEPT ![depth] = c]
           n == Len(st)
<1>1. /\ n \in Nat \ {0} /\ st \in Seq(FrameRecord) /\ depth = n
      /\ local \in Seq(Links) /\ Len(local) = n /\ n \in 1 .. n /\ Sorting
  BY TopIs DEF depth
<1>2. /\ st2 \in Seq(FrameRecord) /\ Len(st2) = n /\ st2[n] = f
      /\ \A d \in 1 .. n : d # n => st2[d] = st[d]
  BY <1>1, StackWithIs
<1>3. /\ local' \in Seq(Links) /\ Len(local') = n /\ local'[n] = mid
      /\ \A d \in 1 .. n : d # n => local'[d] = local[d]
  BY <1>1
<1>4. /\ k2 \in [1 .. n -> Nat] /\ k2[n] = c
      /\ \A d \in 1 .. n : d # n => k2[d] = k[d]
  BY <1>1
<1>5. Len(s) \in Nat
  BY <1>1, NodesAre
<1>6. \A d \in 1 .. n : d # n => FrameAt(x, s, v, st2[d], local'[d], FALSE, lo[d], hi[d], k2[d])
  <2> SUFFICES ASSUME NEW d \in 1 .. n, d # n
               PROVE  FrameAt(x, s, v, st2[d], local'[d], FALSE, lo[d], hi[d], k2[d])
    OBVIOUS
  <2>1. FrameAt(x, s, v, st[d], local[d], d = n, lo[d], hi[d], k[d])
    BY <1>1 DEF Frames
  <2>2. (d = n) = FALSE
    OBVIOUS
  <2>3. QED
    BY <1>2, <1>3, <1>4, <2>1, <2>2
<1>7. st2[n].right = st[n].right
  BY <1>1, <1>2 DEF top
<1>8. FrameAt(x, s, v, st2[n], local'[n], TRUE, lo[n], hi[n], k2[n])
  BY <1>1, <1>2, <1>3, <1>4
<1>9. /\ n \in Nat \ {0} /\ Len(st2) = n /\ Len(s) = Len(s)
      /\ Frames(x, s, v, st, local, lo, hi, k)
      /\ \A d \in 1 .. n : d # n =>
           /\ st2[d] = st[d] /\ k2[d] = k[d]
           /\ FrameAt(x, s, v, st2[d], local'[d], FALSE, lo[d], hi[d], k2[d])
  BY <1>1, <1>2, <1>4, <1>6
<1> HIDE DEF x, s, v, st, st2, k2
<1>10. Frames(x, s, v, st2, local', lo, hi, k2)
  BY ONLY <1>7, <1>8, <1>9, TopChanges
<1>11. Stacked(x, s, v, st2, local')
  <2>1. lo \in [1 .. Len(st2) -> Nat] /\ hi \in [1 .. Len(st2) -> Nat] /\ k2 \in [1 .. Len(st2) -> Nat]
    BY <1>1, <1>2, <1>4
  <2>2. Len(st2) >= 1
    BY <1>1, <1>2
  <2>3. QED
    BY <1>2, <1>3, <1>10, <2>1, <2>2 DEF Stacked
<1>12. QED
  BY <1>2, <1>11, HalvesKeep DEF x, s, v, st2, st

\* One step of the loop that looks for the middle.
LEMMA HalveKeeps ==
    ASSUME IInv, Halve
    PROVE  IInv'
<1> DEFINE x == call.list
           s == nodes
           v == values
<1>1. /\ call.fn = "List_mergesort" /\ top.at = "halve" /\ top.helper # Read(Memory, top.right) /\ Moves
  BY DEF Halve
<1>2. /\ depth \in Nat \ {0} /\ call.stack \in Seq(FrameRecord) /\ top \in FrameRecord /\ call \in SortCall
      /\ local \in Seq(Links) /\ Len(local) = depth /\ depth \in 1 .. depth /\ Sorting /\ depth = Len(call.stack)
  BY <1>1, TopIs DEF depth
<1>3. PICK lo \in [1 .. depth -> Nat], hi \in [1 .. depth -> Nat], k \in [1 .. depth -> Nat] :
        Frames(x, s, v, call.stack, local, lo, hi, k)
  BY <1>1, TopIs
<1> DEFINE lod == lo[depth]
           hid == hi[depth]
           kd == k[depth]
<1>4. /\ lod \in 1 .. Len(s) /\ kd \in 1 .. Len(s) /\ hid \in 1 .. Len(s)
      /\ lod <= kd /\ kd <= hid /\ p_mid = s[kd]
      /\ FrameAt(x, s, v, top, p_mid, TRUE, lod, hid, kd)
      /\ Read(Memory, top.right) = s[hid]
  BY <1>1, <1>3, TopFrame
<1> HIDE DEF lod, hid, kd
<1>5. Len(s) \in Nat
  BY <1>2, NodesAre
<1>6. PICK g \in kd .. hid : top.helper = s[g] /\ (g = kd => g = lod)
  BY <1>1, <1>4 DEF FrameAt
<1>7. g \in 1 .. Len(s) /\ g < hid /\ g + 1 \in 1 .. Len(s) /\ g + 1 \in kd .. hid /\ g + 1 # kd /\ kd < Len(s)
      /\ kd < hid /\ kd + 1 \in 1 .. Len(s)
  <2>1. g # hid
    BY <1>1, <1>4, <1>6
  <2>2. QED
    BY <1>4, <1>5, <2>1
<1> DEFINE next == node[top.helper].next
<1>8. next = s[g + 1] /\ next \in Links /\ node[p_mid].next = s[kd + 1] /\ node[p_mid].next \in Links
  <2>1. /\ \A a \in 1 .. Len(s) : s[a] \in Links
        /\ \A a \in 1 .. Len(s) : a < Len(s) => node[s[a]].next = s[a + 1]
    BY <1>2, NextIs
  <2>2. g < Len(s)
    BY <1>4, <1>5, <1>7
  <2>3. next = s[g + 1] /\ s[g + 1] \in Links
    BY <1>6, <1>7, <2>1, <2>2
  <2>4. node[p_mid].next = s[kd + 1] /\ s[kd + 1] \in Links
    BY <1>4, <1>7, <2>1
  <2>5. QED
    BY <2>3, <2>4
<1>9. \A h \in Links : LET f == [top EXCEPT !.helper = h]
                       IN  /\ f \in FrameRecord /\ f.left = top.left /\ f.right = top.right /\ f.at = "halve"
                           /\ f.helper = h
  BY <1>1, <1>2 DEF FrameRecord
<1>10. \A h \in Links : [call EXCEPT !.stack[depth].helper = h]
                        = [call EXCEPT !.stack = StackWith(call.stack, [top EXCEPT !.helper = h])]
  BY <1>2 DEF StackWith, top
<1>11. CASE next = Read(Memory, top.right)
  <2> DEFINE f == [top EXCEPT !.helper = next]
  <2>1. call' = [call EXCEPT !.stack[depth].helper = next] /\ local' = local
    BY <1>11 DEF Halve
  <2>2. call' = [call EXCEPT !.stack = StackWith(call.stack, f)]
    BY <1>8, <1>10, <2>1
  <2>3. f \in FrameRecord /\ f.left = top.left /\ f.right = top.right /\ f.at = "halve" /\ f.helper = s[g + 1]
    BY <1>8, <1>9
  <2>4. local' = [local EXCEPT ![depth] = p_mid]
    BY <1>2, <2>1 DEF p_mid
  <2>5. p_mid \in Links
    BY <1>2 DEF p_mid
  <2> HIDE DEF f
  <2>6. FrameAt(x, s, v, f, p_mid, TRUE, lod, hid, kd)
    BY <1>1, <1>4, <1>7, <2>3 DEF FrameAt
  <2>7. kd \in Nat
    BY <1>4
  <2>8. QED
    BY <1>1, <1>3, <2>2, <2>3, <2>4, <2>5, <2>6, <2>7, TopMoves DEF lod, hid
<1>12. CASE next # Read(Memory, top.right)
  <2> DEFINE h == node[next].next
             f == [top EXCEPT !.helper = h]
             mid == node[p_mid].next
  <2>1. call' = [call EXCEPT !.stack[depth].helper = h] /\ local' = [local EXCEPT ![depth] = mid]
    BY <1>2, <1>12 DEF Halve, p_mid
  <2>2. g + 1 < hid /\ g + 1 + 1 \in 1 .. Len(s) /\ g + 1 + 1 \in kd + 1 .. hid /\ g + 1 + 1 # kd + 1
    <3>1. g + 1 # hid
      BY <1>4, <1>8, <1>12
    <3>2. QED
      BY <1>4, <1>5, <1>6, <1>7, <3>1
  <2>3. h = s[g + 1 + 1] /\ h \in Links
    BY <1>2, <1>7, <1>8, <2>2, NextIs
  <2>4. call' = [call EXCEPT !.stack = StackWith(call.stack, f)]
    BY <1>10, <2>1, <2>3
  <2>5. f \in FrameRecord /\ f.left = top.left /\ f.right = top.right /\ f.at = "halve" /\ f.helper = s[g + 1 + 1]
    BY <1>9, <2>3
  <2> HIDE DEF f, mid
  <2>6. mid = s[kd + 1] /\ mid \in Links
    BY <1>8 DEF mid
  <2>7. FrameAt(x, s, v, f, mid, TRUE, lod, hid, kd + 1)
    <3>1. 1 <= lod /\ lod <= kd + 1 /\ kd + 1 <= hid /\ hid <= Len(s)
      BY <1>4, <1>7
    <3>2. /\ top.left = IF lod = 1 THEN <<"first", x>> ELSE <<"next", s[lod - 1]>>
          /\ (top.right = <<"last", x>> /\ hid = Len(s)) \/ \E e \in Nat : top.right = <<"local", e>>
      BY <1>4 DEF FrameAt
    <3>3. QED
      BY <2>2, <2>5, <2>6, <3>1, <3>2 DEF FrameAt
  <2>8. kd + 1 \in Nat
    BY <1>4
  <2>9. QED
    BY <1>1, <1>3, <2>1, <2>4, <2>5, <2>6, <2>7, <2>8, TopMoves DEF lod, hid
<1>13. QED
  BY <1>11, <1>12

\* A call of __List_sort starts at the first node of its segment.
LEMMA FrameStarts ==
    ASSUME IInv, Sorting, NEW left, NEW right, NEW a \in 1 .. Len(nodes), NEW b \in 1 .. Len(nodes), a <= b,
           left \in ({"first"} \X Lists) \cup ({"next"} \X Nodes),
           right \in ({"last"} \X Lists) \cup ({"local"} \X Nat),
           left = IF a = 1 THEN <<"first", call.list>> ELSE <<"next", nodes[a - 1]>>,
           (right = <<"last", call.list>> /\ b = Len(nodes)) \/ \E e \in Nat : right = <<"local", e>>,
           Read(Memory, left) = nodes[a]
    PROVE  /\ Frame(left, right) \in FrameRecord /\ Frame(left, right).right = right
           /\ FrameAt(call.list, nodes, values, Frame(left, right), nodes[a], TRUE, a, b, a)
<1> DEFINE f == Frame(left, right)
<1>1. nodes[a] \in Links /\ Len(nodes) \in Nat /\ NULL \in Links
  BY NextIs, NodesAre DEF Links
<1>2. f = [left |-> left, right |-> right, helper |-> nodes[a], at |-> "halve", l |-> NULL, m |-> NULL, end |-> NULL]
  BY DEF Frame
<1>3. f \in FrameRecord
  BY <1>1, <1>2 DEF FrameRecord
<1>4. f.left = left /\ f.right = right /\ f.helper = nodes[a] /\ f.at = "halve"
  BY <1>2
<1> HIDE DEF f
<1>5. a \in a .. b /\ 1 <= a /\ b <= Len(nodes) /\ a <= b
  BY <1>1
<1>6. FrameAt(call.list, nodes, values, f, nodes[a], TRUE, a, b, a)
  BY <1>4, <1>5 DEF FrameAt
<1>7. QED
  BY <1>3, <1>4, <1>6 DEF f

\* The first call sorts the whole list.
LEMMA MergesortBegins ==
    ASSUME IInv, NEW x \in DOMAIN list, List_mergesort(x), HasPairs(x)
    PROVE  IInv'
<1> DEFINE s == order[x]
           left == <<"first", x>>
           right == <<"last", x>>
           f == Frame(left, right)
           c == [fn |-> "List_mergesort", list |-> x, stack |-> << f >>]
<1>1. list[x].count > 1 /\ Begins(x, c, << list[x].first >>)
  BY DEF List_mergesort, HasPairs
<1>2. c # Idle /\ c.list = x /\ c.stack = << f >>
  BY DEF Idle
<1>3. /\ Base' /\ Sorting' /\ call' = c /\ local' = << list[x].first >>
      /\ nodes' = s /\ values' = Contents(x)
      /\ node' = node /\ list' = list /\ order' = order /\ list[x] = EndsOf(s) /\ OrderOK(s)
  BY <1>1, <1>2, BeginsKeeps
<1>4. x \in Lists
  BY DEF IInv, Base
<1>5. Len(s) \in Nat /\ Len(s) > 1 /\ 1 \in 1 .. Len(s) /\ Len(s) \in 1 .. Len(s) /\ list[x].first = s[1] /\ s[1] \in Links
  <2>1. Len(s) \in Nat /\ Len(s) > 1 /\ list[x].first = At(s, 1)
    BY <1>1, <1>3, AtIs DEF EndsOf
  <2>2. 1 \in 1 .. Len(s)
    BY <2>1
  <2>3. QED
    BY <1>3, <2>1, <2>2, AtIs DEF Links
<1>6. f = [left |-> left, right |-> right, helper |-> s[1], at |-> "halve", l |-> NULL, m |-> NULL, end |-> NULL]
  BY <1>5 DEF Frame, Read, Memory
<1>7. f \in FrameRecord
  <2>1. left \in {"first"} \X Lists /\ right \in {"last"} \X Lists /\ NULL \in Links
    BY <1>4 DEF Links
  <2>2. QED
    BY <1>5, <1>6, <2>1 DEF FrameRecord
<1>8. f.left = left /\ f.right = right /\ f.helper = s[1] /\ f.at = "halve"
  BY <1>6
<1> HIDE DEF f
<1>9. FrameAt(x, s, Contents(x), f, s[1], TRUE, 1, Len(s), 1)
  <2>1. 1 \in 1 .. Len(s) /\ 1 <= Len(s)
    BY <1>5
  <2>2. QED
    BY <1>5, <1>8, <2>1 DEF FrameAt
<1> DEFINE lo == [d \in 1 .. 1 |-> 1]
           hi == [d \in 1 .. 1 |-> Len(s)]
           st == << f >>
           loc == << s[1] >>
<1>10. lo \in [1 .. 1 -> Nat] /\ hi \in [1 .. 1 -> Nat] /\ Len(st) = 1 /\ st[1] = f /\ loc[1] = s[1]
       /\ lo[1] = 1 /\ hi[1] = Len(s) /\ loc \in Seq(Links) /\ Len(loc) = 1 /\ st \in Seq(FrameRecord)
  BY <1>5, <1>7
<1>11. \A d \in 1 .. 1 : d = 1 /\ \A e \in 1 .. 1 : ~(e < d)
  OBVIOUS
<1>12. \A e \in Nat : f.right # <<"local", e>>
  BY <1>8
<1> HIDE DEF lo, hi, st, loc, s
<1>13. Frames(x, s, Contents(x), st, loc, lo, hi, lo)
  <2>1. (1 = Len(st)) = TRUE
    BY <1>10
  <2>2. FrameAt(x, s, Contents(x), st[1], loc[1], 1 = Len(st), lo[1], hi[1], lo[1])
    BY <1>9, <1>10, <2>1
  <2>3. QED
    BY <1>10, <1>11, <1>12, <2>2 DEF Frames
<1>14. Stacked(x, s, Contents(x), st, loc)
  BY <1>10, <1>13 DEF Stacked
<1>15. c \in SortCall
  BY <1>4, <1>10 DEF SortCall, st
<1>16. SortOK'
  <2>1. Stacked(call.list, nodes, values, call.stack, local)'
    BY <1>2, <1>3, <1>5, <1>14 DEF st, loc
  <2>2. QED
    BY <1>2, <1>3, <1>15, <2>1 DEF SortOK, s
<1>17. QED
  BY <1>3, <1>16 DEF IInv, CallOK

\* __List_sort calls itself for a .. b.
LEMMA RecurseKeeps ==
    ASSUME IInv, call.fn = "List_mergesort",
           NEW at \in {"left", "right"}, NEW left, NEW right, Recurse(at, left, right),
           NEW lo \in [1 .. depth -> Nat], NEW hi \in [1 .. depth -> Nat], NEW k \in [1 .. depth -> Nat],
           Frames(call.list, nodes, values, call.stack, local, lo, hi, k),
           NEW a \in 1 .. Len(nodes), NEW b \in 1 .. Len(nodes),
           Frame(left, right) \in FrameRecord, Frame(left, right).right = right,
           FrameAt(call.list, nodes, values, Frame(left, right), nodes[a], TRUE, a, b, a),
           Read(Memory, left) = nodes[a],
           FrameAt(call.list, nodes, values, [top EXCEPT !.at = at], p_mid, FALSE, lo[depth], hi[depth], k[depth]),
           k[depth] < hi[depth],
           \/ at = "left" /\ a = lo[depth] /\ b = k[depth] /\ right = <<"local", depth>>
           \/ at = "right" /\ a = k[depth] + 1 /\ b = hi[depth] /\ right = top.right
    PROVE  IInv'
<1> DEFINE x == call.list
           s == nodes
           v == values
           st == call.stack
           f == [top EXCEPT !.at = at]
           g == Frame(left, right)
           st1 == StackWith(call.stack, f)
           st2 == Append(st1, g)
           n == Len(st)
           loc2 == Append(local, nodes[a])
<1>1. /\ n \in Nat \ {0} /\ st \in Seq(FrameRecord) /\ depth = n /\ top \in FrameRecord /\ top = st[n]
      /\ local \in Seq(Links) /\ Len(local) = n /\ n \in 1 .. n /\ Sorting
  BY TopIs DEF depth, top
<1>2. f \in FrameRecord /\ f.at = at /\ f.right = top.right
  BY <1>1 DEF FrameRecord
<1>3. /\ st1 \in Seq(FrameRecord) /\ Len(st1) = n /\ st1[n] = f
      /\ \A d \in 1 .. n : d # n => st1[d] = st[d]
  BY <1>1, <1>2, StackWithIs
<1>4. call' = [call EXCEPT !.stack = st2] /\ local' = loc2 /\ Moves
  BY <1>1 DEF Recurse, StackWith, top, depth
<1>5. nodes[a] \in Links /\ Len(s) \in Nat
  BY <1>1, NextIs, NodesAre
<1> HIDE DEF f, g, st1
<1>6. /\ st2 \in Seq(FrameRecord) /\ Len(st2) = n + 1 /\ st2[n + 1] = g /\ \A d \in 1 .. n : st2[d] = st1[d]
  BY <1>3 DEF g
<1>7. /\ loc2 \in Seq(Links) /\ Len(loc2) = n + 1 /\ loc2[n + 1] = nodes[a] /\ \A d \in 1 .. n : loc2[d] = local[d]
  BY <1>1, <1>5
<1>8. \A d \in 1 .. n : loc2[d] = local[d] /\ st2[d].right = st[d].right /\ (d # n => st2[d] = st[d])
  BY <1>1, <1>2, <1>3, <1>6, <1>7
<1>9. st2[n] = f
  BY <1>1, <1>3, <1>6
<1>10. FrameAt(x, s, v, st2[n], local[n], FALSE, lo[n], hi[n], k[n])
  BY <1>1, <1>9 DEF f, p_mid
<1>11. FrameAt(x, s, v, st2[n + 1], loc2[n + 1], TRUE, a, b, a)
  BY <1>6, <1>7 DEF g
<1>12. \/ st2[n].at = "left" /\ a = lo[n] /\ b = k[n] /\ st2[n + 1].right = <<"local", n>>
       \/ st2[n].at = "right" /\ a = k[n] + 1 /\ b = hi[n] /\ st2[n + 1].right = st[n].right
  BY <1>1, <1>2, <1>6, <1>9 DEF g
<1>13. /\ n \in Nat \ {0} /\ Len(s) \in Nat /\ Len(st2) = n + 1 /\ a \in Nat /\ b \in Nat
       /\ lo \in [1 .. n -> Nat] /\ hi \in [1 .. n -> Nat] /\ k \in [1 .. n -> Nat]
       /\ Frames(x, s, v, st, local, lo, hi, k) /\ k[n] < hi[n]
  BY <1>1, <1>5, <1>6
<1> HIDE DEF x, s, v, st, st2, loc2
<1>14. \E lo2, hi2, k2 \in [1 .. Len(st2) -> Nat] : Frames(x, s, v, st2, loc2, lo2, hi2, k2)
  BY ONLY <1>8, <1>10, <1>11, <1>12, <1>13, FramePushed, ZenonT(30)
<1>15. Stacked(x, s, v, st2, loc2)
  <2>1. Len(st2) >= 1 /\ Len(loc2) = Len(st2)
    BY <1>6, <1>7, <1>13
  <2>2. QED
    BY <1>7, <1>14, <2>1 DEF Stacked
<1>16. QED
  BY <1>4, <1>6, <1>15, HalvesKeep DEF x, s, v

\* The call that sorts the left half ends it at p_mid of its caller,
LEMMA SortLeftKeeps ==
    ASSUME IInv, SortLeft
    PROVE  IInv'
<1> DEFINE x == call.list
           s == nodes
           v == values
           left == top.left
           right == <<"local", depth>>
           f == [top EXCEPT !.at = "left"]
<1>1. /\ call.fn = "List_mergesort" /\ top.at = "halve" /\ top.helper = Read(Memory, top.right)
      /\ p_mid # top.helper /\ Recurse("left", left, right)
  BY DEF SortLeft, Halved
<1>2. /\ depth \in Nat \ {0} /\ call.stack \in Seq(FrameRecord) /\ top \in FrameRecord
      /\ depth \in 1 .. depth /\ Sorting
  BY <1>1, TopIs
<1>3. PICK lo \in [1 .. depth -> Nat], hi \in [1 .. depth -> Nat], k \in [1 .. depth -> Nat] :
        Frames(x, s, v, call.stack, local, lo, hi, k)
  BY <1>1, TopIs
<1> DEFINE lod == lo[depth]
           hid == hi[depth]
           kd == k[depth]
<1>4. /\ lod \in 1 .. Len(s) /\ kd \in 1 .. Len(s) /\ hid \in 1 .. Len(s)
      /\ lod <= kd /\ kd <= hid /\ p_mid = s[kd]
      /\ FrameAt(x, s, v, top, p_mid, TRUE, lod, hid, kd)
      /\ Read(Memory, top.right) = s[hid] /\ Read(Memory, left) = s[lod]
  BY <1>1, <1>3, TopFrame
<1>5. kd < hid
  <2>1. kd # hid
    BY <1>1, <1>4
  <2> HIDE DEF kd, hid
  <2>2. QED
    BY <1>4, <2>1
<1>6. /\ left = IF lod = 1 THEN <<"first", x>> ELSE <<"next", s[lod - 1]>>
      /\ (top.right = <<"last", x>> /\ hid = Len(s)) \/ \E e \in Nat : top.right = <<"local", e>>
  BY <1>4 DEF FrameAt
<1>7. left \in ({"first"} \X Lists) \cup ({"next"} \X Nodes) /\ right \in ({"last"} \X Lists) \cup ({"local"} \X Nat)
  BY <1>2 DEF FrameRecord
<1>8. /\ Frame(left, right) \in FrameRecord /\ Frame(left, right).right = right
      /\ FrameAt(x, s, v, Frame(left, right), s[lod], TRUE, lod, kd, lod)
  <2>1. (right = <<"last", x>> /\ kd = Len(nodes)) \/ \E e \in Nat : right = <<"local", e>>
    BY <1>2
  <2> HIDE DEF left, right, lod, hid, kd
  <2>2. QED
    BY <1>2, <1>4, <1>6, <1>7, <2>1, FrameStarts
<1>9. FrameAt(x, s, v, f, p_mid, FALSE, lod, hid, kd)
  <2>1. f.left = left /\ f.right = top.right /\ f.at = "left"
    BY <1>2 DEF FrameRecord
  <2>2. 1 <= lod /\ lod <= kd /\ kd <= hid /\ hid <= Len(s)
    BY <1>4 DEF FrameAt
  <2> HIDE DEF f, left, lod, hid, kd
  <2>3. QED
    BY <1>4, <1>5, <1>6, <2>1, <2>2 DEF FrameAt
<1> HIDE DEF left, right
<1>10. "left" \in {"left", "right"}
  OBVIOUS
<1>11. "left" = "left" /\ lod = lo[depth] /\ kd = k[depth] /\ right = <<"local", depth>>
  BY DEF right
<1>12. QED
  BY <1>1, <1>3, <1>4, <1>5, <1>8, <1>9, <1>10, <1>11, RecurseKeeps

\* and the one that sorts the right half starts at the next of that p_mid.
LEMMA SortRightKeeps ==
    ASSUME IInv, SortRight
    PROVE  IInv'
<1> DEFINE x == call.list
           s == nodes
           v == values
           left == <<"next", p_mid>>
           right == top.right
           f == [top EXCEPT !.at = "right"]
<1>1. /\ call.fn = "List_mergesort" /\ top.at = "left" /\ Recurse("right", left, right)
  BY DEF SortRight
<1>2. /\ depth \in Nat \ {0} /\ call.stack \in Seq(FrameRecord) /\ top \in FrameRecord
      /\ depth \in 1 .. depth /\ Sorting
  BY <1>1, TopIs
<1>3. PICK lo \in [1 .. depth -> Nat], hi \in [1 .. depth -> Nat], k \in [1 .. depth -> Nat] :
        Frames(x, s, v, call.stack, local, lo, hi, k)
  BY <1>1, TopIs
<1> DEFINE lod == lo[depth]
           hid == hi[depth]
           kd == k[depth]
<1>4. /\ lod \in 1 .. Len(s) /\ kd \in 1 .. Len(s) /\ hid \in 1 .. Len(s)
      /\ lod <= kd /\ kd <= hid /\ p_mid = s[kd]
      /\ FrameAt(x, s, v, top, p_mid, TRUE, lod, hid, kd)
  BY <1>1, <1>3, TopFrame
<1>5. kd < hid /\ Ordered(v, lod, kd)
  BY <1>1, <1>4 DEF FrameAt
<1>6. /\ top.left = IF lod = 1 THEN <<"first", x>> ELSE <<"next", s[lod - 1]>>
      /\ (right = <<"last", x>> /\ hid = Len(s)) \/ \E e \in Nat : right = <<"local", e>>
  BY <1>4 DEF FrameAt
<1>7. Len(s) \in Nat /\ OrderOK(s)
  BY <1>2, NodesAre
<1>8. kd + 1 \in 1 .. Len(s) /\ kd + 1 <= hid /\ kd + 1 # 1 /\ kd + 1 - 1 = kd /\ kd < Len(s)
  <2> HIDE DEF lod, hid, kd, s
  <2>1. QED
    BY <1>4, <1>5, <1>7
<1>9. Read(Memory, left) = s[kd + 1]
  <2>1. Read(Memory, left) = node[p_mid].next
    BY DEF Read, Memory
  <2>2. node[s[kd]].next = s[kd + 1]
    BY <1>2, <1>4, <1>8, NextIs
  <2>3. QED
    BY <1>4, <2>1, <2>2
<1>10. left \in ({"first"} \X Lists) \cup ({"next"} \X Nodes) /\ right \in ({"last"} \X Lists) \cup ({"local"} \X Nat)
  <2>1. p_mid \in Nodes
    BY <1>4, <1>7, AtIs
  <2>2. QED
    BY <1>2, <2>1 DEF FrameRecord
<1>11. left = IF kd + 1 = 1 THEN <<"first", x>> ELSE <<"next", s[kd + 1 - 1]>>
  BY <1>4, <1>8
<1>12. /\ Frame(left, right) \in FrameRecord /\ Frame(left, right).right = right
       /\ FrameAt(x, s, v, Frame(left, right), s[kd + 1], TRUE, kd + 1, hid, kd + 1)
  <2> DEFINE a == kd + 1
  <2>1. /\ a \in 1 .. Len(s) /\ a <= hid /\ Read(Memory, left) = s[a]
        /\ left = IF a = 1 THEN <<"first", x>> ELSE <<"next", s[a - 1]>>
    <3> HIDE DEF left, kd, hid, s
    <3>1. QED
      BY ONLY <1>4, <1>7, <1>8, <1>9, <1>11 DEF a
  <2> HIDE DEF left, right, lod, hid, kd, a
  <2>2. /\ Frame(left, right) \in FrameRecord /\ Frame(left, right).right = right
        /\ FrameAt(x, s, v, Frame(left, right), s[a], TRUE, a, hid, a)
    BY <1>2, <1>4, <1>6, <1>10, <2>1, FrameStarts
  <2>3. QED
    BY <2>2 DEF a
<1>13. FrameAt(x, s, v, f, p_mid, FALSE, lod, hid, kd)
  <2>1. f.left = top.left /\ f.right = right /\ f.at = "right"
    BY <1>2 DEF FrameRecord
  <2>2. 1 <= lod /\ lod <= kd /\ kd <= hid /\ hid <= Len(s)
    BY <1>4 DEF FrameAt
  <2> HIDE DEF f, right, lod, hid, kd
  <2>3. QED
    BY <1>4, <1>5, <1>6, <2>1, <2>2 DEF FrameAt
<1> HIDE DEF left, right
<1>14. "right" \in {"left", "right"}
  OBVIOUS
<1>15. "right" = "right" /\ kd + 1 = k[depth] + 1 /\ hid = hi[depth] /\ right = top.right
  BY DEF right
<1>16. QED
  BY <1>1, <1>3, <1>4, <1>5, <1>8, <1>9, <1>12, <1>13, <1>14, <1>15, RecurseKeeps

\* The call of __List_merge with the two sorted halves.
LEMMA MergeHalvesKeeps ==
    ASSUME IInv, MergeHalves
    PROVE  IInv'
<1> DEFINE x == call.list
           s == nodes
           v == values
           f == MergeStart(top, top.left, top.right, p_mid)
<1>1. /\ call.fn = "List_mergesort" /\ top.at = "right" /\ Moves /\ local' = local
      /\ call' = [call EXCEPT !.stack[depth] = MergeStart(@, top.left, top.right, p_mid)]
  BY DEF MergeHalves
<1>2. /\ depth \in Nat \ {0} /\ call.stack \in Seq(FrameRecord) /\ top \in FrameRecord /\ call \in SortCall
      /\ local \in Seq(Links) /\ Len(local) = depth /\ depth \in 1 .. depth /\ Sorting /\ depth = Len(call.stack)
  BY <1>1, TopIs DEF depth
<1>3. PICK lo \in [1 .. depth -> Nat], hi \in [1 .. depth -> Nat], k \in [1 .. depth -> Nat] :
        Frames(x, s, v, call.stack, local, lo, hi, k)
  BY <1>1, TopIs
<1> DEFINE lod == lo[depth]
           hid == hi[depth]
           kd == k[depth]
<1>4. /\ lod \in 1 .. Len(s) /\ kd \in 1 .. Len(s) /\ hid \in 1 .. Len(s)
      /\ lod <= kd /\ kd <= hid /\ p_mid = s[kd]
      /\ FrameAt(x, s, v, top, p_mid, TRUE, lod, hid, kd)
      /\ Read(Memory, top.left) = s[lod] /\ Read(Memory, top.right) = s[hid]
  BY <1>1, <1>3, TopFrame
<1> HIDE DEF lod, hid, kd
<1>5. /\ kd < hid /\ Ordered(v, lod, kd) /\ Ordered(v, kd + 1, hid)
      /\ top.left = IF lod = 1 THEN <<"first", x>> ELSE <<"next", s[lod - 1]>>
      /\ (top.right = <<"last", x>> /\ hid = Len(s)) \/ \E e \in Nat : top.right = <<"local", e>>
  BY <1>1, <1>4 DEF FrameAt
<1>6. Len(s) \in Nat /\ OrderOK(s)
  BY <1>2, NodesAre
<1>7. /\ kd + 1 \in 1 .. Len(s) /\ kd < Len(s) /\ kd + 1 - 1 = kd /\ lod \in Int /\ hid \in Int /\ kd \in Int
      /\ lod <= lod /\ lod <= kd + 1 /\ lod <= hid /\ lod < kd + 1 /\ kd + 1 <= hid + 1 /\ lod \in lod .. hid
  BY <1>4, <1>5, <1>6
<1>8. node[p_mid].next = s[kd + 1] /\ s[kd + 1] \in Links /\ At(s, kd + 1) = s[kd + 1]
  <2>1. node[s[kd]].next = s[kd + 1]
    BY <1>2, <1>4, <1>7, NextIs
  <2>2. QED
    BY <1>2, <1>4, <1>7, <2>1, NextIs DEF At
<1>9. node[s[hid]].next = At(s, hid + 1) /\ At(s, hid + 1) \in Links /\ s[lod] \in Links
  <2>1. node[s[hid]].next = At(s, hid + 1)
    BY <1>2, <1>4, NextIs
  <2>2. At(s, hid + 1) \in Links
    BY <1>6, <1>7, AtIs
  <2>3. QED
    BY <1>2, <1>4, <2>1, <2>2, NextIs
<1>10. f = [top EXCEPT !.at = "merge", !.l = s[lod], !.m = s[kd + 1], !.end = At(s, hid + 1)]
  BY <1>4, <1>8, <1>9 DEF MergeStart
<1>11. /\ f \in FrameRecord /\ f.left = top.left /\ f.right = top.right /\ f.at = "merge"
       /\ f.l = s[lod] /\ f.m = s[kd + 1] /\ f.end = At(s, hid + 1)
  <2>1. f \in FrameRecord
    BY <1>2, <1>8, <1>9, <1>10 DEF FrameRecord
  <2>2. f.left = top.left /\ f.right = top.right /\ f.at = "merge"
    BY <1>2, <1>10 DEF FrameRecord
  <2>3. f.l = s[lod] /\ f.m = s[kd + 1] /\ f.end = At(s, hid + 1)
    BY <1>2, <1>10 DEF FrameRecord
  <2>4. QED
    BY <2>1, <2>2, <2>3
<1> HIDE DEF f
<1>12. MergeAt(s, v, f, p_mid, lod, lod, kd + 1, hid)
  <2>1. InMerge(v, lod, lod, kd + 1, hid)
    BY <1>5, <1>7, MergeStarts
  <2>2. QED
    BY <1>4, <1>7, <1>8, <1>11, <2>1 DEF MergeAt
<1>13. FrameAt(x, s, v, f, p_mid, TRUE, lod, hid, kd)
  <2>1. 1 <= lod /\ lod <= kd /\ kd <= hid /\ hid <= Len(s)
    BY <1>4 DEF FrameAt
  <2>2. \E i \in lod .. hid : MergeAt(s, v, f, p_mid, lod, i, kd + 1, hid)
    BY <1>7, <1>12
  <2>3. QED
    BY <1>4, <1>5, <1>11, <2>1, <2>2 DEF FrameAt
<1>14. call' = [call EXCEPT !.stack = StackWith(call.stack, f)]
  BY <1>1, <1>2 DEF StackWith, top, f
<1>15. local' = [local EXCEPT ![depth] = p_mid] /\ p_mid \in Links /\ kd \in Nat
  <2>1. p_mid \in Links /\ kd \in Nat
    BY <1>2, <1>4 DEF p_mid
  <2>2. QED
    BY <1>1, <1>2, <2>1 DEF p_mid
<1>16. QED
  BY <1>1, <1>3, <1>11, <1>13, <1>14, <1>15, TopMoves DEF lod, hid

\* One round of that merge: the callers still have their segments.
LEMMA MergeRoundOfHalvesKeeps ==
    ASSUME IInv, MergeRoundOfHalves
    PROVE  IInv' /\ OthersShown /\ DOMAIN list' = DOMAIN list
<1> DEFINE x == call.list
           s == nodes
           v == values
           st == call.stack
           f == AfterRound(top)
           st2 == StackWith(call.stack, f)
           n == Len(st)
<1>1. /\ call.fn = "List_mergesort" /\ Merging(top) /\ top.at = "merge" /\ MergeRound(top, top.left, top.right, p_mid)
      /\ call' = [call EXCEPT !.stack[depth] = AfterRound(@)]
  BY DEF MergeRoundOfHalves, Merging
<1>2. /\ n \in Nat \ {0} /\ st \in Seq(FrameRecord) /\ top \in FrameRecord /\ call \in SortCall /\ call # Idle
      /\ local \in Seq(Links) /\ Len(local) = n /\ n \in 1 .. n /\ Sorting /\ depth = n /\ top = st[n]
      /\ list[x] = EndsOf(s)
  BY <1>1, TopIs DEF depth, top
<1>3. PICK lo \in [1 .. depth -> Nat], hi \in [1 .. depth -> Nat], k \in [1 .. depth -> Nat] :
        Frames(x, s, v, call.stack, local, lo, hi, k)
  BY <1>1, TopIs
<1> DEFINE lod == lo[depth]
           hid == hi[depth]
           kd == k[depth]
<1>4. /\ lod \in 1 .. Len(s) /\ kd \in 1 .. Len(s) /\ hid \in 1 .. Len(s)
      /\ lod <= kd /\ kd <= hid /\ p_mid = s[kd]
      /\ FrameAt(x, s, v, top, p_mid, TRUE, lod, hid, kd)
      /\ LeftCell(top.left, x, lod) /\ RightCell(top.right, x, hid) /\ top.left # top.right
      /\ \A e \in Nat : top.right = <<"local", e>> => e \in 1 .. depth /\ e # depth /\ hid < Len(s)
  BY <1>1, <1>3, TopFrame
<1> HIDE DEF lod, hid, kd
<1>5. /\ top.left = IF lod = 1 THEN <<"first", x>> ELSE <<"next", s[lod - 1]>>
      /\ (top.right = <<"last", x>> /\ hid = Len(s)) \/ \E e \in Nat : top.right = <<"local", e>>
      /\ \E i \in lod .. hid : MergeAt(s, v, top, p_mid, lod, i, kd + 1, hid)
  BY <1>1, <1>4 DEF FrameAt
<1>6. PICK i0 \in lod .. hid : MergeAt(s, v, top, p_mid, lod, i0, kd + 1, hid)
  BY <1>5
<1>7. Len(s) \in Nat /\ OrderOK(s) /\ Heap(node) /\ Linked(node, s) /\ i0 \in Int /\ kd + 1 \in Int /\ x \in DOMAIN list
  BY <1>2, <1>4, NodesAre
<1>8. /\ top.l \in DOMAIN node /\ top.m \in DOMAIN node
  <2>1. i0 \in 1 .. Len(s) /\ kd + 1 \in 1 .. Len(s) /\ top.l = s[i0] /\ top.m = s[kd + 1]
    BY <1>1, <1>4, <1>6, <1>7, MergingAt DEF Merging
  <2>2. QED
    BY <1>7, <2>1 DEF Linked
<1>9. node[top.l].next \in Links /\ node[top.m].next \in Links
  BY <1>7, <1>8 DEF Heap, NodeRecord
<1>10. /\ f \in FrameRecord /\ f.left = top.left /\ f.right = top.right /\ f.at = "merge"
  BY <1>1, <1>2, <1>9 DEF AfterRound, FrameRecord
<1> HIDE DEF f
<1>11. call' = [call EXCEPT !.stack = st2]
  BY <1>1, <1>2 DEF StackWith, top, f
<1>12. /\ st2 \in Seq(FrameRecord) /\ Len(st2) = n /\ st2[n] = f
       /\ \A d \in 1 .. n : d # n => st2[d] = st[d]
  BY <1>2, <1>10, StackWithIs
<1>13. call' \in SortCall /\ call'.list = x /\ call'.stack = st2 /\ call' # Idle
  <2>1. call' \in SortCall /\ call'.list = x /\ call'.stack = st2
    BY <1>2, <1>11, <1>12, SortTyped
  <2>2. QED
    BY <2>1, NotCalls
<1>14. PICK t, u : MergedTo(top, top.left, top.right, p_mid, lod, hid, t, u)
  <2>1. "l" \in DOMAIN top /\ "m" \in DOMAIN top
    BY <1>2 DEF FrameRecord
  <2>2. local \in [DOMAIN local -> Links]
    BY <1>2
  <2>3. call'.list = call.list
    BY <1>13
  <2> HIDE DEF s, v, x
  <2>4. QED
    BY <1>1, <1>2, <1>4, <1>6, <1>7, <1>13, <2>1, <2>2, <2>3, MergeRoundIs DEF s, v, x
<1>15. /\ Base' /\ Sorting' /\ nodes' = t /\ values' = u
       /\ Len(t) = Len(s) /\ Len(u) = Len(s)
       /\ \A a \in 1 .. Len(s) : a < lod \/ hid < a => t[a] = s[a] /\ u[a] = v[a]
  BY <1>14 DEF MergedTo
<1>16. PICK i \in lod .. hid + 1, j \in lod .. hid + 1 : MergeAt(t, u, f, p_mid, lod, i, j, hid)
  BY <1>14 DEF MergedTo, f
<1> DEFINE c == j - 1
           k2 == [k EXCEPT ![depth] = c]
<1>17. /\ i <= hid /\ lod < j /\ j <= hid + 1 /\ i \in lod .. hid /\ c \in Nat /\ lod <= c /\ c <= hid /\ c + 1 = j
       /\ p_mid = t[c]
  BY <1>4, <1>16 DEF MergeAt
<1> HIDE DEF c
<1>18. list'[x] = EndsOf(t)
  <2>1. /\ list'[x] = [count |-> list[x].count,
                       first |-> IF top.left = <<"first", x>> THEN t[lod] ELSE list[x].first,
                       last |-> IF top.right = <<"last", x>> THEN t[hid] ELSE list[x].last]
    BY <1>14 DEF MergedTo
  <2>2. 1 \in 1 .. Len(s) /\ Len(s) \in 1 .. Len(s)
    BY <1>4, <1>7
  <2>3. (IF top.left = <<"first", x>> THEN t[lod] ELSE list[x].first) = At(t, 1)
    <3>1. CASE lod = 1
      BY <1>5, <1>15, <2>2, <3>1 DEF At
    <3>2. CASE lod # 1
      <4>1. 1 < lod /\ top.left # <<"first", x>>
        BY <1>4, <1>5, <3>2
      <4>2. t[1] = s[1] /\ list[x].first = s[1]
        BY <1>2, <1>15, <2>2, <4>1 DEF EndsOf, At
      <4>3. QED
        BY <1>15, <2>2, <4>1, <4>2 DEF At
    <3>3. QED
      BY <3>1, <3>2
  <2>4. (IF top.right = <<"last", x>> THEN t[hid] ELSE list[x].last) = At(t, Len(t))
    <3>1. CASE top.right = <<"last", x>>
      <4>1. hid = Len(s)
        BY <1>5, <3>1
      <4>2. QED
        BY <1>15, <2>2, <3>1, <4>1 DEF At
    <3>2. CASE top.right # <<"last", x>>
      <4>1. hid < Len(s)
        BY <1>4, <1>5, <3>2
      <4>2. t[Len(s)] = s[Len(s)] /\ list[x].last = s[Len(s)]
        BY <1>2, <1>15, <2>2, <4>1 DEF EndsOf, At
      <4>3. QED
        BY <1>15, <2>2, <3>2, <4>2 DEF At
    <3>3. QED
      BY <3>1, <3>2
  <2>5. list[x].count = Len(t)
    BY <1>2, <1>15 DEF EndsOf
  <2>6. QED
    BY <2>1, <2>3, <2>4, <2>5 DEF EndsOf
<1>19. /\ local' \in Seq(Links) /\ Len(local') = n /\ local'[n] = p_mid
       /\ \A d \in 1 .. n : d # n => local'[d] = IF top.right = <<"local", d>> THEN t[hid] ELSE local[d]
  <2>1. local' = [d \in 1 .. n |->
                    IF top.left = <<"local", d>> THEN t[lod]
                    ELSE IF top.right = <<"local", d>> THEN t[hid] ELSE local[d]]
    BY <1>2, <1>14 DEF MergedTo
  <2>2. \A d \in 1 .. n : top.left # <<"local", d>>
    BY <1>5
  <2>3. top.right # <<"local", n>>
    BY <1>2, <1>4
  <2>4. t[hid] \in Links
    <3>1. OrderOK(t)
      BY <1>13, <1>15 DEF Base, Sorting, nodes
    <3>2. QED
      BY <1>4, <1>15, <3>1, AtIs DEF Links
  <2>5. local' = [d \in 1 .. n |-> IF top.right = <<"local", d>> THEN t[hid] ELSE local[d]]
    BY <2>1, <2>2
  <2>6. \A d \in 1 .. n : local[d] \in Links
    BY <1>2
  <2>7. QED
    BY <1>2, <2>3, <2>4, <2>5, <2>6 DEF p_mid
<1>20. /\ n \in Nat \ {0} /\ Len(s) \in Nat /\ Len(t) = Len(s)
       /\ lo \in [1 .. n -> Nat] /\ hi \in [1 .. n -> Nat] /\ k \in [1 .. n -> Nat]
       /\ Frames(x, s, v, st, local, lo, hi, k)
       /\ \A a \in 1 .. Len(s) : a < lo[n] \/ hi[n] < a => t[a] = s[a] /\ u[a] = v[a]
       /\ \A d \in 1 .. n : d # n => local'[d] = IF st[n].right = <<"local", d>> THEN t[hi[n]] ELSE local[d]
  BY <1>2, <1>3, <1>7, <1>15, <1>19 DEF lod, hid
<1>21. \A d \in 1 .. n : d # n => FrameAt(x, t, u, st[d], local'[d], FALSE, lo[d], hi[d], k[d])
  <2> DEFINE loc == local
             loc2 == local'
  <2> HIDE DEF x, s, v, st, loc, loc2
  <2>1. /\ n \in Nat \ {0} /\ Len(s) \in Nat /\ Len(t) = Len(s)
        /\ lo \in [1 .. n -> Nat] /\ hi \in [1 .. n -> Nat] /\ k \in [1 .. n -> Nat]
        /\ Frames(x, s, v, st, loc, lo, hi, k)
        /\ \A a \in 1 .. Len(s) : a < lo[n] \/ hi[n] < a => t[a] = s[a] /\ u[a] = v[a]
        /\ \A d \in 1 .. n : d # n => loc2[d] = IF st[n].right = <<"local", d>> THEN t[hi[n]] ELSE loc[d]
    BY <1>20 DEF loc, loc2
  <2>2. Rearranges(s, v, t, u, st, loc, loc2, lo, hi)
    BY <2>1 DEF Rearranges
  <2>3. OthersAt(x, t, u, st, loc2, lo, hi, k)
    BY ONLY <2>1, <2>2, OthersStay
  <2>4. QED
    BY <2>3 DEF loc2, OthersAt
<1>22. /\ k2 \in [1 .. n -> Nat] /\ k2[n] = c /\ \A d \in 1 .. n : d # n => k2[d] = k[d]
  BY <1>2, <1>17
<1>23. FrameAt(x, t, u, f, p_mid, TRUE, lod, hid, c)
  <2>1. 1 <= lod /\ lod <= c /\ c <= hid /\ hid <= Len(t)
    BY <1>4, <1>15, <1>17
  <2>2. f.left = IF lod = 1 THEN <<"first", x>> ELSE <<"next", t[lod - 1]>>
    <3>1. lod # 1 => lod - 1 \in 1 .. Len(s) /\ lod - 1 < lod
      BY <1>4, <1>7
    <3>2. QED
      BY <1>5, <1>10, <1>15, <3>1
  <2>3. (f.right = <<"last", x>> /\ hid = Len(t)) \/ \E e \in Nat : f.right = <<"local", e>>
    BY <1>5, <1>10, <1>15
  <2>4. \E a \in lod .. hid : MergeAt(t, u, f, p_mid, lod, a, c + 1, hid)
    BY <1>16, <1>17
  <2>5. QED
    BY <1>10, <1>17, <2>1, <2>2, <2>3, <2>4 DEF FrameAt
<1>24. FrameAt(x, t, u, st2[n], local'[n], TRUE, lo[n], hi[n], k2[n])
  BY <1>2, <1>12, <1>19, <1>22, <1>23 DEF lod, hid
<1>25. /\ Len(st2) = n /\ st2[n].right = st[n].right
       /\ \A d \in 1 .. n : d # n =>
            /\ st2[d] = st[d] /\ k2[d] = k[d]
            /\ FrameAt(x, t, u, st2[d], local'[d], FALSE, lo[d], hi[d], k2[d])
  BY <1>2, <1>10, <1>12, <1>21, <1>22
<1> HIDE DEF k2, st2
<1>26. Frames(x, t, u, st2, local', lo, hi, k2)
  <2> DEFINE loc == local
             loc2 == local'
  <2>1. /\ Frames(x, s, v, st, loc, lo, hi, k) /\ n \in Nat \ {0} /\ Len(st2) = n /\ Len(t) = Len(s)
        /\ st2[n].right = st[n].right
        /\ \A d \in 1 .. n : d # n =>
             /\ st2[d] = st[d] /\ k2[d] = k[d]
             /\ FrameAt(x, t, u, st2[d], loc2[d], FALSE, lo[d], hi[d], k2[d])
        /\ FrameAt(x, t, u, st2[n], loc2[n], TRUE, lo[n], hi[n], k2[n])
    BY <1>20, <1>24, <1>25
  <2> HIDE DEF x, s, v, st, loc, loc2
  <2>2. Frames(x, t, u, st2, loc2, lo, hi, k2)
    BY ONLY <2>1, TopChanges
  <2>3. QED
    BY <2>2 DEF loc2
<1>27. Stacked(x, t, u, st2, local')
  <2>1. lo \in [1 .. Len(st2) -> Nat] /\ hi \in [1 .. Len(st2) -> Nat] /\ k2 \in [1 .. Len(st2) -> Nat]
        /\ Len(st2) >= 1 /\ Len(local') = Len(st2)
    BY <1>12, <1>19, <1>20, <1>22
  <2>2. QED
    BY <1>19, <1>26, <2>1 DEF Stacked
<1>28. SortOK'
  <2>1. list'[call'.list] = EndsOf(nodes')
    BY <1>13, <1>15, <1>18
  <2>2. Stacked(call'.list, nodes', values', call'.stack, local')
    BY <1>13, <1>15, <1>27
  <2>3. QED
    BY <1>13, <1>15, <2>1, <2>2 DEF SortOK
<1>29. OthersShown /\ DOMAIN list' = DOMAIN list
  BY <1>14 DEF MergedTo
<1>30. QED
  BY <1>15, <1>28, <1>29 DEF IInv, CallOK

\* A sequence without its last element.
LEMMA Shortened ==
    ASSUME NEW S, NEW q \in Seq(S), Len(q) \in Nat \ {0}, Len(q) # 1
    PROVE  LET t == SubSeq(q, 1, Len(q) - 1)
           IN  /\ t \in Seq(S) /\ Len(t) = Len(q) - 1
               /\ \A d \in 1 .. Len(q) - 1 : t[d] = q[d]
<1> DEFINE m == Len(q) - 1
           t == SubSeq(q, 1, m)
<1>1. m \in Nat /\ 1 \in Int /\ m \in Int /\ 1 <= m /\ \A d \in 1 .. m : q[d] \in S
  <2>1. m \in Nat /\ 1 <= m /\ m <= Len(q)
    <3>1. PICK c : c = Len(q) /\ c \in Nat \ {0} /\ c # 1
      OBVIOUS
    <3>2. c - 1 \in Nat /\ 1 <= c - 1 /\ c - 1 <= c
      BY ONLY <3>1
    <3>3. QED
      BY ONLY <3>1, <3>2 DEF m
  <2>2. \A d \in 1 .. Len(q) : q[d] \in S
    OBVIOUS
  <2>3. \A d \in 1 .. m : d \in 1 .. Len(q)
    BY <2>1
  <2>4. QED
    BY <2>1, <2>2, <2>3
<1> HIDE DEF m
<1>2. /\ t \in Seq(S) /\ Len(t) = IF 1 <= m THEN m - 1 + 1 ELSE 0
      /\ \A d \in 1 .. m - 1 + 1 : t[d] = q[1 + d - 1]
  BY ONLY <1>1, SubSeqProperties
<1>3. m - 1 + 1 = m /\ \A d \in 1 .. m : 1 + d - 1 = d
  BY <1>1
<1> HIDE DEF t
<1>4. t \in Seq(S) /\ Len(t) = m /\ \A d \in 1 .. m : t[d] = q[d]
  BY <1>1, <1>2, <1>3
<1>5. QED
  BY <1>4 DEF t, m

\* A call that is about to return has sorted its segment.
LEMMA SegmentIsOrdered ==
    ASSUME IInv, Sorting, NEW f, NEW mid, NEW lo \in 1 .. Len(nodes), NEW hi \in 1 .. Len(nodes), NEW k \in 1 .. Len(nodes),
           k <= hi, FrameAt(call.list, nodes, values, f, mid, TRUE, lo, hi, k),
           (f.at = "halve" /\ f.helper = nodes[hi] /\ mid = f.helper) \/ MergeEnds(f)
    PROVE  Ordered(values, lo, hi)
<1> DEFINE s == nodes
           v == values
<1>1. Len(s) \in Nat /\ mid = s[k]
  BY NodesAre DEF FrameAt
<1>2. CASE f.at = "halve" /\ f.helper = nodes[hi] /\ mid = f.helper
  <2>1. PICK g \in k .. hi : f.helper = s[g] /\ (g = k => g = lo)
    BY <1>2 DEF FrameAt
  <2>2. g \in 1 .. Len(s) /\ k \in 1 .. Len(s) /\ hi \in 1 .. Len(s)
    BY <1>1
  <2>3. g = hi /\ k = g
    BY <1>1, <1>2, <2>1, <2>2, NextIs
  <2>4. lo = hi
    BY <2>1, <2>3
  <2>5. QED
    BY <2>4 DEF Ordered
<1>3. CASE MergeEnds(f)
  <2>1. PICK i \in lo .. hi : MergeAt(s, v, f, mid, lo, i, k + 1, hi)
    BY <1>3 DEF FrameAt, MergeEnds
  <2>2. /\ i <= k + 1 /\ f.l = s[i] /\ f.m = At(s, k + 1) /\ f.end = At(s, hi + 1)
        /\ InMerge(v, lo, i, k + 1, hi)
    BY <2>1 DEF MergeAt
  <2>3. i \in Int /\ k + 1 \in Int /\ i \in 1 .. Len(s) /\ hi \in Int /\ lo \in Int
    BY <1>1
  <2>4. i = k + 1 \/ k + 1 = hi + 1
    <3>1. CASE k + 1 \in 1 .. Len(s)
      <4>1. At(s, k + 1) = s[k + 1] /\ s[k + 1] # NULL /\ s[i] # NULL
        BY <2>3, <3>1, NextIs DEF At
      <4>2. CASE hi + 1 \in 1 .. Len(s)
        BY <1>3, <2>2, <2>3, <3>1, <4>1, <4>2, NextIs DEF MergeEnds, At
      <4>3. CASE hi + 1 \notin 1 .. Len(s)
        BY <1>3, <2>2, <2>3, <3>1, <4>1, <4>3, NextIs DEF MergeEnds, At
      <4>4. QED
        BY <4>2, <4>3
    <3>2. CASE k + 1 \notin 1 .. Len(s)
      BY <1>1, <2>2, <2>3, <3>2
    <3>3. QED
      BY <3>1, <3>2
  <2>5. QED
    BY <2>2, <2>3, <2>4, MergeIsDone
<1>4. QED
  BY <1>2, <1>3

\* It returns to its caller, or, from the first call, from List_mergesort.
LEMMA SortReturnsKeeps ==
    ASSUME IInv, SortReturns
    PROVE  IInv' /\ (depth = 1 => Abstract!Sorted(values)) /\ Sorting
<1> DEFINE x == call.list
           s == nodes
           v == values
           st == call.stack
           n == Len(st)
<1>1. /\ call.fn = "List_mergesort"
      /\ (Halved /\ p_mid = top.helper) \/ MergeEnds(top)
      /\ UNCHANGED <<node, list, order>>
      /\ depth = 1 => Returns
      /\ depth # 1 => /\ call' = [call EXCEPT !.stack = SubSeq(call.stack, 1, depth - 1)]
                      /\ local' = SubSeq(local, 1, depth - 1)
                      /\ UNCHANGED <<asked, was>>
  BY DEF SortReturns
<1>2. /\ n \in Nat \ {0} /\ st \in Seq(FrameRecord) /\ top \in FrameRecord /\ call \in SortCall /\ call # Idle
      /\ local \in Seq(Links) /\ Len(local) = n /\ n \in 1 .. n /\ Sorting /\ depth = n
      /\ list[x] = EndsOf(s)
  BY <1>1, TopIs DEF depth
<1>3. PICK lo \in [1 .. depth -> Nat], hi \in [1 .. depth -> Nat], k \in [1 .. depth -> Nat] :
        Frames(x, s, v, call.stack, local, lo, hi, k)
  BY <1>1, TopIs
<1> DEFINE lod == lo[depth]
           hid == hi[depth]
           kd == k[depth]
<1>4. /\ lod \in 1 .. Len(s) /\ kd \in 1 .. Len(s) /\ hid \in 1 .. Len(s) /\ kd <= hid
      /\ FrameAt(x, s, v, top, p_mid, TRUE, lod, hid, kd)
      /\ Read(Memory, top.right) = s[hid]
  BY <1>1, <1>3, TopFrame
<1> HIDE DEF lod, hid, kd
<1>5. Ordered(v, lod, hid)
  <2>1. (top.at = "halve" /\ top.helper = s[hid] /\ p_mid = top.helper) \/ MergeEnds(top)
    BY <1>1, <1>4 DEF Halved
  <2>2. QED
    BY <1>2, <1>4, <2>1, SegmentIsOrdered
<1>6. Len(s) \in Nat /\ Len(v) = Len(s)
  BY <1>2, NodesAre
<1>7. CASE depth = 1
  <2>1. lod = 1 /\ hid = Len(s)
    BY <1>3, <1>7 DEF Frames, lod, hid
  <2>2. Abstract!Sorted(v)
    BY <1>5, <1>6, <2>1 DEF Ordered, Abstract!Sorted
  <2>3. IInv'
    BY <1>1, <1>2, <1>7, ReturnsKeeps
  <2>4. QED
    BY <1>2, <2>2, <2>3
<1>8. CASE depth # 1
  <2> DEFINE st2 == SubSeq(st, 1, n - 1)
             loc2 == SubSeq(local, 1, n - 1)
  <2>1. /\ st2 \in Seq(FrameRecord) /\ Len(st2) = n - 1 /\ \A d \in 1 .. n - 1 : st2[d] = st[d]
    BY <1>2, <1>8, Shortened
  <2>2. /\ loc2 \in Seq(Links) /\ Len(loc2) = n - 1 /\ \A d \in 1 .. n - 1 : loc2[d] = local[d]
    BY <1>2, <1>8, Shortened
  <2>3. call' = [call EXCEPT !.stack = st2] /\ local' = loc2 /\ Moves
    BY <1>1, <1>2, <1>8 DEF Moves
  <2> DEFINE loc == local
  <2>4. /\ Len(st) \in Nat \ {0} /\ Len(st) # 1 /\ Len(s) \in Nat /\ Len(st2) = Len(st) - 1
        /\ lo \in [1 .. Len(st) -> Nat] /\ hi \in [1 .. Len(st) -> Nat] /\ k \in [1 .. Len(st) -> Nat]
        /\ Frames(x, s, v, st, loc, lo, hi, k)
        /\ Ordered(v, lo[Len(st)], hi[Len(st)])
        /\ \A d \in 1 .. Len(st) - 1 : st2[d] = st[d] /\ loc2[d] = loc[d]
    BY <1>2, <1>3, <1>5, <1>6, <1>8, <2>1, <2>2 DEF lod, hid
  <2> HIDE DEF x, s, v, st, st2, loc, loc2
  <2>5. \E lo2, hi2, k2 \in [1 .. Len(st2) -> Nat] : Frames(x, s, v, st2, loc2, lo2, hi2, k2)
    BY ONLY <2>4, FramePopped
  <2>6. Stacked(x, s, v, st2, loc2)
    <3>1. Len(st2) >= 1 /\ Len(loc2) = Len(st2)
      BY <2>1, <2>2, <2>4
    <3>2. QED
      BY <2>2, <2>5, <3>1 DEF Stacked
  <2>7. IInv'
    BY <1>1, <2>1, <2>3, <2>6, HalvesKeep DEF x, s, v
  <2>8. QED
    BY <1>2, <1>8, <2>7
<1>9. QED
  BY <1>7, <1>8

-----------------------------------------------------------------------------
(* The theorems. *)

\* The invariant holds before the first call,
LEMMA InitHolds ==
    ASSUME Init
    PROVE  IInv
<1>1. DOMAIN node = {} /\ DOMAIN list = {} /\ DOMAIN order = {} /\ call = Idle /\ local = <<>>
  BY DEF Init
<1>2. \A S : node \in [DOMAIN node -> S] /\ list \in [DOMAIN list -> S] /\ order \in [DOMAIN list -> S]
  BY <1>1 DEF Init
<1>3. Base
  BY <1>1, <1>2 DEF Base, Heap
<1>4. CallOK
  BY <1>1 DEF CallOK, AllOwned
<1>5. QED
  BY <1>3, <1>4 DEF IInv

\* and after a step of any function.
LEMMA NextKeeps ==
    ASSUME IInv, Next
    PROVE  IInv'
<1>1. ASSUME Calls \/ \E x \in Lists : List_create(x) PROVE IInv'
  BY <1>1, CreateKeeps, StutterKeeps DEF Calls
<1>2. ASSUME NEW x \in DOMAIN list,
             \/ List_destroy(x)
             \/ \E v \in Values : List_push(x, v) \/ List_unshift(x, v)
             \/ \E i \in 1 .. Len(order[x]) : List_remove_at(x, i)
             \/ List_pop(x) \/ List_shift(x)
             \/ List_mergesort(x) \/ List_bubblesort(x) \/ List_sort_from_bottom_to_top(x)
             \/ \E y \in DOMAIN list : List_connect(x, y)
      PROVE  IInv'
  <2>1. CASE List_mergesort(x)
    BY <2>1, MergesortBegins, NothingKeeps DEF List_mergesort
  <2>2. QED
    BY <1>2, <2>1, DestroyBegins, PushKeeps, UnshiftKeeps, PopKeeps, BubbleBegins, BottomUpBegins, ConnectKeeps
<1>3. CASE FreePrev \/ FreeList \/ Bubble \/ NextBubbles \/ BubblesEnd
  BY <1>3, FreePrevKeeps, FreeListKeeps, BubbleKeeps, NextBubblesKeeps, BubblesEndKeeps
<1>4. CASE Halve \/ SortLeft \/ SortRight \/ MergeHalves \/ MergeRoundOfHalves \/ SortReturns
  BY <1>4, HalveKeeps, SortLeftKeeps, SortRightKeeps, MergeHalvesKeeps, MergeRoundOfHalvesKeeps, SortReturnsKeeps
<1>5. CASE RoundStarts \/ WalkMid \/ WalkRight \/ MergePair \/ MergeRoundOfPair \/ PairMerged
  BY <1>5, RoundStartsKeeps, WalkMidKeeps, WalkRightKeeps, MergePairKeeps, MergeRoundOfPairKeeps, PairMergedKeeps
<1>6. CASE WalkNext \/ WalkNextMid \/ RoundEnds \/ BottomUpEnds
  BY <1>6, WalkNextKeeps, WalkNextMidKeeps, RoundEndsKeeps, BottomUpEndsKeeps
<1>7. QED
  BY <1>1, <1>2, <1>3, <1>4, <1>5, <1>6 DEF Next

\* The invariant holds at every step: the functions of one step, List_destroy and
\* the three sorts.
THEOREM Invariance == Spec => []IInv
<1>1. Init => IInv
  BY InitHolds
<1>2. IInv /\ [Next]_vars => IInv'
  BY NextKeeps, StutterKeeps DEF vars
<1>3. QED
  BY <1>1, <1>2, PTL DEF Spec

\* What the invariant says of each list is what ListTypeOK says.
LEMMA InvariantType ==
    ASSUME IInv
    PROVE  ListTypeOK
<1>1. /\ DOMAIN list = DOMAIN order /\ DOMAIN list \subseteq Lists /\ DOMAIN node \subseteq Nodes
  BY DEF IInv, Base, Heap
<1>2. ASSUME NEW x \in DOMAIN list, ~(call.fn = "List_destroy" /\ Busy(x))
      PROVE  Linked(node, order[x])
  <2>1. CASE Busy(x)
    <3>1. Sorting /\ call.list = x
      BY <1>2, <2>1 DEF Busy, IInv, CallOK, DestroyOK, DestroyCall, BubbleOK, SortOK, BottomUpOK
    <3>2. QED
      BY <3>1 DEF Sorting, nodes
  <2>2. CASE ~Busy(x)
    BY <2>2 DEF IInv, Base, ListOK
  <2>3. QED
    BY <2>1, <2>2
<1>3. ASSUME NEW x \in DOMAIN list PROVE Busy(x) \/ list[x] = EndsOf(order[x])
  BY DEF IInv, Base, ListOK
<1>4. ASSUME NEW x \in DOMAIN list, NEW y \in DOMAIN list, x # y PROVE Owned(x) \cap Owned(y) = {}
  BY <1>4 DEF IInv, Base, Apart, Owned
<1>5. ASSUME call.fn # "List_destroy" PROVE DOMAIN node = UNION {Owned(x) : x \in DOMAIN list}
  <2>1. AllOwned
    BY <1>5 DEF IInv, CallOK, DestroyOK, DestroyCall, BubbleOK, SortOK, BottomUpOK, Sorting
  <2>2. \A x \in DOMAIN list : \A i \in 1 .. Len(order[x]) : order[x][i] \in DOMAIN node
    BY <1>2, <1>5 DEF Linked
  <2>3. DOMAIN node \subseteq UNION {Owned(x) : x \in DOMAIN list}
    <3> SUFFICES ASSUME NEW q \in DOMAIN node PROVE \E x \in DOMAIN list : q \in Owned(x)
      OBVIOUS
    <3>1. PICK x \in DOMAIN list : \E i \in 1 .. Len(order[x]) : q = order[x][i]
      BY <2>1 DEF AllOwned, InSome
    <3>2. QED
      BY <3>1 DEF Owned
  <2>4. UNION {Owned(x) : x \in DOMAIN list} \subseteq DOMAIN node
    <3> SUFFICES ASSUME NEW x \in DOMAIN list, NEW q \in Owned(x) PROVE q \in DOMAIN node
      OBVIOUS
    <3>1. QED
      BY <2>2 DEF Owned
  <2>5. QED
    BY <2>3, <2>4
<1>6. QED
  BY <1>1, <1>2, <1>3, <1>4, <1>5 DEF ListTypeOK

\* ListTypeOK, for any number of lists, nodes and values: after any sequence of
\* calls the links of every list agree in both directions, no node is shared,
\* leaked or reached after it was freed, and the ends and the count are right.
THEOREM ListTypeCorrect == Spec => []ListTypeOK
BY Invariance, InvariantType, PTL
-----------------------------------------------------------------------------
(* The refinement of ValueLists. *)

\* What a list shows, and all of them.
Shown(x) == IF Busy(x) THEN was ELSE Contents(x)
Shows == [x \in DOMAIN list |-> Shown(x)]

\* The values of the nodes s.
Vals(nd, s) == [i \in 1 .. Len(s) |-> nd[s[i]].value]
KeepsValues(nd2, nd, s) == \A k \in 1 .. Len(s) : nd2[s[k]].value = nd[s[k]].value

\* The running function is the one the caller called.
AskedOK == call # Idle => asked.fn = call.fn /\ asked.list = call.list

\* A return that does to what the lists show what the caller asked for is a step of
\* the specification.
LEMMA IsReturn ==
    ASSUME asked.fn # "none", asked' = Idle, Abstract!Effect(asked, Shows, Shows')
    PROVE  Abstract!Next
<1>1. asked # Abstract!None /\ asked' = Abstract!None
  BY DEF Abstract!None, Idle
<1>2. QED
  BY <1>1 DEF Abstract!Next, Abstract!Return, Shows, Shown

\* Between calls every list shows the values of its nodes,
LEMMA IdleShows ==
    ASSUME call = Idle
    PROVE  DOMAIN Shows = DOMAIN list /\ \A x \in DOMAIN list : Shows[x] = Vals(node, order[x])
BY DEF Shows, Shown, Busy, Contents, Vals

\* also after a step.
LEMMA IdleShowsNext ==
    ASSUME call' = Idle
    PROVE  /\ Shows' = [x \in DOMAIN list' |-> Shows'[x]]
           /\ \A x \in DOMAIN list' : Shows'[x] = Vals(node', order'[x])
BY DEF Shows, Shown, Busy, Contents, Vals

\* Nodes that keep their values show the same sequence.
LEMMA SameValuesAre ==
    ASSUME NEW nd2, NEW nd, NEW s, KeepsValues(nd2, nd, s)
    PROVE  Vals(nd2, s) = Vals(nd, s)
BY DEF Vals, KeepsValues

\* What is shown is a sequence of values.
LEMMA ValsType ==
    ASSUME NEW nd, Heap(nd), NEW s, OrderOK(s), Linked(nd, s)
    PROVE  /\ Vals(nd, s) \in Seq(Values) /\ Len(Vals(nd, s)) = Len(s) /\ Len(s) \in Nat
           /\ \A k \in 1 .. Len(s) : Vals(nd, s)[k] = nd[s[k]].value
<1>1. Len(s) \in Nat
  BY AtIs
<1>2. \A k \in 1 .. Len(s) : nd[s[k]].value \in Values
  BY DEF Linked, Heap, NodeRecord
<1>3. QED
  BY <1>1, <1>2 DEF Vals

\* A node added last shows its value last;
LEMMA ValsAppend ==
    ASSUME NEW nd, Heap(nd), NEW s, OrderOK(s), Linked(nd, s), NEW nd2, KeepsValues(nd2, nd, s),
           NEW n \in Nodes, nd2[n].value \in Values, \A k \in 1 .. Len(s) : s[k] # n
    PROVE  Vals(nd2, Append(s, n)) = Append(Vals(nd, s), nd2[n].value)
<1> DEFINE t == Append(s, n)
           v == Vals(nd, s)
           u == Vals(nd2, t)
           w == Append(v, nd2[n].value)
<1>1. /\ v \in Seq(Values) /\ Len(v) = Len(s) /\ Len(s) \in Nat
      /\ \A k \in 1 .. Len(s) : v[k] = nd[s[k]].value
  BY ValsType
<1>2. /\ Len(t) = Len(s) + 1 /\ t[Len(s) + 1] = n
      /\ \A k \in 1 .. Len(s) : t[k] = s[k]
  BY AppendIs
<1> HIDE DEF v, t
<1>3. /\ w \in Seq(Values) /\ Len(w) = Len(s) + 1 /\ w[Len(s) + 1] = nd2[n].value
      /\ \A k \in 1 .. Len(s) : w[k] = v[k]
  BY <1>1
<1>4. u = [k \in 1 .. Len(s) + 1 |-> nd2[t[k]].value]
  BY <1>2 DEF Vals
<1>5. ASSUME NEW k \in 1 .. Len(s) + 1 PROVE nd2[t[k]].value = w[k]
  <2>1. CASE k = Len(s) + 1
    BY <1>2, <1>3, <2>1
  <2>2. CASE k # Len(s) + 1
    <3>1. k \in 1 .. Len(s)
      BY <1>1, <2>2
    <3>2. QED
      BY <1>1, <1>2, <1>3, <3>1 DEF KeepsValues
  <2>3. QED
    BY <2>1, <2>2
<1>6. w = [k \in 1 .. Len(s) + 1 |-> w[k]]
  <2> HIDE DEF w
  <2>1. QED
    BY <1>1, <1>3
<1> HIDE DEF u, w
<1>7. u = w
  BY <1>4, <1>5, <1>6
<1>8. QED
  BY <1>7 DEF u, w, v, t

\* one added first shows it first;
LEMMA ValsPrepend ==
    ASSUME NEW nd, Heap(nd), NEW s, OrderOK(s), Linked(nd, s), NEW nd2, KeepsValues(nd2, nd, s),
           NEW n \in Nodes, nd2[n].value \in Values, \A k \in 1 .. Len(s) : s[k] # n
    PROVE  Vals(nd2, << n >> \o s) = << nd2[n].value >> \o Vals(nd, s)
<1> DEFINE t == << n >> \o s
           v == Vals(nd, s)
           u == Vals(nd2, t)
           w == << nd2[n].value >> \o v
<1>1. /\ v \in Seq(Values) /\ Len(v) = Len(s) /\ Len(s) \in Nat
      /\ \A k \in 1 .. Len(s) : v[k] = nd[s[k]].value
  BY ValsType
<1>2. /\ Len(t) = Len(s) + 1 /\ t[1] = n
      /\ \A k \in 1 .. Len(s) : t[k + 1] = s[k]
  BY PrependIs
<1> HIDE DEF v, t
<1>3. /\ w \in Seq(Values) /\ Len(w) = Len(s) + 1 /\ w[1] = nd2[n].value
      /\ \A k \in 1 .. Len(s) : w[k + 1] = v[k]
  <2> DEFINE e == << nd2[n].value >>
  <2>1. e \in Seq(Values) /\ Len(e) = 1 /\ e[1] = nd2[n].value
    OBVIOUS
  <2> HIDE DEF e
  <2>2. /\ e \o v \in Seq(Values) /\ Len(e \o v) = Len(e) + Len(v)
        /\ \A k \in 1 .. Len(e) + Len(v) : (e \o v)[k] = IF k <= Len(e) THEN e[k] ELSE v[k - Len(e)]
    <3>1. e \in Seq(Values) /\ v \in Seq(Values)
      BY <1>1, <2>1
    <3>2. QED
      BY ONLY <3>1, ConcatProperties, Zenon
  <2>3. 1 \in 1 .. Len(e) + Len(v) /\ \A k \in 1 .. Len(s) : k + 1 \in 1 .. Len(e) + Len(v) /\ ~(k + 1 <= Len(e)) /\ (k + 1) - Len(e) = k
    BY <1>1, <2>1
  <2>4. w = e \o v
    BY DEF e
  <2> HIDE DEF w
  <2>5. QED
    BY <1>1, <2>1, <2>2, <2>3, <2>4
<1>4. u = [k \in 1 .. Len(s) + 1 |-> nd2[t[k]].value]
  BY <1>2 DEF Vals
<1>5. ASSUME NEW k \in 1 .. Len(s) + 1 PROVE nd2[t[k]].value = w[k]
  <2>1. CASE k = 1
    BY <1>2, <1>3, <2>1
  <2>2. CASE k # 1
    <3>1. k - 1 \in 1 .. Len(s) /\ (k - 1) + 1 = k
      BY <1>1, <2>2
    <3>2. QED
      BY <1>1, <1>2, <1>3, <3>1 DEF KeepsValues
  <2>3. QED
    BY <2>1, <2>2
<1> HIDE DEF w
<1>6. w = [k \in 1 .. Len(s) + 1 |-> w[k]]
  BY <1>1, <1>3
<1> HIDE DEF u
<1>7. u = w
  BY <1>4, <1>5, <1>6
<1>8. QED
  BY <1>7 DEF u, w, v, t

\* one taken out shows it no more;
LEMMA ValsCut ==
    ASSUME NEW nd, Heap(nd), NEW s, OrderOK(s), Linked(nd, s), NEW i \in 1 .. Len(s), NEW nd2,
           \A k \in 1 .. Len(s) : k # i => nd2[s[k]].value = nd[s[k]].value
    PROVE  Vals(nd2, CutOut(s, i)) = Abstract!WithoutPlace(Vals(nd, s), i)
<1> DEFINE t == CutOut(s, i)
           v == Vals(nd, s)
<1>1. /\ v \in Seq(Values) /\ Len(v) = Len(s) /\ Len(s) \in Nat
      /\ \A k \in 1 .. Len(s) : v[k] = nd[s[k]].value
  BY ValsType
<1>2. /\ Len(t) = Len(s) - 1
      /\ \A k \in 1 .. Len(s) - 1 : t[k] = IF k < i THEN s[k] ELSE s[k + 1]
  BY CutOutIs
<1> HIDE DEF v, t
<1>3. Vals(nd2, t) = [k \in 1 .. Len(s) - 1 |-> nd2[t[k]].value]
  BY <1>2 DEF Vals
<1>4. ASSUME NEW k \in 1 .. Len(s) - 1 PROVE nd2[t[k]].value = IF k < i THEN v[k] ELSE v[k + 1]
  <2>1. k \in 1 .. Len(s) /\ k + 1 \in 1 .. Len(s) /\ (k < i => k # i) /\ (~(k < i) => k + 1 # i)
    BY <1>1
  <2>2. QED
    BY <1>1, <1>2, <2>1
<1>5. Abstract!WithoutPlace(v, i) = [k \in 1 .. Len(s) - 1 |-> IF k < i THEN v[k] ELSE v[k + 1]]
  BY <1>1 DEF Abstract!WithoutPlace
<1>6. Vals(nd2, t) = Abstract!WithoutPlace(v, i)
  BY <1>3, <1>4, <1>5
<1>7. QED
  BY <1>6 DEF v, t

\* two lists joined show one after the other.
LEMMA ValsJoin ==
    ASSUME NEW nd, Heap(nd), NEW s, NEW u, OrderOK(s), OrderOK(u), Linked(nd, s), Linked(nd, u),
           NEW t, Joined(t, s, u), NEW nd2, KeepsValues(nd2, nd, s), KeepsValues(nd2, nd, u)
    PROVE  Vals(nd2, t) = Vals(nd, s) \o Vals(nd, u)
<1> DEFINE v == Vals(nd, s)
           w == Vals(nd, u)
           z == v \o w
           n == Len(s) + Len(u)
<1>1. /\ v \in Seq(Values) /\ Len(v) = Len(s) /\ Len(s) \in Nat
      /\ \A k \in 1 .. Len(s) : v[k] = nd[s[k]].value
  BY ValsType
<1>2. /\ w \in Seq(Values) /\ Len(w) = Len(u) /\ Len(u) \in Nat
      /\ \A k \in 1 .. Len(u) : w[k] = nd[u[k]].value
  BY ValsType
<1> HIDE DEF v, w
<1>3. /\ z \in Seq(Values) /\ Len(z) = n
      /\ \A k \in 1 .. n : z[k] = IF k <= Len(s) THEN v[k] ELSE w[k - Len(s)]
  <2>1. v \in Seq(Values) /\ w \in Seq(Values)
    BY <1>1, <1>2
  <2>2. /\ v \o w \in Seq(Values) /\ Len(v \o w) = Len(v) + Len(w)
        /\ \A k \in 1 .. Len(v) + Len(w) : (v \o w)[k] = IF k <= Len(v) THEN v[k] ELSE w[k - Len(v)]
    BY <2>1, ConcatProperties
  <2>3. z = v \o w
    OBVIOUS
  <2> HIDE DEF z
  <2>4. QED
    BY <1>1, <1>2, <2>2, <2>3
<1> HIDE DEF z
<1>4. Vals(nd2, t) = [k \in 1 .. n |-> nd2[t[k]].value]
  BY DEF Vals, Joined
<1>5. ASSUME NEW k \in 1 .. n PROVE nd2[t[k]].value = z[k]
  <2>1. CASE k <= Len(s)
    <3>1. k \in 1 .. Len(s)
      BY <1>1, <2>1
    <3>2. QED
      BY <1>1, <1>3, <2>1, <3>1 DEF Joined, KeepsValues
  <2>2. CASE ~(k <= Len(s))
    <3>1. k - Len(s) \in 1 .. Len(u) /\ Len(s) + (k - Len(s)) = k
      BY <1>1, <1>2, <2>2
    <3>2. t[k] = u[k - Len(s)]
      BY <3>1 DEF Joined
    <3>3. QED
      BY <1>2, <1>3, <2>2, <3>1, <3>2 DEF KeepsValues
  <2>3. QED
    BY <2>1, <2>2
<1>6. z = [k \in 1 .. n |-> z[k]]
  BY <1>1, <1>2, <1>3
<1> HIDE DEF n
<1>7. Vals(nd2, t) = z
  BY <1>4, <1>5, <1>6
<1>8. QED
  BY <1>7 DEF v, w, z
\* A call on the list x that leaves the others.
LEMMA OthersAreLeft ==
    ASSUME IInv, AtOnce, NEW x \in DOMAIN list, DOMAIN list' = DOMAIN list,
           \A y \in DOMAIN list : y # x => order'[y] = order[y] /\ KeepsValues(node', node, order[y])
    PROVE  Abstract!Others(x, Shows, Shows')
<1>1. call = Idle /\ call' = Idle
  BY DEF AtOnce
<1>2. DOMAIN Shows = DOMAIN list /\ \A y \in DOMAIN list : Shows[y] = Vals(node, order[y])
  BY <1>1, IdleShows
<1>3. DOMAIN Shows' = DOMAIN list /\ \A y \in DOMAIN list : Shows'[y] = Vals(node', order'[y])
  BY <1>1, IdleShowsNext
<1>4. \A y \in DOMAIN list : y # x => Vals(node', order'[y]) = Vals(node, order[y])
  BY SameValuesAre
<1>5. QED
  BY <1>2, <1>3, <1>4 DEF Abstract!Others

\* List_create is Create.
LEMMA CreateIsCreate ==
    ASSUME IInv, NEW x \in Lists, List_create(x)
    PROVE  Abstract!Next
<1>1. call = Idle /\ call' = Idle /\ x \notin DOMAIN list /\ node' = node
  BY DEF List_create, AtOnce
<1>2. /\ DOMAIN list' = DOMAIN list \cup {x} /\ order'[x] = <<>>
      /\ \A y \in DOMAIN list : order'[y] = order[y]
  BY <1>1, WhenIdle DEF List_create, Put
<1>3. DOMAIN Shows = DOMAIN list /\ \A y \in DOMAIN list : Shows[y] = Vals(node, order[y])
  BY <1>1, IdleShows
<1>4. /\ Shows' = [y \in DOMAIN list' |-> Shows'[y]]
      /\ \A y \in DOMAIN list' : Shows'[y] = Vals(node', order'[y])
  BY <1>1, IdleShowsNext
<1>5. Vals(node', <<>>) = <<>>
  BY DEF Vals
<1>6. \A y \in DOMAIN list' : Shows'[y] = IF y = x THEN <<>> ELSE Shows[y]
  BY <1>1, <1>2, <1>3, <1>4, <1>5
<1>7. Shows' = [y \in DOMAIN Shows \cup {x} |-> IF y = x THEN <<>> ELSE Shows[y]]
  BY <1>2, <1>3, <1>4, <1>6
<1>8. Abstract!Create(x, Shows, Shows')
  BY <1>7 DEF Abstract!Create
<1>9. asked.fn = "List_create" /\ asked.list = x /\ asked' = Idle
  BY DEF List_create, Request, AtOnce
<1>10. Abstract!Effect(asked, Shows, Shows')
  BY <1>8, <1>9 DEF Abstract!Effect
<1>11. QED
  BY <1>9, <1>10, IsReturn

\* What List_push and List_unshift do to the nodes.
OneNew(n, v) ==
    /\ node'[n].value = v
    /\ \A q \in DOMAIN node : node'[q].value = node[q].value

\* What List_push does to the lists, whatever the order of its assignments.
LEMMA PushedIs ==
    ASSUME IInv, NEW x \in DOMAIN list, NEW v \in Values, List_push(x, v)
    PROVE  /\ AtOnce /\ DOMAIN list' = DOMAIN list
           /\ \E n \in Nodes \ DOMAIN node :
                OneNew(n, v) /\ order' = [order EXCEPT ![x] = Append(order[x], n)]
<1> DEFINE s == order[x]
           l == list[x]
<1>1. call = Idle /\ AtOnce
  BY DEF List_push, AtOnce
<1>2. PICK n \in Nodes \ DOMAIN node :
        /\ order' = [order EXCEPT ![x] = Append(s, n)]
        /\ IF l.last = NULL
           THEN /\ node' = WithNode(n, v, NULL, NULL)
                /\ list' = [list EXCEPT ![x] = [count |-> l.count + 1, first |-> n, last |-> n]]
           ELSE /\ node' = SetNext(WithNode(n, v, NULL, l.last), l.last, n)
                /\ list' = [list EXCEPT ![x] = [count |-> l.count + 1, first |-> l.first, last |-> n]]
  <2>1. \E n \in Nodes \ DOMAIN node :
          /\ order' = [order EXCEPT ![x] = Append(@, n)]
          /\ IF l.last = NULL
             THEN /\ node' = WithNode(n, v, NULL, NULL)
                  /\ list' = [list EXCEPT ![x] = [count |-> l.count + 1, first |-> n, last |-> n]]
             ELSE /\ node' = SetNext(WithNode(n, v, NULL, l.last), l.last, n)
                  /\ list' = [list EXCEPT ![x] = [count |-> l.count + 1, first |-> l.first, last |-> n]]
    BY DEF List_push
  <2>2. QED
    BY <2>1
<1>3. /\ Heap(node) /\ n \in Links /\ NULL \in Links
      /\ l.last = NULL \/ (l.last \in DOMAIN node /\ l.last \in Links /\ l.last # n)
  <2>1. OrderOK(s) /\ Linked(node, s) /\ l = EndsOf(s) /\ Heap(node)
    BY <1>1, WhenIdle
  <2>2. l.last = At(s, Len(s)) /\ Len(s) \in Int
    BY <2>1, AtIs DEF EndsOf
  <2>3. QED
    BY <2>1, <2>2, AtIs DEF Linked, Links
<1>4. OneNew(n, v)
  <2>1. CASE l.last = NULL
    <3>1. Allocated(WithNode(n, v, NULL, NULL), n, [next |-> NULL, prev |-> NULL, value |-> v])
      BY <1>3, WithNodeIs
    <3>2. QED
      BY <1>2, <2>1, <3>1 DEF Allocated, OneNew
  <2>2. CASE l.last # NULL
    <3> DEFINE r == WithNode(n, v, NULL, l.last)
    <3>1. Allocated(r, n, [next |-> NULL, prev |-> l.last, value |-> v])
      BY <1>3, <2>2, WithNodeIs
    <3>2. node' = SetNext(r, l.last, n)
      BY <1>2, <2>2
    <3> HIDE DEF r, l
    <3>3. Heap(r) /\ l.last \in DOMAIN r /\ n \in DOMAIN r
      BY <1>3, <2>2, <3>1 DEF Allocated
    <3>4. /\ SameBut(node', r, l.last)
          /\ node'[l.last] = [next |-> n, prev |-> r[l.last].prev, value |-> r[l.last].value]
      BY <1>3, <3>2, <3>3, SetNextIs
    <3>5. \A q \in DOMAIN r : node'[q].value = r[q].value
      BY <3>4 DEF SameBut
    <3>6. QED
      BY <1>3, <3>1, <3>3, <3>5 DEF Allocated, OneNew
  <2>3. QED
    BY <2>1, <2>2
<1>5. DOMAIN list' = DOMAIN list
  BY <1>2
<1>6. QED
  BY <1>1, <1>2, <1>4, <1>5

\* List_push is AddLast.
LEMMA PushIsAddLast ==
    ASSUME IInv, NEW x \in DOMAIN list, NEW v \in Values, List_push(x, v)
    PROVE  Abstract!Next
<1> DEFINE s == order[x]
<1>1. AtOnce /\ DOMAIN list' = DOMAIN list /\ call = Idle /\ call' = Idle
  BY PushedIs DEF AtOnce
<1>2. PICK n \in Nodes \ DOMAIN node : OneNew(n, v) /\ order' = [order EXCEPT ![x] = Append(s, n)]
  BY PushedIs
<1>3. /\ Heap(node) /\ DOMAIN list \subseteq Lists /\ DOMAIN order = DOMAIN list
      /\ \A y \in DOMAIN list : OrderOK(order[y]) /\ Linked(node, order[y])
  BY <1>1, WhenIdle
<1>4. \A y \in DOMAIN list : KeepsValues(node', node, order[y])
  BY <1>2, <1>3 DEF KeepsValues, OneNew, Linked
<1>5. order'[x] = Append(s, n) /\ \A y \in DOMAIN list : y # x => order'[y] = order[y]
  BY <1>2, <1>3
<1>6. Vals(node', Append(s, n)) = Append(Vals(node, s), v)
  <2>1. node'[n].value = v /\ \A k \in 1 .. Len(s) : s[k] # n
    BY <1>2, <1>3 DEF OneNew, Linked
  <2>2. QED
    BY <1>3, <1>4, <2>1, ValsAppend
<1>7. Shows[x] = Vals(node, s) /\ Shows'[x] = Vals(node', order'[x]) /\ DOMAIN Shows = DOMAIN list
  BY <1>1, IdleShows, IdleShowsNext
<1>8. Abstract!Others(x, Shows, Shows')
  BY <1>1, <1>4, <1>5, OthersAreLeft
<1>9. Abstract!AddLast(x, v, Shows, Shows')
  BY <1>5, <1>6, <1>7, <1>8 DEF Abstract!AddLast
<1>10. asked.fn = "List_push" /\ asked.list = x /\ asked.arg = v /\ asked' = Idle
  BY DEF List_push, Request, AtOnce
<1>11. Abstract!Effect(asked, Shows, Shows')
  BY <1>9, <1>10 DEF Abstract!Effect
<1>12. QED
  BY <1>10, <1>11, IsReturn

\* What List_unshift does to the lists.
LEMMA UnshiftedIs ==
    ASSUME IInv, NEW x \in DOMAIN list, NEW v \in Values, List_unshift(x, v)
    PROVE  /\ AtOnce /\ DOMAIN list' = DOMAIN list
           /\ \E n \in Nodes \ DOMAIN node :
                OneNew(n, v) /\ order' = [order EXCEPT ![x] = << n >> \o order[x]]
<1> DEFINE s == order[x]
           l == list[x]
<1>1. call = Idle /\ AtOnce
  BY DEF List_unshift, AtOnce
<1>2. PICK n \in Nodes \ DOMAIN node :
        /\ order' = [order EXCEPT ![x] = << n >> \o s]
        /\ IF l.first = NULL
           THEN /\ node' = WithNode(n, v, NULL, NULL)
                /\ list' = [list EXCEPT ![x] = [count |-> l.count + 1, first |-> n, last |-> n]]
           ELSE /\ node' = SetPrev(WithNode(n, v, l.first, NULL), l.first, n)
                /\ list' = [list EXCEPT ![x] = [count |-> l.count + 1, first |-> n, last |-> l.last]]
  <2>1. \E n \in Nodes \ DOMAIN node :
          /\ order' = [order EXCEPT ![x] = << n >> \o @]
          /\ IF l.first = NULL
             THEN /\ node' = WithNode(n, v, NULL, NULL)
                  /\ list' = [list EXCEPT ![x] = [count |-> l.count + 1, first |-> n, last |-> n]]
             ELSE /\ node' = SetPrev(WithNode(n, v, l.first, NULL), l.first, n)
                  /\ list' = [list EXCEPT ![x] = [count |-> l.count + 1, first |-> n, last |-> l.last]]
    BY DEF List_unshift
  <2>2. QED
    BY <2>1
<1>3. /\ Heap(node) /\ n \in Links /\ NULL \in Links
      /\ l.first = NULL \/ (l.first \in DOMAIN node /\ l.first \in Links /\ l.first # n)
  <2>1. OrderOK(s) /\ Linked(node, s) /\ l = EndsOf(s) /\ Heap(node)
    BY <1>1, WhenIdle
  <2>2. l.first = At(s, 1)
    BY <2>1 DEF EndsOf
  <2>3. QED
    BY <2>1, <2>2, AtIs DEF Linked, Links
<1>4. OneNew(n, v)
  <2>1. CASE l.first = NULL
    <3>1. Allocated(WithNode(n, v, NULL, NULL), n, [next |-> NULL, prev |-> NULL, value |-> v])
      BY <1>3, WithNodeIs
    <3>2. QED
      BY <1>2, <2>1, <3>1 DEF Allocated, OneNew
  <2>2. CASE l.first # NULL
    <3> DEFINE r == WithNode(n, v, l.first, NULL)
    <3>1. Allocated(r, n, [next |-> l.first, prev |-> NULL, value |-> v])
      BY <1>3, <2>2, WithNodeIs
    <3>2. node' = SetPrev(r, l.first, n)
      BY <1>2, <2>2
    <3> HIDE DEF r, l
    <3>3. Heap(r) /\ l.first \in DOMAIN r /\ n \in DOMAIN r
      BY <1>3, <2>2, <3>1 DEF Allocated
    <3>4. /\ SameBut(node', r, l.first)
          /\ node'[l.first] = [next |-> r[l.first].next, prev |-> n, value |-> r[l.first].value]
      BY <1>3, <3>2, <3>3, SetPrevIs
    <3>5. \A q \in DOMAIN r : node'[q].value = r[q].value
      BY <3>4 DEF SameBut
    <3>6. QED
      BY <1>3, <3>1, <3>3, <3>5 DEF Allocated, OneNew
  <2>3. QED
    BY <2>1, <2>2
<1>5. DOMAIN list' = DOMAIN list
  BY <1>2
<1>6. QED
  BY <1>1, <1>2, <1>4, <1>5

\* List_unshift is AddFirst.
LEMMA UnshiftIsAddFirst ==
    ASSUME IInv, NEW x \in DOMAIN list, NEW v \in Values, List_unshift(x, v)
    PROVE  Abstract!Next
<1> DEFINE s == order[x]
<1>1. AtOnce /\ DOMAIN list' = DOMAIN list /\ call = Idle /\ call' = Idle
  BY UnshiftedIs DEF AtOnce
<1>2. PICK n \in Nodes \ DOMAIN node : OneNew(n, v) /\ order' = [order EXCEPT ![x] = << n >> \o s]
  BY UnshiftedIs
<1>3. /\ Heap(node) /\ DOMAIN list \subseteq Lists /\ DOMAIN order = DOMAIN list
      /\ \A y \in DOMAIN list : OrderOK(order[y]) /\ Linked(node, order[y])
  BY <1>1, WhenIdle
<1>4. \A y \in DOMAIN list : KeepsValues(node', node, order[y])
  BY <1>2, <1>3 DEF KeepsValues, OneNew, Linked
<1>5. order'[x] = << n >> \o s /\ \A y \in DOMAIN list : y # x => order'[y] = order[y]
  BY <1>2, <1>3
<1>6. Vals(node', << n >> \o s) = << v >> \o Vals(node, s)
  <2>1. node'[n].value = v /\ \A k \in 1 .. Len(s) : s[k] # n
    BY <1>2, <1>3 DEF OneNew, Linked
  <2>2. QED
    BY <1>3, <1>4, <2>1, ValsPrepend
<1>7. Shows[x] = Vals(node, s) /\ Shows'[x] = Vals(node', order'[x]) /\ DOMAIN Shows = DOMAIN list
  BY <1>1, IdleShows, IdleShowsNext
<1>8. Abstract!Others(x, Shows, Shows')
  BY <1>1, <1>4, <1>5, OthersAreLeft
<1>9. Abstract!AddFirst(x, v, Shows, Shows')
  BY <1>5, <1>6, <1>7, <1>8 DEF Abstract!AddFirst
<1>10. asked.fn = "List_unshift" /\ asked.list = x /\ asked.arg = v /\ asked' = Idle
  BY DEF List_unshift, Request, AtOnce
<1>11. Abstract!Effect(asked, Shows, Shows')
  BY <1>9, <1>10 DEF Abstract!Effect
<1>12. QED
  BY <1>10, <1>11, IsReturn

\* List_remove takes the value of its node out,
LEMMA RemoveIsRemove ==
    ASSUME IInv, NEW x \in DOMAIN list, NEW i \in 1 .. Len(order[x]), List_remove(x, order[x][i])
    PROVE  Abstract!RemovePlace(x, i, Shows, Shows')
<1> DEFINE s == order[x]
           n == s[i]
           r == Mended(list[x], n)
<1>1. call = Idle /\ call' = Idle /\ AtOnce
  BY DEF List_remove, AtOnce
<1>2. /\ Heap(node) /\ DOMAIN list \subseteq Lists /\ DOMAIN order = DOMAIN list /\ list[x] = EndsOf(s)
      /\ \A y \in DOMAIN list : OrderOK(order[y]) /\ Linked(node, order[y])
      /\ \A y \in DOMAIN list : y # x => Apart(s, order[y])
  BY <1>1, WhenIdle
<1>3. /\ node' = Without(r, {n}) /\ DOMAIN list' = DOMAIN list
      /\ order' = [order EXCEPT ![x] = CutOut(s, i)]
  BY <1>2, PlaceIs DEF List_remove
<1>4. \A q \in DOMAIN node : q # n => node'[q].value = node[q].value
  <2>1. Heap(r) /\ DOMAIN r = DOMAIN node /\ \A q \in DOMAIN node : r[q].value = node[q].value
    BY <1>2, MendedIs
  <2> HIDE DEF r, n
  <2>2. \A q \in DOMAIN r \ {n} : Without(r, {n})[q] = r[q]
    BY <2>1, WithoutIs
  <2>3. QED
    BY <1>3, <2>1, <2>2
<1>5. \A y \in DOMAIN list : y # x => order'[y] = order[y] /\ KeepsValues(node', node, order[y])
  <2> SUFFICES ASSUME NEW y \in DOMAIN list, y # x
               PROVE  order'[y] = order[y] /\ KeepsValues(node', node, order[y])
    OBVIOUS
  <2>1. \A k \in 1 .. Len(order[y]) : order[y][k] \in DOMAIN node /\ order[y][k] # n
    BY <1>2 DEF Linked, Apart
  <2>2. KeepsValues(node', node, order[y])
    <3> HIDE DEF n
    <3>1. QED
      BY <1>4, <2>1 DEF KeepsValues
  <2>3. order'[y] = order[y]
    BY <1>2, <1>3
  <2>4. QED
    BY <2>2, <2>3
<1>6. Vals(node', CutOut(s, i)) = Abstract!WithoutPlace(Vals(node, s), i)
  <2>1. \A k \in 1 .. Len(s) : k # i => node'[s[k]].value = node[s[k]].value
    BY <1>2, <1>4 DEF Linked, OrderOK
  <2>2. QED
    BY <1>2, <2>1, ValsCut
<1>7. /\ Shows[x] = Vals(node, s) /\ DOMAIN Shows = DOMAIN list
      /\ Shows'[x] = Vals(node', CutOut(s, i))
  BY <1>1, <1>2, <1>3, IdleShows, IdleShowsNext
<1>8. Len(Vals(node, s)) = Len(s)
  BY <1>2, ValsType
<1>9. Abstract!Others(x, Shows, Shows')
  BY <1>1, <1>3, <1>5, OthersAreLeft
<1>10. QED
  BY <1>6, <1>7, <1>8, <1>9 DEF Abstract!RemovePlace

\* a return that does nothing shows what was shown,
LEMMA NothingShows ==
    ASSUME IInv, Nothing, NEW x \in DOMAIN list
    PROVE  /\ Shows' = Shows /\ Abstract!Others(x, Shows, Shows') /\ asked' = Idle
           /\ Len(order[x]) \in Nat /\ list[x].count = Len(order[x]) /\ Len(Shows[x]) = Len(order[x])
           /\ Shows[x] = Vals(node, order[x]) /\ Shows[x] \in Seq(Values)
<1>1. /\ call = Idle /\ call' = Idle /\ asked' = Idle
      /\ node' = node /\ list' = list /\ order' = order /\ was' = was
  BY DEF Nothing, AtOnce
<1>2. Shows' = Shows
  BY <1>1 DEF Shows, Shown, Busy, Contents
<1>3. Abstract!Others(x, Shows, Shows')
  <2>1. \A t : t = Shows => Abstract!Others(x, Shows, t)
    BY DEF Abstract!Others
  <2>2. QED
    BY <1>2, <2>1
<1>4. Heap(node) /\ OrderOK(order[x]) /\ Linked(node, order[x]) /\ list[x] = EndsOf(order[x])
  BY <1>1, WhenIdle
<1>5. Shows[x] = Vals(node, order[x])
  BY <1>1, IdleShows
<1>6. QED
  BY <1>1, <1>2, <1>3, <1>4, <1>5, ValsType DEF EndsOf

\* and List_pop and List_shift take out an end, if there is one.
LEMMA PopIsRemove ==
    ASSUME IInv, NEW x \in DOMAIN list,
           List_pop(x) \/ List_shift(x) \/ \E i \in 1 .. Len(order[x]) : List_remove_at(x, i)
    PROVE  Abstract!Next
<1>1. CASE \E i \in 1 .. Len(order[x]) : List_remove_at(x, i)
  <2>1. PICK i \in 1 .. Len(order[x]) : List_remove_at(x, i)
    BY <1>1
  <2>2. Abstract!RemovePlace(x, i, Shows, Shows')
    BY <2>1, RemoveIsRemove DEF List_remove_at
  <2>3. asked.fn = "List_remove" /\ asked.list = x /\ asked.arg = i /\ asked' = Idle
    BY <2>1 DEF List_remove_at, List_remove, Request, AtOnce
  <2>4. Abstract!Effect(asked, Shows, Shows')
    BY <2>2, <2>3 DEF Abstract!Effect
  <2>5. QED
    BY <2>3, <2>4, IsReturn
<1>2. CASE List_pop(x) \/ List_shift(x)
  <2>1. call = Idle /\ asked' = Idle
    BY <1>2 DEF List_pop, List_shift, List_remove, Nothing, AtOnce
  <2>2. OrderOK(order[x]) /\ list[x] = EndsOf(order[x]) /\ Heap(node) /\ Linked(node, order[x])
    BY <2>1, WhenIdle
  <2>3. Len(order[x]) \in Nat /\ list[x].first = At(order[x], 1) /\ list[x].last = At(order[x], Len(order[x]))
    BY <2>2, EndsType DEF EndsOf
  <2>4. Shows[x] = Vals(node, order[x]) /\ Len(Shows[x]) = Len(order[x])
    BY <2>1, <2>2, IdleShows, ValsType
  <2>5. \A i \in 1 .. Len(order[x]) : order[x][i] # NULL
    BY <2>2, AtIs
  <2>6. ASSUME Nothing, Len(order[x]) = 0, NEW i \in {0, 1} PROVE Abstract!RemovePlace(x, i, Shows, Shows')
    <3>1. Shows' = Shows /\ Abstract!Others(x, Shows, Shows') /\ i \notin 1 .. Len(Shows[x])
      BY <2>4, <2>6, NothingShows
    <3>2. QED
      BY <3>1 DEF Abstract!RemovePlace
  <2>7. CASE List_pop(x)
    <3>1. Abstract!RemovePlace(x, Len(Shows[x]), Shows, Shows')
      <4>1. CASE list[x].last # NULL
        <5>1. Len(order[x]) \in 1 .. Len(order[x]) /\ list[x].last = order[x][Len(order[x])]
          BY <2>3, <4>1 DEF At
        <5>2. QED
          BY <2>4, <2>7, <4>1, <5>1, RemoveIsRemove DEF List_pop
      <4>2. CASE list[x].last = NULL
        <5>1. Len(order[x]) = 0
          BY <2>3, <2>5, <4>2 DEF At
        <5>2. Nothing
          BY <2>7, <4>2 DEF List_pop
        <5>3. QED
          BY <2>4, <2>6, <5>1, <5>2
      <4>3. QED
        BY <4>1, <4>2
    <3>2. asked.fn = "List_pop" /\ asked.list = x
      BY <2>7 DEF List_pop, Request
    <3>3. Abstract!Effect(asked, Shows, Shows')
      BY <3>1, <3>2 DEF Abstract!Effect
    <3>4. QED
      BY <2>1, <3>2, <3>3, IsReturn
  <2>8. CASE List_shift(x)
    <3>1. Abstract!RemovePlace(x, 1, Shows, Shows')
      <4>1. CASE list[x].first # NULL
        <5>1. 1 \in 1 .. Len(order[x]) /\ list[x].first = order[x][1]
          BY <2>3, <4>1 DEF At
        <5>2. QED
          BY <2>8, <4>1, <5>1, RemoveIsRemove DEF List_shift
      <4>2. CASE list[x].first = NULL
        <5>1. Len(order[x]) = 0
          BY <2>3, <2>5, <4>2 DEF At
        <5>2. Nothing
          BY <2>8, <4>2 DEF List_shift
        <5>3. QED
          BY <2>6, <5>1, <5>2
      <4>3. QED
        BY <4>1, <4>2
    <3>2. asked.fn = "List_shift" /\ asked.list = x
      BY <2>8 DEF List_shift, Request
    <3>3. Abstract!Effect(asked, Shows, Shows')
      BY <3>1, <3>2 DEF Abstract!Effect
    <3>4. QED
      BY <2>1, <3>2, <3>3, IsReturn
  <2>9. QED
    BY <1>2, <2>7, <2>8
<1>3. QED
  BY <1>1, <1>2

\* List_connect is Join.
LEMMA ConnectIsJoin ==
    ASSUME IInv, NEW x \in DOMAIN list, NEW z \in DOMAIN list, List_connect(x, z)
    PROVE  Abstract!Next
<1> DEFINE s == order[x]
           u == order[z]
           t == s \o u
<1>1. call = Idle /\ call' = Idle /\ x # z /\ order' = Without([order EXCEPT ![x] = t], {z})
  BY DEF List_connect, Connectable, AtOnce
<1>2. /\ Heap(node) /\ DOMAIN list \subseteq Lists /\ DOMAIN order = DOMAIN list
      /\ \A y \in DOMAIN list : OrderOK(order[y]) /\ Linked(node, order[y])
  BY <1>1, WhenIdle
<1>3. Joined(t, s, u) /\ Connected(x, z, t)
  BY ConnectIs
<1> HIDE DEF t
<1>4. DOMAIN list' = DOMAIN list \ {z} /\ \A q \in DOMAIN node : node'[q].value = node[q].value
  BY <1>3 DEF Connected, Without
<1>5. order'[x] = t /\ \A y \in DOMAIN list \ {z} : y # x => order'[y] = order[y]
  BY <1>1, <1>2 DEF Without
<1>6. \A y \in DOMAIN list : KeepsValues(node', node, order[y])
  BY <1>2, <1>4 DEF KeepsValues, Linked
<1>7. Vals(node', t) = Vals(node, s) \o Vals(node, u)
  <2>1. KeepsValues(node', node, s) /\ KeepsValues(node', node, u) /\ OrderOK(s) /\ OrderOK(u)
        /\ Linked(node, s) /\ Linked(node, u)
    BY <1>2, <1>6
  <2> HIDE DEF s, u
  <2>2. QED
    BY ONLY <1>2, <1>3, <2>1, ValsJoin
<1>8. DOMAIN Shows = DOMAIN list /\ \A y \in DOMAIN list : Shows[y] = Vals(node, order[y])
  BY <1>1, IdleShows
<1>9. /\ Shows' = [y \in DOMAIN list' |-> Shows'[y]]
      /\ \A y \in DOMAIN list' : Shows'[y] = Vals(node', order'[y])
  BY <1>1, IdleShowsNext
<1>10. \A y \in DOMAIN list \ {z} : Shows'[y] = IF y = x THEN Shows[x] \o Shows[z] ELSE Shows[y]
  <2> SUFFICES ASSUME NEW y \in DOMAIN list \ {z}
               PROVE  Shows'[y] = IF y = x THEN Shows[x] \o Shows[z] ELSE Shows[y]
    OBVIOUS
  <2>1. CASE y = x
    BY <1>4, <1>5, <1>7, <1>8, <1>9, <2>1
  <2>2. CASE y # x
    <3>1. Vals(node', order[y]) = Vals(node, order[y])
      BY <1>6, SameValuesAre
    <3>2. QED
      BY <1>4, <1>5, <1>8, <1>9, <2>2, <3>1
  <2>3. QED
    BY <2>1, <2>2
<1>11. Shows' = [y \in DOMAIN Shows \ {z} |-> IF y = x THEN Shows[x] \o Shows[z] ELSE Shows[y]]
  BY <1>4, <1>8, <1>9, <1>10
<1>12. Abstract!Join(x, z, Shows, Shows')
  BY <1>11 DEF Abstract!Join
<1>13. asked.fn = "List_connect" /\ asked.list = x /\ asked.arg = z /\ asked' = Idle
  BY DEF List_connect, Request, AtOnce
<1>14. Abstract!Effect(asked, Shows, Shows')
  BY <1>12, <1>13 DEF Abstract!Effect
<1>15. QED
  BY <1>13, <1>14, IsReturn

\* List_mergesort of a list without pairs is Sort.
LEMMA NoPairsIsSort ==
    ASSUME IInv, NEW x \in DOMAIN list, List_mergesort(x), ~HasPairs(x)
    PROVE  Abstract!Next
<1>1. Nothing /\ asked.fn = "List_mergesort" /\ asked.list = x
  BY DEF List_mergesort, Request
<1>2. /\ Shows' = Shows /\ Abstract!Others(x, Shows, Shows') /\ asked' = Idle
      /\ Len(order[x]) \in Nat /\ list[x].count = Len(order[x]) /\ Len(Shows[x]) = Len(order[x])
      /\ Shows[x] \in Seq(Values)
  BY <1>1, NothingShows
<1>3. ~(\E i, j \in 1 .. Len(Shows[x]) : i < j)
  BY <1>2 DEF HasPairs
<1>4. Abstract!Sorted(Shows[x])
  BY <1>3 DEF Abstract!Sorted
<1>5. Abstract!SameValues(Shows[x], Shows[x])
  BY <1>2, SameAsItself
<1>6. \A t : t = Shows /\ Abstract!Others(x, Shows, t) => Abstract!Sort(x, Shows, t)
  BY <1>4, <1>5 DEF Abstract!Sort
<1>7. Abstract!Sort(x, Shows, Shows')
  BY <1>2, <1>6
<1>8. Abstract!Effect(asked, Shows, Shows')
  BY <1>1, <1>7 DEF Abstract!Effect, Abstract!Sorts
<1>9. QED
  BY <1>1, <1>2, <1>8, IsReturn

\* A call that takes several steps shows nothing new when it starts,
LEMMA BeginsShows ==
    ASSUME IInv, NEW x \in DOMAIN list, NEW c, NEW variables, Begins(x, c, variables), c # Idle, c.list = x
    PROVE  Shows' = Shows /\ asked' = asked /\ AskedOK'
<1>1. /\ call = Idle /\ call' = c /\ was' = Contents(x)
      /\ node' = node /\ list' = list /\ order' = order
  BY DEF Begins
<1>2. ASSUME NEW y \in DOMAIN list PROVE Shown(y)' = Shown(y)
  <2>1. Shown(y) = Contents(y)
    BY <1>1 DEF Shown, Busy
  <2>2. Contents(y)' = Contents(y)
    BY <1>1 DEF Contents
  <2>3. Shown(y)' = IF c.list = y THEN Contents(x) ELSE Contents(y)'
    BY <1>1 DEF Shown, Busy
  <2>4. QED
    BY <2>1, <2>2, <2>3
<1>3. asked' = asked /\ asked.fn = c.fn /\ asked.list = x
  BY DEF Begins, Request
<1>4. QED
  BY <1>1, <1>2, <1>3 DEF Shows, AskedOK

\* and while it runs.
LEMMA RunningShows ==
    ASSUME call # Idle, call' # Idle, call'.list = call.list, was' = was, DOMAIN list' = DOMAIN list, OthersShown
    PROVE  Shows' = Shows
<1>1. ASSUME NEW y \in DOMAIN list PROVE Shown(y)' = Shown(y)
  <2>1. CASE y = call.list
    BY <2>1 DEF Shown, Busy
  <2>2. CASE y # call.list
    <3>1. Contents(y)' = Contents(y)
      BY <2>2 DEF OthersShown
    <3>2. QED
      BY <2>2, <3>1 DEF Shown, Busy
  <2>3. QED
    BY <2>1, <2>2
<1>2. QED
  BY <1>1 DEF Shows
\* A step of a running function that moves its variables or the nodes of its list.
Goes ==
    /\ call # Idle /\ call' # Idle /\ call'.list = call.list /\ was' = was /\ DOMAIN list' = DOMAIN list
    /\ call'.fn = call.fn /\ asked' = asked

\* A step inside a function leaves its caller, its list and what it shows.
LEMMA GoesIs ==
    ASSUME NEW f, f # "none", call.fn = f, call'.fn = f, call'.list = call.list, was' = was, list' = list,
           asked' = asked
    PROVE  Goes
BY DEF Goes, Idle

\* A step that writes variables only shows nothing.
LEMMA MovesShow ==
    ASSUME Moves
    PROVE  OthersShown /\ was' = was /\ list' = list /\ asked' = asked
BY DEF Moves, OthersShown, Contents

\* The steps of List_bubblesort,
LEMMA BubblesGo ==
    ASSUME IInv, Bubble \/ NextBubbles
    PROVE  Goes /\ OthersShown
<1>1. BubbleOK /\ call.fn = "List_bubblesort" /\ call \in BubbleCall
  BY Running DEF Bubble, NextBubbles, BubbleOK
<1>2. CASE Bubble
  <2>1. call'.fn = call.fn /\ call'.list = call.list /\ was' = was /\ list' = list /\ asked' = asked
    BY <1>1, <1>2 DEF Bubble, BubbleCall
  <2>2. QED
    BY <1>1, <1>2, <2>1, GoesIs, BubbleKeeps
<1>3. CASE NextBubbles
  <2>1. call'.fn = call.fn /\ call'.list = call.list
    BY <1>1, <1>3 DEF NextBubbles, BubbleCall
  <2>2. Moves
    BY <1>3 DEF NextBubbles
  <2>3. QED
    BY <1>1, <2>1, <2>2, GoesIs, MovesShow
<1>4. QED
  BY <1>2, <1>3

\* of List_mergesort
LEMMA HalvesGo ==
    ASSUME IInv, Halve \/ SortLeft \/ SortRight \/ MergeHalves \/ MergeRoundOfHalves
    PROVE  Goes /\ OthersShown
<1>1. call.fn = "List_mergesort" /\ call \in SortCall
  <2>1. call.fn = "List_mergesort"
    BY DEF Halve, SortLeft, SortRight, MergeHalves, MergeRoundOfHalves, Halved
  <2>2. QED
    BY <2>1, TopIs
<1>2. CASE Halve
  <2>1. call'.fn = call.fn /\ call'.list = call.list
    BY <1>1, <1>2 DEF Halve, SortCall
  <2>2. Moves
    BY <1>2 DEF Halve
  <2>3. QED
    BY <1>1, <2>1, <2>2, GoesIs, MovesShow
<1>3. CASE SortLeft
  <2>1. call'.fn = call.fn /\ call'.list = call.list
    BY <1>1, <1>3 DEF SortLeft, Recurse, SortCall
  <2>2. Moves
    BY <1>3 DEF SortLeft, Recurse
  <2>3. QED
    BY <1>1, <2>1, <2>2, GoesIs, MovesShow
<1>4. CASE SortRight
  <2>1. call'.fn = call.fn /\ call'.list = call.list
    BY <1>1, <1>4 DEF SortRight, Recurse, SortCall
  <2>2. Moves
    BY <1>4 DEF SortRight, Recurse
  <2>3. QED
    BY <1>1, <2>1, <2>2, GoesIs, MovesShow
<1>5. CASE MergeHalves
  <2>1. call'.fn = call.fn /\ call'.list = call.list
    BY <1>1, <1>5 DEF MergeHalves, SortCall
  <2>2. Moves
    BY <1>5 DEF MergeHalves
  <2>3. QED
    BY <1>1, <2>1, <2>2, GoesIs, MovesShow
<1>6. CASE MergeRoundOfHalves
  <2>1. call'.fn = call.fn /\ call'.list = call.list
    BY <1>1, <1>6 DEF MergeRoundOfHalves, SortCall
  <2>2. was' = was /\ asked' = asked
    BY <1>6 DEF MergeRoundOfHalves, MergeRound
  <2>3. OthersShown /\ DOMAIN list' = DOMAIN list
    BY <1>6, MergeRoundOfHalvesKeeps
  <2>4. QED
    BY <1>1, <2>1, <2>2, <2>3 DEF Goes, Idle
<1>7. QED
  BY <1>2, <1>3, <1>4, <1>5, <1>6

\* and of List_sort_from_bottom_to_top show nothing before they return.
LEMMA WalksGo ==
    ASSUME IInv, \/ RoundStarts \/ WalkMid \/ WalkRight \/ MergePair \/ MergeRoundOfPair \/ PairMerged
                 \/ WalkNext \/ WalkNextMid \/ RoundEnds
    PROVE  Goes /\ OthersShown
<1>1. call.fn = "List_sort_from_bottom_to_top" /\ call \in BottomUpCall
  <2>1. call.fn = "List_sort_from_bottom_to_top"
    BY DEF RoundStarts, WalkMid, WalkRight, MergePair, MergeRoundOfPair, PairMerged, WalkNext, WalkNextMid,
           RoundEnds, InBottomUp
  <2>2. QED
    BY <2>1, InBottom
<1>2. CASE RoundStarts \/ WalkMid \/ WalkRight
  <2>1. call'.fn = call.fn /\ call'.list = call.list
    BY <1>1, <1>2 DEF RoundStarts, WalkMid, WalkRight, BottomUpCall
  <2>2. Moves
    BY <1>2 DEF RoundStarts, WalkMid, WalkRight
  <2>3. QED
    BY <1>1, <2>1, <2>2, GoesIs, MovesShow
<1>3. CASE MergePair
  <2>1. call'.fn = call.fn /\ call'.list = call.list
    BY <1>1, <1>3 DEF MergePair, MergeStart, BottomUpCall
  <2>2. Moves
    BY <1>3 DEF MergePair
  <2>3. QED
    BY <1>1, <2>1, <2>2, GoesIs, MovesShow
<1>4. CASE WalkNext \/ WalkNextMid \/ RoundEnds
  <2>1. call'.fn = call.fn /\ call'.list = call.list
    BY <1>1, <1>4 DEF WalkNext, WalkNextMid, RoundEnds, BottomUpCall
  <2>2. Moves
    BY <1>4 DEF WalkNext, WalkNextMid, RoundEnds
  <2>3. QED
    BY <1>1, <2>1, <2>2, GoesIs, MovesShow
<1>5. CASE MergeRoundOfPair
  <2>1. call'.fn = call.fn /\ call'.list = call.list
    BY <1>1, <1>5 DEF MergeRoundOfPair, AfterRound, BottomUpCall
  <2>2. was' = was /\ asked' = asked
    BY <1>5 DEF MergeRoundOfPair, MergeRound
  <2>3. OthersShown /\ DOMAIN list' = DOMAIN list
    BY <1>5, MergeRoundOfPairKeeps
  <2>4. QED
    BY <1>1, <2>1, <2>2, <2>3 DEF Goes, Idle
<1>6. CASE PairMerged
  <2>1. call'.fn = call.fn /\ call'.list = call.list
    BY <1>1, <1>6 DEF PairMerged, BottomUpCall
  <2>2. was' = was /\ asked' = asked /\ node' = node /\ order' = order /\ DOMAIN list' = DOMAIN list
    BY <1>6 DEF PairMerged
  <2>3. OthersShown
    BY <2>2 DEF OthersShown, Contents
  <2>4. QED
    BY <1>1, <2>1, <2>2, <2>3 DEF Goes, Idle
<1>7. QED
  BY <1>2, <1>3, <1>4, <1>5, <1>6

\* Such a step is a stutter of the specification.
LEMMA GoingShows ==
    ASSUME AskedOK, Goes, OthersShown
    PROVE  Shows' = Shows /\ asked' = asked /\ AskedOK'
BY RunningShows DEF Goes, AskedOK

\* The list is seen in order only when the sort returns.
LEMMA SortedShows ==
    ASSUME IInv, AskedOK, Sorting, call # Idle, call.fn \in Abstract!Sorts, Returns,
           UNCHANGED <<node, list, order>>, Abstract!Sorted(values)
    PROVE  Abstract!Next
<1> DEFINE x == call.list
<1>1. call' = Idle /\ node' = node /\ list' = list /\ order' = order
  BY DEF Returns
<1>2. x \in DOMAIN list /\ DOMAIN list \subseteq Lists
  BY DEF Sorting, IInv, Base
<1>3. Shows[x] = was /\ DOMAIN Shows = DOMAIN list
  BY <1>2 DEF Shows, Shown, Busy
<1>4. \A y \in DOMAIN list : y # x => Shows[y] = Contents(y)
  BY DEF Shows, Shown, Busy
<1>5. \A y : Contents(y)' = Contents(y)
  BY <1>1 DEF Contents
<1>6. DOMAIN Shows' = DOMAIN list /\ \A y \in DOMAIN list : Shows'[y] = Contents(y)
  BY <1>1, <1>5 DEF Shows, Shown, Busy
<1>7. Abstract!Others(x, Shows, Shows')
  BY <1>2, <1>3, <1>4, <1>6 DEF Abstract!Others
<1>8. Shows'[x] = values
  BY <1>2, <1>6 DEF values
<1>9. Abstract!Sort(x, Shows, Shows')
  <2>1. Abstract!SameValues(was, values) /\ Abstract!Sorted(values)
    BY DEF Sorting
  <2>2. Abstract!Sorted(Shows'[x])
    BY ONLY <1>8, <2>1 DEF Abstract!Sorted
  <2>3. Abstract!SameValues(Shows[x], Shows'[x])
    <3>1. ASSUME NEW s, NEW t, s = was, t = values PROVE Abstract!SameValues(s, t)
      BY ONLY <2>1, <3>1 DEF Abstract!SameValues
    <3>2. QED
      BY ONLY <1>3, <1>8, <3>1
  <2>4. QED
    BY <1>7, <2>2, <2>3 DEF Abstract!Sort
<1>10. asked.fn \in Abstract!Sorts /\ asked.list = x /\ asked' = Idle /\ asked.fn # "none"
  BY DEF AskedOK, Returns, Abstract!Sorts
<1>11. Abstract!Effect(asked, Shows, Shows')
  BY <1>9, <1>10 DEF Abstract!Effect
<1>12. QED
  BY <1>10, <1>11, IsReturn

\* The nodes of a list that is destroyed are in no other.
LEMMA FreedShows ==
    ASSUME IInv, DestroyOK, NEW q, q = NULL \/ (\E a \in 1 .. Len(nodes) : q = nodes[a]),
           node' = Without(node, {q}), \A y \in DOMAIN list : y # call.list => order'[y] = order[y]
    PROVE  OthersShown
<1>1. call # Idle /\ call.list \in DOMAIN list /\ Heap(node)
  BY NotCalls DEF DestroyOK, IInv, Base
<1>2. \A p \in DOMAIN node \ {q} : node'[p] = node[p]
  <2>1. \A p \in DOMAIN node \ {q} : Without(node, {q})[p] = node[p]
    BY <1>1, WithoutIs
  <2>2. QED
    BY <2>1
<1>3. \A p \in DOMAIN node : (\A k \in 1 .. Len(nodes) : p # nodes[k]) => node'[p] = node[p]
  BY <1>1, <1>2, LinkedListAssumption DEF Heap
<1>4. QED
  BY <1>1, <1>3, OthersAreShown

\* The loop of List_destroy shows nothing,
LEMMA FreePrevGoes ==
    ASSUME IInv, FreePrev
    PROVE  Goes /\ OthersShown
<1> DEFINE s == nodes
           q == node[call.cur].prev
<1>1. /\ DestroyOK /\ call.fn = "List_destroy" /\ call.cur # NULL /\ node' = Without(node, {q})
      /\ call' = [call EXCEPT !.cur = node'[@].next]
      /\ list' = list /\ order' = order /\ was' = was /\ asked' = asked
  BY Running DEF FreePrev
<1>2. PICK p \in 1 .. Len(s) + 1 : DestroyAt(p)
  BY <1>1 DEF DestroyOK
<1>3. OrderOK(s)
  BY <1>1 DEF DestroyOK, IInv, Base, nodes
<1>4. Len(s) \in Nat /\ p \in 1 .. Len(s)
  BY <1>1, <1>2, <1>3, AtIs DEF DestroyAt
<1>5. q = At(s, p - 1)
  BY <1>2, <1>4 DEF DestroyAt, At
<1>6. q = NULL \/ (\E a \in 1 .. Len(nodes) : q = nodes[a])
  BY <1>5 DEF At
<1>7. OthersShown
  <2> HIDE DEF q
  <2>1. QED
    BY <1>1, <1>6, FreedShows
<1>8. call'.fn = call.fn /\ call'.list = call.list
  BY <1>1 DEF DestroyOK, DestroyCall
<1>9. QED
  BY <1>1, <1>7, <1>8, GoesIs

\* and its end is Destroy.
LEMMA FreeListIsDestroy ==
    ASSUME IInv, AskedOK, FreeList
    PROVE  Abstract!Next
<1> DEFINE x == call.list
           q == list[x].last
<1>1. /\ DestroyOK /\ node' = Without(node, {q}) /\ call' = Idle
      /\ list' = Without(list, {x}) /\ order' = Without(order, {x})
  BY Running DEF FreeList, Returns
<1>2. /\ x \in DOMAIN list /\ DOMAIN list \subseteq Lists /\ DOMAIN order = DOMAIN list
      /\ list[x] = EndsOf(nodes) /\ call # Idle
  BY <1>1, NotCalls DEF DestroyOK, IInv, Base
<1>3. q = NULL \/ (\E a \in 1 .. Len(nodes) : q = nodes[a])
  BY <1>2 DEF EndsOf, At
<1>4. DOMAIN list' = DOMAIN list \ {x} /\ \A y \in DOMAIN list : y # x => order'[y] = order[y]
  BY <1>1, <1>2 DEF Without
<1>5. OthersShown
  <2> HIDE DEF q
  <2>1. QED
    BY <1>1, <1>3, <1>4, FreedShows
<1>6. DOMAIN Shows = DOMAIN list /\ \A y \in DOMAIN list : y # x => Shows[y] = Contents(y)
  BY DEF Shows, Shown, Busy
<1>7. Shows' = [y \in DOMAIN list' |-> Contents(y)']
  BY <1>1 DEF Shows, Shown, Busy
<1>8. Shows' = [y \in DOMAIN Shows \ {x} |-> Shows[y]]
  BY <1>4, <1>5, <1>6, <1>7 DEF OthersShown
<1>9. Abstract!Destroy(x, Shows, Shows')
  BY <1>8 DEF Abstract!Destroy
<1>10. asked.fn = "List_destroy" /\ asked.list = x /\ asked' = Idle
  BY <1>2 DEF FreeList, Returns, AskedOK
<1>11. Abstract!Effect(asked, Shows, Shows')
  BY <1>9, <1>10 DEF Abstract!Effect
<1>12. QED
  BY <1>10, <1>11, IsReturn

\* The start of a call that takes several steps shows nothing.
LEMMA CallsBegin ==
    ASSUME IInv, NEW x \in DOMAIN list,
           \/ List_destroy(x) \/ List_bubblesort(x) \/ List_sort_from_bottom_to_top(x)
           \/ List_mergesort(x) /\ HasPairs(x)
    PROVE  Shows' = Shows /\ asked' = asked /\ AskedOK'
<1>1. CASE List_destroy(x)
  <2> DEFINE c == [fn |-> "List_destroy", list |-> x, cur |-> list[x].first]
  <2>1. Begins(x, c, <<>>) /\ c # Idle /\ c.list = x
    BY <1>1 DEF List_destroy, Idle
  <2> HIDE DEF c
  <2>2. QED
    BY <2>1, BeginsShows
<1>2. CASE List_mergesort(x) /\ HasPairs(x)
  <2> DEFINE c == [fn |-> "List_mergesort", list |-> x, stack |-> <<Frame(<<"first", x>>, <<"last", x>>)>>]
  <2>1. Begins(x, c, << list[x].first >>)
    BY <1>2 DEF List_mergesort
  <2>2. c # Idle /\ c.list = x
    BY DEF Idle
  <2> HIDE DEF c
  <2>3. QED
    BY <2>1, <2>2, BeginsShows
<1>3. CASE List_bubblesort(x)
  <2> DEFINE c == [fn |-> "List_bubblesort", list |-> x, curi |-> 0, curj |-> 0, j |-> list[x].first]
  <2>1. Begins(x, c, <<>>) /\ c # Idle /\ c.list = x
    BY <1>3 DEF List_bubblesort, Idle
  <2> HIDE DEF c
  <2>2. QED
    BY <2>1, BeginsShows
<1>4. CASE List_sort_from_bottom_to_top(x)
  <2> DEFINE c == [fn |-> "List_sort_from_bottom_to_top", list |-> x, at |-> "round", step |-> 1, i |-> 0, k |-> 0,
                   mid |-> NULL, l |-> NULL, m |-> NULL, end |-> NULL,
                   isFirst |-> FALSE, isLast |-> FALSE]
  <2>1. Begins(x, c, <<NULL, NULL>>) /\ c # Idle /\ c.list = x
    BY <1>4 DEF List_sort_from_bottom_to_top, Idle
  <2> HIDE DEF c
  <2>2. QED
    BY <2>1, BeginsShows
<1>5. QED
  BY <1>1, <1>2, <1>3, <1>4

\* A call the caller may make is one of the specification.
LEMMA CallsAreCalls ==
    ASSUME IInv, AskedOK, Calls
    PROVE  Abstract!Next /\ AskedOK'
<1>1. /\ asked = Idle /\ node' = node /\ list' = list /\ call' = call /\ order' = order /\ was' = was
  BY DEF Calls
<1>2. call = Idle
  <2>1. call.fn = "none" \/ call = Idle
    BY <1>1 DEF AskedOK, Idle
  <2>2. QED
    BY <2>1 DEF IInv, CallOK, DestroyOK, BubbleOK, SortOK, BottomUpOK, DestroyCall, BubbleCall, SortCall, BottomUpCall
<1>3. Shows' = Shows
  BY <1>1 DEF Shows, Shown, Busy, Contents
<1>4. DOMAIN Shows = DOMAIN list /\ \A x \in DOMAIN list : Shows[x] = Vals(node, order[x])
  BY <1>2, IdleShows
<1>5. \A x \in DOMAIN list : /\ Shows[x] \in Seq(Values) /\ Len(Shows[x]) = Len(order[x])
                           /\ Len(order[x]) \in Nat /\ list[x].count = Len(order[x])
  <2> SUFFICES ASSUME NEW x \in DOMAIN list
               PROVE  /\ Shows[x] \in Seq(Values) /\ Len(Shows[x]) = Len(order[x])
                      /\ Len(order[x]) \in Nat /\ list[x].count = Len(order[x])
    OBVIOUS
  <2>1. Heap(node) /\ OrderOK(order[x]) /\ Linked(node, order[x]) /\ list[x] = EndsOf(order[x])
    BY <1>2, WhenIdle
  <2>2. QED
    BY <1>4, <2>1, ValsType DEF EndsOf
<1>6. \A x \in DOMAIN list : list[x].count = 0 <=> Shows[x] = <<>>
  BY <1>5
<1>7. Abstract!Begin
  <2> DEFINE Asks(s) ==
        \/ \E x \in Lists \ DOMAIN s : asked' = Request("List_create", x, 0)
        \/ \E x \in DOMAIN s :
             \/ \E fn \in {"List_destroy", "List_pop", "List_shift"} \cup Abstract!Sorts : asked' = Request(fn, x, 0)
             \/ \E fn \in {"List_push", "List_unshift"}, v \in Values : asked' = Request(fn, x, v)
             \/ \E i \in 1 .. Len(s[x]) : asked' = Request("List_remove", x, i)
             \/ \E y \in DOMAIN s \ {x} :
                  (s[x] = <<>> \/ s[y] # <<>>) /\ asked' = Request("List_connect", x, y)
  <2>1. Asks(Shows)
    <3>1. CASE \E x \in Lists \ DOMAIN list : asked' = Request("List_create", x, 0)
      BY <1>4, <3>1
    <3>2. ASSUME NEW x \in DOMAIN list,
                 \/ \E fn \in {"List_destroy", "List_pop", "List_shift",
                              "List_mergesort", "List_bubblesort", "List_sort_from_bottom_to_top"} :
                       asked' = Request(fn, x, 0)
                 \/ /\ DOMAIN node # Nodes
                    /\ \E fn \in {"List_push", "List_unshift"}, v \in Values : asked' = Request(fn, x, v)
          PROVE  Asks(Shows)
      BY <1>4, <3>2 DEF Abstract!Sorts
    <3>3. ASSUME NEW x \in DOMAIN list, NEW i \in 1 .. Len(order[x]), asked' = Request("List_remove", x, i)
          PROVE  Asks(Shows)
      BY <1>4, <1>5, <3>3
    <3>4. ASSUME NEW x \in DOMAIN list, NEW y \in DOMAIN list, Connectable(x, y),
                 asked' = Request("List_connect", x, y)
          PROVE  Asks(Shows)
      BY <1>4, <1>6, <3>4 DEF Connectable
    <3>5. QED
      BY <3>1, <3>2, <3>3, <3>4 DEF Calls
  <2>2. QED
    BY <1>1, <1>3, <2>1 DEF Abstract!Begin, Abstract!None, Abstract!Request, Idle, Request, Shows, Shown
<1>8. QED
  BY <1>1, <1>2, <1>7 DEF Abstract!Next, AskedOK

\* The return of an inner __List_sort is a stutter, that of the first one is Sort.
LEMMA SortReturnsShows ==
    ASSUME IInv, AskedOK, SortReturns
    PROVE  (Abstract!Next \/ (Shows' = Shows /\ asked' = asked)) /\ AskedOK'
<1>1. /\ call.fn = "List_mergesort" /\ UNCHANGED <<node, list, order>>
      /\ depth = 1 => Returns
      /\ depth # 1 => call' = [call EXCEPT !.stack = SubSeq(@, 1, depth - 1)] /\ was' = was /\ asked' = asked
  BY DEF SortReturns
<1>2. call \in SortCall /\ call # Idle /\ Sorting
  BY <1>1, TopIs
<1>3. CASE depth = 1
  <2>1. Abstract!Sorted(values)
    BY <1>3, SortReturnsKeeps
  <2>2. Abstract!Next
    BY <1>1, <1>2, <1>3, <2>1, SortedShows DEF Abstract!Sorts
  <2>3. QED
    BY <1>1, <1>3, <2>2 DEF Returns, AskedOK
<1>4. CASE depth # 1
  <2>1. call'.fn = call.fn /\ call'.list = call.list
    BY <1>1, <1>2, <1>4 DEF SortCall
  <2>2. Moves
    BY <1>1, <1>4 DEF Moves
  <2>3. QED
    BY <1>1, <2>1, <2>2, GoesIs, MovesShow, GoingShows
<1>5. QED
  BY <1>3, <1>4

\* Every step is a step of ValueLists or a stutter.
LEMMA StepIsStep ==
    ASSUME IInv, AskedOK, Next
    PROVE  (Abstract!Next \/ (Shows' = Shows /\ asked' = asked)) /\ AskedOK'
<1> DEFINE P == (Abstract!Next \/ (Shows' = Shows /\ asked' = asked)) /\ AskedOK'
<1>1. CASE Calls
  BY <1>1, CallsAreCalls
<1>2. ASSUME call' = Idle PROVE AskedOK'
  BY <1>2 DEF AskedOK
<1>3. ASSUME NEW x \in Lists, List_create(x) PROVE P
  <2>1. call' = Idle
    BY <1>3 DEF List_create, AtOnce
  <2>2. QED
    BY <1>2, <1>3, <2>1, CreateIsCreate
<1>4. ASSUME NEW x \in DOMAIN list,
             \/ \E v \in Values : List_push(x, v) \/ List_unshift(x, v)
             \/ \E i \in 1 .. Len(order[x]) : List_remove_at(x, i)
             \/ List_pop(x) \/ List_shift(x)
             \/ \E y \in DOMAIN list : List_connect(x, y)
             \/ List_mergesort(x) /\ ~HasPairs(x)
      PROVE  P
  <2>1. call' = Idle
    BY <1>4 DEF List_push, List_unshift, List_remove_at, List_pop, List_shift, List_connect, List_mergesort,
                List_remove, Nothing, AtOnce
  <2>2. Abstract!Next
    BY <1>4, PushIsAddLast, UnshiftIsAddFirst, PopIsRemove, ConnectIsJoin, NoPairsIsSort
  <2>3. QED
    BY <1>2, <2>1, <2>2
<1>5. ASSUME NEW x \in DOMAIN list,
             \/ List_destroy(x) \/ List_bubblesort(x) \/ List_sort_from_bottom_to_top(x)
             \/ List_mergesort(x) /\ HasPairs(x)
      PROVE  P
  BY <1>5, CallsBegin
<1>6. CASE FreePrev
  BY <1>6, FreePrevGoes, GoingShows
<1>7. CASE FreeList
  <2>1. call' = Idle
    BY <1>7 DEF FreeList, Returns
  <2>2. QED
    BY <1>2, <1>7, <2>1, FreeListIsDestroy
<1>8. CASE Bubble \/ NextBubbles
  BY <1>8, BubblesGo, GoingShows
<1>9. CASE Halve \/ SortLeft \/ SortRight \/ MergeHalves \/ MergeRoundOfHalves
  BY <1>9, HalvesGo, GoingShows
<1>10. CASE \/ RoundStarts \/ WalkMid \/ WalkRight \/ MergePair \/ MergeRoundOfPair \/ PairMerged
            \/ WalkNext \/ WalkNextMid \/ RoundEnds
  BY <1>10, WalksGo, GoingShows
<1>11. CASE SortReturns
  BY <1>11, SortReturnsShows
<1>12. CASE BubblesEnd
  <2>1. Sorting /\ Abstract!Sorted(values)
    BY <1>12, BubblesEndKeeps
  <2>2. /\ Returns /\ UNCHANGED <<node, list, order>> /\ call # Idle
        /\ call.fn \in Abstract!Sorts /\ call' = Idle
    BY <1>12 DEF BubblesEnd, Idle, Returns, Abstract!Sorts
  <2>3. QED
    BY <1>2, <2>1, <2>2, SortedShows
<1>13. CASE BottomUpEnds
  <2>1. Sorting /\ Abstract!Sorted(values)
    BY <1>13, BottomUpEndsKeeps
  <2>2. /\ Returns /\ UNCHANGED <<node, list, order>> /\ call # Idle
        /\ call.fn \in Abstract!Sorts /\ call' = Idle
    BY <1>13 DEF BottomUpEnds, InBottomUp, Idle, Returns, Abstract!Sorts
  <2>3. QED
    BY <1>2, <2>1, <2>2, SortedShows
<1>14. QED
  BY <1>1, <1>3, <1>4, <1>5, <1>6, <1>7, <1>8, <1>9, <1>10, <1>11, <1>12, <1>13 DEF Next

\* IsSequence, for any number of lists, nodes and values: when a function returns
\* it has done to the list what it was called for, and each of the three sorts
\* returns only when the list holds the values it held, in order.
THEOREM ListsAreSequences == Spec => IsSequence
<1>1. Init => Abstract!Init /\ AskedOK
  BY DEF Init, Abstract!Init, Abstract!None, Idle, AskedOK
<1>2. IInv /\ AskedOK /\ [Next]_vars => [Abstract!Next]_<<Shows, asked>> /\ AskedOK'
  <2>1. ASSUME UNCHANGED vars, AskedOK PROVE Shows' = Shows /\ asked' = asked /\ AskedOK'
    BY <2>1 DEF vars, Shows, Shown, Busy, Contents, AskedOK
  <2>2. QED
    BY <2>1, StepIsStep
<1>3. IInv /\ AskedOK /\ [Next]_vars =>
        /\ [Abstract!Next]_<<[x \in DOMAIN list |-> IF Busy(x) THEN was ELSE Contents(x)], asked>>
        /\ AskedOK'
  BY <1>2 DEF Shows, Shown
<1>4. QED
  BY <1>1, <1>3, Invariance, PTL DEF Spec, IsSequence, Abstract!Spec
=============================================================================
