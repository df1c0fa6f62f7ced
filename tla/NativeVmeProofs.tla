-------------------------- MODULE NativeVmeProofs ---------------------------
(***************************************************************************)
(* Theorems about the address spaces of the native AbstractMachine, for    *)
(* any number of CPUs, address spaces, pages and frames.                   *)
(*                                                                         *)
(* The pages of an address space are described from the end of its list:   *)
(* Order(a)[1] is the last node, Order(a)[nr_page[a]] the head, so that    *)
(* map(), which puts its node in front, only extends the description.      *)
(* While a CPU walks a list its position in it says which pages the host   *)
(* process has mapped.                                                     *)
(***************************************************************************)
EXTENDS NativeVme, FiniteSetTheorems, WellFoundedInduction, TLAPS

\* A CPU that walks a list walks the one of an address space.
WalksAList ==
  \A cpu \in Cpus :
    /\ switch[cpu].phase = "unmap" /\ switch[cpu].pp # Null => vm_head[cpu] \in Spaces
    /\ switch[cpu].phase = "map" /\ switch[cpu].pp # Null => switch[cpu].to \in Spaces

TypeInv == VmeTypeOK /\ WalksAList

\* f enumerates the nodes of a list, last node first, that starts at `first` and
\* is linked by nx: each page of `pages` once and no other.
IsList(f, n, pages, first, nx) ==
  /\ f \in [1 .. n -> Pages]
  /\ \A i, j \in 1 .. n : f[i] = f[j] => i = j
  /\ pages = {f[i] : i \in 1 .. n}
  /\ first = IF n = 0 THEN Null ELSE f[n]
  /\ \A i \in 1 .. n : nx[f[i]] = IF i = 1 THEN Null ELSE f[i - 1]

Listing(n, pages, first, nx) ==
  CHOOSE f \in [1 .. n -> Pages] : IsList(f, n, pages, first, nx)

Order(aspace) == Listing(nr_page[aspace], hash[aspace], head[aspace], next[aspace])

Lists(f, aspace) == IsList(f, nr_page[aspace], hash[aspace], head[aspace], next[aspace])

\* Every address space has its list, of as many nodes as it has pages.
Listed ==
  \A aspace \in Spaces :
    /\ \E f \in [1 .. nr_page[aspace] -> Pages] : Lists(f, aspace)
    /\ IsFiniteSet(hash[aspace]) /\ nr_page[aspace] = Cardinality(hash[aspace])

ListInv == TypeInv /\ Listed

-----------------------------------------------------------------------------
(* The types.                                                              *)

LEMMA TypeInit == VmeInit => TypeInv
BY NativeVmeAssumption DEF VmeInit, VmeTypeOK, TypeInv, WalksAList, Idle

LEMMA MapType ==
  ASSUME VmeTypeOK, NEW cpu \in Cpus, NEW aspace \in Spaces, NEW va \in Pages, NEW f \in Frames,
         map(cpu, aspace, va, f)
  PROVE  VmeTypeOK'
<1>1. hash' \in [Spaces -> SUBSET Pages]
  BY DEF map, VmeTypeOK
<1>2. nr_page' \in [Spaces -> Nat]
  <2>1. nr_page[aspace] \in Nat /\ nr_page[aspace] + 1 \in Nat
    <3>1. nr_page \in [Spaces -> Nat]
      BY DEF VmeTypeOK
    <3> QED
      BY <3>1
  <2> QED
    BY <2>1 DEF map, VmeTypeOK
<1>3. /\ frame' \in [Spaces -> [Pages -> Frames \cup {Null}]]
      /\ next' \in [Spaces -> [Pages -> Pages \cup {Null}]]
      /\ head' \in [Spaces -> Pages \cup {Null}]
  BY DEF map, VmeTypeOK
<1>4. is_mapped' \in [Spaces -> [Pages -> BOOLEAN]]
  <2> DEFINE here == vm_head[cpu] = aspace
  <2>1. is_mapped' = [is_mapped EXCEPT ![aspace][va] = here] /\ here \in BOOLEAN
    BY DEF map
  <2> HIDE DEF here
  <2> QED
    BY <2>1 DEF VmeTypeOK
<1>5. host' \in [Cpus -> [Pages -> Frames \cup {Null}]]
  BY DEF map, VmeTypeOK
<1>6. UNCHANGED <<made, vm_head, switch>>
  BY DEF map
<1> QED
  BY <1>1, <1>2, <1>3, <1>4, <1>5, <1>6 DEF VmeTypeOK

\* One round of either loop: the host, the flags and the position change.
LEMMA RoundType ==
  ASSUME VmeTypeOK, NEW cpu \in Cpus, NEW aspace \in Spaces, NEW pp \in Pages,
         NEW f \in Frames \cup {Null}, NEW flag \in BOOLEAN,
         host' = [host EXCEPT ![cpu][pp] = f] \/ host' = host,
         is_mapped' = [is_mapped EXCEPT ![aspace][pp] = flag] \/ is_mapped' = is_mapped,
         switch' = [switch EXCEPT ![cpu].pp = next[aspace][pp]],
         UNCHANGED <<tableVars, vm_head>>
  PROVE  VmeTypeOK'
<1>0. /\ host \in [Cpus -> [Pages -> Frames \cup {Null}]]
      /\ is_mapped \in [Spaces -> [Pages -> BOOLEAN]]
      /\ next \in [Spaces -> [Pages -> Pages \cup {Null}]]
      /\ switch \in [Cpus -> [phase : {"idle", "unmap", "map"},
                              pp : Pages \cup {Null}, to : Spaces \cup {Null}]]
  BY DEF VmeTypeOK
<1>1. host' \in [Cpus -> [Pages -> Frames \cup {Null}]]
  <2>1. [host[cpu] EXCEPT ![pp] = f] \in [Pages -> Frames \cup {Null}]
    BY <1>0
  <2>2. [host EXCEPT ![cpu] = [host[cpu] EXCEPT ![pp] = f]]
          \in [Cpus -> [Pages -> Frames \cup {Null}]]
    BY <1>0, <2>1
  <2> QED
    BY <1>0, <2>2
<1>2. is_mapped' \in [Spaces -> [Pages -> BOOLEAN]]
  <2>1. [is_mapped[aspace] EXCEPT ![pp] = flag] \in [Pages -> BOOLEAN]
    BY <1>0
  <2>2. [is_mapped EXCEPT ![aspace] = [is_mapped[aspace] EXCEPT ![pp] = flag]]
          \in [Spaces -> [Pages -> BOOLEAN]]
    BY <1>0, <2>1
  <2> QED
    BY <1>0, <2>2
<1>3. next[aspace][pp] \in Pages \cup {Null}
  BY <1>0
<1>4. switch' \in [Cpus -> [phase : {"idle", "unmap", "map"},
                           pp : Pages \cup {Null}, to : Spaces \cup {Null}]]
  BY <1>0, <1>3
<1> QED
  BY <1>1, <1>2, <1>4 DEF VmeTypeOK, tableVars

LEMMA TypeNext == TypeInv /\ [VmeNext]_vmeVars => TypeInv'
<1> SUFFICES ASSUME TypeInv, [VmeNext]_vmeVars PROVE TypeInv'
  OBVIOUS
<1> USE DEF TypeInv
<1>1. ASSUME NEW cpu \in Cpus, NEW aspace \in Spaces, protect(cpu, aspace) PROVE TypeInv'
  BY <1>1 DEF protect, VmeTypeOK, WalksAList
<1>2. ASSUME NEW cpu \in Cpus, NEW aspace \in Spaces, NEW va \in Pages, NEW f \in Frames,
             map(cpu, aspace, va, f)
      PROVE  TypeInv'
  <2>1. WalksAList'
    BY <1>2 DEF map, WalksAList
  <2> QED
    BY <1>2, <2>1, MapType
<1>3. ASSUME NEW cpu \in Cpus, NEW to \in Spaces \cup {Null}, SwitchBegin(cpu, to)
      PROVE  TypeInv'
  <2>1. VmeTypeOK'
    BY <1>3 DEF SwitchBegin, VmeTypeOK, tableVars
  <2>2. WalksAList'
    BY <1>3 DEF SwitchBegin, VmeTypeOK, WalksAList
  <2> QED
    BY <2>1, <2>2
<1>4. ASSUME NEW cpu \in Cpus, UnmapPage(cpu) PROVE TypeInv'
  <2> DEFINE aspace == vm_head[cpu]
             pp == switch[cpu].pp
  <2>1. aspace \in Spaces /\ pp \in Pages
    BY <1>4 DEF UnmapPage, VmeTypeOK, WalksAList
  <2>2. /\ host' = [host EXCEPT ![cpu][pp] = Null] \/ host' = host
        /\ is_mapped' = [is_mapped EXCEPT ![aspace][pp] = FALSE] \/ is_mapped' = is_mapped
        /\ switch' = [switch EXCEPT ![cpu].pp = next[aspace][pp]]
        /\ UNCHANGED <<tableVars, vm_head>>
    BY <1>4 DEF UnmapPage
  <2>3. VmeTypeOK'
    <3> HIDE DEF aspace, pp
    <3> QED
      BY <2>1, <2>2, RoundType
  <2>4. WalksAList'
    BY <1>4, <2>1 DEF UnmapPage, VmeTypeOK, WalksAList
  <2> QED
    BY <2>3, <2>4
<1>5. ASSUME NEW cpu \in Cpus, UnmapDone(cpu) PROVE TypeInv'
  BY <1>5 DEF UnmapDone, VmeTypeOK, WalksAList, tableVars
<1>6. ASSUME NEW cpu \in Cpus, MapPage(cpu) PROVE TypeInv'
  <2> DEFINE to == switch[cpu].to
             pp == switch[cpu].pp
  <2>1. to \in Spaces /\ pp \in Pages
    BY <1>6 DEF MapPage, VmeTypeOK, WalksAList
  <2>2. /\ host' = [host EXCEPT ![cpu][pp] = frame[to][pp]]
        /\ is_mapped' = [is_mapped EXCEPT ![to][pp] = TRUE]
        /\ switch' = [switch EXCEPT ![cpu].pp = next[to][pp]]
        /\ UNCHANGED <<tableVars, vm_head>>
    BY <1>6 DEF MapPage
  <2>3. frame[to][pp] \in Frames \cup {Null}
    BY <2>1 DEF VmeTypeOK
  <2>4. VmeTypeOK'
    <3> HIDE DEF to, pp
    <3> QED
      BY <2>1, <2>2, <2>3, RoundType
  <2>5. WalksAList'
    BY <1>6, <2>1 DEF MapPage, VmeTypeOK, WalksAList
  <2> QED
    BY <2>4, <2>5
<1>7. ASSUME NEW cpu \in Cpus, SwitchEnd(cpu) PROVE TypeInv'
  BY <1>7 DEF SwitchEnd, VmeTypeOK, WalksAList, tableVars, Idle
<1>8. CASE UNCHANGED vmeVars
  BY <1>8 DEF VmeTypeOK, WalksAList, vmeVars, tableVars
<1> QED
  BY <1>1, <1>2, <1>3, <1>4, <1>5, <1>6, <1>7, <1>8 DEF VmeNext, SwitchStep

\* Every variable keeps its type (vme.c: protect, map, __am_switch): in
\* particular the loops of __am_switch only ever follow a next field of a node.
THEOREM VmeTypeCorrect == VmeSpec => []VmeTypeOK
<1>1. VmeSpec => []TypeInv
  BY TypeInit, TypeNext, PTL DEF VmeSpec
<1> QED
  BY <1>1, PTL DEF TypeInv

-----------------------------------------------------------------------------
(* The lists.                                                              *)

LEMMA ListedInit == VmeInit => Listed
<1> SUFFICES ASSUME VmeInit, NEW aspace \in Spaces
             PROVE  /\ \E f \in [1 .. nr_page[aspace] -> Pages] : Lists(f, aspace)
                    /\ IsFiniteSet(hash[aspace]) /\ nr_page[aspace] = Cardinality(hash[aspace])
  BY DEF Listed
<1>1. nr_page[aspace] = 0 /\ hash[aspace] = {} /\ head[aspace] = Null
  BY DEF VmeInit
<1> DEFINE none == [i \in 1 .. 0 |-> Null]
<1>2. none \in [1 .. 0 -> Pages] /\ {none[i] : i \in 1 .. 0} = {}
  OBVIOUS
<1>3. Lists(none, aspace)
  <2> HIDE DEF none
  <2> QED
    BY <1>1, <1>2 DEF Lists, IsList
<1> QED
  BY <1>1, <1>2, <1>3, FS_EmptySet

\* map() of a page that has no node yet puts it in front of the list.
LEMMA MapExtendsList ==
  ASSUME ListInv, NEW cpu \in Cpus, NEW aspace \in Spaces, NEW va \in Pages, NEW fr \in Frames,
         map(cpu, aspace, va, fr), va \notin hash[aspace]
  PROVE  Listed'
<1> SUFFICES ASSUME NEW a \in Spaces
             PROVE  /\ \E f \in [1 .. nr_page'[a] -> Pages] : Lists(f, a)'
                    /\ IsFiniteSet(hash'[a]) /\ nr_page'[a] = Cardinality(hash'[a])
  BY DEF Listed
<1>0. /\ nr_page \in [Spaces -> Nat] /\ hash \in [Spaces -> SUBSET Pages]
      /\ head \in [Spaces -> Pages \cup {Null}]
      /\ next \in [Spaces -> [Pages -> Pages \cup {Null}]]
  BY DEF ListInv, TypeInv, VmeTypeOK
<1>1. PICK g \in [1 .. nr_page[a] -> Pages] : Lists(g, a)
  BY DEF ListInv, Listed
<1>2. IsFiniteSet(hash[a]) /\ nr_page[a] = Cardinality(hash[a])
  BY DEF ListInv, Listed
<1>3. CASE a # aspace
  <2>1. nr_page'[a] = nr_page[a] /\ hash'[a] = hash[a] /\ head'[a] = head[a] /\ next'[a] = next[a]
    BY <1>0, <1>3 DEF map
  <2> QED
    BY <1>1, <1>2, <2>1 DEF Lists
<1>4. CASE a = aspace
  <2> DEFINE n == nr_page[a]
             h == [i \in 1 .. n + 1 |-> IF i = n + 1 THEN va ELSE g[i]]
  <2>0. n \in Nat /\ IsList(g, n, hash[a], head[a], next[a])
    BY <1>0, <1>1 DEF Lists
  <2>1. /\ nr_page'[a] = n + 1 /\ hash'[a] = hash[a] \cup {va} /\ head'[a] = va
        /\ next'[a] = [next[a] EXCEPT ![va] = head[a]]
    BY <1>0, <1>4 DEF map
  <2>2. h \in [1 .. n + 1 -> Pages]
    BY <2>0
  <2>3. \A i \in 1 .. n : h[i] = g[i] /\ g[i] # va
    BY <2>0, <1>4 DEF IsList
  <2>4. h[n + 1] = va
    BY <2>0
  <2> HIDE DEF h, n
  <2>5. \A i, j \in 1 .. n + 1 : h[i] = h[j] => i = j
    <3> SUFFICES ASSUME NEW i \in 1 .. n + 1, NEW j \in 1 .. n + 1, h[i] = h[j]
                 PROVE  i = j
      OBVIOUS
    <3>1. (i \in 1 .. n \/ i = n + 1) /\ (j \in 1 .. n \/ j = n + 1)
      BY <2>0
    <3>2. \A x, y \in 1 .. n : g[x] = g[y] => x = y
      BY <2>0 DEF IsList
    <3> QED
      BY <2>3, <2>4, <3>1, <3>2
  <2>6. hash[a] \cup {va} = {h[i] : i \in 1 .. n + 1}
    <3>1. hash[a] = {g[i] : i \in 1 .. n}
      BY <2>0 DEF IsList
    <3>2. \A i \in 1 .. n + 1 : i \in 1 .. n \/ i = n + 1
      BY <2>0
    <3>3. n + 1 \in 1 .. n + 1 /\ \A i \in 1 .. n : i \in 1 .. n + 1
      BY <2>0
    <3>4. {h[i] : i \in 1 .. n + 1} \subseteq hash[a] \cup {va}
      BY <2>3, <2>4, <3>1, <3>2
    <3>5. hash[a] \cup {va} \subseteq {h[i] : i \in 1 .. n + 1}
      BY <2>3, <2>4, <3>1, <3>3
    <3> QED
      BY <3>4, <3>5
  <2>7. ASSUME NEW i \in 1 .. n + 1
        PROVE  next'[a][h[i]] = IF i = 1 THEN Null ELSE h[i - 1]
    <3>1. CASE i = n + 1
      <4>1. next'[a][h[i]] = head[a]
        BY <1>0, <2>1, <2>4, <3>1
      <4>2. n # 0 => n \in 1 .. n /\ head[a] = h[n]
        BY <2>0, <2>3 DEF IsList
      <4>3. n = 0 => head[a] = Null
        BY <2>0 DEF IsList
      <4> QED
        BY <2>0, <3>1, <4>1, <4>2, <4>3
    <3>2. CASE i # n + 1
      <4>1. i \in 1 .. n
        BY <2>0, <3>2
      <4>2. h[i] = g[i] /\ g[i] # va /\ g[i] \in Pages
        BY <2>3, <4>1, <2>0 DEF IsList
      <4>3. next'[a][h[i]] = next[a][g[i]]
        BY <1>0, <2>1, <4>2
      <4>4. i # 1 => i - 1 \in 1 .. n /\ h[i - 1] = g[i - 1]
        BY <2>0, <4>1, <2>3
      <4> QED
        BY <2>0, <4>1, <4>3, <4>4 DEF IsList
    <3> QED
      BY <3>1, <3>2
  <2>8. n + 1 # 0
    BY <2>0
  <2>9. IsList(h, n + 1, hash[a] \cup {va}, va, next'[a])
    BY <2>2, <2>4, <2>5, <2>6, <2>7, <2>8 DEF IsList
  <2>10. \E f \in [1 .. nr_page'[a] -> Pages] : Lists(f, a)'
    <3>1. PICK f \in [1 .. n + 1 -> Pages] : f = h
      BY <2>2
    <3>2. Lists(f, a)'
      BY <2>1, <2>9, <3>1 DEF Lists
    <3> QED
      BY <2>1, <3>1, <3>2
  <2>11. IsFiniteSet(hash'[a]) /\ nr_page'[a] = Cardinality(hash'[a])
    <3>1. va \notin hash[a] /\ n = Cardinality(hash[a])
      BY <1>2, <1>4 DEF n
    <3>2. IsFiniteSet(hash[a] \cup {va}) /\ Cardinality(hash[a] \cup {va}) = n + 1
      BY <1>2, <3>1, FS_AddElement
    <3> QED
      BY <2>1, <3>2
  <2> QED
    BY <2>10, <2>11
<1> QED
  BY <1>3, <1>4

LEMMA ListNext ==
  ASSUME ~Remaps
  PROVE  ListInv /\ [VmeNext]_vmeVars => ListInv'
<1> SUFFICES ASSUME ListInv, [VmeNext]_vmeVars PROVE Listed'
  BY TypeNext DEF ListInv
<1>1. CASE UNCHANGED tableVars
  BY <1>1 DEF ListInv, Listed, Lists, tableVars
<1>2. ASSUME NEW cpu \in Cpus, NEW aspace \in Spaces, protect(cpu, aspace)
      PROVE  Listed'
  BY <1>2 DEF protect, ListInv, Listed, Lists
<1>3. ASSUME NEW cpu \in Cpus, NEW aspace \in Spaces, NEW va \in Pages, NEW f \in Frames,
             map(cpu, aspace, va, f)
      PROVE  Listed'
  <2>1. va \notin hash[aspace]
    BY <1>3 DEF map
  <2> QED
    BY <1>3, <2>1, MapExtendsList
<1>4. ASSUME NEW cpu \in Cpus, NEW to \in Spaces \cup {Null}, SwitchBegin(cpu, to)
      PROVE  UNCHANGED tableVars
  BY <1>4 DEF SwitchBegin
<1>5. ASSUME NEW cpu \in Cpus, SwitchStep(cpu) PROVE UNCHANGED tableVars
  BY <1>5 DEF SwitchStep, UnmapPage, UnmapDone, MapPage, SwitchEnd
<1>6. CASE UNCHANGED vmeVars
  BY <1>6, <1>1 DEF vmeVars
<1> QED
  BY <1>1, <1>2, <1>3, <1>4, <1>5, <1>6 DEF VmeNext

-----------------------------------------------------------------------------
(* Isolation.                                                              *)

\* The CPU runs in an address space, or is on its way into or out of it.
Uses(cpu, aspace) ==
  vm_head[cpu] = aspace \/ (~Ready(cpu) /\ switch[cpu].to = aspace)

\* Exclusive's discipline holds of the CPUs that are in the middle of a switch too.
OneUser ==
  \A c1, c2 \in Cpus : \A aspace \in Spaces :
    Uses(c1, aspace) /\ Uses(c2, aspace) => c1 = c2

\* The host process of the CPU has just the pages S of `aspace` mapped, and their
\* nodes say so.
Shows(cpu, aspace, S) ==
  \A va \in Pages :
    /\ va \in S => host[cpu][va] = frame[aspace][va] /\ is_mapped[aspace][va]
    /\ va \notin S => host[cpu][va] = Null

\* The nodes of a list from the k-th from the end on, and the ones before them.
At(aspace, k) == IF k = 0 THEN Null ELSE Order(aspace)[k]
UpTo(aspace, k) == {Order(aspace)[i] : i \in 1 .. k}
Beyond(aspace, k) == {Order(aspace)[i] : i \in k + 1 .. nr_page[aspace]}

\* Outside __am_switch; in its first loop, k nodes away from the end of the old
\* list; in its second loop, k nodes away from the end of the new one.
IdleInv(cpu) ==
  LET aspace == vm_head[cpu] IN
  IF aspace = Null THEN Shows(cpu, Null, {}) ELSE Shows(cpu, aspace, hash[aspace])

UnmapInv(cpu) ==
  LET aspace == vm_head[cpu]  pp == switch[cpu].pp IN
  IF aspace = Null
    THEN pp = Null /\ Shows(cpu, Null, {})
    ELSE \E k \in 0 .. nr_page[aspace] : pp = At(aspace, k) /\ Shows(cpu, aspace, UpTo(aspace, k))

MapInv(cpu) ==
  LET aspace == switch[cpu].to  pp == switch[cpu].pp IN
  IF aspace = Null
    THEN pp = Null /\ Shows(cpu, Null, {})
    ELSE \E k \in 0 .. nr_page[aspace] : pp = At(aspace, k) /\ Shows(cpu, aspace, Beyond(aspace, k))

CpuInv(cpu) ==
  /\ switch[cpu].phase = "idle" => IdleInv(cpu)
  /\ switch[cpu].phase = "unmap" => UnmapInv(cpu)
  /\ switch[cpu].phase = "map" => MapInv(cpu)
  /\ switch[cpu].phase # "idle" => switch[cpu].to # vm_head[cpu]

VmeInv == ListInv /\ OneUser /\ \A cpu \in Cpus : CpuInv(cpu)

\* Walking a list of n nodes, one step at a time.
LEMMA ListFacts ==
  ASSUME ListInv, NEW a \in Spaces
  PROVE  /\ nr_page[a] \in Nat /\ Order(a) \in [1 .. nr_page[a] -> Pages]
         /\ At(a, nr_page[a]) = head[a]
         /\ UpTo(a, nr_page[a]) = hash[a] /\ UpTo(a, 0) = {}
         /\ Beyond(a, nr_page[a]) = {} /\ Beyond(a, 0) = hash[a]
         /\ \A k \in 1 .. nr_page[a] : next[a][At(a, k)] = At(a, k - 1)
         /\ \A k \in 1 .. nr_page[a] : At(a, k) \in Pages
         /\ \A k \in 1 .. nr_page[a] : \A va :
              /\ va \in UpTo(a, k - 1) <=> va \in UpTo(a, k) /\ va # At(a, k)
              /\ va \in Beyond(a, k - 1) <=> va \in Beyond(a, k) \/ va = At(a, k)
         /\ \A k \in 1 .. nr_page[a] : At(a, k) \in UpTo(a, k)
<1> DEFINE n == nr_page[a]
           f == Order(a)
<1>1. n \in Nat /\ \E g \in [1 .. n -> Pages] : IsList(g, n, hash[a], head[a], next[a])
  BY DEF ListInv, TypeInv, VmeTypeOK, Listed, Lists
<1>2. IsList(f, n, hash[a], head[a], next[a])
  BY <1>1 DEF Order, Listing
<1> HIDE DEF f, n
<1>3. /\ f \in [1 .. n -> Pages]
      /\ \A i, j \in 1 .. n : f[i] = f[j] => i = j
      /\ hash[a] = {f[i] : i \in 1 .. n}
      /\ head[a] = IF n = 0 THEN Null ELSE f[n]
      /\ \A i \in 1 .. n : next[a][f[i]] = IF i = 1 THEN Null ELSE f[i - 1]
  BY <1>2 DEF IsList
<1>4. At(a, n) = head[a]
  BY <1>3 DEF At, f
<1>5. UpTo(a, n) = hash[a] /\ UpTo(a, 0) = {}
  BY <1>1, <1>3 DEF UpTo, f
<1>6. Beyond(a, n) = {} /\ Beyond(a, 0) = hash[a]
  BY <1>1, <1>3 DEF Beyond, f, n
<1>7. \A k \in 1 .. n : next[a][At(a, k)] = At(a, k - 1) /\ At(a, k) \in Pages /\ At(a, k) = f[k]
  BY <1>1, <1>3 DEF At, f
<1>8. ASSUME NEW k \in 1 .. n, NEW va
      PROVE  va \in UpTo(a, k - 1) <=> va \in UpTo(a, k) /\ va # At(a, k)
  <2>1. \A m : UpTo(a, m) = {f[i] : i \in 1 .. m}
    BY DEF UpTo, f
  <2>2. \A i \in 1 .. k - 1 : i \in 1 .. k /\ i \in 1 .. n /\ i # k
    BY <1>1
  <2>3. \A i \in 1 .. k : i \in 1 .. k - 1 \/ i = k
    BY <1>1
  <2> QED
    BY <1>3, <1>7, <2>1, <2>2, <2>3
<1>9. ASSUME NEW k \in 1 .. n, NEW va
      PROVE  va \in Beyond(a, k - 1) <=> va \in Beyond(a, k) \/ va = At(a, k)
  <2>1. \A m : Beyond(a, m) = {f[i] : i \in m + 1 .. n}
    BY DEF Beyond, f, n
  <2>2. \A i : i \in (k - 1) + 1 .. n <=> i \in k + 1 .. n \/ i = k
    BY <1>1
  <2> QED
    BY <1>7, <2>1, <2>2
<1>10. \A k \in 1 .. n : At(a, k) \in UpTo(a, k)
  BY <1>1, <1>7 DEF UpTo, f
<1> QED
  BY <1>1, <1>3, <1>4, <1>5, <1>6, <1>7, <1>8, <1>9, <1>10 DEF f, n

\* A step keeps what holds of a CPU whose own state and whose address spaces it
\* leaves alone.
LEMMA StepElsewhere ==
  ASSUME NEW cpu \in Cpus, CpuInv(cpu),
         vm_head'[cpu] = vm_head[cpu], switch'[cpu] = switch[cpu], host'[cpu] = host[cpu],
         vm_head[cpu] \in Spaces \cup {Null}, switch[cpu].to \in Spaces \cup {Null},
         \A a \in Spaces : Uses(cpu, a) =>
           /\ nr_page'[a] = nr_page[a] /\ hash'[a] = hash[a] /\ head'[a] = head[a]
           /\ next'[a] = next[a] /\ frame'[a] = frame[a] /\ is_mapped'[a] = is_mapped[a]
  PROVE  CpuInv(cpu)'
<1>1. CASE switch[cpu].phase = "idle"
  BY <1>1 DEF CpuInv, IdleInv, Shows, Uses
<1>2. CASE switch[cpu].phase = "unmap"
  <2>1. UnmapInv(cpu) /\ switch[cpu].to # vm_head[cpu]
    BY <1>2 DEF CpuInv
  <2>2. UnmapInv(cpu)'
    <3>1. CASE vm_head[cpu] = Null
      BY <2>1, <3>1 DEF UnmapInv, Shows
    <3>2. CASE vm_head[cpu] # Null
      <4>1. vm_head[cpu] \in Spaces /\ Uses(cpu, vm_head[cpu])
        BY <3>2 DEF Uses
      <4> DEFINE a == vm_head[cpu]
      <4>2. /\ nr_page'[a] = nr_page[a] /\ hash'[a] = hash[a] /\ head'[a] = head[a]
            /\ next'[a] = next[a] /\ frame'[a] = frame[a] /\ is_mapped'[a] = is_mapped[a]
        BY <4>1
      <4> QED
        BY <2>1, <3>2, <4>2 DEF UnmapInv, Shows, At, UpTo, Order
    <3> QED
      BY <3>1, <3>2
  <2> QED
    BY <1>2, <2>1, <2>2 DEF CpuInv
<1>3. CASE switch[cpu].phase = "map"
  <2>1. MapInv(cpu) /\ switch[cpu].to # vm_head[cpu]
    BY <1>3 DEF CpuInv
  <2>2. MapInv(cpu)'
    <3>1. CASE switch[cpu].to = Null
      BY <2>1, <3>1 DEF MapInv, Shows
    <3>2. CASE switch[cpu].to # Null
      <4>1. switch[cpu].to \in Spaces /\ Uses(cpu, switch[cpu].to)
        BY <1>3, <3>2 DEF Uses, Ready
      <4> DEFINE a == switch[cpu].to
      <4>2. /\ nr_page'[a] = nr_page[a] /\ hash'[a] = hash[a] /\ head'[a] = head[a]
            /\ next'[a] = next[a] /\ frame'[a] = frame[a] /\ is_mapped'[a] = is_mapped[a]
        BY <4>1
      <4>3. Order(a)' = Order(a)
        BY <4>2 DEF Order
      <4>4. PICK k \in 0 .. nr_page[a] : At(a, k) = switch[cpu].pp /\ Shows(cpu, a, Beyond(a, k))
        BY <2>1, <3>2 DEF MapInv
      <4>5. At(a, k)' = At(a, k) /\ Beyond(a, k)' = Beyond(a, k)
        BY <4>2, <4>3 DEF At, Beyond
      <4>6. Shows(cpu, a, Beyond(a, k))'
        BY <4>2, <4>4, <4>5 DEF Shows
      <4> QED
        BY <3>2, <4>2, <4>4, <4>5, <4>6 DEF MapInv
    <3> QED
      BY <3>1, <3>2
  <2> QED
    BY <1>3, <2>1, <2>2 DEF CpuInv
<1>4. CASE switch[cpu].phase \notin {"idle", "unmap", "map"}
  BY <1>4 DEF CpuInv
<1> QED
  BY <1>1, <1>2, <1>3, <1>4

LEMMA InitIsolated == VmeInit => VmeInv
<1> SUFFICES ASSUME VmeInit PROVE OneUser /\ \A cpu \in Cpus : CpuInv(cpu)
  BY TypeInit, ListedInit DEF VmeInv, ListInv
<1>1. \A cpu \in Cpus : vm_head[cpu] = Null /\ switch[cpu] = Idle
                        /\ host[cpu] = [va \in Pages |-> Null]
  BY DEF VmeInit
<1>2. OneUser
  BY <1>1, NativeVmeAssumption DEF OneUser, Uses, Ready, Idle
<1>3. \A cpu \in Cpus : CpuInv(cpu)
  BY <1>1 DEF CpuInv, IdleInv, Shows, Idle
<1> QED
  BY <1>2, <1>3

\* The types of what the lemmas below speak of.
LEMMA VmeTypes ==
  ASSUME VmeInv
  PROVE  /\ nr_page \in [Spaces -> Nat] /\ hash \in [Spaces -> SUBSET Pages]
         /\ head \in [Spaces -> Pages \cup {Null}]
         /\ next \in [Spaces -> [Pages -> Pages \cup {Null}]]
         /\ frame \in [Spaces -> [Pages -> Frames \cup {Null}]]
         /\ is_mapped \in [Spaces -> [Pages -> BOOLEAN]]
         /\ vm_head \in [Cpus -> Spaces \cup {Null}]
         /\ host \in [Cpus -> [Pages -> Frames \cup {Null}]]
         /\ switch \in [Cpus -> [phase : {"idle", "unmap", "map"},
                               pp : Pages \cup {Null}, to : Spaces \cup {Null}]]
         /\ Null \notin Spaces /\ Null \notin Pages
BY NativeVmeAssumption DEF VmeInv, ListInv, TypeInv, VmeTypeOK

LEMMA MapIsolated ==
  ASSUME VmeInv, ~SharedSpaces, ~Remaps,
         NEW cpu \in Cpus, NEW aspace \in Spaces, NEW va \in Pages, NEW f \in Frames,
         map(cpu, aspace, va, f)
  PROVE  OneUser' /\ \A c \in Cpus : CpuInv(c)'
<1> USE VmeTypes
<1>1. UNCHANGED <<vm_head, switch>> /\ Ready(cpu) /\ Exclusive(cpu, aspace) /\ va \notin hash[aspace]
  BY DEF map
<1>2. OneUser'
  BY <1>1 DEF VmeInv, OneUser, Uses, Ready
<1>3. ASSUME NEW a \in Spaces, a # aspace
      PROVE  /\ nr_page'[a] = nr_page[a] /\ hash'[a] = hash[a] /\ head'[a] = head[a]
             /\ next'[a] = next[a] /\ frame'[a] = frame[a] /\ is_mapped'[a] = is_mapped[a]
  BY <1>3 DEF map
<1>4. ASSUME NEW c \in Cpus, ~Uses(c, aspace), host'[c] = host[c]
      PROVE  CpuInv(c)'
  <2>1. CpuInv(c) /\ vm_head[c] \in Spaces \cup {Null} /\ switch[c].to \in Spaces \cup {Null}
    BY DEF VmeInv
  <2>2. \A a \in Spaces : Uses(c, a) => a # aspace
    BY <1>4
  <2> QED
    BY <1>1, <1>3, <1>4, <2>1, <2>2, StepElsewhere
<1>5. ASSUME NEW c \in Cpus, c # cpu
      PROVE  CpuInv(c)'
  <2>1. ~Uses(c, aspace)
    BY <1>1, <1>5 DEF Exclusive, Uses, Ready
  <2>2. host'[c] = host[c]
    BY <1>5 DEF map
  <2> QED
    BY <1>4, <2>1, <2>2
<1>6. CpuInv(cpu)'
  <2>1. CASE vm_head[cpu] # aspace
    <3>1. ~Uses(cpu, aspace) /\ host'[cpu] = host[cpu]
      BY <1>1, <2>1 DEF Uses, map
    <3> QED
      BY <1>4, <3>1
  <2>2. CASE vm_head[cpu] = aspace
    <3>1. Shows(cpu, aspace, hash[aspace])
      BY <1>1, <2>2 DEF VmeInv, CpuInv, IdleInv, Ready
    <3>2. /\ hash'[aspace] = hash[aspace] \cup {va}
          /\ frame'[aspace] = [frame[aspace] EXCEPT ![va] = f]
          /\ host'[cpu] = [host[cpu] EXCEPT ![va] = f]
          /\ is_mapped'[aspace][va]
          /\ \A p \in Pages : p # va => is_mapped'[aspace][p] = is_mapped[aspace][p]
      BY <2>2 DEF map
    <3>3. ASSUME NEW p \in Pages
          PROVE  /\ p \in hash'[aspace] => host'[cpu][p] = frame'[aspace][p] /\ is_mapped'[aspace][p]
                 /\ p \notin hash'[aspace] => host'[cpu][p] = Null
      <4>1. /\ p \in hash[aspace] => host[cpu][p] = frame[aspace][p] /\ is_mapped[aspace][p]
            /\ p \notin hash[aspace] => host[cpu][p] = Null
        BY <3>1 DEF Shows
      <4>2. CASE p = va
        BY <3>2, <4>2
      <4>3. CASE p # va
        BY <3>2, <4>1, <4>3
      <4> QED
        BY <4>2, <4>3
    <3>4. Shows(cpu, aspace, hash[aspace])'
      BY <3>3 DEF Shows
    <3>5. vm_head'[cpu] = aspace /\ switch'[cpu].phase = "idle" /\ aspace # Null
      BY <1>1, <2>2 DEF Ready
    <3> QED
      BY <3>4, <3>5 DEF CpuInv, IdleInv
  <2> QED
    BY <2>1, <2>2
<1> QED
  BY <1>2, <1>5, <1>6

\* A step of one CPU that touches at most the flags of an address space it uses
\* leaves the other CPUs' mappings as they were.
LEMMA OthersKept ==
  ASSUME VmeInv, NEW cpu \in Cpus, UNCHANGED tableVars,
         \A c \in Cpus \ {cpu} :
           vm_head'[c] = vm_head[c] /\ switch'[c] = switch[c] /\ host'[c] = host[c],
         \A a \in Spaces : ~Uses(cpu, a) => is_mapped'[a] = is_mapped[a]
  PROVE  \A c \in Cpus \ {cpu} : CpuInv(c)'
<1> SUFFICES ASSUME NEW c \in Cpus \ {cpu} PROVE CpuInv(c)'
  OBVIOUS
<1>1. CpuInv(c) /\ vm_head[c] \in Spaces \cup {Null} /\ switch[c].to \in Spaces \cup {Null}
  BY VmeTypes DEF VmeInv
<1>2. \A a \in Spaces : Uses(c, a) =>
        /\ nr_page'[a] = nr_page[a] /\ hash'[a] = hash[a] /\ head'[a] = head[a]
        /\ next'[a] = next[a] /\ frame'[a] = frame[a] /\ is_mapped'[a] = is_mapped[a]
  BY DEF VmeInv, OneUser, tableVars
<1> QED
  BY <1>1, <1>2, StepElsewhere

LEMMA BeginIsolated ==
  ASSUME VmeInv, ~SharedSpaces, NEW cpu \in Cpus, NEW to \in Spaces \cup {Null},
         SwitchBegin(cpu, to)
  PROVE  OneUser' /\ \A c \in Cpus : CpuInv(c)'
<1> USE VmeTypes
<1> DEFINE a == vm_head[cpu]
<1>1. /\ Ready(cpu) /\ to # a /\ (to # Null => Exclusive(cpu, to))
      /\ UNCHANGED <<tableVars, is_mapped, vm_head, host>>
      /\ \A c \in Cpus \ {cpu} : switch'[c] = switch[c]
      /\ switch'[cpu] = [phase |-> "unmap", to |-> to, pp |-> IF a = Null THEN Null ELSE head[a]]
  BY DEF SwitchBegin
<1>2. OneUser'
  <2> SUFFICES ASSUME NEW c1 \in Cpus, NEW c2 \in Cpus, NEW x \in Spaces,
                      Uses(c1, x)', Uses(c2, x)'
               PROVE  c1 = c2
    BY DEF OneUser
  <2>1. \A c \in Cpus \ {cpu} : Uses(c, x)' => Uses(c, x)
    BY <1>1 DEF Uses, Ready
  <2>2. Uses(cpu, x)' => Uses(cpu, x) \/ x = to
    BY <1>1 DEF Uses, Ready
  <2>3. \A c \in Cpus \ {cpu} : ~Uses(c, to) \/ to = Null
    BY <1>1 DEF Exclusive, Uses, Ready
  <2>4. Uses(c1, x) /\ Uses(c2, x) => c1 = c2
    BY DEF VmeInv, OneUser
  <2>5. CASE x = to
    <3>1. c1 = cpu /\ c2 = cpu
      BY <2>1, <2>3, <2>5
    <3> QED
      BY <3>1
  <2>6. CASE x # to
    BY <2>1, <2>2, <2>4, <2>6
  <2> QED
    BY <2>5, <2>6
<1>3. \A c \in Cpus \ {cpu} : CpuInv(c)'
  BY <1>1, OthersKept
<1>4. CpuInv(cpu)'
  <2>1. IdleInv(cpu)
    BY <1>1 DEF VmeInv, CpuInv, Ready
  <2>2. UnmapInv(cpu)'
    <3>1. CASE a = Null
      BY <1>1, <2>1, <3>1 DEF UnmapInv, IdleInv, Shows
    <3>2. CASE a # Null
      <4>1. a \in Spaces
        BY <3>2
      <4>2. /\ nr_page[a] \in 0 .. nr_page[a] /\ At(a, nr_page[a]) = head[a]
            /\ UpTo(a, nr_page[a]) = hash[a]
        BY <4>1, ListFacts DEF VmeInv
      <4>3. PICK k \in 0 .. nr_page[a] : At(a, k) = head[a] /\ UpTo(a, k) = hash[a]
        BY <4>2
      <4>4. At(a, k)' = At(a, k) /\ UpTo(a, k)' = UpTo(a, k)
        BY <1>1 DEF At, UpTo, Order, tableVars
      <4>5. Shows(cpu, a, UpTo(a, k))'
        BY <1>1, <2>1, <3>2, <4>3, <4>4 DEF IdleInv, Shows, tableVars
      <4> QED
        BY <1>1, <3>2, <4>3, <4>4, <4>5 DEF UnmapInv, tableVars
    <3> QED
      BY <3>1, <3>2
  <2> QED
    BY <1>1, <2>2 DEF CpuInv
<1> QED
  BY <1>2, <1>3, <1>4

\* One round of the first loop: the page leaves the host and its node is cleared.
LEMMA UnmapIsolated ==
  ASSUME VmeInv, NEW cpu \in Cpus, UnmapPage(cpu)
  PROVE  OneUser' /\ \A c \in Cpus : CpuInv(c)'
<1> USE VmeTypes
<1> DEFINE a == vm_head[cpu]
           pp == switch[cpu].pp
<1>1. /\ switch[cpu].phase = "unmap" /\ pp # Null /\ a \in Spaces
      /\ UNCHANGED <<tableVars, vm_head>>
      /\ \A c \in Cpus \ {cpu} : switch'[c] = switch[c] /\ host'[c] = host[c]
      /\ switch'[cpu] = [switch[cpu] EXCEPT !.pp = next[a][pp]]
      /\ \A x \in Spaces \ {a} : is_mapped'[x] = is_mapped[x]
  BY DEF UnmapPage, VmeInv, ListInv, TypeInv, WalksAList
<1>2. OneUser'
  <2> SUFFICES ASSUME NEW c \in Cpus, NEW x \in Spaces, Uses(c, x)'
               PROVE  Uses(c, x)
    BY DEF VmeInv, OneUser
  <2>1. CASE c = cpu
    BY <1>1, <2>1 DEF Uses, Ready
  <2>2. CASE c # cpu
    BY <1>1, <2>2 DEF Uses, Ready
  <2> QED
    BY <2>1, <2>2
<1>3. \A c \in Cpus \ {cpu} : CpuInv(c)'
  <2>1. \A x \in Spaces : ~Uses(cpu, x) => is_mapped'[x] = is_mapped[x]
    BY <1>1 DEF Uses
  <2> QED
    BY <1>1, <2>1, OthersKept
<1>4. CpuInv(cpu)'
  <2>1. PICK k \in 0 .. nr_page[a] : pp = At(a, k) /\ Shows(cpu, a, UpTo(a, k))
    BY <1>1 DEF VmeInv, CpuInv, UnmapInv
  <2>2. k \in 1 .. nr_page[a] /\ k - 1 \in 0 .. nr_page[a]
    <3>1. k # 0
      BY <1>1, <2>1 DEF At
    <3>2. nr_page[a] \in Nat
      BY <1>1
    <3> HIDE VmeTypes
    <3> QED
      BY <3>1, <3>2
  <2>3. /\ next[a][pp] = At(a, k - 1)
        /\ pp \in Pages /\ pp \in UpTo(a, k)
        /\ \A va : va \in UpTo(a, k - 1) <=> va \in UpTo(a, k) /\ va # pp
    BY <1>1, <2>1, <2>2, ListFacts DEF VmeInv
  <2>4. is_mapped[a][pp]
    BY <2>1, <2>3 DEF Shows
  <2>5. /\ host'[cpu] = [host[cpu] EXCEPT ![pp] = Null]
        /\ \A va \in Pages : va # pp => is_mapped'[a][va] = is_mapped[a][va]
    BY <1>1, <2>3, <2>4 DEF UnmapPage
  <2>6. PICK j \in 0 .. nr_page[a] : j = k - 1
    BY <2>2
  <2>7. ASSUME NEW va \in Pages
        PROVE  /\ va \in UpTo(a, j) => host'[cpu][va] = frame[a][va] /\ is_mapped'[a][va]
               /\ va \notin UpTo(a, j) => host'[cpu][va] = Null
    <3>1. /\ va \in UpTo(a, k) => host[cpu][va] = frame[a][va] /\ is_mapped[a][va]
          /\ va \notin UpTo(a, k) => host[cpu][va] = Null
      BY <2>1 DEF Shows
    <3>2. CASE va = pp
      BY <2>3, <2>5, <2>6, <3>2
    <3>3. CASE va # pp
      BY <2>3, <2>5, <2>6, <3>1, <3>3
    <3> QED
      BY <3>2, <3>3
  <2>8. At(a, j)' = At(a, j) /\ UpTo(a, j)' = UpTo(a, j)
    BY <1>1 DEF At, UpTo, Order, tableVars
  <2>9. Shows(cpu, a, UpTo(a, j))'
    BY <1>1, <2>7, <2>8 DEF Shows, tableVars
  <2>10. switch'[cpu].pp = At(a, j)
    BY <1>1, <2>3, <2>6
  <2>11. UnmapInv(cpu)'
    BY <1>1, <2>8, <2>9, <2>10 DEF UnmapInv, tableVars
  <2>12. switch'[cpu].phase = "unmap" /\ switch'[cpu].to = switch[cpu].to
         /\ switch[cpu].to # vm_head[cpu]
    BY <1>1 DEF VmeInv, CpuInv
  <2> QED
    BY <1>1, <2>11, <2>12 DEF CpuInv
<1> QED
  BY <1>2, <1>3, <1>4

\* Between the loops nothing is mapped.
LEMMA DoneIsolated ==
  ASSUME VmeInv, NEW cpu \in Cpus, UnmapDone(cpu)
  PROVE  OneUser' /\ \A c \in Cpus : CpuInv(c)'
<1> USE VmeTypes
<1> DEFINE a == vm_head[cpu]
           to == switch[cpu].to
<1>1. /\ switch[cpu].phase = "unmap" /\ switch[cpu].pp = Null
      /\ UNCHANGED <<tableVars, is_mapped, vm_head, host>>
      /\ \A c \in Cpus \ {cpu} : switch'[c] = switch[c]
      /\ switch'[cpu] = [phase |-> "map", to |-> to, pp |-> IF to = Null THEN Null ELSE head[to]]
  BY DEF UnmapDone
<1>2. OneUser'
  <2>1. \A c \in Cpus, x \in Spaces : Uses(c, x)' => Uses(c, x)
    <3> SUFFICES ASSUME NEW c \in Cpus, NEW x \in Spaces, Uses(c, x)' PROVE Uses(c, x)
      OBVIOUS
    <3>1. CASE c = cpu
      BY <1>1, <3>1 DEF Uses, Ready
    <3>2. CASE c # cpu
      BY <1>1, <3>2 DEF Uses, Ready
    <3> QED
      BY <3>1, <3>2
  <2> QED
    BY <2>1 DEF VmeInv, OneUser
<1>3. \A c \in Cpus \ {cpu} : CpuInv(c)'
  BY <1>1, OthersKept
<1>4. CpuInv(cpu)'
  <2>1. \A va \in Pages : host[cpu][va] = Null
    <3>1. UnmapInv(cpu)
      BY <1>1 DEF VmeInv, CpuInv
    <3>2. CASE a = Null
      BY <3>1, <3>2 DEF UnmapInv, Shows
    <3>3. CASE a # Null
      <4>1. a \in Spaces
        BY <3>3
      <4>2. PICK k \in 0 .. nr_page[a] : At(a, k) = Null /\ Shows(cpu, a, UpTo(a, k))
        BY <1>1, <3>1, <3>3 DEF UnmapInv
      <4>3. k = 0
        <5>1. k \in 1 .. nr_page[a] => At(a, k) \in Pages
          BY <4>1, ListFacts DEF VmeInv
        <5> QED
          BY <4>1, <4>2, <5>1
      <4>4. UpTo(a, k) = {}
        BY <4>1, <4>3, ListFacts DEF VmeInv
      <4> QED
        BY <4>2, <4>4 DEF Shows
    <3> QED
      BY <3>2, <3>3
  <2>2. MapInv(cpu)'
    <3>1. CASE to = Null
      BY <1>1, <2>1, <3>1 DEF MapInv, Shows
    <3>2. CASE to # Null
      <4>1. to \in Spaces
        BY <3>2
      <4>2. PICK x \in Spaces : x = to
        BY <4>1
      <4>3. PICK k \in 0 .. nr_page[x] : At(x, k) = head[x] /\ Beyond(x, k) = {}
        <5>1. nr_page[x] \in Nat /\ At(x, nr_page[x]) = head[x] /\ Beyond(x, nr_page[x]) = {}
          BY ListFacts DEF VmeInv
        <5> HIDE VmeTypes
        <5>2. nr_page[x] \in 0 .. nr_page[x]
          BY <5>1
        <5> QED
          BY <5>1, <5>2
      <4>4. At(x, k)' = At(x, k) /\ Beyond(x, k)' = Beyond(x, k)
        BY <1>1 DEF At, Beyond, Order, tableVars
      <4>5. Shows(cpu, x, Beyond(x, k))'
        BY <1>1, <2>1, <4>2, <4>3, <4>4 DEF Shows
      <4>6. switch'[cpu].pp = At(x, k)' /\ switch'[cpu].to = x /\ k \in 0 .. nr_page'[x]
        BY <1>1, <3>2, <4>2, <4>3, <4>4 DEF tableVars
      <4> QED
        BY <4>5, <4>6 DEF MapInv
    <3> QED
      BY <3>1, <3>2
  <2>3. to # vm_head[cpu]
    BY <1>1 DEF VmeInv, CpuInv
  <2> QED
    BY <1>1, <2>2, <2>3 DEF CpuInv
<1> QED
  BY <1>2, <1>3, <1>4

\* One round of the second loop: the page of the new address space appears.
LEMMA MapPageIsolated ==
  ASSUME VmeInv, NEW cpu \in Cpus, MapPage(cpu)
  PROVE  OneUser' /\ \A c \in Cpus : CpuInv(c)'
<1> USE VmeTypes
<1> DEFINE a == switch[cpu].to
           pp == switch[cpu].pp
<1>1. /\ switch[cpu].phase = "map" /\ pp # Null /\ a \in Spaces
      /\ UNCHANGED <<tableVars, vm_head>>
      /\ \A c \in Cpus \ {cpu} : switch'[c] = switch[c] /\ host'[c] = host[c]
      /\ switch'[cpu] = [switch[cpu] EXCEPT !.pp = next[a][pp]]
      /\ \A x \in Spaces \ {a} : is_mapped'[x] = is_mapped[x]
  BY DEF MapPage, VmeInv, ListInv, TypeInv, WalksAList
<1>2. OneUser'
  <2>1. \A c \in Cpus, x \in Spaces : Uses(c, x)' => Uses(c, x)
    <3> SUFFICES ASSUME NEW c \in Cpus, NEW x \in Spaces, Uses(c, x)' PROVE Uses(c, x)
      OBVIOUS
    <3>1. CASE c = cpu
      BY <1>1, <3>1 DEF Uses, Ready
    <3>2. CASE c # cpu
      BY <1>1, <3>2 DEF Uses, Ready
    <3> QED
      BY <3>1, <3>2
  <2> QED
    BY <2>1 DEF VmeInv, OneUser
<1>3. \A c \in Cpus \ {cpu} : CpuInv(c)'
  <2>1. \A x \in Spaces : ~Uses(cpu, x) => is_mapped'[x] = is_mapped[x]
    BY <1>1 DEF Uses, Ready
  <2> QED
    BY <1>1, <2>1, OthersKept
<1>4. CpuInv(cpu)'
  <2>0. PICK x \in Spaces : x = a
    BY <1>1
  <2>1. PICK k \in 0 .. nr_page[x] : pp = At(x, k) /\ Shows(cpu, x, Beyond(x, k))
    BY <1>1, <2>0 DEF VmeInv, CpuInv, MapInv
  <2>2. k \in 1 .. nr_page[x] /\ k - 1 \in 0 .. nr_page[x]
    <3>1. k # 0
      BY <1>1, <2>1 DEF At
    <3>2. nr_page[x] \in Nat
      BY <1>1
    <3> HIDE VmeTypes
    <3> QED
      BY <3>1, <3>2
  <2>3. /\ next[x][pp] = At(x, k - 1)
        /\ pp \in Pages
        /\ \A va : va \in Beyond(x, k - 1) <=> va \in Beyond(x, k) \/ va = pp
    BY <1>1, <2>1, <2>2, ListFacts DEF VmeInv
  <2>5. /\ host'[cpu] = [host[cpu] EXCEPT ![pp] = frame[x][pp]]
        /\ is_mapped'[x][pp]
        /\ \A va \in Pages : va # pp => is_mapped'[x][va] = is_mapped[x][va]
    BY <1>1, <2>0, <2>3 DEF MapPage
  <2>6. PICK j \in 0 .. nr_page[x] : j = k - 1
    BY <2>2
  <2>7. ASSUME NEW va \in Pages
        PROVE  /\ va \in Beyond(x, j) => host'[cpu][va] = frame[x][va] /\ is_mapped'[x][va]
               /\ va \notin Beyond(x, j) => host'[cpu][va] = Null
    <3>1. /\ va \in Beyond(x, k) => host[cpu][va] = frame[x][va] /\ is_mapped[x][va]
          /\ va \notin Beyond(x, k) => host[cpu][va] = Null
      BY <2>1 DEF Shows
    <3>2. CASE va = pp
      BY <2>3, <2>5, <2>6, <3>2
    <3>3. CASE va # pp
      BY <2>3, <2>5, <2>6, <3>1, <3>3
    <3> QED
      BY <3>2, <3>3
  <2>8. At(x, j)' = At(x, j) /\ Beyond(x, j)' = Beyond(x, j)
    BY <1>1 DEF At, Beyond, Order, tableVars
  <2>9. Shows(cpu, x, Beyond(x, j))'
    BY <1>1, <2>7, <2>8 DEF Shows, tableVars
  <2>10. switch'[cpu].pp = At(x, j)' /\ switch'[cpu].to = x /\ j \in 0 .. nr_page'[x]
    BY <1>1, <2>0, <2>3, <2>6, <2>8 DEF tableVars
  <2>11. MapInv(cpu)'
    BY <1>1, <2>9, <2>10 DEF MapInv
  <2>12. switch'[cpu].phase = "map" /\ switch'[cpu].to = switch[cpu].to
         /\ switch[cpu].to # vm_head[cpu]
    BY <1>1 DEF VmeInv, CpuInv
  <2> QED
    BY <1>1, <2>11, <2>12 DEF CpuInv
<1> QED
  BY <1>2, <1>3, <1>4

\* At the end of the second loop the host shows the whole of the new address space.
LEMMA EndIsolated ==
  ASSUME VmeInv, NEW cpu \in Cpus, SwitchEnd(cpu)
  PROVE  OneUser' /\ \A c \in Cpus : CpuInv(c)'
<1> USE VmeTypes
<1> DEFINE to == switch[cpu].to
<1>1. /\ switch[cpu].phase = "map" /\ switch[cpu].pp = Null
      /\ UNCHANGED <<tableVars, is_mapped, host>>
      /\ \A c \in Cpus \ {cpu} : switch'[c] = switch[c] /\ vm_head'[c] = vm_head[c]
      /\ switch'[cpu] = Idle /\ vm_head'[cpu] = to
  BY DEF SwitchEnd
<1>2. OneUser'
  <2>1. \A c \in Cpus, x \in Spaces : Uses(c, x)' => Uses(c, x)
    <3> SUFFICES ASSUME NEW c \in Cpus, NEW x \in Spaces, Uses(c, x)' PROVE Uses(c, x)
      OBVIOUS
    <3>1. CASE c = cpu
      BY <1>1, <3>1 DEF Uses, Ready, Idle
    <3>2. CASE c # cpu
      BY <1>1, <3>2 DEF Uses, Ready
    <3> QED
      BY <3>1, <3>2
  <2> QED
    BY <2>1 DEF VmeInv, OneUser
<1>3. \A c \in Cpus \ {cpu} : CpuInv(c)'
  BY <1>1, OthersKept
<1>4. CpuInv(cpu)'
  <2>1. MapInv(cpu)
    BY <1>1 DEF VmeInv, CpuInv
  <2>2. IdleInv(cpu)'
    <3>1. CASE to = Null
      BY <1>1, <2>1, <3>1 DEF MapInv, IdleInv, Shows
    <3>2. CASE to # Null
      <4>1. PICK x \in Spaces : x = to
        BY <3>2
      <4>2. PICK k \in 0 .. nr_page[x] : At(x, k) = Null /\ Shows(cpu, x, Beyond(x, k))
        BY <1>1, <2>1, <3>2, <4>1 DEF MapInv
      <4>3. k = 0
        <5>1. k \in 1 .. nr_page[x] => At(x, k) \in Pages
          BY ListFacts DEF VmeInv
        <5>2. nr_page[x] \in Nat
          OBVIOUS
        <5>3. k \notin 1 .. nr_page[x]
          BY <4>2, <5>1
        <5> HIDE VmeTypes
        <5> QED
          BY <5>2, <5>3
      <4>4. Beyond(x, k) = hash[x]
        BY <4>3, ListFacts DEF VmeInv
      <4>5. Shows(cpu, x, hash[x])'
        BY <1>1, <4>2, <4>4 DEF Shows, tableVars
      <4> QED
        BY <1>1, <4>1, <4>5 DEF IdleInv
    <3> QED
      BY <3>1, <3>2
  <2> QED
    BY <1>1, <2>2 DEF CpuInv, Idle
<1> QED
  BY <1>2, <1>3, <1>4

LEMMA VmeInvNext ==
  ASSUME ~Remaps, ~SharedSpaces
  PROVE  VmeInv /\ [VmeNext]_vmeVars => VmeInv'
<1> SUFFICES ASSUME VmeInv, [VmeNext]_vmeVars
             PROVE  OneUser' /\ \A c \in Cpus : CpuInv(c)'
  BY ListNext DEF VmeInv
<1>1. ASSUME NEW cpu \in Cpus, NEW aspace \in Spaces, protect(cpu, aspace)
      PROVE  OneUser' /\ \A c \in Cpus : CpuInv(c)'
  <2>1. UNCHANGED <<head, nr_page, hash, next, frame, is_mapped, vm_head, host, switch>>
    BY <1>1 DEF protect
  <2>2. OneUser'
    BY <2>1 DEF VmeInv, OneUser, Uses, Ready
  <2>3. ASSUME NEW c \in Cpus PROVE CpuInv(c)'
    <3>1. CpuInv(c) /\ vm_head[c] \in Spaces \cup {Null} /\ switch[c].to \in Spaces \cup {Null}
      BY VmeTypes DEF VmeInv
    <3> QED
      BY <2>1, <3>1, StepElsewhere
  <2> QED
    BY <2>2, <2>3
<1>2. ASSUME NEW cpu \in Cpus, NEW aspace \in Spaces, NEW va \in Pages, NEW f \in Frames,
             map(cpu, aspace, va, f)
      PROVE  OneUser' /\ \A c \in Cpus : CpuInv(c)'
  BY <1>2, MapIsolated
<1>3. ASSUME NEW cpu \in Cpus, NEW to \in Spaces \cup {Null}, SwitchBegin(cpu, to)
      PROVE  OneUser' /\ \A c \in Cpus : CpuInv(c)'
  BY <1>3, BeginIsolated
<1>4. ASSUME NEW cpu \in Cpus, SwitchStep(cpu)
      PROVE  OneUser' /\ \A c \in Cpus : CpuInv(c)'
  BY <1>4, UnmapIsolated, DoneIsolated, MapPageIsolated, EndIsolated DEF SwitchStep
<1>5. CASE UNCHANGED vmeVars
  <2>1. UNCHANGED <<head, nr_page, hash, next, frame, is_mapped, vm_head, host, switch>>
    BY <1>5 DEF vmeVars, tableVars
  <2>2. OneUser'
    BY <2>1 DEF VmeInv, OneUser, Uses, Ready
  <2>3. ASSUME NEW c \in Cpus PROVE CpuInv(c)'
    <3>1. CpuInv(c) /\ vm_head[c] \in Spaces \cup {Null} /\ switch[c].to \in Spaces \cup {Null}
      BY VmeTypes DEF VmeInv
    <3> QED
      BY <2>1, <3>1, StepElsewhere
  <2> QED
    BY <2>2, <2>3
<1> QED
  BY <1>1, <1>2, <1>3, <1>4, <1>5 DEF VmeNext

\* Without remapping and without an address space that two CPUs use, every step of
\* the native AM keeps the page lists, the users of the address spaces and what
\* the two loops of __am_switch have done so far as VmeInv describes them.
THEOREM VmeInvariance ==
  ASSUME ~Remaps, ~SharedSpaces
  PROVE  VmeSpec => []VmeInv
<1> QED
  BY InitIsolated, VmeInvNext, PTL DEF VmeSpec

\* As long as a kernel maps each page once and runs an address space on one CPU at
\* a time, a CPU outside __am_switch sees the pages of its current address space
\* and no other, whatever other CPUs map or switch meanwhile (vme.c: map,
\* __am_switch).
THEOREM IsolationHolds ==
  ASSUME ~Remaps, ~SharedSpaces
  PROVE  VmeSpec => []Isolation
<1>1. VmeInv => Isolation
  <2> SUFFICES ASSUME VmeInv, NEW cpu \in Cpus, Ready(cpu)
               PROVE  host[cpu] = Table(vm_head[cpu])
    BY DEF Isolation
  <2>1. IdleInv(cpu)
    BY DEF VmeInv, CpuInv, Ready
  <2>2. host[cpu] \in [Pages -> Frames \cup {Null}] /\ vm_head[cpu] \in Spaces \cup {Null}
    BY VmeTypes
  <2>3. ASSUME NEW va \in Pages
        PROVE  host[cpu][va] = Table(vm_head[cpu])[va]
    BY <2>1 DEF IdleInv, Shows, Table
  <2>4. Table(vm_head[cpu]) = [va \in Pages |-> Table(vm_head[cpu])[va]]
    BY DEF Table
  <2> QED
    BY <2>2, <2>3, <2>4
<1> QED
  BY <1>1, VmeInvariance, PTL

-----------------------------------------------------------------------------
(* The list and the table.                                                 *)

\* A set of natural numbers that is not empty has a least element.
LEMMA LeastNumber ==
  ASSUME NEW T, T \subseteq Nat, T # {}
  PROVE  \E x \in T : \A y \in T : x <= y
<1>1. PICK x \in T : \A y \in T : ~(<<y, x>> \in OpToRel(<, Nat))
  BY NatLessThanWellFounded, WFMin
<1>2. \A y \in T : ~(y < x)
  BY <1>1 DEF OpToRel
<1> QED
  BY <1>2

\* What one more hop adds to the pages reached.
Hop(nx, S) == S \cup ({nx[p] : p \in S} \ {Null})

\* The equations of ReachedFrom's hops determine its last value.
Obeys(g, C, nx, va) ==
  g = [k \in 0 .. C |-> IF k = 0 THEN {va} \ {Null} ELSE Hop(nx, g[k - 1])]

LEMMA HopsUnique ==
  ASSUME NEW C \in Nat, NEW va, NEW nx, NEW g, NEW h, Obeys(g, C, nx, va), Obeys(h, C, nx, va)
  PROVE  g[C] = h[C]
<1> DEFINE bad == {k \in 0 .. C : g[k] # h[k]}
<1>1. SUFFICES ASSUME bad # {} PROVE FALSE
  OBVIOUS
<1>2. PICK k \in bad : \A y \in bad : k <= y
  <2>1. bad \subseteq Nat
    OBVIOUS
  <2> HIDE DEF bad
  <2> QED
    BY <1>1, <2>1, LeastNumber
<1>3. k \in 0 .. C /\ g[k] # h[k]
  OBVIOUS
<1>4. k # 0
  BY <1>3 DEF Obeys
<1>5. k - 1 \in 0 .. C /\ k - 1 \notin bad
  <2>1. k - 1 \in 0 .. C
    BY <1>3, <1>4
  <2> HIDE DEF bad
  <2> QED
    BY <1>2, <1>3, <2>1
<1>6. g[k - 1] = h[k - 1]
  BY <1>5
<1>7. g[k] = Hop(nx, g[k - 1]) /\ h[k] = Hop(nx, h[k - 1])
  BY <1>3, <1>4 DEF Obeys
<1> QED
  BY <1>3, <1>6, <1>7

LEMMA ReachedIsUpTo ==
  ASSUME ListInv, IsFiniteSet(Pages), NEW a \in Spaces, NEW m \in 0 .. nr_page[a]
  PROVE  ReachedFrom(a, At(a, m)) = UpTo(a, m)
<1> DEFINE n == nr_page[a]
           f == Order(a)
           nx == next[a]
           C == Cardinality(Pages)
           va == At(a, m)
           h == [k \in 0 .. C |-> {f[i] : i \in {j \in 1 .. m : m - j <= k}}]
<1>1. n \in Nat /\ f \in [1 .. n -> Pages] /\ m \in 0 .. n
  BY ListFacts
<1>2. C \in Nat /\ n <= C
  <2>1. hash[a] \subseteq Pages /\ n = Cardinality(hash[a])
    BY DEF ListInv, TypeInv, VmeTypeOK, Listed
  <2> QED
    BY <2>1, FS_CardinalityType, FS_Subset
<1>3. /\ va = IF m = 0 THEN Null ELSE f[m]
      /\ \A i \in 1 .. n : nx[f[i]] = IF i = 1 THEN Null ELSE f[i - 1]
  <2>1. \A i \in 1 .. n : nx[At(a, i)] = At(a, i - 1)
    BY ListFacts
  <2> QED
    BY <1>1, <2>1 DEF At
<1>4. \A i \in 1 .. n : f[i] # Null
  BY <1>1, NativeVmeAssumption
<1> HIDE DEF n, f, nx, C, va
<1>5. ASSUME NEW k \in 0 .. C
      PROVE  h[k] = IF k = 0 THEN {va} \ {Null} ELSE Hop(nx, h[k - 1])
  <2>1. h[k] = {f[i] : i \in {j \in 1 .. m : m - j <= k}}
    OBVIOUS
  <2>2. CASE k = 0
    <3>1. \A j \in 1 .. m : m - j <= 0 <=> j = m
      BY <1>1
    <3>2. m # 0 => m \in 1 .. m /\ m \in 1 .. n
      BY <1>1
    <3>3. m = 0 => 1 .. m = {}
      BY <1>1
    <3> QED
      BY <1>3, <1>4, <2>1, <2>2, <3>1, <3>2, <3>3
  <2>3. CASE k # 0
    <3>1. k - 1 \in 0 .. C
      BY <1>2, <2>3
    <3>2. h[k - 1] = {f[i] : i \in {j \in 1 .. m : m - j <= k - 1}}
      BY <3>1
    <3> HIDE DEF h
    <3>3. \A j \in 1 .. m : j \in 1 .. n
      BY <1>1
    <3>4. h[k] \subseteq Hop(nx, h[k - 1])
      <4> SUFFICES ASSUME NEW i \in 1 .. m, m - i <= k
                   PROVE  f[i] \in Hop(nx, h[k - 1])
        BY <2>1
      <4>1. CASE m - i <= k - 1
        BY <3>2, <4>1 DEF Hop
      <4>2. CASE ~(m - i <= k - 1)
        <5>1. i + 1 \in 1 .. m /\ m - (i + 1) <= k - 1
          BY <1>1, <1>2, <2>3, <4>2
        <5>2. f[i + 1] \in h[k - 1] /\ nx[f[i + 1]] = f[i] /\ f[i] # Null
          <6>1. f[i + 1] \in h[k - 1]
            BY <3>2, <5>1
          <6>2. i + 1 \in 1 .. n /\ i + 1 # 1 /\ (i + 1) - 1 = i /\ i \in 1 .. n
            BY <3>3, <5>1
          <6> QED
            BY <1>3, <1>4, <6>1, <6>2
        <5> QED
          BY <5>2 DEF Hop
      <4> QED
        BY <4>1, <4>2
    <3>5. Hop(nx, h[k - 1]) \subseteq h[k]
      <4>1. \A i \in 1 .. m : m - i <= k - 1 => m - i <= k
        BY <1>1, <1>2
      <4>2. h[k - 1] \subseteq h[k]
        BY <2>1, <3>2, <4>1
      <4>3. ASSUME NEW i \in 1 .. m, m - i <= k - 1, nx[f[i]] # Null
            PROVE  nx[f[i]] \in h[k]
        <5>1. i # 1 /\ nx[f[i]] = f[i - 1]
          BY <1>3, <3>3, <4>3
        <5>2. i - 1 \in 1 .. m /\ m - (i - 1) <= k
          BY <1>1, <1>2, <4>3, <5>1
        <5> QED
          BY <2>1, <5>1, <5>2
      <4> QED
        BY <3>2, <4>2, <4>3 DEF Hop
    <3> QED
      BY <2>3, <3>4, <3>5
  <2> QED
    BY <2>2, <2>3
<1>6. Obeys(h, C, nx, va)
  <2>1. h = [k \in 0 .. C |-> h[k]]
    OBVIOUS
  <2> HIDE DEF h
  <2> QED
    BY <1>5, <2>1 DEF Obeys
<1>7. h[C] = UpTo(a, m)
  <2>1. h[C] = {f[i] : i \in {j \in 1 .. m : m - j <= C}}
    BY <1>2
  <2>2. \A j \in 1 .. m : m - j <= C
    BY <1>1, <1>2
  <2> QED
    BY <2>1, <2>2 DEF UpTo, f
<1> HIDE DEF h
<1> DEFINE g == CHOOSE g : Obeys(g, C, nx, va)
<1>8. ReachedFrom(a, At(a, m)) = g[C]
  BY DEF ReachedFrom, Obeys, Hop, va, C, nx
<1>9. Obeys(g, C, nx, va)
  BY <1>6
<1>10. g[C] = h[C]
  <2> HIDE DEF g
  <2> QED
    BY <1>2, <1>6, <1>9, HopsUnique
<1> QED
  BY <1>7, <1>8, <1>10

\* As long as a kernel maps each page once, the linked list and the hash table of
\* an address space hold the same pages: map() loses no node and closes no cycle.
THEOREM ListHoldsTableHolds ==
  ASSUME ~Remaps, IsFiniteSet(Pages)
  PROVE  VmeSpec => []ListHoldsTable
<1>1. ListInv => ListHoldsTable
  <2> SUFFICES ASSUME ListInv, NEW a \in Spaces
               PROVE  /\ ReachedFrom(a, head[a]) = hash[a]
                      /\ nr_page[a] = Cardinality(hash[a])
                      /\ \A va \in hash[a] : va \notin ReachedFrom(a, next[a][va])
    BY DEF ListHoldsTable
  <2>0. nr_page[a] \in Nat
    BY ListFacts
  <2>1. ReachedFrom(a, head[a]) = hash[a]
    <3>1. nr_page[a] \in 0 .. nr_page[a]
      BY <2>0
    <3>2. ReachedFrom(a, At(a, nr_page[a])) = UpTo(a, nr_page[a])
      BY <3>1, ReachedIsUpTo
    <3> QED
      BY <3>2, ListFacts
  <2>2. nr_page[a] = Cardinality(hash[a])
    BY DEF ListInv, Listed
  <2>3. ASSUME NEW va \in hash[a] PROVE va \notin ReachedFrom(a, next[a][va])
    <3>1. PICK k \in 1 .. nr_page[a] : va = At(a, k)
      <4>1. va \in UpTo(a, nr_page[a])
        BY ListFacts
      <4>2. PICK k \in 1 .. nr_page[a] : va = Order(a)[k]
        BY <4>1 DEF UpTo
      <4> QED
        BY <2>0, <4>2 DEF At
    <3>2. k - 1 \in 0 .. nr_page[a]
      BY <2>0
    <3>3. ReachedFrom(a, At(a, k - 1)) = UpTo(a, k - 1)
      BY <3>2, ReachedIsUpTo
    <3>4. next[a][va] = At(a, k - 1) /\ va \notin UpTo(a, k - 1)
      BY <3>1, ListFacts
    <3> QED
      BY <3>3, <3>4
  <2> QED
    BY <2>1, <2>2, <2>3
<1>2. VmeInit => ListInv
  BY TypeInit, ListedInit DEF ListInv
<1> QED
  BY <1>1, <1>2, ListNext, PTL DEF VmeSpec
=============================================================================
