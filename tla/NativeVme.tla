----------------------------- MODULE NativeVme ------------------------------
(***************************************************************************)
(* Address spaces of the `native` AbstractMachine                          *)
(* (abstract-machine/am/src/native/vme.c, __am_pmem_map and                *)
(* __am_pmem_unmap of platform.c).                                         *)
(*                                                                         *)
(* A CPU is a forked host process. An address space is a list of PageMap   *)
(* nodes, one per mapped page, kept in memory that all CPUs share; a hash  *)
(* table finds the node of a page. hcreate_r puts that table on the heap   *)
(* of the process that called protect(), which the others do not share: a  *)
(* kernel maps pages on that CPU only. Switching a CPU to another address  *)
(* space walks the list of the old one and unmaps its pages from the host  *)
(* process, then walks the list of the new one and maps them. The nodes    *)
(* with their is_mapped flags are shared, the host's mappings and the      *)
(* current address space are the CPU's own.                                *)
(*                                                                         *)
(* A node is named by its page.  A frame stands for pa and prot together.  *)
(***************************************************************************)
EXTENDS Naturals, FiniteSets

CONSTANTS
  Cpus, Spaces, Pages, Frames,
  Null,         \* no address space; the end of a list; not mapped
  Remaps,       \* map() may be called for a page that is already mapped
  SharedSpaces  \* two CPUs may use an address space at a time

ASSUME NativeVmeAssumption ==
  /\ Null \notin Spaces \cup Pages \cup Frames \cup Cpus
  /\ Remaps \in BOOLEAN /\ SharedSpaces \in BOOLEAN

VARIABLES
  made,       \* the CPU that called protect() for an address space, or Null
  head,       \* VMHead.head, per address space
  nr_page,    \* VMHead.nr_page
  hash,       \* VMHead.hash: the pages that have a node
  next, frame, is_mapped,   \* the PageMap nodes
  vm_head,    \* thiscpu->vm_head
  host,       \* what each CPU's host process has mapped at each page
  switch      \* where each CPU is in __am_switch

tableVars == <<made, head, nr_page, hash, next, frame>>
vmeVars == <<tableVars, is_mapped, vm_head, host, switch>>

Idle == [phase |-> "idle", pp |-> Null, to |-> Null]

VmeTypeOK ==
  /\ made \in [Spaces -> Cpus \cup {Null}]
  /\ head \in [Spaces -> Pages \cup {Null}]
  /\ nr_page \in [Spaces -> Nat]
  /\ hash \in [Spaces -> SUBSET Pages]
  /\ next \in [Spaces -> [Pages -> Pages \cup {Null}]]
  /\ frame \in [Spaces -> [Pages -> Frames \cup {Null}]]
  /\ is_mapped \in [Spaces -> [Pages -> BOOLEAN]]
  /\ vm_head \in [Cpus -> Spaces \cup {Null}]
  /\ host \in [Cpus -> [Pages -> Frames \cup {Null}]]
  /\ switch \in [Cpus -> [phase : {"idle", "unmap", "map"},
                          pp : Pages \cup {Null}, to : Spaces \cup {Null}]]

VmeInit ==
  /\ made = [aspace \in Spaces |-> Null]
  /\ head = [aspace \in Spaces |-> Null]
  /\ nr_page = [aspace \in Spaces |-> 0]
  /\ hash = [aspace \in Spaces |-> {}]
  /\ next = [aspace \in Spaces |-> [va \in Pages |-> Null]]
  /\ frame = [aspace \in Spaces |-> [va \in Pages |-> Null]]
  /\ is_mapped = [aspace \in Spaces |-> [va \in Pages |-> FALSE]]
  /\ vm_head = [cpu \in Cpus |-> Null]
  /\ host = [cpu \in Cpus |-> [va \in Pages |-> Null]]
  /\ switch = [cpu \in Cpus |-> Idle]

\* The CPU runs the kernel and is not inside __am_switch.
Ready(cpu) == switch[cpu].phase = "idle"

\* How a kernel is to use an address space: one CPU at a time, as the owner
\* of the process that runs in it.
Exclusive(cpu, aspace) ==
  SharedSpaces \/ \A other \in Cpus \ {cpu} :
                    vm_head[other] # aspace /\ (Ready(other) \/ switch[other].to # aspace)

-----------------------------------------------------------------------------

protect(cpu, aspace) ==
  /\ Ready(cpu) /\ made[aspace] = Null
  /\ made' = [made EXCEPT ![aspace] = cpu]
  /\ UNCHANGED <<head, nr_page, hash, next, frame, is_mapped, vm_head, host, switch>>

\* Mutant: the node goes to the front before its successor is read.
map_swapped(cpu, aspace, va, f) ==
  /\ Ready(cpu) /\ made[aspace] = cpu /\ Exclusive(cpu, aspace)
  /\ Remaps \/ va \notin hash[aspace]
  /\ hash' = [hash EXCEPT ![aspace] = @ \cup {va}]
  /\ nr_page' = [nr_page EXCEPT ![aspace] = IF va \in hash[aspace] THEN @ ELSE @ + 1]
  /\ frame' = [frame EXCEPT ![aspace][va] = f]
  /\ head' = [head EXCEPT ![aspace] = va]
  /\ next' = [next EXCEPT ![aspace][va] = head'[aspace]]
  /\ is_mapped' = [is_mapped EXCEPT ![aspace][va] = (vm_head[cpu] = aspace)]
  /\ host' = IF vm_head[cpu] = aspace THEN [host EXCEPT ![cpu][va] = f] ELSE host
  /\ UNCHANGED <<made, vm_head, switch>>

\* Mutant: the rest of the list is lost.
map_drops_list(cpu, aspace, va, f) ==
  /\ Ready(cpu) /\ made[aspace] = cpu /\ Exclusive(cpu, aspace)
  /\ Remaps \/ va \notin hash[aspace]
  /\ hash' = [hash EXCEPT ![aspace] = @ \cup {va}]
  /\ nr_page' = [nr_page EXCEPT ![aspace] = IF va \in hash[aspace] THEN @ ELSE @ + 1]
  /\ frame' = [frame EXCEPT ![aspace][va] = f]
  /\ head' = [head EXCEPT ![aspace] = va]
  /\ is_mapped' = [is_mapped EXCEPT ![aspace][va] = (vm_head[cpu] = aspace)]
  /\ host' = IF vm_head[cpu] = aspace THEN [host EXCEPT ![cpu][va] = f] ELSE host
  /\ UNCHANGED <<made, next, vm_head, switch>>

\* hsearch_r finds the page's node or a new one is entered; either way the
\* node goes to the front of the list.
map(cpu, aspace, va, f) ==
  /\ Ready(cpu) /\ made[aspace] = cpu /\ Exclusive(cpu, aspace)
  /\ Remaps \/ va \notin hash[aspace]
  /\ hash' = [hash EXCEPT ![aspace] = @ \cup {va}]
  /\ nr_page' = [nr_page EXCEPT ![aspace] = IF va \in hash[aspace] THEN @ ELSE @ + 1]
  /\ frame' = [frame EXCEPT ![aspace][va] = f]
  /\ next' = [next EXCEPT ![aspace][va] = head[aspace]]
  /\ head' = [head EXCEPT ![aspace] = va]
  /\ is_mapped' = [is_mapped EXCEPT ![aspace][va] = (vm_head[cpu] = aspace)]
  /\ host' = IF vm_head[cpu] = aspace THEN [host EXCEPT ![cpu][va] = f] ELSE host
  /\ UNCHANGED <<made, vm_head, switch>>

\* __am_switch(c): c->vm_head is `to`.
SwitchBegin(cpu, to) ==
  /\ Ready(cpu)
  /\ to # vm_head[cpu]
  /\ to # Null => made[to] # Null /\ Exclusive(cpu, to)
  /\ switch' = [switch EXCEPT ![cpu] =
       [phase |-> "unmap", to |-> to,
        pp |-> IF vm_head[cpu] = Null THEN Null ELSE head[vm_head[cpu]]]]
  /\ UNCHANGED <<tableVars, is_mapped, vm_head, host>>

\* "munmap all mappings": one round of list_foreach.
UnmapPage(cpu) ==
  LET aspace == vm_head[cpu]  pp == switch[cpu].pp IN
  /\ switch[cpu].phase = "unmap" /\ pp # Null
  /\ IF is_mapped[aspace][pp]
       THEN /\ host' = [host EXCEPT ![cpu][pp] = Null]
            /\ is_mapped' = [is_mapped EXCEPT ![aspace][pp] = FALSE]
       ELSE UNCHANGED <<host, is_mapped>>
  /\ switch' = [switch EXCEPT ![cpu].pp = next[aspace][pp]]
  /\ UNCHANGED <<tableVars, vm_head>>

UnmapDone(cpu) ==
  LET to == switch[cpu].to IN
  /\ switch[cpu].phase = "unmap" /\ switch[cpu].pp = Null
  /\ switch' = [switch EXCEPT ![cpu] =
       [phase |-> "map", to |-> to, pp |-> IF to = Null THEN Null ELSE head[to]]]
  /\ UNCHANGED <<tableVars, is_mapped, vm_head, host>>

\* Mutant: the page is mapped to itself.
MapPage_swapped(cpu) ==
  LET to == switch[cpu].to  pp == switch[cpu].pp IN
  /\ switch[cpu].phase = "map" /\ pp # Null
  /\ host' = [host EXCEPT ![cpu][pp] = pp]
  /\ is_mapped' = [is_mapped EXCEPT ![to][pp] = TRUE]
  /\ switch' = [switch EXCEPT ![cpu].pp = next[to][pp]]
  /\ UNCHANGED <<tableVars, vm_head>>

\* Mutant: the node is not marked as mapped.
MapPage_unmarked(cpu) ==
  LET to == switch[cpu].to  pp == switch[cpu].pp IN
  /\ switch[cpu].phase = "map" /\ pp # Null
  /\ host' = [host EXCEPT ![cpu][pp] = frame[to][pp]]
  /\ switch' = [switch EXCEPT ![cpu].pp = next[to][pp]]
  /\ UNCHANGED <<tableVars, is_mapped, vm_head>>

\* "mmap all mappings"
MapPage(cpu) ==
  LET to == switch[cpu].to  pp == switch[cpu].pp IN
  /\ switch[cpu].phase = "map" /\ pp # Null
  /\ host' = [host EXCEPT ![cpu][pp] = frame[to][pp]]
  /\ is_mapped' = [is_mapped EXCEPT ![to][pp] = TRUE]
  /\ switch' = [switch EXCEPT ![cpu].pp = next[to][pp]]
  /\ UNCHANGED <<tableVars, vm_head>>

SwitchEnd(cpu) ==
  /\ switch[cpu].phase = "map" /\ switch[cpu].pp = Null
  /\ vm_head' = [vm_head EXCEPT ![cpu] = switch[cpu].to]
  /\ switch' = [switch EXCEPT ![cpu] = Idle]
  /\ UNCHANGED <<tableVars, is_mapped, host>>

SwitchStep(cpu) == UnmapPage(cpu) \/ UnmapDone(cpu) \/ MapPage(cpu) \/ SwitchEnd(cpu)

VmeNext ==
  \E cpu \in Cpus :
    \/ \E aspace \in Spaces : protect(cpu, aspace)
    \/ \E aspace \in Spaces, va \in Pages, f \in Frames : map(cpu, aspace, va, f)
    \/ \E to \in Spaces \cup {Null} : SwitchBegin(cpu, to)
    \/ SwitchStep(cpu)

\* A CPU inside __am_switch keeps running.
VmeSpec == VmeInit /\ [][VmeNext]_vmeVars /\ \A cpu \in Cpus : WF_vmeVars(SwitchStep(cpu))

-----------------------------------------------------------------------------
(* Properties                                                              *)

\* What the kernel asked for: the pages of an address space and their frames.
Table(aspace) == [va \in Pages |-> IF aspace = Null \/ va \notin hash[aspace] THEN Null
                                                                 ELSE frame[aspace][va]]

\* Outside __am_switch a CPU sees exactly the pages of its current address
\* space: none of an earlier one is left mapped and none of its own is missing.
Isolation == \A cpu \in Cpus : Ready(cpu) => host[cpu] = Table(vm_head[cpu])

\* The pages reached from `va` by following next.
ReachedFrom(aspace, va) ==
  LET hops[k \in 0 .. Cardinality(Pages)] ==
        IF k = 0 THEN {va} \ {Null}
        ELSE hops[k - 1] \cup ({next[aspace][p] : p \in hops[k - 1]} \ {Null})
  IN hops[Cardinality(Pages)]

\* The list and the hash table agree: every mapped page is in the list, no page
\* that is not mapped is, and no page is its own successor's successor.
ListHoldsTable ==
  \A aspace \in Spaces :
    /\ ReachedFrom(aspace, head[aspace]) = hash[aspace]
    /\ nr_page[aspace] = Cardinality(hash[aspace])
    /\ \A va \in hash[aspace] : va \notin ReachedFrom(aspace, next[aspace][va])

\* "munmap all mappings ... mmap all mappings" (vme.c:63, 73): every switch that
\* is begun comes to its end.
SwitchCompletes == \A cpu \in Cpus : (switch[cpu].phase # "idle") ~> Ready(cpu)

\* "munmap all mappings" (vme.c:63): when the first loop of __am_switch is over
\* none of the old address space's pages is left in the host process.
MunmapsAll ==
  \A cpu \in Cpus :
    switch[cpu].phase = "unmap" /\ switch[cpu].pp = Null
      => \A va \in Pages : host[cpu][va] = Null
=============================================================================
