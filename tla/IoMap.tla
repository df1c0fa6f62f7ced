------------------------------- MODULE IoMap --------------------------------
(***************************************************************************)
(* NEMU's physical address map: main memory (memory/paddr.c), the table of *)
(* memory-mapped devices (device/io/mmio.c, device/map.h) and the pool     *)
(* from which every device takes the memory behind its registers           *)
(* (device/io/map.c).                                                      *)
(*                                                                         *)
(* init_device registers the devices, each at the address and with the     *)
(* length its configuration gives it; then the guest runs and accesses     *)
(* physical memory.  An assert or a panic aborts the emulator.             *)
(*                                                                         *)
(* Addresses are words modulo W.  The contents of the registers and the    *)
(* devices' callbacks are left out: an access is the range of bytes it     *)
(* touches.                                                                *)
(***************************************************************************)
EXTENDS Integers, Sequences

CONSTANTS
  W,                \* the number of addresses: 2^32
  MBASE, MSIZE,     \* CONFIG_MBASE, CONFIG_MSIZE: main memory
  NR_MAP,           \* 16
  PAGE_SIZE,        \* 4096
  IO_PAGES,         \* IO_SPACE_MAX / PAGE_SIZE
  MaxLen,           \* the longest access: 8 bytes
  DevAddrs, DevLens \* bounds: where a device may be configured, and its length

IO_SPACE_MAX == IO_PAGES * PAGE_SIZE

ASSUME IoMapAssumption ==
  /\ W \in Nat /\ MBASE \in Nat /\ MSIZE \in Nat /\ NR_MAP \in Nat
  /\ PAGE_SIZE \in Nat /\ IO_PAGES \in Nat /\ MaxLen \in Nat
  /\ MBASE + MSIZE <= W
  /\ 0 < MaxLen /\ MaxLen <= PAGE_SIZE /\ 0 < IO_PAGES
  /\ IO_SPACE_MAX <= MSIZE          \* 32MB and, by default, 128MB
  /\ DevAddrs \subseteq 0 .. W - 1
  /\ DevLens \subseteq Nat \ {0}

VARIABLES
  maps,     \* maps[1 .. nr_map]; space is an offset in io_space
  p_space,  \* the first free byte of io_space
  booted,   \* init_device has returned
  alive,    \* no assert or panic yet
  access    \* the guest's last access

ioVars == <<maps, p_space, booted, alive, access>>

Addr == 0 .. W - 1

IOMap == [low : Addr, high : Addr, space : Nat]

\* `map` is the device that answered, 0 if main memory or nobody did.
NoAccess == [map |-> 0, addr |-> 0, len |-> 1]

IoTypeOK ==
  /\ maps \in Seq(IOMap) /\ Len(maps) <= NR_MAP
  /\ p_space \in Nat
  /\ booted \in BOOLEAN
  /\ alive \in BOOLEAN
  /\ access \in [map : 0 .. Len(maps), addr : Addr, len : 1 .. MaxLen]

\* init_map
IoInit ==
  /\ maps = <<>>
  /\ p_space = 0
  /\ booted = FALSE
  /\ alive = TRUE
  /\ access = NoAccess

-----------------------------------------------------------------------------

\* Unsigned: addr - CONFIG_MBASE < CONFIG_MSIZE.
in_pmem(addr) == MBASE <= addr /\ addr < MBASE + MSIZE

\* Mutant: the length is rounded down.
PageAlign_down(size) == (size \div PAGE_SIZE) * PAGE_SIZE

PageAlign(size) == ((size + PAGE_SIZE - 1) \div PAGE_SIZE) * PAGE_SIZE

\* Mutant: the pool may be filled to its last byte.
SpaceLeft_full(end) == end <= IO_SPACE_MAX

\* The assert of new_space.
SpaceLeft(end) == end < IO_SPACE_MAX

\* Mutant: a shared end point does not count.
Overlaps_strict(left, right, m) == left < m.high /\ right > m.low

Overlaps(left, right, m) == left <= m.high /\ right >= m.low

\* Mutant: only the first address is compared with main memory.
MeetsPmem_left(left, right) == in_pmem(left)

MeetsPmem(left, right) == in_pmem(left) \/ in_pmem(right)

\* Mutant: the table may overflow.
TableFree_unchecked(nr_map) == nr_map <= NR_MAP

\* The assert at the head of add_mmio_map.
TableFree(nr_map) == nr_map < NR_MAP

\* A device's init: space = new_space(len); add_mmio_map(addr, space, len).
init_device(addr, len) ==
  LET end   == p_space + PageAlign(len)
      right == (addr + len - 1) % W
  IN
  /\ ~booted
  /\ IF /\ SpaceLeft(end)
        /\ TableFree(Len(maps))
        /\ ~MeetsPmem(addr, right)
        /\ \A i \in 1 .. Len(maps) : ~Overlaps(addr, right, maps[i])
       THEN /\ maps' = Append(maps, [low |-> addr, high |-> right, space |-> p_space])
            /\ p_space' = end
            /\ UNCHANGED alive
       ELSE alive' = FALSE /\ UNCHANGED <<maps, p_space>>
  /\ UNCHANGED <<booted, access>>

Boot ==
  /\ ~booted
  /\ booted' = TRUE
  /\ UNCHANGED <<maps, p_space, alive, access>>

\* Mutant: the byte after the region belongs to it.
map_inside_longer(m, addr) == addr >= m.low /\ addr <= m.high + 1

map_inside(m, addr) == addr >= m.low /\ addr <= m.high

\* find_mapid_by_addr: the first map that holds addr.
Found(i, addr) ==
  /\ map_inside(maps[i], addr)
  /\ \A j \in 1 .. i - 1 : ~map_inside(maps[j], addr)

\* paddr_read and paddr_write: main memory, else a device, else check_bound's
\* Assert.
paddr_access(addr, len) ==
  /\ booted
  /\ \/ /\ in_pmem(addr)
        /\ access' = [map |-> 0, addr |-> addr, len |-> len]
        /\ UNCHANGED alive
     \/ \E i \in 1 .. Len(maps) :
          /\ ~in_pmem(addr) /\ Found(i, addr)
          /\ access' = [map |-> i, addr |-> addr, len |-> len]
          /\ UNCHANGED alive
     \/ /\ ~in_pmem(addr) /\ \A i \in 1 .. Len(maps) : ~map_inside(maps[i], addr)
        /\ alive' = FALSE
        /\ UNCHANGED access
  /\ UNCHANGED <<maps, p_space, booted>>

IoNext ==
  /\ alive
  /\ \/ \E addr \in DevAddrs, len \in DevLens : init_device(addr, len)
     \/ Boot
     \/ \E addr \in Addr, len \in 1 .. MaxLen : paddr_access(addr, len)

IoSpec == IoInit /\ [][IoNext]_ioVars

-----------------------------------------------------------------------------
(* Properties                                                              *)

\* The offset in io_space of an access to device i.
FirstByte == maps[access.map].space + access.addr - maps[access.map].low

\* No address belongs to two devices: which one was registered first does not
\* matter (mmio.c:42-46).
OneDevice ==
  \A i, j \in 1 .. Len(maps) : \A addr \in Addr :
    map_inside(maps[i], addr) /\ map_inside(maps[j], addr) => i = j

\* No device is hidden behind main memory.  add_mmio_map compares only the two
\* ends of a region with it; that is enough because the pool the region's
\* registers come from is smaller than main memory (mmio.c:39, map.c:31).
NoneBehindPmem ==
  \A i \in 1 .. Len(maps) : \A addr \in Addr :
    map_inside(maps[i], addr) => ~in_pmem(addr)

\* Two devices never share a byte of the pool.
OwnSpace ==
  \A i, j \in 1 .. Len(maps) :
    i < j /\ maps[i].low <= maps[i].high
      => maps[i].space + (maps[i].high - maps[i].low) < maps[j].space

\* Whatever its length, an access to a device stays inside the pool: the bound
\* check looks at the first address only (map.c:39), but new_space never hands
\* out the pool's last page.
InPool == access.map # 0 => FirstByte + access.len - 1 < IO_SPACE_MAX

\* An access at a multiple of its length does not leave a device that ends at
\* one.
AlignedInDevice ==
  /\ access.map # 0
  /\ access.addr % access.len = 0
  /\ (maps[access.map].high + 1) % access.len = 0
  => access.addr + access.len - 1 <= maps[access.map].high

\* "address (...) is out of bound {%s}" (map.c:39): check_bound keeps an access
\* with the device it addresses, and no byte of it is in another device's space.
InDevice ==
  \A j \in 1 .. Len(maps) :
    access.map # 0 /\ j # access.map
      => ~(FirstByte < maps[j].space /\ maps[j].space <= FirstByte + access.len - 1)
=============================================================================
