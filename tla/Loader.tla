------------------------------- MODULE Loader -------------------------------
(***************************************************************************)
(* From the BIOS to main(): threads/loader.S finds and reads the kernel,   *)
(* threads/start.S sizes the memory and maps it for the switch to          *)
(* protected mode, paging_init of threads/init.c replaces that map.        *)
(* Addresses are page or sector numbers.                                   *)
(***************************************************************************)
EXTENDS Integers, Sequences, FiniteSets, TLC, SequencesExt

CONSTANTS
  WordRange,     \* values of a 16-bit register: 2^16
  KernelCap,     \* sectors read at most: 1024
  OneMeg,        \* kB the BIOS does not report: 1024
  RamCap,        \* kB mapped at most: 64 MB
  PerTable,      \* entries of a page table: 1024
  BootTables,    \* page tables for RamCap: 16
  TableFrame,    \* page frame of the first of them: 0x10
  KernelFrame,   \* page frame the kernel is loaded to: 0x20
  PhysBase       \* page of LOADER_PHYS_BASE: 0xc0000

----------------------------------------------------------------------------
(* loader.S.  A drive has its sector count (0: it does not exist), the      *)
(* comparison of its last word with the signature, and its four entries.    *)

NotFound == [drive |-> 0]

\* The first entry with the kernel's type and the bootable mark.
check_partition(parts) ==
  LET match == {i \in DOMAIN parts : parts[i].used /\ parts[i].kernel /\ parts[i].active}
  IN  IF match = {} THEN 0 ELSE CHOOSE i \in match : \A j \in match : i <= j

\* inc leaves the carry flag as the last comparison set it: jnc goes on to
\* the next drive unless the signature compared below.
next_drive(sig) == sig # "below"

RECURSIVE read_mbr(_, _)
read_mbr(drives, dl) ==
  IF dl > Len(drives) \/ drives[dl].size = 0 THEN NotFound
  ELSE LET d == drives[dl]
           i == IF d.sig = "equal" THEN check_partition(d.parts) ELSE 0
       IN  IF i > 0 THEN [drive |-> dl, part |-> d.parts[i]]
           ELSE IF next_drive(d.sig) THEN read_mbr(drives, dl + 1) ELSE NotFound

\* loop counts CX down from its value, 0 standing for the whole range.
SectorCount(size) ==
  IF size = 0 THEN WordRange ELSE IF size <= KernelCap THEN size ELSE KernelCap

\* The sector in EBX after I increments of its low word BX.
SectorAt(first, i) == (first \div WordRange) * WordRange + ((first + i) % WordRange)

\* The sectors read, in order; none if one of them cannot be read.
load_kernel(drives) ==
  LET k == read_mbr(drives, 1)
  IN  IF k = NotFound THEN [result |-> "not found"]
      ELSE LET sectors == [i \in 1..SectorCount(k.part.size) |-> SectorAt(k.part.first, i - 1)]
           IN  IF \E i \in DOMAIN sectors : sectors[i] >= drives[k.drive].size
               THEN [result |-> "bad read"]
               ELSE [result |-> "started", drive |-> k.drive, part |-> k.part, image |-> sectors]

----------------------------------------------------------------------------
(* start.S *)

\* From the kB above the first MB, as the BIOS reports them.
init_ram_pages(ax) == (IF ax + OneMeg > RamCap THEN RamCap ELSE ax + OneMeg) \div 4

NoFrame == -1

\* One directory entry more than there are tables, twice.
boot_page_dir(d) ==
  CASE d \in 0..BootTables -> TableFrame + d
    [] d - PhysBase \div PerTable \in 0..BootTables -> TableFrame + d - PhysBase \div PerTable
    [] OTHER -> NoFrame

\* The tables are filled as one array; what else is in memory is not a table.
boot_page_table(frame, k) ==
  IF frame \in TableFrame..(TableFrame + BootTables - 1)
  THEN (frame - TableFrame) * PerTable + k ELSE NoFrame

BootTranslate(page) ==
  LET frame == boot_page_dir(page \div PerTable)
  IN  IF frame = NoFrame THEN NoFrame ELSE boot_page_table(frame, page % PerTable)

----------------------------------------------------------------------------
(* paging_init.  pd and the page tables are functions on the indices filled. *)

pd_no(page) == page \div PerTable
pt_no(page) == page % PerTable
pte_create_kernel(frame, writable) ==
  [frame |-> frame, flags |-> {"P"} \cup (IF writable THEN {"W"} ELSE {})]
pde_create(pt) == [frame |-> pt, flags |-> {"U", "P", "W"}]

\* The kernel text lies in TEXT, a set of pages; PT numbers the tables.
PagingStep(m, page, text) ==
  LET vaddr == page + PhysBase
      new == pd_no(vaddr) \notin DOMAIN m.pd
      pt == IF new THEN m.pt + 1 ELSE m.pt
      pd == IF new THEN (pd_no(vaddr) :> pde_create(pt)) @@ m.pd ELSE m.pd
  IN  [pd |-> pd, pt |-> pt,
       tables |-> (<<pt, pt_no(vaddr)>> :> pte_create_kernel(page, page \notin text)) @@ m.tables]

paging_init(ram, text) ==
  FoldLeft(LAMBDA m, i : PagingStep(m, i - 1, text),
           [pd |-> <<>>, pt |-> 0, tables |-> <<>>], [i \in 1..ram |-> i])

----------------------------------------------------------------------------
(* What the code promises *)

\* The kernel is the start of the first bootable kernel partition, in drive
\* order up to the first missing drive, and it is not started if it cannot be
\* read whole.  Three cases are left out, where the code does otherwise: a last
\* word below the signature on an earlier drive, which ends the search; a
\* partition without sectors; and one across a multiple of WordRange.
LoaderRight(drives) ==
  LET r == load_kernel(drives)
      Kernels(d) == {i \in DOMAIN drives[d].parts :
                       /\ drives[d].sig = "equal" /\ drives[d].parts[i].used
                       /\ drives[d].parts[i].kernel /\ drives[d].parts[i].active}
      having == {d \in DOMAIN drives : /\ Kernels(d) # {}
                                       /\ \A c \in 1..d : drives[c].size > 0}
      Least(S) == CHOOSE x \in S : \A y \in S : x <= y
      d1 == Least(having)
      part == drives[d1].parts[Least(Kernels(d1))]
      n == IF part.size < KernelCap THEN part.size ELSE KernelCap
      last == part.first + n - 1
      regular == /\ \A c \in 1..(d1 - 1) : drives[c].sig # "below"
                 /\ n > 0
                 /\ part.first \div WordRange = last \div WordRange
  IN  /\ having = {} => r.result = "not found"
      /\ having # {} /\ regular /\ last >= drives[d1].size => r.result = "bad read"
      /\ having # {} /\ regular /\ last < drives[d1].size =>
           r = [result |-> "started", drive |-> d1, part |-> part,
                image |-> [i \in 1..n |-> part.first + i - 1]]

\* Until paging_init every page of memory is at its own address and at its
\* kernel address, and the tables for it do not reach into the kernel.
BootMapRight(ax) ==
  /\ init_ram_pages(ax) <= BootTables * PerTable
  /\ \A page \in 0..(init_ram_pages(ax) - 1) :
       BootTranslate(page) = page /\ BootTranslate(PhysBase + page) = page
  /\ TableFrame + BootTables <= KernelFrame

\* After it exactly the pages of memory are mapped, each at its kernel address
\* only, readable by the kernel alone, writable unless it holds kernel text,
\* and with as few tables as possible.
PagingRight(ram, text) ==
  LET m == paging_init(ram, text)
      Mapped(d, k) == d \in DOMAIN m.pd /\ <<m.pd[d].frame, k>> \in DOMAIN m.tables
      Entry(d, k) == m.tables[<<m.pd[d].frame, k>>]
      base == PhysBase \div PerTable
  IN  /\ \A d \in 0..(base + ram), k \in 0..(PerTable - 1) :
           LET page == d * PerTable + k - PhysBase
           IN  /\ Mapped(d, k) <=> page \in 0..(ram - 1)
               /\ Mapped(d, k) =>
                    Entry(d, k) = [frame |-> page,
                                   flags |-> IF page \in text THEN {"P"} ELSE {"P", "W"}]
      /\ m.pt = Cardinality({page \div PerTable : page \in 0..(ram - 1)})
=============================================================================
