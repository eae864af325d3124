----------------------------- MODULE Descriptors ----------------------------
(***************************************************************************)
(* What the kernel tells the processor: segment descriptors                *)
(* (userprog/gdt.c), interrupt gates and their registration                *)
(* (threads/interrupt.c, userprog/exception.c, userprog/syscall.c and the  *)
(* drivers) and the stubs of threads/intr-stubs.S.  A number is the set of *)
(* its bits that are one, so that OR is union and AND intersection.        *)
(***************************************************************************)
EXTENDS Integers, Sequences, FiniteSets, FiniteSetsExt

CONSTANT INTR_CNT        \* 256

Bits(n) == {i \in 0..19 : (n \div 2 ^ i) % 2 = 1}
Shl(s, k) == {i + k : i \in s} \cap 0..31              \* uint32_t
Shr(s, k) == {i - k : i \in {j \in s : j >= k}}
High(e1) == {i + 32 : i \in e1}                        \* (uint64_t) e1 << 32

----------------------------------------------------------------------------
(* userprog/gdt.c *)

make_seg_desc(base, limit, class, type, dpl, granularity) ==
  LET e0 == (limit \cap 0..15) \cup Shl(base, 16)
      e1 == (Shr(base, 16) \cap 0..7) \cup Shl(Bits(type), 8) \cup Shl(Bits(class), 12)
              \cup Shl(Bits(dpl), 13) \cup {15} \cup (limit \cap 16..19) \cup {22}
              \cup Shl(Bits(granularity), 23) \cup (base \cap 24..31)
  IN  e0 \cup High(e1)

make_code_desc(dpl) == make_seg_desc({}, 0..19, 1, 10, dpl, 1)
make_data_desc(dpl) == make_seg_desc({}, 0..19, 1, 2, dpl, 1)
make_tss_desc(laddr) == make_seg_desc(laddr, Bits(103), 0, 9, 0, 0)

\* The operand of lgdt and lidt.
make_gdtr_operand(limit, base) == limit \cup {i + 16 : i \in base}

\* The selectors are byte offsets with a privilege level in the low bits.
Sel == [NULL |-> 0, KCSEG |-> 8, KDSEG |-> 16, UCSEG |-> 27, UDSEG |-> 35, TSS |-> 40]
SelIndex(sel) == sel \div 8

gdt_init(tss) ==
  [i \in 0..5 |-> CASE i = SelIndex(Sel.NULL) -> {}
                    [] i = SelIndex(Sel.KCSEG) -> make_code_desc(0)
                    [] i = SelIndex(Sel.KDSEG) -> make_data_desc(0)
                    [] i = SelIndex(Sel.UCSEG) -> make_code_desc(3)
                    [] i = SelIndex(Sel.UDSEG) -> make_data_desc(3)
                    [] i = SelIndex(Sel.TSS) -> make_tss_desc(tss)]

----------------------------------------------------------------------------
(* threads/interrupt.c *)

make_gate(function, dpl, type) ==
  LET e0 == (function \cap 0..15) \cup Shl(Bits(Sel.KCSEG), 16)
      e1 == (function \cap 16..31) \cup {15} \cup Shl(Bits(dpl), 13) \cup Shl(Bits(type), 8)
  IN  e0 \cup High(e1)

make_intr_gate(function, dpl) == make_gate(function, dpl, 14)
make_trap_gate(function, dpl) == make_gate(function, dpl, 15)

\* The address of a vector's stub: some distance apart in the kernel's text.
intr_stubs(v) == {17, 30, 31} \cup Shl(Bits(v), 4)

NoHandler == "none"
intr_init == [v \in 0..(INTR_CNT - 1) |-> [gate |-> make_intr_gate(intr_stubs(v), 0),
                                           handler |-> NoHandler]]

\* A registration: vector, privilege level, interrupts on or off, handler.
Registration(v, dpl, on, handler) == [vec |-> v, dpl |-> dpl, on |-> on, handler |-> handler]
register_handler(idt, r) ==
  [idt EXCEPT ![r.vec] =
     [gate |-> IF r.on THEN make_trap_gate(intr_stubs(r.vec), r.dpl)
               ELSE make_intr_gate(intr_stubs(r.vec), r.dpl),
      handler |-> r.handler]]

intr_register_ext(v, handler) == Registration(v, 0, FALSE, handler)

exception_init ==
  {Registration(v, 3, TRUE, "kill") : v \in {3, 4, 5}}
    \cup {Registration(v, 0, TRUE, "kill") : v \in {0, 1, 6, 7, 11, 12, 13, 16, 19}}
    \cup {Registration(14, 0, FALSE, "page_fault")}
syscall_init == {Registration(48, 3, TRUE, "syscall_handler")}
DriverInits == {intr_register_ext(32, "timer_interrupt"),
                intr_register_ext(33, "keyboard_interrupt"),
                intr_register_ext(36, "serial_interrupt"),
                intr_register_ext(46, "interrupt_handler"),
                intr_register_ext(47, "interrupt_handler")}

\* The table after all the registrations of a startup.
Registrations == exception_init \cup syscall_init \cup DriverInits
BootIdt == FoldSet(LAMBDA r, idt : register_handler(idt, r), intr_init, Registrations)

----------------------------------------------------------------------------
(* The processor (external): how it reads the tables, and what it pushes *)

Field(d, lo, hi) == {i - lo : i \in d \cap lo..hi}
Level(d) == Field(d, 45, 46)                                       \* DPL
SegBase(d) == Field(d, 16, 39) \cup {i + 24 : i \in Field(d, 56, 63)}
SegLimit(d) == Field(d, 0, 15) \cup {i + 16 : i \in Field(d, 48, 51)}
GateOffset(d) == Field(d, 0, 15) \cup {i + 16 : i \in Field(d, 48, 63)}

\* The vector taken: an INT instruction needs the gate's level, or becomes a
\* general protection fault.
Taken(idt, v, cpl, software) ==
  IF software /\ cpl = 3 /\ Level(idt[v].gate) # Bits(3) THEN 13 ELSE v

\* Faults of these vectors come with an error code.
HasErrorCode == {8, 10, 11, 12, 13, 14, 17}
Pushed(v, cpl, software) ==
  (IF cpl = 3 THEN <<"ss", "esp">> ELSE <<>>) \o <<"eflags", "cs", "eip">>
    \o (IF v \in HasErrorCode /\ ~ software THEN <<"error_code">> ELSE <<>>)

----------------------------------------------------------------------------
(* threads/intr-stubs.S: the stack grows to the right *)

REAL == {8, 10, 11, 13, 14, 17, 24, 26, 27, 29, 30}

STUB(v, s) ==
  IF v \in REAL THEN [s EXCEPT ![Len(s)] = "ebp"] \o <<s[Len(s)], "vec_no">>
  ELSE s \o <<"ebp", "zero", "vec_no">>

intr_entry(s) ==
  s \o <<"ds", "es", "fs", "gs", "eax", "ecx", "edx", "ebx", "esp_dummy", "ebp", "esi", "edi">>

\* struct intr_frame, from the stack pointer up.
intr_frame == <<"edi", "esi", "ebp", "esp_dummy", "ebx", "edx", "ecx", "eax", "gs", "fs", "es",
                "ds", "vec_no", "error_code", "frame_pointer", "eip", "cs", "eflags", "esp", "ss">>
FieldOf(s, name) == s[Len(s) + 1 - (CHOOSE k \in DOMAIN intr_frame : intr_frame[k] = name)]

\* popal skips the stack pointer, three words are discarded, and iret takes
\* the stack too when it returns to user mode.
intr_exit(s, cpl) ==
  LET Popped(k) == s[Len(s) + 1 - k]
      regs == {k \in 1..(IF cpl = 3 THEN 20 ELSE 18) : k # 4 /\ k \notin 13..15}
  IN  [name \in {intr_frame[k] : k \in regs} |->
         Popped(CHOOSE k \in regs : intr_frame[k] = name)]

----------------------------------------------------------------------------
(* What the code promises *)

\* Every field of a descriptor is where the processor looks for it.
SegmentRight(base, limit, class, type, dpl, granularity) ==
  LET d == make_seg_desc(base, limit, class, type, dpl, granularity)
  IN  /\ SegBase(d) = base /\ SegLimit(d) = limit /\ Level(d) = Bits(dpl)
      /\ Field(d, 40, 43) = Bits(type) /\ Field(d, 44, 44) = Bits(class)
      /\ Field(d, 55, 55) = Bits(granularity) /\ 47 \in d /\ 54 \in d /\ d \cap 52..53 = {}

\* Each selector asks for the level of its segment, the segments of kernel and
\* user cover the same whole address space, and the TSS is where it is.
SelectorsRight(tss) ==
  LET gdt == gdt_init(tss)
      Segment(name) == gdt[SelIndex(Sel[name])]
  IN  /\ \A name \in DOMAIN Sel : Level(Segment(name)) = Bits(Sel[name] % 4)
      /\ \A name \in {"KCSEG", "KDSEG", "UCSEG", "UDSEG"} :
           SegBase(Segment(name)) = {} /\ SegLimit(Segment(name)) = 0..19
      /\ SegBase(Segment("TSS")) = tss
      /\ LET r == make_gdtr_operand(Bits(47), tss)
         IN  Field(r, 0, 15) = Bits(8 * Cardinality(DOMAIN gdt) - 1) /\ Field(r, 16, 47) = tss

\* User code enters the kernel by its own choice only through vectors 3, 4, 5
\* and 0x30; no vector is registered twice; every entry is into kernel code at
\* the vector's own stub, with interrupts on exactly for the registered
\* internal interrupts other than page faults.
GatesRight(v, cpl, software) ==
  LET idt == BootIdt
      t == Taken(idt, v, cpl, software)
      g == idt[t].gate
  IN  /\ Cardinality({r.vec : r \in Registrations}) = Cardinality(Registrations)
      /\ software /\ cpl = 3 => (t = v <=> v \in {3, 4, 5, 13, 48})
      /\ GateOffset(g) = intr_stubs(t) /\ Field(g, 16, 31) = Bits(Sel.KCSEG) /\ 47 \in g
      /\ Field(g, 40, 44) \in {Bits(14), Bits(15)}
      /\ Field(g, 40, 44) = Bits(15) <=> idt[t].handler \in {"kill", "syscall_handler"}
      /\ t \in 32..47 => Field(g, 40, 44) = Bits(14)

\* Whatever was interrupted, by any vector but that of a stack fault (12), the
\* handler finds struct intr_frame on the stack and intr_exit gives every
\* register back.  For vector 12 the stub pushes a zero although the processor
\* pushed an error code, and the frame is not the structure.
FrameRight(v, cpl) ==
  LET s == intr_entry(STUB(v, Pushed(v, cpl, FALSE)))
      kept == {"edi", "esi", "ebx", "edx", "ecx", "eax", "gs", "fs", "es", "ds", "vec_no",
               "eip", "cs", "eflags"} \cup (IF cpl = 3 THEN {"esp", "ss"} ELSE {})
  IN  v # 12 =>
        /\ \A name \in kept : FieldOf(s, name) = name
        /\ FieldOf(s, "frame_pointer") = "ebp" /\ FieldOf(s, "ebp") = "ebp"
        /\ FieldOf(s, "error_code") = (IF v \in HasErrorCode THEN "error_code" ELSE "zero")
        /\ LET r == intr_exit(s, cpl)
           IN  \A name \in DOMAIN r : r[name] = name
=============================================================================
