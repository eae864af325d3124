------------------------------- MODULE Library ------------------------------
(***************************************************************************)
(* The code without concurrency, behind one interface: a caller works on a *)
(* hash table or on linked lists, or calls one of the algorithms of the    *)
(* library, the drivers or the startup with some input.  The inputs are    *)
(* chosen here and the results compared with the references of the modules *)
(* below.                                                                  *)
(***************************************************************************)
EXTENDS Hash, Parse, Stdlib, InodeIO, Archive, Partition

CONSTANTS
  Inputs,                                            \* the calls of each function
  Elem, List, Null,                                  \* of KernelList
  CHAR_BITS, SHORT_BITS, INT_BITS, INTMAX_BITS, BufSize, PerLine, Kilo, AuxSize,    \* Stdio
  ELEM_BITS, StateSize, QueueRoom,                   \* BitArray, Strings, Keyboard
  COL_CNT, ROW_CNT, TabStop, CursorByte,             \* Screen
  PIT_HZ, PitLow, CountRange, TIMER_FREQ, Thousand, UintBits, FirstBit, RefineBits,  \* Clocks
  WordRange, KernelCap, OneMeg, RamCap, PerTable, BootTables, TableFrame, KernelFrame,
  PhysBase, INTR_CNT                                 \* Loader, Descriptors

VARIABLES
  table,     \* the hash table
  dict,      \* the map it should stand for
  agreed,    \* the last operation returned what the map says
  call,      \* the call in progress
  heap, key, op   \* the linked lists (KernelList)

lvars == <<table, dict, agreed, call>>
listvars == <<heap, key, op>>

Lists == INSTANCE KernelList
Format == INSTANCE Stdio
Str == INSTANCE Strings
Bitmap == INSTANCE BitArray
Kbd == INSTANCE Keyboard
Vga == INSTANCE Screen
Clock == INSTANCE Clocks
Boot == INSTANCE Loader
Kernel == INSTANCE Startup
Cpu == INSTANCE Descriptors

NoCall == [fn |-> "none"]
NoDict == [k \in {KeyOf(e) : e \in HashElem} |-> NULL]

LibraryInit ==
  /\ table = Empty(MIN_BUCKETS)
  /\ dict = NoDict
  /\ agreed = TRUE
  /\ call = NoCall
  /\ Lists!Init

\* One thing at a time: the lists are as they were at the start (with one of
\* the orders), or the table is empty and there is no call.
ListsIdle == heap = Lists!list_init /\ \A e \in Elem : key[e] = 0
OthersIdle == call = NoCall /\ dict = NoDict /\ table = Empty(MIN_BUCKETS)

ListStep == OthersIdle /\ Lists!Next /\ UNCHANGED lvars

\* One operation on the table, with the same operation on the map.
TableStep(r, k, value) ==
  /\ call = NoCall /\ ListsIdle
  /\ table' = r.h
  /\ agreed' = (r.ret = dict[k])
  /\ dict' = [dict EXCEPT ![k] = value]
  /\ UNCHANGED <<call, listvars>>

InsertStep(e, room) ==
  TableStep(hash_insert(table, e, room), KeyOf(e),
            IF dict[KeyOf(e)] = NULL THEN e ELSE dict[KeyOf(e)])

ReplaceStep(e, room) == TableStep(hash_replace(table, e, room), KeyOf(e), e)

DeleteStep(e, room) == TableStep(hash_delete(table, e, room), KeyOf(e), NULL)

ClearStep ==
  /\ call = NoCall /\ ListsIdle
  /\ table' = hash_clear(table).h
  /\ agreed' = TRUE
  /\ dict' = NoDict
  /\ UNCHANGED <<call, listvars>>

\* A function is chosen, then its input.
ChooseStep(fn) ==
  /\ OthersIdle /\ ListsIdle
  /\ call' = [fn |-> "choose", of |-> fn]
  /\ UNCHANGED <<table, dict, agreed, listvars>>

CallStep ==
  /\ call.fn = "choose"
  /\ call' \in Inputs[call.of]
  /\ UNCHANGED <<table, dict, agreed, listvars>>

ReturnStep ==
  /\ call.fn \notin {"none", "choose"}
  /\ call' = NoCall
  /\ UNCHANGED <<table, dict, agreed, listvars>>

LibraryNext ==
  \/ \E e \in HashElem, room \in BOOLEAN :
       InsertStep(e, room) \/ ReplaceStep(e, room) \/ DeleteStep(e, room)
  \/ ClearStep
  \/ \E fn \in DOMAIN Inputs : ChooseStep(fn)
  \/ CallStep
  \/ ReturnStep
  \/ ListStep

LibrarySpec == LibraryInit /\ [][LibraryNext]_<<lvars, listvars>>

----------------------------------------------------------------------------
\* The hash table of lib/kernel/hash.c is a map, through growing, shrinking
\* and failures to do so: lookups, returned elements, the element count and
\* the iteration agree with it after every sequence of operations.  The lists
\* of lib/kernel/list.c read the same backwards, share nothing, and their
\* searches find the earliest extreme.
ContainersCorrect == agreed /\ StandsFor(table, dict) /\ Lists!Inv

\* Every call of a function of lib/kernel/list.c does to the sequences what is
\* said of that function: in particular list_sort() is a stable sort,
\* list_unique() keeps the first of its equals, and list_insert_ordered() puts
\* its element after those that are not greater.
ImplementsListSpec == Lists!ImplementsListSpec

\* What inode_read_at, inode_write_at and the archive commands move is exactly
\* what was asked for, at every alignment, size and position at the end of a
\* sector, file or device, and a registered partition lies inside its device.
StorageExact ==
  /\ call.fn = "transfer" =>
       TransfersRight(call.sectors, call.length, call.buffer, call.offset)
  /\ call.fn = "archive" => CarriesFiles(call.files, call.size)
  /\ call.fn = "partitions" => PartitionsInside(call.pt, call.size)

\* Sorting, searching, division, number and command line parsing, string and
\* bitmap operations and formatted output agree with their references on every
\* small input whose result can be represented.
AlgorithmsExact ==
  /\ call.fn = "sort" => SortsAndFinds(call.a, 0..4)
  /\ call.fn = "divide" => DividesRight(call.n) /\ DividesSigned(Signed(call.n))
  /\ call.fn = "atoi" => ReadsInts(call.n)
  /\ call.fn = "move" => MovesRight(call.m)
  /\ call.fn = "tokenize" => TokenizesRight(call.s)
  /\ call.fn = "copy" => CopiesWithin(call.dst, call.src, call.size)
  /\ call.fn = "parse" => ParsesRight(call.line)
  /\ call.fn = "compare" => Str!ComparesRight(call.a, call.b)
  /\ call.fn = "find" => Str!SearchesRight(call.s, call.t)
  /\ call.fn = "random" => Str!GeneratorRight(call.seed, call.m, call.n)
  /\ call.fn = "bitmap" => Bitmap!BitsRight(call.n, call.ones, call.old)
  /\ call.fn = "integer" => \A c \in call.conversions, v \in call.values :
                              Format!IntegerRight(call.kind, v, c)
  /\ call.fn = "conversion" =>
       Format!ConversionRight(call.flags, call.width, call.precision, call.type, call.viaArgs)
  /\ call.fn = "output" => Format!OutputRight(call.s)
  /\ call.fn = "format" => Format!FormatRight(call.pieces, call.tail, LAMBDA p : call.args[p])
  /\ call.fn = "dump" => Format!DumpRight(call.ofs, call.bytes)
  /\ call.fn = "size" => Format!SizeRight(call.n)

\* The keyboard, display, clock and timer drivers: what is typed, shown, set
\* and measured is what the keys, the text, the frequency and the time between
\* two dates of a month say.
DevicesExact ==
  /\ call.fn = "keys" => Kbd!KeysRight(call.events)
  /\ call.fn = "screen" => Vga!ScreenRight(call.text, call.x, call.y)
  /\ call.fn = "date" => Clock!DateRight(call.y)
  /\ call.fn = "snapshot" => Clock!SnapshotRight(call.clock, call.at)
  /\ call.fn = "pit" => Clock!PitRight(call.f)
  /\ call.fn = "calibrate" => Clock!CalibrationRight(call.n)
  /\ call.fn = "sleep" => Clock!SleepRight(call.loops, call.num, call.denom)

\* The startup: the kernel that is loaded, the memory that is mapped, the
\* options, devices and actions of the command line, and the descriptors, gates
\* and stack frames the processor works with are the right ones, outside the
\* cases the references name.
StartupExact ==
  /\ call.fn = "load" => Boot!LoaderRight(call.drives)
  /\ call.fn = "bootmap" => Boot!BootMapRight(call.ax)
  /\ call.fn = "paging" => Boot!PagingRight(call.ram, call.text)
  /\ call.fn = "cmdline" => Kernel!CommandLineRight(call.area, call.argc)
  /\ call.fn = "startup" => Kernel!StartupRight(call.words, call.devs, call.fails)
  /\ call.fn = "segment" => \A type \in {2, 9, 10}, class, granularity \in {0, 1} :
       Cpu!SegmentRight(call.base, call.limit, class, type, call.dpl, granularity)
  /\ call.fn = "selectors" => Cpu!SelectorsRight(call.tss)
  /\ call.fn = "gate" => Cpu!GatesRight(call.vec, call.cpl, call.software)
  /\ call.fn = "frame" => Cpu!FrameRight(call.vec, call.cpl)
=============================================================================
