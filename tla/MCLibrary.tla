------------------------------ MODULE MCLibrary -----------------------------
(* Words of 4 bits, sectors of 3 bytes, a table that grows from one bucket. *)
EXTENDS Library, TLC

Elements == {<<k, 1>> : k \in 1..4} \cup {<<1, 2>>}
KeyNumber(e) == e[1]
HashKey(k) == k \div 2 + k

SeqUpTo(S, n) == UNION {[1..m -> S] : m \in 0..n}

Sorts == {[fn |-> "sort", a |-> a] : a \in SeqUpTo(1..3, 6)}
Divides == {[fn |-> "divide", n |-> n] : n \in 0..255}
Atois == {[fn |-> "atoi", n |-> n] : n \in -8..7}
Moves == {[fn |-> "move", m |-> <<1, 2, 3, 4, 5>>]}
Tokenizes == {[fn |-> "tokenize", s |-> s] : s \in SeqUpTo({1, 2, 3}, 5)}
Copies == {[fn |-> "copy", dst |-> d, src |-> s, size |-> n] :
             d \in SeqUpTo({2}, 3), s \in SeqUpTo({3, 4}, 3), n \in 0..7}
Lines == {[fn |-> "parse", line |-> t] : t \in SeqUpTo(Special \cup Word, 5)}

Old == <<11, 12, 13, 14, 15, 16, 17, 18, 19>>
Stored == [i \in 1..3 |-> SubSeq(Old, 3 * i - 2, 3 * i)]
Transfers ==
  {[fn |-> "transfer", sectors |-> Stored, length |-> l, offset |-> o,
    buffer |-> [i \in 1..n |-> 20 + i]] : l \in 7..9, o \in 0..10, n \in 0..9}

NameChars == {".", "/", "a"}
FileA == [name |-> <<"a">>, bytes |-> <<1, 2, 3>>]
Files == {[name |-> n, bytes |-> SubSeq(<<1, 0, 2, 3>>, 1, k)] :
            n \in SeqUpTo(NameChars, 4), k \in {0, 2, 3, 4}}
Archives == {[fn |-> "archive", files |-> <<FileA, f>>, size |-> s] : f \in Files, s \in {5, 7}}

Entries == {[type |-> t, offset |-> o, size |-> n] :
              t \in {"empty", "filesys", "extended"}, o \in {0, 1, 5, 14}, n \in {0, 2, 3, 15}}
Partitions == {[fn |-> "partitions", size |-> 8,
                pt |-> [signature |-> s, partitions |-> <<a, b>>]] :
                  a, b \in Entries, s \in BOOLEAN}

\* lib/string.c, lib/random.c, lib/kernel/bitmap.c
Compares == {[fn |-> "compare", a |-> a, b |-> b] : a, b \in SeqUpTo({1, 2}, 3)}
Finds == {[fn |-> "find", s |-> s, t |-> t] : s \in SeqUpTo({1, 2, 3}, 4), t \in SeqUpTo({1, 2}, 2)}
Randoms == {[fn |-> "random", seed |-> <<a, b>>, m |-> m, n |-> n] :
              a, b \in 0..3, m \in {0, 3, 5}, n \in {0, 2}}
Bitmaps == UNION {{[fn |-> "bitmap", n |-> n, ones |-> o, old |-> old] :
                     o \in SUBSET (0..(n - 1)), old \in {{}, {0, 1}}} : n \in 0..5}

\* lib/stdio.c, lib/user/console.c
Conversions(f) == {[flags |-> f, width |-> w, precision |-> p, type |-> t] :
                     w \in {0, 1, 6}, p \in {-1, 0, 3, 9}, t \in {"CHAR", "INTMAX"}}
Integer == {[fn |-> "integer", kind |-> k, conversions |-> Conversions(f),
             values |-> {0, 1, -1, 8, -10, 128, -200}] :
               f \in SUBSET Format!FlagChar, k \in {"d", "o", "x", "X"}}
Conversion == {[fn |-> "conversion", flags |-> f, width |-> w, precision |-> p, type |-> t,
                viaArgs |-> a] :
                 f \in SeqUpTo(Format!FlagChar, 2), w \in {-1, 2}, p \in -1..1, a \in BOOLEAN,
                 t \in {<<>>, <<"h">>, <<"h", "h">>, <<"l", "l">>, <<"z">>}}
Outputs == {[fn |-> "output", s |-> s] : s \in SeqUpTo({"a", "b"}, 5)}
ArgsOf == (<<"a">> :> <<>>) @@ (<<"%", "%">> :> <<>>) @@ (<<"%", "d">> :> <<7>>)
          @@ (<<"%", "4", "d">> :> <<-3>>) @@ (<<"%", "-", "s">> :> <<<<"b", "c">>>>)
          @@ (<<"%", "q">> :> <<>>) @@ (<<"%", ".", "1", "s">> :> <<<<"b", "c">>>>)
Formats == {[fn |-> "format", pieces |-> p, tail |-> t, args |-> ArgsOf] :
              p \in SeqUpTo(DOMAIN ArgsOf, 3),
              t \in {<<>>, <<"%">>, <<"%", "5">>, <<"%", "-", "3", ".">>}}
Dumps == {[fn |-> "dump", ofs |-> o, bytes |-> [i \in 1..n |-> i]] : o \in 0..9, n \in 0..9}
Sizes == {[fn |-> "size", n |-> n] : n \in 0..100}

\* The drivers
Event == {<<k, FALSE>> : k \in Kbd!Key}
         \cup {<<k, TRUE>> : k \in {"A", "LSHIFT", "RSHIFT", "LCTRL", "LALT", "CAPS"}}
Keys == {[fn |-> "keys", events |-> e \o t] :
           e \in SeqUpTo(Event, 2),
           t \in {<<>>, <<<<"A", FALSE>>, <<"Num2", FALSE>>, <<"A", FALSE>>>>}
                 \cup {<<<<s, FALSE>>, <<k, FALSE>>>> : s \in {"LSHIFT", "RCTRL", "RALT", "CAPS"},
                                                      k \in {"A", "Bracket", "DEL"}}}
Screens == {[fn |-> "screen", text |-> t, x |-> 2, y |-> 1] :
              t \in SeqUpTo({"a", "b", "\n", "\t", "\f", "\r", "bs", "bell"}, 3)}
           \cup {[fn |-> "screen", text |-> t, x |-> 0, y |-> 0] :
                   t \in SeqUpTo({"a", "\n", "bs"}, 6)}
Dates == {[fn |-> "date", y |-> y] : y \in 1970..2069}
Ticking == [k \in 0..6 |-> [sec |-> k % 3, min |-> (k \div 3) % 2, hour |-> k \div 6,
                            mday |-> 1, mon |-> 1, year |-> 0]]
Snapshots == {[fn |-> "snapshot", clock |-> Ticking, at |-> at] :
                at \in {f \in [1..7 -> 0..6] : /\ \A i \in 1..6 : f[i] <= f[i + 1]
                                               /\ f[7] - f[1] < 3}}
Pits == {[fn |-> "pit", f |-> f] : f \in 0..160}
Calibrations == {[fn |-> "calibrate", n |-> n] : n \in 0..600}
Sleeps == {[fn |-> "sleep", loops |-> l, num |-> n, denom |-> d] :
             l \in {1, 3, 16, 37}, n \in -3..40, d \in {4, 16, 64}}

\* The startup
Entry == {[used |-> TRUE, kernel |-> TRUE, active |-> TRUE, first |-> f, size |-> n] :
            f \in {1, 6, 9}, n \in {0, 1, 3, 7}}
         \cup {[used |-> u, kernel |-> k, active |-> FALSE, first |-> 0, size |-> 0] :
                 u, k \in BOOLEAN}
Drive == {[size |-> n, sig |-> s, parts |-> p] :
            n \in {0, 12, 20}, s \in {"equal", "below", "above"},
            p \in {<<a>> : a \in Entry}
                  \cup {<<[used |-> TRUE, kernel |-> TRUE, active |-> FALSE, first |-> 0,
                           size |-> 0], a>> : a \in Entry}}
OtherDrive == {d \in Drive : /\ d.size \in {0, 12} /\ Len(d.parts) = 1
                             /\ d.parts[1].first \in {0, 1} /\ d.parts[1].size \in {0, 3}}
Loads == {[fn |-> "load", drives |-> <<d>>] : d \in Drive}
         \cup {[fn |-> "load", drives |-> <<d, e>>] : d, e \in OtherDrive}
BootMaps == {[fn |-> "bootmap", ax |-> n] : n \in 0..40}
Pagings == {[fn |-> "paging", ram |-> r, text |-> t] : r \in 1..9, t \in {{}, 1..1, 2..4, 1..6}}
CommandLines == {[fn |-> "cmdline", area |-> a, argc |-> n] : a \in [1..6 -> 0..1], n \in 0..7}

WordOf(n, v) == [dash |-> n \notin {"run", "ls", "extract", "zz"}, name |-> n, value |-> v]
Option == {WordOf(n, "null") : n \in {"-h", "-q", "-r", "-f", "-filesys", "-rs", "-mlfqs", "-z"}}
          \cup {WordOf(n, "hdb") : n \in {"-filesys", "-scratch", "-ul", "-rs"}}
Action == {WordOf(n, "null") : n \in {"run", "ls", "extract", "zz"}}
Hda == Kernel!block_register(<<>>, "hda", "filesys")
HdaHdb == Kernel!block_register(Hda, "hdb", "scratch")
HdcHda == Kernel!block_register(Kernel!block_register(<<>>, "hdc", "filesys"), "hda", "filesys")
Startups ==
  {[fn |-> "startup", words |-> w, devs |-> d, fails |-> {}] :
     w \in SeqUpTo(Option \cup {WordOf("ls", "null")}, 2)
           \cup {<<a, b, WordOf("-h", "null")>> : a, b \in Option}, d \in {Hda, HdaHdb}}
  \cup {[fn |-> "startup", words |-> w, devs |-> Hda, fails |-> f] :
          w \in SeqUpTo(Action \cup {WordOf("-q", "null")}, 4), f \in {{}, {3}}}
  \cup {[fn |-> "startup", words |-> w, devs |-> d, fails |-> {}] :
          w \in SeqUpTo({WordOf("-filesys", "hda"), WordOf("-scratch", "hdb"),
                         WordOf("-filesys", "null"), WordOf("extract", "null")}, 3),
          d \in {<<>>, Hda, HdaHdb, HdcHda}}

Address == {{}, 0..31} \cup {{i} : i \in 0..31}
Segments == {[fn |-> "segment", base |-> b, limit |-> l, dpl |-> n] :
               b \in Address, l \in {{}, 0..19, {15}, {16}}, n \in {0, 3}}
Selectors == {[fn |-> "selectors", tss |-> t] : t \in Address}
Gates == {[fn |-> "gate", vec |-> v, cpl |-> c, software |-> s] :
            v \in 0..63, c \in {0, 3}, s \in BOOLEAN}
\* Not the vectors whose stubs expect an error code that no processor sends.
Frames == {[fn |-> "frame", vec |-> v, cpl |-> c] : v \in (0..23) \cup (31..63), c \in {0, 3}}

AllInputs ==
  [sort |-> Sorts, divide |-> Divides, atoi |-> Atois, move |-> Moves, tokenize |-> Tokenizes,
   copy |-> Copies, parse |-> Lines, transfer |-> Transfers, archive |-> Archives,
   partitions |-> Partitions, compare |-> Compares, find |-> Finds, random |-> Randoms,
   bitmap |-> Bitmaps, integer |-> Integer, conversion |-> Conversion, output |-> Outputs,
   format |-> Formats, dump |-> Dumps, size |-> Sizes, keys |-> Keys, screen |-> Screens,
   date |-> Dates, snapshot |-> Snapshots, pit |-> Pits, calibrate |-> Calibrations,
   sleep |-> Sleeps, load |-> Loads, bootmap |-> BootMaps, paging |-> Pagings,
   cmdline |-> CommandLines, startup |-> Startups, segment |-> Segments,
   selectors |-> Selectors, gate |-> Gates, frame |-> Frames]

\* The elements and the lists are interchangeable; the pointers left in elements
\* that are on no list, and the last call, are never read.
Symmetry == Permutations(Elem) \cup Permutations(List)
Seen == <<[l \in List |-> Lists!Forward(l)], [l \in List |-> Lists!Backward(l)], key, lvars>>
=============================================================================
