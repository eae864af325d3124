------------------------------ MODULE Startup -------------------------------
(***************************************************************************)
(* main() of threads/init.c as one function of the kernel command line and *)
(* the block devices: the words, the options, the devices for each role    *)
(* (with the registry of devices/block.c) and the actions.  A word is a    *)
(* record: the part up to "=" is its name, the rest its value, DASH says   *)
(* whether it starts with "-".  The outcome is "ok", "panic" or "off".     *)
(***************************************************************************)
EXTENDS Integers, Sequences, FiniteSets, SequencesExt

NoValue == "null"

----------------------------------------------------------------------------
(* read_command_line: AREA holds the bytes of the boot sector's arguments   *)

WordEnd(area, p) ==
  CHOOSE e \in p..Len(area) : /\ e = Len(area) \/ area[e + 1] = 0
                              /\ \A i \in p..(e - 1) : area[i + 1] # 0

RECURSIVE read_words(_, _, _)
read_words(area, argc, p) ==
  IF argc = 0 THEN [outcome |-> "ok", argv |-> <<>>]
  ELSE IF p >= Len(area) THEN [outcome |-> "panic", argv |-> <<>>]
  ELSE LET rest == read_words(area, argc - 1, WordEnd(area, p) + 1)
       IN  [rest EXCEPT !.argv = <<SubSeq(area, p + 1, WordEnd(area, p))>> \o @]

read_command_line(area, argc) == read_words(area, argc, 0)

----------------------------------------------------------------------------
(* parse_options *)

Defaults == [outcome |-> "ok", how |-> "none", format |-> FALSE, filesys |-> NoValue,
             scratch |-> NoValue, seed |-> "none", mlfqs |-> FALSE, limit |-> "none"]

\* atoi asserts that its argument is not null.
Number(o, w) == IF w.value = NoValue THEN [o EXCEPT !.outcome = "panic"] ELSE o

Option(o, w) ==
  CASE w.name = "-h" -> [o EXCEPT !.outcome = "off"]
    [] w.name = "-q" -> [o EXCEPT !.how = "power off"]
    [] w.name = "-r" -> [o EXCEPT !.how = "reboot"]
    [] w.name = "-f" -> [o EXCEPT !.format = TRUE]
    [] w.name = "-filesys" -> [o EXCEPT !.filesys = w.value]
    [] w.name = "-scratch" -> [o EXCEPT !.scratch = w.value]
    [] w.name = "-rs" -> [Number(o, w) EXCEPT !.seed = w.value]
    [] w.name = "-mlfqs" -> [o EXCEPT !.mlfqs = TRUE]
    [] w.name = "-ul" -> [Number(o, w) EXCEPT !.limit = w.value]
    [] OTHER -> [o EXCEPT !.outcome = "panic"]

\* The options from word I on, and the first word that is none.
RECURSIVE parse_options(_, _, _)
parse_options(words, i, o) ==
  IF o.outcome # "ok" THEN [opts |-> o, next |-> i]
  ELSE IF i > Len(words) \/ ~ words[i].dash THEN [opts |-> [o EXCEPT !.seed = "rtc"], next |-> i]
  ELSE parse_options(words, i + 1, Option(o, words[i]))

----------------------------------------------------------------------------
(* The devices, in the order they were registered *)

NoBlock == [name |-> "none", type |-> "none"]
FirstOf(devs) == IF devs = <<>> THEN NoBlock ELSE Head(devs)

block_register(devs, name, type) == Append(devs, [name |-> name, type |-> type])
block_get_by_name(devs, name) == FirstOf(SelectSeq(devs, LAMBDA b : b.name = name))
block_first_of(devs, type) == FirstOf(SelectSeq(devs, LAMBDA b : b.type = type))

\* Mutant: a device that is not there is looked for by its role.
Mut_locate_block_device(devs, role, name) ==
  LET b == block_get_by_name(devs, name)
  IN  IF b = NoBlock THEN [outcome |-> "ok", block |-> block_first_of(devs, role)]
      ELSE [outcome |-> "ok", block |-> b]

locate_block_device(devs, role, name) ==
  IF name = NoValue THEN [outcome |-> "ok", block |-> block_first_of(devs, role)]
  ELSE LET b == block_get_by_name(devs, name)
       IN  [outcome |-> IF b = NoBlock THEN "panic" ELSE "ok", block |-> b]

\* The roles block_set_role assigns, and filesys_init's panic without one.
locate_block_devices(devs, o) ==
  LET f == locate_block_device(devs, "filesys", o.filesys)
      s == locate_block_device(devs, "scratch", o.scratch)
  IN  [outcome |-> IF "panic" \in {f.outcome, s.outcome} \/ f.block = NoBlock
                   THEN "panic" ELSE "ok",
       filesys |-> f.block, scratch |-> s.block]

----------------------------------------------------------------------------
(* run_actions.  FAILS are the positions of the actions that panic for      *)
(* reasons of their own (no such file, device full).                        *)

actions == [run |-> 2, ls |-> 1, cat |-> 2, rm |-> 2, extract |-> 1, append |-> 2]

ActionPanics(words, i, scratch, fails) ==
  i \in fails \/ (words[i].name \in {"extract", "append"} /\ scratch = NoBlock)

RECURSIVE run_actions(_, _, _, _)
run_actions(words, i, scratch, fails) ==
  IF i > Len(words) THEN [outcome |-> "ok", done |-> <<>>]
  ELSE LET a == words[i].name
       IN  IF \/ words[i].value # NoValue \/ a \notin DOMAIN actions
              \/ i + actions[a] - 1 > Len(words) \/ ActionPanics(words, i, scratch, fails)
           THEN [outcome |-> "panic", done |-> <<>>]
           ELSE LET rest == run_actions(words, i + actions[a], scratch, fails)
                IN  [rest EXCEPT !.done = <<i>> \o @]

\* main() once the options P are parsed and the devices L located.
Started(p, l, words, fails) ==
  LET r == IF p.opts.outcome = "ok" /\ l.outcome = "ok"
           THEN run_actions(words, p.next, l.scratch, fails)
           ELSE [outcome |-> IF p.opts.outcome = "ok" THEN "panic" ELSE p.opts.outcome,
                 done |-> <<>>]
  IN  [outcome |-> r.outcome, opts |-> p.opts, roles |-> l, done |-> r.done]

main(words, devs, fails) ==
  LET p == parse_options(words, 1, Defaults)
  IN  Started(p, locate_block_devices(devs, p.opts), words, fails)

----------------------------------------------------------------------------
(* What the code promises *)

\* The words the pintos script wrote into the area come out again and fit the
\* array for them; a count larger than the words that begin in the area is a
\* panic, and nothing else is.
CommandLineRight(area, argc) ==
  LET r == read_command_line(area, argc)
      begins == {0} \cup {i \in 1..(Len(area) - 1) : area[i] = 0}
  IN  /\ r.outcome = "panic" <=> argc > Cardinality(begins)
      /\ r.outcome = "ok" =>
           /\ Len(r.argv) = argc
           /\ \A i \in 1..argc : \A c \in DOMAIN r.argv[i] : r.argv[i][c] # 0
           /\ IsPrefix(FlattenSeq([i \in 1..argc |-> r.argv[i] \o <<0>>]), area \o <<0>>)
           /\ (\A i \in 1..argc : r.argv[i] # <<>>) => 2 * argc <= Len(area) + 1

\* The options are the leading words with a dash; the last of each kind
\* counts.  A startup ends at the first unknown option or missing number, or
\* at -h; otherwise, if the named devices exist and there is a file system,
\* the actions run in order, each after all words of the one before, until
\* the first that is unknown, incomplete or fails.  Without -rs the seed is that
\* of the clock.
StartedRight(m, words, devs, fails) ==
  LET opt == {i \in DOMAIN words : \A j \in 1..i : words[j].dash}
      Known == {"-h", "-q", "-r", "-f", "-filesys", "-scratch", "-rs", "-mlfqs", "-ul"}
      bad == {i \in opt : \/ words[i].name \notin Known
                          \/ words[i].name \in {"-rs", "-ul"} /\ words[i].value = NoValue}
      help == {i \in opt : words[i].name = "-h"}
      LastOf(names) == {i \in opt : /\ words[i].name \in names
                                    /\ \A j \in opt : words[j].name \in names => j <= i}
      Wanted(name) == IF LastOf({name}) = {} THEN NoValue
                      ELSE words[CHOOSE i \in LastOf({name}) : TRUE].value
      Chosen(role, name, b) ==
        IF name = NoValue
        THEN \/ b = NoBlock /\ \A i \in DOMAIN devs : devs[i].type # role
             \/ \E i \in DOMAIN devs : /\ b = devs[i] /\ b.type = role
                                       /\ \A j \in 1..(i - 1) : devs[j].type # role
        ELSE \E i \in DOMAIN devs : devs[i] = b /\ b.name = name
      Exists(name) == name = NoValue \/ \E i \in DOMAIN devs : devs[i].name = name
      Complete(i) == /\ i \in DOMAIN words /\ words[i].value = NoValue
                     /\ words[i].name \in DOMAIN actions
                     /\ i + actions[words[i].name] - 1 <= Len(words)
      first == Cardinality(opt) + 1
      After(k) == IF k = 0 THEN first ELSE m.done[k] + actions[words[m.done[k]].name]
  IN  /\ m.outcome = "off" <=> \E h \in help : \A b \in bad : h < b
      /\ bad \cup help # {} => m.outcome # "ok" /\ m.done = <<>>
      /\ bad \cup help = {} =>
           /\ LastOf({"-rs"}) = {} => m.opts.seed = "rtc"
           /\ m.opts.limit = (IF LastOf({"-ul"}) = {} THEN "none" ELSE Wanted("-ul"))
           /\ m.opts.how = (IF LastOf({"-q", "-r"}) = {} THEN "none"
                            ELSE IF LastOf({"-q", "-r"}) = LastOf({"-q"}) THEN "power off"
                            ELSE "reboot")
           /\ m.roles.outcome = "ok" <=>
                /\ Exists(Wanted("-filesys")) /\ Exists(Wanted("-scratch"))
                /\ Wanted("-filesys") = NoValue => \E i \in DOMAIN devs : devs[i].type = "filesys"
           /\ m.roles.outcome = "panic" => m.outcome = "panic" /\ m.done = <<>>
           /\ m.roles.outcome = "ok" =>
                /\ m.roles.filesys # NoBlock
                /\ Chosen("filesys", Wanted("-filesys"), m.roles.filesys)
                /\ Chosen("scratch", Wanted("-scratch"), m.roles.scratch)
                /\ \A k \in DOMAIN m.done : /\ m.done[k] = After(k - 1)
                                            /\ Complete(m.done[k]) /\ m.done[k] \notin fails
                /\ m.outcome = "ok" <=> After(Len(m.done)) = Len(words) + 1
                /\ m.outcome = "panic" =>
                     LET i == After(Len(m.done))
                     IN  \/ ~ Complete(i) \/ i \in fails
                         \/ words[i].name \in {"extract", "append"} /\ m.roles.scratch = NoBlock

\* main() starts the system that way.
StartupRight(words, devs, fails) == StartedRight(main(words, devs, fails), words, devs, fails)
=============================================================================
