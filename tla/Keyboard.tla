------------------------------ MODULE Keyboard ------------------------------
(***************************************************************************)
(* devices/kbd.c: keyboard_interrupt turns scan codes into characters.     *)
(* The state is the one the driver keeps between interrupts; IN is what it *)
(* put into the input queue (devices/input.c), which holds QueueRoom more. *)
(*                                                                         *)
(* Keys stand for the rows of the driver's tables: one letter, one key of  *)
(* the shifted and unshifted tables inside and one outside the range that  *)
(* Ctrl changes, Delete, Caps Lock, an unknown key and the six shift keys. *)
(* A prefixed key (0xe0) is read with its second byte in one interrupt.    *)
(***************************************************************************)
EXTENDS Integers, Sequences, FiniteSets, SequencesExt

CONSTANT QueueRoom

\* code -> character, as in invariant_keymap, unshifted_keymap, shifted_keymap
invariant_keymap == [A |-> 65, DEL |-> 127]
unshifted_keymap == [Num2 |-> 50, Bracket |-> 91]     \* 2 and [
shifted_keymap == [Num2 |-> 64, Bracket |-> 123]      \* @ and {
ShiftKey == {"LSHIFT", "RSHIFT", "LALT", "RALT", "LCTRL", "RCTRL"}
Key == {"A", "DEL", "Num2", "Bracket", "CAPS", "OTHER"} \cup ShiftKey

map_key(keymap, code) == code \in DOMAIN keymap

tolower(c) == IF c \in 65..90 THEN c + 32 ELSE c

KbdInit == [down |-> {}, caps_lock |-> FALSE, key_cnt |-> 0, in |-> <<>>, reboot |-> FALSE]

\* Mutant: Caps Lock alone decides the case.
Mut_Shown(c, shift, alt, ctrl, caps_lock) ==
  (IF ctrl /\ c \in 64..95 THEN c - 64 ELSE IF ~ caps_lock THEN tolower(c) ELSE c)
    + (IF alt THEN 128 ELSE 0)

\* Ctrl, Shift with Caps Lock, and Alt applied to the character.
Shown(c, shift, alt, ctrl, caps_lock) ==
  (IF ctrl /\ c \in 64..95 THEN c - 64 ELSE IF shift = caps_lock THEN tolower(c) ELSE c)
    + (IF alt THEN 128 ELSE 0)

keyboard_interrupt(k, code, release) ==
  LET shift == k.down \cap {"LSHIFT", "RSHIFT"} # {}
      alt == k.down \cap {"LALT", "RALT"} # {}
      ctrl == k.down \cap {"LCTRL", "RCTRL"} # {}
      keymap == IF map_key(invariant_keymap, code) THEN invariant_keymap
                ELSE IF shift THEN shifted_keymap ELSE unshifted_keymap
      c == keymap[code]
  IN  IF code = "CAPS" THEN [k EXCEPT !.caps_lock = IF release THEN @ ELSE ~ @]
      ELSE IF map_key(keymap, code)
      THEN IF release THEN k
           ELSE IF c = 127 /\ ctrl /\ alt THEN [k EXCEPT !.reboot = TRUE]  \* never returns
           ELSE IF Len(k.in) >= QueueRoom THEN k
           ELSE [k EXCEPT !.key_cnt = @ + 1,
                          !.in = Append(@, Shown(c, shift, alt, ctrl, k.caps_lock))]
      ELSE IF code \notin ShiftKey THEN k
      ELSE [k EXCEPT !.down = IF release THEN @ \ {code} ELSE @ \cup {code}]

\* The interrupts for a sequence of <<code, release>>, up to a reboot.
Typed(events) ==
  FoldLeft(LAMBDA k, e : IF k.reboot THEN k ELSE keyboard_interrupt(k, e[1], e[2]), KbdInit, events)

----------------------------------------------------------------------------
(* What the driver promises, in terms of the keys held *)

\* The keys held, and the Caps Lock presses, before event I.
Held(events, i) ==
  {key \in Key : \E j \in 1..(i - 1) : /\ events[j] = <<key, FALSE>>
                                       /\ \A m \in j..(i - 1) : events[m] # <<key, TRUE>>}
CapsOn(events, i) == Cardinality({j \in 1..(i - 1) : events[j] = <<"CAPS", FALSE>>}) % 2 = 1
AnyOf(events, i, keys) == Held(events, i) \cap keys # {}

\* The character a typist expects from event I.
Expected(events, i) ==
  LET key == events[i][1]
      shift == AnyOf(events, i, {"LSHIFT", "RSHIFT"})
      ctrl == AnyOf(events, i, {"LCTRL", "RCTRL"})
      plain == CASE key = "A" -> IF ctrl THEN 1 ELSE IF shift # CapsOn(events, i) THEN 65 ELSE 97
                 [] key = "Num2" -> IF ~ shift THEN 50 ELSE IF ctrl THEN 0 ELSE 64
                 [] key = "Bracket" -> IF shift THEN 123 ELSE IF ctrl THEN 27 ELSE 91
                 [] key = "DEL" -> 127
  IN  plain + (IF AnyOf(events, i, {"LALT", "RALT"}) THEN 128 ELSE 0)

\* After any sequence of presses and releases the shift state is that of the
\* keys still held, the queue holds the expected characters in order, as many
\* as it has room for, and the machine has rebooted exactly if Ctrl, Alt and
\* Delete were down together.
KeysRight(events) ==
  LET k == Typed(events)
      boots == {i \in DOMAIN events : /\ events[i] = <<"DEL", FALSE>>
                                      /\ AnyOf(events, i, {"LCTRL", "RCTRL"})
                                      /\ AnyOf(events, i, {"LALT", "RALT"})}
      chars == SelectSeq([i \in DOMAIN events |-> i],
                         LAMBDA i : /\ events[i][1] \in {"A", "DEL", "Num2", "Bracket"}
                                    /\ ~ events[i][2])
  IN  /\ k.reboot <=> boots # {}
      /\ boots = {} =>
           /\ k.down = Held(events, Len(events) + 1) \cap ShiftKey
           /\ k.caps_lock = CapsOn(events, Len(events) + 1)
           /\ k.key_cnt = Len(k.in)
           /\ k.in = [n \in 1..(IF Len(chars) < QueueRoom THEN Len(chars) ELSE QueueRoom)
                        |-> Expected(events, chars[n])]
=============================================================================
