------------------------------- MODULE Screen -------------------------------
(***************************************************************************)
(* devices/vga.c: characters written to the text display.  FB is the frame *)
(* buffer by rows, without the attributes, which are always the same.      *)
(***************************************************************************)
EXTENDS Integers, Sequences, SequencesExt

CONSTANTS COL_CNT, ROW_CNT, TabStop, CursorByte     \* 80, 25, 8 and 256 in the code

clear_row == [x \in 0..(COL_CNT - 1) |-> " "]
cls == [cx |-> 0, cy |-> 0, fb |-> [y \in 0..(ROW_CNT - 1) |-> clear_row]]

newline(v) ==
  IF v.cy + 1 < ROW_CNT THEN [v EXCEPT !.cx = 0, !.cy = @ + 1]
  ELSE [cx |-> 0, cy |-> ROW_CNT - 1,
        fb |-> [y \in 0..(ROW_CNT - 1) |-> IF y = ROW_CNT - 1 THEN clear_row ELSE v.fb[y + 1]]]

Advance(v, x) == IF x >= COL_CNT THEN newline(v) ELSE [v EXCEPT !.cx = x]

vga_putc(v, c) ==
  CASE c = "\n" -> newline(v)
    [] c = "\f" -> cls
    [] c = "\r" -> [v EXCEPT !.cx = 0]
    [] c = "\t" -> Advance(v, ((v.cx + TabStop) \div TabStop) * TabStop)
    [] c = "bs" -> [v EXCEPT !.cx = IF @ > 0 THEN @ - 1 ELSE 0]      \* '\b'
    [] c = "bell" -> v                                              \* '\a'
    [] OTHER -> Advance([v EXCEPT !.fb[v.cy][v.cx] = c], v.cx + 1)

\* The hardware cursor is a pair of registers of one byte.
move_cursor(v) == LET cp == v.cx + COL_CNT * v.cy
                  IN  [high |-> (cp \div CursorByte) % CursorByte, low |-> cp % CursorByte]
find_cursor(reg) == LET cp == reg.high * CursorByte + reg.low
                    IN  [x |-> cp % COL_CNT, y |-> cp \div COL_CNT]

\* The first character goes where the BIOS left the cursor.
vga_init(reg) == [cls EXCEPT !.cx = find_cursor(reg).x, !.cy = find_cursor(reg).y]

Display(text, reg) == FoldLeft(vga_putc, vga_init(reg), text)

----------------------------------------------------------------------------
(* The reference: the same text on paper that never ends *)

Mark(p, x, y) == [p EXCEPT !.x = IF x >= COL_CNT THEN 0 ELSE x,
                           !.y = IF x >= COL_CNT THEN y + 1 ELSE y]

OnPaper(p, c) ==
  CASE c = "\n" -> Mark(p, COL_CNT, p.y)
    [] c = "\f" -> [x |-> 0, y |-> 0, ink |-> {}]
    [] c = "\r" -> Mark(p, 0, p.y)
    [] c = "\t" -> LET stops == {x \in (p.x + 1)..(p.x + TabStop) : x % TabStop = 0}
                   IN  Mark(p, CHOOSE x \in stops : TRUE, p.y)
    [] c = "bs" -> Mark(p, IF p.x = 0 THEN 0 ELSE p.x - 1, p.y)
    [] c = "bell" -> p
    [] OTHER -> LET free == {i \in p.ink : <<i[1], i[2]>> # <<p.x, p.y>>}
                IN  Mark([p EXCEPT !.ink = free \cup {<<p.x, p.y, c>>}], p.x + 1, p.y)

Paper(text, x, y) == FoldLeft(OnPaper, [x |-> x, y |-> y, ink |-> {}], text)

\* The screen shows the last ROW_CNT rows of the paper, down to the cursor's
\* row once it has scrolled, blank where nothing was written; the cursor is
\* always on the screen and the hardware cursor gives it back.
ScreenRight(text, x0, y0) ==
  LET v == Display(text, move_cursor([cx |-> x0, cy |-> y0]))
      p == Paper(text, x0, y0)
      top == IF p.y < ROW_CNT THEN 0 ELSE p.y - ROW_CNT + 1
  IN  /\ v.cx = p.x /\ v.cy = p.y - top
      /\ v.cx \in 0..(COL_CNT - 1) /\ v.cy \in 0..(ROW_CNT - 1)
      /\ \A x \in 0..(COL_CNT - 1), y \in 0..(ROW_CNT - 1) :
           {v.fb[y][x]} = LET there == {i[3] : i \in {k \in p.ink : k[1] = x /\ k[2] = y + top}}
                          IN  IF there = {} THEN {" "} ELSE there
      /\ find_cursor(move_cursor(v)) = [x |-> v.cx, y |-> v.cy]
=============================================================================
