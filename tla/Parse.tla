-------------------------------- MODULE Parse -------------------------------
(***************************************************************************)
(* The command line parser of OS-lab1, code/parse.c.                       *)
(*                                                                         *)
(* A line is a sequence of tokens as nexttoken cuts them: the four special *)
(* characters, and words, of which "name" has only the characters that     *)
(* isidentifier accepts and "*" has another.  At the end of the line       *)
(* nexttoken returns 0 and leaves its argument pointing at whatever the    *)
(* token buffer holds there: Stale, an empty string or the rest of an      *)
(* earlier line, which is a legal file name or not.  The buffers' sizes    *)
(* (20 programs, 50 words, 256 characters) are not modelled.               *)
(***************************************************************************)
EXTENDS Integers, Sequences, FiniteSets

Special == {"|", "&", "<", ">"}
Word == {"name", "*"}
isspec(tok) == tok \in Special
isidentifier(w) == w # "*"
Stale == "stale"

Tail2(t) == SubSeq(t, 3, Len(t))
Error == [ret |-> -1]

\* acmd: the words up to a special token or the end.
acmd(t) ==
  LET ends == {i \in DOMAIN t : isspec(t[i])}
  IN  IF ends = {} THEN t
      ELSE SubSeq(t, 1, (CHOOSE i \in ends : \A j \in ends : i <= j) - 1)

NoCommand == [rstdin |-> "", rstdout |-> "", background |-> FALSE, pgm |-> <<>>]

RECURSIVE newcmd(_, _, _), newtoken(_, _, _)

newcmd(t, c, legal) ==
  LET words == acmd(t)
  IN  IF words = <<>> THEN Error
      ELSE newtoken(SubSeq(t, Len(words) + 1, Len(t)),
                    [c EXCEPT !.pgm = <<words>> \o c.pgm], legal)

\* LEGAL says whether what the token buffer holds is a legal file name.
newtoken(t, c, legal) ==
  LET file == IF Len(t) > 1 THEN t[2] ELSE Stale
      ok == IF Len(t) > 1 THEN isidentifier(t[2]) /\ ~isspec(t[2]) ELSE legal
  IN  IF t = <<>> THEN [ret |-> 1, cmd |-> c]
      ELSE CASE t[1] = "|" -> newcmd(Tail(t), c, legal)
             [] t[1] = "&" -> IF Len(t) = 1
                              THEN [ret |-> 1, cmd |-> [c EXCEPT !.background = TRUE]]
                              ELSE Error
             [] t[1] = "<" -> IF c.rstdin # "" \/ ~ok THEN Error
                              ELSE newtoken(Tail2(t), [c EXCEPT !.rstdin = file], legal)
             [] t[1] = ">" -> IF c.rstdout # "" \/ ~ok THEN Error
                              ELSE newtoken(Tail2(t), [c EXCEPT !.rstdout = file], legal)
             [] OTHER -> Error

parse(t, legal) == newcmd(t, NoCommand, legal)

----------------------------------------------------------------------------
(***************************************************************************)
(* The reference: which lines are commands, by what may stand next to what.*)
(***************************************************************************)

\* The positions of file names: the words right after < and >.
IsFile(t, i) == i > 1 /\ t[i - 1] \in {"<", ">"}

Count(t, tok) == Cardinality({i \in DOMAIN t : t[i] = tok})

LegalLine(t) ==
  /\ t # <<>> /\ t[1] \in Word
  /\ Count(t, "<") <= 1 /\ Count(t, ">") <= 1
  /\ \A i \in DOMAIN t :
       /\ t[i] = "&" => i = Len(t)
       /\ t[i] = "|" => i < Len(t) /\ t[i + 1] \in Word
       /\ t[i] \in {"<", ">"} => i < Len(t) /\ t[i + 1] = "name"
       /\ t[i] \in Word /\ IsFile(t, i) => i = Len(t) \/ t[i + 1] \notin Word

EndsInRedirection(t) == t # <<>> /\ t[Len(t)] \in {"<", ">"}

Programs(t) == Count(t, "|") + 1

\* The words of all programs, left to right.
ProgramWords(t) ==
  LET at == {i \in DOMAIN t : t[i] \in Word /\ ~IsFile(t, i)} IN Cardinality(at)

SumLen(p) == LET S[i \in 0..Len(p)] == IF i = 0 THEN 0 ELSE S[i - 1] + Len(p[i]) IN S[Len(p)]

\* For a line that does not end in < or >, parse accepts exactly the legal ones,
\* finds every program with its words, sets background and the redirections as
\* the line says, and takes no file name from what the token buffer held before.
\* (After a final < or > there is no file name, and the code takes the one that
\* is left in the buffer.)
ParsesRight(t) ==
  ~EndsInRedirection(t) => \A legal \in BOOLEAN :
    LET r == parse(t, legal)
    IN  /\ (r.ret = 1) <=> LegalLine(t)
        /\ r.ret = 1 =>
             /\ r.cmd.background <=> Count(t, "&") = 1
             /\ r.cmd.rstdin = (IF Count(t, "<") = 1 THEN "name" ELSE "")
             /\ r.cmd.rstdout = (IF Count(t, ">") = 1 THEN "name" ELSE "")
             /\ Len(r.cmd.pgm) = Programs(t)
             /\ SumLen(r.cmd.pgm) = ProgramWords(t)
             /\ r.cmd.pgm[Len(r.cmd.pgm)] = acmd(t)
=============================================================================
