------------------------------ MODULE MCMalloc ------------------------------
(* Malloc with pages of 16 bytes, a header of 4 and blocks of 3 and 6 bytes:  *)
(* four and two blocks to an arena.  Sizes are 6 bits wide.                   *)
EXTENDS Malloc

\* The last two products wrap, to 16 and to 2: calloc's test catches the second.
SmallArgs == {<<2, 2>>, <<0, 3>>, <<8, 10>>, <<6, 11>>}
=============================================================================
