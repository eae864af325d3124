----------------------------- MODULE MCFileSys ------------------------------
(* The file system on a handful of sectors. *)
EXTENDS FileSys, TLC

\* A position at or past the end of the file allows nothing but to be moved.
SeenFile(f) ==
    [f EXCEPT !.pos = IF f # NoFile /\ @ > disk[f.inode].len THEN disk[f.inode].len ELSE @]

\* What a sector holds that is free, or lost, is never read, nor does it matter
\* which slot an entry is in: states that differ only there are not told apart.
Seen == <<[s \in free_map \ lost |-> disk[s]],
          {entries[e] : e \in {f \in Slot : entries[f].in_use}},
          disk_map, free_map, open_inodes, [h \in Handle |-> SeenFile(files[h])],
          op, crashes, contents, lost>>

Symmetric == {p @@ q : p \in Permutations(Name), q \in Permutations(Handle)}
=============================================================================
