----------------------------- MODULE MCProcess ------------------------------
(* Two process slots.  Program "a" loads two pages into two page tables, the *)
(* second of which the stack shares; "b" maps the same page twice, which      *)
(* install_page refuses; "c" has one page beside its stack.                   *)
EXTENDS Process, TLC

SmallPrograms == [a |-> <<<<1, 1>>, <<2, 1>>>>, b |-> <<<<1, 1>>, <<1, 1>>>>,
                  c |-> <<<<2, 1>>>>]

Symmetric == Permutations(Procs)

\* States that differ only in which pages the pools handed out are not told
\* apart.  What a state looks like up to the names of its pages is given by the
\* shape of each address space, by how far each destruction has come and by
\* how many pages are left, provided that the properties hold; so these are
\* part of the view, and a state that violates one is always a new state.
Shape(p) ==
  <<pagedir[p] # NULL, cr3 = pagedir[p], cr3 \in Range(todo[p]), Len(todo[p]),
    IF pagedir[p] = NULL THEN {}
    ELSE {v \in VPages : pagedir_get_page(pagedir[p], v) # NULL},
    IF pagedir[p] = NULL THEN NoPage
    ELSE [e \in Entries |-> word[pagedir[p]][e] # NULL],
    kpage[p] # NULL, IF file_name[p] = NULL THEN "" ELSE text[file_name[p]]>>

Seen ==
  <<cur, pc, cr3 = INIT, [p \in Procs |-> Shape(p)], cmd, asked, image, file, left,
    IF fn_copy = NULL THEN "" ELSE text[fn_copy],
    Cardinality({g \in KernelPool : role[g] = "free"}),
    Cardinality({g \in UserPool : role[g] = "free"}),
    Inv, AddressSpaceRight>>
=============================================================================
