------------------------------ MODULE Process ------------------------------
(***************************************************************************)
(* User processes: process_execute, start_process, load, process_exit      *)
(* (userprog/process.c) over the page directories of userprog/pagedir.c,   *)
(* the two pools of threads/palloc.c and the CPU's page directory base     *)
(* register.  The initial thread starts programs; each program's thread    *)
(* loads its image and leaves through a system call or an exception.       *)
(*                                                                         *)
(* The timer may switch threads between any two steps, and every switch    *)
(* re-activates the page directory of the thread it switches to.  A step   *)
(* is a stretch of code that touches shared state (a pool, the base        *)
(* register, its own thread's pagedir member) once.                        *)
(*                                                                         *)
(* Abstraction: a page holds Width entries where the hardware holds 1024.  *)
(* A page directory's entries are page tables, a page table's are user     *)
(* pages.  A program file is the sequence of user virtual pages that its   *)
(* segments cover.                                                         *)
(***************************************************************************)
EXTENDS Integers, Sequences, FiniteSets, SequencesExt

CONSTANTS Procs,        \* slots for the threads that run user programs
          Main,         \* the initial thread, which runs the kernel's tasks
          KernelCnt,    \* pages of the kernel pool
          MinKernel,    \* how few of them the rest of the kernel may leave
          UserCnt,      \* pages of the user pool
          Segments      \* program name -> the virtual pages it loads

ASSUME ProcessAssumption ==
  /\ Main \notin Procs
  /\ KernelCnt \in Nat /\ UserCnt \in Nat /\ MinKernel \in 1..KernelCnt

NULL == 0
INIT == -1                       \* init_page_dir, which is never freed
Width == 2
Entries == 1..Width
Stack == <<Width, Width>>        \* the page below PHYS_BASE
VPages == Entries \X Entries     \* <<pd_no, pt_no>>
KernelPool == 1..KernelCnt
UserPool == KernelCnt + 1..KernelCnt + UserCnt
Pages == KernelPool \cup UserPool
Programs == DOMAIN Segments
NoPage == [e \in Entries |-> NULL]

VARIABLES
  cur,       \* the running thread
  cr3,       \* the active page directory
  pc,        \* where each thread is
  role,      \* what each page of memory is used for, "free" if in its pool
  word,      \* the entries of the pages used as directories and tables
  text,      \* the program name stored in the pages used for one
  cmd,       \* the initial thread's own buffer with the task's program name
  fn_copy,   \* process_execute's copy of it
  file_name, \* start_process's argument, a page
  pagedir,   \* the thread's pagedir member
  asked,     \* ghost: the program each process was created for
  image,     \* the program whose file load opened, "" before
  file,      \* whether load has its file open
  left,      \* the virtual pages load_segment has yet to fill
  kpage,     \* the page load is filling
  todo       \* the pages pagedir_destroy has yet to free

vars == <<cur, cr3, pc, role, word, text, cmd, fn_copy, file_name, pagedir,
          asked, image, file, left, kpage, todo>>

Threads == Procs \cup {Main}

Init ==
  /\ cur = Main
  /\ cr3 = INIT
  /\ pc = [t \in Threads |-> IF t = Main THEN "idle" ELSE "none"]
  /\ \E n \in MinKernel..KernelCnt :
       role = [g \in Pages |->
                 IF g \in KernelPool /\ g > n THEN "kernel" ELSE "free"]
  /\ word = [g \in Pages |-> NoPage]
  /\ text = [g \in Pages |-> ""]
  /\ cmd = ""
  /\ fn_copy = NULL
  /\ file_name = [p \in Procs |-> NULL]
  /\ pagedir = [t \in Threads |-> NULL]
  /\ asked = [p \in Procs |-> ""]
  /\ image = [p \in Procs |-> ""]
  /\ file = [p \in Procs |-> FALSE]
  /\ left = [p \in Procs |-> <<>>]
  /\ kpage = [p \in Procs |-> NULL]
  /\ todo = [p \in Procs |-> <<>>]

----------------------------------------------------------------------------
(***************************************************************************)
(* Pages and page directories.                                             *)
(***************************************************************************)

\* palloc_get_page: the first free page of the pool, or NULL.
palloc_get_page(pool) ==
  LET free == {g \in pool : role[g] = "free"}
  IN  IF free = {} THEN NULL ELSE CHOOSE g \in free : \A h \in free : g <= h

\* palloc_free_page: the page is filled with 0xcc, in which no entry is present
\* and no name is left, and its bit is cleared.
palloc_free_page(g) ==
  /\ role' = [role EXCEPT ![g] = "free"]
  /\ word' = [word EXCEPT ![g] = NoPage]
  /\ text' = [text EXCEPT ![g] = ""]

\* The page table that PD has for V, NULL if there is none.
Table(pd, v) == word[pd][v[1]]

\* pagedir_get_page: the page that PD maps V to, NULL if it maps none.
pagedir_get_page(pd, v) ==
  IF Table(pd, v) = NULL THEN NULL ELSE word[Table(pd, v)][v[2]]

\* The pages pagedir_destroy (PD) frees, in its order: the pages of each
\* table, the table, and last PD.  Nobody else changes PD meanwhile, so its
\* loops are read off at once and walked one palloc_free_page at a time.
DestroyOrder(pd) ==
  FlattenSeq([e \in Entries |->
                IF word[pd][e] = NULL THEN <<>>
                ELSE SelectSeq(word[word[pd][e]], LAMBDA k : k # NULL)
                       \o <<word[pd][e]>>])
    \o <<pd>>

\* pagedir_activate: NULL stands for the kernel's own directory.
pagedir_activate(pd) == cr3' = IF pd = NULL THEN INIT ELSE pd

At(t, label) == cur = t /\ pc[t] = label
Goto(t, label) == pc' = [pc EXCEPT ![t] = label]

----------------------------------------------------------------------------
(***************************************************************************)
(* The scheduler, as processes see it: any live thread may be switched to, *)
(* its page directory is activated, and the page of a thread that died is  *)
(* freed (thread_schedule_tail).                                           *)
(***************************************************************************)

schedule(t) ==
  /\ t # cur
  /\ pc[t] \notin {"none", "dying"}
  /\ cur' = t
  /\ pagedir_activate(pagedir[t])
  /\ IF pc[cur] = "dying"
     THEN /\ Goto(cur, "none")
          /\ palloc_free_page(CHOOSE h \in Pages : role[h] = cur)
          /\ asked' = [asked EXCEPT ![cur] = ""]
          /\ image' = [image EXCEPT ![cur] = ""]
     ELSE UNCHANGED <<pc, role, word, text, asked, image>>
  /\ UNCHANGED <<cmd, fn_copy, file_name, pagedir, left, kpage, todo, file>>

----------------------------------------------------------------------------
(***************************************************************************)
(* The initial thread: run_task and process_execute.                       *)
(***************************************************************************)

\* run_task puts the program's name in CMD; process_execute copies it into
\* a page, or returns TID_ERROR.
process_execute(prog) ==
  /\ At(Main, "idle")
  /\ cmd' = prog
  /\ LET g == palloc_get_page(KernelPool)
     IN  /\ fn_copy' = g
         /\ IF g = NULL
            THEN UNCHANGED <<pc, role, text>>
            ELSE /\ Goto(Main, "create")
                 /\ role' = [role EXCEPT ![g] = "name"]
                 /\ text' = [text EXCEPT ![g] = prog]
  /\ UNCHANGED <<cur, cr3, word, file_name, pagedir, asked, image, left,
                 kpage, todo, file>>

\* Variant: FN_COPY is kept when the thread cannot be created.
Mut_create_leak(p) ==
  /\ At(Main, "create")
  /\ pc[p] = "none"
  /\ fn_copy' = NULL
  /\ LET g == palloc_get_page(KernelPool)
     IN  IF g = NULL
         THEN Goto(Main, "wait") /\ UNCHANGED <<role, file_name, asked>>
         ELSE /\ pc' = [pc EXCEPT ![Main] = "wait", ![p] = "start"]
              /\ role' = [role EXCEPT ![g] = p]
              /\ file_name' = [file_name EXCEPT ![p] = fn_copy]
              /\ asked' = [asked EXCEPT ![p] = cmd]
  /\ UNCHANGED <<cur, cr3, word, text, cmd, pagedir, image, left, kpage, todo, file>>

\* thread_create takes a page for the new thread, which gets FN_COPY as its
\* argument ...
execute_create(p) ==
  /\ At(Main, "create")
  /\ pc[p] = "none"
  /\ LET g == palloc_get_page(KernelPool)
     IN  IF g = NULL
         THEN Goto(Main, "error") /\ UNCHANGED <<role, fn_copy, file_name, asked>>
         ELSE /\ pc' = [pc EXCEPT ![Main] = "wait", ![p] = "start"]
              /\ role' = [role EXCEPT ![g] = p]
              /\ fn_copy' = NULL
              /\ file_name' = [file_name EXCEPT ![p] = fn_copy]
              /\ asked' = [asked EXCEPT ![p] = cmd]
  /\ UNCHANGED <<cur, cr3, word, text, cmd, pagedir, image, left, kpage, todo, file>>

\* ... and without a page FN_COPY is freed again.
execute_error ==
  /\ At(Main, "error")
  /\ palloc_free_page(fn_copy)
  /\ fn_copy' = NULL
  /\ Goto(Main, "wait")
  /\ UNCHANGED <<cur, cr3, cmd, file_name, pagedir, asked, image, left, kpage, todo, file>>

\* process_wait returns -1 at once.
process_wait ==
  /\ At(Main, "wait")
  /\ Goto(Main, "idle")
  /\ UNCHANGED <<cur, cr3, role, word, text, cmd, fn_copy, file_name, pagedir,
                 asked, image, left, kpage, todo, file>>

----------------------------------------------------------------------------
(***************************************************************************)
(* The process's thread: start_process calls load.                         *)
(***************************************************************************)

\* load creates the page directory ...
load_create(p) ==
  /\ At(p, "start")
  /\ LET g == palloc_get_page(KernelPool)
     IN  /\ pagedir' = [pagedir EXCEPT ![p] = g]
         /\ IF g = NULL
            THEN Goto(p, "failed") /\ UNCHANGED <<role, word>>
            ELSE /\ Goto(p, "activate")
                 /\ role' = [role EXCEPT ![g] = "pd"]
                 /\ word' = [word EXCEPT ![g] = NoPage]
  /\ UNCHANGED <<cur, cr3, text, cmd, fn_copy, file_name, asked, image, left,
                 kpage, todo, file>>

\* ... activates it ...
load_activate(p) ==
  /\ At(p, "activate")
  /\ pagedir_activate(pagedir[p])
  /\ Goto(p, "open")
  /\ UNCHANGED <<cur, role, word, text, cmd, fn_copy, file_name, pagedir,
                 asked, image, left, kpage, todo, file>>

\* Variant: the thread was given the caller's buffer.
Mut_open_caller(p) ==
  /\ At(p, "open")
  /\ image' = [image EXCEPT ![p] = cmd]
  /\ left' = [left EXCEPT ![p] = Segments[cmd]]
  /\ Goto(p, "segment")
  /\ UNCHANGED <<cur, cr3, role, word, text, cmd, fn_copy, file_name, pagedir,
                 asked, kpage, todo, file>>

\* ... and opens the file whose name the page holds.  The open may fail, and
\* so may the checks on the executable's headers and segments.
load_open(p) ==
  /\ At(p, "open")
  /\ \/ /\ file' = [file EXCEPT ![p] = TRUE]
        /\ image' = [image EXCEPT ![p] = text[file_name[p]]]
        /\ \/ /\ left' = [left EXCEPT ![p] = Segments[text[file_name[p]]]]
              /\ Goto(p, "segment")
           \/ Goto(p, "failed") /\ UNCHANGED left
     \/ Goto(p, "failed") /\ UNCHANGED <<file, image, left>>
  /\ UNCHANGED <<cur, cr3, role, word, text, cmd, fn_copy, file_name, pagedir,
                 asked, kpage, todo>>

\* load_segment and, after the last segment, setup_stack take a page from
\* the user pool; a page of a segment is filled from the file.
load_page(p) ==
  /\ At(p, "segment")
  /\ LET g == palloc_get_page(UserPool)
     IN  IF g = NULL
         THEN Goto(p, "failed") /\ UNCHANGED <<role, kpage>>
         ELSE /\ Goto(p, IF left[p] = <<>> THEN "install" ELSE "read")
              /\ role' = [role EXCEPT ![g] = "user"]
              /\ kpage' = [kpage EXCEPT ![p] = g]
  /\ UNCHANGED <<cur, cr3, word, text, cmd, fn_copy, file_name, pagedir,
                 asked, image, left, todo, file>>

\* The thread holds the page while file_read waits for the disk; the read may be
\* short.
load_read(p) ==
  /\ At(p, "read")
  /\ Goto(p, "install") \/ Goto(p, "drop")
  /\ UNCHANGED <<cur, cr3, role, word, text, cmd, fn_copy, file_name, pagedir,
                 asked, image, left, kpage, todo, file>>

\* After a short read, or when it cannot be installed, the page is freed and
\* load fails.
load_drop(p) ==
  /\ At(p, "drop")
  /\ palloc_free_page(kpage[p])
  /\ kpage' = [kpage EXCEPT ![p] = NULL]
  /\ Goto(p, "failed")
  /\ UNCHANGED <<cur, cr3, cmd, fn_copy, file_name, pagedir, asked, image, left,
                 todo, file>>

\* install_page maps it at V unless V is mapped already, adding a page table
\* where V has none.
install_page(p) ==
  LET v == IF left[p] = <<>> THEN Stack ELSE Head(left[p])
      pd == pagedir[p]
      pt == IF Table(pd, v) # NULL THEN Table(pd, v)
            ELSE palloc_get_page(KernelPool)
      fresh == Table(pd, v) = NULL
  IN  /\ At(p, "install")
      /\ IF pagedir_get_page(pd, v) # NULL \/ pt = NULL
         THEN Goto(p, "drop") /\ UNCHANGED <<role, word, left, kpage>>
         ELSE /\ role' = [role EXCEPT ![pt] = "pt"]
              /\ word' = [word EXCEPT
                            ![pd][v[1]] = pt,
                            ![pt] = [IF fresh THEN NoPage ELSE word[pt]
                                       EXCEPT ![v[2]] = kpage[p]]]
              /\ kpage' = [kpage EXCEPT ![p] = NULL]
              /\ IF left[p] = <<>>
                 THEN Goto(p, "loaded") /\ UNCHANGED left
                 ELSE /\ Goto(p, "segment")
                      /\ left' = [left EXCEPT ![p] = Tail(left[p])]
      /\ UNCHANGED <<cur, cr3, text, cmd, fn_copy, file_name, pagedir, asked, image,
                     todo, file>>

\* load closes its file; back in start_process: free the name, then quit or enter user mode.
start_done(p) ==
  /\ cur = p /\ pc[p] \in {"loaded", "failed"}
  /\ palloc_free_page(file_name[p])
  /\ file_name' = [file_name EXCEPT ![p] = NULL]
  /\ left' = [left EXCEPT ![p] = <<>>]
  /\ file' = [file EXCEPT ![p] = FALSE]
  /\ Goto(p, IF pc[p] = "loaded" THEN "user" ELSE "exit")
  /\ UNCHANGED <<cur, cr3, cmd, fn_copy, pagedir, asked, image, kpage, todo>>

\* A program leaves user mode for good on a system call, every one of which
\* ends the thread ...
syscall_handler(p) ==
  /\ At(p, "user")
  /\ Goto(p, "exit")
  /\ UNCHANGED <<cur, cr3, role, word, text, cmd, fn_copy, file_name, pagedir,
                 asked, image, left, kpage, todo, file>>

\* ... and on an exception, for which kill ends a thread that was in user mode.
page_fault(p) ==
  /\ At(p, "user")
  /\ Goto(p, "exit")
  /\ UNCHANGED <<cur, cr3, role, word, text, cmd, fn_copy, file_name, pagedir,
                 asked, image, left, kpage, todo, file>>

----------------------------------------------------------------------------
(***************************************************************************)
(* process_exit, called by thread_exit.                                    *)
(***************************************************************************)

\* Variant: the pagedir member keeps pointing to the directory.
Mut_exit_keeps(p) ==
  /\ At(p, "exit")
  /\ pagedir[p] # NULL
  /\ todo' = [todo EXCEPT ![p] = DestroyOrder(pagedir[p])]
  /\ Goto(p, "base")
  /\ UNCHANGED <<cur, cr3, role, word, text, cmd, fn_copy, file_name, pagedir,
                 asked, image, left, kpage, file>>

\* First the pagedir member is cleared, so that no switch re-activates it.
\* TODO keeps the directory for the next step: it is the local pd.
exit_forget(p) ==
  /\ At(p, "exit")
  /\ IF pagedir[p] = NULL
     THEN Goto(p, "dying") /\ UNCHANGED <<pagedir, todo>>
     ELSE /\ pagedir' = [pagedir EXCEPT ![p] = NULL]
          /\ todo' = [todo EXCEPT ![p] = DestroyOrder(pagedir[p])]
          /\ Goto(p, "base")
  /\ UNCHANGED <<cur, cr3, role, word, text, cmd, fn_copy, file_name, asked,
                 image, left, kpage, file>>

\* Then the kernel's directory is activated ...
exit_base(p) ==
  /\ At(p, "base")
  /\ pagedir_activate(NULL)
  /\ Goto(p, "destroy")
  /\ UNCHANGED <<cur, role, word, text, cmd, fn_copy, file_name, pagedir,
                 asked, image, left, kpage, todo, file>>

\* ... and only then are the directory's pages freed.
pagedir_destroy(p) ==
  /\ At(p, "destroy")
  /\ palloc_free_page(Head(todo[p]))
  /\ todo' = [todo EXCEPT ![p] = Tail(todo[p])]
  /\ Goto(p, IF Len(todo[p]) = 1 THEN "dying" ELSE "destroy")
  /\ UNCHANGED <<cur, cr3, cmd, fn_copy, file_name, pagedir, asked, image,
                 left, kpage, file>>

----------------------------------------------------------------------------
Process(p) ==
  \/ load_create(p) \/ load_activate(p) \/ load_open(p) \/ load_page(p)
  \/ load_read(p) \/ load_drop(p) \/ install_page(p) \/ start_done(p)
  \/ exit_forget(p) \/ exit_base(p) \/ pagedir_destroy(p)

Next ==
  \/ \E t \in Threads : schedule(t)
  \/ \E prog \in Programs : process_execute(prog)
  \/ \E p \in Procs : execute_create(p)
  \/ execute_error
  \/ process_wait
  \/ \E p \in Procs : Process(p) \/ syscall_handler(p) \/ page_fault(p)

Spec == Init /\ [][Next]_vars

----------------------------------------------------------------------------
Labels == {"none", "start", "activate", "open", "segment", "read", "drop",
           "install", "loaded", "failed", "user", "exit", "base", "destroy", "dying"}

\* The type of the state; a page's role is one of its uses, or the thread
\* whose struct thread and stack it holds.
TypeOK ==
  /\ cur \in Threads
  /\ cr3 \in Pages \cup {INIT}
  /\ pc \in [Threads -> Labels \cup {"idle", "create", "error", "wait"}]
  /\ role \in [Pages -> {"free", "kernel", "name", "pd", "pt", "user"} \cup Procs]
  /\ word \in [Pages -> [Entries -> Pages \cup {NULL}]]
  /\ text \in [Pages -> Programs \cup {""}]
  /\ fn_copy \in KernelPool \cup {NULL}
  /\ file_name \in [Procs -> KernelPool \cup {NULL}]
  /\ pagedir \in [Threads -> KernelPool \cup {NULL}]
  /\ file \in [Procs -> BOOLEAN]
  /\ kpage \in [Procs -> UserPool \cup {NULL}]
  /\ \A p \in Procs : Range(left[p]) \subseteq VPages
                      /\ Range(todo[p]) \subseteq Pages

\* The active page directory is the kernel's or one none of whose pages has
\* been given back.
ActiveDirectoryIntact ==
  cr3 # INIT =>
    /\ role[cr3] = "pd"
    /\ \A e \in Entries : word[cr3][e] # NULL =>
         /\ role[word[cr3][e]] = "pt"
         /\ \A f \in Entries : word[word[cr3][e]][f] # NULL =>
              role[word[word[cr3][e]][f]] = "user"

\* The CPU never translates addresses through memory that was given back,
\* which is what the comment "Correct ordering here is crucial" in process_exit
\* is about; and a thread that runs in user mode runs in its own address space,
\* which maps exactly its program's pages and its stack: no switch, load or exit
\* of another process can leave another directory active.
AddressSpaceRight ==
  /\ ActiveDirectoryIntact
  /\ \A p \in Procs : At(p, "user") =>
       /\ cr3 = pagedir[p]
       /\ {v \in VPages : pagedir_get_page(cr3, v) # NULL}
            = Range(Segments[image[p]]) \cup {Stack}

\* The pages a process holds through its thread's members and load's locals.
HeldBy(p) ==
  (IF pagedir[p] = NULL THEN {} ELSE Range(DestroyOrder(pagedir[p])))
    \cup Range(todo[p])
    \cup ({file_name[p], kpage[p]} \ {NULL})
    \cup {g \in Pages : role[g] = p}

\* Pages have one owner and are never lost: what two processes hold is
\* disjoint, and the pages outside the pools are exactly those that some
\* thread holds, whichever step of process_execute, load or process_exit
\* failed or was interrupted.  A process that is no longer loading has closed
\* its file.
PagesAccounted ==
  /\ \A p, q \in Procs : p # q => HeldBy(p) \cap HeldBy(q) = {}
  /\ {g \in Pages : role[g] \notin {"free", "kernel"}}
       = UNION {HeldBy(p) : p \in Procs} \cup ({fn_copy} \ {NULL})
  /\ \A p \in Procs : file[p] => file_name[p] # NULL

\* A process loads the program it was created for, although the initial
\* thread may have reused its buffer: the purpose of fn_copy.
LoadsWhatWasAsked ==
  \A p \in Procs : image[p] \in {"", asked[p]}

\* Pages and directories are what their owners take them for.
Inv == TypeOK /\ PagesAccounted
=============================================================================
