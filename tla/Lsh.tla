-------------------------------- MODULE Lsh --------------------------------
(***************************************************************************)
(* The shell of OS-lab1 (code/lsh.c): job control, pipelines and signals.  *)
(*                                                                         *)
(* The shell forks one child per command line.  That child, the leader,    *)
(* makes itself a process group, forks the other stages from right to left *)
(* and becomes the leftmost stage.  All of this is one stretch of code     *)
(* that a process leaves only by execvp; a stage whose execvp fails falls  *)
(* through to the code that follows, so every process is modelled with the *)
(* whole of that code.                                                     *)
(*                                                                         *)
(* The kernel's part (fork, pipe, dup2, close, exit, wait, process groups, *)
(* the terminal and its Ctrl-C) is modelled as the shell uses it.  A       *)
(* command line is its number of stages, its &, its redirections (absent,  *)
(* to a file that opens or to one that does not) and the set of stages     *)
(* that cannot be executed; stages count from the right, as cmd.pgm does.  *)
(*                                                                         *)
(* The shell is assumed to lead a process group of its own, as a shell     *)
(* started from a job-control shell does.                                  *)
(***************************************************************************)
EXTENDS Integers, Sequences, FiniteSets

CONSTANTS Pids,       \* process numbers, reused after the process is reaped
          MaxLines,   \* bound on the command lines given, long ones counting double
          Jobs        \* command lines: [n, background, bad, rstdin, rstdout]

ASSUME LshAssumption ==
  /\ Pids \subseteq Nat \ {0} /\ MaxLines \in Nat
  /\ \A j \in Jobs : /\ j.n \in Nat \ {0} /\ j.background \in BOOLEAN
                     /\ j.bad \subseteq 1..j.n
                     /\ {j.rstdin, j.rstdout} \subseteq {"none", "opens", "fails"}

Shell == 0                  \* the shell, and the number of its process group
Init1 == -1                 \* the process that adopts orphans
NoFd == <<0, 0, "none">>
Tty == <<0, 0, "tty">>
File == <<0, 0, "file">>
Fds == 3..8                 \* descriptors for pipes, the lowest free first
NoPipe == <<0, 0>>
NoJob == [n |-> 0, background |-> FALSE, bad |-> {}, rstdin |-> "none", rstdout |-> "none"]

Dead == [st |-> "none", parent |-> Init1, pgid |-> 0, job |-> NoJob, next |-> 0,
         pipefd |-> NoPipe, prev |-> NoPipe, made |-> 0, short |-> FALSE, in |-> NoFd, out |-> NoFd,
         fd |-> [f \in Fds |-> NoFd]]

VARIABLES
  lines,            \* command lines so far
  proc,             \* the processes, Dead where a number is not in use
  sh,               \* where the shell is: prompt, parent, fg, wait, back, ...
  cmd,              \* the command line the shell works on
  child,            \* the child it forked for it
  foreground_pgid,
  tty,              \* the terminal's foreground process group
  pending,          \* the processes with a SIGCHLD to be handled
  killed            \* ghost: background processes that a Ctrl-C ended

vars == <<lines, proc, sh, cmd, child, foreground_pgid, tty, pending, killed>>

Init ==
  /\ lines = 0
  /\ proc = [p \in Pids |-> Dead]
  /\ sh = "prompt"
  /\ cmd = NoJob
  /\ child = 0
  /\ foreground_pgid = 0
  /\ tty = Shell
  /\ pending = {}
  /\ killed = {}

----------------------------------------------------------------------------
(***************************************************************************)
(* The kernel.                                                             *)
(***************************************************************************)

\* The processes that still run code of lsh.c, with its signal handlers.
Setup == {"setpgid", "tty", "single", "pipe", "right", "loop", "middle", "last",
          "subshell"}
Members(g) == {p \in Pids : proc[p].pgid = g /\ proc[p].st # "none"}

FreePids == {p \in Pids : proc[p].st = "none" /\ Members(p) = {}}
NewPid == CHOOSE p \in FreePids : \A q \in FreePids : p <= q

\* pipe(): the two lowest free descriptors.
LowestFd(fd) == CHOOSE f \in Fds : /\ fd[f] = NoFd
                                   /\ \A g \in Fds : fd[g] = NoFd => f <= g

pipe(p, r) ==
  LET k == r.made + 1
      rd == LowestFd(r.fd)
      fd1 == [r.fd EXCEPT ![rd] = <<p, k, "r">>]
      wr == LowestFd(fd1)
  IN  [r EXCEPT !.made = k, !.pipefd = <<rd, wr>>,
                !.fd = [fd1 EXCEPT ![wr] = <<p, k, "w">>]]

close(r, f) == IF f \in Fds THEN [r EXCEPT !.fd[f] = NoFd] ELSE r

\* exit: the descriptors go, children are adopted and, where they are zombies,
\* reaped by init, and the parent gets SIGCHLD.
Exit(ps, dying) ==
  [p \in Pids |->
     IF p \in dying
     THEN IF ps[p].parent \in dying \cup {Init1} THEN Dead
          ELSE [Dead EXCEPT !.st = "zombie", !.parent = ps[p].parent,
                            !.pgid = ps[p].pgid]
     ELSE IF ps[p].parent \in dying
     THEN IF ps[p].st = "zombie" THEN Dead ELSE [ps[p] EXCEPT !.parent = Init1]
     ELSE ps[p]]

SigChld(ps, dying) == {ps[p].parent : p \in dying} \ {Init1}

----------------------------------------------------------------------------
(***************************************************************************)
(* The shell's main loop.                                                  *)
(***************************************************************************)

\* A command line that is no builtin is read and parsed, and a child forked
\* for it; without a process to spare, fork fails and the prompt returns.
main_fork(j) ==
  /\ sh = "prompt"
  /\ lines' = lines + 1 + j.n \div 4
  /\ lines' <= MaxLines
  /\ IF FreePids = {}
     THEN UNCHANGED <<proc, sh, cmd, child>>
     ELSE /\ child' = NewPid
          /\ proc' = [proc EXCEPT ![NewPid] =
                        [Dead EXCEPT !.st = "setpgid", !.parent = Shell,
                                     !.job = j, !.in = Tty, !.out = Tty]]
          /\ cmd' = j
          /\ sh' = "parent"
  /\ UNCHANGED <<foreground_pgid, tty, pending, killed>>

\* setpgid(pid, pid): refused when the child has executed its program or is
\* gone.
parent_setpgid ==
  /\ sh = "parent"
  /\ proc' = IF proc[child].st \in Setup
             THEN [proc EXCEPT ![child].pgid = child] ELSE proc
  /\ IF cmd.background THEN sh' = "prompt" /\ child' = 0 /\ cmd' = NoJob
     ELSE sh' = "fg" /\ UNCHANGED <<cmd, child>>
  /\ UNCHANGED <<lines, foreground_pgid, tty, pending, killed>>

parent_foreground ==
  /\ sh = "fg"
  /\ foreground_pgid' = child
  /\ sh' = "tty"
  /\ UNCHANGED <<lines, proc, cmd, child, tty, pending, killed>>

\* tcsetpgrp: refused for a group that does not exist.
parent_tcsetpgrp ==
  /\ sh = "tty"
  /\ tty' = IF Members(child) # {} THEN child ELSE tty
  /\ sh' = "wait"
  /\ UNCHANGED <<lines, proc, cmd, child, foreground_pgid, pending, killed>>

\* waitpid(pid) reaps the leader, or fails if the handler has reaped it.
parent_waitpid ==
  /\ sh = "wait"
  /\ proc[child].st = "zombie" \/ proc[child].parent # Shell
  /\ proc' = IF proc[child].st = "zombie" /\ proc[child].parent = Shell
             THEN [proc EXCEPT ![child] = Dead] ELSE proc
  /\ sh' = "back"
  /\ UNCHANGED <<lines, cmd, child, foreground_pgid, tty, pending, killed>>

parent_take_back ==
  /\ sh = "back"
  /\ tty' = Shell
  /\ sh' = "reset"
  /\ UNCHANGED <<lines, proc, cmd, child, foreground_pgid, pending, killed>>

parent_reset ==
  /\ sh = "reset"
  /\ foreground_pgid' = 0
  /\ child' = 0 /\ cmd' = NoJob
  /\ sh' = "prompt"
  /\ UNCHANGED <<lines, proc, tty, pending, killed>>

\* The builtin exit, and Ctrl-D at the prompt.
shell_exit ==
  /\ sh = "prompt"
  /\ sh' = "gone"
  /\ proc' = [p \in Pids |->
                IF proc[p].parent # Shell THEN proc[p]
                ELSE IF proc[p].st = "zombie" THEN Dead
                ELSE [proc[p] EXCEPT !.parent = Init1]]
  /\ pending' = pending \ {Shell}
  /\ UNCHANGED <<lines, cmd, child, foreground_pgid, tty, killed>>

\* Mutant: if in place of while, although signals do not queue.
Mut_reap_one(q) ==
  /\ q \in pending
  /\ pending' = pending \ {q}
  /\ LET zombies == {p \in Pids : proc[p].st = "zombie" /\ proc[p].parent = q}
     IN  IF zombies = {} THEN UNCHANGED proc
         ELSE \E p \in zombies : proc' = [proc EXCEPT ![p] = Dead]
  /\ UNCHANGED <<lines, sh, cmd, child, foreground_pgid, tty, killed>>

\* sigchld_handler: waitpid(-1, WNOHANG) until no child of q is a zombie.  The
\* handler runs on q's own stack, so q does nothing else meanwhile; a child
\* that ends after the last waitpid raises SIGCHLD again.
sigchld_handler(q) ==
  /\ q \in pending
  /\ pending' = pending \ {q}
  /\ proc' = [p \in Pids |-> IF proc[p].st = "zombie" /\ proc[p].parent = q
                            THEN Dead ELSE proc[p]]
  /\ UNCHANGED <<lines, sh, cmd, child, foreground_pgid, tty, killed>>

----------------------------------------------------------------------------
(***************************************************************************)
(* The child, up to execvp.  Step(p, r) makes r the record of p.           *)
(***************************************************************************)

Step(p, r) ==
  /\ proc' = [proc EXCEPT ![p] = r]
  /\ UNCHANGED <<lines, sh, cmd, child, foreground_pgid, tty, pending, killed>>

\* p ends: exit() after a failed redirection, a crash, the end of a program.
End(p) ==
  /\ proc' = Exit(proc, {p})
  /\ pending' = (pending \cup SigChld(proc, {p})) \ {p}
  /\ UNCHANGED <<lines, sh, cmd, child, foreground_pgid, tty, killed>>

child_setpgid(p) ==
  /\ proc[p].st = "setpgid"
  /\ Step(p, [proc[p] EXCEPT !.pgid = p, !.st = "tty"])

\* Mutant: a background job takes the terminal too.
Mut_tty_always(p) ==
  /\ proc[p].st = "tty"
  /\ proc' = [proc EXCEPT ![p].st = IF proc[p].job.n = 1 THEN "single" ELSE "pipe"]
  /\ tty' = p
  /\ UNCHANGED <<lines, sh, cmd, child, foreground_pgid, pending, killed>>

child_tcsetpgrp(p) ==
  /\ proc[p].st = "tty"
  /\ proc' = [proc EXCEPT ![p].st = IF proc[p].job.n = 1 THEN "single" ELSE "pipe"]
  /\ tty' = IF proc[p].job.background THEN tty ELSE p
  /\ UNCHANGED <<lines, sh, cmd, child, foreground_pgid, pending, killed>>

\* execvp of stage S for the record R of p: the program runs with default
\* signal handling, or the code goes on at FALLTHROUGH.
execvp(p, r, s, fallthrough) ==
  /\ proc' = [proc EXCEPT ![p] =
                IF s \in r.job.bad THEN [r EXCEPT !.st = fallthrough]
                ELSE [r EXCEPT !.st = "run", !.next = s, !.made = 0,
                                 !.pipefd = NoPipe, !.prev = NoPipe]]
  /\ pending' = IF s \in r.job.bad THEN pending ELSE pending \ {p}
  /\ UNCHANGED <<lines, sh, cmd, child, foreground_pgid, tty, killed>>

\* A file takes the place of an end, and its own descriptor is closed again;
\* when it cannot be opened the process ends.
Opened(how, end) == CASE how = "none" -> end [] how = "opens" -> File [] how = "fails" -> NoFd

redirect_stdin_to_file(r) == [r EXCEPT !.in = Opened(r.job.rstdin, @)]

redirect_stdout_to_file(r) == [r EXCEPT !.out = Opened(r.job.rstdout, @)]

child_single(p) ==
  /\ proc[p].st = "single"
  /\ LET r == redirect_stdin_to_file(redirect_stdout_to_file(proc[p]))
     IN  IF NoFd \in {r.in, r.out} THEN End(p) ELSE execvp(p, r, 1, "pipe")

\* The code after fork() with a new process at label ST; when there is none to
\* be had, only the parent goes on, at CONT.
fork(p, r, st, cont) ==
  /\ proc' = IF FreePids = {} THEN [proc EXCEPT ![p] = [cont EXCEPT !.short = TRUE]]
             ELSE [proc EXCEPT ![p] = cont,
                     ![NewPid] = [r EXCEPT !.st = st, !.parent = p, !.made = 0]]
  /\ UNCHANGED <<lines, sh, cmd, child, foreground_pgid, tty, pending, killed>>

\* The first pipe and the rightmost stage.
child_pipe(p) ==
  /\ proc[p].st = "pipe"
  /\ LET r == [pipe(p, proc[p]) EXCEPT !.next = 1]
     IN  fork(p, r, "right", [r EXCEPT !.st = "loop", !.next = 2])

\* redirect_stdin and redirect_stdout take an end of the pipe and close both
\* descriptors; on a descriptor that is closed they end the process.
redirect_stdin(r, pp) ==
  close(close([r EXCEPT !.in = r.fd[pp[1]]], pp[1]), pp[2])

\* Mutant: the read end stays open in the writer.
Mut_keep_read_end(r, pp) == close([r EXCEPT !.out = r.fd[pp[2]]], pp[2])

redirect_stdout(r, pp) ==
  close(close([r EXCEPT !.out = r.fd[pp[2]]], pp[2]), pp[1])

child_right(p) ==
  /\ proc[p].st = "right"
  /\ LET r == redirect_stdout_to_file(redirect_stdin(proc[p], proc[p].pipefd))
     IN  IF r.out = NoFd THEN End(p) ELSE execvp(p, [r EXCEPT !.next = 2], 1, "loop")

\* The while loop: another pipe and another stage, until the leftmost one.
child_loop(p) ==
  /\ proc[p].st = "loop"
  /\ IF proc[p].next >= proc[p].job.n
     THEN Step(p, [proc[p] EXCEPT !.st = "last"])
     ELSE LET r == pipe(p, [proc[p] EXCEPT !.prev = proc[p].pipefd])
              cont == [r EXCEPT !.next = r.next + 1]
          IN  fork(p, r, "middle",
                   IF FreePids = {} THEN cont
                   ELSE close(close(cont, r.prev[1]), r.prev[2]))

child_middle(p) ==
  /\ proc[p].st = "middle"
  /\ LET r0 == proc[p]
         r1 == redirect_stdout(r0, r0.prev)
         r2 == redirect_stdin(r1, r0.pipefd)
     IN  IF r1.out = NoFd \/ r2.in = NoFd THEN End(p)
         ELSE execvp(p, [r2 EXCEPT !.next = r0.next + 1], r0.next, "loop")

\* The leftmost stage.  After a single command that could not be executed
\* there is none, and the null pointer ends the process; a leftmost stage that
\* cannot be executed returns to the main loop as a second shell.
child_last(p) ==
  /\ proc[p].st = "last"
  /\ LET r == redirect_stdout(redirect_stdin_to_file(proc[p]), proc[p].pipefd)
     IN  IF NoFd \in {r.in, r.out} \/ r.next > r.job.n THEN End(p)
         ELSE execvp(p, r, r.next, "subshell")

\* The second shell is left with Ctrl-D or exit.
subshell_exit(p) ==
  /\ proc[p].st = "subshell"
  /\ End(p)

\* A program ends, by itself or because its input or its reader is gone.
program_exit(p) ==
  /\ proc[p].st = "run"
  /\ End(p)

----------------------------------------------------------------------------
(***************************************************************************)
(* Ctrl-C: the terminal sends SIGINT to its foreground group.  Programs    *)
(* die of it.  A process that still runs code of lsh.c runs the handler,   *)
(* which passes the signal on to foreground_pgid; in a child that is 0,    *)
(* for the shell only sets it between fork and the next prompt.            *)
(***************************************************************************)

Interrupted ==
  LET hit == {p \in Members(tty) : proc[p].st = "run"}
      passed_on == {p \in Members(foreground_pgid) : proc[p].st = "run"}
  IN  hit \cup (IF tty = Shell /\ sh # "gone" /\ foreground_pgid > 0
                THEN passed_on ELSE {})

ctrl_c ==
  /\ Interrupted # {}
  /\ proc' = Exit(proc, Interrupted)
  /\ pending' = (pending \cup SigChld(proc, Interrupted)) \ Interrupted
  /\ killed' = killed \cup {p \in Interrupted : proc[p].job.background}
  /\ UNCHANGED <<lines, sh, cmd, child, foreground_pgid, tty>>

----------------------------------------------------------------------------
ShellStep ==
  \/ parent_setpgid \/ parent_foreground \/ parent_tcsetpgrp \/ parent_waitpid
  \/ parent_take_back \/ parent_reset

Child(p) ==
  \/ child_setpgid(p) \/ child_tcsetpgrp(p) \/ child_single(p) \/ child_pipe(p)
  \/ child_right(p) \/ child_loop(p) \/ child_middle(p) \/ child_last(p)

Next ==
  \/ \E j \in Jobs : main_fork(j)
  \/ ShellStep
  \/ shell_exit
  \/ \E q \in Pids \cup {Shell} : sigchld_handler(q)
  \/ \E p \in Pids : Child(p) \/ subshell_exit(p) \/ program_exit(p)
  \/ ctrl_c

Spec == Init /\ [][Next]_vars

\* The operating system schedules the shell, its handlers and its children.
\* Programs are not assumed to end.
FairSpec ==
  /\ Spec
  /\ WF_vars(ShellStep)
  /\ \A q \in Pids \cup {Shell} : WF_vars(sigchld_handler(q))
  /\ \A p \in Pids : WF_vars(Child(p))

----------------------------------------------------------------------------
TypeOK ==
  /\ sh \in {"prompt", "parent", "fg", "tty", "wait", "back", "reset", "gone"}
  /\ lines \in 0..MaxLines /\ cmd \in Jobs \cup {NoJob}
  /\ child \in Pids \cup {0} /\ foreground_pgid \in Pids \cup {0}
  /\ tty \in Pids \cup {Shell}
  /\ pending \subseteq Pids \cup {Shell} /\ killed \subseteq Pids
  /\ \A p \in Pids :
       /\ proc[p].st \in Setup \cup {"none", "run", "zombie"}
       /\ proc[p].parent \in Pids \cup {Shell, Init1}
       /\ proc[p].pgid \in Pids \cup {Shell}

\* At the prompt the shell has the terminal: neither the race between the two
\* tcsetpgrp calls of a foreground job nor a background job takes it away.
TerminalReturned == sh = "prompt" => tty = Shell

\* Ctrl-C never ends a background job (docs/README.md: "Ctrl-C should not
\* affect background jobs"), whoever of parent and child runs setpgid first.
BackgroundSpared == killed = {}

\* A foreground job's group is known to the handler exactly while the shell
\* waits for it, so that a Ctrl-C is never passed on to a later group.
GroupCurrent ==
  foreground_pgid > 0 =>
    foreground_pgid = child /\ sh \in {"tty", "wait", "back", "reset"}

\* From the fork to the end of the leader a Ctrl-C ends every program of the
\* foreground job, whoever of parent and child has given it the terminal by then
\* (docs/README.md: "Ctrl-C should terminate the current foreground
\* process").  What it
\* misses are the stages that have not come to execvp yet: they still have the
\* shell's handler, and in them foreground_pgid is 0.
ForegroundReached ==
  sh \in {"parent", "fg", "tty", "wait"} /\ ~ cmd.background =>
    \A p \in Pids : proc[p].st = "run" /\ proc[p].pgid = child => p \in Interrupted

\* The shell's view of the terminal and of its jobs is right.
Inv == TypeOK /\ TerminalReturned /\ BackgroundSpared /\ GroupCurrent /\ ForegroundReached

\* Every program of a pipeline reads the pipe that its left neighbour writes
\* and holds no other end of any pipe (unless a fork failed), so that end of
\* file and SIGPIPE reach it as soon as a neighbour is gone; the outer ends are
\* the terminal or the files asked for; and no stage runs twice.  This is about
\* pipelines all of whose stages can be executed: one that cannot goes on with
\* the code that follows and makes the stages to its left itself, beside those
\* that the leader makes.
PipesWired ==
  \A p \in Pids : proc[p].st = "run" /\ proc[p].job.bad = {} =>
    LET r == proc[p]
    IN  /\ r.short \/ r.fd = [f \in Fds |-> NoFd]
        /\ r.next = 1 => r.out = Opened(r.job.rstdout, Tty)
        /\ r.next = r.job.n => r.in = Opened(r.job.rstdin, Tty)
        /\ \A q \in Pids \ {p} :
             proc[q].st = "run" /\ proc[q].pgid = r.pgid /\ proc[q].job = r.job =>
               /\ proc[q].next # r.next
               /\ proc[q].next = r.next + 1 =>
                    /\ r.in[3] = "r"
                    /\ proc[q].out = <<r.in[1], r.in[2], "w">>

\* The shell leaves no zombie behind (docs/README.md: "Your shell should not
\* leave any zombie processes behind"): every child of its own that has ended
\* is reaped, by waitpid or by the handler, whichever comes first.
ShellReaps ==
  \A p \in Pids :
    (proc[p].st = "zombie" /\ proc[p].parent = Shell) ~> proc[p].st # "zombie"
=============================================================================
