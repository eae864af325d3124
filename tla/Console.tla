------------------------------- MODULE Console ------------------------------
(***************************************************************************)
(* Output, interrupts and the end of the kernel: lib/kernel/console.c with *)
(* its recursive lock, intr_handler() of threads/interrupt.c in front of   *)
(* the interrupt controller, the exception handlers of                     *)
(* userprog/exception.c, debug_panic() and devices/shutdown.c.             *)
(*                                                                         *)
(* Each thread has a stack of frames, the running one first: an interrupt, *)
(* a fault or a panic pushes frames on the stack of the thread it strikes. *)
(* Locks are taken and released in one step (module Synch shows that this  *)
(* is what they provide); a message has MsgLen characters.                 *)
(***************************************************************************)
EXTENDS Integers, Sequences, FiniteSets, SequencesExt

CONSTANTS Threads, Main, Idle, None,
          MsgLen, TIME_SLICE,
          MaxLevel         \* bound: panics the kernel stack has room for

VARIABLES cpu,      \* cur, ready list, thread_ticks
          stack,    \* the frames of each thread
          iff,      \* the interrupt flag of each thread
          con,      \* use_console_lock, console_lock_depth
          lock,     \* holder and waiters of console_lock and of malloc's lock
          intr,     \* in_external_intr, yield_on_return
          pic,      \* lines in service on master and slave
          panic,    \* level
          how,      \* shutdown_configure(), "?" until it matters
          power

vars == <<cpu, stack, iff, con, lock, intr, pic, panic, how, power>>

All == Threads \cup {Idle}

\* Lines of the master by priority: 1 the timer, 2 the slave, 3 a line nobody
\* handles, 4 the line of spurious interrupts.  The disk is on the slave.
Vectors == {"timer", "ide", "stray", "spurious"}
Line == [timer |-> 1, ide |-> 2, stray |-> 3, spurious |-> 4]
OnSlave(vec) == vec = "ide"

Message == [op |-> "print", pc |-> "acquire", left |-> MsgLen]
Frame(op, pc) == [op |-> op, pc |-> pc]

Frames(t, op) == {i \in DOMAIN stack[t] : stack[t][i].op = op}
Top(t) == Head(stack[t])
At(t, op, pc) ==
  power = "on" /\ cpu.cur = t /\ stack[t] # <<>> /\ Top(t).op = op /\ Top(t).pc = pc
Free(t) == power = "on" /\ cpu.cur = t /\ stack[t] = <<>>

Goto(t, pc) == [stack EXCEPT ![t][1].pc = pc]
Push(t, frames) == [stack EXCEPT ![t] = frames \o @]
Pop(t) == [stack EXCEPT ![t] = Tail(@)]

Scheduled(ready) ==
  IF ready = <<>> THEN [cur |-> Idle, ready |-> <<>>, ticks |-> 0]
  ELSE [cur |-> Head(ready), ready |-> Tail(ready), ticks |-> 0]

Block(t, l) ==
  /\ lock' = [lock EXCEPT ![l].waiters = Append(@, t)]
  /\ cpu' = Scheduled(cpu.ready)

\* Releasing a lock makes the first waiter ready, to try again.
Released(l) ==
  [lock EXCEPT ![l] = [holder |-> None,
                       waiters |-> IF @.waiters = <<>> THEN <<>> ELSE Tail(@.waiters)]]
Woken(l) ==
  IF lock[l].waiters = <<>> THEN cpu
  ELSE [cpu EXCEPT !.ready = Append(@, Head(lock[l].waiters))]

\* main() up to console_init() runs alone with interrupts off; its output so
\* far is one message.
Init ==
  /\ cpu = [cur |-> Main, ready |-> <<>>, ticks |-> 0]
  /\ stack = [t \in All |-> IF t = Main THEN <<Message, Frame("boot", "console_init")>> ELSE <<>>]
  /\ iff = [t \in All |-> t # Main]
  /\ con = [use |-> FALSE, depth |-> 0]
  /\ lock = [l \in {"console", "heap"} |-> [holder |-> None, waiters |-> <<>>]]
  /\ intr = [ext |-> FALSE, yield |-> FALSE]
  /\ pic = [master |-> {}, slave |-> {}]
  /\ panic = 0 /\ power = "on"
  /\ how = "?"

\* With it the way to thread_start(), which turns interrupts on and lets other
\* threads run, is over: main() is alone until then.
console_init(t) ==
  /\ At(t, "boot", "console_init")
  /\ con' = [con EXCEPT !.use = TRUE]
  /\ stack' = Pop(t) /\ iff' = [iff EXCEPT ![t] = TRUE]
  /\ cpu' = [cpu EXCEPT !.ready = SetToSeq(Threads \ {t})]
  /\ UNCHANGED <<lock, intr, pic, panic, how, power>>

----------------------------------------------------------------------------
(* console.c *)

\* Mutant: a thread that has the lock waits for itself.
Mut_acquire_console(t) ==
  /\ At(t, "print", "acquire")
  /\ IF ~ intr.ext /\ con.use /\ lock["console"].holder # None
     THEN Block(t, "console") /\ UNCHANGED stack
     ELSE /\ stack' = Goto(t, "put") /\ UNCHANGED cpu
          /\ lock' = IF intr.ext \/ ~ con.use THEN lock ELSE [lock EXCEPT !["console"].holder = t]
  /\ UNCHANGED <<con, iff, intr, pic, panic, how, power>>

acquire_console(t) ==
  /\ At(t, "print", "acquire")
  /\ IF ~ intr.ext /\ con.use /\ lock["console"].holder \notin {t, None}
     THEN Block(t, "console") /\ UNCHANGED <<stack, con>>
     ELSE /\ stack' = Goto(t, "put") /\ UNCHANGED cpu
          /\ IF intr.ext \/ ~ con.use THEN UNCHANGED <<lock, con>>
             ELSE IF lock["console"].holder = t
             THEN con' = [con EXCEPT !.depth = @ + 1] /\ UNCHANGED lock
             ELSE lock' = [lock EXCEPT !["console"].holder = t] /\ UNCHANGED con
  /\ UNCHANGED <<iff, intr, pic, panic, how, power>>

console_locked_by_current_thread(t) ==
  intr.ext \/ ~ con.use \/ lock["console"].holder = t

\* One character, to serial_putc() and vga_putc().
putchar_have_lock(t) ==
  /\ At(t, "print", "put")
  /\ stack' = IF ~ console_locked_by_current_thread(t) THEN Push(t, <<Frame("panic", "enter")>>)
              ELSE [stack EXCEPT ![t][1].left = @ - 1,
                                 ![t][1].pc = IF Top(t).left = 1 THEN "release" ELSE "put"]
  /\ UNCHANGED <<cpu, iff, con, lock, intr, pic, panic, how, power>>

\* Mutant: a nested message releases the lock.
Mut_release_console(t) ==
  /\ At(t, "print", "release")
  /\ stack' = Pop(t)
  /\ IF intr.ext \/ ~ con.use \/ lock["console"].holder # t THEN UNCHANGED <<lock, con, cpu>>
     ELSE /\ lock' = Released("console") /\ cpu' = Woken("console")
          /\ con' = [con EXCEPT !.depth = 0]
  /\ UNCHANGED <<iff, intr, pic, panic, how, power>>

release_console(t) ==
  /\ At(t, "print", "release")
  /\ stack' = Pop(t)
  /\ IF intr.ext \/ ~ con.use THEN UNCHANGED <<lock, con, cpu>>
     ELSE IF con.depth > 0 THEN con' = [con EXCEPT !.depth = @ - 1] /\ UNCHANGED <<lock, cpu>>
     ELSE lock' = Released("console") /\ cpu' = Woken("console") /\ UNCHANGED con
  /\ UNCHANGED <<iff, intr, pic, panic, how, power>>

----------------------------------------------------------------------------
(* What threads do: print, use malloc's lock, end *)

StartPrint(t) ==
  /\ Free(t) /\ t # Idle
  /\ stack' = Push(t, <<Message>>)
  /\ UNCHANGED <<cpu, iff, con, lock, intr, pic, panic, how, power>>

StartMalloc(t) ==
  /\ Free(t) /\ t # Idle
  /\ stack' = Push(t, <<Frame("malloc", "acquire")>>)
  /\ UNCHANGED <<cpu, iff, con, lock, intr, pic, panic, how, power>>

MallocAcquire(t) ==
  /\ At(t, "malloc", "acquire")
  /\ IF lock["heap"].holder # None THEN Block(t, "heap") /\ UNCHANGED stack
     ELSE /\ lock' = [lock EXCEPT !["heap"].holder = t] /\ stack' = Goto(t, "release")
          /\ UNCHANGED cpu
  /\ UNCHANGED <<iff, con, intr, pic, panic, how, power>>

MallocRelease(t) ==
  /\ At(t, "malloc", "release")
  /\ lock' = Released("heap") /\ cpu' = Woken("heap") /\ stack' = Pop(t)
  /\ UNCHANGED <<iff, con, intr, pic, panic, how, power>>

\* The end of main(): run_actions() has returned.
StartShutdown ==
  /\ Free(Main)
  /\ stack' = Push(Main, <<Frame("shutdown", "enter"), Frame("exit", "enter")>>)
  /\ UNCHANGED <<cpu, iff, con, lock, intr, pic, panic, how, power>>

\* The thread stays on top of its "exit" frame and never runs again.
thread_exit(t) ==
  /\ At(t, "exit", "enter")
  /\ stack' = Goto(t, "dead") /\ cpu' = Scheduled(cpu.ready)
  /\ UNCHANGED <<iff, con, lock, intr, pic, panic, how, power>>

----------------------------------------------------------------------------
(* exception.c: a page fault in user mode kills the process, in the kernel *)
(* it is a bug.  The line of page_fault() and the dump of kill() are one   *)
(* message.                                                                *)

page_fault(t, user) ==
  /\ iff' = [iff EXCEPT ![t] = ~ intr.ext]
  /\ stack' = Push(t, IF intr.ext THEN <<Frame("panic", "enter")>>
                      ELSE <<Message, IF user THEN Frame("exit", "enter")
                                      ELSE Frame("kill", "enter")>>)
  /\ UNCHANGED <<cpu, con, lock, intr, pic, panic, how, power>>

kill(t) ==
  /\ At(t, "kill", "enter")
  /\ stack' = Push(t, <<Frame("panic", "enter")>>)
  /\ UNCHANGED <<cpu, iff, con, lock, intr, pic, panic, how, power>>

UserFault(t) == Free(t) /\ t # Idle /\ page_fault(t, TRUE)

\* A kernel after boot with one bug, which has not shown yet.
NoBugYet == \A u \in All, op \in {"boot", "kill", "panic"} : Frames(u, op) = {}

\* In the kernel: printf() follows a bad pointer.
KernelFault(t) ==
  /\ At(t, "print", "put") /\ NoBugYet
  /\ page_fault(t, FALSE)

\* An assertion fails in a thread, with malloc's lock or without any, or in a
\* device's handler.
Assertion(t) ==
  /\ NoBugYet
  /\ \/ t # Idle /\ Free(t)
     \/ At(t, "malloc", "release")
     \/ At(t, "intr", "exit") /\ Top(t).vec \in {"timer", "ide"}
  /\ stack' = Push(t, <<Frame("panic", "enter")>>)
  /\ UNCHANGED <<cpu, iff, con, lock, intr, pic, panic, how, power>>

----------------------------------------------------------------------------
(* interrupt.c and the two interrupt controllers *)

\* The controller offers a raised line unless one of at least its priority is
\* in service.  A line raised while interrupts are off waits for them, so all
\* that counts is when it is offered.
Offered(vec) == \A l \in pic.master : Line[vec] < l

\* The processor takes it through an interrupt gate, which turns interrupts
\* off; intr_handler() notes that it is external and calls the registered
\* handler, or unexpected_interrupt(), which PRINTS whenever its count is a power
\* of 2.  A spurious interrupt is a line that is gone when the processor asks
\* for it: nothing is in service then.
intr_handler(t, vec, prints) ==
  LET ticks == IF cpu.ticks < TIME_SLICE THEN cpu.ticks + 1 ELSE TIME_SLICE
  IN  /\ power = "on" /\ cpu.cur = t /\ iff[t] /\ Offered(vec)
      /\ prints => vec = "stray"
      /\ pic' = [master |-> IF vec = "spurious" THEN pic.master ELSE pic.master \cup {Line[vec]},
                 slave |-> IF OnSlave(vec) THEN pic.slave \cup {vec} ELSE pic.slave]
      /\ iff' = [iff EXCEPT ![t] = FALSE]
      /\ cpu' = IF vec = "timer" THEN [cpu EXCEPT !.ticks = ticks] ELSE cpu
      /\ intr' = [ext |-> TRUE, yield |-> vec = "timer" /\ ticks >= TIME_SLICE]
      /\ stack' = Push(t, (IF prints THEN <<Message>> ELSE <<>>)
                          \o <<[op |-> "intr", pc |-> "exit", vec |-> vec]>>)
      /\ UNCHANGED <<con, lock, panic, how, power>>

Highest(lines) == {l \in lines : \A k \in lines : l <= k}

\* Each controller retires its line in service of highest priority.
pic_end_of_interrupt(vec) ==
  [pic EXCEPT !.master = @ \ Highest(@), !.slave = IF OnSlave(vec) THEN {} ELSE @]

thread_yield(t) == Scheduled(IF t = Idle THEN cpu.ready ELSE Append(cpu.ready, t))

\* Mutant: the acknowledgement is left to the way out, after the switch.
Mut_intr_exit(t) ==
  /\ At(t, "intr", "exit")
  /\ intr' = [intr EXCEPT !.ext = FALSE]
  /\ IF intr.yield
     THEN cpu' = thread_yield(t) /\ stack' = Goto(t, "iret") /\ UNCHANGED <<iff, pic>>
     ELSE /\ stack' = Pop(t) /\ iff' = [iff EXCEPT ![t] = TRUE] /\ UNCHANGED cpu
          /\ pic' = pic_end_of_interrupt(Top(t).vec)
  /\ UNCHANGED <<con, lock, panic, how, power>>

intr_exit(t) ==
  /\ At(t, "intr", "exit")
  /\ intr' = [intr EXCEPT !.ext = FALSE]
  /\ pic' = pic_end_of_interrupt(Top(t).vec)
  /\ IF intr.yield THEN cpu' = thread_yield(t) /\ stack' = Goto(t, "iret") /\ UNCHANGED iff
     ELSE stack' = Pop(t) /\ iff' = [iff EXCEPT ![t] = TRUE] /\ UNCHANGED cpu
  /\ UNCHANGED <<con, lock, panic, how, power>>

intr_return(t) ==
  /\ At(t, "intr", "iret")
  /\ stack' = Pop(t) /\ iff' = [iff EXCEPT ![t] = TRUE]
  /\ UNCHANGED <<cpu, con, lock, intr, pic, panic, how, power>>

----------------------------------------------------------------------------
(* debug.c and shutdown.c *)

\* It never returns, so the frames below it are gone.
debug_panic(t) ==
  /\ At(t, "panic", "enter")
  /\ iff' = [iff EXCEPT ![t] = FALSE]
  /\ con' = [con EXCEPT !.use = FALSE]
  /\ panic' = IF panic < MaxLevel THEN panic + 1 ELSE panic
  /\ stack' = [stack EXCEPT ![t] = (IF panic < 2 THEN <<Message>> ELSE <<>>)
                 \o <<Frame("shutdown", "enter"), Frame("panic", "halt")>>]
  /\ UNCHANGED <<cpu, lock, intr, pic, how, power>>

\* for (;;);
PanicHalt(t) ==
  /\ At(t, "panic", "halt")
  /\ power' = "hung"
  /\ UNCHANGED <<cpu, stack, iff, con, lock, intr, pic, panic, how>>

shutdown(t) ==
  /\ At(t, "shutdown", "enter")
  /\ how' \in IF how = "?" THEN {"none", "power_off", "reboot"} ELSE {how}
  /\ stack' = CASE how' = "none" -> Pop(t)
                [] how' = "reboot" -> [stack EXCEPT ![t] = <<Message>> \o Goto(t, "reset")[t]]
                [] how' = "power_off" -> Goto(t, "filesys_done")
  /\ UNCHANGED <<cpu, iff, con, lock, intr, pic, panic, power>>

\* Mutant: the lock must be free (a lock_try_acquire() that has to succeed).
Mut_filesys_done(t) ==
  LET asserts == intr.ext \/ lock["heap"].holder # None
  IN  /\ At(t, "shutdown", "filesys_done")
      /\ power' = IF asserts /\ panic = MaxLevel THEN "overflow" ELSE power
      /\ stack' = IF asserts THEN Push(t, <<Frame("panic", "enter")>>)
                  ELSE [stack EXCEPT ![t] = <<Message>> \o Goto(t, "off")[t]]
      /\ UNCHANGED <<lock, cpu, iff, con, intr, pic, panic, how>>

\* shutdown_power_off() of a kernel with a file system, up to its last message:
\* filesys_done() closes the free map, so free() takes malloc's lock.  The
\* assertions of lock_acquire() fail in an interrupt and in the lock's holder:
\* a panic within the panic, which shuts down again, until the stack overflows.
filesys_done(t) ==
  LET asserts == intr.ext \/ lock["heap"].holder = t
      busy == ~ asserts /\ lock["heap"].holder # None
  IN  /\ At(t, "shutdown", "filesys_done")
      /\ IF busy THEN Block(t, "heap") ELSE UNCHANGED <<lock, cpu>>
      /\ power' = IF asserts /\ panic = MaxLevel THEN "overflow" ELSE power
      /\ stack' = CASE asserts -> Push(t, <<Frame("panic", "enter")>>)
                    [] busy -> stack
                    [] OTHER -> [stack EXCEPT ![t] = <<Message>> \o Goto(t, "off")[t]]
      /\ UNCHANGED <<iff, con, intr, pic, panic, how>>

PowerOff(t) ==
  /\ At(t, "shutdown", "off") \/ At(t, "shutdown", "reset")
  /\ power' = how
  /\ UNCHANGED <<cpu, stack, iff, con, lock, intr, pic, panic, how>>

----------------------------------------------------------------------------

\* What the running thread does next once it is in kernel code.
ThreadStep(t) ==
  \/ console_init(t) \/ acquire_console(t) \/ putchar_have_lock(t) \/ release_console(t)
  \/ MallocAcquire(t) \/ MallocRelease(t) \/ thread_exit(t) \/ kill(t)
  \/ debug_panic(t) \/ PanicHalt(t) \/ shutdown(t) \/ filesys_done(t) \/ PowerOff(t)

IntrStep(t) == intr_exit(t) \/ intr_return(t)
Interrupted(t, vec) == \E prints \in BOOLEAN : intr_handler(t, vec, prints)

ThreadStarts(t) == StartPrint(t) \/ StartMalloc(t) \/ UserFault(t) \/ KernelFault(t) \/ Assertion(t)

Next ==
  \/ \E t \in All : ThreadStep(t) \/ IntrStep(t) \/ ThreadStarts(t)
                  \/ \E vec \in Vectors : Interrupted(t, vec)
  \/ StartShutdown

\* A thread in the kernel goes on, however often it is interrupted, and the
\* timer keeps ticking.
Fairness ==
  /\ WF_vars(\E t \in All : IntrStep(t) \/ (intr.ext /\ ThreadStep(t)))
  /\ \A t \in Threads : SF_vars(~ intr.ext /\ ThreadStep(t))
  /\ SF_vars(\E t \in All : Interrupted(t, "timer"))

Spec == Init /\ [][Next]_vars /\ Fairness

----------------------------------------------------------------------------

\* Messages of T that have the lock, not counting those of a handler.
Own(t) == {i \in Frames(t, "print") :
             /\ stack[t][i].pc # "acquire"
             /\ ~ \E j \in Frames(t, "intr") : j > i /\ stack[t][j].pc # "iret"}
Handling(t) == {i \in Frames(t, "intr") : stack[t][i].pc # "iret"}

\* The console lock, interrupt state and controller always agree with what is
\* under way: the lock is held by the thread in the middle of a message, with
\* a depth of one less than its nested messages (acquire_console and
\* release_console); in_external_intr holds exactly while a handler runs, at
\* most one, never in a thread that is not running (intr_handler); outside
\* handlers nothing is left in service, so no line is shut out; who runs with
\* interrupts on is not in a handler.
ConsoleInv ==
  /\ con.use => \A t \in All :
       IF lock["console"].holder = t THEN con.depth = Cardinality(Own(t)) - 1
       ELSE Own(t) = {}
  /\ panic = 0 => \A t \in All : Cardinality(Handling(t)) = IF intr.ext /\ t = cpu.cur THEN 1 ELSE 0
  /\ ~ intr.ext => pic.master = {} /\ pic.slave = {}
  /\ Cardinality(pic.master) <= 1
  /\ \A t \in All : iff[t] => Handling(t) = {}
  /\ cpu.cur \notin ToSet(cpu.ready)
  /\ \A l \in DOMAIN lock : ToSet(lock[l].waiters) \cap (ToSet(cpu.ready) \cup {cpu.cur}) = {}

\* Until the kernel panics no two threads are both in the middle of a message:
\* the output of printf(), puts() and putbuf() is not mixed, except with that
\* of handlers; no assertion of the console fails, and no thread ends with
\* the console lock.
MessagesWhole ==
  panic = 0 =>
    /\ \A t, u \in All : t # u => Own(t) = {} \/ Own(u) = {} \/ ~ con.use
    /\ \A t \in All : At(t, "print", "put") => console_locked_by_current_thread(t)
    /\ \A t \in All : Frames(t, "exit") # {} /\ Top(t).op = "exit" => lock["console"].holder # t

\* The console lock always comes free again unless the kernel stops: whoever
\* has it is not kept from going on by those who wait for it, by faults in the
\* middle of a message or by interrupts.  (Which waiter gets it next is open:
\* the lock is not fair.)
ConsoleComesFree ==
  lock["console"].holder # None ~> lock["console"].holder = None \/ panic > 0 \/ power # "on"

\* What "-q" and "-r" ask for, or the endless loop of debug_panic().
Configured == power = (IF how = "none" THEN "hung" ELSE how)

\* "Halts the OS" (debug.c:16), "Power off VM after actions or on panic"
\* (init.c:370): a panic stops the machine as configured, whatever other threads
\* are doing, also when one of them has malloc's lock, which shutdown_power_off()
\* needs, provided the others do not take it forever.  Without "-q" this holds of
\* every panic; with it, of those outside interrupt handlers in threads that do
\* not have malloc's lock themselves (for the others the code breaks its word).
PanicStops ==
  <>[](\A t \in Threads : Frames(t, "malloc") = {}) =>
    /\ panic > 0 ~> Configured \/ how = "power_off"
    /\ \A t \in Threads :
         (At(t, "panic", "enter") /\ ~ intr.ext /\ lock["heap"].holder # t) ~> Configured
=============================================================================
