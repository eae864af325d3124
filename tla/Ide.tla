-------------------------------- MODULE Ide ---------------------------------
(***************************************************************************)
(* One channel of the ATA driver, devices/ide.c, with its two devices: the *)
(* identification of the disks at boot and the reads and writes of the     *)
(* kernel's threads afterwards.  Between two accesses to the channel's     *)
(* registers a thread may be preempted, so each of select, command,        *)
(* sema_down, poll, data transfer and unlock is a step.                    *)
(*                                                                         *)
(* The disk is external: it obeys the PIO protocol (a command makes it     *)
(* busy; a read ends busy with DRQ and an interrupt; a write asks for data *)
(* with DRQ and interrupts when the data are on the medium), and it may    *)
(* fail a command, which shows as DRQ clear.  MaxSpurious interrupts of    *)
(* the channel's line come from nowhere, a case the handler provides for.  *)
(* A disk may be slower than the driver waits: both waits can give up.     *)
(***************************************************************************)
EXTENDS Integers, FiniteSets

CONSTANTS Thread,       \* threads that read and write
          Boot,         \* the thread that runs ide_init, a member of Thread
          Sector, Value,
          None,         \* no thread has the lock
          MaxOps,       \* bound: operations started after boot
          MaxSpurious   \* bound: spurious interrupts

ASSUME IdeAssumption ==
    /\ Boot \in Thread /\ None \notin Thread
    /\ Sector # {} /\ Value # {}

Dev == {0, 1}

VARIABLES
    is_ata,      \* d->is_ata; once boot is over, the disks that are registered
    booting,     \* the device ide_init is identifying, 2 when it is done
    lock,        \* the holder of c->lock
    expecting_interrupt,
    completion_wait,   \* the semaphore's value
    pc, op,      \* each thread's position and operation
    buffer,      \* what each thread's last read returned
    sel,         \* the selected device and sector
    cmd,         \* the command the selected device is executing, or "none"
    bsy, drq,    \* status bits
    data,        \* the device's sector buffer
    irq,         \* the interrupt line
    medium,      \* the contents of the disks
    started, spurious,  \* counters for the bounds
    timed_out,   \* history: one of the driver's two waits has given up
    panicked

driver == <<is_ata, booting, lock, expecting_interrupt, completion_wait>>
device == <<sel, cmd, bsy, drq, data, irq, medium>>
vars == <<driver, pc, op, buffer, device, started, spurious, timed_out, panicked>>

Op == [kind : {"read", "write", "identify"}, dev : Dev, sec : Sector, val : Value]

NoOp == CHOOSE o \in Op : TRUE

AnySector == CHOOSE s \in Sector : TRUE

AnyValue == CHOOSE v \in Value : TRUE

\* reset_channel and check_device_type have found out what is attached.
Init ==
    /\ is_ata \in [Dev -> BOOLEAN]
    /\ booting = 0
    /\ lock = None
    /\ expecting_interrupt = FALSE
    /\ completion_wait = 0
    /\ pc = [t \in Thread |-> "idle"]
    /\ op = [t \in Thread |-> NoOp]
    /\ buffer = [t \in Thread |-> AnyValue]
    /\ sel = [dev |-> 0, sec |-> AnySector]
    /\ cmd = "none"
    /\ bsy = FALSE /\ drq = FALSE
    /\ data = AnyValue
    /\ irq = FALSE
    /\ medium = [d \in Dev |-> [s \in Sector |-> AnyValue]]
    /\ started = 0 /\ spurious = 0
    /\ timed_out = FALSE /\ panicked = FALSE

Goto(t, l) == pc' = [pc EXCEPT ![t] = l]

\* The loop of ide_init: identify the devices that are ATA disks, skip others.
\* identify_ata_device does not take the lock: nobody else runs yet.
ide_init ==
    /\ booting \in Dev
    /\ pc[Boot] = "idle"
    /\ IF is_ata[booting]
       THEN /\ op' = [op EXCEPT ![Boot] = [kind |-> "identify", dev |-> booting,
                                           sec |-> AnySector, val |-> AnyValue]]
            /\ Goto(Boot, "select")
            /\ UNCHANGED booting
       ELSE /\ booting' = booting + 1
            /\ UNCHANGED <<pc, op>>
    /\ UNCHANGED <<is_ata, lock, expecting_interrupt, completion_wait, buffer,
                   device, started, spurious, timed_out, panicked>>

\* A call of ide_read or ide_write on a registered disk.
begin(t, o) ==
    /\ booting = 2
    /\ is_ata[o.dev]
    /\ pc[t] = "idle"
    /\ started < MaxOps
    /\ started' = started + 1
    /\ op' = [op EXCEPT ![t] = o]
    /\ Goto(t, "lock")
    /\ UNCHANGED <<driver, buffer, device, spurious, timed_out, panicked>>

lock_acquire(t) ==
    /\ pc[t] = "lock"
    /\ lock = None
    /\ lock' = t
    /\ Goto(t, "select")
    /\ UNCHANGED <<is_ata, booting, expecting_interrupt, completion_wait, op, buffer,
                   device, started, spurious, timed_out, panicked>>

\* wait_until_idle reads the status, which clears a pending interrupt, until the
\* channel is idle.  After 1000 polls it prints a message and returns all the
\* same, with the channel still at work.
wait_until_idle ==
    /\ irq' = FALSE
    /\ timed_out' = (timed_out \/ bsy \/ drq)

\* A channel at work takes what is written to its registers or ignores it.
Selected(t) ==
    \/ sel' = [dev |-> op[t].dev, sec |-> op[t].sec]
    \/ (bsy \/ drq) /\ UNCHANGED sel

\* The channel is selected without waiting until it is idle.
Mut_select_nowait(t) ==
    /\ pc[t] = "select"
    /\ Selected(t)
    /\ Goto(t, "command")
    /\ UNCHANGED <<driver, op, buffer, cmd, bsy, drq, data, irq, medium, started, spurious,
                   timed_out, panicked>>

\* select_device_wait, then the device and the sector.
select_sector(t) ==
    /\ pc[t] = "select"
    /\ wait_until_idle
    /\ Selected(t)
    /\ Goto(t, "command")
    /\ UNCHANGED <<driver, op, buffer, cmd, bsy, drq, data, medium, started, spurious, panicked>>

\* The command makes an idle device busy; one that is at work (after an idle
\* timeout) obeys it or ignores it.
Obeyed(t) ==
    \/ cmd' = op[t].kind /\ bsy' = TRUE /\ drq' = FALSE
    \/ (bsy \/ drq) /\ UNCHANGED <<cmd, bsy, drq>>

\* The flag is not set.
Mut_command_flag(t) ==
    /\ pc[t] = "command"
    /\ Obeyed(t)
    /\ Goto(t, IF op[t].kind = "write" THEN "poll" ELSE "down")
    /\ UNCHANGED <<driver, op, buffer, sel, data, irq, medium, started, spurious,
                   timed_out,
                   panicked>>

\* The selected device gets the command; its interrupt is expected from now on,
\* and for ever: nothing resets the flag.
issue_pio_command(t) ==
    /\ pc[t] = "command"
    /\ expecting_interrupt' = TRUE
    /\ Obeyed(t)
    /\ Goto(t, IF op[t].kind = "write" THEN "poll" ELSE "down")
    /\ UNCHANGED <<is_ata, booting, lock, completion_wait, op, buffer, sel, data, irq,
                   medium, started, spurious, timed_out, panicked>>

\* sema_down (&c->completion_wait): before the data of a read, after those of a
\* write.
sema_down(t) ==
    /\ pc[t] = "down"
    /\ completion_wait > 0
    /\ completion_wait' = completion_wait - 1
    /\ Goto(t, IF op[t].kind = "write" THEN "return" ELSE "poll")
    /\ UNCHANGED <<is_ata, booting, lock, expecting_interrupt, op, buffer, device,
                   started, spurious, timed_out, panicked>>

\* The poll of a read is left out: an interrupt is taken for data.
Mut_no_poll(t) ==
    /\ pc[t] = "poll"
    /\ Goto(t, "transfer")
    /\ UNCHANGED <<driver, op, buffer, device, started, spurious, timed_out, panicked>>

\* wait_while_busy: a command without DRQ has failed, and so has one over which
\* the disk is still busy after 30 seconds.  IDENTIFY gives up the disk, and
\* leaves the channel as it is; a read or a write panics.
wait_while_busy(t) ==
    /\ pc[t] = "poll"
    /\ \/ /\ ~bsy /\ drq
          /\ Goto(t, "transfer")
          /\ UNCHANGED <<timed_out, panicked, is_ata, booting>>
       \/ /\ bsy \/ ~drq
          /\ op[t].kind # "identify"
          /\ panicked' = TRUE
          /\ timed_out' = (timed_out \/ bsy)
          /\ UNCHANGED <<pc, is_ata, booting>>
       \/ /\ bsy \/ ~drq
          /\ op[t].kind = "identify"
          /\ timed_out' = (timed_out \/ bsy)
          /\ is_ata' = [is_ata EXCEPT ![op[t].dev] = FALSE]
          /\ booting' = booting + 1
          /\ Goto(t, "idle")
          /\ UNCHANGED panicked
    /\ UNCHANGED <<lock, expecting_interrupt, completion_wait, op, buffer, device,
                   started,
                   spurious>>

\* input_sector of a read.
input_sector(t) ==
    /\ pc[t] = "transfer"
    /\ op[t].kind = "read"
    /\ buffer' = [buffer EXCEPT ![t] = data]
    /\ drq' = FALSE
    /\ Goto(t, "return")
    /\ UNCHANGED <<driver, op, sel, cmd, bsy, data, irq, medium, started, spurious,
                   timed_out, panicked>>

\* input_sector of IDENTIFY, the capacity check, and block_register.
identify_ata_device(t) ==
    /\ pc[t] = "transfer"
    /\ op[t].kind = "identify"
    /\ drq' = FALSE
    /\ \E small \in BOOLEAN : is_ata' = [is_ata EXCEPT ![op[t].dev] = small]
    /\ booting' = booting + 1
    /\ Goto(t, "idle")
    /\ UNCHANGED <<lock, expecting_interrupt, completion_wait, op, buffer, sel, cmd,
                   bsy, data, irq, medium, started, spurious, timed_out, panicked>>

\* output_sector of a write: the disk is busy again.
output_sector(t) ==
    /\ pc[t] = "transfer"
    /\ op[t].kind = "write"
    /\ data' = op[t].val
    /\ drq' = FALSE
    /\ bsy' = TRUE
    /\ Goto(t, "down")
    /\ UNCHANGED <<driver, op, buffer, sel, cmd, irq, medium, started, spurious,
                   timed_out, panicked>>

lock_release(t) ==
    /\ pc[t] = "return"
    /\ lock' = None
    /\ op' = [op EXCEPT ![t] = NoOp]
    /\ Goto(t, "idle")
    /\ UNCHANGED <<is_ata, booting, expecting_interrupt, completion_wait, buffer,
                   device, started, spurious, timed_out, panicked>>

\* The handler: an expected interrupt is acknowledged and counted.
interrupt_handler ==
    /\ irq
    /\ irq' = FALSE
    /\ completion_wait' = IF expecting_interrupt THEN completion_wait + 1
                          ELSE completion_wait
    /\ UNCHANGED <<is_ata, booting, lock, expecting_interrupt, pc, op, buffer, sel, cmd,
                   bsy, drq, data, medium, started, spurious, timed_out, panicked>>

\* The disk: the data of a read or of IDENTIFY are ready.
disk_read ==
    /\ bsy
    /\ cmd \in {"read", "identify"}
    /\ data' = medium[sel.dev][sel.sec]
    /\ bsy' = FALSE /\ drq' = TRUE /\ irq' = TRUE
    /\ cmd' = "none"
    /\ UNCHANGED <<driver, pc, op, buffer, sel, medium, started, spurious, timed_out,
                   panicked>>

\* The disk: it wants the data of a write.
disk_wants_data ==
    /\ bsy
    /\ cmd = "write"
    /\ bsy' = FALSE /\ drq' = TRUE
    /\ cmd' = "data"
    /\ UNCHANGED <<driver, pc, op, buffer, sel, data, irq, medium, started, spurious,
                   timed_out, panicked>>

\* The disk: the data of a write are on the medium.
disk_written ==
    /\ bsy
    /\ cmd = "data"
    /\ medium' = [medium EXCEPT ![sel.dev][sel.sec] = data]
    /\ bsy' = FALSE /\ irq' = TRUE
    /\ cmd' = "none"
    /\ UNCHANGED <<driver, pc, op, buffer, sel, drq, data, started, spurious,
                   timed_out, panicked>>

\* The disk fails the command.
disk_error ==
    /\ bsy
    /\ cmd \in {"read", "identify", "write"}
    /\ bsy' = FALSE /\ irq' = TRUE
    /\ cmd' = "none"
    /\ UNCHANGED <<driver, pc, op, buffer, sel, drq, data, medium, started, spurious,
                   timed_out, panicked>>

spurious_interrupt ==
    /\ spurious < MaxSpurious
    /\ ~irq
    /\ spurious' = spurious + 1
    /\ irq' = TRUE
    /\ UNCHANGED <<driver, pc, op, buffer, sel, cmd, bsy, drq, data, medium, started,
                   timed_out, panicked>>

Disk == disk_read \/ disk_wants_data \/ disk_written \/ disk_error

ThreadStep(t) ==
    \/ lock_acquire(t) \/ select_sector(t) \/ issue_pio_command(t) \/ sema_down(t)
    \/ wait_while_busy(t) \/ input_sector(t) \/ identify_ata_device(t)
    \/ output_sector(t) \/ lock_release(t)

Next ==
    /\ ~panicked
    /\ \/ ide_init
       \/ \E t \in Thread, o \in Op : o.kind # "identify" /\ begin(t, o)
       \/ \E t \in Thread : ThreadStep(t)
       \/ interrupt_handler \/ Disk \/ spurious_interrupt

Spec == Init /\ [][Next]_vars

\* A disk that answers, an interrupt line that is served, and threads that run
\* when they can.  Which of the waiting threads gets the lock is left open: the
\* locks of threads/synch.c let a thread overtake (Synch!LockProgress).
FairSpec ==
    /\ Spec
    /\ WF_vars(~panicked /\ Disk)
    /\ WF_vars(~panicked /\ interrupt_handler)
    /\ WF_vars(~panicked /\ ide_init)
    /\ \A t \in Thread : WF_vars(~panicked /\ ThreadStep(t))

-----------------------------------------------------------------------------

Label == {"idle", "lock", "select", "command", "down", "poll", "transfer", "return"}

TypeOK ==
    /\ is_ata \in [Dev -> BOOLEAN] /\ booting \in 0 .. 2
    /\ lock \in Thread \cup {None}
    /\ expecting_interrupt \in BOOLEAN /\ completion_wait \in Nat
    /\ pc \in [Thread -> Label]
    /\ op \in [Thread -> Op] /\ buffer \in [Thread -> Value]
    /\ sel \in [dev : Dev, sec : Sector]
    /\ cmd \in {"none", "read", "write", "identify", "data"}
    /\ bsy \in BOOLEAN /\ drq \in BOOLEAN /\ irq \in BOOLEAN
    /\ data \in Value /\ medium \in [Dev -> [Sector -> Value]]
    /\ started \in Nat /\ spurious \in Nat
    /\ timed_out \in BOOLEAN /\ panicked \in BOOLEAN

\* The threads between lock_acquire() and lock_release(), or identifying a disk.
Using(t) == pc[t] \in {"select", "command", "down", "poll", "transfer", "return"}

\* A command is written only to an idle channel, and the data register is only
\* used while the selected disk asks for it on behalf of this very thread, as
\* long as wait_until_idle has not given up: then the driver goes on regardless.
ChannelProtocol ==
    ~timed_out => \A t \in Thread :
        /\ pc[t] = "command" => ~bsy /\ ~drq /\ cmd = "none"
        /\ pc[t] = "transfer" => drq
        /\ pc[t] \in {"command", "down", "poll", "transfer"} => sel.dev = op[t].dev

\* ide_read returns what is on the disk it was asked about, even when spurious
\* interrupts make it pass the semaphore early: the poll still waits.  When
\* ide_write returns the sector is on the medium ("Returns after the disk has
\* acknowledged receiving the data", ide.c:360), as long as the hardware sends
\* no interrupt of its own.  One spurious interrupt voids that promise, for
\* expecting_interrupt is never cleared and the handler ups the semaphore; the
\* write that returned early leaves the disk at work, and if wait_until_idle
\* then gives up on it, the promise about reads is void as well.
TransfersCorrect ==
    ~timed_out => \A t \in Thread : pc[t] = "return" =>
        /\ op[t].kind = "read" => buffer[t] = medium[op[t].dev][op[t].sec]
        /\ op[t].kind = "write" /\ spurious = 0 =>
               medium[op[t].dev][op[t].sec] = op[t].val

\* Without spurious interrupts a completion is counted once, and between
\* operations none is left over that the next would take for its own.
NoStaleCompletion ==
  spurious = 0 /\ ~timed_out =>
    /\ completion_wait + (IF irq THEN 1 ELSE 0) <= 1
    /\ (lock = None /\ booting = 2) => completion_wait = 0 /\ ~irq /\ ~bsy /\ ~drq

\* Without spurious interrupts neither wait gives up but for a disk that stays
\* busy over the command of a write, and ide_write panics over that: the driver
\* never goes on with a channel it has stopped waiting for.
TimeoutInv == timed_out => spurious > 0 \/ panicked

\* Every operation on the channel ends, or the kernel panics over a failed
\* command, and a free channel that is wanted is taken: no disk answer is missed
\* and the lock never stays with a thread.  Who is next is for the lock to say.
\* The boot gets through both devices.  Nothing is promised once a wait has
\* given up: a command that the disk ignored is waited for without end.
OperationsEnd ==
    /\ \A t \in Thread : Using(t) ~> (pc[t] = "idle" \/ panicked \/ timed_out)
    /\ (lock = None /\ \E t \in Thread : pc[t] = "lock") ~> lock # None
    /\ <>(booting = 2 \/ panicked \/ timed_out)

\* t identifies a disk, or holds the lock.
Owns(t) ==
    IF op[t].kind = "identify"
    THEN t = Boot /\ booting = op[t].dev /\ lock = None /\ pc[t] # "return"
    ELSE lock = t /\ booting = 2

\* The channel has one user: the holder of c->lock or, while ide_init() runs,
\* the boot thread without it.
OwnerInv ==
    /\ \A t \in Thread : Using(t) => Owns(t)
    /\ \A t \in Thread : pc[t] = "lock" => booting = 2 /\ op[t].kind # "identify"
    /\ lock # None => Using(lock)

\* What the status register and the command in progress are, whoever uses the
\* channel.  A write that ended early, on a spurious interrupt, leaves the disk
\* busy with its data.
StatusInv ==
    /\ bsy => ~drq /\ cmd # "none"
    /\ bsy \/ drq => expecting_interrupt
    /\ ~bsy /\ ~drq => cmd = "none"
    /\ drq \/ (bsy /\ cmd # "data") =>
           \E t \in Thread : pc[t] \in {"down", "poll", "transfer"}

\* What the user of the channel knows of the disk at each of its steps.
InStep(t) ==
    /\ pc[t] \in {"command", "down", "poll", "transfer", "return"} =>
           sel = [dev |-> op[t].dev, sec |-> op[t].sec]
    /\ pc[t] = "command" => ~bsy
    /\ pc[t] = "transfer" => drq
    /\ pc[t] \in {"down", "poll", "transfer"} /\ op[t].kind # "write" =>
           /\ cmd = IF bsy THEN op[t].kind ELSE "none"
           /\ drq => data = medium[op[t].dev][op[t].sec]
    /\ pc[t] \in {"poll", "transfer"} /\ op[t].kind = "write" =>
           (bsy => cmd = "write") /\ (drq => cmd = "data")
    /\ pc[t] \in {"down", "return"} /\ op[t].kind = "write" =>
           /\ ~drq /\ data = op[t].val
           /\ IF bsy THEN cmd = "data" ELSE medium[op[t].dev][op[t].sec] = op[t].val
    /\ pc[t] = "return" /\ op[t].kind = "read" =>
           ~bsy /\ buffer[t] = medium[op[t].dev][op[t].sec]

UserInv == \A t \in Thread : InStep(t)

\* The disk is through with t's command (or has failed it) and t has not taken
\* the completion.
Answered(t) ==
    \/ pc[t] = "down" /\ ~bsy
    \/ pc[t] = "poll" /\ op[t].kind = "write" /\ ~bsy /\ ~drq

\* Without spurious interrupts, the line and the semaphore hold one completion
\* when the disk has answered and none otherwise.
CompletionInv ==
    spurious = 0 =>
        /\ irq => expecting_interrupt
        /\ completion_wait + (IF irq THEN 1 ELSE 0) =
               IF \E t \in Thread : Answered(t) THEN 1 ELSE 0
        /\ bsy => \E t \in Thread : pc[t] \in {"down", "poll"}
        /\ \A t \in Thread : pc[t] = "poll" /\ op[t].kind # "write" => ~bsy

\* The inductive invariant.
IndInv ==
    /\ TypeOK /\ OwnerInv /\ TimeoutInv
    /\ ~timed_out => StatusInv /\ UserInv /\ CompletionInv

\* The channel, the disk and the driver are in step with each other.
Inv == IndInv /\ ChannelProtocol /\ NoStaleCompletion
=============================================================================
