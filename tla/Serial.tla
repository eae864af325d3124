------------------------------- MODULE Serial -------------------------------
(***************************************************************************)
(* Character input and output: the serial port driver (devices/serial.c),  *)
(* the input buffer (devices/input.c), the keyboard's use of it            *)
(* (devices/kbd.c) and the shutdown flush (devices/shutdown.c), over two   *)
(* interrupt queues.                                                       *)
(*                                                                         *)
(* A section with interrupts off is one step up to the point where the     *)
(* thread blocks; a handler is one step.  The UART is external: it holds   *)
(* one byte each way and raises an interrupt while an enabled condition    *)
(* holds.  Output goes through the console lock (console.c asserts that    *)
(* its holder calls serial_putc), so a byte is numbered when its writer    *)
(* has that lock.  txq.lock is only taken under the console lock and never *)
(* contended; the input buffer's lock is modelled, since nothing keeps two *)
(* threads from calling input_getc.                                        *)
(***************************************************************************)
EXTENDS Intq, FiniteSets

CONSTANTS Writer, Reader,  \* threads that print, threads that read keys
          MaxTx, MaxRx     \* bounds: bytes printed, bytes that arrive

ASSUME SerialAssumption ==
    /\ MaxTx \in Nat /\ MaxRx \in Nat
    /\ Writer \cap Reader = {}
    /\ NULL \notin Writer \cup Reader

VARIABLES
    mode,     \* UNINIT is left before anything can interleave: POLL or QUEUE
    txq,      \* the transmit queue
    buffer,   \* the input buffer
    ier,      \* the UART's interrupt enable register
    thre,     \* UART: ready for a byte to transmit
    rbr,      \* UART: the byte received, 0 if none
    out,      \* what the UART has sent
    console,  \* the holder of the console lock
    sent,     \* number of bytes handed to serial_putc so far
    lock,     \* the holder of buffer.lock
    pc,       \* what each thread is doing
    arrived,  \* number of bytes that reached a device
    entered,  \* history: the bytes that entered the input buffer
    got,      \* history: the bytes returned by input_getc
    failed,   \* an ASSERT of intq.c has failed
    halted    \* the machine is off

txvars == <<mode, txq, out, console, sent>>
rxvars == <<buffer, lock, entered, got>>
vars == <<mode, txq, buffer, ier, thre, rbr, out, console, sent, lock, pc,
          arrived, entered, got, failed, halted>>

Thread == Writer \cup Reader

Init ==
    /\ mode = "POLL"
    /\ txq = intq_init
    /\ buffer = intq_init
    /\ ier = {}
    /\ thre = TRUE
    /\ rbr = 0
    /\ out = <<>>
    /\ console = NULL
    /\ sent = 0
    /\ lock = NULL
    /\ pc = [t \in Thread |-> "idle"]
    /\ arrived = 0
    /\ entered = <<>>
    /\ got = <<>>
    /\ failed = FALSE
    /\ halted = FALSE

\* The value write_ier computes from the queues.
ier_of(tx, rx) == (IF intq_empty(tx) THEN {} ELSE {"XMIT"})
                  \cup (IF intq_full(rx) THEN {} ELSE {"RECV"})

\* write_ier, with the queues as they are at the call.
write_ier(tx, rx) == ier' = ier_of(tx, rx)

Mut_notify_nothing(rx) == UNCHANGED ier

\* Called when the input buffer has changed.
serial_notify(rx) == IF mode = "QUEUE" THEN write_ier(txq, rx) ELSE UNCHANGED ier

\* The threads that a signal on a condition of the queue unblocks.
Unblock(t) == [x \in Thread |-> IF x = t THEN "woken" ELSE pc[x]]

serial_init_queue ==
    /\ mode = "POLL"
    /\ mode' = "QUEUE"
    /\ write_ier(txq, buffer)
    /\ UNCHANGED <<txq, out, console, sent, rxvars, thre, rbr, pc, arrived, failed, halted>>

\* A writer has the console lock and the next byte to print.
acquire_console(w) ==
    /\ pc[w] = "idle"
    /\ console = NULL
    /\ sent < MaxTx
    /\ console' = w
    /\ sent' = sent + 1
    /\ pc' = [pc EXCEPT ![w] = "putc"]
    /\ UNCHANGED <<mode, txq, out, rxvars, ier, thre, rbr, arrived, failed, halted>>

\* serial_putc in polling mode, from putc_poll to its return.
serial_putc_poll(w) ==
    /\ pc[w] = "putc"
    /\ mode = "POLL"
    /\ thre
    /\ thre' = FALSE
    /\ out' = Append(out, sent)
    /\ console' = NULL
    /\ pc' = [pc EXCEPT ![w] = "idle"]
    /\ UNCHANGED <<mode, txq, sent, rxvars, ier, rbr, arrived, failed, halted>>

\* intq_putc when there is room, write_ier, and the return to the console.
queue_byte(w) ==
    /\ ~intq_full(txq)
    /\ txq' = put(txq, sent)
    /\ write_ier(txq', buffer)
    /\ console' = NULL
    /\ pc' = [pc EXCEPT ![w] = "idle"]
    /\ UNCHANGED <<thre, out>>

\* The queue is full and interrupts were on: wait for not_full.
wait_not_full(w) ==
    /\ intq_full(txq)
    /\ txq' = [txq EXCEPT !.not_full = w]
    /\ pc' = [pc EXCEPT ![w] = "wait"]
    /\ UNCHANGED <<ier, thre, out, console>>

\* The new byte is polled out past the queued ones.
Mut_poll_newest(w) ==
    /\ intq_full(txq)
    /\ thre
    /\ thre' = FALSE
    /\ out' = Append(out, sent)
    /\ txq' = txq
    /\ write_ier(txq', buffer)
    /\ console' = NULL
    /\ pc' = [pc EXCEPT ![w] = "idle"]

\* The queue is full and interrupts were off: the oldest byte is polled out.
poll_oldest(w) ==
    /\ intq_full(txq)
    /\ thre
    /\ thre' = FALSE
    /\ out' = Append(out, front(txq))
    /\ txq' = put(get(txq), sent)
    /\ write_ier(txq', buffer)
    /\ console' = NULL
    /\ pc' = [pc EXCEPT ![w] = "idle"]

\* serial_putc in queue mode, the caller's interrupts on or off.
serial_putc(w) ==
    /\ pc[w] = "putc"
    /\ mode = "QUEUE"
    /\ queue_byte(w) \/ wait_not_full(w) \/ poll_oldest(w)
    /\ UNCHANGED <<mode, sent, rxvars, rbr, arrived, failed, halted>>

\* Back from thread_block in intq_putc.  The loop tests intq_full again and finds
\* room: this writer still has the console lock, so nobody else queues a byte.
putc_resume(w) ==
    /\ pc[w] = "woken"
    /\ queue_byte(w)
    /\ UNCHANGED <<mode, sent, rxvars, rbr, arrived, failed, halted>>

\* intq_getc finds a byte, serial_notify, and input_getc returns it.
take_key(r) ==
    /\ ~intq_empty(buffer)
    /\ got' = Append(got, front(buffer))
    /\ buffer' = get(buffer)
    /\ txq' = txq
    /\ serial_notify(buffer')
    /\ pc' = [pc EXCEPT ![r] = "idle"]

\* intq_getc finds the queue empty and gets the lock: wait for not_empty.
wait_not_empty(r) ==
    /\ intq_empty(buffer)
    /\ lock' = r
    /\ buffer' = [buffer EXCEPT !.not_empty = r]
    /\ pc' = [pc EXCEPT ![r] = "wait"]

input_getc(r) ==
    /\ pc[r] = "idle"
    /\ \/ /\ take_key(r)
          /\ UNCHANGED lock
       \/ /\ lock = NULL
          /\ wait_not_empty(r)
          /\ UNCHANGED <<ier, txq, got>>
       \/ /\ intq_empty(buffer)
          /\ lock # NULL
          /\ pc' = [pc EXCEPT ![r] = "lock"]
          /\ UNCHANGED <<lock, buffer, ier, txq, got>>
    /\ UNCHANGED <<mode, out, console, sent, entered, thre, rbr, arrived, failed, halted>>

\* A thread that blocked in lock_acquire has the lock and enters wait(), which
\* asserts that the queue is (still) empty.
lock_resume(r) ==
    /\ pc[r] = "lock"
    /\ lock = NULL
    /\ \/ /\ wait_not_empty(r)
          /\ UNCHANGED failed
       \/ /\ ~intq_empty(buffer)
          /\ failed' = TRUE
          /\ UNCHANGED <<lock, buffer, pc>>
    /\ UNCHANGED <<txvars, entered, got, ier, thre, rbr, arrived, halted>>

\* The lock is acquired again instead of released.
Mut_getc_resume(r) ==
    /\ pc[r] = "woken"
    /\ lock = NULL
    /\ wait_not_empty(r)
    /\ UNCHANGED <<ier, txq, got>>
    /\ UNCHANGED <<mode, out, console, sent, entered, thre, rbr, arrived, failed, halted>>

\* Back from thread_block in intq_getc: lock_release, test intq_empty again.
getc_resume(r) ==
    /\ pc[r] = "woken"
    /\ \/ /\ lock' = NULL
          /\ take_key(r)
       \/ /\ wait_not_empty(r)
          /\ UNCHANGED <<ier, txq, got>>
    /\ UNCHANGED <<mode, out, console, sent, entered, thre, rbr, arrived, failed, halted>>

\* The queues after serial_interrupt has received and sent what it could.
rx_after == IF rbr # 0 /\ ~intq_full(buffer) THEN put(buffer, rbr) ELSE buffer

tx_after == IF thre /\ ~intq_empty(txq) THEN get(txq) ELSE txq

\* The interrupt of the UART: one byte received if there is room, one sent if
\* there is one, the threads waiting for either woken.
serial_interrupt ==
    /\ mode = "QUEUE"
    /\ ("XMIT" \in ier /\ thre) \/ ("RECV" \in ier /\ rbr # 0)
    /\ buffer' = rx_after
    /\ entered' = IF rx_after = buffer THEN entered ELSE Append(entered, rbr)
    /\ rbr' = IF rx_after = buffer THEN rbr ELSE 0
    /\ txq' = tx_after
    /\ out' = IF tx_after = txq THEN out ELSE Append(out, front(txq))
    /\ thre' = (thre /\ intq_empty(txq))
    /\ pc' = [t \in Thread |->
                IF \/ t = txq.not_full /\ tx_after.not_full = NULL
                   \/ t = buffer.not_empty /\ rx_after.not_empty = NULL
                THEN "woken" ELSE pc[t]]
    /\ write_ier(tx_after, rx_after)
    /\ UNCHANGED <<mode, console, sent, lock, got, arrived, failed, halted>>

\* A key press: the key is dropped when the input buffer is full.
keyboard_interrupt ==
    /\ arrived < MaxRx
    /\ arrived' = arrived + 1
    /\ IF intq_full(buffer)
       THEN UNCHANGED <<buffer, entered, pc, ier, txq>>
       ELSE /\ buffer' = put(buffer, arrived + 1)
            /\ entered' = Append(entered, arrived + 1)
            /\ pc' = Unblock(buffer.not_empty)
            /\ txq' = txq
            /\ serial_notify(buffer')
    /\ UNCHANGED <<mode, out, console, sent, lock, got, thre, rbr, failed, halted>>

\* serial_flush: every queued byte is polled out.
serial_flush ==
    /\ out' = out \o Contents(txq)
    /\ txq' = [txq EXCEPT !.tail = txq.head, !.not_full = NULL]

\* shutdown_power_off (and a panic) flushes and stops the machine.
shutdown_power_off ==
    /\ serial_flush
    /\ halted' = TRUE
    /\ UNCHANGED <<mode, console, sent, rxvars, ier, thre, rbr, pc, arrived, failed>>

\* The UART has sent its byte; a byte has come in over the line.
uart_ready ==
    /\ ~thre
    /\ thre' = TRUE
    /\ UNCHANGED <<txvars, rxvars, ier, rbr, pc, arrived, failed, halted>>

uart_receive ==
    /\ rbr = 0
    /\ arrived < MaxRx
    /\ arrived' = arrived + 1
    /\ rbr' = arrived + 1
    /\ UNCHANGED <<txvars, rxvars, ier, thre, pc, failed, halted>>

WriterStep(w) == serial_putc_poll(w) \/ serial_putc(w) \/ putc_resume(w)

ReaderStep(r) == lock_resume(r) \/ getc_resume(r)

Running == ~halted /\ ~failed

Next ==
    /\ Running
    /\ \/ serial_init_queue \/ serial_interrupt \/ keyboard_interrupt
       \/ shutdown_power_off \/ uart_ready \/ uart_receive
       \/ \E w \in Writer : acquire_console(w) \/ WriterStep(w)
       \/ \E r \in Reader : input_getc(r) \/ ReaderStep(r)

Spec == Init /\ [][Next]_vars

\* The UART finishes what it sends, its interrupt is latched until handled, the
\* boot reaches serial_init_queue, and threads that can run do so.
FairSpec ==
    /\ Spec
    /\ WF_vars(Running /\ uart_ready)
    /\ SF_vars(Running /\ serial_interrupt)
    /\ WF_vars(Running /\ serial_init_queue)
    /\ \A w \in Writer : SF_vars(Running /\ WriterStep(w))
    /\ \A r \in Reader : WF_vars(Running /\ ReaderStep(r))

-----------------------------------------------------------------------------

Queue(n) ==
    [buf : [0 .. BUFSIZE - 1 -> 0 .. n], head : 0 .. BUFSIZE - 1,
     tail : 0 .. BUFSIZE - 1, not_full : Thread \cup {NULL},
     not_empty : Thread \cup {NULL}]

TypeOK ==
    /\ mode \in {"POLL", "QUEUE"}
    /\ txq \in Queue(MaxTx) /\ buffer \in Queue(MaxRx)
    /\ ier \subseteq {"XMIT", "RECV"}
    /\ thre \in BOOLEAN /\ rbr \in 0 .. MaxRx
    /\ out \in Seq(1 .. MaxTx) /\ sent \in 0 .. MaxTx
    /\ console \in Writer \cup {NULL} /\ lock \in Reader \cup {NULL}
    /\ pc \in [Thread -> {"idle", "putc", "wait", "woken", "lock"}]
    /\ arrived \in 0 .. MaxRx /\ entered \in Seq(1 .. MaxRx)
    /\ got \in Seq(1 .. MaxRx)
    /\ failed \in BOOLEAN /\ halted \in BOOLEAN

\* The bytes leave the port in the order in which they were printed, none lost,
\* none twice: across the switch from polling to queueing, the polled byte of a
\* writer with interrupts off, and the flush at power off, which leaves nothing
\* that serial_putc accepted in the queue.  Readers get the input buffer's bytes
\* in the order in which the interrupt handlers put them there.
BytesInOrder ==
    LET all == out \o Contents(txq)
    IN  /\ \A i \in DOMAIN all : all[i] = i
        /\ Len(all) = IF console = NULL THEN sent ELSE sent - 1
        /\ halted => intq_empty(txq)
        /\ entered = got \o Contents(buffer)

\* A blocked thread is the registered waiter of a condition that is still false:
\* no byte and no room can appear without waking it.
WaitersJustified ==
    \A t \in Thread : pc[t] = "wait" =>
        \/ t = txq.not_full /\ intq_full(txq)
        \/ t = buffer.not_empty /\ intq_empty(buffer)
        \/ halted

\* The interrupt enable register never claims room that is not there (the handler
\* would be re-entered for ever) nor forgets queued output (it would never leave).
IerTruthful ==
    mode = "QUEUE" /\ ~halted => ier = ier_of(txq, buffer)

\* Who has the console lock is printing and the others are not; who sleeps in
\* intq_getc() or is back from it has the lock of the input buffer; a registered
\* waiter is asleep, readers on the one queue and writers on the other; and
\* nothing is queued before serial_init_queue().
HoldersExact ==
    /\ \A w \in Writer : /\ pc[w] # "idle" <=> console = w
                         /\ pc[w] # "lock"
                         /\ mode = "POLL" => pc[w] \in {"idle", "putc"}
    /\ \A r \in Reader : /\ pc[r] # "putc"
                         /\ pc[r] \in {"wait", "woken"} => lock = r
    /\ console # NULL => sent > 0
    /\ mode = "POLL" => intq_empty(txq)
    /\ txq.not_full # NULL => txq.not_full \in Writer /\ pc[txq.not_full] = "wait"
    /\ buffer.not_empty # NULL =>
           buffer.not_empty \in Reader /\ pc[buffer.not_empty] = "wait"

\* Who waits, waits for good reason, and the port interrupts exactly when
\* there is something to do: together, no wakeup is ever lost.
NoLostInterrupt == TypeOK /\ HoldersExact /\ WaitersJustified /\ IerTruthful

\* The inductive invariant.
IndInv == NoLostInterrupt /\ BytesInOrder

\* A key for which a reader was woken is delivered, to that reader or to one
\* that came in between, or the machine has been switched off.  Until then the
\* reader has the queue's lock, so no other can come to wait() and fail its
\* assertion over a queue that is no longer empty (intq.c:91): that can only
\* happen once the key is delivered, while another one is queued.
WaitingReaderGetsKey ==
    \A n \in 0 .. MaxRx :
        (/\ Len(got) = n
         /\ ~intq_empty(buffer)
         /\ \E r \in Reader : pc[r] = "woken") ~> (Len(got) > n \/ halted)
=============================================================================
