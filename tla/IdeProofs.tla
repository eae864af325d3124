----------------------------- MODULE IdeProofs ------------------------------
(***************************************************************************)
(* Proofs about Ide: for any threads, sectors and values and any number of *)
(* spurious interrupts, the channel has one user, the driver is in step    *)
(* with the disk, and a transfer that returns moved the right data.  The   *)
(* argument is IndInv: whoever uses the channel is alone, so only the user *)
(* can disturb what InStep says of it, and the disk only what it says of   *)
(* the status; CompletionInv counts the interrupts that the user will take.*)
(***************************************************************************)
EXTENDS Ide, TLAPS

\* The channel has one user at a time, the boot thread of ide_init() included.
LEMMA OneUser ==
    ASSUME TypeOK, OwnerInv, NEW t \in Thread, NEW u \in Thread, Using(t), Using(u)
    PROVE  t = u
BY IdeAssumption, SMTT(30) DEF TypeOK, OwnerInv, Owns, Op, Dev

\* The values ide_init() starts from have their types.
LEMMA Defaults == NoOp \in Op /\ AnySector \in Sector /\ AnyValue \in Value
<1>1. AnySector \in Sector /\ AnyValue \in Value
    BY IdeAssumption DEF AnySector, AnyValue
<1>2. [kind |-> "read", dev |-> 0, sec |-> AnySector, val |-> AnyValue] \in Op
    BY <1>1 DEF Op, Dev
<1> QED BY <1>1, <1>2 DEF NoOp

\* The state ide_init() starts from satisfies the invariant.
LEMMA InitInv == Init => IndInv
<1> SUFFICES ASSUME Init PROVE IndInv
    OBVIOUS
<1>1. TypeOK
    <2>1. medium \in [Dev -> [Sector -> Value]]
        BY Defaults DEF Init
    <2>2. /\ pc \in [Thread -> Label]
          /\ op \in [Thread -> Op]
          /\ buffer \in [Thread -> Value]
          /\ sel \in [dev : Dev, sec : Sector]
          /\ booting \in 0 .. 2
        BY Defaults DEF Init, Label, Dev
    <2> QED BY <2>1, <2>2, Defaults, ZenonT(30) DEF Init, TypeOK
<1>2. \A t \in Thread : pc[t] = "idle"
    BY DEF Init
<1>3. OwnerInv
    BY <1>2 DEF Init, OwnerInv, Using
<1>4. StatusInv
    BY ZenonT(30) DEF Init, StatusInv
<1>5. UserInv
    BY <1>2 DEF UserInv, InStep
<1>6. CompletionInv
    BY <1>2 DEF Init, CompletionInv, Answered
<1>7. TimeoutInv
    BY ZenonT(30) DEF Init, TimeoutInv
<1> QED BY <1>1, <1>3, <1>4, <1>5, <1>6, <1>7, ZenonT(30) DEF IndInv

\* A thread goes from one step of the driver to another.
LEMMA GotoType ==
    ASSUME TypeOK, NEW t \in Thread, NEW l \in Label, Goto(t, l)
    PROVE  pc' \in [Thread -> Label]
BY DEF TypeOK, Goto

\* select_sector(): the channel is idle, so nothing is pending that it clears; it
\* is not only when a spurious interrupt has ended a write early.
LEMMA select_sectorStep ==
    ASSUME IndInv, NEW t \in Thread, select_sector(t)
    PROVE  IndInv'
<1>i. TypeOK /\ OwnerInv /\ TimeoutInv
    BY ZenonT(30) DEF IndInv
<1>1. \A u \in Thread \ {t} : ~Using(u) /\ pc'[u] = pc[u] /\ op'[u] = op[u]
    BY <1>i, OneUser DEF select_sector, Goto, TypeOK, Using
<1>2. pc[t] = "select" /\ pc'[t] = "command" /\ op'[t] = op[t]
    BY <1>i DEF select_sector, Goto, TypeOK
<1>t. UNCHANGED <<spurious, panicked>>
    BY ZenonT(30) DEF select_sector
<1>3. TypeOK'
    <2>1. pc' \in [Thread -> Label]
        BY <1>i, GotoType DEF select_sector, Label
    <2>2. [dev |-> op[t].dev, sec |-> op[t].sec] \in [dev : Dev, sec : Sector]
        BY <1>i DEF TypeOK, Op
    <2>3. sel' \in [dev : Dev, sec : Sector]
        BY <1>i, <2>2, ZenonT(30) DEF select_sector, Selected, TypeOK
    <2>4. timed_out' \in BOOLEAN
        BY <1>i, ZenonT(30) DEF select_sector, wait_until_idle, TypeOK
    <2> QED BY <1>i, <2>1, <2>3, <2>4, ZenonT(30) DEF select_sector, wait_until_idle, TypeOK,
           device, driver
<1>4. OwnerInv'
    BY <1>i, <1>1, <1>2, SMTT(30) DEF select_sector, OwnerInv, Owns, Using, TypeOK, device,
       driver
<1>c. ASSUME ~timed_out' PROVE StatusInv' /\ UserInv' /\ CompletionInv'
    <2>1. ~timed_out /\ ~bsy /\ ~drq /\ sel' = [dev |-> op[t].dev, sec |-> op[t].sec]
        BY <1>c, ZenonT(30) DEF select_sector, wait_until_idle, Selected
    <2>i. TypeOK /\ OwnerInv /\ StatusInv /\ UserInv /\ CompletionInv
        BY <2>1, ZenonT(30) DEF IndInv
    <2>2. bsy' = bsy /\ drq' = drq /\ cmd' = cmd /\ UNCHANGED <<expecting_interrupt, completion_wait>>
        BY ZenonT(30) DEF select_sector, driver
    <2>3. cmd = "none"
        BY <2>1, <2>i, ZenonT(30) DEF StatusInv
    <2>4. StatusInv'
        BY <2>1, <2>2, <2>3, ZenonT(30) DEF StatusInv
    <2>5. InStep(t)'
        BY <1>2, <2>1, <2>2, ZenonT(30) DEF InStep
    <2>6. UserInv'
        BY <1>1, <2>5 DEF UserInv, InStep, Using
    <2>7. CompletionInv'
        BY <2>i, <1>1, <1>2, SMTT(30) DEF select_sector, wait_until_idle, CompletionInv,
           Answered, Using, TypeOK, device, driver
    <2> QED BY <2>4, <2>6, <2>7
<1>o. TimeoutInv'
    <2>1. CASE timed_out
        BY <1>i, <1>t, <2>1, ZenonT(30) DEF TimeoutInv
    <2>2. CASE ~timed_out /\ timed_out'
        <3>1. bsy \/ drq
            BY <2>2, ZenonT(30) DEF select_sector, wait_until_idle
        <3>2. StatusInv /\ CompletionInv
            BY <2>2, ZenonT(30) DEF IndInv
        <3>3. \A u \in Thread : pc[u] \notin {"down", "poll", "transfer"}
            BY <1>1, <1>2, ZenonT(30) DEF Using
        <3>4. spurious # 0
            BY <3>1, <3>2, <3>3, ZenonT(30) DEF StatusInv, CompletionInv
        <3> QED BY <3>4, <1>i, <1>t DEF TimeoutInv, TypeOK
    <2>3. CASE ~timed_out'
        BY <2>3, ZenonT(30) DEF TimeoutInv
    <2> QED BY <2>1, <2>2, <2>3
<1> QED BY <1>3, <1>4, <1>c, <1>o, ZenonT(30) DEF IndInv

\* issue_pio_command(): the disk is busy with the user's command.
LEMMA issue_pio_commandStep ==
    ASSUME IndInv, NEW t \in Thread, issue_pio_command(t)
    PROVE  IndInv'
<1>i. TypeOK /\ OwnerInv /\ TimeoutInv
    BY ZenonT(30) DEF IndInv
<1>t. UNCHANGED <<timed_out, spurious, panicked>>
    BY ZenonT(30) DEF issue_pio_command
<1>1. \A u \in Thread \ {t} : ~Using(u) /\ pc'[u] = pc[u] /\ op'[u] = op[u]
    BY <1>i, OneUser DEF issue_pio_command, Goto, TypeOK, Using
<1>2. /\ pc[t] = "command"
      /\ pc'[t] = (IF op[t].kind = "write" THEN "poll" ELSE "down")
      /\ op'[t] = op[t]
    BY <1>i DEF issue_pio_command, Goto, TypeOK
<1>3. TypeOK'
    <2>1. pc' \in [Thread -> Label]
        BY <1>i, GotoType DEF issue_pio_command, Label
    <2>2. /\ expecting_interrupt' \in BOOLEAN
          /\ cmd' \in {"none", "read", "write", "identify", "data"}
          /\ bsy' \in BOOLEAN /\ drq' \in BOOLEAN
        BY <1>i, ZenonT(30) DEF issue_pio_command, Obeyed, TypeOK, Op
    <2> QED BY <1>i, <2>1, <2>2, ZenonT(30) DEF issue_pio_command, TypeOK, device, driver
<1>4. OwnerInv'
    BY <1>i, <1>1, <1>2, SMTT(30) DEF issue_pio_command, OwnerInv, Owns, Using, TypeOK,
       device, driver
<1>c. ASSUME ~timed_out' PROVE StatusInv' /\ UserInv' /\ CompletionInv'
    <2>i. TypeOK /\ OwnerInv /\ StatusInv /\ UserInv /\ CompletionInv
        BY <1>c, <1>t, ZenonT(30) DEF IndInv
    <2>d. ~drq /\ ~bsy
        BY <2>i, <1>1, <1>2, ZenonT(30) DEF StatusInv, UserInv, InStep, Using
    <2>1. cmd' = op[t].kind /\ bsy' /\ ~drq' /\ expecting_interrupt'
        BY <2>d, ZenonT(30) DEF issue_pio_command, Obeyed
    <2>2. cmd' # "none" /\ pc'[t] \in {"down", "poll", "transfer"}
        BY <1>i, <1>2, <2>1, ZenonT(30) DEF TypeOK, Op
    <2>3. StatusInv'
        BY <2>1, <2>2, ZenonT(30) DEF StatusInv
    <2>4. InStep(t)'
        BY <2>i, <1>2, <2>1, ZenonT(30) DEF issue_pio_command, UserInv, InStep
    <2>5. UserInv'
        BY <1>1, <2>4 DEF UserInv, InStep, Using
    <2>6. CompletionInv'
        BY <2>i, <1>1, <1>2, <2>1, ZenonT(30) DEF issue_pio_command, CompletionInv, Answered,
           Using, TypeOK, device, driver
    <2> QED BY <2>3, <2>5, <2>6
<1>o. TimeoutInv'
    BY <1>i, <1>t, ZenonT(30) DEF TimeoutInv
<1> QED BY <1>3, <1>4, <1>c, <1>o, ZenonT(30) DEF IndInv

\* sema_down() takes the completion of the user's own command.
LEMMA sema_downStep ==
    ASSUME IndInv, NEW t \in Thread, sema_down(t)
    PROVE  IndInv'
<1>i. TypeOK /\ OwnerInv /\ TimeoutInv
    BY ZenonT(30) DEF IndInv
<1>t. UNCHANGED <<timed_out, spurious, panicked>>
    BY ZenonT(30) DEF sema_down
<1>1. \A u \in Thread \ {t} : ~Using(u) /\ pc'[u] = pc[u] /\ op'[u] = op[u]
    BY <1>i, OneUser DEF sema_down, Goto, TypeOK, Using
<1>2. /\ pc[t] = "down"
      /\ pc'[t] = (IF op[t].kind = "write" THEN "return" ELSE "poll")
      /\ op'[t] = op[t]
    BY <1>i DEF sema_down, Goto, TypeOK
<1>3. TypeOK'
    <2>1. pc' \in [Thread -> Label]
        BY <1>i, GotoType DEF sema_down, Label
    <2>2. completion_wait' \in Nat
        BY <1>i DEF sema_down, TypeOK
    <2> QED BY <1>i, <2>1, <2>2, ZenonT(30) DEF sema_down, TypeOK, device, driver
<1>4. OwnerInv'
    BY <1>i, <1>1, <1>2, SMTT(30) DEF sema_down, OwnerInv, Owns, Using, TypeOK, device, driver
<1>c. ASSUME ~timed_out' PROVE StatusInv' /\ UserInv' /\ CompletionInv'
    <2>i. TypeOK /\ OwnerInv /\ StatusInv /\ UserInv /\ CompletionInv
        BY <1>c, <1>t, ZenonT(30) DEF IndInv
    <2>5. StatusInv'
        BY <2>i, <1>1, <1>2, ZenonT(30) DEF sema_down, StatusInv, UserInv, InStep, Using, TypeOK,
           device, driver
    <2>6. InStep(t)'
        BY <2>i, <1>2, ZenonT(30) DEF sema_down, UserInv, InStep, TypeOK, device, driver, StatusInv
    <2>7. UserInv'
        BY <1>1, <2>6 DEF UserInv, InStep, Using
    <2>8. CompletionInv'
        BY <2>i, <1>1, <1>2, SMTT(30) DEF sema_down, CompletionInv, Answered, Using, TypeOK,
           device, driver
    <2> QED BY <2>5, <2>7, <2>8
<1>o. TimeoutInv'
    BY <1>i, <1>t, ZenonT(30) DEF TimeoutInv
<1> QED BY <1>3, <1>4, <1>c, <1>o, ZenonT(30) DEF IndInv

\* input_sector() empties the disk's buffer into the reader's.
LEMMA input_sectorStep ==
    ASSUME IndInv, NEW t \in Thread, input_sector(t)
    PROVE  IndInv'
<1>i. TypeOK /\ OwnerInv /\ TimeoutInv
    BY ZenonT(30) DEF IndInv
<1>t. UNCHANGED <<timed_out, spurious, panicked>>
    BY ZenonT(30) DEF input_sector
<1>1. \A u \in Thread \ {t} : ~Using(u) /\ pc'[u] = pc[u] /\ op'[u] = op[u]
    BY <1>i, OneUser DEF input_sector, Goto, TypeOK, Using
<1>2. pc[t] = "transfer" /\ pc'[t] = "return" /\ op'[t] = op[t]
    BY <1>i DEF input_sector, Goto, TypeOK
<1>3. TypeOK'
    <2>1. pc' \in [Thread -> Label]
        BY <1>i, GotoType DEF input_sector, Label
    <2>2. buffer' \in [Thread -> Value]
        BY <1>i, ZenonT(30) DEF input_sector, TypeOK
    <2> QED BY <1>i, <2>1, <2>2, ZenonT(30) DEF input_sector, TypeOK, device, driver
<1>4. OwnerInv'
    BY <1>i, <1>1, <1>2, SMTT(30) DEF input_sector, OwnerInv, Owns, Using, TypeOK, device,
       driver
<1>c. ASSUME ~timed_out' PROVE StatusInv' /\ UserInv' /\ CompletionInv'
    <2>i. TypeOK /\ OwnerInv /\ StatusInv /\ UserInv /\ CompletionInv
        BY <1>c, <1>t, ZenonT(30) DEF IndInv
    <2>5. StatusInv'
        BY <2>i, <1>1, <1>2, ZenonT(30) DEF input_sector, StatusInv, UserInv, InStep, Using,
           TypeOK, device, driver
    <2>6. InStep(t)'
        BY <2>i, <1>2, ZenonT(30) DEF input_sector, UserInv, InStep, TypeOK, device, driver,
           StatusInv
    <2>7. UserInv'
        BY <1>1, <2>6 DEF UserInv, InStep, Using
    <2>8. CompletionInv'
        BY <2>i, <1>1, <1>2, SMTT(30) DEF input_sector, CompletionInv, Answered, Using, TypeOK,
           device, driver
    <2> QED BY <2>5, <2>7, <2>8
<1>o. TimeoutInv'
    BY <1>i, <1>t, ZenonT(30) DEF TimeoutInv
<1> QED BY <1>3, <1>4, <1>c, <1>o, ZenonT(30) DEF IndInv

\* identify_ata_device() leaves the channel idle for the next device.
LEMMA identify_ata_deviceStep ==
    ASSUME IndInv, NEW t \in Thread, identify_ata_device(t)
    PROVE  IndInv'
<1>i. TypeOK /\ OwnerInv /\ TimeoutInv
    BY ZenonT(30) DEF IndInv
<1>t. UNCHANGED <<timed_out, spurious, panicked>>
    BY ZenonT(30) DEF identify_ata_device
<1>1. \A u \in Thread \ {t} : ~Using(u) /\ pc'[u] = pc[u] /\ op'[u] = op[u]
    BY <1>i, OneUser DEF identify_ata_device, Goto, TypeOK, Using
<1>2. pc[t] = "transfer" /\ pc'[t] = "idle" /\ op'[t] = op[t]
    BY <1>i, ZenonT(30) DEF identify_ata_device, Goto, TypeOK
<1>d. booting \in Dev /\ lock = None /\ \A u \in Thread : pc[u] # "lock"
    BY <1>i, <1>2 DEF identify_ata_device, OwnerInv, Owns, Using, TypeOK, Op, Dev
<1>3. TypeOK'
    <2>1. pc' \in [Thread -> Label]
        BY <1>i, GotoType DEF identify_ata_device, Label
    <2>2. is_ata' \in [Dev -> BOOLEAN] /\ booting' \in 0 .. 2
        BY <1>i DEF identify_ata_device, TypeOK, OwnerInv, Owns, Using, Op, Dev
    <2> QED BY <1>i, <2>1, <2>2, ZenonT(30) DEF identify_ata_device, TypeOK, device, driver
<1>4. OwnerInv'
    BY <1>i, <1>1, <1>2, <1>d, SMTT(30) DEF identify_ata_device, OwnerInv, Owns, Using,
       TypeOK, device, driver
<1>c. ASSUME ~timed_out' PROVE StatusInv' /\ UserInv' /\ CompletionInv'
    <2>i. TypeOK /\ OwnerInv /\ StatusInv /\ UserInv /\ CompletionInv
        BY <1>c, <1>t, ZenonT(30) DEF IndInv
    <2>5. StatusInv'
        BY <2>i, <1>1, <1>2, ZenonT(30) DEF identify_ata_device, StatusInv, UserInv, InStep,
           Using, TypeOK, device, driver
    <2>6. InStep(t)'
        BY <2>i, <1>2, ZenonT(30) DEF identify_ata_device, UserInv, InStep, TypeOK, device,
           driver, StatusInv
    <2>7. UserInv'
        BY <1>1, <2>6 DEF UserInv, InStep, Using
    <2>8. CompletionInv'
        BY <2>i, <1>1, <1>2, SMTT(30) DEF identify_ata_device, CompletionInv, Answered, Using,
           TypeOK, device, driver
    <2> QED BY <2>5, <2>7, <2>8
<1>o. TimeoutInv'
    BY <1>i, <1>t, ZenonT(30) DEF TimeoutInv
<1> QED BY <1>3, <1>4, <1>c, <1>o, ZenonT(30) DEF IndInv

\* output_sector() makes the disk busy with the writer's data.
LEMMA output_sectorStep ==
    ASSUME IndInv, NEW t \in Thread, output_sector(t)
    PROVE  IndInv'
<1>i. TypeOK /\ OwnerInv /\ TimeoutInv
    BY ZenonT(30) DEF IndInv
<1>t. UNCHANGED <<timed_out, spurious, panicked>>
    BY ZenonT(30) DEF output_sector
<1>1. \A u \in Thread \ {t} : ~Using(u) /\ pc'[u] = pc[u] /\ op'[u] = op[u]
    BY <1>i, OneUser, ZenonT(30) DEF output_sector, Goto, TypeOK, Using
<1>2. pc[t] = "transfer" /\ pc'[t] = "down" /\ op'[t] = op[t]
    BY <1>i DEF output_sector, Goto, TypeOK
<1>3. TypeOK'
    <2>1. pc' \in [Thread -> Label]
        BY <1>i, GotoType, ZenonT(30) DEF output_sector, Label
    <2>2. data' \in Value
        BY <1>i DEF output_sector, TypeOK, Op
    <2> QED BY <1>i, <2>1, <2>2, ZenonT(30) DEF output_sector, TypeOK, device, driver
<1>4. OwnerInv'
    BY <1>i, <1>1, <1>2, ZenonT(30) DEF output_sector, OwnerInv, Owns, Using, TypeOK, device,
       driver
<1>c. ASSUME ~timed_out' PROVE StatusInv' /\ UserInv' /\ CompletionInv'
    <2>i. TypeOK /\ OwnerInv /\ StatusInv /\ UserInv /\ CompletionInv
        BY <1>c, <1>t, ZenonT(30) DEF IndInv
    <2>5. StatusInv'
        BY <2>i, <1>1, <1>2, ZenonT(30) DEF output_sector, StatusInv, UserInv, InStep, Using,
           TypeOK, device, driver
    <2>6. InStep(t)'
        BY <2>i, <1>2, ZenonT(30) DEF output_sector, UserInv, InStep, TypeOK, device, driver,
           StatusInv
    <2>7. UserInv'
        BY <1>1, <2>6 DEF UserInv, InStep, Using
    <2>8. CompletionInv'
        BY <2>i, <1>1, <1>2, SMTT(30) DEF output_sector, CompletionInv, Answered, Using,
           TypeOK, device, driver
    <2> QED BY <2>5, <2>7, <2>8
<1>o. TimeoutInv'
    BY <1>i, <1>t, ZenonT(30) DEF TimeoutInv
<1> QED BY <1>3, <1>4, <1>c, <1>o, ZenonT(30) DEF IndInv

\* ide_init() starts to identify a disk, or skips it, on a channel nobody uses.
LEMMA ide_initStep ==
    ASSUME IndInv, ide_init
    PROVE  IndInv'
<1>i. TypeOK /\ OwnerInv /\ TimeoutInv
    BY ZenonT(30) DEF IndInv
<1>t. UNCHANGED <<timed_out, spurious, panicked>>
    BY ZenonT(30) DEF ide_init
<1>o. TimeoutInv'
    BY <1>i, <1>t, ZenonT(30) DEF TimeoutInv
<1>c. ~timed_out' => StatusInv /\ CompletionInv
    BY <1>t, ZenonT(30) DEF IndInv
<1>1. \A u \in Thread : ~Using(u) /\ pc[u] # "lock"
    BY <1>i DEF ide_init, OwnerInv, Owns, Using, TypeOK, Dev
<1>2. lock = None /\ Boot \in Thread
    BY <1>i, <1>1, IdeAssumption, ZenonT(30) DEF OwnerInv, TypeOK
<1>3. CASE is_ata[booting]
    <2> DEFINE o == [kind |-> "identify", dev |-> booting, sec |-> AnySector, val |-> AnyValue]
    <2>1. /\ op' = [op EXCEPT ![Boot] = o] /\ pc' = [pc EXCEPT ![Boot] = "select"]
          /\ booting' = booting
        BY <1>3, ZenonT(30) DEF ide_init, Goto
    <2>2. o \in Op
        BY Defaults, ZenonT(30) DEF Op, ide_init
    <2>3. /\ \A u \in Thread \ {Boot} : pc'[u] = pc[u] /\ op'[u] = op[u]
          /\ pc'[Boot] = "select" /\ op'[Boot].kind = "identify" /\ op'[Boot].dev = booting
        BY <1>2, <2>1, <1>i DEF TypeOK
    <2>4. TypeOK'
        <3>1. pc' \in [Thread -> Label] /\ op' \in [Thread -> Op]
            BY <1>i, <1>2, <2>1, <2>2 DEF TypeOK, Label
        <3> QED BY <1>i, <2>1, <3>1, ZenonT(30) DEF ide_init, TypeOK, device
    <2>5. OwnerInv'
        BY <1>1, <1>2, <2>3, <2>1 DEF ide_init, OwnerInv, Owns, Using
    <2>6. ASSUME ~timed_out' PROVE StatusInv'
        BY <1>c, <2>6, <1>1, <2>3, ZenonT(30) DEF ide_init, StatusInv, Using, device
    <2>7. UserInv'
        BY <1>1, <2>3, ZenonT(30) DEF UserInv, InStep, Using
    <2>8. ASSUME ~timed_out' PROVE CompletionInv'
        <3>1. CompletionInv
            BY <1>c, <2>8, Zenon
        <3> QED BY <3>1, <1>1, <2>3, SMTT(30) DEF ide_init, CompletionInv, Answered, Using,
               device
    <2> QED BY <2>4, <2>5, <2>6, <2>7, <2>8, <1>o, ZenonT(30) DEF IndInv
<1>4. CASE ~is_ata[booting]
    <2>1. booting' = booting + 1 /\ pc' = pc /\ op' = op
        BY <1>4 DEF ide_init
    <2>2. TypeOK'
        <3>1. booting' \in 0 .. 2
            BY <2>1 DEF ide_init, Dev
        <3> QED BY <1>i, <2>1, <3>1, ZenonT(30) DEF ide_init, TypeOK, device
    <2>3. OwnerInv' /\ UserInv'
        BY <1>1, <1>2, <2>1, ZenonT(30) DEF ide_init, OwnerInv, UserInv, InStep, Using
    <2>4. ASSUME ~timed_out' PROVE StatusInv'
        BY <1>c, <2>4, <2>1, ZenonT(30) DEF ide_init, StatusInv, device
    <2>5. ASSUME ~timed_out' PROVE CompletionInv'
        BY <1>c, <2>5, <2>1, ZenonT(30) DEF ide_init, CompletionInv, Answered, device
    <2> QED BY <2>2, <2>3, <2>4, <2>5, <1>o, ZenonT(30) DEF IndInv
<1> QED BY <1>3, <1>4

\* A thread calls ide_read() or ide_write(): it does not touch the channel yet.
LEMMA beginStep ==
    ASSUME IndInv, NEW t \in Thread, NEW o \in Op, o.kind # "identify", begin(t, o)
    PROVE  IndInv'
<1>i. TypeOK /\ OwnerInv /\ TimeoutInv
    BY ZenonT(30) DEF IndInv
<1>t. UNCHANGED <<timed_out, spurious, panicked>>
    BY ZenonT(30) DEF begin
<1>1. /\ \A u \in Thread \ {t} : pc'[u] = pc[u] /\ op'[u] = op[u]
      /\ pc[t] = "idle" /\ pc'[t] = "lock" /\ op'[t] = o
    BY <1>i DEF begin, Goto, TypeOK
<1>2. TypeOK'
    <2>1. pc' \in [Thread -> Label]
        BY <1>i, GotoType DEF begin, Label
    <2>2. op' \in [Thread -> Op] /\ started' \in Nat
        BY <1>i DEF begin, TypeOK
    <2> QED BY <1>i, <2>1, <2>2, ZenonT(30) DEF begin, TypeOK, device, driver
<1>3. OwnerInv'
    BY <1>i, <1>1, SMTT(30) DEF begin, OwnerInv, Owns, Using, TypeOK, driver
<1>c. ASSUME ~timed_out' PROVE StatusInv' /\ UserInv' /\ CompletionInv'
    <2>i. TypeOK /\ OwnerInv /\ StatusInv /\ UserInv /\ CompletionInv
        BY <1>c, <1>t, ZenonT(30) DEF IndInv
    <2>4. StatusInv'
        BY <2>i, <1>1, ZenonT(30) DEF begin, StatusInv, device, driver
    <2>5. UserInv'
        BY <2>i, <1>1, SMTT(30) DEF begin, UserInv, InStep, device
    <2>6. CompletionInv'
        BY <2>i, <1>1, SMTT(30) DEF begin, CompletionInv, Answered, device, driver
    <2> QED BY <2>4, <2>5, <2>6
<1>o. TimeoutInv'
    BY <1>i, <1>t, ZenonT(30) DEF TimeoutInv
<1> QED BY <1>2, <1>3, <1>c, <1>o, ZenonT(30) DEF IndInv

\* lock_acquire() finds the channel without a user.
LEMMA lock_acquireStep ==
    ASSUME IndInv, NEW t \in Thread, lock_acquire(t)
    PROVE  IndInv'
<1>i. TypeOK /\ OwnerInv /\ TimeoutInv
    BY ZenonT(30) DEF IndInv
<1>t. UNCHANGED <<timed_out, spurious, panicked>>
    BY ZenonT(30) DEF lock_acquire
<1>1. \A u \in Thread : ~Using(u)
    BY <1>i, IdeAssumption DEF lock_acquire, OwnerInv, Owns, TypeOK, Op, Dev
<1>2. /\ \A u \in Thread \ {t} : pc'[u] = pc[u]
      /\ pc[t] = "lock" /\ pc'[t] = "select" /\ op' = op
    BY <1>i DEF lock_acquire, Goto, TypeOK
<1>3. TypeOK'
    <2>1. pc' \in [Thread -> Label]
        BY <1>i, GotoType DEF lock_acquire, Label
    <2> QED BY <1>i, <2>1, ZenonT(30) DEF lock_acquire, TypeOK, device
<1>4. OwnerInv'
    BY <1>i, <1>1, <1>2, SMTT(30) DEF lock_acquire, OwnerInv, Owns, Using
<1>c. ASSUME ~timed_out' PROVE StatusInv' /\ UserInv' /\ CompletionInv'
    <2>i. TypeOK /\ OwnerInv /\ StatusInv /\ UserInv /\ CompletionInv
        BY <1>c, <1>t, ZenonT(30) DEF IndInv
    <2>5. StatusInv'
        BY <2>i, <1>1, <1>2, ZenonT(30) DEF lock_acquire, StatusInv, Using, device
    <2>6. UserInv'
        BY <1>1, <1>2, ZenonT(30) DEF UserInv, InStep, Using
    <2>7. CompletionInv'
        BY <2>i, <1>1, <1>2, ZenonT(30) DEF lock_acquire, CompletionInv, Answered, Using, device
    <2> QED BY <2>5, <2>6, <2>7
<1>o. TimeoutInv'
    BY <1>i, <1>t, ZenonT(30) DEF TimeoutInv
<1> QED BY <1>3, <1>4, <1>c, <1>o, ZenonT(30) DEF IndInv

\* lock_release() leaves the channel without a user and, unless a spurious
\* interrupt ended a write early, without work.
LEMMA lock_releaseStep ==
    ASSUME IndInv, NEW t \in Thread, lock_release(t)
    PROVE  IndInv'
<1>i. TypeOK /\ OwnerInv /\ TimeoutInv
    BY ZenonT(30) DEF IndInv
<1>t. UNCHANGED <<timed_out, spurious, panicked>>
    BY ZenonT(30) DEF lock_release
<1>1. \A u \in Thread \ {t} : ~Using(u) /\ pc'[u] = pc[u] /\ op'[u] = op[u]
    BY <1>i, OneUser DEF lock_release, Goto, TypeOK, Using
<1>2. pc[t] = "return" /\ pc'[t] = "idle"
    BY <1>i DEF lock_release, Goto, TypeOK
<1>3. TypeOK'
    <2>1. pc' \in [Thread -> Label] /\ op' \in [Thread -> Op]
        BY <1>i, GotoType, Defaults, ZenonT(30) DEF lock_release, Label, TypeOK
    <2> QED BY <1>i, <2>1, ZenonT(30) DEF lock_release, TypeOK, device
<1>4. OwnerInv'
    BY <1>i, <1>1, <1>2, SMTT(30) DEF lock_release, OwnerInv, Owns, Using
<1>c. ASSUME ~timed_out' PROVE StatusInv' /\ UserInv' /\ CompletionInv'
    <2>i. TypeOK /\ OwnerInv /\ StatusInv /\ UserInv /\ CompletionInv
        BY <1>c, <1>t, ZenonT(30) DEF IndInv
    <2>5. StatusInv'
        BY <2>i, <1>1, <1>2, ZenonT(30) DEF lock_release, StatusInv, Using, device
    <2>6. UserInv'
        BY <1>1, <1>2, ZenonT(30) DEF UserInv, InStep, Using
    <2>7. CompletionInv'
        BY <2>i, <1>1, <1>2, SMTT(30) DEF lock_release, CompletionInv, Answered, Using, device
    <2> QED BY <2>5, <2>6, <2>7
<1>o. TimeoutInv'
    BY <1>i, <1>t, ZenonT(30) DEF TimeoutInv
<1> QED BY <1>3, <1>4, <1>c, <1>o, ZenonT(30) DEF IndInv

\* wait_while_busy() finds the data ready, or a failed command: IDENTIFY gives
\* the disk up and the boot goes on, a read or a write panics.  It can only find
\* the disk busy with IDENTIFY after a spurious interrupt.
LEMMA wait_while_busyStep ==
    ASSUME IndInv, NEW t \in Thread, wait_while_busy(t)
    PROVE  IndInv'
<1>i. TypeOK /\ OwnerInv /\ TimeoutInv
    BY ZenonT(30) DEF IndInv
<1>1. /\ pc[t] = "poll" /\ op' = op
      /\ UNCHANGED <<lock, expecting_interrupt, completion_wait, op, buffer, device, started,
                     spurious>>
    BY ZenonT(30) DEF wait_while_busy
<1>2. \A u \in Thread \ {t} : ~Using(u)
    BY <1>i, <1>1, OneUser, ZenonT(30) DEF Using
<1>3. CASE ~bsy /\ drq /\ Goto(t, "transfer") /\ UNCHANGED <<timed_out, panicked, is_ata, booting>>
    <2>1. /\ \A u \in Thread \ {t} : pc'[u] = pc[u]
          /\ pc'[t] = "transfer"
        BY <1>i, <1>3 DEF Goto, TypeOK
    <2>2. TypeOK'
        <3>1. pc' \in [Thread -> Label]
            BY <1>i, <1>3, GotoType DEF Label
        <3> QED BY <1>i, <1>1, <1>3, <3>1, ZenonT(30) DEF TypeOK, device
    <2>3. OwnerInv'
        BY <1>i, <1>1, <1>2, <1>3, <2>1, SMTT(30) DEF OwnerInv, Owns, Using
    <2>c. ASSUME ~timed_out' PROVE StatusInv' /\ UserInv' /\ CompletionInv'
        <3>i. StatusInv /\ UserInv /\ CompletionInv
            BY <1>3, <2>c, ZenonT(30) DEF IndInv
        <3>4. StatusInv'
            BY <3>i, <1>1, <1>3, <2>1, ZenonT(30) DEF StatusInv, device
        <3>5. InStep(t)'
            BY <3>i, <1>1, <1>3, <2>1, ZenonT(30) DEF UserInv, InStep, device
        <3>6. UserInv'
            BY <1>2, <2>1, <3>5 DEF UserInv, InStep, Using
        <3>7. CompletionInv'
            BY <3>i, <1>1, <1>2, <1>3, <2>1, ZenonT(30) DEF CompletionInv, Answered, Using,
               device
        <3> QED BY <3>4, <3>6, <3>7
    <2>o. TimeoutInv'
        BY <1>i, <1>1, <1>3, ZenonT(30) DEF TimeoutInv
    <2> QED BY <2>2, <2>3, <2>c, <2>o, ZenonT(30) DEF IndInv
<1>4. CASE /\ panicked' = TRUE /\ timed_out' = (timed_out \/ bsy)
           /\ UNCHANGED <<pc, is_ata, booting>>
    <2>1. TypeOK'
        BY <1>i, <1>1, <1>4, ZenonT(30) DEF TypeOK, device
    <2>2. OwnerInv'
        BY <1>i, <1>1, <1>4, ZenonT(30) DEF OwnerInv, Owns, Using
    <2>c. ASSUME ~timed_out' PROVE StatusInv' /\ UserInv' /\ CompletionInv'
        <3>i. StatusInv /\ UserInv /\ CompletionInv
            BY <1>4, <2>c, ZenonT(30) DEF IndInv
        <3>3. StatusInv'
            BY <3>i, <1>1, <1>4, ZenonT(30) DEF StatusInv, device
        <3>4. UserInv'
            BY <3>i, <1>1, <1>4, ZenonT(30) DEF UserInv, InStep, device
        <3>5. CompletionInv'
            BY <3>i, <1>1, <1>4, ZenonT(30) DEF CompletionInv, Answered, device
        <3> QED BY <3>3, <3>4, <3>5
    <2>o. TimeoutInv'
        BY <1>4, ZenonT(30) DEF TimeoutInv
    <2> QED BY <2>1, <2>2, <2>c, <2>o, ZenonT(30) DEF IndInv
<1>5. CASE /\ op[t].kind = "identify" /\ booting' = booting + 1
           /\ bsy \/ ~drq
           /\ timed_out' = (timed_out \/ bsy)
           /\ is_ata' = [is_ata EXCEPT ![op[t].dev] = FALSE]
           /\ Goto(t, "idle") /\ UNCHANGED panicked
    <2>1. /\ \A u \in Thread \ {t} : pc'[u] = pc[u]
          /\ pc'[t] = "idle"
        BY <1>i, <1>5, ZenonT(30) DEF Goto, TypeOK
    <2>2. booting \in Dev /\ lock = None /\ \A u \in Thread : pc[u] # "lock"
        <3>1. op[t].kind = "identify" /\ Using(t)
            BY <1>1, <1>5, ZenonT(30) DEF Using
        <3> QED BY <1>i, <3>1 DEF OwnerInv, Owns, TypeOK, Op, Dev
    <2>3. TypeOK'
        <3>1. pc' \in [Thread -> Label]
            BY <1>i, <1>5, GotoType, ZenonT(30) DEF Label
        <3>2. is_ata' \in [Dev -> BOOLEAN]
            BY <1>i, <1>5, ZenonT(30) DEF TypeOK
        <3>3. booting' \in 0 .. 2
            <4>1. booting' = booting + 1
                BY <1>5, Zenon
            <4> QED BY <4>1, <2>2 DEF Dev
        <3> QED BY <1>i, <1>1, <1>5, <3>1, <3>2, <3>3, ZenonT(30) DEF TypeOK, device
    <2>4. OwnerInv'
        BY <1>1, <1>2, <2>1, <2>2, SMTT(30) DEF OwnerInv, Using
    <2>c. ASSUME ~timed_out' PROVE StatusInv' /\ UserInv' /\ CompletionInv'
        <3>1. ~timed_out /\ ~bsy /\ ~drq
            BY <1>5, <2>c, ZenonT(30)
        <3>i. StatusInv /\ UserInv /\ CompletionInv
            BY <3>1, ZenonT(30) DEF IndInv
        <3>5. StatusInv'
            BY <3>i, <1>1, <3>1, ZenonT(30) DEF StatusInv, device
        <3>6. UserInv'
            BY <1>2, <2>1, ZenonT(30) DEF UserInv, InStep, Using
        <3>7. CompletionInv'
            <4>1. op[t].kind = "identify"
                BY <1>5, Zenon
            <4>2. \A u \in Thread : ~Answered(u) /\ ~Answered(u)'
                BY <1>1, <1>2, <2>1, <4>1, ZenonT(30) DEF Answered, Using
            <4>3. ~bsy' /\ \A u \in Thread : pc'[u] # "poll"
                BY <1>1, <1>2, <2>1, <3>1, ZenonT(30) DEF Using, device
            <4> QED BY <3>i, <1>1, <4>2, <4>3, ZenonT(30) DEF CompletionInv, device
        <3> QED BY <3>5, <3>6, <3>7
    <2>o. TimeoutInv'
        <3>1. CASE timed_out \/ ~timed_out'
            BY <1>i, <1>1, <1>5, <3>1, ZenonT(30) DEF TimeoutInv
        <3>2. CASE ~timed_out /\ timed_out'
            <4>1. bsy /\ CompletionInv
                BY <1>5, <3>2, ZenonT(30) DEF IndInv
            <4>2. op[t].kind # "write"
                BY <1>5, ZenonT(30)
            <4>3. spurious # 0
                BY <1>1, <4>1, <4>2, ZenonT(30) DEF CompletionInv
            <4> QED BY <4>3, <1>1, <1>i DEF TimeoutInv, TypeOK
        <3> QED BY <3>1, <3>2, Zenon
    <2> QED BY <2>3, <2>4, <2>c, <2>o, ZenonT(30) DEF IndInv
<1> QED BY <1>3, <1>4, <1>5, ZenonT(30) DEF wait_while_busy

\* interrupt_handler() moves the completion from the line to the semaphore.
LEMMA interrupt_handlerStep ==
    ASSUME IndInv, interrupt_handler
    PROVE  IndInv'
<1>i. TypeOK /\ OwnerInv /\ TimeoutInv
    BY ZenonT(30) DEF IndInv
<1>t. UNCHANGED <<timed_out, spurious, panicked>>
    BY ZenonT(30) DEF interrupt_handler
<1>1. TypeOK'
    <2>1. completion_wait' \in Nat
        BY <1>i DEF interrupt_handler, TypeOK
    <2> QED BY <1>i, <2>1, ZenonT(30) DEF interrupt_handler, TypeOK
<1>2. OwnerInv'
    BY <1>i, ZenonT(30) DEF interrupt_handler, OwnerInv, Owns, Using
<1>c. ASSUME ~timed_out' PROVE StatusInv' /\ UserInv' /\ CompletionInv'
    <2>i. TypeOK /\ OwnerInv /\ StatusInv /\ UserInv /\ CompletionInv
        BY <1>c, <1>t, ZenonT(30) DEF IndInv
    <2>s. StatusInv'
        BY <2>i, ZenonT(30) DEF interrupt_handler, StatusInv
    <2>3. UserInv'
        BY <2>i, ZenonT(30) DEF interrupt_handler, UserInv, InStep
    <2>4. CompletionInv'
        BY <2>i, SMTT(30) DEF interrupt_handler, CompletionInv, Answered, TypeOK
    <2> QED BY <2>s, <2>3, <2>4
<1>o. TimeoutInv'
    BY <1>i, <1>t, ZenonT(30) DEF TimeoutInv
<1> QED BY <1>1, <1>2, <1>c, <1>o, ZenonT(30) DEF IndInv

\* An interrupt from nowhere: from now on CompletionInv promises nothing.
LEMMA spurious_interruptStep ==
    ASSUME IndInv, spurious_interrupt
    PROVE  IndInv'
<1>i. TypeOK /\ OwnerInv /\ TimeoutInv
    BY ZenonT(30) DEF IndInv
<1>t. timed_out' = timed_out
    BY ZenonT(30) DEF spurious_interrupt
<1>1. spurious' \in Nat /\ spurious' # 0
    BY <1>i DEF spurious_interrupt, TypeOK
<1>2. TypeOK'
    BY <1>i, <1>1, ZenonT(30) DEF spurious_interrupt, TypeOK, driver
<1>3. OwnerInv'
    BY <1>i, ZenonT(30) DEF spurious_interrupt, OwnerInv, Owns, Using, driver
<1>c. ASSUME ~timed_out' PROVE StatusInv' /\ UserInv' /\ CompletionInv'
    <2>i. TypeOK /\ OwnerInv /\ StatusInv /\ UserInv /\ CompletionInv
        BY <1>c, <1>t, ZenonT(30) DEF IndInv
    <2>s. StatusInv'
        BY <2>i, ZenonT(30) DEF spurious_interrupt, StatusInv, driver
    <2>4. UserInv'
        BY <2>i, ZenonT(30) DEF spurious_interrupt, UserInv, InStep
    <2>5. CompletionInv'
        BY <1>1 DEF CompletionInv
    <2> QED BY <2>s, <2>4, <2>5
<1>o. TimeoutInv'
    BY <1>i, <1>1 DEF TimeoutInv, TypeOK
<1> QED BY <1>2, <1>3, <1>c, <1>o, ZenonT(30) DEF IndInv

\* A disk busy with a command other than the data of a write works for the user
\* of the channel, which waits for it.
LEMMA BusyUser ==
    ASSUME TypeOK, OwnerInv, StatusInv, UserInv, bsy, cmd # "data"
    PROVE  \E t \in Thread :
               /\ pc[t] \in {"down", "poll"} /\ cmd = op[t].kind
               /\ cmd = "write" => pc[t] = "poll"
               /\ \A u \in Thread \ {t} : ~Using(u)
<1>1. PICK t \in Thread : pc[t] \in {"down", "poll", "transfer"}
    BY ZenonT(30) DEF StatusInv
<1>2. Using(t) /\ InStep(t)
    BY <1>1 DEF Using, UserInv
<1>3. \A u \in Thread \ {t} : ~Using(u)
    BY <1>2, OneUser, Zenon
<1>4. pc[t] \in {"down", "poll"} /\ cmd = op[t].kind /\ (cmd = "write" => pc[t] = "poll")
    BY <1>1, <1>2, SMTT(30) DEF StatusInv, InStep, TypeOK, Op
<1> QED BY <1>3, <1>4

\* The data of a read or of IDENTIFY are those of the sector the user asked for.
LEMMA disk_readStep ==
    ASSUME IndInv, disk_read
    PROVE  IndInv'
<1>i. TypeOK /\ OwnerInv /\ TimeoutInv
    BY ZenonT(30) DEF IndInv
<1>t. UNCHANGED <<timed_out, spurious, panicked>>
    BY ZenonT(30) DEF disk_read
<1>3. TypeOK'
    <2>1. data' \in Value
        BY <1>i DEF disk_read, TypeOK
    <2> QED BY <1>i, <2>1, ZenonT(30) DEF disk_read, TypeOK, driver
<1>4. OwnerInv'
    BY <1>i, ZenonT(30) DEF disk_read, OwnerInv, Owns, Using, driver
<1>c. ASSUME ~timed_out' PROVE StatusInv' /\ UserInv' /\ CompletionInv'
    <2>i. TypeOK /\ OwnerInv /\ StatusInv /\ UserInv /\ CompletionInv
        BY <1>c, <1>t, ZenonT(30) DEF IndInv
    <2>1. PICK t \in Thread :
              /\ pc[t] \in {"down", "poll"} /\ cmd = op[t].kind
              /\ cmd = "write" => pc[t] = "poll"
              /\ \A u \in Thread \ {t} : ~Using(u)
        BY <2>i, BusyUser DEF disk_read
    <2>2. pc' = pc /\ op' = op /\ InStep(t) /\ ~drq
        BY <2>i, ZenonT(30) DEF disk_read, UserInv, StatusInv
    <2>5. StatusInv'
        BY <2>i, <2>1, <2>2, ZenonT(30) DEF disk_read, StatusInv, driver
    <2>6. InStep(t)'
        BY <2>i, <2>1, <2>2, SMTT(30) DEF disk_read, InStep, TypeOK, Op
    <2>7. UserInv'
        BY <2>1, <2>2, <2>6 DEF UserInv, InStep, Using
    <2>8. CompletionInv'
        BY <2>i, <2>1, <2>2, SMTT(30) DEF disk_read, CompletionInv, StatusInv, Answered, Using,
           TypeOK, driver
    <2> QED BY <2>5, <2>7, <2>8
<1>o. TimeoutInv'
    BY <1>i, <1>t, ZenonT(30) DEF TimeoutInv
<1> QED BY <1>3, <1>4, <1>c, <1>o, ZenonT(30) DEF IndInv

\* The disk asks the writer for data, without an interrupt.
LEMMA disk_wants_dataStep ==
    ASSUME IndInv, disk_wants_data
    PROVE  IndInv'
<1>i. TypeOK /\ OwnerInv /\ TimeoutInv
    BY ZenonT(30) DEF IndInv
<1>t. UNCHANGED <<timed_out, spurious, panicked>>
    BY ZenonT(30) DEF disk_wants_data
<1>3. TypeOK'
    BY <1>i, ZenonT(30) DEF disk_wants_data, TypeOK, driver
<1>4. OwnerInv'
    BY <1>i, ZenonT(30) DEF disk_wants_data, OwnerInv, Owns, Using, driver
<1>c. ASSUME ~timed_out' PROVE StatusInv' /\ UserInv' /\ CompletionInv'
    <2>i. TypeOK /\ OwnerInv /\ StatusInv /\ UserInv /\ CompletionInv
        BY <1>c, <1>t, ZenonT(30) DEF IndInv
    <2>1. PICK t \in Thread :
              /\ pc[t] \in {"down", "poll"} /\ cmd = op[t].kind
              /\ cmd = "write" => pc[t] = "poll"
              /\ \A u \in Thread \ {t} : ~Using(u)
        BY <2>i, BusyUser DEF disk_wants_data
    <2>2. pc' = pc /\ op' = op /\ InStep(t) /\ ~drq
        BY <2>i, ZenonT(30) DEF disk_wants_data, UserInv, StatusInv
    <2>5. StatusInv'
        BY <2>i, <2>1, <2>2, ZenonT(30) DEF disk_wants_data, StatusInv, driver
    <2>6. InStep(t)'
        BY <2>i, <2>1, <2>2, ZenonT(30) DEF disk_wants_data, InStep, TypeOK, Op
    <2>7. UserInv'
        BY <2>1, <2>2, <2>6 DEF UserInv, InStep, Using
    <2>8. CompletionInv'
        BY <2>i, <2>1, <2>2, ZenonT(30) DEF disk_wants_data, CompletionInv, StatusInv, Answered,
           Using, TypeOK, driver
    <2> QED BY <2>5, <2>7, <2>8
<1>o. TimeoutInv'
    BY <1>i, <1>t, ZenonT(30) DEF TimeoutInv
<1> QED BY <1>3, <1>4, <1>c, <1>o, ZenonT(30) DEF IndInv

\* The disk fails the command of the user, which still gets its completion.
LEMMA disk_errorStep ==
    ASSUME IndInv, disk_error
    PROVE  IndInv'
<1>i. TypeOK /\ OwnerInv /\ TimeoutInv
    BY ZenonT(30) DEF IndInv
<1>t. UNCHANGED <<timed_out, spurious, panicked>>
    BY ZenonT(30) DEF disk_error
<1>3. TypeOK'
    BY <1>i, ZenonT(30) DEF disk_error, TypeOK, driver
<1>4. OwnerInv'
    BY <1>i, ZenonT(30) DEF disk_error, OwnerInv, Owns, Using, driver
<1>c. ASSUME ~timed_out' PROVE StatusInv' /\ UserInv' /\ CompletionInv'
    <2>i. TypeOK /\ OwnerInv /\ StatusInv /\ UserInv /\ CompletionInv
        BY <1>c, <1>t, ZenonT(30) DEF IndInv
    <2>1. PICK t \in Thread :
              /\ pc[t] \in {"down", "poll"} /\ cmd = op[t].kind
              /\ cmd = "write" => pc[t] = "poll"
              /\ \A u \in Thread \ {t} : ~Using(u)
        BY <2>i, BusyUser, ZenonT(30) DEF disk_error
    <2>2. pc' = pc /\ op' = op /\ InStep(t) /\ ~drq
        BY <2>i, ZenonT(30) DEF disk_error, UserInv, StatusInv
    <2>5. StatusInv'
        BY <2>i, <2>1, <2>2, ZenonT(30) DEF disk_error, StatusInv, driver
    <2>6. InStep(t)'
        BY <2>i, <2>1, <2>2, ZenonT(30) DEF disk_error, InStep, TypeOK, Op
    <2>7. UserInv'
        BY <2>1, <2>2, <2>6 DEF UserInv, InStep, Using
    <2>8. CompletionInv'
        BY <2>i, <2>1, <2>2, SMTT(30) DEF disk_error, CompletionInv, StatusInv, Answered,
           Using, TypeOK, driver
    <2> QED BY <2>5, <2>7, <2>8
<1>o. TimeoutInv'
    BY <1>i, <1>t, ZenonT(30) DEF TimeoutInv
<1> QED BY <1>3, <1>4, <1>c, <1>o, ZenonT(30) DEF IndInv

\* The data of a write reach the sector the writer selected; nobody who has a
\* claim on the medium's contents is affected.
LEMMA disk_writtenStep ==
    ASSUME IndInv, disk_written
    PROVE  IndInv'
<1>i. TypeOK /\ OwnerInv /\ TimeoutInv
    BY ZenonT(30) DEF IndInv
<1>t. UNCHANGED <<timed_out, spurious, panicked>>
    BY ZenonT(30) DEF disk_written
<1>2. TypeOK'
    <2>1. medium' \in [Dev -> [Sector -> Value]]
        BY <1>i, SMTT(30) DEF disk_written, TypeOK
    <2> QED BY <1>i, <2>1, ZenonT(30) DEF disk_written, TypeOK, driver
<1>3. OwnerInv'
    BY <1>i, ZenonT(30) DEF disk_written, OwnerInv, Owns, Using, driver
<1>c. ASSUME ~timed_out' PROVE StatusInv' /\ UserInv' /\ CompletionInv'
    <2>i. TypeOK /\ OwnerInv /\ StatusInv /\ UserInv /\ CompletionInv
        BY <1>c, <1>t, ZenonT(30) DEF IndInv
    <2>1. pc' = pc /\ op' = op /\ bsy /\ ~drq /\ cmd = "data"
        BY <2>i, ZenonT(30) DEF disk_written, StatusInv
    <2>4. StatusInv'
        BY <2>i, <2>1, ZenonT(30) DEF disk_written, StatusInv, driver
    <2>5. medium'[sel.dev][sel.sec] = data
        BY <2>i, ZenonT(30) DEF disk_written, TypeOK
    <2>6. ASSUME NEW u \in Thread PROVE InStep(u)'
        <3>1. InStep(u) /\ op[u].kind # "data"
            BY <2>i, ZenonT(30) DEF UserInv, TypeOK, Op
        <3> QED BY <2>i, <2>1, <2>5, <3>1, SMTT(30) DEF disk_written, InStep
    <2>7. UserInv'
        BY <2>6, ZenonT(30) DEF UserInv
    <2>8. CompletionInv'
        <3> SUFFICES ASSUME spurious = 0 PROVE CompletionInv'
            BY ZenonT(30) DEF CompletionInv, disk_written
        <3>1. PICK t \in Thread : pc[t] \in {"down", "poll"}
            BY <2>i, <2>1, ZenonT(30) DEF CompletionInv
        <3>2. pc[t] = "down"
            BY <2>i, <2>1, <3>1, ZenonT(30) DEF UserInv, InStep, TypeOK, Op
        <3>3. ~irq /\ completion_wait = 0
            BY <2>i, <2>1, SMTT(30) DEF CompletionInv, Answered, TypeOK
        <3> QED BY <2>i, <2>1, <3>2, <3>3, SMTT(30) DEF disk_written, CompletionInv, Answered,
           StatusInv, driver
    <2> QED BY <2>4, <2>7, <2>8
<1>o. TimeoutInv'
    BY <1>i, <1>t, ZenonT(30) DEF TimeoutInv
<1> QED BY <1>2, <1>3, <1>c, <1>o, ZenonT(30) DEF IndInv

\* Every step of the driver and of the disk preserves the invariant.
LEMMA NextInv == IndInv /\ [Next]_vars => IndInv'
<1> SUFFICES ASSUME IndInv, [Next]_vars PROVE IndInv'
    OBVIOUS
<1>1. CASE ide_init
    BY <1>1, ide_initStep
<1>2. ASSUME NEW t \in Thread, NEW o \in Op, o.kind # "identify", begin(t, o) PROVE IndInv'
    BY <1>2, beginStep
<1>3. ASSUME NEW t \in Thread, ThreadStep(t) PROVE IndInv'
    BY <1>3, lock_acquireStep, select_sectorStep, issue_pio_commandStep, sema_downStep,
       wait_while_busyStep, input_sectorStep, identify_ata_deviceStep, output_sectorStep,
       lock_releaseStep, ZenonT(30) DEF ThreadStep
<1>4. CASE interrupt_handler
    BY <1>4, interrupt_handlerStep
<1>5. CASE Disk
    BY <1>5, disk_readStep, disk_wants_dataStep, disk_writtenStep, disk_errorStep,
       ZenonT(30) DEF Disk
<1>6. CASE spurious_interrupt
    BY <1>6, spurious_interruptStep
<1>7. CASE UNCHANGED vars
    <2>i. TypeOK /\ OwnerInv /\ TimeoutInv
        BY ZenonT(30) DEF IndInv
    <2> USE <1>7 DEF vars, driver, device
    <2>1. TypeOK'
        BY <2>i, ZenonT(30) DEF TypeOK
    <2>2. OwnerInv' /\ TimeoutInv'
        BY <2>i, ZenonT(30) DEF OwnerInv, Owns, Using, TimeoutInv
    <2>c. ASSUME ~timed_out' PROVE StatusInv' /\ UserInv' /\ CompletionInv'
        <3>i. StatusInv /\ UserInv /\ CompletionInv
            BY <2>c, ZenonT(30) DEF IndInv
        <3>3. StatusInv'
            BY <3>i, ZenonT(30) DEF StatusInv
        <3>4. UserInv'
            BY <3>i, ZenonT(30) DEF UserInv, InStep
        <3>5. CompletionInv'
            BY <3>i, ZenonT(30) DEF CompletionInv, Answered
        <3> QED BY <3>3, <3>4, <3>5
    <2> QED BY <2>1, <2>2, <2>c, ZenonT(30) DEF IndInv
<1> QED BY <1>1, <1>2, <1>3, <1>4, <1>5, <1>6, <1>7, ZenonT(30) DEF Next

\* The invariant gives the protocol of the channel.
LEMMA ProtocolFollows == IndInv => ChannelProtocol
<1> SUFFICES ASSUME IndInv, ~timed_out, NEW t \in Thread
             PROVE  /\ pc[t] = "command" => ~bsy /\ ~drq /\ cmd = "none"
                    /\ pc[t] = "transfer" => drq
                    /\ pc[t] \in {"command", "down", "poll", "transfer"} => sel.dev = op[t].dev
    BY DEF ChannelProtocol
<1>i. TypeOK /\ OwnerInv /\ StatusInv /\ UserInv
    BY ZenonT(30) DEF IndInv
<1>1. InStep(t)
    BY <1>i DEF UserInv
<1>2. pc[t] = "command" => ~drq
    BY <1>i, OneUser, ZenonT(30) DEF StatusInv, Using
<1> QED BY <1>i, <1>1, <1>2, SMTT(30) DEF InStep, StatusInv

\* Without spurious interrupts no completion outlives the operation it is for.
LEMMA CompletionFollows == IndInv => NoStaleCompletion
<1> SUFFICES ASSUME IndInv, spurious = 0, ~timed_out
             PROVE  /\ completion_wait + (IF irq THEN 1 ELSE 0) <= 1
                    /\ (lock = None /\ booting = 2) =>
                           completion_wait = 0 /\ ~irq /\ ~bsy /\ ~drq
    BY DEF NoStaleCompletion
<1>i. TypeOK /\ OwnerInv /\ StatusInv /\ CompletionInv
    BY ZenonT(30) DEF IndInv
<1>1. completion_wait + (IF irq THEN 1 ELSE 0) <= 1
    BY <1>i, SMTT(30) DEF CompletionInv, TypeOK
<1>2. ASSUME lock = None, booting = 2
      PROVE  completion_wait = 0 /\ ~irq /\ ~bsy /\ ~drq
    <2>1. \A t \in Thread : ~Using(t)
        BY <1>i, <1>2, IdeAssumption DEF OwnerInv, Owns, TypeOK, Op, Dev
    <2>2. ~bsy /\ ~drq
        BY <1>i, <2>1, ZenonT(30) DEF StatusInv, CompletionInv, Using
    <2> QED BY <1>i, <2>1, <2>2, SMTT(30) DEF CompletionInv, Answered, Using, TypeOK
<1> QED BY <1>1, <1>2

\* The channel has one user, always.  Until wait_until_idle() or wait_while_busy()
\* gives up, the user is in step with the disk: commands go to an idle channel,
\* data move only while the selected disk asks for them, and without spurious
\* interrupts every completion is taken by the operation it belongs to.  And
\* without them no wait gives up but one that ends in a panic, so that a driver
\* that runs is in step with its disk.
THEOREM ChannelInStep == Spec => []Inv
<1>1. IndInv => Inv
    BY ProtocolFollows, CompletionFollows DEF Inv
<1> QED BY <1>1, InitInv, NextInv, PTL DEF Spec

\* Until a wait gives up, ide_read() returns the contents of the sector it was
\* asked for whatever interrupts arrive, and ide_write() returns with its data on
\* the medium as long as no interrupt is spurious.  With TimeoutInv: a driver that
\* meets no spurious interrupt moves the right data or panics.
THEOREM TransfersAlwaysCorrect == Spec => []TransfersCorrect
<1>1. IndInv => TransfersCorrect
    <2> SUFFICES ASSUME IndInv, ~timed_out, NEW t \in Thread, pc[t] = "return"
                 PROVE  /\ op[t].kind = "read" => buffer[t] = medium[op[t].dev][op[t].sec]
                        /\ op[t].kind = "write" /\ spurious = 0 =>
                               medium[op[t].dev][op[t].sec] = op[t].val
        BY DEF TransfersCorrect
    <2>i. TypeOK /\ OwnerInv /\ UserInv /\ CompletionInv
        BY ZenonT(30) DEF IndInv
    <2>1. InStep(t)
        BY <2>i DEF UserInv
    <2>2. spurious = 0 => ~bsy
        BY <2>i, OneUser, ZenonT(30) DEF CompletionInv, Using
    <2> QED BY <2>1, <2>2, ZenonT(30) DEF InStep
<1> QED BY <1>1, InitInv, NextInv, PTL DEF Spec
=============================================================================
