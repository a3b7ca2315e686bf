--------------------------------- MODULE Fdc ---------------------------------
(***************************************************************************)
(* The floppy driver (src/src/fdc.c): commands are written byte by byte to  *)
(* the controller, its interrupt sets a flag the driver waits for, and the  *)
(* data goes through a buffer the controller reaches by DMA.                *)
(*                                                                         *)
(* The driver runs in a system call; the handlers of IRQ6 and of the timer  *)
(* run between any two of its steps when interrupts are on.  The controller *)
(* works on its own, may take longer than the driver waits, and may fail.   *)
(* A loop that polls it ends when the controller is ready or, at any time,  *)
(* because it has counted to its end.                                       *)
(*                                                                         *)
(* A command is its opcode, the address it is about and the rest of its     *)
(* parameters: one "byte" stands for each of the three.                     *)
(***************************************************************************)
EXTENDS Integers, Sequences

CONSTANTS
  SECTORS_PER_TRACK, HEADS, TRACKS,
  Values,         \* what a sector may hold
  Calls,          \* the calls of the file system: see SectorStore
  NoCall, Failed,
  RESULT_BYTES,   \* results of a transfer: 7, more than those of a SENSE
  Drives,         \* drives a reset reports: 4
  MaxHlts,        \* hlts until fdc_wait_irq gives up: 10000
  MaxFaults       \* how often the driver may give up on a controller at work

Lbas == 0..(SECTORS_PER_TRACK * HEADS * TRACKS - 1)
Cylinder(lba) == lba \div (HEADS * SECTORS_PER_TRACK)
Sector(lba) == (lba % SECTORS_PER_TRACK) + 1

ASSUME FdcAssumption ==
  /\ SECTORS_PER_TRACK \in Nat \ {0} /\ HEADS \in Nat \ {0} /\ TRACKS \in Nat \ {0}
  /\ RESULT_BYTES \in Nat /\ RESULT_BYTES > 2
  /\ Drives \in Nat \ {0} /\ MaxHlts \in Nat \ {0} /\ MaxFaults \in Nat
  /\ NoCall \notin Calls /\ Failed \notin Seq(Values)
  /\ \A c \in Calls : /\ c.op \in {"read", "write"} /\ c.count \in Nat \ {0}
                      /\ {c.lba, c.lba + c.count - 1} \subseteq Lbas
                      /\ c.op = "write" => c.data \in [1..c.count -> Values]

-----------------------------------------------------------------------------
VARIABLES
  drv,               \* where the driver is and its locals: see Idle
  call, reply,       \* the call that runs, and what the last one returned
  fdc_irq_received,
  interrupts,        \* the processor's interrupt flag
  motor,
  dma_buffer,
  dma,               \* what the DMA channel is set up for
  faults,            \* how often the driver gave up, up to MaxFaults + 1
  irq,               \* IRQ6 is raised and not taken
  fdc,               \* the controller
  medium             \* the sectors of the disk

calls == <<drv, call, reply>>
cpu == <<fdc_irq_received, interrupts, motor, dma_buffer, dma>>
vars == <<calls, cpu, faults, irq, fdc, medium>>

-----------------------------------------------------------------------------
(* The controller                                                          *)

Bytes == [SENSE |-> 1, SPECIFY |-> 2, RECALIBRATE |-> 2, SEEK |-> 2, READ |-> 3, WRITE |-> 3]

Still == -1          \* the head does not move
Nowhere == TRACKS    \* a cylinder no command is about

Reset == [phase |-> "idle", cmd |-> <<>>, left |-> 0, ok |-> FALSE,
          seeking |-> Still, head |-> Nowhere, sense |-> 0, resetting |-> TRUE]

\* The main status register's RQM: the controller takes or gives a byte.
Ready == fdc.phase # "exec" /\ ~fdc.resetting

\* It works on something, and an interrupt will tell of its end.
Working == fdc.phase = "exec" \/ fdc.seeking # Still \/ fdc.resetting

Start(cmd) ==
  CASE cmd[1][1] = "SENSE" ->
         [fdc EXCEPT !.phase = "result", !.cmd = <<>>, !.ok = TRUE,
                     !.left = IF fdc.sense = 0 THEN 1 ELSE 2,
                     !.sense = IF @ = 0 THEN 0 ELSE @ - 1]
    [] cmd[1][1] = "SPECIFY" -> [fdc EXCEPT !.phase = "idle", !.cmd = <<>>]
    [] cmd[1][1] \in {"SEEK", "RECALIBRATE"} ->
         [fdc EXCEPT !.phase = "idle", !.cmd = <<>>,
                     !.seeking = IF cmd[1][1] = "RECALIBRATE" THEN 0
                                 ELSE IF cmd[2][1] = "cylinder" THEN cmd[2][2] ELSE Nowhere]
    [] OTHER -> [fdc EXCEPT !.phase = "exec", !.cmd = cmd]

\* A byte is taken as an opcode, as a parameter of the command that has
\* begun, or not at all while results wait.  No other byte is an opcode.
Receive(byte) ==
  LET cmd == Append(fdc.cmd, byte)
  IN  CASE fdc.phase = "result" -> fdc
        [] fdc.phase # "result" /\ cmd[1][1] \notin DOMAIN Bytes ->
             [fdc EXCEPT !.phase = "result", !.cmd = <<>>, !.left = 1, !.ok = FALSE]
        [] fdc.phase # "result" /\ cmd[1][1] \in DOMAIN Bytes /\ Len(cmd) < Bytes[cmd[1][1]] ->
             [fdc EXCEPT !.phase = "param", !.cmd = cmd]
        [] OTHER -> Start(cmd)

\* A byte of the results is taken; outside of them a read gives any value.
Give ==
  IF fdc.phase # "result" THEN fdc
  ELSE [fdc EXCEPT !.left = @ - 1, !.phase = IF fdc.left = 1 THEN "idle" ELSE "result"]

ResetComplete ==
  /\ fdc.resetting
  /\ fdc' = [fdc EXCEPT !.resetting = FALSE, !.sense = Drives]
  /\ irq' = TRUE
  /\ UNCHANGED <<calls, cpu, faults, medium>>

SeekComplete ==
  /\ fdc.seeking # Still
  /\ fdc' = [fdc EXCEPT !.seeking = Still, !.head = fdc.seeking, !.sense = 1]
  /\ irq' = TRUE
  /\ UNCHANGED <<calls, cpu, faults, medium>>

\* The address of a transfer is one, and the head stands over it.
OnTrack ==
  /\ fdc.seeking = Still
  /\ fdc.cmd[2][1] = "address" /\ Cylinder(fdc.cmd[2][2]) = fdc.head

Complete(ok) ==
  /\ fdc' = [fdc EXCEPT !.phase = "result", !.cmd = <<>>, !.left = RESULT_BYTES, !.ok = ok]
  /\ irq' = TRUE

ReadComplete ==
  /\ fdc.phase = "exec" /\ fdc.cmd[1][1] = "READ" /\ OnTrack /\ dma.mode = "read"
  /\ Complete(TRUE)
  /\ dma_buffer' = [i \in DOMAIN dma_buffer |->
                      IF i <= dma.count THEN medium[fdc.cmd[2][2] + i - 1] ELSE dma_buffer[i]]
  /\ UNCHANGED <<calls, fdc_irq_received, interrupts, motor, dma, faults, medium>>

WriteComplete ==
  /\ fdc.phase = "exec" /\ fdc.cmd[1][1] = "WRITE" /\ OnTrack /\ dma.mode = "write"
  /\ Complete(TRUE)
  /\ medium' = [medium EXCEPT ![fdc.cmd[2][2]] = dma_buffer[1]]
  /\ UNCHANGED <<calls, cpu, faults>>

\* No such sector under the head, or one that cannot be read or written.
TransferFails ==
  /\ fdc.phase = "exec"
  /\ Complete(FALSE)
  /\ UNCHANGED <<calls, cpu, faults, medium>>

-----------------------------------------------------------------------------
(* Interrupts                                                              *)

\* Any interrupt ends a hlt.
Woken == IF drv.pc = "hlt" THEN [drv EXCEPT !.pc = "test"] ELSE drv

fdc_irq_handler ==
  /\ interrupts /\ irq
  /\ irq' = FALSE /\ fdc_irq_received' = TRUE
  /\ drv' = Woken
  /\ UNCHANGED <<call, reply, interrupts, motor, dma_buffer, dma, faults, fdc, medium>>

\* The handler of the timer, or of the keyboard: to the driver they are alike.
timer_handler ==
  /\ interrupts /\ drv.pc = "hlt"
  /\ drv' = Woken
  /\ UNCHANGED <<call, reply, cpu, faults, irq, fdc, medium>>

-----------------------------------------------------------------------------
(* The driver.  pc is "send" while the bytes of out are written, "test",     *)
(* "halt" and "hlt" in fdc_wait_irq, "sense" before a SENSE INTERRUPT,       *)
(* "result" while need result bytes are read, "done" after the last of them. *)

Idle == [pc |-> "idle", stage |-> "none", done |-> 0, buffer |-> <<>>,
         out |-> <<>>, need |-> 0, hlts |-> 0, st0 |-> "error"]

\* An interrupt that is enabled is taken before the next instruction.
Runs == ~(interrupts /\ irq)

\* The sectors of the next transfer: up to the end of the track, or one.
Run(c, done) ==
  LET toEnd == SECTORS_PER_TRACK - Sector(c.lba + done) + 1
  IN  IF c.op = "write" THEN 1
      ELSE IF toEnd > c.count - done THEN c.count - done ELSE toEnd

fdc_seek(c, done, buffer) ==
  [Idle EXCEPT !.pc = "send", !.stage = "seek", !.done = done, !.buffer = buffer,
               !.out = << <<"SEEK">>, <<"cylinder", Cylinder(c.lba + done)>> >>]

\* A call begins, from a program or, with interrupts on, in the kernel's start.
Begin(c) ==
  /\ drv.pc = "idle" /\ Runs
  /\ call' = c /\ drv' = fdc_seek(c, 0, <<>>)
  /\ interrupts' \in BOOLEAN
  /\ motor' = TRUE /\ fdc_irq_received' = FALSE
  /\ UNCHANGED <<reply, dma_buffer, dma, faults, irq, fdc, medium>>

Return(r) ==
  /\ drv' = Idle /\ call' = NoCall /\ reply' = r
  /\ interrupts' = TRUE
  /\ UNCHANGED <<fdc_irq_received, dma_buffer, dma, medium>>

\* After the last byte the driver waits; SPECIFY has no interrupt.
Sent ==
  IF drv.stage = "specify" THEN [drv EXCEPT !.pc = "recalibrate", !.out = <<>>]
  ELSE [drv EXCEPT !.pc = "test", !.out = <<>>, !.hlts = MaxHlts]

fdc_write_byte ==
  /\ drv.pc = "send" /\ Runs /\ Ready
  /\ fdc' = Receive(Head(drv.out))
  /\ drv' = IF Len(drv.out) = 1 THEN Sent ELSE [drv EXCEPT !.out = Tail(@)]
  /\ UNCHANGED <<call, reply, cpu, faults, irq, medium>>

\* fdc_write_sectors returns from the middle of a command or of its results
\* without switching the motor off.
InWrite == /\ call # NoCall /\ call.op = "write" /\ drv.stage = "data"
           /\ drv.pc = "result" \/ (drv.pc = "send" /\ Len(drv.out) < Bytes.WRITE)

\* Another fault, if the controller was ready or at work.
Fault(atFault) == faults' = IF atFault /\ faults <= MaxFaults THEN faults + 1 ELSE faults

\* The mutant of PollFails: the result of fdc_seek is not looked at.
PollFailsInSeek ==
  /\ drv.pc \in {"send", "sense", "result"} /\ Runs
  /\ IF drv.stage = "seek"
     THEN /\ drv' = [drv EXCEPT !.pc = "done", !.out = <<>>, !.need = 0]
          /\ UNCHANGED <<call, reply, cpu, medium>>
     ELSE /\ motor' = IF call = NoCall THEN motor ELSE InWrite
          /\ Return(Failed)
  /\ Fault(Ready)
  /\ UNCHANGED <<irq, fdc>>

\* A poll of the controller counts to its end.  A read tries to take the
\* other result bytes before it fails.
PollFails ==
  /\ drv.pc \in {"send", "sense", "result"} /\ Runs
  /\ IF drv.pc = "result" /\ call # NoCall /\ call.op = "read" /\ drv.stage = "data" /\ drv.need > 1
     THEN /\ drv' = [drv EXCEPT !.need = @ - 1, !.st0 = "lost"]
          /\ UNCHANGED <<call, reply, cpu, medium>>
     ELSE /\ motor' = IF call = NoCall THEN motor ELSE InWrite
          /\ Return(Failed)
  /\ Fault(Ready)
  /\ UNCHANGED <<irq, fdc>>

-----------------------------------------------------------------------------
(* fdc_wait_irq                                                            *)

TestTimeout ==
  /\ drv.pc = "test" /\ Runs /\ drv.hlts = 0
  /\ motor' = IF call = NoCall THEN motor ELSE FALSE
  /\ Return(Failed)
  /\ Fault(Working)
  /\ UNCHANGED <<irq, fdc>>

TestFlag ==
  /\ drv.pc = "test" /\ Runs /\ drv.hlts > 0
  /\ fdc_irq_received' = FALSE
  /\ drv' = IF ~fdc_irq_received THEN [drv EXCEPT !.pc = "halt"]
            ELSE IF drv.stage = "data" THEN [drv EXCEPT !.pc = "result", !.need = RESULT_BYTES, !.hlts = 0]
            ELSE [drv EXCEPT !.pc = "sense", !.hlts = 0]
  /\ UNCHANGED <<call, reply, interrupts, motor, dma_buffer, dma, faults, irq, fdc, medium>>

\* The mutant of Halt: a wait without a time-out.
HaltUncounted ==
  /\ drv.pc = "halt" /\ Runs
  /\ interrupts' = TRUE
  /\ drv' = [drv EXCEPT !.pc = "hlt"]
  /\ UNCHANGED <<call, reply, fdc_irq_received, motor, dma_buffer, dma, faults, irq, fdc, medium>>

\* sti; hlt: nothing is taken between the two.
Halt ==
  /\ drv.pc = "halt" /\ Runs
  /\ interrupts' = TRUE
  /\ drv' = [drv EXCEPT !.pc = "hlt", !.hlts = @ - 1]
  /\ UNCHANGED <<call, reply, fdc_irq_received, motor, dma_buffer, dma, faults, irq, fdc, medium>>

-----------------------------------------------------------------------------
(* Results                                                                 *)

Sense ==
  /\ drv.pc = "sense" /\ Runs /\ Ready
  /\ fdc' = Receive(<<"SENSE">>)
  /\ drv' = [drv EXCEPT !.pc = "result", !.need = 2]
  /\ UNCHANGED <<call, reply, cpu, faults, irq, medium>>

\* What the first result byte says: the truth only if it is the first byte.
St0 == IF fdc.phase = "result" /\ fdc.left = RESULT_BYTES
       THEN {IF fdc.ok THEN "ok" ELSE "error"} ELSE {"ok", "error"}

fdc_read_byte ==
  /\ drv.pc = "result" /\ Runs /\ Ready
  /\ fdc' = Give
  /\ \E st0 \in IF drv.stage = "data" /\ drv.need = RESULT_BYTES THEN St0 ELSE {drv.st0} :
       drv' = [drv EXCEPT !.need = @ - 1, !.st0 = st0, !.pc = IF drv.need = 1 THEN "done" ELSE @]
  /\ UNCHANGED <<call, reply, cpu, faults, irq, medium>>

\* The four SENSE INTERRUPTs of fdc_reset, then SPECIFY.
DriveSensed ==
  /\ drv.pc = "done" /\ drv.stage = "reset" /\ Runs
  /\ drv' = IF drv.done + 1 < Drives THEN [drv EXCEPT !.pc = "sense", !.done = @ + 1]
            ELSE [Idle EXCEPT !.pc = "send", !.stage = "specify", !.out = << <<"SPECIFY">>, <<"times">> >>]
  /\ UNCHANGED <<call, reply, cpu, faults, irq, fdc, medium>>

fdc_recalibrate ==
  /\ drv.pc = "recalibrate" /\ Runs
  /\ motor' = TRUE /\ fdc_irq_received' = FALSE
  /\ drv' = [Idle EXCEPT !.pc = "send", !.stage = "recalibrate", !.out = << <<"RECALIBRATE">>, <<"drive">> >>]
  /\ UNCHANGED <<call, reply, interrupts, dma_buffer, dma, faults, irq, fdc, medium>>

\* Whether it succeeded or not, the kernel goes on.
Recalibrated ==
  /\ drv.pc = "done" /\ drv.stage = "recalibrate" /\ Runs
  /\ Return(Failed)
  /\ UNCHANGED <<motor, faults, irq, fdc>>

\* Where a seek has ended is not looked at.
SeekDone ==
  /\ drv.pc = "done" /\ drv.stage = "seek" /\ Runs
  /\ fdc_irq_received' = FALSE
  /\ dma' = [mode |-> call.op, count |-> Run(call, drv.done)]
  /\ dma_buffer' = IF call.op = "read" THEN dma_buffer ELSE [dma_buffer EXCEPT ![1] = call.data[drv.done + 1]]
  /\ drv' = [drv EXCEPT !.pc = "send", !.stage = "data",
                        !.out = << <<IF call.op = "read" THEN "READ" ELSE "WRITE">>,
                                   <<"address", call.lba + drv.done>>, <<"end">> >>]
  /\ UNCHANGED <<call, reply, interrupts, motor, faults, irq, fdc, medium>>

\* What the driver makes of the first result byte, and its mutant.
AnyResult == TRUE
TransferOk == drv.st0 = "ok"

\* A run of sectors has been transferred: the next one, or the end of the call.
DataDone ==
  /\ drv.pc = "done" /\ drv.stage = "data" /\ Runs
  /\ LET done == drv.done + Run(call, drv.done)
         buffer == IF call.op = "read" THEN drv.buffer \o SubSeq(dma_buffer, 1, done - drv.done) ELSE <<>>
     IN  CASE ~TransferOk -> Return(Failed) /\ motor' = FALSE
           [] TransferOk /\ done = call.count ->
                Return(IF call.op = "read" THEN buffer ELSE call.data) /\ motor' = FALSE
           [] OTHER ->
                /\ drv' = fdc_seek(call, done, buffer)
                /\ fdc_irq_received' = FALSE
                /\ UNCHANGED <<call, reply, interrupts, motor, dma_buffer, dma, medium>>
  /\ UNCHANGED <<faults, irq, fdc>>

-----------------------------------------------------------------------------
\* fdc_init runs when the kernel starts: the controller has just been reset.
Init ==
  /\ drv = [Idle EXCEPT !.pc = "test", !.stage = "reset", !.hlts = MaxHlts]
  /\ call = NoCall /\ reply = Failed
  /\ fdc_irq_received = FALSE /\ interrupts = TRUE /\ motor = FALSE
  /\ \E v \in Values : dma_buffer = [i \in 1..SECTORS_PER_TRACK |-> v]
  /\ dma = [mode |-> "read", count |-> 0]
  /\ faults = 0 /\ irq = FALSE /\ fdc = Reset
  /\ medium \in [Lbas -> Values]

Interrupt == fdc_irq_handler \/ timer_handler
Controller == ResetComplete \/ SeekComplete \/ ReadComplete \/ WriteComplete \/ TransferFails
Wait == TestTimeout \/ TestFlag \/ Halt
Driver ==
  \/ fdc_write_byte \/ PollFails \/ Wait \/ Sense \/ fdc_read_byte
  \/ DriveSensed \/ fdc_recalibrate \/ Recalibrated \/ SeekDone \/ DataDone

Next == Interrupt \/ Controller \/ Driver \/ \E c \in Calls : Begin(c)

\* The timer ticks and the processor runs; the controller may never answer.
Spec == Init /\ [][Next]_vars /\ WF_vars(Driver) /\ WF_vars(fdc_irq_handler) /\ WF_vars(timer_handler)

-----------------------------------------------------------------------------
(* Properties                                                              *)

Tokens == {<<op>> : op \in DOMAIN Bytes}
          \cup {<<"cylinder", c>> : c \in 0..(TRACKS - 1)} \cup {<<"address", l>> : l \in Lbas}
          \cup {<<"drive">>, <<"times">>, <<"end">>}

TypeOK ==
  /\ drv \in [pc : {"idle", "send", "test", "halt", "hlt", "sense", "result", "done", "recalibrate"},
              stage : {"none", "reset", "specify", "recalibrate", "seek", "data"},
              done : Nat, buffer : Seq(Values), out : Seq(Tokens), need : 0..RESULT_BYTES,
              hlts : 0..MaxHlts, st0 : {"ok", "error", "lost"}]
  /\ call \in Calls \cup {NoCall} /\ reply \in Seq(Values) \cup {Failed}
  /\ {fdc_irq_received, interrupts, motor, irq} \subseteq BOOLEAN
  /\ dma_buffer \in [1..SECTORS_PER_TRACK -> Values] /\ medium \in [Lbas -> Values]
  /\ dma \in [mode : {"read", "write"}, count : 0..SECTORS_PER_TRACK]
  /\ fdc \in [phase : {"idle", "param", "exec", "result"}, cmd : Seq(Tokens), left : 0..RESULT_BYTES,
              ok : BOOLEAN, seeking : Still..Nowhere, head : 0..Nowhere, sense : 0..Drives, resetting : BOOLEAN]

\* A transfer the controller still holds, and the sector it is about.
Holds(op) == fdc.phase \in {"param", "exec"} /\ fdc.cmd[1][1] = op /\ Len(fdc.cmd) > 1 /\ fdc.cmd[2][1] = "address"
Transferring == call # NoCall /\ drv.stage = "data"

\* A command that an earlier call gave up on never runs while the data of
\* this one is in the DMA buffer.
NoStaleTransfer ==
  \A op \in {"READ", "WRITE"} : Transferring /\ Holds(op) =>
    /\ op = IF call.op = "read" THEN "READ" ELSE "WRITE"
    /\ fdc.cmd[2][2] = call.lba + drv.done

\* Every variable keeps its type, and no transfer of an earlier call is running.
FdcInv == TypeOK /\ NoStaleTransfer

Store == INSTANCE SectorStore WITH
  late <- IF Holds("WRITE") /\ ~Transferring THEN {[lba |-> fdc.cmd[2][2], value |-> dma_buffer[1]]} ELSE {}

\* A call that succeeds has done what it was asked for; one that fails may
\* have done a part, of which a sector may still be written later, but never
\* after a call that succeeds.
SectorsDone == Store!Init /\ [][Store!Next \/ faults' > MaxFaults]_(Store!vars)

\* Every call returns, even if the controller never answers.
CallsReturn == drv.pc # "idle" ~> drv.pc = "idle"
=============================================================================
