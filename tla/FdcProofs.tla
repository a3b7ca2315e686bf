------------------------------ MODULE FdcProofs ------------------------------
(***************************************************************************)
(* The floppy driver never runs one call's transfer with the data of        *)
(* another, for disks and calls of every size and however often the         *)
(* controller fails, answers late or not at all.                            *)
(*                                                                         *)
(* A call that gives up leaves half a command, or a whole one, in the       *)
(* controller.  The argument follows what becomes of it: the first two      *)
(* bytes of the next call are those of a SEEK, which complete the half      *)
(* command to one without an address (BusOK), and a whole one keeps the     *)
(* controller from taking them until it has ended.                          *)
(***************************************************************************)
EXTENDS Fdc, SequenceTheorems, TLAPS

-----------------------------------------------------------------------------
(* Numbers                                                                  *)

Size == HEADS * SECTORS_PER_TRACK

LEMMA SizeFacts ==
  /\ SECTORS_PER_TRACK \in Nat \ {0} /\ TRACKS \in Nat \ {0} /\ Size \in Nat \ {0}
  /\ Lbas = 0..(Size * TRACKS - 1)
  /\ \A lba \in Lbas : lba \in Nat
PROOF
<1>1. \A a, b \in Nat \ {0} : a * b \in Nat \ {0} /\ a * b = b * a
  OBVIOUS
<1>2. Size \in Nat \ {0} /\ SECTORS_PER_TRACK * HEADS = Size
  BY <1>1, FdcAssumption DEF Size
<1>3. Size * TRACKS \in Nat
  BY <1>1, <1>2, FdcAssumption
<1> QED BY <1>2, <1>3, FdcAssumption DEF Lbas

\* The cylinder of a sector is one the disk has.
LEMMA CylinderFacts ==
  ASSUME NEW lba \in Lbas
  PROVE  Cylinder(lba) \in 0..(TRACKS - 1)
PROOF
<1>1. ASSUME NEW n \in Nat, NEW m \in Nat \ {0}, NEW t \in Nat \ {0}, n <= m * t - 1
      PROVE  n \div m \in 0..(t - 1)
  <2>1. n \div m \in Nat /\ m * (n \div m) <= n
    BY <1>1
  <2> DEFINE q == n \div m
  <2>2. q \in Nat /\ m * q <= n
    BY <2>1
  <2> HIDE DEF q
  <2>3. SUFFICES ASSUME q >= t PROVE FALSE
    BY <2>2, <2>3 DEF q
  <2>4. \A d \in Nat : m * (t + d) >= m * t
    BY <1>1
  <2>5. q - t \in Nat /\ q = t + (q - t)
    BY <2>2, <2>3, <1>1
  <2>6. m * q >= m * t /\ m * t \in Nat
    BY <2>4, <2>5, <1>1
  <2> QED BY <2>2, <2>6, <1>1
<1>2. lba \in Nat /\ lba <= Size * TRACKS - 1 /\ Size \in Nat \ {0} /\ TRACKS \in Nat \ {0}
  <2>1. Size * TRACKS \in Nat
    BY SizeFacts
  <2> QED BY <2>1, SizeFacts
<1>3. Cylinder(lba) = lba \div Size
  BY DEF Cylinder, Size
<1> QED BY <1>1, <1>2, <1>3

LEMMA CallFacts ==
  ASSUME NEW c \in Calls
  PROVE  /\ c # NoCall
         /\ c.op \in {"read", "write"} /\ c.count \in Nat \ {0} /\ c.lba \in Nat
         /\ c.op = "write" => c.data \in [1..c.count -> Values]
         /\ \A d \in Nat : d < c.count => c.lba + d \in Lbas /\ c.lba + d \in Nat
PROOF
<1>1. c.count \in Nat \ {0} /\ c.lba \in Lbas /\ c.lba + c.count - 1 \in Lbas
  BY FdcAssumption
<1>2. Size * TRACKS \in Nat
  BY SizeFacts
<1> QED BY <1>1, <1>2, SizeFacts, FdcAssumption

\* A transfer is of at least one sector, within the track and the call.
LEMMA RunFacts ==
  ASSUME NEW c \in Calls, NEW d \in Nat, d < c.count
  PROVE  /\ Run(c, d) \in 1..SECTORS_PER_TRACK
         /\ d + Run(c, d) \in Nat /\ d + Run(c, d) <= c.count
PROOF
<1>1. c.lba + d \in Nat /\ c.count \in Nat /\ c.count - d \in Nat /\ c.count - d >= 1
  BY CallFacts
<1>2. (c.lba + d) % SECTORS_PER_TRACK \in 0..(SECTORS_PER_TRACK - 1)
  BY <1>1, SizeFacts
<1> DEFINE m == (c.lba + d) % SECTORS_PER_TRACK
<1>3. Run(c, d) = IF c.op = "write" THEN 1
                  ELSE IF SECTORS_PER_TRACK - (m + 1) + 1 > c.count - d THEN c.count - d
                  ELSE SECTORS_PER_TRACK - (m + 1) + 1
  BY DEF Run, Sector
<1>4. m \in 0..(SECTORS_PER_TRACK - 1)
  BY <1>2
<1> HIDE DEF m
<1> QED BY <1>1, <1>3, <1>4, SizeFacts

-----------------------------------------------------------------------------
(* Commands                                                                 *)

Opcodes == {"SENSE", "SPECIFY", "RECALIBRATE", "SEEK", "READ", "WRITE"}
Transfers == {"READ", "WRITE"}

LEMMA BytesFacts ==
  /\ DOMAIN Bytes = Opcodes
  /\ \A op \in Opcodes : Bytes[op] = CASE op = "SENSE" -> 1
                                       [] op \in Transfers -> 3
                                       [] OTHER -> 2
PROOF
BY DEF Bytes, Opcodes, Transfers

LEMMA TokenFacts ==
  /\ \A op \in Opcodes : <<op>> \in Tokens /\ <<op>>[1] = op
  /\ \A t \in Tokens : t[1] \in Opcodes => t = <<t[1]>>
  /\ \A c \in 0..(TRACKS - 1) : <<"cylinder", c>> \in Tokens
  /\ \A l \in Lbas : <<"address", l>> \in Tokens
  /\ {<<"drive">>, <<"times">>, <<"end">>} \subseteq Tokens
  /\ \A t \in Tokens : t[1] = "cylinder" => t[2] \in 0..(TRACKS - 1)
  /\ \A t \in Tokens : t[1] = "address" => t[2] \in Lbas /\ t = <<"address", t[2]>>
PROOF
BY BytesFacts DEF Tokens, Opcodes

\* A command as far as the controller has it.
CmdOK ==
  /\ fdc.phase \in {"idle", "result"} => fdc.cmd = <<>>
  /\ fdc.phase = "param" =>
       \E op \in Opcodes \ {"SENSE"} :
         \/ fdc.cmd = << <<op>> >>
         \/ op \in Transfers /\ \E a \in Tokens : fdc.cmd = << <<op>>, a >>
  /\ fdc.phase = "exec" =>
       \E op \in Transfers : \E a, b \in Tokens : fdc.cmd = << <<op>>, a, b >>

Controllers == [phase : {"idle", "param", "exec", "result"}, cmd : Seq(Tokens), left : 0..RESULT_BYTES,
                ok : BOOLEAN, seeking : Still..Nowhere, head : 0..Nowhere, sense : 0..Drives, resetting : BOOLEAN]

LEMMA AppendIs ==
  ASSUME NEW S, NEW s \in Seq(S), NEW e \in S, NEW t \in Seq(S),
         Len(t) = Len(s) + 1, t[Len(s) + 1] = e, \A i \in 1..Len(s) : t[i] = s[i]
  PROVE  Append(s, e) = t
PROOF
<1> DEFINE u == Append(s, e)
<1>1. u \in Seq(S) /\ Len(u) = Len(s) + 1 /\ u[Len(s) + 1] = e /\ \A i \in 1..Len(s) : u[i] = s[i]
  BY AppendProperties
<1> HIDE DEF u
<1>2. Len(s) \in Nat
  OBVIOUS
<1>3. \A i \in 1..Len(u) : u[i] = t[i]
  BY <1>1, <1>2
<1>4. u = t
  BY <1>1, <1>3, SeqEqual
<1> QED BY <1>4 DEF u

LEMMA AppendOne ==
  ASSUME NEW x
  PROVE  Append(<<>>, x) = <<x>> /\ <<x>>[1] = x /\ Len(<<x>>) = 1
PROOF
OBVIOUS

LEMMA AppendTwo ==
  ASSUME NEW x, NEW y
  PROVE  Append(<<x>>, y) = <<x, y>> /\ <<x, y>>[1] = x /\ <<x, y>>[2] = y /\ Len(<<x, y>>) = 2
PROOF
<1> DEFINE S == {x, y}
           r == <<x>>
           s == <<x, y>>
<1>1. r \in Seq(S) /\ s \in Seq(S) /\ y \in S
  OBVIOUS
<1>2. Len(r) = 1 /\ Len(s) = 2 /\ s[1] = x /\ r[1] = x /\ s[2] = y
  OBVIOUS
<1> HIDE DEF S, r, s
<1>3. Len(s) = Len(r) + 1 /\ s[Len(r) + 1] = y /\ \A i \in 1..Len(r) : s[i] = r[i]
  BY <1>2
<1>4. Append(r, y) = s
  BY <1>1, <1>3, AppendIs
<1> QED BY <1>2, <1>4 DEF r, s

LEMMA AppendThree ==
  ASSUME NEW x, NEW y, NEW z
  PROVE  Append(<<x, y>>, z) = <<x, y, z>> /\ <<x, y, z>>[1] = x /\ <<x, y, z>>[2] = y /\ Len(<<x, y, z>>) = 3
PROOF
<1> DEFINE S == {x, y, z}
           s == <<x, y>>
           t == <<x, y, z>>
<1>1. s \in Seq(S) /\ t \in Seq(S) /\ z \in S
  OBVIOUS
<1>2. Len(s) = 2 /\ Len(t) = 3 /\ s[1] = x /\ s[2] = y /\ t[1] = x /\ t[2] = y /\ t[3] = z
  OBVIOUS
<1> HIDE DEF S, s, t
<1>3. Len(t) = Len(s) + 1 /\ t[Len(s) + 1] = z /\ \A i \in 1..Len(s) : t[i] = s[i]
  BY <1>2
<1>4. Append(s, z) = t
  BY <1>1, <1>3, AppendIs
<1> QED BY <1>2, <1>4 DEF s, t

LEMMA ReceiveCases ==
  ASSUME NEW byte, NEW cmd, cmd = Append(fdc.cmd, byte), NEW op \in Opcodes, cmd[1][1] = op, fdc.phase # "result"
  PROVE  /\ Len(cmd) < Bytes[op] => Receive(byte) = [fdc EXCEPT !.phase = "param", !.cmd = cmd]
         /\ ~(Len(cmd) < Bytes[op]) => Receive(byte) = Start(cmd)
PROOF
<1>1. cmd[1][1] \in DOMAIN Bytes /\ Bytes[cmd[1][1]] = Bytes[op]
  BY BytesFacts
<1> DEFINE n == Len(cmd)
           m == Bytes[op]
           o == cmd[1][1]
<1>2. Receive(byte) = CASE fdc.phase = "result" -> fdc
        [] fdc.phase # "result" /\ o \notin DOMAIN Bytes ->
             [fdc EXCEPT !.phase = "result", !.cmd = <<>>, !.left = 1, !.ok = FALSE]
        [] fdc.phase # "result" /\ o \in DOMAIN Bytes /\ n < m ->
             [fdc EXCEPT !.phase = "param", !.cmd = cmd]
        [] OTHER -> Start(cmd)
  BY <1>1 DEF Receive
<1>3. o \in DOMAIN Bytes
  BY <1>1
<1> HIDE DEF n, m, o
<1>4. n < m => Receive(byte) = [fdc EXCEPT !.phase = "param", !.cmd = cmd]
  BY <1>2, <1>3
<1>5. ~(n < m) => Receive(byte) = Start(cmd)
  BY <1>2, <1>3
<1> QED BY <1>4, <1>5 DEF n, m

\* What a byte does to the controller, in every state it takes one in.
LEMMA ReceiveFacts ==
  ASSUME CmdOK, Ready, fdc \in Controllers, NEW byte \in Tokens
  PROVE  \/ fdc.phase = "result" /\ Receive(byte) = fdc
         \/ /\ fdc.phase = "idle" /\ byte = <<"SENSE">>
            /\ Receive(byte) = [fdc EXCEPT !.phase = "result", !.cmd = <<>>, !.ok = TRUE,
                                           !.left = IF fdc.sense = 0 THEN 1 ELSE 2,
                                           !.sense = IF @ = 0 THEN 0 ELSE @ - 1]
         \/ /\ fdc.phase = "idle" /\ byte[1] \in Opcodes \ {"SENSE"} /\ byte = <<byte[1]>>
            /\ Receive(byte) = [fdc EXCEPT !.phase = "param", !.cmd = << byte >>]
         \/ /\ fdc.phase = "idle" /\ byte[1] \notin Opcodes
            /\ Receive(byte) = [fdc EXCEPT !.phase = "result", !.cmd = <<>>, !.left = 1, !.ok = FALSE]
         \/ /\ fdc.phase = "param" /\ fdc.cmd = << <<"SPECIFY">> >>
            /\ Receive(byte) = [fdc EXCEPT !.phase = "idle", !.cmd = <<>>]
         \/ /\ fdc.phase = "param" /\ fdc.cmd = << <<"RECALIBRATE">> >>
            /\ Receive(byte) = [fdc EXCEPT !.phase = "idle", !.cmd = <<>>, !.seeking = 0]
         \/ /\ fdc.phase = "param" /\ fdc.cmd = << <<"SEEK">> >>
            /\ Receive(byte) = [fdc EXCEPT !.phase = "idle", !.cmd = <<>>,
                                           !.seeking = IF byte[1] = "cylinder" THEN byte[2] ELSE Nowhere]
         \/ /\ fdc.phase = "param"
            /\ \E op \in Transfers : /\ fdc.cmd = << <<op>> >>
                                     /\ Receive(byte) = [fdc EXCEPT !.phase = "param", !.cmd = << <<op>>, byte >>]
         \/ /\ fdc.phase = "param"
            /\ \E op \in Transfers : \E a \in Tokens :
                 /\ fdc.cmd = << <<op>>, a >>
                 /\ Receive(byte) = [fdc EXCEPT !.phase = "exec", !.cmd = << <<op>>, a, byte >>]
PROOF
<1>1. fdc.phase \in {"idle", "param", "result"}
  BY DEF Ready, Controllers
<1>2. CASE fdc.phase = "result"
  BY <1>2 DEF Receive
<1>3. CASE fdc.phase = "idle"
  <2>1. fdc.cmd = <<>> /\ Append(fdc.cmd, byte) = <<byte>> /\ <<byte>>[1] = byte /\ Len(<<byte>>) = 1
    BY <1>3, AppendOne DEF CmdOK
  <2>2. CASE byte[1] \notin Opcodes
    BY <1>3, <2>1, <2>2, BytesFacts DEF Receive
  <2>3. CASE byte[1] = "SENSE"
    <3>1. byte = <<"SENSE">> /\ "SENSE" \in Opcodes /\ Bytes["SENSE"] = 1
      BY <2>3, TokenFacts, BytesFacts DEF Opcodes, Transfers
    <3> DEFINE cmd == Append(fdc.cmd, byte)
    <3>2. cmd = <<byte>> /\ Len(cmd) = 1 /\ cmd[1] = byte /\ cmd[1][1] = "SENSE"
      BY <2>1, <2>3
    <3> HIDE DEF cmd
    <3>3. Receive(byte) = Start(cmd)
      <4>1. ~(Len(cmd) < Bytes["SENSE"])
        BY <3>1, <3>2
      <4> QED BY <1>3, <3>1, <3>2, <4>1, ReceiveCases DEF cmd
    <3>4. Start(cmd) = [fdc EXCEPT !.phase = "result", !.cmd = <<>>, !.ok = TRUE,
                                   !.left = IF fdc.sense = 0 THEN 1 ELSE 2,
                                   !.sense = IF @ = 0 THEN 0 ELSE @ - 1]
      BY <3>2 DEF Start
    <3> QED BY <1>3, <3>1, <3>3, <3>4
  <2>4. CASE byte[1] \in Opcodes \ {"SENSE"}
    <3>1. byte = <<byte[1]>> /\ Bytes[byte[1]] \in {2, 3} /\ byte[1] \in Opcodes
      BY <2>4, TokenFacts, BytesFacts DEF Opcodes, Transfers
    <3> DEFINE cmd == Append(fdc.cmd, byte)
    <3>2. cmd = <<byte>> /\ Len(cmd) < Bytes[byte[1]] /\ cmd[1][1] = byte[1]
      BY <2>1, <3>1
    <3>3. Receive(byte) = [fdc EXCEPT !.phase = "param", !.cmd = cmd]
      BY <1>3, <3>1, <3>2, ReceiveCases
    <3> QED BY <1>3, <2>4, <3>1, <3>2, <3>3
  <2> QED BY <2>2, <2>3, <2>4
<1>4. CASE fdc.phase = "param"
  <2>1. PICK op \in Opcodes \ {"SENSE"} :
          \/ fdc.cmd = << <<op>> >>
          \/ op \in Transfers /\ \E a \in Tokens : fdc.cmd = << <<op>>, a >>
    BY <1>4 DEF CmdOK
  <2> DEFINE first == <<op>>
  <2>2. first[1] = op /\ op \in Opcodes
    BY <2>1
  <2> HIDE DEF first
  <2>3. CASE fdc.cmd = <<first>>
    <3> DEFINE cmd == Append(fdc.cmd, byte)
    <3>1. cmd = <<first, byte>> /\ cmd[1] = first /\ cmd[2] = byte /\ Len(cmd) = 2
      BY <2>3, AppendTwo
    <3> HIDE DEF cmd
    <3>2. /\ Len(cmd) < Bytes[op] => Receive(byte) = [fdc EXCEPT !.phase = "param", !.cmd = cmd]
          /\ ~(Len(cmd) < Bytes[op]) => Receive(byte) = Start(cmd)
      BY <1>4, <2>2, <3>1, ReceiveCases DEF cmd
    <3>3. CASE op \in Transfers
      <4>1. Len(cmd) < Bytes[op]
        BY <2>2, <3>1, <3>3, BytesFacts DEF Transfers
      <4>2. Receive(byte) = [fdc EXCEPT !.phase = "param", !.cmd = <<first, byte>>]
        BY <3>1, <3>2, <4>1
      <4> QED BY <1>4, <2>3, <3>3, <4>2 DEF first
    <3>4. CASE op \in {"SPECIFY", "RECALIBRATE", "SEEK"}
      <4>1. Receive(byte) = Start(cmd)
        BY <2>2, <3>1, <3>2, <3>4, BytesFacts DEF Transfers
      <4>2. CASE op = "SPECIFY"
        BY <1>4, <2>2, <2>3, <3>1, <4>1, <4>2 DEF Start, first
      <4>3. CASE op = "RECALIBRATE"
        BY <1>4, <2>2, <2>3, <3>1, <4>1, <4>3 DEF Start, first
      <4>4. CASE op = "SEEK"
        BY <1>4, <2>2, <2>3, <3>1, <4>1, <4>4 DEF Start, first
      <4> QED BY <3>4, <4>2, <4>3, <4>4
    <3> QED BY <2>1, <3>3, <3>4 DEF Opcodes, Transfers
  <2>4. CASE op \in Transfers /\ \E a \in Tokens : fdc.cmd = <<first, a>>
    <3>1. PICK a \in Tokens : fdc.cmd = <<first, a>>
      BY <2>4
    <3> DEFINE cmd == Append(fdc.cmd, byte)
    <3>2. cmd = <<first, a, byte>> /\ cmd[1] = first /\ Len(cmd) = 3
      BY <3>1, AppendThree
    <3> HIDE DEF cmd
    <3>3. Receive(byte) = Start(cmd)
      <4>1. ~(Len(cmd) < Bytes[op])
        BY <2>2, <2>4, <3>2, BytesFacts DEF Transfers
      <4> QED BY <1>4, <2>2, <3>2, <4>1, ReceiveCases DEF cmd
    <3>4. Start(cmd) = [fdc EXCEPT !.phase = "exec", !.cmd = cmd]
      BY <2>2, <2>4, <3>2 DEF Start, Transfers
    <3>5. Receive(byte) = [fdc EXCEPT !.phase = "exec", !.cmd = <<first, a, byte>>]
      BY <3>2, <3>3, <3>4
    <3> QED BY <1>4, <2>4, <3>1, <3>5 DEF first
  <2> QED BY <2>1, <2>3, <2>4 DEF first
<1> QED BY <1>1, <1>2, <1>3, <1>4

-----------------------------------------------------------------------------
(* The inductive invariant                                                  *)

Drivers == [pc : {"idle", "send", "test", "halt", "hlt", "sense", "result", "done", "recalibrate"},
            stage : {"none", "reset", "specify", "recalibrate", "seek", "data"},
            done : Nat, buffer : Seq(Values), out : Seq(Tokens), need : 0..RESULT_BYTES,
            hlts : 0..MaxHlts, st0 : {"ok", "error", "lost"}]

\* What the bytes that are still to be written are about.
Opcode == IF call.op = "read" THEN "READ" ELSE "WRITE"
Address == <<"address", call.lba + drv.done>>
SeekTo == <<"cylinder", Cylinder(call.lba + drv.done)>>

Outs ==
  CASE drv.stage = "seek" -> {<< <<"SEEK">>, SeekTo >>, << SeekTo >>}
    [] drv.stage = "data" -> {<< <<Opcode>>, Address, <<"end">> >>, << Address, <<"end">> >>, << <<"end">> >>}
    [] drv.stage = "specify" -> {<< <<"SPECIFY">>, <<"times">> >>, << <<"times">> >>}
    [] drv.stage = "recalibrate" -> {<< <<"RECALIBRATE">>, <<"drive">> >>, << <<"drive">> >>}
    [] OTHER -> {}

\* Where the driver is in its call.
DriverOK ==
  /\ drv.stage \in {"seek", "data"} => call \in Calls /\ drv.done < call.count
  /\ drv.pc = "send" => drv.out \in Outs
  /\ drv.pc = "halt" => drv.hlts > 0
  /\ drv.pc = "result" => drv.need > 0
  /\ fdc.phase = "result" => fdc.left > 0

\* The controller has the first bytes of a transfer: its address is in or not.
Held == fdc.phase = "exec" /\ fdc.cmd[2][1] = "address"
Quiet == fdc.phase # "param" /\ ~Held

\* What is left in the controller of a command that was given up, while the
\* driver writes the bytes of a new one.
BusOK ==
  /\ drv.stage = "seek" /\ drv.pc = "send" /\ Len(drv.out) = 1 /\ fdc.phase = "param" =>
                              \/ fdc.cmd = << <<"SEEK">> >>
                              \/ \E op \in Transfers : fdc.cmd = << <<op>>, <<"SEEK">> >>
  /\ drv.stage = "seek" /\ drv.pc # "send" => Quiet
  /\ drv.stage = "data" /\ drv.pc = "send" =>
       /\ ~Held
       /\ fdc.phase = "param" =>
            \/ Len(drv.out) = 2 /\ fdc.cmd = << <<Opcode>> >>
            \/ Len(drv.out) = 1 /\ fdc.cmd = << <<Opcode>>, Address >>
  /\ drv.stage = "data" /\ drv.pc # "send" =>
       /\ fdc.phase # "param"
       /\ Held => fdc.cmd[1] = <<Opcode>> /\ fdc.cmd[2] = Address

\* The DMA channel is set up for the transfer of the driver, and stays set up
\* for the one the controller holds.
DmaOK ==
  /\ drv.stage = "data" => dma = [mode |-> call.op, count |-> Run(call, drv.done)]
  /\ \A l \in Lbas :
       /\ fdc.phase \in {"param", "exec"} /\ Len(fdc.cmd) > 1
       /\ fdc.cmd[1] = <<"READ">> /\ fdc.cmd[2] = <<"address", l>> /\ dma.mode = "read"
       => \A i \in 1..dma.count : l + i - 1 \in Lbas

FdcInd == TypeOK /\ CmdOK /\ DriverOK /\ BusOK /\ DmaOK

-----------------------------------------------------------------------------
(* Steps of the controller and of the interrupt handlers                    *)

LEMMA TypeParts ==
  TypeOK <=> /\ drv \in Drivers /\ fdc \in Controllers
             /\ call \in Calls \cup {NoCall} /\ reply \in Seq(Values) \cup {Failed}
             /\ fdc_irq_received \in BOOLEAN /\ interrupts \in BOOLEAN /\ motor \in BOOLEAN /\ irq \in BOOLEAN
             /\ dma_buffer \in [1..SECTORS_PER_TRACK -> Values] /\ medium \in [Lbas -> Values]
             /\ dma \in [mode : {"read", "write"}, count : 0..SECTORS_PER_TRACK]
PROOF
BY DEF TypeOK, Drivers, Controllers

LEMMA InitInd == Init => FdcInd
PROOF
<1> SUFFICES ASSUME Init PROVE FdcInd
  OBVIOUS
<1>1. drv \in Drivers
  <2>1. Idle \in Drivers /\ MaxHlts \in 0..MaxHlts
    BY FdcAssumption DEF Idle, Drivers
  <2> QED BY <2>1 DEF Init, Drivers
<1>2. fdc \in Controllers
  BY FdcAssumption DEF Init, Reset, Controllers, Still, Nowhere
<1>3. dma_buffer \in [1..SECTORS_PER_TRACK -> Values] /\ medium \in [Lbas -> Values]
  BY DEF Init
<1>4. dma \in [mode : {"read", "write"}, count : 0..SECTORS_PER_TRACK]
  BY FdcAssumption DEF Init
<1>5. TypeOK
  BY <1>1, <1>2, <1>3, <1>4, TypeParts DEF Init
<1>6. CmdOK /\ DriverOK /\ BusOK
  BY DEF Init, Idle, Reset, CmdOK, DriverOK, BusOK
<1>7. DmaOK
  BY DEF Init, Idle, Reset, DmaOK
<1> QED BY <1>5, <1>6, <1>7 DEF FdcInd

\* Steps of the driver within a stage that send no byte.
LEMMA WithinStage ==
  ASSUME FdcInd, UNCHANGED <<call, dma, fdc>>, TypeOK',
         drv'.stage = drv.stage, drv'.done = drv.done, drv'.out = drv.out,
         drv'.pc = "send" <=> drv.pc = "send",
         drv'.pc = "halt" => drv'.hlts > 0,
         drv'.pc = "result" => drv'.need > 0
  PROVE  FdcInd'
PROOF
<1>1. CmdOK' /\ DmaOK'
  BY DEF FdcInd, CmdOK, DmaOK, Run
<1>2. Outs' = Outs
  BY DEF Outs, Opcode, Address, SeekTo, Cylinder
<1>3. DriverOK'
  BY <1>2 DEF FdcInd, DriverOK
<1>4. BusOK'
  BY DEF FdcInd, BusOK, Quiet, Held, Opcode, Address
<1> QED BY <1>1, <1>3, <1>4 DEF FdcInd

LEMMA WaitInd ==
  ASSUME FdcInd, fdc_irq_handler \/ timer_handler \/ TestFlag \/ Halt
  PROVE  FdcInd'
PROOF
<1>1. TypeOK /\ drv \in Drivers /\ RESULT_BYTES \in 0..RESULT_BYTES /\ RESULT_BYTES > 0 /\ 0 \in 0..MaxHlts
  BY FdcAssumption, TypeParts DEF FdcInd
<1>2. UNCHANGED <<call, reply, motor, dma_buffer, dma, fdc, medium>>
  BY DEF fdc_irq_handler, timer_handler, TestFlag, Halt, cpu
<1>3. fdc_irq_received' \in BOOLEAN /\ interrupts' \in BOOLEAN /\ irq' \in BOOLEAN
  BY <1>1, TypeParts DEF fdc_irq_handler, timer_handler, TestFlag, Halt, cpu
<1>4. \/ drv' = drv
      \/ drv.pc = "hlt" /\ drv' = [drv EXCEPT !.pc = "test"]
      \/ drv.pc = "test" /\ drv.hlts > 0 /\ drv' = [drv EXCEPT !.pc = "halt"]
      \/ drv.pc = "test" /\ drv' = [drv EXCEPT !.pc = "result", !.need = RESULT_BYTES, !.hlts = 0]
      \/ drv.pc = "test" /\ drv' = [drv EXCEPT !.pc = "sense", !.hlts = 0]
      \/ drv.pc = "halt" /\ drv.hlts > 0 /\ drv' = [drv EXCEPT !.pc = "hlt", !.hlts = @ - 1]
  BY DEF FdcInd, DriverOK, fdc_irq_handler, timer_handler, TestFlag, Halt, Woken
<1>5. /\ drv' \in Drivers
      /\ drv'.stage = drv.stage /\ drv'.done = drv.done /\ drv'.out = drv.out
      /\ drv'.pc = "send" <=> drv.pc = "send"
      /\ drv'.pc = "idle" => drv.pc = "idle"
      /\ drv'.pc = "halt" => drv'.hlts > 0
      /\ drv'.pc = "result" => drv'.need > 0
  <2>1. CASE drv' = drv
    BY <1>1, <2>1 DEF FdcInd, DriverOK
  <2>2. CASE drv.pc = "halt" /\ drv.hlts > 0 /\ drv' = [drv EXCEPT !.pc = "hlt", !.hlts = @ - 1]
    <3>1. drv.hlts \in 0..MaxHlts /\ MaxHlts \in Nat
      BY <1>1, FdcAssumption DEF Drivers
    <3>2. drv.hlts - 1 \in 0..MaxHlts
      BY <2>2, <3>1
    <3> QED BY <1>1, <2>2, <3>2 DEF Drivers
  <2> QED BY <1>1, <1>4, <2>1, <2>2 DEF Drivers
<1>6. TypeOK'
  BY <1>1, <1>2, <1>3, <1>5, TypeParts DEF TypeOK, Drivers, Controllers
<1> QED BY <1>2, <1>5, <1>6, WithinStage

LEMMA ControllerInd ==
  ASSUME FdcInd, Controller
  PROVE  FdcInd'
PROOF
<1>1. TypeOK /\ fdc \in Controllers /\ dma_buffer \in [1..SECTORS_PER_TRACK -> Values] /\ medium \in [Lbas -> Values]
  BY TypeParts DEF FdcInd
<1>2. UNCHANGED <<drv, call, reply, fdc_irq_received, interrupts, motor, dma>> /\ irq' = TRUE
  BY DEF Controller, ResetComplete, SeekComplete, ReadComplete, WriteComplete, TransferFails, Complete, calls, cpu
<1>3. \/ fdc' = [fdc EXCEPT !.resetting = FALSE, !.sense = Drives]
      \/ fdc' = [fdc EXCEPT !.seeking = Still, !.head = fdc.seeking, !.sense = 1] /\ fdc.seeking # Still
      \/ \E ok \in BOOLEAN :
           fdc' = [fdc EXCEPT !.phase = "result", !.cmd = <<>>, !.left = RESULT_BYTES, !.ok = ok]
  BY DEF Controller, ResetComplete, SeekComplete, ReadComplete, WriteComplete, TransferFails, Complete
<1>4. /\ fdc' \in Controllers
      /\ \/ fdc'.phase = fdc.phase /\ fdc'.cmd = fdc.cmd /\ fdc'.left = fdc.left
         \/ fdc'.phase = "result" /\ fdc'.cmd = <<>> /\ fdc'.left > 0
  <2>1. RESULT_BYTES \in 0..RESULT_BYTES /\ RESULT_BYTES > 0 /\ Drives \in 0..Drives /\ 1 \in 0..Drives /\ Still \in Still..Nowhere
    BY FdcAssumption DEF Still, Nowhere
  <2>2. <<>> \in Seq(Tokens)
    OBVIOUS
  <2>3. fdc.seeking # Still => fdc.seeking \in 0..Nowhere
    BY <1>1, FdcAssumption DEF Controllers, Still, Nowhere
  <2>4. CASE fdc' = [fdc EXCEPT !.resetting = FALSE, !.sense = Drives]
    BY <1>1, <2>1, <2>4 DEF Controllers
  <2>5. CASE fdc' = [fdc EXCEPT !.seeking = Still, !.head = fdc.seeking, !.sense = 1] /\ fdc.seeking # Still
    BY <1>1, <2>1, <2>3, <2>5 DEF Controllers
  <2>6. ASSUME NEW ok \in BOOLEAN,
               fdc' = [fdc EXCEPT !.phase = "result", !.cmd = <<>>, !.left = RESULT_BYTES, !.ok = ok]
        PROVE  fdc' \in Controllers /\ fdc'.phase = "result" /\ fdc'.cmd = <<>> /\ fdc'.left > 0
    BY <1>1, <2>1, <2>2, <2>6 DEF Controllers
  <2> QED BY <1>3, <2>4, <2>5, <2>6
<1>5. dma_buffer' \in [1..SECTORS_PER_TRACK -> Values]
  <2>1. CASE ReadComplete
    <3>1. /\ fdc.phase = "exec" /\ fdc.cmd[1][1] = "READ" /\ fdc.cmd[2][1] = "address" /\ dma.mode = "read"
          /\ dma_buffer' = [i \in DOMAIN dma_buffer |->
                              IF i <= dma.count THEN medium[fdc.cmd[2][2] + i - 1] ELSE dma_buffer[i]]
      BY <2>1 DEF ReadComplete, OnTrack
    <3>2. PICK op \in Transfers : \E a, b \in Tokens : fdc.cmd = << <<op>>, a, b >>
      BY <3>1 DEF FdcInd, CmdOK
    <3>3. PICK a, b \in Tokens : fdc.cmd = << <<op>>, a, b >>
      BY <3>2
    <3>4. fdc.cmd[1] = <<op>> /\ fdc.cmd[2] = a /\ Len(fdc.cmd) > 1
      BY <3>3
    <3>5. op = "READ" /\ a[1] = "address"
      BY <3>1, <3>4
    <3>6. a[2] \in Lbas /\ a = <<"address", a[2]>>
      BY <3>5, TokenFacts
    <3>7. \A i \in 1..dma.count : a[2] + i - 1 \in Lbas
      BY <3>1, <3>4, <3>5, <3>6 DEF FdcInd, DmaOK
    <3>8. dma.count \in Nat
      BY <1>1, TypeParts
    <3> DEFINE l == fdc.cmd[2][2]
    <3>9. \A i \in 1..SECTORS_PER_TRACK : i <= dma.count => medium[l + i - 1] \in Values
      BY <1>1, <3>4, <3>7, <3>8, FdcAssumption
    <3> HIDE DEF l
    <3>10. dma_buffer' = [i \in 1..SECTORS_PER_TRACK |->
                            IF i <= dma.count THEN medium[l + i - 1] ELSE dma_buffer[i]]
      BY <1>1, <3>1 DEF l
    <3> QED BY <1>1, <3>9, <3>10
  <2>2. CASE ~ReadComplete
    BY <1>1, <2>2 DEF Controller, ResetComplete, SeekComplete, WriteComplete, TransferFails, cpu
  <2> QED BY <2>1, <2>2
<1>6. medium' \in [Lbas -> Values]
  <2>1. dma_buffer[1] \in Values
    BY <1>1, FdcAssumption
  <2> QED BY <1>1, <2>1 DEF Controller, ResetComplete, SeekComplete, ReadComplete, WriteComplete, TransferFails
<1>7. TypeOK'
  BY <1>1, <1>2, <1>4, <1>5, <1>6, TypeParts DEF TypeOK, Drivers, Controllers
<1>8. CmdOK'
  BY <1>4 DEF FdcInd, CmdOK
<1>9. Outs' = Outs
  BY <1>2 DEF Outs, Opcode, Address, SeekTo, Cylinder
<1>10. DriverOK'
  BY <1>2, <1>4, <1>9 DEF FdcInd, DriverOK
<1>11. BusOK'
  BY <1>2, <1>4 DEF FdcInd, BusOK, Quiet, Held, Opcode, Address
<1>12. DmaOK'
  BY <1>2, <1>4 DEF FdcInd, DmaOK, Run
<1> QED BY <1>7, <1>8, <1>10, <1>11, <1>12 DEF FdcInd

-----------------------------------------------------------------------------
(* Steps of the driver                                                      *)

LEMMA ReceiveType ==
  ASSUME CmdOK, Ready, fdc \in Controllers, NEW byte \in Tokens, fdc' = Receive(byte),
         fdc.phase = "result" => fdc.left > 0
  PROVE  /\ fdc' \in Controllers /\ CmdOK' /\ (fdc'.phase = "result" => fdc'.left > 0)
         /\ fdc.phase # "exec"
         /\ \/ fdc.phase = "result" /\ fdc' = fdc
            \/ fdc'.phase \in {"idle", "result"}
            \/ fdc.phase = "idle" /\ fdc'.phase = "param" /\ fdc'.cmd = <<byte>> /\ byte[1] \in Opcodes \ {"SENSE"}
            \/ /\ fdc.phase = "param" /\ fdc'.phase = "param"
               /\ \E op \in Transfers : fdc.cmd = << <<op>> >> /\ fdc'.cmd = << <<op>>, byte >>
            \/ /\ fdc.phase = "param" /\ fdc'.phase = "exec"
               /\ \E op \in Transfers : \E a \in Tokens :
                    fdc.cmd = << <<op>>, a >> /\ fdc'.cmd = << <<op>>, a, byte >>
PROOF
<1>1. RESULT_BYTES \in Nat /\ RESULT_BYTES > 2 /\ Drives \in Nat /\ TRACKS \in Nat \ {0}
  BY FdcAssumption
<1>2. /\ fdc.phase # "exec" /\ fdc.sense \in 0..Drives /\ <<>> \in Seq(Tokens)
      /\ 1 \in 0..RESULT_BYTES /\ 2 \in 0..RESULT_BYTES /\ 0 \in Still..Nowhere /\ Nowhere \in Still..Nowhere
      /\ \A c \in 0..(TRACKS - 1) : c \in Still..Nowhere
  BY <1>1 DEF Ready, Controllers, Still, Nowhere
<1>3. CASE fdc.phase = "result" /\ fdc' = fdc
  BY <1>2, <1>3 DEF CmdOK
<1>4. CASE /\ fdc.phase = "idle" /\ byte = <<"SENSE">>
           /\ fdc' = [fdc EXCEPT !.phase = "result", !.cmd = <<>>, !.ok = TRUE,
                                 !.left = IF fdc.sense = 0 THEN 1 ELSE 2,
                                 !.sense = IF @ = 0 THEN 0 ELSE @ - 1]
  <2> DEFINE left == IF fdc.sense = 0 THEN 1 ELSE 2
             sense == IF fdc.sense = 0 THEN 0 ELSE fdc.sense - 1
  <2>1. left \in 0..RESULT_BYTES /\ left > 0 /\ sense \in 0..Drives
    BY <1>1, <1>2
  <2>2. fdc' = [fdc EXCEPT !.phase = "result", !.cmd = <<>>, !.ok = TRUE, !.left = left, !.sense = sense]
    BY <1>4 DEF Controllers
  <2> HIDE DEF left, sense
  <2>3. fdc' \in Controllers /\ fdc'.phase = "result" /\ fdc'.cmd = <<>> /\ fdc'.left > 0
    BY <1>2, <2>1, <2>2 DEF Controllers
  <2> QED BY <1>2, <2>3 DEF CmdOK
<1>5. CASE /\ fdc.phase = "idle" /\ byte[1] \in Opcodes \ {"SENSE"} /\ byte = <<byte[1]>>
           /\ fdc' = [fdc EXCEPT !.phase = "param", !.cmd = << byte >>]
  <2>1. <<byte>> \in Seq(Tokens)
    OBVIOUS
  <2>2. fdc' \in Controllers /\ fdc'.phase = "param" /\ fdc'.cmd = <<byte>>
    BY <1>5, <2>1 DEF Controllers
  <2> QED BY <1>2, <1>5, <2>2 DEF CmdOK
<1>6. CASE /\ fdc.phase = "idle" /\ byte[1] \notin Opcodes
           /\ fdc' = [fdc EXCEPT !.phase = "result", !.cmd = <<>>, !.left = 1, !.ok = FALSE]
  <2>1. fdc' \in Controllers /\ fdc'.phase = "result" /\ fdc'.cmd = <<>> /\ fdc'.left = 1
    BY <1>2, <1>6 DEF Controllers
  <2> QED BY <1>2, <2>1 DEF CmdOK
<1>7. ASSUME NEW seeking \in Still..Nowhere, fdc' = [fdc EXCEPT !.phase = "idle", !.cmd = <<>>, !.seeking = seeking]
      PROVE  fdc' \in Controllers /\ CmdOK' /\ fdc'.phase = "idle"
  <2>1. fdc' \in Controllers /\ fdc'.phase = "idle" /\ fdc'.cmd = <<>>
    BY <1>2, <1>7 DEF Controllers
  <2> QED BY <2>1 DEF CmdOK
<1>8. CASE /\ fdc.phase = "param" /\ fdc.cmd = << <<"SPECIFY">> >>
           /\ fdc' = [fdc EXCEPT !.phase = "idle", !.cmd = <<>>]
  <2>1. fdc' \in Controllers /\ fdc'.phase = "idle" /\ fdc'.cmd = <<>>
    BY <1>2, <1>8 DEF Controllers
  <2> QED BY <1>2, <2>1 DEF CmdOK
<1>9. CASE /\ fdc.phase = "param" /\ fdc.cmd = << <<"RECALIBRATE">> >>
           /\ fdc' = [fdc EXCEPT !.phase = "idle", !.cmd = <<>>, !.seeking = 0]
  BY <1>2, <1>7, <1>9
<1>10. CASE /\ fdc.phase = "param" /\ fdc.cmd = << <<"SEEK">> >>
            /\ fdc' = [fdc EXCEPT !.phase = "idle", !.cmd = <<>>,
                                  !.seeking = IF byte[1] = "cylinder" THEN byte[2] ELSE Nowhere]
  <2> DEFINE seeking == IF byte[1] = "cylinder" THEN byte[2] ELSE Nowhere
  <2>1. seeking \in Still..Nowhere
    BY <1>2, TokenFacts
  <2> HIDE DEF seeking
  <2>2. fdc' = [fdc EXCEPT !.phase = "idle", !.cmd = <<>>, !.seeking = seeking]
    BY <1>10 DEF seeking
  <2> QED BY <1>2, <1>7, <2>1, <2>2
<1>11. ASSUME NEW op \in Transfers, fdc.phase = "param", fdc.cmd = << <<op>> >>,
              fdc' = [fdc EXCEPT !.phase = "param", !.cmd = << <<op>>, byte >>]
       PROVE  fdc' \in Controllers /\ CmdOK' /\ fdc'.phase = "param" /\ fdc'.cmd = << <<op>>, byte >>
  <2> DEFINE first == <<op>>
  <2>1. first \in Tokens /\ op \in Opcodes \ {"SENSE"}
    BY TokenFacts DEF Opcodes, Transfers
  <2> HIDE DEF first
  <2>2. <<first, byte>> \in Seq(Tokens)
    BY <2>1
  <2>3. fdc' \in Controllers /\ fdc'.phase = "param" /\ fdc'.cmd = <<first, byte>>
    BY <1>11, <2>2 DEF Controllers, first
  <2> QED BY <2>1, <2>3 DEF CmdOK, first
<1>12. ASSUME NEW op \in Transfers, NEW a \in Tokens, fdc.phase = "param", fdc.cmd = << <<op>>, a >>,
              fdc' = [fdc EXCEPT !.phase = "exec", !.cmd = << <<op>>, a, byte >>]
       PROVE  fdc' \in Controllers /\ CmdOK' /\ fdc'.phase = "exec" /\ fdc'.cmd = << <<op>>, a, byte >>
  <2> DEFINE first == <<op>>
  <2>1. first \in Tokens
    BY TokenFacts DEF Opcodes, Transfers
  <2> HIDE DEF first
  <2>2. <<first, a, byte>> \in Seq(Tokens)
    BY <2>1
  <2>3. fdc' \in Controllers /\ fdc'.phase = "exec" /\ fdc'.cmd = <<first, a, byte>>
    BY <1>12, <2>2 DEF Controllers, first
  <2> QED BY <2>1, <2>3 DEF CmdOK, first
<1>13. CASE /\ fdc.phase = "param"
            /\ \E op \in Transfers : /\ fdc.cmd = << <<op>> >>
                                     /\ Receive(byte) = [fdc EXCEPT !.phase = "param", !.cmd = << <<op>>, byte >>]
  <2>1. PICK op \in Transfers : /\ fdc.cmd = << <<op>> >>
                                /\ fdc' = [fdc EXCEPT !.phase = "param", !.cmd = << <<op>>, byte >>]
    BY <1>13
  <2>2. fdc' \in Controllers /\ CmdOK' /\ fdc'.phase = "param" /\ fdc'.cmd = << <<op>>, byte >>
    BY <1>11, <1>13, <2>1
  <2> QED BY <1>2, <1>13, <2>1, <2>2
<1>14. CASE /\ fdc.phase = "param"
            /\ \E op \in Transfers : \E a \in Tokens :
                 /\ fdc.cmd = << <<op>>, a >>
                 /\ Receive(byte) = [fdc EXCEPT !.phase = "exec", !.cmd = << <<op>>, a, byte >>]
  <2>1. PICK op \in Transfers : \E a \in Tokens :
               /\ fdc.cmd = << <<op>>, a >>
               /\ fdc' = [fdc EXCEPT !.phase = "exec", !.cmd = << <<op>>, a, byte >>]
    BY <1>14
  <2>2. PICK a \in Tokens : /\ fdc.cmd = << <<op>>, a >>
                            /\ fdc' = [fdc EXCEPT !.phase = "exec", !.cmd = << <<op>>, a, byte >>]
    BY <2>1
  <2>3. fdc' \in Controllers /\ CmdOK' /\ fdc'.phase = "exec" /\ fdc'.cmd = << <<op>>, a, byte >>
    BY <1>12, <1>14, <2>2
  <2> QED BY <1>2, <1>14, <2>2, <2>3
<1> QED BY <1>3, <1>4, <1>5, <1>6, <1>8, <1>9, <1>10, <1>13, <1>14, ReceiveFacts

LEMMA HeadTailFacts ==
  ASSUME NEW x, NEW y, NEW out
  PROVE  /\ out = <<y>> => Head(out) = y /\ Len(out) = 1
         /\ out = <<x, y>> => Head(out) = x /\ Tail(out) = <<y>> /\ Len(out) = 2 /\ Len(Tail(out)) = 1
PROOF
<1>1. Head(<<y>>) = y /\ Len(<<y>>) = 1
  OBVIOUS
<1>2. Head(<<x, y>>) = x /\ Tail(<<x, y>>) = <<y>> /\ Len(<<x, y>>) = 2
  OBVIOUS
<1>3. ASSUME out = <<y>> PROVE Head(out) = y /\ Len(out) = 1
  BY <1>1, <1>3, Zenon
<1>4. ASSUME out = <<x, y>> PROVE Head(out) = x /\ Tail(out) = <<y>> /\ Len(out) = 2 /\ Len(Tail(out)) = 1
  BY <1>1, <1>2, <1>4, Zenon
<1> QED BY <1>3, <1>4

LEMMA Different ==
  ASSUME NEW x, NEW y, NEW z, NEW w
  PROVE  /\ <<x>> # <<y, z>> /\ (<<x>> = <<y>> => x = y) /\ (<<x, w>> = <<y, z>> => x = y /\ w = z)
         /\ <<x, y, z>>[1] = x /\ <<x, y, z>>[2] = y /\ <<x>>[1] = x
PROOF
<1>1. <<x>>[1] = x /\ <<y>>[1] = y /\ <<x, w>>[1] = x /\ <<x, w>>[2] = w /\ <<y, z>>[1] = y /\ <<y, z>>[2] = z
  OBVIOUS
<1>2. Len(<<x>>) = 1 /\ Len(<<y, z>>) = 2
  OBVIOUS
<1>3. <<x>> # <<y, z>>
  BY <1>2
<1>4. <<x, y, z>>[1] = x /\ <<x, y, z>>[2] = y
  OBVIOUS
<1> QED BY <1>1, <1>3, <1>4, Zenon

LEMMA HeadTailThree ==
  ASSUME NEW x, NEW y, NEW z
  PROVE  Head(<<x, y, z>>) = x /\ Tail(<<x, y, z>>) = <<y, z>> /\ Len(<<x, y, z>>) = 3
PROOF
OBVIOUS

LEMMA AddressFacts ==
  ASSUME DriverOK, TypeOK, drv.stage \in {"seek", "data"}
  PROVE  /\ call \in Calls /\ call # NoCall /\ drv.done \in Nat /\ drv.done < call.count
         /\ call.lba + drv.done \in Lbas /\ call.lba \in Nat
         /\ SeekTo \in Tokens /\ SeekTo[1] = "cylinder" /\ Address \in Tokens /\ Address[1] = "address"
         /\ Opcode \in Transfers
         /\ Opcode = "READ" => call.op = "read"
PROOF
<1>1. call \in Calls /\ drv.done \in Nat /\ drv.done < call.count
  BY TypeParts DEF DriverOK, Drivers
<1>2. call.lba + drv.done \in Lbas /\ call.lba \in Nat /\ call # NoCall
  BY <1>1, CallFacts
<1>3. Cylinder(call.lba + drv.done) \in 0..(TRACKS - 1)
  BY <1>2, CylinderFacts
<1> QED BY <1>1, <1>2, <1>3, TokenFacts DEF SeekTo, Address, Opcode, Transfers

\* The next byte, and what is left after it.
LEMMA OutFacts ==
  ASSUME DriverOK, TypeOK, drv.pc = "send"
  PROVE  /\ Head(drv.out) \in Tokens
         /\ drv.stage \in {"specify", "recalibrate", "seek", "data"}
         /\ \/ Len(drv.out) = 1
            \/ Len(drv.out) \in {2, 3} /\ Tail(drv.out) \in Outs /\ Len(Tail(drv.out)) = Len(drv.out) - 1
         /\ drv.stage = "seek" => \/ Len(drv.out) = 2 /\ Head(drv.out) = <<"SEEK">>
                                  \/ Len(drv.out) = 1 /\ Head(drv.out) = SeekTo
         /\ drv.stage = "data" => \/ Len(drv.out) = 3 /\ Head(drv.out) = <<Opcode>>
                                  \/ Len(drv.out) = 2 /\ Head(drv.out) = Address
                                  \/ Len(drv.out) = 1 /\ Head(drv.out) = <<"end">>
         /\ drv.stage # "data" => Head(drv.out)[1] # "address"
PROOF
<1>1. drv.out \in Outs
  BY DEF DriverOK
<1>2. drv.stage \in {"specify", "recalibrate", "seek", "data"}
  BY <1>1, TypeParts DEF Outs, Drivers
<1>3. ASSUME NEW x \in Tokens, NEW y \in Tokens, Outs = {<<x, y>>, <<y>>}
      PROVE  \/ Len(drv.out) = 1 /\ Head(drv.out) = y
             \/ Len(drv.out) = 2 /\ Head(drv.out) = x /\ Tail(drv.out) \in Outs /\ Len(Tail(drv.out)) = 1
  <2>1. CASE drv.out = <<y>>
    BY <2>1, HeadTailFacts
  <2>2. CASE drv.out = <<x, y>>
    <3>1. Head(drv.out) = x /\ Tail(drv.out) = <<y>> /\ Len(drv.out) = 2 /\ Len(Tail(drv.out)) = 1
      BY <2>2, HeadTailFacts
    <3> QED BY <1>3, <3>1
  <2> QED BY <1>1, <1>3, <2>1, <2>2
<1>4. CASE drv.stage = "specify"
  <2>1. Outs = {<< <<"SPECIFY">>, <<"times">> >>, << <<"times">> >>} /\ <<"SPECIFY">> \in Tokens /\ <<"times">> \in Tokens
    BY <1>4, TokenFacts DEF Outs, Opcodes
  <2>2. <<"SPECIFY">>[1] # "address" /\ <<"times">>[1] # "address"
    OBVIOUS
  <2> QED BY <1>3, <1>4, <2>1, <2>2
<1>5. CASE drv.stage = "recalibrate"
  <2>1. /\ Outs = {<< <<"RECALIBRATE">>, <<"drive">> >>, << <<"drive">> >>}
        /\ <<"RECALIBRATE">> \in Tokens /\ <<"drive">> \in Tokens
    BY <1>5, TokenFacts DEF Outs, Opcodes
  <2>2. <<"RECALIBRATE">>[1] # "address" /\ <<"drive">>[1] # "address"
    OBVIOUS
  <2> QED BY <1>3, <1>5, <2>1, <2>2
<1>6. CASE drv.stage = "seek"
  <2>1. Outs = {<< <<"SEEK">>, SeekTo >>, << SeekTo >>} /\ <<"SEEK">> \in Tokens /\ SeekTo \in Tokens
    BY <1>6, TokenFacts, AddressFacts DEF Outs, Opcodes
  <2>2. <<"SEEK">>[1] # "address" /\ SeekTo[1] # "address"
    BY <1>6, AddressFacts
  <2> QED BY <1>3, <1>6, <2>1, <2>2
<1>7. CASE drv.stage = "data"
  <2> DEFINE x == <<Opcode>>
             y == Address
             z == <<"end">>
  <2>1. Outs = {<<x, y, z>>, <<y, z>>, <<z>>} /\ x \in Tokens /\ y \in Tokens /\ z \in Tokens
    BY <1>7, TokenFacts, AddressFacts DEF Outs, Opcodes, Transfers
  <2> HIDE DEF x, y, z
  <2>2. CASE drv.out = <<x, y, z>>
    <3>1. Head(drv.out) = x /\ Tail(drv.out) = <<y, z>> /\ Len(drv.out) = 3
      BY <2>2, HeadTailThree
    <3>2. Len(Tail(drv.out)) = 2
      BY <3>1, HeadTailFacts
    <3> QED BY <1>7, <2>1, <3>1, <3>2 DEF x
  <2>3. CASE drv.out \in {<<y, z>>, <<z>>}
    <3>1. \/ Len(drv.out) = 1 /\ Head(drv.out) = z
          \/ Len(drv.out) = 2 /\ Head(drv.out) = y /\ Tail(drv.out) = <<z>> /\ Len(Tail(drv.out)) = 1
      BY <2>3, HeadTailFacts
    <3> QED BY <1>7, <2>1, <3>1 DEF y, z
  <2> QED BY <1>1, <2>1, <2>2, <2>3
<1> QED BY <1>2, <1>4, <1>5, <1>6, <1>7

LEMMA SendInd ==
  ASSUME FdcInd, fdc_write_byte
  PROVE  FdcInd'
PROOF
<1> DEFINE byte == Head(drv.out)
<1>1. /\ TypeOK /\ drv \in Drivers /\ fdc \in Controllers /\ CmdOK /\ DriverOK /\ BusOK /\ DmaOK
      /\ Ready /\ drv.pc = "send" /\ fdc' = Receive(byte)
      /\ UNCHANGED <<call, reply, fdc_irq_received, interrupts, motor, dma_buffer, dma, irq, medium>>
      /\ drv' = IF Len(drv.out) = 1 THEN Sent ELSE [drv EXCEPT !.out = Tail(@)]
  BY TypeParts DEF FdcInd, fdc_write_byte, cpu
<1>2. /\ byte \in Tokens
      /\ drv.stage \in {"specify", "recalibrate", "seek", "data"}
      /\ \/ Len(drv.out) = 1
         \/ Len(drv.out) \in {2, 3} /\ Tail(drv.out) \in Outs /\ Len(Tail(drv.out)) = Len(drv.out) - 1
      /\ drv.stage = "seek" => \/ Len(drv.out) = 2 /\ byte = <<"SEEK">>
                               \/ Len(drv.out) = 1 /\ byte = SeekTo
      /\ drv.stage = "data" => \/ Len(drv.out) = 3 /\ byte = <<Opcode>>
                               \/ Len(drv.out) = 2 /\ byte = Address
                               \/ Len(drv.out) = 1 /\ byte = <<"end">>
      /\ drv.stage # "data" => byte[1] # "address"
  BY <1>1, OutFacts
<1> HIDE DEF byte
<1>3. fdc.phase = "result" => fdc.left > 0
  BY <1>1 DEF DriverOK
<1>4. /\ fdc' \in Controllers /\ CmdOK' /\ (fdc'.phase = "result" => fdc'.left > 0)
      /\ fdc.phase # "exec"
      /\ \/ fdc.phase = "result" /\ fdc' = fdc
         \/ fdc'.phase \in {"idle", "result"}
         \/ fdc.phase = "idle" /\ fdc'.phase = "param" /\ fdc'.cmd = <<byte>> /\ byte[1] \in Opcodes \ {"SENSE"}
         \/ /\ fdc.phase = "param" /\ fdc'.phase = "param"
            /\ \E op \in Transfers : fdc.cmd = << <<op>> >> /\ fdc'.cmd = << <<op>>, byte >>
         \/ /\ fdc.phase = "param" /\ fdc'.phase = "exec"
            /\ \E op \in Transfers : \E a \in Tokens :
                 fdc.cmd = << <<op>>, a >> /\ fdc'.cmd = << <<op>>, a, byte >>
  BY <1>1, <1>2, <1>3, ReceiveType
<1>5. /\ drv' \in Drivers
      /\ drv'.stage = drv.stage /\ drv'.done = drv.done
      /\ \/ Len(drv.out) = 1 /\ drv'.pc \in {"test", "recalibrate"}
         \/ /\ Len(drv.out) \in {2, 3} /\ drv'.pc = "send" /\ drv'.out \in Outs
            /\ Len(drv'.out) = Len(drv.out) - 1
  <2>1. CASE Len(drv.out) = 1
    <3>1. MaxHlts \in 0..MaxHlts /\ <<>> \in Seq(Tokens)
      BY FdcAssumption
    <3> QED BY <1>1, <2>1, <3>1 DEF Sent, Drivers
  <2>2. CASE Len(drv.out) # 1
    <3>1. drv.out \in Seq(Tokens) /\ drv.out # <<>>
      BY <1>1, <1>2, <2>2 DEF Drivers
    <3>2. Tail(drv.out) \in Seq(Tokens)
      BY <3>1
    <3>3. drv' = [drv EXCEPT !.out = Tail(drv.out)]
      BY <1>1, <2>2
    <3> QED BY <1>1, <1>2, <2>2, <3>2, <3>3 DEF Drivers
  <2> QED BY <2>1, <2>2
<1>6. TypeOK'
  BY <1>1, <1>4, <1>5, TypeParts DEF TypeOK, Drivers, Controllers
<1>7. Outs' = Outs /\ Opcode' = Opcode /\ Address' = Address
  BY <1>1, <1>5 DEF Outs, Opcode, Address, SeekTo, Cylinder
<1>8. DriverOK'
  BY <1>1, <1>4, <1>5, <1>7 DEF DriverOK
<1>9. ASSUME drv.stage = "data"
      PROVE  /\ call \in Calls /\ drv.done \in Nat /\ drv.done < call.count /\ call.lba + drv.done \in Lbas
             /\ Opcode \in Opcodes /\ Address[1] = "address" /\ "address" \notin Opcodes /\ "end" \notin Opcodes
             /\ call.lba \in Nat /\ Address = <<"address", call.lba + drv.done>>
  BY <1>1, <1>9, AddressFacts DEF Opcodes, Transfers, Address
<1>10. BusOK'
  <2>0. \/ Len(drv.out) = 1 /\ drv'.pc # "send"
        \/ Len(drv.out) = 2 /\ drv'.pc = "send" /\ Len(drv'.out) = 1
        \/ Len(drv.out) = 3 /\ drv'.pc = "send" /\ Len(drv'.out) = 2
    <3>1. CASE Len(drv.out) = 1 /\ drv'.pc \in {"test", "recalibrate"}
      BY <3>1
    <3>2. CASE Len(drv.out) \in {2, 3} /\ drv'.pc = "send" /\ Len(drv'.out) = Len(drv.out) - 1
      <4>1. CASE Len(drv.out) = 2
        <5>1. Len(drv'.out) = 2 - 1
          BY <3>2, <4>1
        <5> QED BY <3>2, <4>1, <5>1
      <4>2. CASE Len(drv.out) = 3
        <5>1. Len(drv'.out) = 3 - 1
          BY <3>2, <4>2
        <5> QED BY <3>2, <4>2, <5>1
      <4> QED BY <3>2, <4>1, <4>2
    <3> QED BY <1>5, <3>1, <3>2
  <2>1. ASSUME fdc.phase = "param", NEW op \in Transfers, fdc.cmd = << <<op>> >>, drv.stage = "seek"
        PROVE  Len(drv.out) = 2
    <3>1. SUFFICES ASSUME Len(drv.out) = 1 PROVE FALSE
      BY <1>2, <2>1
    <3>2. \/ << <<op>> >> = << <<"SEEK">> >>
          \/ \E o \in Transfers : << <<op>> >> = << <<o>>, <<"SEEK">> >>
      BY <1>1, <2>1, <3>1 DEF BusOK
    <3>3. op = "SEEK"
      BY <3>2, Different
    <3> QED BY <3>3 DEF Transfers
  <2>2. ASSUME fdc.phase = "param", NEW op \in Transfers, NEW a \in Tokens, fdc.cmd = << <<op>>, a >>,
               drv.stage = "seek", Len(drv.out) = 1
        PROVE  a = <<"SEEK">>
    <3>1. \/ << <<op>>, a >> = << <<"SEEK">> >>
          \/ \E o \in Transfers : << <<op>>, a >> = << <<o>>, <<"SEEK">> >>
      BY <1>1, <2>2 DEF BusOK
    <3> QED BY <3>1, Different
  <2>3. ASSUME fdc.phase = "param", NEW op \in Transfers, fdc.cmd = << <<op>> >>, drv.stage = "data"
        PROVE  Len(drv.out) = 2 /\ op = Opcode
    <3>1. \/ Len(drv.out) = 2 /\ << <<op>> >> = << <<Opcode>> >>
          \/ Len(drv.out) = 1 /\ << <<op>> >> = << <<Opcode>>, Address >>
      BY <1>1, <2>3 DEF BusOK
    <3> QED BY <3>1, Different
  <2>4. ASSUME fdc.phase = "param", NEW op \in Transfers, NEW a \in Tokens, fdc.cmd = << <<op>>, a >>,
               drv.stage = "data"
        PROVE  Len(drv.out) = 1 /\ op = Opcode /\ a = Address
    <3>1. \/ Len(drv.out) = 2 /\ << <<op>>, a >> = << <<Opcode>> >>
          \/ Len(drv.out) = 1 /\ << <<op>>, a >> = << <<Opcode>>, Address >>
      BY <1>1, <2>4 DEF BusOK
    <3> QED BY <3>1, Different
  <2>5. ASSUME drv.stage = "seek", drv'.pc = "send", Len(drv'.out) = 1, fdc'.phase = "param"
        PROVE  \/ fdc'.cmd = << <<"SEEK">> >>
               \/ \E op \in Transfers : fdc'.cmd = << <<op>>, <<"SEEK">> >>
    <3>1. byte = <<"SEEK">>
      BY <1>2, <2>0, <2>5
    <3> QED BY <1>4, <2>5, <3>1
  <2>6. ASSUME drv.stage = "seek", drv'.pc # "send" PROVE Quiet'
    <3>1. Len(drv.out) = 1 /\ byte = SeekTo /\ byte[1] \notin Opcodes
      <4>0. Len(drv.out) = 1
        BY <2>0, <2>6
      <4>1. Len(drv.out) = 1 /\ byte = SeekTo
        BY <1>2, <2>6, <4>0
      <4> QED BY <1>1, <2>6, <4>1, AddressFacts DEF Opcodes
    <3>2. fdc'.phase # "param"
      BY <1>4, <2>1, <2>6, <3>1
    <3>3. ASSUME fdc'.phase = "exec" PROVE fdc'.cmd[2][1] # "address"
      <4>1. PICK op \in Transfers : \E a \in Tokens : /\ fdc.phase = "param" /\ fdc.cmd = << <<op>>, a >>
                                                      /\ fdc'.cmd = << <<op>>, a, byte >>
        BY <1>4, <3>3
      <4>2. PICK a \in Tokens : fdc.phase = "param" /\ fdc.cmd = << <<op>>, a >> /\ fdc'.cmd = << <<op>>, a, byte >>
        BY <4>1
      <4>3. a = <<"SEEK">> /\ fdc'.cmd[2] = a
        BY <2>2, <2>6, <3>1, <4>2, Different
      <4> QED BY <4>3
    <3> QED BY <3>2, <3>3 DEF Quiet, Held
  <2>7. ASSUME drv.stage = "data", drv'.pc = "send"
        PROVE  /\ ~Held'
               /\ fdc'.phase = "param" =>
                    \/ Len(drv'.out) = 2 /\ fdc'.cmd = << <<Opcode>> >>
                    \/ Len(drv'.out) = 1 /\ fdc'.cmd = << <<Opcode>>, Address >>
    <3>1. \/ Len(drv.out) = 3 /\ byte = <<Opcode>> /\ Len(drv'.out) = 2
          \/ Len(drv.out) = 2 /\ byte = Address /\ Len(drv'.out) = 1 /\ byte[1] \notin Opcodes
      <4>1. \/ Len(drv.out) = 3 /\ byte = <<Opcode>> /\ Len(drv'.out) = 2
            \/ Len(drv.out) = 2 /\ byte = Address /\ Len(drv'.out) = 1
        BY <1>2, <2>0, <2>7
      <4> QED BY <1>9, <2>7, <4>1
    <3>2. fdc'.phase # "exec"
      <4>1. SUFFICES ASSUME fdc'.phase = "exec" PROVE FALSE
        OBVIOUS
      <4>2. PICK op \in Transfers : \E a \in Tokens : fdc.phase = "param" /\ fdc.cmd = << <<op>>, a >>
        BY <1>4, <4>1
      <4>3. PICK a \in Tokens : fdc.phase = "param" /\ fdc.cmd = << <<op>>, a >>
        BY <4>2
      <4> QED BY <2>4, <2>7, <3>1, <4>3
    <3>3. ASSUME fdc'.phase = "param"
          PROVE  \/ Len(drv'.out) = 2 /\ fdc'.cmd = << <<Opcode>> >>
                 \/ Len(drv'.out) = 1 /\ fdc'.cmd = << <<Opcode>>, Address >>
      <4>1. CASE fdc.phase = "param"
        <5>1. PICK op \in Transfers : fdc.cmd = << <<op>> >> /\ fdc'.cmd = << <<op>>, byte >>
          BY <1>4, <3>3, <4>1
        <5> QED BY <2>3, <2>7, <3>1, <4>1, <5>1
      <4>2. CASE fdc.phase # "param"
        BY <1>4, <3>1, <3>3, <4>2
      <4> QED BY <4>1, <4>2
    <3> QED BY <3>2, <3>3 DEF Held
  <2>8. ASSUME drv.stage = "data", drv'.pc # "send"
        PROVE  /\ fdc'.phase # "param"
               /\ Held' => fdc'.cmd[1] = <<Opcode>> /\ fdc'.cmd[2] = Address
    <3>1. Len(drv.out) = 1 /\ byte = <<"end">> /\ byte[1] \notin Opcodes
      <4>1. Len(drv.out) = 1 /\ byte = <<"end">>
        BY <1>2, <2>0, <2>8
      <4> QED BY <1>9, <2>8, <4>1
    <3>2. fdc'.phase # "param"
      BY <1>4, <2>3, <2>8, <3>1
    <3>3. ASSUME fdc'.phase = "exec" PROVE fdc'.cmd[1] = <<Opcode>> /\ fdc'.cmd[2] = Address
      <4>1. PICK op \in Transfers : \E a \in Tokens : /\ fdc.phase = "param" /\ fdc.cmd = << <<op>>, a >>
                                                      /\ fdc'.cmd = << <<op>>, a, byte >>
        BY <1>4, <3>3
      <4>2. PICK a \in Tokens : fdc.phase = "param" /\ fdc.cmd = << <<op>>, a >> /\ fdc'.cmd = << <<op>>, a, byte >>
        BY <4>1
      <4>3. op = Opcode /\ a = Address /\ fdc'.cmd[1] = <<op>> /\ fdc'.cmd[2] = a
        BY <2>4, <2>8, <4>2, Different
      <4> QED BY <4>3
    <3> QED BY <3>2, <3>3 DEF Held
  <2> QED BY <1>5, <1>7, <2>5, <2>6, <2>7, <2>8 DEF BusOK
<1>11. DmaOK'
  <2>1. drv.stage = "data" => dma = [mode |-> call.op, count |-> Run(call, drv.done)]
    BY <1>1 DEF DmaOK
  <2>2. drv'.stage = "data" => dma' = [mode |-> call'.op, count |-> Run(call', drv'.done)]
    BY <1>1, <1>5, <2>1
  <2>3. ASSUME NEW l \in Lbas, fdc'.phase \in {"param", "exec"}, Len(fdc'.cmd) > 1,
               fdc'.cmd[1] = <<"READ">>, fdc'.cmd[2] = <<"address", l>>, dma'.mode = "read",
               NEW i \in 1..dma'.count
        PROVE  l + i - 1 \in Lbas
    <3>1. ASSUME NEW op \in Transfers, fdc'.cmd = << <<op>>, byte >> PROVE l + i - 1 \in Lbas
      <4>1. byte = <<"address", l>> /\ byte[1] = "address" /\ byte[2] = l
        BY <2>3, <3>1
      <4>2. drv.stage = "data" /\ byte = Address
        BY <1>2, <1>9, <4>1
      <4>3. l = call.lba + drv.done
        BY <4>1, <4>2 DEF Address
      <4> DEFINE run == Run(call, drv.done)
      <4>4. run \in Nat /\ drv.done + run <= call.count /\ i \in 1..run
        BY <1>1, <1>9, <2>1, <2>3, <4>2, RunFacts, FdcAssumption
      <4> HIDE DEF run
      <4>5. drv.done + i - 1 \in Nat /\ drv.done + i - 1 < call.count /\ call.lba + (drv.done + i - 1) = l + i - 1
        BY <1>9, <4>2, <4>3, <4>4, CallFacts
      <4> QED BY <1>9, <4>2, <4>5, CallFacts
    <3>2. ASSUME NEW op \in Transfers, NEW a \in Tokens, fdc.phase = "param",
                 fdc.cmd = << <<op>>, a >>, fdc'.cmd = << <<op>>, a, byte >>
          PROVE  l + i - 1 \in Lbas
      <4>1. fdc'.cmd[1] = <<op>> /\ fdc'.cmd[2] = a
        BY <3>2, Different
      <4>2. fdc.cmd[1] = <<"READ">> /\ fdc.cmd[2] = <<"address", l>> /\ Len(fdc.cmd) > 1
        <5>1. fdc.cmd[1] = <<op>> /\ fdc.cmd[2] = a /\ Len(fdc.cmd) = 2
          BY <3>2, AppendTwo
        <5>2. <<op>> = <<"READ">> /\ a = <<"address", l>>
          BY <2>3, <4>1
        <5> QED BY <5>1, <5>2
      <4> QED BY <1>1, <2>3, <3>2, <4>2 DEF DmaOK
    <3>3. Len(<<byte>>) = 1
      OBVIOUS
    <3> QED BY <1>4, <2>3, <3>1, <3>2, <3>3
  <2> QED BY <2>2, <2>3 DEF DmaOK
<1> QED BY <1>4, <1>6, <1>8, <1>10, <1>11 DEF FdcInd

\* Steps that end in no transfer.
LEMMA OffBus ==
  ASSUME FdcInd, UNCHANGED <<dma, fdc>>, TypeOK',
         drv'.stage \notin {"seek", "data"},
         drv'.pc = "send" => drv'.out \in Outs',
         drv'.pc \notin {"halt", "result"}
  PROVE  FdcInd'
PROOF
<1>1. CmdOK' /\ DriverOK' /\ BusOK' /\ DmaOK'
  BY DEF FdcInd, CmdOK, DriverOK, BusOK, DmaOK
<1> QED BY <1>1 DEF FdcInd

LEMMA ReturnInd ==
  ASSUME FdcInd, NEW r \in Seq(Values) \cup {Failed}, Return(r), UNCHANGED <<irq, fdc>>,
         motor' \in BOOLEAN
  PROVE  FdcInd'
PROOF
<1>1. Idle \in Drivers
  BY FdcAssumption DEF Idle, Drivers
<1>2. TypeOK'
  BY <1>1, TypeParts DEF FdcInd, TypeOK, Drivers, Controllers, Return
<1> QED BY <1>2, OffBus DEF Return, Idle

LEMMA GivesUpInd ==
  ASSUME FdcInd, PollFails \/ TestTimeout \/ Recalibrated
  PROVE  FdcInd'
PROOF
<1>1. TypeOK /\ drv \in Drivers /\ motor \in BOOLEAN /\ InWrite \in BOOLEAN
  BY TypeParts DEF FdcInd, InWrite
<1>2. CASE Return(Failed)
  <2>1. motor' \in BOOLEAN /\ UNCHANGED <<irq, fdc>>
    BY <1>1, <1>2 DEF PollFails, TestTimeout, Recalibrated, cpu
  <2> QED BY <1>2, <2>1, ReturnInd
<1>3. CASE ~Return(Failed)
  <2>1. /\ drv.pc = "result" /\ drv.need > 1
        /\ drv' = [drv EXCEPT !.need = @ - 1, !.st0 = "lost"]
        /\ UNCHANGED <<call, reply, cpu, medium, irq, fdc>>
    BY <1>3 DEF PollFails, TestTimeout, Recalibrated
  <2>2. drv.need - 1 \in 0..RESULT_BYTES /\ drv.need - 1 > 0
    <3>1. drv.need \in 0..RESULT_BYTES /\ RESULT_BYTES \in Nat
      BY <1>1, FdcAssumption DEF Drivers
    <3> QED BY <2>1, <3>1
  <2>3. /\ drv' \in Drivers /\ drv'.need > 0 /\ drv'.pc = "result"
        /\ drv'.stage = drv.stage /\ drv'.done = drv.done /\ drv'.out = drv.out
    BY <1>1, <2>1, <2>2 DEF Drivers
  <2>4. TypeOK'
    BY <1>1, <2>1, <2>3, TypeParts DEF TypeOK, Drivers, Controllers, cpu
  <2> QED BY <2>1, <2>3, <2>4, WithinStage DEF cpu
<1> QED BY <1>2, <1>3

LEMMA ResetInd ==
  ASSUME FdcInd, DriveSensed \/ fdc_recalibrate
  PROVE  FdcInd'
PROOF
<1>1. TypeOK /\ drv \in Drivers /\ Idle \in Drivers /\ drv.done + 1 \in Nat
  BY TypeParts, FdcAssumption DEF FdcInd, Idle, Drivers
<1>2. /\ UNCHANGED <<call, reply, interrupts, dma_buffer, dma, irq, fdc, medium>>
      /\ motor' \in BOOLEAN /\ fdc_irq_received' \in BOOLEAN
  BY <1>1, TypeParts DEF DriveSensed, fdc_recalibrate, cpu
<1>3. /\ drv' \in Drivers /\ drv'.pc \in {"sense", "send"} /\ drv'.stage \notin {"seek", "data"}
      /\ drv'.pc = "send" => drv'.out \in Outs'
  <2>1. CASE drv.stage = "reset" /\ drv' = [drv EXCEPT !.pc = "sense", !.done = @ + 1]
    BY <1>1, <2>1 DEF Drivers
  <2>2. ASSUME NEW stage \in {"specify", "recalibrate"}, NEW x \in Tokens, NEW y \in Tokens,
               drv' = [Idle EXCEPT !.pc = "send", !.stage = stage, !.out = <<x, y>>]
        PROVE  /\ drv' \in Drivers /\ drv'.pc = "send" /\ drv'.stage = stage /\ drv'.out = <<x, y>>
    <3>1. <<x, y>> \in Seq(Tokens)
      OBVIOUS
    <3> QED BY <1>1, <2>2, <3>1 DEF Drivers, Idle
  <2>3. CASE drv' = [Idle EXCEPT !.pc = "send", !.stage = "specify", !.out = << <<"SPECIFY">>, <<"times">> >>]
    <3>1. <<"SPECIFY">> \in Tokens /\ <<"times">> \in Tokens
      BY TokenFacts DEF Opcodes
    <3>2. drv' \in Drivers /\ drv'.pc = "send" /\ drv'.stage = "specify" /\ drv'.out = << <<"SPECIFY">>, <<"times">> >>
      BY <2>2, <2>3, <3>1
    <3> QED BY <3>2 DEF Outs
  <2>4. CASE drv' = [Idle EXCEPT !.pc = "send", !.stage = "recalibrate", !.out = << <<"RECALIBRATE">>, <<"drive">> >>]
    <3>1. <<"RECALIBRATE">> \in Tokens /\ <<"drive">> \in Tokens
      BY TokenFacts DEF Opcodes
    <3>2. /\ drv' \in Drivers /\ drv'.pc = "send" /\ drv'.stage = "recalibrate"
          /\ drv'.out = << <<"RECALIBRATE">>, <<"drive">> >>
      BY <2>2, <2>4, <3>1
    <3> QED BY <3>2 DEF Outs
  <2> QED BY <2>1, <2>3, <2>4 DEF DriveSensed, fdc_recalibrate
<1>4. TypeOK'
  BY ZenonT(30), <1>1, <1>2, <1>3, TypeParts DEF TypeOK, Drivers, Controllers
<1> QED BY <1>2, <1>3, <1>4, OffBus

\* Results are taken from a controller that holds no half of a command.
LEMMA ResultInd ==
  ASSUME FdcInd, Sense \/ fdc_read_byte
  PROVE  FdcInd'
PROOF
<1>1. /\ TypeOK /\ drv \in Drivers /\ fdc \in Controllers /\ CmdOK /\ DriverOK /\ BusOK /\ DmaOK
      /\ Ready /\ UNCHANGED <<call, reply, cpu, irq, medium>>
  BY TypeParts DEF FdcInd, Sense, fdc_read_byte
<1>2. /\ fdc' \in Controllers /\ CmdOK' /\ (fdc'.phase = "result" => fdc'.left > 0)
      /\ drv.stage \in {"seek", "data"} /\ fdc.phase # "param" => fdc'.phase \notin {"param", "exec"}
      /\ \A l \in Lbas :
           /\ fdc'.phase \in {"param", "exec"} /\ Len(fdc'.cmd) > 1
           /\ fdc'.cmd[1] = <<"READ">> /\ fdc'.cmd[2] = <<"address", l>> /\ dma'.mode = "read"
           => \A i \in 1..dma'.count : l + i - 1 \in Lbas
  <2>1. CASE Sense
    <3> DEFINE byte == <<"SENSE">>
    <3>1. byte \in Tokens /\ byte[1] = "SENSE" /\ fdc' = Receive(byte)
      BY <2>1, TokenFacts DEF Sense, Opcodes
    <3> HIDE DEF byte
    <3>2. fdc.phase = "result" => fdc.left > 0
      BY <1>1 DEF DriverOK
    <3>3. /\ fdc' \in Controllers /\ CmdOK' /\ (fdc'.phase = "result" => fdc'.left > 0)
          /\ fdc.phase # "exec"
          /\ \/ fdc.phase = "result" /\ fdc' = fdc
             \/ fdc'.phase \in {"idle", "result"}
             \/ fdc.phase = "idle" /\ fdc'.phase = "param" /\ fdc'.cmd = <<byte>> /\ byte[1] \in Opcodes \ {"SENSE"}
             \/ /\ fdc.phase = "param" /\ fdc'.phase = "param"
                /\ \E op \in Transfers : fdc.cmd = << <<op>> >> /\ fdc'.cmd = << <<op>>, byte >>
             \/ /\ fdc.phase = "param" /\ fdc'.phase = "exec"
                /\ \E op \in Transfers : \E a \in Tokens :
                     fdc.cmd = << <<op>>, a >> /\ fdc'.cmd = << <<op>>, a, byte >>
      BY <1>1, <3>1, <3>2, ReceiveType
    <3>4. ASSUME NEW l \in Lbas, fdc'.phase \in {"param", "exec"}, Len(fdc'.cmd) > 1,
                 fdc'.cmd[1] = <<"READ">>, fdc'.cmd[2] = <<"address", l>>, dma'.mode = "read",
                 NEW i \in 1..dma'.count
          PROVE  l + i - 1 \in Lbas
      <4>1. ~\E op \in Transfers : fdc'.cmd = << <<op>>, byte >>
        BY <3>1, <3>4, Different
      <4>2. PICK op \in Transfers : \E a \in Tokens : /\ fdc.phase = "param" /\ fdc.cmd = << <<op>>, a >>
                                                      /\ fdc'.cmd = << <<op>>, a, byte >>
        BY <3>1, <3>3, <3>4, <4>1
      <4>3. PICK a \in Tokens : fdc.phase = "param" /\ fdc.cmd = << <<op>>, a >> /\ fdc'.cmd = << <<op>>, a, byte >>
        BY <4>2
      <4>4. fdc'.cmd[1] = <<op>> /\ fdc'.cmd[2] = a
        BY <4>3, Different
      <4>5. fdc.cmd[1] = <<op>> /\ fdc.cmd[2] = a /\ Len(fdc.cmd) = 2
        BY <4>3, AppendTwo
      <4>6. <<op>> = <<"READ">> /\ a = <<"address", l>>
        BY <3>4, <4>4
      <4>7. fdc.cmd[1] = <<"READ">> /\ fdc.cmd[2] = <<"address", l>> /\ Len(fdc.cmd) > 1
        BY <4>5, <4>6
      <4> QED BY <1>1, <3>4, <4>3, <4>7 DEF DmaOK, cpu
    <3> QED BY <3>1, <3>3, <3>4
  <2>2. CASE fdc_read_byte
    <3>1. fdc' = IF fdc.phase # "result" THEN fdc
                 ELSE [fdc EXCEPT !.left = @ - 1, !.phase = IF fdc.left = 1 THEN "idle" ELSE "result"]
      BY <2>2 DEF fdc_read_byte, Give
    <3>2. fdc.phase \in {"idle", "param", "result"}
      BY <1>1 DEF Ready, Controllers
    <3>3. CASE fdc.phase = "result"
      <4>1. fdc.left \in 0..RESULT_BYTES /\ fdc.left > 0 /\ RESULT_BYTES \in Nat /\ fdc.cmd = <<>>
        BY <1>1, <3>3, FdcAssumption DEF Controllers, DriverOK, CmdOK
      <4>2. fdc.left - 1 \in 0..RESULT_BYTES /\ (fdc.left # 1 => fdc.left - 1 > 0)
        BY <4>1
      <4>3. /\ fdc' \in Controllers /\ fdc'.cmd = <<>> /\ fdc'.phase \in {"idle", "result"}
            /\ (fdc'.phase = "result" => fdc'.left > 0)
        BY <1>1, <3>1, <3>3, <4>1, <4>2 DEF Controllers
      <4> QED BY <4>3 DEF CmdOK
    <3>4. CASE fdc.phase # "result"
      <4>1. fdc' = fdc
        BY <3>1, <3>4
      <4> QED BY <1>1, <3>2, <3>4, <4>1 DEF CmdOK, DmaOK, cpu
    <3> QED BY <3>3, <3>4
  <2> QED BY <2>1, <2>2
<1>3. /\ drv' \in Drivers /\ drv'.pc \in {"result", "done"} /\ (drv'.pc = "result" => drv'.need > 0)
      /\ drv'.stage = drv.stage /\ drv'.done = drv.done /\ drv'.out = drv.out
      /\ drv.pc \in {"sense", "result"}
  <2>1. CASE Sense
    <3>1. 2 \in 0..RESULT_BYTES
      BY FdcAssumption
    <3>2. drv.pc = "sense" /\ drv' = [drv EXCEPT !.pc = "result", !.need = 2]
      BY <2>1 DEF Sense
    <3>3. drv' \in Drivers
      BY <1>1, <3>1, <3>2 DEF Drivers
    <3>4. /\ drv'.pc = "result" /\ drv'.need = 2
          /\ drv'.stage = drv.stage /\ drv'.done = drv.done /\ drv'.out = drv.out
      BY <1>1, <3>2 DEF Drivers
    <3> QED BY <3>2, <3>3, <3>4
  <2>2. CASE fdc_read_byte
    <3>1. PICK st0 \in IF drv.stage = "data" /\ drv.need = RESULT_BYTES THEN St0 ELSE {drv.st0} :
             drv' = [drv EXCEPT !.need = @ - 1, !.st0 = st0, !.pc = IF drv.need = 1 THEN "done" ELSE @]
      BY <2>2 DEF fdc_read_byte
    <3>2. st0 \in {"ok", "error", "lost"}
      <4>1. St0 \subseteq {"ok", "error", "lost"}
        BY DEF St0
      <4>2. drv.st0 \in {"ok", "error", "lost"}
        BY <1>1 DEF Drivers
      <4> QED BY <4>1, <4>2
    <3>3. drv.pc = "result" /\ drv.need \in 0..RESULT_BYTES /\ drv.need > 0 /\ RESULT_BYTES \in Nat
      BY <1>1, <2>2, FdcAssumption DEF fdc_read_byte, Drivers, DriverOK
    <3>4. drv.need - 1 \in 0..RESULT_BYTES /\ (drv.need # 1 => drv.need - 1 > 0)
      BY <3>3
    <3> QED BY <1>1, <3>1, <3>2, <3>3, <3>4 DEF Drivers
  <2> QED BY <2>1, <2>2
<1>4. TypeOK'
  BY <1>1, <1>2, <1>3, TypeParts DEF TypeOK, Drivers, Controllers, cpu
<1>5. DriverOK'
  BY <1>1, <1>2, <1>3 DEF DriverOK
<1>6. BusOK'
  BY <1>1, <1>2, <1>3 DEF BusOK, Quiet, Held
<1>7. DmaOK'
  BY <1>1, <1>2, <1>3 DEF DmaOK, Run, cpu
<1> QED BY <1>2, <1>4, <1>5, <1>6, <1>7 DEF FdcInd

LEMMA SeekFacts ==
  ASSUME NEW c \in Calls, NEW done \in Nat, NEW buffer \in Seq(Values), done < c.count
  PROVE  /\ fdc_seek(c, done, buffer) \in Drivers
         /\ fdc_seek(c, done, buffer).pc = "send" /\ fdc_seek(c, done, buffer).stage = "seek"
         /\ fdc_seek(c, done, buffer).done = done
         /\ fdc_seek(c, done, buffer).out = << <<"SEEK">>, <<"cylinder", Cylinder(c.lba + done)>> >>
PROOF
<1> DEFINE x == <<"SEEK">>
           y == <<"cylinder", Cylinder(c.lba + done)>>
<1>1. Cylinder(c.lba + done) \in 0..(TRACKS - 1)
  BY CallFacts, CylinderFacts
<1>2. x \in Tokens /\ y \in Tokens
  BY <1>1, TokenFacts DEF Opcodes
<1>3. fdc_seek(c, done, buffer) = [Idle EXCEPT !.pc = "send", !.stage = "seek", !.done = done, !.buffer = buffer,
                                               !.out = <<x, y>>]
  BY DEF fdc_seek
<1> HIDE DEF x, y
<1>4. <<x, y>> \in Seq(Tokens)
  BY <1>2
<1>5. Idle \in Drivers
  BY FdcAssumption DEF Idle, Drivers
<1>6. /\ fdc_seek(c, done, buffer) \in Drivers
      /\ fdc_seek(c, done, buffer).pc = "send" /\ fdc_seek(c, done, buffer).stage = "seek"
      /\ fdc_seek(c, done, buffer).done = done /\ fdc_seek(c, done, buffer).out = <<x, y>>
  BY <1>3, <1>4, <1>5 DEF Drivers
<1> QED BY <1>6 DEF x, y

\* The first byte of a seek is still to be written: nothing is said of the controller.
LEMMA SeekInd ==
  ASSUME FdcInd, NEW done \in Nat, NEW buffer \in Seq(Values),
         call' \in Calls, done < call'.count, drv' = fdc_seek(call', done, buffer),
         UNCHANGED <<reply, dma_buffer, dma, irq, fdc, medium>>,
         motor' \in BOOLEAN, interrupts' \in BOOLEAN, fdc_irq_received' \in BOOLEAN
  PROVE  FdcInd'
PROOF
<1>1. /\ drv' \in Drivers /\ drv'.pc = "send" /\ drv'.stage = "seek" /\ drv'.done = done
      /\ drv'.out = << <<"SEEK">>, <<"cylinder", Cylinder(call'.lba + done)>> >>
  BY SeekFacts
<1>2. TypeOK'
  BY SMTT(20), <1>1, TypeParts DEF FdcInd, TypeOK, Drivers, Controllers
<1>3. CmdOK' /\ DmaOK'
  BY <1>1 DEF FdcInd, CmdOK, DmaOK
<1>4. drv'.out \in Outs'
  BY <1>1 DEF Outs, SeekTo, Cylinder
<1>5. DriverOK'
  BY <1>1, <1>4 DEF FdcInd, DriverOK
<1>6. Len(drv'.out) = 2
  BY <1>1, AppendTwo
<1>7. BusOK'
  BY <1>1, <1>6 DEF BusOK
<1> QED BY <1>2, <1>3, <1>5, <1>7 DEF FdcInd

LEMMA BeginInd ==
  ASSUME FdcInd, NEW c \in Calls, Begin(c)
  PROVE  FdcInd'
PROOF
<1>1. 0 < c.count /\ <<>> \in Seq(Values)
  BY CallFacts
<1>2. /\ call' = c /\ drv' = fdc_seek(call', 0, <<>>)
      /\ UNCHANGED <<reply, dma_buffer, dma, irq, fdc, medium>>
      /\ motor' \in BOOLEAN /\ interrupts' \in BOOLEAN /\ fdc_irq_received' \in BOOLEAN
  BY DEF Begin
<1> QED BY <1>1, <1>2, SeekInd

LEMMA SeekDoneInd ==
  ASSUME FdcInd, SeekDone
  PROVE  FdcInd'
PROOF
<1>1. /\ TypeOK /\ drv \in Drivers /\ CmdOK /\ DriverOK /\ BusOK /\ DmaOK
      /\ drv.pc = "done" /\ drv.stage = "seek"
      /\ UNCHANGED <<call, reply, interrupts, motor, irq, fdc, medium>> /\ fdc_irq_received' = FALSE
  BY TypeParts DEF FdcInd, SeekDone
<1>2. /\ call \in Calls /\ call # NoCall /\ drv.done \in Nat /\ drv.done < call.count
      /\ call.lba + drv.done \in Lbas /\ Opcode \in Transfers /\ Address \in Tokens
  BY <1>1, AddressFacts
<1>3. dma' = [mode |-> call.op, count |-> Run(call, drv.done)] /\ dma' \in [mode : {"read", "write"}, count : 0..SECTORS_PER_TRACK]
  <2>1. call.op \in {"read", "write"} /\ Run(call, drv.done) \in 0..SECTORS_PER_TRACK
    BY <1>2, CallFacts, RunFacts, FdcAssumption
  <2> QED BY <2>1 DEF SeekDone
<1>4. dma_buffer' \in [1..SECTORS_PER_TRACK -> Values]
  <2>1. dma_buffer \in [1..SECTORS_PER_TRACK -> Values] /\ 1 \in 1..SECTORS_PER_TRACK
    BY <1>1, TypeParts, FdcAssumption
  <2>2. call.op = "write" => call.data[drv.done + 1] \in Values
    <3>1. call.op = "write" => call.data \in [1..call.count -> Values]
      BY <1>2, CallFacts
    <3>2. drv.done + 1 \in 1..call.count
      BY <1>2, CallFacts
    <3> QED BY <3>1, <3>2
  <2>3. call.op \in {"read", "write"}
    BY <1>2, CallFacts
  <2> QED BY <2>1, <2>2, <2>3 DEF SeekDone
<1>5. /\ drv' \in Drivers /\ drv'.pc = "send" /\ drv'.stage = "data" /\ drv'.done = drv.done
      /\ drv'.out = << <<Opcode>>, Address, <<"end">> >> /\ Len(drv'.out) = 3
  <2> DEFINE x == <<Opcode>>
             y == Address
             z == <<"end">>
  <2>1. x \in Tokens /\ y \in Tokens /\ z \in Tokens
    BY <1>2, TokenFacts DEF Opcodes, Transfers
  <2>2. drv' = [drv EXCEPT !.pc = "send", !.stage = "data", !.out = <<x, y, z>>]
    BY DEF SeekDone, Opcode, Address
  <2> HIDE DEF x, y, z
  <2>3. <<x, y, z>> \in Seq(Tokens) /\ Len(<<x, y, z>>) = 3
    BY <2>1
  <2>4. /\ drv' \in Drivers /\ drv'.pc = "send" /\ drv'.stage = "data" /\ drv'.done = drv.done
        /\ drv'.out = <<x, y, z>>
    BY <1>1, <2>2, <2>3 DEF Drivers
  <2> QED BY <2>3, <2>4 DEF x, y, z
<1>6. TypeOK'
  BY <1>1, <1>3, <1>4, <1>5, TypeParts DEF TypeOK, Drivers, Controllers
<1>7. Opcode' = Opcode /\ Address' = Address
  BY <1>1, <1>5 DEF Opcode, Address
<1>8. drv'.out \in Outs'
  BY <1>5, <1>7 DEF Outs
<1>9. CmdOK'
  BY <1>1, <1>5 DEF CmdOK
<1>10. DriverOK'
  BY <1>1, <1>2, <1>5, <1>8 DEF DriverOK
<1>11. Quiet
  BY <1>1 DEF BusOK
<1>12. BusOK'
  BY <1>1, <1>5, <1>11 DEF BusOK, Quiet, Held
<1>13. DmaOK'
  <2>1. ~(fdc.phase \in {"param", "exec"} /\ fdc.cmd[2][1] = "address")
    BY <1>11 DEF Quiet, Held
  <2>2. \A l : fdc.phase \in {"param", "exec"} => fdc.cmd[2] # <<"address", l>>
    BY <2>1
  <2> QED BY <1>1, <1>3, <1>5, <2>2 DEF DmaOK
<1> QED BY <1>6, <1>9, <1>10, <1>12, <1>13 DEF FdcInd

LEMMA DataDoneInd ==
  ASSUME FdcInd, DataDone
  PROVE  FdcInd'
PROOF
<1>1. /\ TypeOK /\ drv \in Drivers /\ drv.pc = "done" /\ drv.stage = "data" /\ UNCHANGED <<irq, fdc>>
      /\ call \in Calls /\ call # NoCall /\ drv.done \in Nat /\ drv.done < call.count
  BY TypeParts, AddressFacts DEF FdcInd, DataDone
<1> DEFINE run == Run(call, drv.done)
           done == drv.done + run
           part == SubSeq(dma_buffer, 1, done - drv.done)
           buffer == IF call.op = "read" THEN drv.buffer \o part ELSE <<>>
<1>2. run \in 1..SECTORS_PER_TRACK /\ done \in Nat /\ done <= call.count /\ done - drv.done = run
  BY <1>1, RunFacts, FdcAssumption
<1>3. part \in Seq(Values)
  <2>1. dma_buffer \in [1..SECTORS_PER_TRACK -> Values]
    BY <1>1, TypeParts
  <2>2. \A i \in 1..run : dma_buffer[i] \in Values
    BY <1>2, <2>1, FdcAssumption
  <2>3. SubSeq(dma_buffer, 1, run) \in Seq(Values)
    <3>1. 1 \in Int /\ run \in Int
      BY <1>2
    <3> QED BY <2>2, <3>1, SubSeqProperties
  <2> QED BY <1>2, <2>3
<1>4. buffer \in Seq(Values)
  BY <1>1, <1>3 DEF Drivers
<1>5. \/ Return(Failed) /\ motor' = FALSE
      \/ done = call.count /\ Return(IF call.op = "read" THEN buffer ELSE call.data) /\ motor' = FALSE
      \/ /\ done # call.count /\ drv' = fdc_seek(call, done, buffer) /\ fdc_irq_received' = FALSE
         /\ UNCHANGED <<call, reply, interrupts, motor, dma_buffer, dma, medium>>
  BY DEF DataDone
<1> HIDE DEF done, buffer
<1>6. CASE Return(Failed) /\ motor' = FALSE
  BY <1>1, <1>6, ReturnInd
<1>7. CASE Return(IF call.op = "read" THEN buffer ELSE call.data) /\ motor' = FALSE
  <2>1. call.op # "read" => call.data \in Seq(Values)
    BY SMTT(20), <1>1, CallFacts
  <2> DEFINE r == IF call.op = "read" THEN buffer ELSE call.data
  <2>2. r \in Seq(Values) \cup {Failed}
    BY <1>4, <2>1
  <2> HIDE DEF r
  <2>3. Return(r) /\ motor' = FALSE
    BY <1>7 DEF r
  <2> QED BY <1>1, <2>2, <2>3, ReturnInd
<1>8. CASE /\ done # call.count /\ drv' = fdc_seek(call, done, buffer) /\ fdc_irq_received' = FALSE
           /\ UNCHANGED <<call, reply, interrupts, motor, dma_buffer, dma, medium>>
  <2>1. done \in Nat /\ done < call.count
    BY <1>1, <1>2, <1>8, CallFacts
  <2>2. motor' \in BOOLEAN /\ interrupts' \in BOOLEAN /\ fdc_irq_received' \in BOOLEAN
    BY <1>1, <1>8, TypeParts
  <2>3. call' \in Calls /\ done < call'.count /\ drv' = fdc_seek(call', done, buffer)
    BY <1>1, <1>8, <2>1
  <2> QED BY <1>1, <1>4, <1>8, <2>1, <2>2, <2>3, SeekInd
<1> QED BY <1>5, <1>6, <1>7, <1>8

-----------------------------------------------------------------------------
(* Theorems                                                                *)

\* The inductive invariant of the floppy driver: how far a command has come,
\* what the controller has of it, and what the DMA channel is set up for.
THEOREM IndCorrect == Spec => []FdcInd
PROOF
<1>1. Init => FdcInd
  BY InitInd
<1>2. FdcInd /\ [Next]_vars => FdcInd'
  <2> SUFFICES ASSUME FdcInd, [Next]_vars PROVE FdcInd'
    OBVIOUS
  <2>1. CASE Interrupt
    BY <2>1, WaitInd DEF Interrupt
  <2>2. CASE Controller
    BY <2>2, ControllerInd
  <2>3. CASE Driver
    BY <2>3, SendInd, GivesUpInd, WaitInd, ResultInd, ResetInd, SeekDoneInd, DataDoneInd DEF Driver, Wait
  <2>4. CASE \E c \in Calls : Begin(c)
    BY <2>4, BeginInd
  <2>5. CASE UNCHANGED vars
    BY SMTT(20), <2>5 DEF vars, calls, cpu, FdcInd, TypeOK, CmdOK, DriverOK, BusOK, DmaOK,
                Outs, Opcode, Address, SeekTo, Cylinder, Quiet, Held, Run
  <2> QED BY <2>1, <2>2, <2>3, <2>4, <2>5 DEF Next
<1> QED BY <1>1, <1>2, PTL DEF Spec

\* A transfer that an earlier call gave up on never runs with the data of this
\* one, and every variable keeps its type, however the controller fails or delays.
THEOREM FdcCorrect == Spec => []FdcInv
PROOF
<1>1. FdcInd => FdcInv
  <2> SUFFICES ASSUME FdcInd PROVE FdcInv
    OBVIOUS
  <2>1. ASSUME NEW op \in {"READ", "WRITE"}, Transferring, Holds(op)
        PROVE  op = Opcode /\ fdc.cmd[2][2] = call.lba + drv.done
    <3>1. drv.stage = "data" /\ fdc.phase \in {"param", "exec"} /\ fdc.cmd[1][1] = op
          /\ Len(fdc.cmd) > 1 /\ fdc.cmd[2][1] = "address"
      BY <2>1 DEF Transferring, Holds
    <3>2. fdc.cmd[1] = <<Opcode>> /\ fdc.cmd[2] = Address
      <4>1. CASE drv.pc # "send"
        BY <3>1, <4>1 DEF FdcInd, BusOK, Held
      <4>2. CASE drv.pc = "send"
        <5>1. \/ fdc.cmd = << <<Opcode>> >> \/ fdc.cmd = << <<Opcode>>, Address >>
          BY <3>1, <4>2 DEF FdcInd, BusOK, Held
        <5>2. Len(<< <<Opcode>> >>) = 1
          BY AppendOne
        <5>3. fdc.cmd = << <<Opcode>>, Address >>
          BY <3>1, <5>1, <5>2
        <5> QED BY <5>3, AppendTwo
      <4> QED BY <4>1, <4>2
    <3> QED BY <3>1, <3>2 DEF Address
  <2>2. NoStaleTransfer
    BY <2>1 DEF NoStaleTransfer, Opcode
  <2> QED BY <2>2 DEF FdcInd, FdcInv
<1> QED BY <1>1, IndCorrect, PTL
=============================================================================
