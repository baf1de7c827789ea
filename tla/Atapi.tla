------------------------------- MODULE Atapi -------------------------------
(***************************************************************************)
(* The ATAPI driver (drivers/disc/atapi.c) with the drives on its two      *)
(* channels and their interrupts as the other actors: ide_initialize looks *)
(* for drives, with interrupts masked, and atapi_read reads sectors by the *)
(* PACKET command, waiting for interrupts through the one flag both        *)
(* channels' handlers set.                                                 *)
(*                                                                         *)
(* A step of the driver is one access to the flag or to a drive's status,  *)
(* command or data register, with the writes to registers that start       *)
(* nothing folded in.  The drives and the wires are modelled from what the *)
(* driver relies on:                                                       *)
(*   - after a command, a packet or the last word of a block a drive shows *)
(*     its old status for a moment, at most as long as four reads of the   *)
(*     alternate status take;                                              *)
(*   - it asserts its interrupt some time after it has data or has ended,  *)
(*     and if it likes when it is ready for a packet; reading the status   *)
(*     or giving a command takes the interrupt back;                       *)
(*   - the interrupt's rising edge is latched, delivered later, and may be *)
(*     lost if it is taken back before that;                               *)
(*   - a block of data is a sector, as the byte count asks for.            *)
(***************************************************************************)
EXTENDS Integers, Sequences, FiniteSets

CONSTANTS
  Machines, \* which drives may be attached: functions from the positions
  LBA,      \* the first sectors read_sectors may be asked for
  Counts,   \* how many sectors it, or one call of atapi_read, is asked for
  PROMPT    \* a drive answers IDENTIFY before sleep(1) is over

Identity == -1   \* contents of ide_buf that are no sector
Garbage == -2

Channels == 0..1
Positions == Channels \X (0..1)
IDE_ATA == "ata"
IDE_ATAPI == "atapi"

ASSUME RequestAssumption ==
  /\ Machines \subseteq [Positions -> {"none", IDE_ATA, IDE_ATAPI}]
  /\ LBA \subseteq Nat /\ Counts \subseteq Nat \ {0} /\ PROMPT \in BOOLEAN

VARIABLES
  attached,        \* external: the kind of drive at each position, or "none"
  dev,             \* external: each drive: its phase, the status it shows,
                   \* its interrupt due or pending
  transfer,        \* external: the sector last asked for, how many are left
  selected,        \* the drive selected on each channel
  nIEN,            \* interrupts masked, on each channel
  latched,         \* external: an edge waiting to be delivered
  ide_irq_invoked,
  ide_devices,     \* the drives found
  ide_buf,         \* what the buffer holds: a position and one of its
                   \* sectors, its identification, or garbage
  cpu              \* the driver: where it is, its slot while probing, the
                   \* call of atapi_read and what read_sectors has left

wires == <<selected, nIEN, latched>>
memory == <<ide_irq_invoked, ide_devices, ide_buf>>
vars == <<attached, dev, transfer, wires, memory, cpu>>
drives == <<attached, dev, transfer>>

-----------------------------------------------------------------------------
(* Drives.                                                                 *)

(* What a busy drive is busy with: a command, or a packet's transfer.      *)
Busy == {"IDENTIFY", "IDENTIFY_PACKET", "PACKET", "READ"}

Status(phase) ==
  IF phase \in Busy THEN {"BSY"}
  ELSE IF phase \in {"packet", "data"} THEN {"DRQ"}
  ELSE IF phase = "failed" THEN {"ERR"}
  ELSE IF phase = "faulted" THEN {"DF"}
  ELSE {}

(* An empty position shows 0 next to a drive, and all ones on a channel    *)
(* without any.                                                            *)
NoDrive(a, p) ==
  IF \E j \in 0..1 : a[<<p[1], j>>] # "none" THEN {} ELSE {"BSY", "DRQ", "ERR", "DF"}

Quiet(a, p) ==
  [phase |-> IF a[p] = "none" THEN "none" ELSE "idle",
   shown |-> IF a[p] = "none" THEN NoDrive(a, p) ELSE {},
   due |-> FALSE, pending |-> FALSE]

Exists(p) == attached[p] # "none"
Settled(p) == Exists(p) => dev[p].shown = Status(dev[p].phase)

(* The interrupt wire of a channel, and the latch behind it.               *)
Line(c, d, sel, mask) == d[<<c, sel[c]>>].pending /\ ~mask[c]
Wired ==
  /\ latched' \in [Channels -> BOOLEAN]
  /\ \A c \in Channels :
       LET was == Line(c, dev, selected, nIEN)
           is == Line(c, dev', selected', nIEN')
       IN /\ is /\ ~was => latched'[c]
          /\ (is <=> was) => (latched'[c] <=> latched[c])
          /\ latched'[c] => latched[c] \/ is

(* A drive shows the status of the phase it has entered.                   *)
Settle(p) ==
  /\ ~Settled(p)
  /\ dev' = [dev EXCEPT ![p].shown = Status(dev[p].phase)]
  /\ UNCHANGED <<attached, transfer, wires, memory, cpu>>

(* What a busy drive may do next.                                          *)
Answers(p) ==
  CASE dev[p].phase = "IDENTIFY" -> {IF attached[p] = IDE_ATA THEN "data" ELSE "failed"}
    [] dev[p].phase = "IDENTIFY_PACKET" -> {IF attached[p] = IDE_ATAPI THEN "data" ELSE "failed"}
    [] dev[p].phase = "PACKET" ->
         IF attached[p] = IDE_ATAPI THEN {"packet", "failed"} ELSE {"failed"}
    [] dev[p].phase = "READ" ->
         IF transfer.left > 0 THEN {"data", "failed", "faulted", "idle"} ELSE {"idle"}

Answer(p) ==
  /\ dev[p].phase \in Busy /\ ~dev[p].due
  /\ \E phase \in Answers(p) : \E due \in IF phase = "packet" THEN BOOLEAN ELSE {TRUE} :
       dev' = [dev EXCEPT ![p].phase = phase, ![p].shown = Status(phase), ![p].due = due]
  /\ UNCHANGED <<attached, transfer, wires, memory, cpu>>

Interrupt(p) ==
  /\ dev[p].due
  /\ dev' = [dev EXCEPT ![p].due = FALSE, ![p].pending = TRUE]
  /\ UNCHANGED <<attached, transfer, selected, nIEN, memory, cpu>>
  /\ Wired

(* The handler of both channels.                                           *)
ide_irq(c) ==
  /\ latched[c]
  /\ latched' = [latched EXCEPT ![c] = FALSE]
  /\ ide_irq_invoked' = TRUE
  /\ UNCHANGED <<drives, selected, nIEN, ide_devices, ide_buf, cpu>>

-----------------------------------------------------------------------------
(* The driver's accesses to the selected drive p.                          *)

At(here) == cpu.pc = here
Goto(there) == cpu' = [cpu EXCEPT !.pc = there]

(* Mutant: it is the alternate status, which leaves the interrupt as it is. *)
ReadStatus_Alternate(p) ==
  /\ UNCHANGED <<drives, selected, nIEN>>
  /\ Wired

ReadStatus(p) ==
  /\ dev' = [dev EXCEPT ![p].pending = FALSE]
  /\ UNCHANGED <<attached, transfer, selected, nIEN>>
  /\ Wired

(* Commands end, successful or not, before the next one is given; one for  *)
(* an empty position is ignored.                                           *)
Command(p, cmd) ==
  /\ dev' = IF Exists(p)
            THEN [dev EXCEPT ![p].phase = cmd, ![p].due = FALSE, ![p].pending = FALSE]
            ELSE dev
  /\ UNCHANGED <<attached, transfer, selected, nIEN>>
  /\ Wired

(* All words of a block are moved, and the drive goes on to its next phase *)
(* if it was waiting for them in phase now.                                *)
Transfer(p, now, next, request) ==
  /\ IF dev[p].phase = now
     THEN dev' = [dev EXCEPT ![p].phase = next] /\ transfer' = request
     ELSE UNCHANGED <<dev, transfer>>
  /\ UNCHANGED <<attached, wires>>

SelectDrive(p) ==
  /\ selected' = [selected EXCEPT ![p[1]] = p[2]]
  /\ UNCHANGED <<drives, nIEN>>
  /\ Wired

-----------------------------------------------------------------------------
(* ide_initialize.                                                         *)

(* The request atapi_read works on, and what read_sectors asks for after.  *)
Request(drive, lba, n, left) ==
  [pc |-> "start", slot |-> 4, drive |-> drive, lba |-> lba, n |-> n, i |-> 0,
   err |-> 0, left |-> left]

Init ==
  /\ attached \in Machines
  /\ dev = [p \in Positions |-> Quiet(attached, p)]
  /\ transfer = [lba |-> 0, left |-> 0]
  /\ selected = [c \in Channels |-> 0]
  /\ nIEN = [c \in Channels |-> TRUE]
  /\ latched = [c \in Channels |-> FALSE]
  /\ ide_irq_invoked = FALSE
  /\ ide_devices = <<>>
  /\ ide_buf = <<<<0, 0>>, Garbage>>
  /\ cpu = [Request(0, 0, 1, 0) EXCEPT !.pc = "select", !.slot = 0]

Slot(k) == <<k \div 2, k % 2>>
Probed == Slot(cpu.slot)

(* The loop ends with a first read, of sector 16 of drive 0.               *)
NextSlot ==
  cpu' = IF cpu.slot < 3 THEN [cpu EXCEPT !.pc = "select", !.slot = @ + 1]
         ELSE Request(0, 16, 1, 0)

Select ==
  /\ At("select") /\ SelectDrive(Probed)
  /\ Goto("identify")
  /\ UNCHANGED memory

Identify ==
  /\ At("identify") /\ Command(Probed, "IDENTIFY")
  /\ Goto("present")
  /\ UNCHANGED memory

(* sleep(1) gives a drive time to answer only if it is prompt.             *)
Slept == PROMPT => dev[Probed].phase \notin Busy

Present ==
  /\ At("present") /\ Slept
  /\ ReadStatus(Probed)
  /\ IF dev[Probed].shown = {} THEN NextSlot ELSE Goto("probe")
  /\ UNCHANGED memory

(* Mutant: the error bit is not looked at.                                 *)
Probe_NoError ==
  /\ At("probe") /\ ReadStatus(Probed)
  /\ LET status == dev[Probed].shown
     IN Goto(IF status \cap {"BSY", "DRQ"} # {"BSY"} THEN "ata" ELSE "probe")
  /\ UNCHANGED memory

Probe ==
  /\ At("probe") /\ ReadStatus(Probed)
  /\ LET status == dev[Probed].shown
     IN Goto(IF "ERR" \in status THEN "signature"
             ELSE IF "BSY" \notin status /\ "DRQ" \in status THEN "ata"
             ELSE "probe")
  /\ UNCHANGED memory

(* An ATAPI drive that refused IDENTIFY shows its signature.               *)
Signature ==
  /\ At("signature")
  /\ IF attached[Probed] = IDE_ATAPI
     THEN Command(Probed, "IDENTIFY_PACKET") /\ Goto("atapi")
     ELSE NextSlot /\ UNCHANGED <<drives, wires>>
  /\ UNCHANGED memory

(* The identification is read without a look at the status.                *)
ReadIdentity ==
  /\ At("ata") \/ (At("atapi") /\ Slept)
  /\ Transfer(Probed, "data", "idle", transfer)
  /\ ide_buf' = IF dev[Probed].phase = "data" THEN <<Probed, Identity>> ELSE <<Probed, Garbage>>
  /\ ide_devices' = Append(ide_devices, [type |-> cpu.pc, at |-> Probed, identity |-> ide_buf'])
  /\ NextSlot
  /\ UNCHANGED ide_irq_invoked

-----------------------------------------------------------------------------
(* atapi_read.                                                             *)

(* An entry not filled is all zero: master of the first channel.           *)
DriveAt(k) == IF k < Len(ide_devices) THEN ide_devices[k + 1].at ELSE <<0, 0>>
Target == DriveAt(cpu.drive)

Start ==
  /\ At("start")
  /\ ide_irq_invoked' = FALSE
  /\ Goto("enable")
  /\ UNCHANGED <<drives, wires, ide_devices, ide_buf>>

(* Mutant: the channel stays masked.                                       *)
Enable_Not ==
  /\ At("enable")
  /\ Goto("device")
  /\ UNCHANGED <<drives, selected, nIEN, memory>>
  /\ Wired

Enable ==
  /\ At("enable")
  /\ nIEN' = [nIEN EXCEPT ![Target[1]] = FALSE]
  /\ Goto("device")
  /\ UNCHANGED <<drives, selected, memory>>
  /\ Wired

Device ==
  /\ At("device") /\ SelectDrive(Target)
  /\ Goto("command")
  /\ UNCHANGED memory

PacketCommand ==
  /\ At("command") /\ Command(Target, "PACKET")
  /\ Goto("delay")
  /\ UNCHANGED memory

(* ide_polling: four reads of the alternate status, then the status until  *)
(* it is not busy, then once more.                                         *)

(* Mutant: no delay.                                                       *)
PollDelay_None == At("delay") /\ Goto("poll") /\ UNCHANGED <<drives, wires, memory>>

PollDelay ==
  /\ At("delay") /\ Settled(Target)
  /\ Goto("poll")
  /\ UNCHANGED <<drives, wires, memory>>

PollBusy ==
  /\ At("poll") /\ ReadStatus(Target)
  /\ Goto(IF "BSY" \in dev[Target].shown THEN "poll" ELSE "check")
  /\ UNCHANGED memory

Return(err) == cpu' = [cpu EXCEPT !.pc = "returned", !.err = err]

PollCheck ==
  /\ At("check") /\ ReadStatus(Target)
  /\ LET state == dev[Target].shown
     IN \/ "ERR" \in state /\ Return(2)
        \/ "ERR" \notin state /\ "DF" \in state /\ Return(1)
        \/ {"ERR", "DF", "DRQ"} \cap state = {} /\ Return(3)
        \/ state \cap {"ERR", "DF", "DRQ"} = {"DRQ"} /\ cpu.i = 0 /\ Goto("outsw")
        \/ state \cap {"ERR", "DF", "DRQ"} = {"DRQ"} /\ cpu.i > 0 /\ Goto("insw")
  /\ UNCHANGED memory

SendPacket ==
  /\ At("outsw")
  /\ Transfer(Target, "packet", "READ", [lba |-> cpu.lba, left |-> cpu.n])
  /\ cpu' = [cpu EXCEPT !.pc = "wait", !.i = 1]
  /\ UNCHANGED memory

(* ide_wait_irq: the flag is tested, and cleared in a step of its own.     *)
(* i counts the waits; the last one, after all sectors, is for the end.    *)
Wait ==
  /\ At("wait") /\ ide_irq_invoked
  /\ Goto("clear")
  /\ UNCHANGED <<drives, wires, memory>>

Clear ==
  /\ At("clear")
  /\ ide_irq_invoked' = FALSE
  /\ Goto(IF cpu.i <= cpu.n THEN "delay" ELSE "finish")
  /\ UNCHANGED <<drives, wires, ide_devices, ide_buf>>

(* inws into ide_buf, whatever edi says.                                   *)
ReadBlock ==
  /\ At("insw")
  /\ Transfer(Target, "data", "READ", [lba |-> transfer.lba + 1, left |-> transfer.left - 1])
  /\ ide_buf' = IF dev[Target].phase = "data" THEN <<Target, transfer.lba>>
                ELSE <<Target, Garbage>>
  /\ cpu' = [cpu EXCEPT !.pc = "wait", !.i = @ + 1]
  /\ UNCHANGED <<ide_irq_invoked, ide_devices>>

(* Mutant: only DRQ is waited for.                                         *)
Finish_NotBusy ==
  /\ At("finish") /\ ReadStatus(Target)
  /\ IF "DRQ" \in dev[Target].shown THEN Goto("finish") ELSE Return(0)
  /\ UNCHANGED memory

Finish ==
  /\ At("finish") /\ ReadStatus(Target)
  /\ IF dev[Target].shown \cap {"BSY", "DRQ"} # {} THEN Goto("finish") ELSE Return(0)
  /\ UNCHANGED memory

-----------------------------------------------------------------------------
(* read_sectors: one call of atapi_read for each sector, whatever became   *)
(* of those before.  A drive that is not in the table, or not ATAPI, is    *)
(* refused.                                                                *)
NextSector ==
  /\ At("returned") /\ cpu.left > 0
  /\ cpu' = Request(cpu.drive, cpu.lba + 1, 1, cpu.left - 1)
  /\ UNCHANGED <<drives, wires, memory>>

read_sectors(drive, n, lba) ==
  /\ At("returned") /\ cpu.left = 0
  /\ drive < Len(ide_devices) /\ ide_devices[drive + 1].type = IDE_ATAPI
  /\ cpu' = Request(drive, lba, 1, n - 1)
  /\ UNCHANGED <<drives, wires, memory>>

(* atapi_read called for several sectors at once.                          *)
atapi_read(drive, n, lba) ==
  /\ At("returned") /\ cpu.left = 0
  /\ drive < Len(ide_devices)
  /\ cpu' = Request(drive, lba, n, 0)
  /\ UNCHANGED <<drives, wires, memory>>

-----------------------------------------------------------------------------
Driver ==
  \/ Select \/ Identify \/ Present \/ Probe \/ Signature \/ ReadIdentity
  \/ Start \/ Enable \/ Device \/ PacketCommand
  \/ PollDelay \/ PollBusy \/ PollCheck \/ SendPacket
  \/ Wait \/ Clear \/ ReadBlock \/ Finish
  \/ NextSector

Call ==
  \E drive \in 0..3, n \in Counts, lba \in LBA :
    read_sectors(drive, n, lba) \/ atapi_read(drive, n, lba)

Next ==
  \/ Driver \/ Call
  \/ \E p \in Positions : Settle(p) \/ Answer(p) \/ Interrupt(p)
  \/ \E c \in Channels : ide_irq(c)

Spec == Init /\ [][Next]_vars

(* The processor runs, drives answer and interrupt, interrupts are         *)
(* delivered.                                                              *)
FairSpec ==
  /\ Spec
  /\ WF_vars(Driver)
  /\ \A p \in Positions : WF_vars(Settle(p)) /\ WF_vars(Answer(p)) /\ WF_vars(Interrupt(p))
  /\ \A c \in Channels : WF_vars(ide_irq(c))

-----------------------------------------------------------------------------
(* Properties.                                                             *)

Phases == Busy \cup {"none", "idle", "packet", "data", "failed", "faulted"}

TypeOK ==
  /\ \A p \in Positions :
       /\ dev[p].phase \in Phases
       /\ dev[p].phase = "none" <=> ~Exists(p)
       /\ dev[p].due \in BOOLEAN /\ dev[p].pending \in BOOLEAN
  /\ transfer.left \in Nat
  /\ selected \in [Channels -> 0..1]
  /\ nIEN \in [Channels -> BOOLEAN] /\ latched \in [Channels -> BOOLEAN]
  /\ ide_irq_invoked \in BOOLEAN
  /\ Len(ide_devices) <= cpu.slot
  /\ cpu.i \in 0 .. cpu.n + 1

(* Words are sent and read only when the drive is waiting for them, and it *)
(* is at the sector the driver thinks it is at, however many interrupts of *)
(* earlier commands or of the other channel satisfied its waits.           *)
WordsInPhase ==
  /\ At("outsw") => dev[Target].phase = "packet"
  /\ At("insw") =>
       /\ dev[Target].phase = "data"
       /\ transfer.lba = cpu.lba + cpu.i - 1 /\ transfer.left = cpu.n - cpu.i + 1

(* atapi_read answers 0 exactly when the drive has delivered all sectors   *)
(* and has ended the command, and the buffer then holds the last of them.  *)
ReadOutcome ==
  At("returned") =>
    /\ cpu.err = 0 <=> dev[Target].phase = "idle" /\ transfer.left = 0
    /\ cpu.err = 0 => ide_buf = <<Target, cpu.lba + cpu.n - 1>>

(* While the driver waits with the flag clear, an interrupt is on its way: *)
(* none that it needs is lost between test and clearing, to a status read  *)
(* or in an edge that is not seen because the line is high already.        *)
InterruptComes ==
  At("wait") /\ ~ide_irq_invoked /\ ~latched[Target[1]] =>
    /\ dev[Target].due \/ dev[Target].phase \in Busy
    /\ ~dev[Target].pending

(* The table lists the drives there are, in order, as what they are, with  *)
(* their own identification.                                               *)
Before(k) == {p \in Positions : Exists(p) /\ 2 * p[1] + p[2] < k}
DrivesFound ==
  /\ Len(ide_devices) = Cardinality(Before(cpu.slot))
  /\ \A k \in 1..Len(ide_devices) :
       LET entry == ide_devices[k]
       IN /\ entry.type = attached[entry.at] /\ entry.identity = <<entry.at, Identity>>
          /\ Cardinality(Before(2 * entry.at[1] + entry.at[2])) = k - 1

(* Every read of a drive there is ends.  That of a drive there is not, on  *)
(* a channel without any, does not.                                        *)
ReadReturns == At("start") /\ Exists(Target) ~> At("returned")
=============================================================================
