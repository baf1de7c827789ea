---------------------------- MODULE AtapiProofs ----------------------------
(***************************************************************************)
(* The read protocol of the ATAPI driver, for all machines and requests,   *)
(* and whether or not drives are prompt: words are moved in their phase,   *)
(* the answer tells what the drive did, and an interrupt is on its way     *)
(* whenever the driver waits for one.                                      *)
(***************************************************************************)
EXTENDS Atapi, FiniteSetTheorems, TLAPS

Kinds == {"none", IDE_ATA, IDE_ATAPI}
Bits == {"BSY", "DRQ", "ERR", "DF"}
Drives == [phase : Phases, shown : SUBSET Bits, due : BOOLEAN, pending : BOOLEAN]
Entries == [type : {"ata", "atapi"}, at : Positions, identity : Positions \X Int]

Probing == {"select", "identify", "present", "probe", "signature", "ata", "atapi"}
Polling == {"delay", "poll", "check"}
Reading == {"command"} \cup Polling \cup {"outsw", "wait", "clear", "insw", "finish"}
PCs == Probing \cup {"start", "enable", "device"} \cup Reading \cup {"returned"}

States == [pc : PCs, slot : 0..4, drive : 0..3, lba : Nat, n : Nat \ {0}, i : Nat,
           err : 0..3, left : Nat]

DriverType ==
  /\ ide_irq_invoked \in BOOLEAN
  /\ ide_devices \in Seq(Entries) /\ Len(ide_devices) <= cpu.slot
  /\ ide_buf \in Positions \X Int
  /\ cpu \in States
  /\ cpu.slot = 4 <=> cpu.pc \notin Probing

HardwareType ==
  /\ attached \in [Positions -> Kinds]
  /\ dev \in [Positions -> Drives]
  /\ \A p \in Positions :
       /\ dev[p].phase = "none" <=> ~Exists(p)
       /\ ~Exists(p) => dev[p].shown \in {{}, Bits}
  /\ transfer \in [lba : Int, left : Int]
  /\ selected \in [Channels -> 0..1]
  /\ nIEN \in [Channels -> BOOLEAN] /\ latched \in [Channels -> BOOLEAN]

-----------------------------------------------------------------------------
(* What is true of the drive being read, at each place of atapi_read.      *)
Phase == dev[Target].phase
Serving == {"READ", "data", "failed", "faulted", "idle"}

(* The transfer has come as far as the driver's loop.                      *)
InStep == transfer.lba = cpu.lba + cpu.i - 1 /\ transfer.left = cpu.n - cpu.i + 1

(* Its channel is unmasked and it is selected.                             *)
Wiring ==
  /\ cpu.pc \in {"device"} \cup Reading => ~nIEN[Target[1]]
  /\ cpu.pc \in Reading => selected[Target[1]] = Target[2]

Accepting ==
  /\ cpu.pc \in Probing \cup {"start", "enable", "device", "command"} => cpu.i = 0
  /\ cpu.pc \in Polling /\ cpu.i = 0 => Phase \in {"PACKET", "packet", "failed", "none"}
  /\ cpu.pc = "outsw" => cpu.i = 0 /\ Phase = "packet"

Delivering ==
  /\ cpu.pc \in Polling /\ cpu.i > 0 => cpu.i <= cpu.n /\ Phase \in Serving /\ InStep
  /\ cpu.pc = "insw" => cpu.i \in 1..cpu.n /\ Phase = "data" /\ InStep
  /\ cpu.pc \in {"wait", "clear"} =>
       /\ cpu.i \in 1 .. cpu.n + 1 /\ InStep
       /\ Phase \in IF cpu.i <= cpu.n THEN Serving ELSE {"READ", "idle"}
  /\ cpu.pc = "finish" => cpu.i = cpu.n + 1 /\ InStep /\ Phase \in {"READ", "idle"}
  /\ cpu.pc \in Reading /\ cpu.i > 1 => ide_buf = <<Target, cpu.lba + cpu.i - 2>>

(* What the status shows.  A drive that goes on with the transfer shows    *)
(* that it is not done, be it by its old status.                           *)
Showing ==
  /\ cpu.pc \in {"poll", "check", "outsw", "insw"} => Settled(Target)
  /\ cpu.pc = "check" => "BSY" \notin dev[Target].shown
  /\ cpu.pc \in {"wait", "clear", "finish"} /\ Phase = "READ" =>
       dev[Target].shown \in {{"BSY"}, {"DRQ"}}

Returned ==
  cpu.pc = "returned" =>
    /\ Phase \in {"none", "idle", "failed", "faulted"}
    /\ cpu.err = 0 <=> Phase = "idle" /\ transfer.left = 0
    /\ cpu.err = 0 => ide_buf = <<Target, cpu.lba + cpu.n - 1>>
    /\ cpu.i <= cpu.n + 1

(* A pending interrupt has been seen, or will be.                          *)
Noticed ==
  /\ cpu.pc \in {"check", "outsw", "insw", "wait"} /\ dev[Target].pending =>
       ide_irq_invoked \/ latched[Target[1]]
  /\ cpu.pc = "wait" =>
       Phase \in Busy \/ dev[Target].due \/ ide_irq_invoked \/ latched[Target[1]]

ReadInv ==
  /\ DriverType /\ HardwareType /\ transfer.left >= 0
  /\ Wiring /\ Accepting /\ Delivering /\ Showing /\ Returned /\ Noticed

-----------------------------------------------------------------------------
LEMMA DriverTypes == ASSUME DriverType PROVE
  /\ cpu.pc \in PCs /\ cpu.slot \in 0..4 /\ cpu.drive \in 0..3 /\ cpu.lba \in Nat
  /\ cpu.n \in Nat \ {0} /\ cpu.i \in Nat /\ cpu.err \in 0..3 /\ cpu.left \in Nat
BY DEF DriverType, States

LEMMA DriveTypes == ASSUME HardwareType, NEW p \in Positions PROVE
  /\ dev[p].phase \in Phases /\ dev[p].shown \in SUBSET Bits
  /\ dev[p].due \in BOOLEAN /\ dev[p].pending \in BOOLEAN
  /\ dev[p] \in Drives
BY DEF HardwareType, Drives

LEMMA TargetType == ASSUME DriverType PROVE Target \in Positions
<1>1. <<0, 0>> \in Positions
  BY DEF Positions, Channels
<1>2. ASSUME cpu.drive < Len(ide_devices) PROVE ide_devices[cpu.drive + 1].at \in Positions
  <2>1. /\ ide_devices \in Seq(Entries) /\ cpu.drive \in 0..3
        /\ cpu.drive + 1 \in 1..Len(ide_devices)
    BY <1>2, DriverTypes DEF DriverType
  <2>2. ide_devices[cpu.drive + 1] \in Entries
    BY <2>1
  <2>. QED BY <2>2 DEF Entries
<1>. QED BY <1>1, <1>2 DEF Target, DriveAt

LEMMA ProbedType == ASSUME DriverType, cpu.slot # 4 PROVE Probed \in Positions
BY DriverTypes DEF Probed, Slot, Positions, Channels

LEMMA PositionParts == ASSUME NEW p \in Positions PROVE
  p[1] \in Channels /\ p[2] \in 0..1 /\ p = <<p[1], p[2]>>
BY DEF Positions

LEMMA StatusBits ==
  /\ \A phase \in Busy : Status(phase) = {"BSY"}
  /\ Status("packet") = {"DRQ"} /\ Status("data") = {"DRQ"}
  /\ Status("failed") = {"ERR"} /\ Status("faulted") = {"DF"} /\ Status("idle") = {}
  /\ \A phase : Status(phase) \in SUBSET Bits
<1>1. \A phase \in Busy : Status(phase) = {"BSY"}
  BY DEF Status
<1>2. /\ Status("packet") = {"DRQ"} /\ Status("data") = {"DRQ"}
      /\ Status("failed") = {"ERR"} /\ Status("faulted") = {"DF"} /\ Status("idle") = {}
  BY DEF Status, Busy
<1>3. \A phase : Status(phase) \in SUBSET Bits
  BY DEF Status, Bits
<1>. QED BY <1>1, <1>2, <1>3

LEMMA WiredAt ==
  ASSUME Wired, NEW c \in Channels
  PROVE  /\ latched' \in [Channels -> BOOLEAN]
         /\ Line(c, dev', selected', nIEN') /\ ~Line(c, dev, selected, nIEN) => latched'[c]
         /\ (Line(c, dev', selected', nIEN') <=> Line(c, dev, selected, nIEN))
              => (latched'[c] <=> latched[c])
BY DEF Wired

-----------------------------------------------------------------------------
LEMMA ReadInit == Init => ReadInv
<1>. SUFFICES ASSUME Init PROVE ReadInv
  OBVIOUS
<1>1. attached \in [Positions -> Kinds]
  BY RequestAssumption DEF Init, Kinds
<1>2. \A p \in Positions : NoDrive(attached, p) \in {{}, Bits}
  BY DEF NoDrive, Bits
<1>3. dev \in [Positions -> Drives]
  <2>1. \A p \in Positions : Quiet(attached, p) \in Drives
    BY <1>2 DEF Quiet, Drives, Phases, Bits
  <2>. QED BY <2>1 DEF Init
<1>4. \A p \in Positions :
       /\ dev[p].phase = "none" <=> ~Exists(p)
       /\ ~Exists(p) => dev[p].shown \in {{}, Bits}
  BY <1>2 DEF Init, Quiet, Exists
<1>5. HardwareType
  BY <1>1, <1>3, <1>4 DEF HardwareType, Init, Channels
<1>6. /\ cpu.pc = "select" /\ cpu.slot = 0 /\ cpu.i = 0
      /\ cpu \in States
  <2>1. cpu = [pc |-> "select", slot |-> 0, drive |-> 0, lba |-> 0, n |-> 1, i |-> 0,
               err |-> 0, left |-> 0]
    BY DEF Init, Request
  <2>2. "select" \in PCs
    BY DEF PCs, Probing
  <2>. QED BY <2>1, <2>2 DEF States
<1>7. DriverType
  <2>0. <<0, 0>> \in Positions /\ Garbage \in Int
    BY DEF Positions, Channels, Garbage
  <2>1. ide_devices = <<>> /\ ide_buf \in Positions \X Int /\ ide_irq_invoked \in BOOLEAN
    BY <2>0 DEF Init
  <2>2. ide_devices \in Seq(Entries) /\ Len(ide_devices) = 0
    BY <2>1
  <2>. QED BY <1>6, <2>1, <2>2 DEF DriverType, Probing
<1>8. transfer.left >= 0
  BY DEF Init
<1>. QED
  BY <1>5, <1>6, <1>7, <1>8
  DEF ReadInv, Wiring, Accepting, Delivering, Showing, Returned, Noticed, Reading, Polling, Probing

-----------------------------------------------------------------------------
(* A step of the hardware at position q, or of the driver there.           *)
LEMMA HardwareStep ==
  ASSUME HardwareType, NEW q \in Positions, attached' = attached,
         NEW d \in Drives, dev' = [dev EXCEPT ![q] = d],
         d.phase = "none" <=> dev[q].phase = "none",
         ~Exists(q) => d.shown = dev[q].shown,
         transfer' \in [lba : Int, left : Int],
         selected' \in [Channels -> 0..1],
         nIEN' \in [Channels -> BOOLEAN],
         latched' \in [Channels -> BOOLEAN]
  PROVE  /\ HardwareType'
         /\ dev'[q] = d /\ \A p \in Positions \ {q} : dev'[p] = dev[p]
<1>1. dev \in [Positions -> Drives]
  BY DEF HardwareType
<1>2. dev'[q] = d /\ \A p \in Positions \ {q} : dev'[p] = dev[p]
  BY <1>1
<1>3. dev' \in [Positions -> Drives]
  BY <1>1
<1>4. \A p \in Positions :
       /\ dev'[p].phase = "none" <=> ~Exists(p)'
       /\ ~Exists(p)' => dev'[p].shown \in {{}, Bits}
  BY <1>2 DEF HardwareType, Exists
<1>. QED BY <1>2, <1>3, <1>4 DEF HardwareType

LEMMA SameTarget ==
  ASSUME ide_devices' = ide_devices, cpu'.drive = cpu.drive
  PROVE  Target' = Target
BY DEF Target, DriveAt

(* Interrupts that reach the latch of the target's channel.                *)
LEMMA Seen ==
  ASSUME ReadInv, Wired, UNCHANGED <<selected, nIEN>>,
         cpu.pc \in Reading, ~dev[Target].pending, dev'[Target].pending
  PROVE  latched'[Target[1]]
<1>1. Target \in Positions /\ Target[1] \in Channels /\ Target = <<Target[1], Target[2]>>
  BY TargetType, PositionParts DEF ReadInv
<1>2. selected[Target[1]] = Target[2] /\ ~nIEN[Target[1]]
  BY DEF ReadInv, Wiring
<1>3. ~Line(Target[1], dev, selected, nIEN) /\ Line(Target[1], dev', selected', nIEN')
  BY <1>1, <1>2 DEF Line
<1>. QED BY <1>1, <1>3, WiredAt

LEMMA SettleStep ==
  ASSUME ReadInv, NEW q \in Positions, Settle(q)
  PROVE  ReadInv'
<1>. DEFINE d == [dev[q] EXCEPT !.shown = Status(dev[q].phase)]
<1>1. Exists(q) /\ dev' = [dev EXCEPT ![q] = d]
  BY DEF Settle, Settled
<1>2. d \in Drives /\ d = [phase |-> dev[q].phase, shown |-> Status(dev[q].phase),
                           due |-> dev[q].due, pending |-> dev[q].pending]
  BY DriveTypes, StatusBits DEF ReadInv, Drives
<1>3. UNCHANGED <<attached, transfer, wires, memory, cpu>>
  BY DEF Settle
<1>. HIDE DEF d
<1>4. HardwareType' /\ dev'[q] = d /\ \A p \in Positions \ {q} : dev'[p] = dev[p]
  BY <1>1, <1>2, <1>3, HardwareStep DEF ReadInv, HardwareType, wires
<1>5. DriverType'
  BY <1>3 DEF ReadInv, DriverType, memory
<1>6. Target \in Positions /\ Target' = Target
  BY <1>3, TargetType, SameTarget DEF ReadInv, memory
<1>7. /\ dev'[Target].phase = dev[Target].phase /\ dev'[Target].due = dev[Target].due
      /\ dev'[Target].pending = dev[Target].pending
      /\ dev'[Target].shown \in {dev[Target].shown, Status(dev[Target].phase)}
  BY <1>2, <1>4, <1>6
<1>8. Showing'
  <2>1. Settled(Target) => dev'[Target].shown = dev[Target].shown
    BY <1>1, <1>4, <1>6 DEF Settle
  <2>2. "READ" \in Busy
    BY DEF Busy
  <2>. QED BY <1>3, <1>6, <1>7, <2>1, <2>2, StatusBits DEF ReadInv, Showing, Phase, Settled, Exists
<1>. QED
  BY <1>3, <1>4, <1>5, <1>6, <1>7, <1>8
  DEF ReadInv, wires, memory, Wiring, Accepting, Delivering, Returned, Noticed, Phase, InStep

LEMMA AnswerStep ==
  ASSUME ReadInv, NEW q \in Positions, Answer(q)
  PROVE  ReadInv'
<1>1. PICK phase \in Answers(q), due \in BOOLEAN :
         /\ phase # "packet" => due
         /\ dev' = [dev EXCEPT ![q].phase = phase, ![q].shown = Status(phase), ![q].due = due]
  BY DEF Answer
<1>. DEFINE d == [dev[q] EXCEPT !.phase = phase, !.shown = Status(phase), !.due = due]
<1>2. /\ dev[q].phase \in Busy /\ ~dev[q].due
      /\ UNCHANGED <<attached, transfer, wires, memory, cpu>>
  BY DEF Answer
<1>3. /\ phase \in {"data", "failed", "packet", "faulted", "idle"}
      /\ dev[q].phase = "PACKET" => phase \in {"packet", "failed"}
      /\ dev[q].phase = "READ" => phase \in Serving \ {"READ"}
      /\ dev[q].phase = "READ" /\ transfer.left = 0 => phase = "idle"
  BY <1>2 DEF Answers, Busy, Serving
<1>4. /\ d.phase = phase /\ d.shown = Status(phase) /\ d.due = due
      /\ d.pending = dev[q].pending
      /\ d \in Drives /\ dev' = [dev EXCEPT ![q] = d]
  <2>0. HardwareType
    BY DEF ReadInv
  <2>1. phase \in Phases /\ Status(phase) \in SUBSET Bits /\ dev[q] \in Drives
    BY <1>3, <2>0, DriveTypes, StatusBits DEF Phases
  <2>2. dev' = [dev EXCEPT ![q] = d]
    BY <1>1
  <2>. QED BY <2>1, <2>2 DEF Drives
<1>. HIDE DEF d
<1>5. Exists(q)
  BY <1>2 DEF ReadInv, HardwareType, Busy
<1>6. HardwareType' /\ dev'[q] = d /\ \A p \in Positions \ {q} : dev'[p] = dev[p]
  BY <1>2, <1>3, <1>4, <1>5, HardwareStep DEF ReadInv, HardwareType, wires, Busy
<1>7. DriverType'
  BY <1>2 DEF ReadInv, DriverType, memory
<1>8. Target \in Positions /\ Target' = Target
  BY <1>2, TargetType, SameTarget DEF ReadInv, memory
<1>9. CASE q # Target
  <2>1. dev'[Target] = dev[Target]
    BY <1>6, <1>8, <1>9
  <2>. QED
    BY <1>2, <1>6, <1>7, <1>8, <2>1
    DEF ReadInv, wires, memory, Wiring, Accepting, Delivering, Showing, Settled, Exists,
        Returned, Noticed, Phase, InStep
<1>10. CASE q = Target
  <2>1. /\ Phase' = phase /\ dev'[Target].shown = Status(phase) /\ dev'[Target].due = due
        /\ dev'[Target].pending = dev[Target].pending
    BY <1>4, <1>6, <1>8, <1>10 DEF Phase
  <2>2. Phase \in Busy
    BY <1>2, <1>10 DEF Phase
  <2>3. cpu.pc # "check" /\ cpu.pc \notin {"outsw", "insw", "returned"}
    <3>1. cpu.pc = "check" => "BSY" \in dev[Target].shown
      BY <1>5, <1>10, <2>2, StatusBits DEF ReadInv, Showing, Settled, Phase
    <3>. QED BY <2>2, <3>1 DEF ReadInv, Showing, Accepting, Delivering, Returned, Busy
  <2>4. Accepting'
    BY <1>2, <1>3, <1>8, <1>10, <2>1, <2>2, <2>3 DEF ReadInv, Accepting, Phase, Busy
  <2>5. Delivering'
    <3>1. /\ Phase \in Serving => Phase = "READ"
          /\ Phase = "READ" => phase \in Serving
          /\ Phase = "READ" /\ transfer.left = 0 => phase = "idle"
      BY <1>3, <1>10, <2>2 DEF Phase, Busy, Serving
    <3>2. cpu.pc \in {"wait", "clear"} /\ ~(cpu.i <= cpu.n) => transfer.left = 0
      BY DriverTypes DEF ReadInv, Delivering, InStep
    <3>3. cpu.pc = "finish" => transfer.left = 0
      BY DriverTypes DEF ReadInv, Delivering, InStep
    <3>4. Phase \in {"READ", "idle"} => Phase = "READ"
      BY <2>2 DEF Busy
    <3>. QED
      BY <1>2, <1>8, <2>1, <2>3, <3>1, <3>2, <3>3, <3>4
      DEF ReadInv, Delivering, InStep, memory
  <2>6. Showing'
    BY <1>2, <1>3, <1>8, <2>1, <2>3 DEF ReadInv, Showing, Settled, Phase, Serving
  <2>7. Noticed'
    <3>1. cpu.pc = "wait" => due
      BY <1>1, <1>3, <1>10, <2>2, DriverTypes
      DEF ReadInv, Delivering, Phase, Busy, Serving
    <3>. QED BY <1>2, <1>8, <2>1, <2>3, <3>1 DEF ReadInv, Noticed, wires, memory
  <2>. QED
    BY <1>2, <1>6, <1>7, <1>8, <2>3, <2>4, <2>5, <2>6, <2>7
    DEF ReadInv, wires, memory, Wiring, Returned
<1>. QED BY <1>9, <1>10

LEMMA InterruptStep ==
  ASSUME ReadInv, NEW q \in Positions, Interrupt(q)
  PROVE  ReadInv'
<1>. DEFINE d == [dev[q] EXCEPT !.due = FALSE, !.pending = TRUE]
<1>1. /\ dev' = [dev EXCEPT ![q] = d] /\ Wired
      /\ UNCHANGED <<attached, transfer, selected, nIEN, memory, cpu>>
  BY DEF Interrupt
<1>2. /\ d \in Drives /\ d.phase = dev[q].phase /\ d.shown = dev[q].shown
      /\ d.due = FALSE /\ d.pending = TRUE
  <2>0. HardwareType
    BY DEF ReadInv
  <2>1. dev[q] \in Drives
    BY <2>0, DriveTypes
  <2>. QED BY <2>1 DEF Drives
<1>. HIDE DEF d
<1>3. latched' \in [Channels -> BOOLEAN]
  BY <1>1 DEF Wired
<1>4. HardwareType' /\ dev'[q] = d /\ \A p \in Positions \ {q} : dev'[p] = dev[p]
  BY <1>1, <1>2, <1>3, HardwareStep DEF ReadInv, HardwareType
<1>5. DriverType'
  BY <1>1 DEF ReadInv, DriverType, memory
<1>6. Target \in Positions /\ Target' = Target /\ Target[1] \in Channels
  BY <1>1, TargetType, SameTarget, PositionParts DEF ReadInv, memory
<1>7. /\ dev'[Target].phase = dev[Target].phase /\ dev'[Target].shown = dev[Target].shown
  BY <1>2, <1>4, <1>6
<1>8. Noticed'
  <2>1. ASSUME cpu.pc \in Reading, dev[Target].pending, latched[Target[1]]
        PROVE  latched'[Target[1]]
    <3>1. selected[Target[1]] = Target[2] /\ ~nIEN[Target[1]] /\ Target = <<Target[1], Target[2]>>
      BY <1>6, <2>1, PositionParts DEF ReadInv, Wiring
    <3>2. dev'[Target].pending
      BY <1>2, <1>4, <1>6, <2>1
    <3>3. Line(Target[1], dev', selected', nIEN') <=> Line(Target[1], dev, selected, nIEN)
      BY <1>1, <2>1, <3>1, <3>2 DEF Line
    <3>. QED BY <1>1, <1>6, <2>1, <3>3, WiredAt
  <2>2. ASSUME cpu.pc \in Reading, dev'[Target].pending, ~dev[Target].pending
        PROVE  latched'[Target[1]]
    BY <1>1, <2>2, Seen
  <2>3. ASSUME cpu.pc = "wait", ~dev'[Target].pending
        PROVE  /\ latched[Target[1]] => latched'[Target[1]]
               /\ dev'[Target].due = dev[Target].due
    <3>1. q # Target /\ dev'[Target] = dev[Target]
      BY <1>2, <1>4, <1>6, <2>3
    <3>2. selected[Target[1]] = Target[2] /\ Target = <<Target[1], Target[2]>>
      BY <1>6, <2>3, PositionParts DEF ReadInv, Wiring, Reading
    <3>3. Line(Target[1], dev', selected', nIEN') <=> Line(Target[1], dev, selected, nIEN)
      BY <1>1, <3>1, <3>2 DEF Line
    <3>. QED BY <1>1, <1>6, <3>1, <3>3, WiredAt
  <2>4. cpu.pc \in {"check", "outsw", "insw", "wait"} => cpu.pc \in Reading
    BY DEF Reading, Polling
  <2>5. cpu.pc = "wait" /\ dev'[Target].pending => latched'[Target[1]] \/ ide_irq_invoked
    BY <2>1, <2>2, <2>4 DEF ReadInv, Noticed
  <2>. QED
    BY <1>1, <1>6, <1>7, <2>1, <2>2, <2>3, <2>4, <2>5 DEF ReadInv, Noticed, memory, Phase
<1>. QED
  BY <1>1, <1>4, <1>5, <1>6, <1>7, <1>8
  DEF ReadInv, memory, Wiring, Accepting, Delivering, Showing, Settled, Exists, Returned,
      Phase, InStep

LEMMA HandlerStep ==
  ASSUME ReadInv, NEW c \in Channels, ide_irq(c)
  PROVE  ReadInv'
<1>1. /\ latched' = [latched EXCEPT ![c] = FALSE] /\ ide_irq_invoked' = TRUE
      /\ UNCHANGED <<drives, selected, nIEN, ide_devices, ide_buf, cpu>>
  BY DEF ide_irq
<1>2. HardwareType' /\ DriverType'
  BY <1>1 DEF ReadInv, HardwareType, DriverType, drives, Exists
<1>3. Target' = Target
  BY <1>1, SameTarget
<1>. QED
  BY <1>1, <1>2, <1>3
  DEF ReadInv, drives, Wiring, Accepting, Delivering, Showing, Settled, Exists, Returned,
      Noticed, Phase, InStep

-----------------------------------------------------------------------------
(* What the driver's accesses do.                                          *)

LEMMA ReadStatusEffect ==
  ASSUME HardwareType, NEW q \in Positions, ReadStatus(q)
  PROVE  /\ HardwareType' /\ Wired
         /\ UNCHANGED <<attached, transfer, selected, nIEN>>
         /\ dev'[q].phase = dev[q].phase /\ dev'[q].shown = dev[q].shown
         /\ dev'[q].due = dev[q].due /\ dev'[q].pending = FALSE
<1>. DEFINE d == [dev[q] EXCEPT !.pending = FALSE]
<1>1. dev[q] \in Drives
  BY DriveTypes
<1>2. /\ d \in Drives /\ d.phase = dev[q].phase /\ d.shown = dev[q].shown
      /\ d.due = dev[q].due /\ d.pending = FALSE
  BY <1>1 DEF Drives
<1>3. /\ dev' = [dev EXCEPT ![q] = d] /\ Wired
      /\ UNCHANGED <<attached, transfer, selected, nIEN>>
  BY DEF ReadStatus
<1>. HIDE DEF d
<1>4. latched' \in [Channels -> BOOLEAN]
  BY <1>3 DEF Wired
<1>5. HardwareType' /\ dev'[q] = d
  BY <1>2, <1>3, <1>4, HardwareStep DEF HardwareType
<1>. QED BY <1>2, <1>3, <1>5

LEMMA CommandEffect ==
  ASSUME HardwareType, NEW q \in Positions, NEW cmd \in Busy, Command(q, cmd)
  PROVE  /\ HardwareType' /\ Wired
         /\ UNCHANGED <<attached, transfer, selected, nIEN>>
         /\ dev'[q].phase = IF Exists(q) THEN cmd ELSE "none"
<1>1. Wired /\ UNCHANGED <<attached, transfer, selected, nIEN>>
  BY DEF Command
<1>2. latched' \in [Channels -> BOOLEAN]
  BY <1>1 DEF Wired
<1>3. CASE Exists(q)
  <2>. DEFINE d == [dev[q] EXCEPT !.phase = cmd, !.due = FALSE, !.pending = FALSE]
  <2>1. dev[q] \in Drives /\ cmd \in Phases /\ cmd # "none"
    BY DriveTypes DEF Phases, Busy
  <2>2. d \in Drives /\ d.phase = cmd
    BY <2>1 DEF Drives
  <2>3. dev' = [dev EXCEPT ![q] = d]
    BY <1>3 DEF Command
  <2>. HIDE DEF d
  <2>4. dev[q].phase # "none"
    BY <1>3 DEF HardwareType
  <2>5. HardwareType' /\ dev'[q] = d
    BY <1>1, <1>2, <1>3, <2>1, <2>2, <2>3, <2>4, HardwareStep DEF HardwareType
  <2>. QED BY <1>1, <1>3, <2>2, <2>5
<1>4. CASE ~Exists(q)
  <2>1. dev' = dev
    BY <1>4 DEF Command
  <2>2. HardwareType'
    BY <1>1, <1>2, <2>1 DEF HardwareType, Exists
  <2>. QED BY <1>1, <1>4, <2>1, <2>2 DEF HardwareType
<1>. QED BY <1>3, <1>4

LEMMA TransferEffect ==
  ASSUME HardwareType, NEW q \in Positions, NEW now, now # "none",
         NEW next \in Phases \ {"none"}, NEW request \in [lba : Int, left : Int],
         Transfer(q, now, next, request)
  PROVE  /\ HardwareType' /\ UNCHANGED <<attached, wires>>
         /\ dev[q].phase = now => dev'[q].phase = next /\ transfer' = request
         /\ dev[q].phase # now => dev' = dev /\ transfer' = transfer
         /\ dev'[q].shown = dev[q].shown /\ dev'[q].due = dev[q].due
         /\ dev'[q].pending = dev[q].pending
<1>1. UNCHANGED <<attached, wires>>
  BY DEF Transfer
<1>2. CASE dev[q].phase = now
  <2>. DEFINE d == [dev[q] EXCEPT !.phase = next]
  <2>1. dev[q] \in Drives
    BY DriveTypes
  <2>2. /\ d \in Drives /\ d.phase = next /\ d.shown = dev[q].shown /\ d.due = dev[q].due
        /\ d.pending = dev[q].pending
    BY <2>1 DEF Drives
  <2>3. dev' = [dev EXCEPT ![q] = d] /\ transfer' = request
    BY <1>2 DEF Transfer
  <2>. HIDE DEF d
  <2>4. Exists(q)
    BY <1>2 DEF HardwareType
  <2>5. HardwareType' /\ dev'[q] = d
    BY <1>1, <1>2, <2>2, <2>3, <2>4, HardwareStep DEF HardwareType, wires
  <2>. QED BY <1>1, <1>2, <2>2, <2>3, <2>5
<1>3. CASE dev[q].phase # now
  <2>1. dev' = dev /\ transfer' = transfer
    BY <1>3 DEF Transfer
  <2>2. HardwareType'
    BY <1>1, <2>1 DEF HardwareType, wires, Exists
  <2>. QED BY <1>1, <1>3, <2>1, <2>2
<1>. QED BY <1>2, <1>3

LEMMA SelectEffect ==
  ASSUME HardwareType, NEW q \in Positions, SelectDrive(q)
  PROVE  HardwareType' /\ UNCHANGED <<drives, nIEN>> /\ selected'[q[1]] = q[2]
<1>1. /\ selected' = [selected EXCEPT ![q[1]] = q[2]] /\ UNCHANGED <<drives, nIEN>>
      /\ latched' \in [Channels -> BOOLEAN]
  BY DEF SelectDrive, Wired
<1>. QED BY <1>1, PositionParts DEF HardwareType, drives, Exists

LEMMA GotoEffect ==
  ASSUME DriverType, NEW there \in PCs, Goto(there)
  PROVE  /\ cpu' \in States /\ cpu'.pc = there
         /\ cpu'.slot = cpu.slot /\ cpu'.drive = cpu.drive /\ cpu'.lba = cpu.lba
         /\ cpu'.n = cpu.n /\ cpu'.i = cpu.i /\ cpu'.err = cpu.err /\ cpu'.left = cpu.left
BY DEF DriverType, States, Goto

LEMMA RequestEffect ==
  ASSUME NEW drive \in 0..3, NEW lba \in Nat, NEW n \in Nat \ {0}, NEW left \in Nat
  PROVE  /\ Request(drive, lba, n, left) \in States
         /\ Request(drive, lba, n, left).pc = "start"
         /\ Request(drive, lba, n, left).slot = 4
         /\ Request(drive, lba, n, left).i = 0
BY DEF Request, States, PCs

LEMMA NextSlotEffect ==
  ASSUME DriverType, cpu.pc \in Probing, cpu.i = 0, NextSlot
  PROVE  /\ cpu' \in States /\ cpu'.pc \in Probing \cup {"start"} /\ cpu'.i = 0
         /\ cpu'.slot = cpu.slot + 1
         /\ cpu'.slot = 4 <=> cpu'.pc \notin Probing
<1>1. cpu \in States /\ cpu.slot \in 0..3
  BY DriverTypes DEF DriverType
<1>2. CASE cpu.slot < 3
  <2>1. cpu' = [cpu EXCEPT !.pc = "select", !.slot = cpu.slot + 1]
    BY <1>2 DEF NextSlot
  <2>2. "select" \in PCs /\ cpu.slot + 1 \in 0..4
    BY <1>1, <1>2 DEF PCs, Probing
  <2>3. cpu' \in States /\ cpu'.pc = "select" /\ cpu'.slot = cpu.slot + 1 /\ cpu'.i = cpu.i
    BY <1>1, <2>1, <2>2 DEF States
  <2>. QED BY <1>1, <1>2, <2>3 DEF Probing
<1>3. CASE ~(cpu.slot < 3)
  <2>1. cpu' = Request(0, 16, 1, 0)
    BY <1>3 DEF NextSlot
  <2>2. cpu' \in States /\ cpu'.pc = "start" /\ cpu'.slot = 4 /\ cpu'.i = 0
    <3>1. 0 \in 0..3 /\ 16 \in Nat /\ 1 \in Nat \ {0} /\ 0 \in Nat
      OBVIOUS
    <3>. QED BY <2>1, <3>1, RequestEffect, SMTT(30)
  <2>. QED BY <1>1, <1>3, <2>2 DEF Probing
<1>. QED BY <1>2, <1>3

(* Outside atapi_read, from its call until it selects the drive, the types *)
(* are all there is to keep.                                               *)
LEMMA BeforeReading ==
  ASSUME HardwareType', DriverType', transfer'.left >= 0,
         cpu'.pc \in Probing \cup {"start", "enable"}, cpu'.i = 0
  PROVE  ReadInv'
BY DEF ReadInv, Wiring, Accepting, Delivering, Showing, Returned, Noticed, Reading, Polling, Probing

LEMMA ProbeStep ==
  ASSUME ReadInv, Select \/ Identify \/ Present \/ Probe \/ Signature \/ ReadIdentity
  PROVE  ReadInv'
<1>1. cpu.pc \in Probing /\ HardwareType /\ DriverType /\ transfer.left >= 0
  BY DEF ReadInv, Select, Identify, Present, Probe, Signature, ReadIdentity, At, Probing
<1>2. cpu.i = 0 /\ Probed \in Positions /\ cpu.slot # 4
  BY <1>1, ProbedType DEF ReadInv, Accepting, DriverType
<1>3. Probing \subseteq PCs
  BY DEF PCs
<1>4. ASSUME UNCHANGED memory,
             \/ NextSlot
             \/ \E there \in {"identify", "present", "probe", "signature", "ata", "atapi"} : Goto(there)
      PROVE  DriverType' /\ cpu'.pc \in Probing \cup {"start"} /\ cpu'.i = 0
  <2>1. /\ cpu' \in States /\ cpu'.pc \in Probing \cup {"start"} /\ cpu'.i = 0
        /\ cpu'.slot \in {cpu.slot, cpu.slot + 1}
        /\ cpu'.slot = 4 <=> cpu'.pc \notin Probing
    <3>1. CASE NextSlot
      BY <1>1, <1>2, <3>1, NextSlotEffect
    <3>2. ASSUME NEW there \in {"identify", "present", "probe", "signature", "ata", "atapi"},
                 Goto(there)
          PROVE  /\ cpu' \in States /\ cpu'.pc \in Probing /\ cpu'.i = 0
                 /\ cpu'.slot = cpu.slot /\ cpu.slot # 4
      BY <1>1, <1>2, <3>2, GotoEffect DEF PCs, Probing
    <3>. QED BY <1>4, <3>1, <3>2
  <2>2. Len(ide_devices) \in Nat /\ cpu.slot \in 0..4
    BY <1>1, DriverTypes DEF DriverType
  <2>. QED BY <1>1, <1>4, <2>1, <2>2 DEF DriverType, memory
<1>5. CASE Select
  BY <1>1, <1>2, <1>4, <1>5, SelectEffect, BeforeReading DEF Select, drives
<1>6. CASE Identify
  <2>1. "IDENTIFY" \in Busy
    BY DEF Busy
  <2>. QED BY <1>1, <1>2, <1>4, <1>6, <2>1, CommandEffect, BeforeReading DEF Identify
<1>7. CASE Present
  BY <1>1, <1>2, <1>4, <1>7, ReadStatusEffect, BeforeReading DEF Present
<1>8. CASE Probe
  BY <1>1, <1>2, <1>4, <1>8, ReadStatusEffect, BeforeReading DEF Probe
<1>9. CASE Signature
  <2>1. CASE attached[Probed] = IDE_ATAPI
    <3>1. "IDENTIFY_PACKET" \in Busy
      BY DEF Busy
    <3>. QED BY <1>1, <1>2, <1>4, <1>9, <2>1, <3>1, CommandEffect, BeforeReading DEF Signature
  <2>2. CASE attached[Probed] # IDE_ATAPI
    <3>1. HardwareType' /\ transfer' = transfer
      BY <1>1, <1>9, <2>2 DEF Signature, HardwareType, drives, wires, Exists
    <3>. QED BY <1>1, <1>4, <1>9, <2>2, <3>1, BeforeReading DEF Signature
  <2>. QED BY <2>1, <2>2
<1>10. CASE ReadIdentity
  <2>1. /\ cpu.pc \in {"ata", "atapi"} /\ Transfer(Probed, "data", "idle", transfer)
        /\ ide_buf' = IF dev[Probed].phase = "data" THEN <<Probed, Identity>>
                      ELSE <<Probed, Garbage>>
        /\ ide_devices' = Append(ide_devices, [type |-> cpu.pc, at |-> Probed, identity |-> ide_buf'])
        /\ NextSlot /\ UNCHANGED ide_irq_invoked
    BY <1>10 DEF ReadIdentity, At
  <2>2. HardwareType' /\ transfer' = transfer
    <3>1. transfer \in [lba : Int, left : Int] /\ "idle" \in Phases \ {"none"}
      BY <1>1 DEF HardwareType, Phases
    <3>. QED BY <1>1, <1>2, <2>1, <3>1, TransferEffect
  <2>3. ide_buf' \in Positions \X Int
    BY <1>2, <2>1 DEF Identity, Garbage
  <2>4. [type |-> cpu.pc, at |-> Probed, identity |-> ide_buf'] \in Entries
    BY <1>2, <2>1, <2>3 DEF Entries
  <2>5. ide_devices' \in Seq(Entries) /\ Len(ide_devices') = Len(ide_devices) + 1
        /\ Len(ide_devices) \in Nat
    BY <1>1, <2>1, <2>4 DEF DriverType
  <2>6. /\ cpu' \in States /\ cpu'.pc \in Probing \cup {"start"} /\ cpu'.i = 0
        /\ cpu'.slot = cpu.slot + 1 /\ cpu.slot \in 0..4
        /\ cpu'.slot = 4 <=> cpu'.pc \notin Probing
    BY <1>1, <1>2, <2>1, NextSlotEffect, DriverTypes
  <2>7. DriverType'
    BY <1>1, <2>1, <2>3, <2>5, <2>6 DEF DriverType
  <2>. QED BY <1>1, <2>2, <2>6, <2>7, BeforeReading
<1>. QED BY <1>5, <1>6, <1>7, <1>8, <1>9, <1>10

LEMMA CallStep ==
  ASSUME ReadInv, Call \/ NextSector
  PROVE  ReadInv'
<1>. DEFINE NewRequest == \E drive \in 0..3, lba \in Nat, n \in Nat \ {0}, left \in Nat :
                          cpu' = Request(drive, lba, n, left)
<1>1. UNCHANGED <<drives, wires, memory>> /\ cpu.pc = "returned" /\ NewRequest
  <2>1. CASE NextSector
    <3>1. /\ cpu.left > 0 /\ cpu' = Request(cpu.drive, cpu.lba + 1, 1, cpu.left - 1)
          /\ UNCHANGED <<drives, wires, memory>> /\ cpu.pc = "returned"
      BY <2>1 DEF NextSector, At
    <3>2. cpu.drive \in 0..3 /\ cpu.lba + 1 \in Nat /\ cpu.left - 1 \in Nat
      BY <3>1, DriverTypes DEF ReadInv
    <3>. QED BY <3>1, <3>2
  <2>2. ASSUME NEW drive \in 0..3, NEW n \in Counts, NEW lba \in LBA, read_sectors(drive, n, lba)
        PROVE  UNCHANGED <<drives, wires, memory>> /\ cpu.pc = "returned" /\ NewRequest
    <3>1. lba \in Nat /\ n - 1 \in Nat
      BY RequestAssumption
    <3>. QED BY <2>2, <3>1 DEF read_sectors, At
  <2>3. ASSUME NEW drive \in 0..3, NEW n \in Counts, NEW lba \in LBA, atapi_read(drive, n, lba)
        PROVE  UNCHANGED <<drives, wires, memory>> /\ cpu.pc = "returned" /\ NewRequest
    <3>1. lba \in Nat /\ n \in Nat \ {0}
      BY RequestAssumption
    <3>. QED BY <2>3, <3>1 DEF atapi_read, At
  <2>. HIDE DEF NewRequest
  <2>. QED BY <2>1, <2>2, <2>3 DEF Call
<1>2. cpu' \in States /\ cpu'.pc = "start" /\ cpu'.slot = 4 /\ cpu'.i = 0
  <2>1. PICK drive \in 0..3, lba \in Nat, n \in Nat \ {0}, left \in Nat :
           cpu' = Request(drive, lba, n, left)
    BY <1>1
  <2>. QED BY <2>1, RequestEffect
<1>3. cpu.slot = 4 /\ DriverType'
  BY <1>1, <1>2 DEF ReadInv, DriverType, memory, Probing
<1>4. HardwareType' /\ transfer'.left >= 0
  BY <1>1 DEF ReadInv, HardwareType, drives, wires, Exists
<1>. QED BY <1>2, <1>3, <1>4, BeforeReading

-----------------------------------------------------------------------------
(* The steps of atapi_read.                                                *)

LEMMA ReadTypes ==
  ASSUME ReadInv
  PROVE  /\ DriverType /\ HardwareType /\ transfer.left >= 0
         /\ Target \in Positions /\ Target[1] \in Channels /\ Target[2] \in 0..1
         /\ Target = <<Target[1], Target[2]>>
         /\ cpu.i \in Nat /\ cpu.n \in Nat \ {0} /\ cpu.lba \in Nat
         /\ transfer.lba \in Int /\ transfer.left \in Int
BY TargetType, PositionParts, DriverTypes DEF ReadInv, HardwareType

(* A step from one place of atapi_read to another, the call as it is.      *)
LEMMA MoveEffect ==
  ASSUME ReadInv, NEW there \in PCs \ Probing, cpu.pc \notin Probing, Goto(there),
         UNCHANGED ide_devices, ide_irq_invoked' \in BOOLEAN, ide_buf' \in Positions \X Int
  PROVE  /\ cpu'.pc = there /\ cpu'.i = cpu.i /\ cpu'.n = cpu.n /\ cpu'.lba = cpu.lba
         /\ Target' = Target /\ DriverType'
<1>1. DriverType
  BY DEF ReadInv
<1>2. /\ cpu' \in States /\ cpu'.pc = there
      /\ cpu'.slot = cpu.slot /\ cpu'.drive = cpu.drive /\ cpu'.lba = cpu.lba
      /\ cpu'.n = cpu.n /\ cpu'.i = cpu.i
  BY <1>1, GotoEffect
<1>3. DriverType'
  BY <1>1, <1>2 DEF DriverType
<1>. QED BY <1>2, <1>3, SameTarget

LEMMA PreparationStep ==
  ASSUME ReadInv, Start \/ Enable \/ Device \/ PacketCommand
  PROVE  ReadInv'
<1>1. /\ cpu.pc \notin Probing /\ {"enable", "device", "command", "delay"} \subseteq PCs \ Probing
      /\ cpu.i = 0
  BY DEF Start, Enable, Device, PacketCommand, At, Probing, PCs, Reading, Polling,
         ReadInv, Accepting
<1>2. ide_irq_invoked \in BOOLEAN /\ ide_buf \in Positions \X Int
  BY ReadTypes DEF DriverType
<1>3. CASE Start
  <2>1. HardwareType' /\ transfer'.left >= 0
    BY <1>3, ReadTypes DEF Start, HardwareType, drives, wires, Exists
  <2>2. DriverType' /\ cpu'.pc = "enable" /\ cpu'.i = 0
    BY <1>1, <1>2, <1>3, MoveEffect DEF Start
  <2>. QED BY <2>1, <2>2, BeforeReading
<1>4. CASE Enable
  <2>1. /\ nIEN' = [nIEN EXCEPT ![Target[1]] = FALSE] /\ Wired
        /\ UNCHANGED <<drives, selected, memory>> /\ Goto("device")
    BY <1>4 DEF Enable
  <2>2. HardwareType' /\ transfer'.left >= 0 /\ ~nIEN'[Target[1]]
    BY <2>1, ReadTypes DEF HardwareType, drives, Wired, Exists
  <2>3. DriverType' /\ cpu'.pc = "device" /\ cpu'.i = 0 /\ Target' = Target
    BY <1>1, <1>2, <2>1, MoveEffect DEF memory
  <2>. QED
    BY <2>2, <2>3
    DEF ReadInv, Wiring, Accepting, Delivering, Showing, Returned, Noticed, Reading, Polling
<1>5. CASE Device
  <2>1. SelectDrive(Target) /\ Goto("command") /\ UNCHANGED memory /\ cpu.pc = "device"
    BY <1>5 DEF Device, At
  <2>2. HardwareType' /\ UNCHANGED <<drives, nIEN>> /\ selected'[Target[1]] = Target[2]
    BY <2>1, ReadTypes, SelectEffect
  <2>3. DriverType' /\ cpu'.pc = "command" /\ cpu'.i = 0 /\ Target' = Target
    BY <1>1, <1>2, <2>1, MoveEffect DEF memory
  <2>4. ~nIEN[Target[1]] /\ transfer'.left >= 0
    BY <2>1, <2>2 DEF ReadInv, Wiring, drives
  <2>. QED
    BY <2>2, <2>3, <2>4
    DEF ReadInv, Wiring, Accepting, Delivering, Showing, Returned, Noticed, Reading, Polling
<1>6. CASE PacketCommand
  <2>1. Command(Target, "PACKET") /\ Goto("delay") /\ UNCHANGED memory /\ cpu.pc = "command"
    BY <1>6 DEF PacketCommand, At
  <2>2. /\ HardwareType' /\ UNCHANGED <<transfer, selected, nIEN>>
        /\ dev'[Target].phase \in {"PACKET", "none"}
    <3>1. "PACKET" \in Busy
      BY DEF Busy
    <3>. QED BY <2>1, <3>1, ReadTypes, CommandEffect
  <2>3. DriverType' /\ cpu'.pc = "delay" /\ cpu'.i = 0 /\ Target' = Target
    BY <1>1, <1>2, <2>1, MoveEffect DEF memory
  <2>4. selected[Target[1]] = Target[2] /\ ~nIEN[Target[1]] /\ transfer'.left >= 0
    BY <2>1, <2>2, ReadTypes DEF ReadInv, Wiring, Reading
  <2>. QED
    BY <2>2, <2>3, <2>4
    DEF ReadInv, Wiring, Accepting, Delivering, Showing, Returned, Noticed, Reading, Polling, Phase
<1>. QED BY <1>3, <1>4, <1>5, <1>6

LEMMA PollStep ==
  ASSUME ReadInv, PollDelay \/ PollBusy
  PROVE  ReadInv'
<1>1. /\ cpu.pc \notin Probing /\ {"poll", "check"} \subseteq PCs \ Probing
      /\ cpu.pc \in Polling /\ Polling \subseteq Reading
  BY DEF PollDelay, PollBusy, At, Probing, PCs, Reading, Polling
<1>2. ide_irq_invoked \in BOOLEAN /\ ide_buf \in Positions \X Int
  BY ReadTypes DEF DriverType
<1>3. CASE PollDelay
  <2>1. Settled(Target) /\ Goto("poll") /\ UNCHANGED <<drives, wires, memory>>
    BY <1>3 DEF PollDelay
  <2>2. HardwareType'
    BY <2>1, ReadTypes DEF HardwareType, drives, wires, Exists
  <2>3. /\ DriverType' /\ cpu'.pc = "poll" /\ cpu'.i = cpu.i /\ cpu'.n = cpu.n
        /\ cpu'.lba = cpu.lba /\ Target' = Target
    BY <1>1, <1>2, <2>1, MoveEffect DEF memory
  <2>. QED
    BY <1>1, <2>1, <2>2, <2>3
    DEF ReadInv, Wiring, Accepting, Delivering, Showing, Settled, Exists, Returned, Noticed,
        Reading, Polling, Phase, InStep, drives, wires, memory
<1>4. CASE PollBusy
  <2>1. /\ ReadStatus(Target) /\ UNCHANGED memory /\ cpu.pc = "poll"
        /\ Goto(IF "BSY" \in dev[Target].shown THEN "poll" ELSE "check")
    BY <1>4 DEF PollBusy, At
  <2>2. /\ HardwareType' /\ UNCHANGED <<attached, transfer, selected, nIEN>>
        /\ dev'[Target].phase = dev[Target].phase /\ dev'[Target].shown = dev[Target].shown
        /\ dev'[Target].pending = FALSE
    BY <2>1, ReadTypes, ReadStatusEffect
  <2>3. /\ DriverType' /\ cpu'.pc \in {"poll", "check"} /\ cpu'.i = cpu.i /\ cpu'.n = cpu.n
        /\ cpu'.lba = cpu.lba /\ Target' = Target
        /\ cpu'.pc = "check" => "BSY" \notin dev[Target].shown
    <3>1. CASE "BSY" \in dev[Target].shown
      BY <1>1, <1>2, <2>1, <3>1, MoveEffect DEF memory
    <3>2. CASE "BSY" \notin dev[Target].shown
      BY <1>1, <1>2, <2>1, <3>2, MoveEffect DEF memory
    <3>. QED BY <3>1, <3>2
  <2>4. Settled(Target)
    BY <2>1 DEF ReadInv, Showing
  <2>. QED
    BY <1>1, <2>1, <2>2, <2>3, <2>4
    DEF ReadInv, Wiring, Accepting, Delivering, Showing, Settled, Exists, Returned, Noticed,
        Reading, Polling, Phase, InStep, memory
<1>. QED BY <1>3, <1>4

LEMMA ReturnEffect ==
  ASSUME ReadInv, NEW err \in 0..3, cpu.pc \notin Probing, Return(err), UNCHANGED memory
  PROVE  /\ cpu'.pc = "returned" /\ cpu'.err = err
         /\ cpu'.i = cpu.i /\ cpu'.n = cpu.n /\ cpu'.lba = cpu.lba
         /\ Target' = Target /\ DriverType'
<1>1. DriverType /\ cpu \in States /\ "returned" \in PCs \ Probing
  BY DEF ReadInv, DriverType, PCs, Probing
<1>2. cpu' = [cpu EXCEPT !.pc = "returned", !.err = err]
  BY DEF Return
<1>3. /\ cpu' \in States /\ cpu'.pc = "returned" /\ cpu'.err = err
      /\ cpu'.slot = cpu.slot /\ cpu'.drive = cpu.drive /\ cpu'.lba = cpu.lba
      /\ cpu'.n = cpu.n /\ cpu'.i = cpu.i
  BY <1>1, <1>2 DEF States
<1>4. DriverType'
  BY <1>1, <1>3 DEF DriverType, memory
<1>. QED BY <1>3, <1>4, SameTarget DEF memory

LEMMA CheckStep ==
  ASSUME ReadInv, PollCheck
  PROVE  ReadInv'
<1>. DEFINE state == dev[Target].shown
<1>1. ReadStatus(Target) /\ UNCHANGED memory /\ cpu.pc = "check"
  BY DEF PollCheck, At
<1>2. /\ HardwareType' /\ UNCHANGED <<attached, transfer, selected, nIEN>>
      /\ dev'[Target].phase = dev[Target].phase /\ dev'[Target].shown = dev[Target].shown
      /\ dev'[Target].pending = FALSE
  BY <1>1, ReadTypes, ReadStatusEffect
<1>3. /\ cpu.pc \notin Probing /\ {"outsw", "insw"} \subseteq PCs \ Probing
      /\ cpu.pc \in Polling /\ cpu.pc \in Reading
  BY <1>1 DEF Probing, PCs, Reading, Polling
<1>4. \/ Phase = "none" /\ state = {}
      \/ Phase \in {"packet", "data"} /\ state = {"DRQ"}
      \/ Phase = "failed" /\ state = {"ERR"}
      \/ Phase = "faulted" /\ state = {"DF"}
      \/ Phase = "idle" /\ state = {}
  <2>1. Settled(Target) /\ "BSY" \notin state /\ Phase \in Phases
    BY <1>1, ReadTypes, DriveTypes DEF ReadInv, Showing, Phase
  <2>2. CASE Exists(Target)
    <3>1. state = Status(Phase)
      BY <2>1, <2>2 DEF Settled, Phase
    <3>2. Phase \notin Busy /\ Phase # "none"
      BY <2>1, <2>2, <3>1, StatusBits, ReadTypes DEF HardwareType, Phase
    <3>. QED BY <2>1, <3>1, <3>2, StatusBits DEF Phases
  <2>3. CASE ~Exists(Target)
    BY <2>1, <2>3, ReadTypes DEF HardwareType, Bits, Phase
  <2>. QED BY <2>2, <2>3
<1>5. /\ cpu.i = 0 => Phase \in {"PACKET", "packet", "failed", "none"}
      /\ cpu.i > 0 => cpu.i <= cpu.n /\ Phase \in Serving /\ InStep
      /\ cpu.i \in Nat /\ cpu.n \in Nat \ {0} /\ transfer.left \in Int
  BY <1>3, ReadTypes DEF ReadInv, Accepting, Delivering
<1>6. Wiring => selected'[Target[1]] = Target[2] /\ ~nIEN'[Target[1]]
  BY <1>2, <1>3 DEF Wiring
<1>7. ASSUME NEW err \in 1..3, Return(err), Phase \in {"none", "idle", "failed", "faulted"}
      PROVE  ReadInv'
  <2>1. /\ cpu'.pc = "returned" /\ cpu'.err = err /\ cpu'.i = cpu.i /\ cpu'.n = cpu.n
        /\ Target' = Target /\ DriverType'
    BY <1>1, <1>3, <1>7, ReturnEffect
  <2>2. Phase = "idle" => transfer.left # 0
    BY <1>5 DEF InStep
  <2>3. Returned' /\ transfer'.left >= 0
    BY <1>2, <1>5, <1>7, <2>1, <2>2, ReadTypes DEF Returned, Phase
  <2>. QED
    BY <1>2, <2>1, <2>3
    DEF ReadInv, Wiring, Accepting, Delivering, Showing, Noticed, Reading, Polling, Probing
<1>8. CASE state = {"DRQ"} /\ cpu.i = 0 /\ Goto("outsw")
  <2>1. /\ cpu'.pc = "outsw" /\ cpu'.i = 0 /\ cpu'.n = cpu.n /\ Target' = Target /\ DriverType'
    BY <1>1, <1>3, <1>8, MoveEffect, ReadTypes DEF memory, DriverType
  <2>2. Phase' = "packet" /\ transfer'.left >= 0
    BY <1>2, <1>4, <1>5, <1>8, <2>1, ReadTypes DEF Phase
  <2>3. Settled(Target)'
    BY <1>1, <1>2, <2>1 DEF ReadInv, Showing, Settled, Exists
  <2>. QED
    BY <1>2, <1>6, <2>1, <2>2, <2>3
    DEF ReadInv, Wiring, Accepting, Delivering, Showing, Returned, Noticed, Reading, Polling, Probing
<1>9. CASE state = {"DRQ"} /\ cpu.i > 0 /\ Goto("insw")
  <2>1. /\ cpu'.pc = "insw" /\ cpu'.i = cpu.i /\ cpu'.n = cpu.n /\ cpu'.lba = cpu.lba
        /\ Target' = Target /\ DriverType'
    BY <1>1, <1>3, <1>9, MoveEffect, ReadTypes DEF memory, DriverType
  <2>2. Phase' = "data" /\ transfer'.left >= 0 /\ InStep' /\ cpu'.i \in 1..cpu'.n
    BY <1>2, <1>4, <1>5, <1>9, <2>1, ReadTypes DEF Phase, Serving, InStep
  <2>3. Settled(Target)'
    BY <1>1, <1>2, <2>1 DEF ReadInv, Showing, Settled, Exists
  <2>4. cpu'.i > 1 => ide_buf' = <<Target', cpu'.lba + cpu'.i - 2>>
    BY <1>1, <1>3, <2>1 DEF ReadInv, Delivering, memory
  <2>. QED
    BY <1>2, <1>6, <2>1, <2>2, <2>3, <2>4
    DEF ReadInv, Wiring, Accepting, Delivering, Showing, Returned, Noticed, Reading, Polling, Probing
<1>10. \/ "ERR" \in state /\ Return(2)
       \/ "ERR" \notin state /\ "DF" \in state /\ Return(1)
       \/ {"ERR", "DF", "DRQ"} \cap state = {} /\ Return(3)
       \/ state = {"DRQ"} /\ cpu.i = 0 /\ Goto("outsw")
       \/ state = {"DRQ"} /\ cpu.i > 0 /\ Goto("insw")
  BY <1>4 DEF PollCheck
<1>11. "DRQ" \notin state => Phase \in {"none", "idle", "failed", "faulted"}
  BY <1>4
<1>12. /\ "ERR" \in state => "DRQ" \notin state
       /\ "DF" \in state => "DRQ" \notin state
       /\ {"ERR", "DF", "DRQ"} \cap state = {} => "DRQ" \notin state
  BY <1>4
<1>. QED BY <1>7, <1>8, <1>9, <1>10, <1>11, <1>12

LEMMA SendStep ==
  ASSUME ReadInv, SendPacket
  PROVE  ReadInv'
<1>1. /\ Transfer(Target, "packet", "READ", [lba |-> cpu.lba, left |-> cpu.n])
      /\ cpu' = [cpu EXCEPT !.pc = "wait", !.i = 1]
      /\ UNCHANGED memory /\ cpu.pc = "outsw"
  BY DEF SendPacket, At
<1>2. Phase = "packet" /\ Settled(Target) /\ selected[Target[1]] = Target[2] /\ ~nIEN[Target[1]]
  BY <1>1 DEF ReadInv, Accepting, Showing, Wiring, Reading
<1>3. /\ HardwareType' /\ UNCHANGED <<attached, wires>>
      /\ dev'[Target].phase = "READ" /\ transfer' = [lba |-> cpu.lba, left |-> cpu.n]
      /\ dev'[Target].shown = dev[Target].shown /\ dev'[Target].pending = dev[Target].pending
  <2>1. "READ" \in Phases \ {"none"} /\ [lba |-> cpu.lba, left |-> cpu.n] \in [lba : Int, left : Int]
    BY ReadTypes DEF Phases, Busy
  <2>. QED BY <1>1, <1>2, <2>1, ReadTypes, TransferEffect DEF Phase
<1>4. /\ cpu' \in States /\ cpu'.pc = "wait" /\ cpu'.i = 1 /\ cpu'.slot = cpu.slot
      /\ cpu'.n = cpu.n /\ cpu'.lba = cpu.lba /\ cpu'.drive = cpu.drive
  BY <1>1, ReadTypes DEF DriverType, States, PCs, Reading
<1>5. DriverType' /\ Target' = Target
  <2>1. "outsw" \notin Probing /\ "wait" \notin Probing
    BY DEF Probing
  <2>. QED BY <1>1, <1>4, <2>1, ReadTypes, SameTarget DEF DriverType, memory
<1>6. dev'[Target].shown = {"DRQ"}
  BY <1>2, <1>3, StatusBits, ReadTypes DEF Settled, HardwareType, Phase
<1>7. Delivering' /\ transfer'.left >= 0
  BY <1>3, <1>4, <1>5, ReadTypes DEF Delivering, Phase, InStep, Serving, Polling
<1>8. ide_irq_invoked' = ide_irq_invoked /\ latched' = latched
      /\ selected' = selected /\ nIEN' = nIEN
  BY <1>1, <1>3 DEF memory, wires
<1>9. Wiring'
  BY <1>2, <1>4, <1>5, <1>8 DEF Wiring
<1>10. Accepting' /\ Showing' /\ Returned'
  BY <1>3, <1>4, <1>5, <1>6 DEF Accepting, Showing, Returned, Reading, Polling, Probing
<1>11. Noticed'
  <2>1. dev[Target].pending => ide_irq_invoked \/ latched[Target[1]]
    BY <1>1 DEF ReadInv, Noticed
  <2>2. Phase' \in Busy
    BY <1>3, <1>5 DEF Phase, Busy
  <2>. QED BY <1>3, <1>5, <1>8, <2>1, <2>2 DEF Noticed
<1>. QED
  BY <1>3, <1>5, <1>7, <1>9, <1>10, <1>11 DEF ReadInv

LEMMA WaitStep ==
  ASSUME ReadInv, Wait \/ Clear
  PROVE  ReadInv'
<1>1. /\ cpu.pc \in {"wait", "clear"} /\ cpu.pc \notin Probing
      /\ {"clear", "delay", "finish"} \subseteq PCs \ Probing
      /\ ide_irq_invoked' \in BOOLEAN /\ ide_buf' = ide_buf /\ ide_devices' = ide_devices
      /\ UNCHANGED <<drives, wires>>
  BY ReadTypes DEF Wait, Clear, At, Probing, PCs, Reading, Polling, memory, DriverType
<1>2. HardwareType' /\ transfer'.left >= 0 /\ ide_buf' \in Positions \X Int
  BY <1>1, ReadTypes DEF HardwareType, DriverType, drives, wires, Exists
<1>3. /\ cpu.i \in 1 .. cpu.n + 1 /\ InStep
      /\ Phase \in IF cpu.i <= cpu.n THEN Serving ELSE {"READ", "idle"}
  BY <1>1 DEF ReadInv, Delivering
<1>4. selected[Target[1]] = Target[2] /\ ~nIEN[Target[1]]
  BY <1>1 DEF ReadInv, Wiring, Reading
<1>5. cpu.i > 1 => ide_buf = <<Target, cpu.lba + cpu.i - 2>>
  BY <1>1 DEF ReadInv, Delivering, Reading
<1>6. ASSUME NEW there \in {"clear", "delay", "finish"}, Goto(there),
             there = "delay" => cpu.i <= cpu.n, there = "finish" => ~(cpu.i <= cpu.n)
      PROVE  ReadInv'
  <2>1. /\ DriverType' /\ cpu'.pc = there /\ cpu'.i = cpu.i /\ cpu'.n = cpu.n
        /\ cpu'.lba = cpu.lba /\ Target' = Target
    BY <1>1, <1>2, <1>6, MoveEffect
  <2>2. /\ Phase' = Phase /\ InStep' /\ dev' = dev /\ attached' = attached
        /\ selected' = selected /\ nIEN' = nIEN
    BY <1>1, <1>3, <2>1 DEF Phase, InStep, drives, wires
  <2>3. Wiring' /\ Accepting' /\ Returned' /\ Noticed'
    BY <1>3, <1>4, <1>6, <2>1, <2>2, ReadTypes
    DEF Wiring, Accepting, Returned, Noticed, Reading, Polling, Probing
  <2>4. Delivering'
    <3>1. there = "finish" => cpu.i = cpu.n + 1
      BY <1>3, <1>6, ReadTypes
    <3>. QED BY <1>1, <1>3, <1>5, <1>6, <2>1, <2>2, <3>1 DEF Delivering, Polling, Reading
  <2>5. Showing'
    <3>1. Phase = "READ" => dev[Target].shown \in {{"BSY"}, {"DRQ"}}
      BY <1>1 DEF ReadInv, Showing
    <3>. QED BY <1>6, <2>1, <2>2, <3>1 DEF Showing
  <2>. QED BY <1>2, <2>1, <2>3, <2>4, <2>5 DEF ReadInv
<1>7. \E there \in {"clear", "delay", "finish"} :
        /\ Goto(there)
        /\ there = "delay" => cpu.i <= cpu.n
        /\ there = "finish" => ~(cpu.i <= cpu.n)
  <2>1. Wait => Goto("clear")
    BY DEF Wait
  <2>2. Clear => Goto(IF cpu.i <= cpu.n THEN "delay" ELSE "finish")
    BY DEF Clear
  <2>. QED BY <2>1, <2>2
<1>. QED BY <1>6, <1>7

LEMMA BlockStep ==
  ASSUME ReadInv, ReadBlock
  PROVE  ReadInv'
<1>. DEFINE rest == [lba |-> transfer.lba + 1, left |-> transfer.left - 1]
<1>1. /\ Transfer(Target, "data", "READ", rest)
      /\ cpu' = [cpu EXCEPT !.pc = "wait", !.i = cpu.i + 1]
      /\ ide_irq_invoked' = ide_irq_invoked /\ ide_devices' = ide_devices
      /\ cpu.pc = "insw"
  BY DEF ReadBlock, At
<1>2. /\ cpu.i \in 1..cpu.n /\ Phase = "data" /\ InStep /\ Settled(Target)
      /\ selected[Target[1]] = Target[2] /\ ~nIEN[Target[1]]
  BY <1>1 DEF ReadInv, Delivering, Showing, Wiring, Reading
<1>3. /\ HardwareType' /\ UNCHANGED <<attached, wires>>
      /\ dev'[Target].phase = "READ" /\ transfer' = rest
      /\ dev'[Target].shown = dev[Target].shown /\ dev'[Target].pending = dev[Target].pending
  <2>1. "READ" \in Phases \ {"none"} /\ rest \in [lba : Int, left : Int]
    BY ReadTypes DEF Phases, Busy
  <2>. HIDE DEF rest
  <2>. QED BY <1>1, <1>2, <2>1, ReadTypes, TransferEffect DEF Phase
<1>4. transfer'.lba = transfer.lba + 1 /\ transfer'.left = transfer.left - 1
  BY <1>3
<1>5. /\ cpu' \in States /\ cpu'.pc = "wait" /\ cpu'.i = cpu.i + 1 /\ cpu'.slot = cpu.slot
      /\ cpu'.n = cpu.n /\ cpu'.lba = cpu.lba /\ cpu'.drive = cpu.drive
  <2>1. cpu \in States /\ "wait" \in PCs /\ cpu.i + 1 \in Nat
    BY ReadTypes DEF DriverType, PCs, Reading
  <2>2. cpu' = [cpu EXCEPT !.pc = "wait", !.i = cpu.i + 1]
    BY <1>1
  <2>. QED BY <2>1, <2>2 DEF States
<1>6. ide_buf' = <<Target, cpu.lba + cpu.i - 1>>
  <2>1. ide_buf' = <<Target, transfer.lba>>
    BY <1>2 DEF ReadBlock, Phase
  <2>. QED BY <1>2, <2>1 DEF InStep
<1>7. DriverType' /\ Target' = Target
  <2>1. "insw" \notin Probing /\ "wait" \notin Probing /\ ide_buf' \in Positions \X Int
    BY <1>6, ReadTypes DEF Probing
  <2>. QED BY <1>1, <1>5, <2>1, ReadTypes, SameTarget DEF DriverType
<1>8. dev'[Target].shown = {"DRQ"}
  BY <1>2, <1>3, StatusBits, ReadTypes DEF Settled, HardwareType, Phase
<1>9. InStep' /\ transfer'.left >= 0 /\ cpu'.i \in 1 .. cpu'.n + 1
  BY <1>2, <1>4, <1>5, ReadTypes DEF InStep
<1>10. Delivering'
  <2>1. ide_buf' = <<Target', cpu'.lba + cpu'.i - 2>>
    BY <1>5, <1>6, <1>7, ReadTypes
  <2>2. Phase' = "READ"
    BY <1>3, <1>7 DEF Phase
  <2>. QED BY <1>5, <1>9, <2>1, <2>2 DEF Delivering, Serving, Polling
<1>11. /\ ide_irq_invoked' = ide_irq_invoked /\ latched' = latched
       /\ selected' = selected /\ nIEN' = nIEN
  BY <1>1, <1>3 DEF wires
<1>12. Wiring'
  BY <1>2, <1>5, <1>7, <1>11 DEF Wiring
<1>13. Accepting' /\ Showing' /\ Returned'
  BY <1>5, <1>7, <1>8 DEF Accepting, Showing, Returned, Polling, Probing
<1>14. Noticed'
  <2>1. dev[Target].pending => ide_irq_invoked \/ latched[Target[1]]
    BY <1>1 DEF ReadInv, Noticed
  <2>2. Phase' \in Busy
    BY <1>3, <1>7 DEF Phase, Busy
  <2>. QED BY <1>3, <1>5, <1>7, <1>11, <2>1, <2>2 DEF Noticed
<1>. QED BY <1>3, <1>7, <1>9, <1>10, <1>12, <1>13, <1>14 DEF ReadInv

LEMMA FinishStep ==
  ASSUME ReadInv, Finish
  PROVE  ReadInv'
<1>1. ReadStatus(Target) /\ UNCHANGED memory /\ cpu.pc = "finish"
  BY DEF Finish, At
<1>2. /\ HardwareType' /\ UNCHANGED <<attached, transfer, selected, nIEN>>
      /\ dev'[Target].phase = dev[Target].phase /\ dev'[Target].shown = dev[Target].shown
  BY <1>1, ReadTypes, ReadStatusEffect
<1>3. /\ cpu.i = cpu.n + 1 /\ InStep /\ Phase \in {"READ", "idle"}
      /\ cpu.i > 1 => ide_buf = <<Target, cpu.lba + cpu.i - 2>>
      /\ Phase = "READ" => dev[Target].shown \in {{"BSY"}, {"DRQ"}}
      /\ selected[Target[1]] = Target[2] /\ ~nIEN[Target[1]]
  BY <1>1 DEF ReadInv, Delivering, Showing, Wiring, Reading
<1>4. cpu.pc \notin Probing /\ "finish" \in PCs \ Probing
  BY <1>1 DEF Probing, PCs, Reading
<1>5. CASE dev[Target].shown \cap {"BSY", "DRQ"} # {}
  <2>1. Goto("finish")
    BY <1>5 DEF Finish
  <2>2. /\ DriverType' /\ cpu'.pc = "finish" /\ cpu'.i = cpu.i /\ cpu'.n = cpu.n
        /\ cpu'.lba = cpu.lba /\ Target' = Target
    BY <1>1, <1>4, <2>1, ReadTypes, MoveEffect DEF DriverType, memory
  <2>3. Phase' = Phase /\ InStep' /\ ide_buf' = ide_buf /\ transfer'.left >= 0
    BY <1>1, <1>2, <1>3, <2>2, ReadTypes DEF Phase, InStep, memory
  <2>. QED
    BY <1>2, <1>3, <2>2, <2>3
    DEF ReadInv, Wiring, Accepting, Delivering, Showing, Returned, Noticed, Reading, Polling, Probing
<1>6. CASE dev[Target].shown \cap {"BSY", "DRQ"} = {}
  <2>1. Return(0)
    BY <1>6 DEF Finish
  <2>2. /\ DriverType' /\ cpu'.pc = "returned" /\ cpu'.err = 0 /\ cpu'.i = cpu.i
        /\ cpu'.n = cpu.n /\ cpu'.lba = cpu.lba /\ Target' = Target
    BY <1>1, <1>4, <2>1, ReturnEffect
  <2>3. Phase' = "idle"
    BY <1>2, <1>3, <1>6, <2>2 DEF Phase
  <2>4. transfer'.left = 0 /\ cpu.n + 1 > 1
    BY <1>2, <1>3, ReadTypes DEF InStep
  <2>5. ide_buf' = <<Target', cpu'.lba + cpu'.n - 1>>
    BY <1>1, <1>3, <2>2, <2>4, ReadTypes DEF memory
  <2>6. Returned'
    BY <1>3, <2>2, <2>3, <2>4, <2>5, ReadTypes DEF Returned
  <2>. QED
    BY <1>2, <2>2, <2>4, <2>6
    DEF ReadInv, Wiring, Accepting, Delivering, Showing, Noticed, Reading, Polling, Probing
<1>. QED BY <1>5, <1>6

-----------------------------------------------------------------------------
LEMMA ReadNext == ReadInv /\ [Next]_vars => ReadInv'
<1>. SUFFICES ASSUME ReadInv, [Next]_vars PROVE ReadInv'
  OBVIOUS
<1>1. CASE Driver
  BY <1>1, ProbeStep, PreparationStep, PollStep, CheckStep, SendStep, WaitStep, BlockStep,
     FinishStep, CallStep DEF Driver
<1>2. CASE Call
  BY <1>2, CallStep
<1>3. ASSUME NEW q \in Positions, Settle(q) \/ Answer(q) \/ Interrupt(q) PROVE ReadInv'
  BY <1>3, SettleStep, AnswerStep, InterruptStep
<1>4. ASSUME NEW c \in Channels, ide_irq(c) PROVE ReadInv'
  BY <1>4, HandlerStep
<1>5. CASE UNCHANGED vars
  <2>1. (DriverType /\ HardwareType /\ transfer.left >= 0)'
    BY <1>5 DEF vars, wires, memory, ReadInv, DriverType, HardwareType, Exists
  <2>2. Target' = Target /\ Phase' = Phase
    BY <1>5 DEF vars, wires, memory, Target, DriveAt, Phase
  <2>3. (Wiring /\ Returned)'
    BY <1>5, <2>2 DEF vars, wires, memory, ReadInv, Wiring, Returned, Exists
  <2>4. (Accepting /\ Delivering)'
    BY <1>5, <2>2 DEF vars, wires, memory, ReadInv, Accepting, Delivering, InStep
  <2>5. (Showing /\ Noticed)'
    BY <1>5, <2>2 DEF vars, wires, memory, ReadInv, Showing, Settled, Exists, Noticed
  <2>. QED BY <2>1, <2>3, <2>4, <2>5 DEF ReadInv
<1>. QED BY <1>1, <1>2, <1>3, <1>4, <1>5 DEF Next

LEMMA ReadSafe == Spec => []ReadInv
BY ReadInit, ReadNext, PTL DEF Spec

(* No value takes the model outside its types.                             *)
THEOREM AtapiTypes == Spec => []TypeOK
<1>1. ReadInv => TypeOK
  <2>. SUFFICES ASSUME ReadInv PROVE TypeOK
    OBVIOUS
  <2>1. HardwareType /\ DriverType /\ transfer.left >= 0
    BY DEF ReadInv
  <2>2. \A p \in Positions :
          /\ dev[p].phase \in Phases
          /\ dev[p].phase = "none" <=> ~Exists(p)
          /\ dev[p].due \in BOOLEAN /\ dev[p].pending \in BOOLEAN
    BY <2>1, DriveTypes DEF HardwareType
  <2>3. cpu.i \in 0 .. cpu.n + 1
    <3>1. cpu.pc \in Probing \cup {"start", "enable", "device"} \cup Reading \cup {"returned"}
      BY <2>1, DriverTypes DEF PCs
    <3>2. cpu.i <= cpu.n + 1
      BY <3>1, <2>1, DriverTypes DEF ReadInv, Accepting, Delivering, Returned, Reading, Polling
    <3>. QED BY <2>1, <3>2, DriverTypes
  <2>4. transfer.left \in Nat
    BY <2>1 DEF HardwareType
  <2>. QED BY <2>1, <2>2, <2>3, <2>4 DEF TypeOK, HardwareType, DriverType
<1>. QED BY <1>1, ReadSafe, PTL

(* Packets and sectors are moved only in the phase for them, and the drive *)
(* is then at the sector the driver's loop is at.                          *)
THEOREM WordsMovedInPhase == Spec => []WordsInPhase
<1>1. ReadInv => WordsInPhase
  BY DEF ReadInv, WordsInPhase, At, Accepting, Delivering, Phase, InStep
<1>. QED BY <1>1, ReadSafe, PTL

(* atapi_read returns 0 exactly for a read the drive completed, and leaves *)
(* the last sector in ide_buf then.                                        *)
THEOREM OutcomeTold == Spec => []ReadOutcome
<1>1. ReadInv => ReadOutcome
  BY DEF ReadInv, ReadOutcome, At, Returned, Phase
<1>. QED BY <1>1, ReadSafe, PTL

(* ide_wait_irq never waits for an interrupt that has come already and     *)
(* will not come again.                                                    *)
THEOREM NoInterruptLost == Spec => []InterruptComes
<1>1. ReadInv => InterruptComes
  BY DEF ReadInv, InterruptComes, At, Noticed, Phase
<1>. QED BY <1>1, ReadSafe, PTL

-----------------------------------------------------------------------------
(* The drives that ide_initialize finds.                                   *)

Number(p) == 2 * p[1] + p[2]

(* A drive that has answered IDENTIFY.                                     *)
Answered(p) ==
  /\ dev[p].phase = IF attached[p] = IDE_ATA THEN "data" ELSE "failed"
  /\ dev[p].shown = Status(dev[p].phase)

(* The drives that have not been given a command.                          *)
Untouched ==
  \A p \in Positions :
    Number(p) > cpu.slot \/ (Number(p) = cpu.slot /\ cpu.pc \in {"select", "identify"})
      => (Exists(p) => dev[p].phase = "idle" /\ dev[p].shown = {})

(* The drive being probed, at each place of the probe.                     *)
Identifying(p) ==
  /\ cpu.pc = "present" /\ Exists(p) => dev[p].phase = "IDENTIFY" \/ Answered(p)
  /\ cpu.pc = "probe" => IF Exists(p) THEN Answered(p) ELSE dev[p].shown = Bits
  /\ cpu.pc = "signature" /\ Exists(p) => attached[p] = IDE_ATAPI
  /\ cpu.pc = "ata" => attached[p] = IDE_ATA /\ dev[p].phase = "data"
  /\ cpu.pc = "atapi" => attached[p] = IDE_ATAPI /\ dev[p].phase \in {"IDENTIFY_PACKET", "data"}

FoundInv ==
  /\ DrivesFound
  /\ cpu.pc \in Probing => Untouched /\ Identifying(Probed)

LEMMA Numbers ==
  /\ \A p \in Positions : Number(p) \in 0..3
  /\ \A k \in 0..3 : /\ Slot(k) \in Positions /\ Number(Slot(k)) = k
                     /\ \A p \in Positions : Number(p) = k => p = Slot(k)
<1>1. ASSUME NEW p \in Positions PROVE Number(p) \in 0..3 /\ p = Slot(Number(p))
  <2>. PICK c, j : c = p[1] /\ j = p[2]
    OBVIOUS
  <2>1. c \in {0, 1} /\ j \in {0, 1} /\ p = <<c, j>>
    BY PositionParts DEF Channels
  <2>2. Number(p) = 2 * c + j
    BY DEF Number
  <2>3. ASSUME NEW d \in {0, 1}, NEW i \in {0, 1}
        PROVE  ((2 * d + i) \div 2 = d) /\ ((2 * d + i) % 2 = i) /\ ((2 * d + i) \in 0..3)
    <3>1. CASE d = 0 /\ i = 0
      BY <3>1
    <3>2. CASE d = 0 /\ i = 1
      BY <3>2
    <3>3. CASE d = 1 /\ i = 0
      BY <3>3
    <3>4. CASE d = 1 /\ i = 1
      BY <3>4
    <3>. QED BY <3>1, <3>2, <3>3, <3>4
  <2>. QED BY <2>1, <2>2, <2>3 DEF Slot
<1>2. ASSUME NEW k \in 0..3 PROVE Slot(k) \in Positions /\ Number(Slot(k)) = k
  <2>1. k \div 2 \in 0..1 /\ k % 2 \in 0..1 /\ 2 * (k \div 2) + (k % 2) = k
    <3>1. k = 0 \/ k = 1 \/ k = 2 \/ k = 3
      OBVIOUS
    <3>2. CASE k = 0
      BY <3>2
    <3>3. CASE k = 1
      BY <3>3
    <3>4. CASE k = 2
      BY <3>4
    <3>5. CASE k = 3
      BY <3>5
    <3>. QED BY <3>1, <3>2, <3>3, <3>4, <3>5
  <2>. QED BY <2>1 DEF Slot, Positions, Channels, Number
<1>. QED BY <1>1, <1>2

LEMMA FewPositions == \A k : IsFiniteSet(Before(k)) /\ Cardinality(Before(k)) \in Nat
<1>1. IsFiniteSet(Positions)
  <2>1. IsFiniteSet(0..1)
    <3>1. 0 \in Int /\ 1 \in Int
      OBVIOUS
    <3>. QED BY <3>1, FS_Interval, Zenon
  <2>2. IsFiniteSet((0..1) \X (0..1))
    BY <2>1, FS_Product, Zenon
  <2>. QED BY <2>2 DEF Positions, Channels
<1>2. \A k : Before(k) \subseteq Positions
  BY DEF Before
<1>. QED BY <1>1, <1>2, FS_Subset, FS_CardinalityType

(* The table has an entry more if there is a drive in the slot.            *)
LEMMA NextFound ==
  ASSUME ReadInv, FoundInv, cpu.pc \in Probing, NextSlot, attached' = attached,
         \A p \in Positions : Number(p) > cpu.slot =>
           dev'[p].phase = dev[p].phase /\ dev'[p].shown = dev[p].shown,
         ide_devices' = IF Exists(Probed)
                        THEN Append(ide_devices, [type |-> attached[Probed], at |-> Probed,
                                                  identity |-> <<Probed, Identity>>])
                        ELSE ide_devices
  PROVE  FoundInv'
<1>. PICK k, q : k = cpu.slot /\ q = Probed
  OBVIOUS
<1>0. DriverType /\ DrivesFound /\ Untouched
  BY DEF ReadInv, FoundInv
<1>1. /\ k \in 0..3 /\ q = Slot(k) /\ q \in Positions /\ Number(q) = k
      /\ \A p \in Positions : Number(p) \in 0..3 /\ (Number(p) = k => p = q)
  <2>1. k \in 0..3 /\ q = Slot(k)
    BY <1>0, DriverTypes DEF DriverType, Probed
  <2>. QED BY <2>1, Numbers
<1>2. cpu'.slot = k + 1 /\ cpu'.pc \in {"select", "start"}
  <2>1. CASE k < 3
    <3>1. cpu' = [cpu EXCEPT !.pc = "select", !.slot = k + 1]
      BY <1>1, <2>1 DEF NextSlot
    <3>. QED BY <1>0, <3>1 DEF DriverType, States
  <2>2. CASE k = 3
    BY <1>1, <2>2 DEF NextSlot, Request
  <2>. QED BY <1>1, <2>1, <2>2
<1>3. ASSUME cpu'.pc \in Probing PROVE Untouched' /\ Identifying(Probed)'
  <2>1. cpu'.pc = "select"
    BY <1>2, <1>3 DEF Probing
  <2>2. Untouched'
    <3>. SUFFICES ASSUME NEW p \in Positions, Number(p) >= k + 1, Exists(p)
                  PROVE  dev'[p].phase = "idle" /\ dev'[p].shown = {}
      BY <1>1, <1>2 DEF Untouched, Exists, Number
    <3>1. Number(p) > k
      BY <1>1
    <3>. QED BY <1>0, <3>1 DEF Untouched
  <2>3. Identifying(Probed)'
    BY <2>1 DEF Identifying
  <2>. QED BY <2>2, <2>3
<1>4. \A j : Before(j)' = Before(j)
  BY DEF Before, Exists
<1>5. /\ ide_devices \in Seq(Entries) /\ Len(ide_devices) = Cardinality(Before(k))
      /\ \A j \in 1..Len(ide_devices) :
           /\ ide_devices[j].type = attached[ide_devices[j].at]
           /\ ide_devices[j].identity = <<ide_devices[j].at, Identity>>
           /\ Cardinality(Before(2 * ide_devices[j].at[1] + ide_devices[j].at[2])) = j - 1
  BY <1>0 DEF DriverType, DrivesFound
<1>6. \A j : IsFiniteSet(Before(j)) /\ Cardinality(Before(j)) \in Nat
  BY FewPositions
<1>7. /\ Before(k + 1) = IF Exists(q) THEN Before(k) \cup {q} ELSE Before(k)
      /\ q \notin Before(k)
  <2>1. \A p \in Positions : 2 * p[1] + p[2] = Number(p)
    BY DEF Number
  <2>2. \A p \in Positions : Number(p) < k + 1 <=> Number(p) < k \/ p = q
    BY <1>1
  <2>3. \A j, p : p \in Before(j) <=> p \in Positions /\ Exists(p) /\ Number(p) < j
    BY DEF Before, Number
  <2>4. q \notin Before(k)
    BY <1>1, <2>3
  <2>5. \A p : p \in Before(k + 1) <=> p \in Before(k) \/ (p = q /\ Exists(q))
    BY <1>1, <2>2, <2>3
  <2>. QED BY <2>4, <2>5
<1>8. DrivesFound'
  <2>1. CASE ~Exists(q)
    <3>1. ide_devices' = ide_devices /\ Before(k + 1) = Before(k)
      BY <1>7, <2>1
    <3>. QED BY <1>2, <1>4, <1>5, <3>1 DEF DrivesFound
  <2>2. CASE Exists(q)
    <3>. PICK entry : entry = [type |-> attached[q], at |-> q, identity |-> <<q, Identity>>]
      OBVIOUS
    <3>1. ide_devices' = Append(ide_devices, entry)
      BY <2>2
    <3>2. Cardinality(Before(k + 1)) = Cardinality(Before(k)) + 1
      BY <1>6, <1>7, <2>2, FS_AddElement
    <3>3. /\ Len(ide_devices') = Len(ide_devices) + 1 /\ Len(ide_devices) \in Nat
          /\ \A j \in 1..Len(ide_devices) : ide_devices'[j] = ide_devices[j]
          /\ ide_devices'[Len(ide_devices) + 1] = entry
      BY <1>5, <3>1
    <3>4. /\ entry.type = attached[entry.at] /\ entry.identity = <<entry.at, Identity>>
          /\ 2 * entry.at[1] + entry.at[2] = k
      BY <1>1 DEF Number
    <3>5. ASSUME NEW j \in 1..Len(ide_devices')
          PROVE  /\ ide_devices'[j].type = attached[ide_devices'[j].at]
                 /\ ide_devices'[j].identity = <<ide_devices'[j].at, Identity>>
                 /\ Cardinality(Before(2 * ide_devices'[j].at[1] + ide_devices'[j].at[2])) = j - 1
      <4>1. CASE j \in 1..Len(ide_devices)
        BY <1>5, <3>3, <4>1
      <4>2. CASE j = Len(ide_devices) + 1
        <5>1. ide_devices'[j] = entry /\ j - 1 = Cardinality(Before(k))
          BY <1>5, <1>6, <3>3, <4>2
        <5>. QED BY <3>4, <5>1
      <4>. QED BY <3>3, <4>1, <4>2
    <3>. QED BY <1>2, <1>4, <1>5, <3>2, <3>3, <3>5 DEF DrivesFound
  <2>. QED BY <2>1, <2>2
<1>. QED BY <1>3, <1>8 DEF FoundInv

(* What the drives do by themselves.                                       *)
Moved(p) ==
  \/ dev'[p].phase = dev[p].phase /\ dev'[p].shown = dev[p].shown
  \/ /\ Exists(p) /\ dev'[p].phase = dev[p].phase
     /\ dev'[p].shown = Status(dev[p].phase)
  \/ /\ dev[p].phase \in Busy /\ dev'[p].phase \in Answers(p)
     /\ dev'[p].shown = Status(dev'[p].phase)

LEMMA MovedFound ==
  ASSUME ReadInv, FoundInv, UNCHANGED <<attached, ide_devices, cpu>>,
         \A p \in Positions : Moved(p)
  PROVE  FoundInv'
<1>1. DrivesFound'
  BY DEF FoundInv, DrivesFound, Before, Exists
<1>. SUFFICES ASSUME cpu.pc \in Probing PROVE Untouched' /\ Identifying(Probed)'
  BY <1>1 DEF FoundInv
<1>2. /\ DriverType /\ HardwareType /\ Untouched /\ Identifying(Probed)
      /\ Probed \in Positions /\ Probed' = Probed
  <2>1. DriverType /\ HardwareType
    BY DEF ReadInv
  <2>. QED BY <2>1, ProbedType DEF DriverType, FoundInv, Probed, Slot
<1>3. \A p \in Positions : Exists(p)' <=> Exists(p)
  BY DEF Exists
<1>4. "idle" \notin Busy /\ "data" \notin Busy /\ "failed" \notin Busy /\ "none" \notin Busy
  BY DEF Busy
<1>5. Untouched'
  <2>. SUFFICES ASSUME NEW p \in Positions, Exists(p), dev[p].phase = "idle", dev[p].shown = {}
                PROVE  dev'[p].phase = "idle" /\ dev'[p].shown = {}
    BY <1>2, <1>3 DEF Untouched, Exists
  <2>. QED BY <1>4, StatusBits DEF Moved
<1>. PICK q : q = Probed
  OBVIOUS
<1>6. Moved(q) /\ (~Exists(q) => dev[q].phase = "none")
  BY <1>2 DEF HardwareType
<1>7. ASSUME Answered(q) PROVE Answered(q)'
  <2>1. dev[q].phase \notin Busy /\ dev[q].shown = Status(dev[q].phase)
    BY <1>4, <1>7 DEF Answered
  <2>2. dev'[q].phase = dev[q].phase /\ dev'[q].shown = dev[q].shown
    BY <1>6, <2>1 DEF Moved
  <2>. QED BY <1>7, <2>2 DEF Answered
<1>8. ASSUME Exists(q), dev[q].phase = "IDENTIFY"
      PROVE  dev'[q].phase = "IDENTIFY" \/ Answered(q)'
  <2>1. Answers(q) = {IF attached[q] = IDE_ATA THEN "data" ELSE "failed"}
    BY <1>8 DEF Answers
  <2>. QED BY <1>6, <1>8, <2>1 DEF Moved, Answered
<1>9. ASSUME attached[q] = IDE_ATAPI, dev[q].phase \in {"IDENTIFY_PACKET", "data"}
      PROVE  dev'[q].phase \in {"IDENTIFY_PACKET", "data"}
  <2>1. dev[q].phase = "IDENTIFY_PACKET" => Answers(q) = {"data"}
    BY <1>9 DEF Answers, IDE_ATA, IDE_ATAPI
  <2>. QED BY <1>4, <1>6, <1>9, <2>1 DEF Moved
<1>10. dev[q].phase = "data" => dev'[q].phase = "data"
  BY <1>4, <1>6 DEF Moved
<1>11. ~Exists(q) => dev'[q].shown = dev[q].shown
  BY <1>4, <1>6 DEF Moved
<1>12. Identifying(q)'
  BY <1>2, <1>6, <1>7, <1>8, <1>9, <1>10, <1>11 DEF Identifying, Exists
<1>. QED BY <1>2, <1>5, <1>12 DEF Identifying, Answered, Exists

(* The status is read, which shows and changes nothing else.               *)
LEMMA StatusFound ==
  ASSUME ReadInv, NEW q \in Positions, ReadStatus(q)
  PROVE  /\ attached' = attached
         /\ \A p \in Positions : dev'[p].phase = dev[p].phase /\ dev'[p].shown = dev[p].shown
<1>1. dev \in [Positions -> Drives] /\ dev' = [dev EXCEPT ![q].pending = FALSE]
  BY DEF ReadInv, HardwareType, ReadStatus
<1>2. dev[q] \in Drives
  BY <1>1
<1>. QED BY <1>1, <1>2 DEF Drives, ReadStatus

(* A command to the drive being probed leaves the others alone.            *)
LEMMA CommandFound ==
  ASSUME ReadInv, NEW q \in Positions, NEW cmd \in Busy, Command(q, cmd)
  PROVE  /\ attached' = attached
         /\ Exists(q) => dev'[q].phase = cmd
         /\ \A p \in Positions \ {q} : dev'[p] = dev[p]
<1>1. dev \in [Positions -> Drives] /\ HardwareType
  BY DEF ReadInv, HardwareType
<1>2. attached' = attached /\ (Exists(q) => dev'[q].phase = cmd)
  BY <1>1, CommandEffect
<1>3. \A p \in Positions \ {q} : dev'[p] = dev[p]
  BY <1>1 DEF Command
<1>. QED BY <1>2, <1>3

LEMMA ProbeFound ==
  ASSUME PROMPT, ReadInv, FoundInv,
         Select \/ Identify \/ Present \/ Probe \/ Signature \/ ReadIdentity
  PROVE  FoundInv'
<1>. PICK q : q = Probed
  OBVIOUS
<1>0. /\ cpu.pc \in Probing /\ DriverType /\ HardwareType /\ DrivesFound /\ Untouched
      /\ Identifying(q) /\ cpu \in States /\ cpu.slot # 4
  <2>1. cpu.pc \in Probing
    BY DEF Select, Identify, Present, Probe, Signature, ReadIdentity, At, Probing
  <2>. QED BY <2>1 DEF ReadInv, DriverType, FoundInv
<1>1. /\ q \in Positions /\ Number(q) = cpu.slot
      /\ \A p \in Positions : Number(p) \in 0..3 /\ (Number(p) = cpu.slot => p = q)
  <2>1. cpu.slot \in 0..3
    BY <1>0, DriverTypes
  <2>. QED BY <2>1, Numbers DEF Probed
<1>2. /\ Exists(q) => attached[q] \in {IDE_ATA, IDE_ATAPI}
      /\ ~Exists(q) => attached[q] = "none" /\ dev[q].shown \in {{}, Bits}
  BY <1>0, <1>1 DEF HardwareType, Exists, Kinds
(* The driver goes on to another place in the same slot. *)
<1>3. ASSUME NEW pc, Goto(pc), UNCHANGED <<attached, ide_devices>>,
             \A p \in Positions \ {q} : dev'[p].phase = dev[p].phase /\ dev'[p].shown = dev[p].shown,
             pc # "select", pc = "identify" => dev' = dev /\ cpu.pc = "select"
      PROVE  /\ cpu'.pc = pc /\ DrivesFound' /\ Untouched'
             /\ Identifying(q)' => FoundInv'
  <2>1. cpu'.pc = pc /\ cpu'.slot = cpu.slot
    BY <1>0, <1>3 DEF Goto, States
  <2>2. Probed' = q /\ \A p : Exists(p)' <=> Exists(p)
    BY <1>3, <2>1 DEF Probed, Slot, Exists
  <2>3. DrivesFound'
    BY <1>0, <1>3, <2>1 DEF DrivesFound, Before, Exists
  <2>4. Untouched'
    <3>. SUFFICES ASSUME NEW p \in Positions, Exists(p),
                         Number(p) > cpu.slot \/ (Number(p) = cpu.slot /\ pc = "identify")
                  PROVE  dev'[p].phase = "idle" /\ dev'[p].shown = {}
      BY <1>3, <2>1, <2>2 DEF Untouched, Number
    <3>1. CASE Number(p) > cpu.slot
      <4>1. p # q
        BY <1>0, <1>1, <3>1, DriverTypes
      <4>. QED BY <1>0, <1>3, <3>1, <4>1 DEF Untouched
    <3>2. CASE Number(p) = cpu.slot /\ pc = "identify"
      BY <1>0, <1>3, <3>2 DEF Untouched
    <3>. QED BY <3>1, <3>2
  <2>5. ASSUME Identifying(q)' PROVE FoundInv'
    BY <2>1, <2>2, <2>3, <2>4, <2>5 DEF FoundInv, Identifying, Answered, Exists
  <2>. QED BY <2>1, <2>3, <2>4, <2>5
<1>4. ASSUME NextSlot, UNCHANGED <<attached, ide_devices>>, ~Exists(q),
             \A p \in Positions \ {q} : dev'[p].phase = dev[p].phase /\ dev'[p].shown = dev[p].shown
      PROVE  FoundInv'
  <2>1. \A p \in Positions : Number(p) > cpu.slot =>
          dev'[p].phase = dev[p].phase /\ dev'[p].shown = dev[p].shown
    BY <1>0, <1>1, <1>4, DriverTypes
  <2>. QED BY <1>0, <1>4, <2>1, NextFound
<1>5. CASE Select
  <2>1. Goto("identify") /\ UNCHANGED <<attached, dev, ide_devices>> /\ cpu.pc = "select"
    BY <1>5 DEF Select, SelectDrive, At, drives, memory
  <2>2. cpu'.pc = "identify" /\ (Identifying(q)' => FoundInv')
    BY <1>3, <2>1
  <2>. QED BY <2>2 DEF Identifying
<1>6. CASE Identify
  <2>1. /\ Goto("present") /\ Command(q, "IDENTIFY") /\ ide_devices' = ide_devices
        /\ "IDENTIFY" \in Busy
    BY <1>6 DEF Identify, memory, Busy
  <2>2. /\ attached' = attached /\ (Exists(q) => dev'[q].phase = "IDENTIFY")
        /\ \A p \in Positions \ {q} : dev'[p] = dev[p]
    BY <1>1, <2>1, CommandFound
  <2>3. cpu'.pc = "present" /\ (Identifying(q)' => FoundInv')
    BY <1>3, <2>1, <2>2
  <2>. QED BY <2>2, <2>3 DEF Identifying, Exists
<1>7. CASE Present
  <2>1. /\ ReadStatus(q) /\ cpu.pc = "present" /\ ide_devices' = ide_devices
        /\ dev[q].phase \notin Busy
        /\ IF dev[q].shown = {} THEN NextSlot ELSE Goto("probe")
    BY <1>7 DEF Present, Slept, At, memory
  <2>2. /\ attached' = attached
        /\ \A p \in Positions : dev'[p].phase = dev[p].phase /\ dev'[p].shown = dev[p].shown
    BY <1>1, <2>1, StatusFound
  <2>3. Exists(q) => Answered(q) /\ dev[q].shown # {}
    BY <1>0, <2>1, StatusBits DEF Identifying, Answered, Busy
  <2>4. CASE dev[q].shown = {}
    BY <1>4, <2>1, <2>2, <2>3, <2>4
  <2>5. CASE dev[q].shown # {}
    <3>1. cpu'.pc = "probe" /\ (Identifying(q)' => FoundInv')
      BY <1>3, <2>1, <2>2, <2>5
    <3>. QED BY <1>1, <1>2, <2>2, <2>3, <2>5, <3>1 DEF Identifying, Answered, Exists
  <2>. QED BY <2>4, <2>5
<1>8. CASE Probe
  <2>1. /\ ReadStatus(q) /\ cpu.pc = "probe" /\ ide_devices' = ide_devices
        /\ Goto(IF "ERR" \in dev[q].shown THEN "signature"
                ELSE IF "BSY" \notin dev[q].shown /\ "DRQ" \in dev[q].shown THEN "ata"
                ELSE "probe")
    BY <1>8 DEF Probe, At, memory
  <2>2. /\ attached' = attached
        /\ \A p \in Positions : dev'[p].phase = dev[p].phase /\ dev'[p].shown = dev[p].shown
    BY <1>1, <2>1, StatusFound
  <2>3. CASE attached[q] = IDE_ATA
    <3>1. dev[q].phase = "data" /\ dev[q].shown = {"DRQ"}
      BY <1>0, <2>1, <2>3, StatusBits DEF Identifying, Answered, Exists, IDE_ATA
    <3>2. cpu'.pc = "ata" /\ (Identifying(q)' => FoundInv')
      BY <1>3, <2>1, <2>2, <3>1
    <3>. QED BY <1>1, <2>2, <2>3, <3>1, <3>2 DEF Identifying
  <2>4. CASE attached[q] # IDE_ATA
    <3>1. "ERR" \in dev[q].shown
      BY <1>0, <2>1, <2>4, StatusBits DEF Identifying, Answered, Bits
    <3>2. cpu'.pc = "signature" /\ (Identifying(q)' => FoundInv')
      BY <1>3, <2>1, <2>2, <3>1
    <3>. QED BY <1>2, <2>2, <2>4, <3>2 DEF Identifying, Exists
  <2>. QED BY <2>3, <2>4
<1>9. CASE Signature
  <2>1. cpu.pc = "signature" /\ ide_devices' = ide_devices
    BY <1>9 DEF Signature, At, memory
  <2>2. CASE attached[q] = IDE_ATAPI
    <3>1. Command(q, "IDENTIFY_PACKET") /\ Goto("atapi") /\ "IDENTIFY_PACKET" \in Busy
      BY <1>9, <2>2 DEF Signature, Busy
    <3>2. /\ attached' = attached /\ dev'[q].phase = "IDENTIFY_PACKET"
          /\ \A p \in Positions \ {q} : dev'[p] = dev[p]
      BY <1>1, <2>2, <3>1, CommandFound DEF Exists, IDE_ATAPI
    <3>3. cpu'.pc = "atapi" /\ (Identifying(q)' => FoundInv')
      BY <1>3, <2>1, <3>1, <3>2
    <3>. QED BY <2>2, <3>2, <3>3 DEF Identifying
  <2>3. CASE attached[q] # IDE_ATAPI
    <3>1. NextSlot /\ UNCHANGED <<attached, dev>> /\ ~Exists(q)
      BY <1>0, <1>9, <2>1, <2>3 DEF Signature, Identifying, drives
    <3>. QED BY <1>4, <2>1, <3>1
  <2>. QED BY <2>2, <2>3
<1>10. CASE ReadIdentity
  <2>1. /\ Transfer(q, "data", "idle", transfer) /\ NextSlot
        /\ (cpu.pc = "ata" \/ (cpu.pc = "atapi" /\ dev[q].phase \notin Busy))
        /\ ide_buf' = IF dev[q].phase = "data" THEN <<q, Identity>> ELSE <<q, Garbage>>
        /\ ide_devices' = Append(ide_devices, [type |-> cpu.pc, at |-> q, identity |-> ide_buf'])
    BY <1>10 DEF ReadIdentity, Slept, At
  <2>2. /\ dev[q].phase = "data" /\ cpu.pc = attached[q] /\ Exists(q)
    BY <1>0, <2>1 DEF Identifying, Busy, Exists, IDE_ATA, IDE_ATAPI
  <2>3. ide_devices' = Append(ide_devices, [type |-> attached[q], at |-> q,
                                            identity |-> <<q, Identity>>])
    BY <2>1, <2>2
  <2>4. /\ attached' = attached
        /\ \A p \in Positions \ {q} : dev'[p] = dev[p]
    BY <1>0, <1>1, <2>1 DEF Transfer, HardwareType
  <2>5. \A p \in Positions : Number(p) > cpu.slot =>
          dev'[p].phase = dev[p].phase /\ dev'[p].shown = dev[p].shown
    BY <1>0, <1>1, <2>4, DriverTypes
  <2>. QED BY <1>0, <2>1, <2>2, <2>3, <2>4, <2>5, NextFound
<1>. QED BY <1>5, <1>6, <1>7, <1>8, <1>9, <1>10

(* After the table is complete it stays as it is.                          *)
LEMMA KeptFound ==
  ASSUME ReadInv, FoundInv, ReadInv', cpu.pc \notin Probing,
         UNCHANGED <<attached, ide_devices>>, cpu'.slot = 4
  PROVE  FoundInv'
<1>1. cpu.slot = 4 /\ cpu'.pc \notin Probing
  BY DEF ReadInv, DriverType
<1>2. DrivesFound'
  BY <1>1 DEF FoundInv, DrivesFound, Before, Exists
<1>. QED BY <1>1, <1>2 DEF FoundInv

LEMMA FoundNext == PROMPT /\ ReadInv /\ ReadInv' /\ FoundInv /\ [Next]_vars => FoundInv'
<1>. SUFFICES ASSUME PROMPT, ReadInv, ReadInv', FoundInv, [Next]_vars PROVE FoundInv'
  OBVIOUS
<1>0. /\ cpu \in States /\ (cpu.slot = 4 <=> cpu.pc \notin Probing)
      /\ dev \in [Positions -> Drives]
  BY DEF ReadInv, DriverType, HardwareType
<1>1. CASE Select \/ Identify \/ Present \/ Probe \/ Signature \/ ReadIdentity
  BY <1>1, ProbeFound
<1>2. CASE Start \/ Enable \/ Device \/ PacketCommand \/ PollDelay \/ PollBusy \/ PollCheck
  <2>1. cpu.pc \notin Probing /\ UNCHANGED <<attached, ide_devices>>
    BY <1>2
    DEF Start, Enable, Device, PacketCommand, PollDelay, PollBusy, PollCheck, At, Probing,
        drives, memory, SelectDrive, Command, ReadStatus
  <2>2. cpu'.slot = cpu.slot
    BY <1>0, <1>2
    DEF Start, Enable, Device, PacketCommand, PollDelay, PollBusy, PollCheck, Goto, Return, States
  <2>. QED BY <1>0, <2>1, <2>2, KeptFound
<1>3. CASE SendPacket \/ Wait \/ Clear \/ ReadBlock \/ Finish
  <2>1. cpu.pc \notin Probing /\ UNCHANGED <<attached, ide_devices>>
    BY <1>3
    DEF SendPacket, Wait, Clear, ReadBlock, Finish, At, Probing, drives, memory, Transfer, ReadStatus
  <2>2. cpu'.slot = cpu.slot
    BY <1>0, <1>3 DEF SendPacket, Wait, Clear, ReadBlock, Finish, Goto, Return, States
  <2>. QED BY <1>0, <2>1, <2>2, KeptFound
<1>4. CASE NextSector \/ Call
  <2>1. cpu.pc \notin Probing /\ UNCHANGED <<attached, ide_devices>>
    BY <1>4 DEF NextSector, Call, read_sectors, atapi_read, At, Probing, drives, memory
  <2>2. cpu'.slot = 4
    BY <1>4 DEF NextSector, Call, read_sectors, atapi_read, Request
  <2>. QED BY <2>1, <2>2, KeptFound
<1>5. ASSUME NEW q \in Positions, Settle(q) \/ Answer(q) \/ Interrupt(q) PROVE FoundInv'
  <2>1. UNCHANGED <<attached, ide_devices, cpu>>
    BY <1>5 DEF Settle, Answer, Interrupt, memory
  <2>2. dev[q] \in Drives
    BY <1>0
  <2>3. ASSUME NEW p \in Positions, p # q PROVE dev'[p] = dev[p]
    BY <1>0, <1>5, <2>3 DEF Settle, Answer, Interrupt
  <2>4. Moved(q)
    <3>1. CASE Settle(q)
      BY <1>0, <2>2, <3>1 DEF Settle, Settled, Moved, Drives
    <3>2. CASE Answer(q)
      BY <1>0, <2>2, <3>2 DEF Answer, Moved, Drives
    <3>3. CASE Interrupt(q)
      BY <1>0, <2>2, <3>3 DEF Interrupt, Moved, Drives
    <3>. QED BY <1>5, <3>1, <3>2, <3>3
  <2>5. \A p \in Positions : Moved(p)
    BY <2>3, <2>4 DEF Moved
  <2>. QED BY <2>1, <2>5, MovedFound
<1>6. ASSUME NEW c \in Channels, ide_irq(c) PROVE FoundInv'
  <2>1. UNCHANGED <<attached, dev, ide_devices, cpu>>
    BY <1>6 DEF ide_irq, drives
  <2>. QED BY <2>1, MovedFound DEF Moved
<1>7. CASE UNCHANGED vars
  <2>1. UNCHANGED <<attached, dev, ide_devices, cpu>>
    BY <1>7 DEF vars, memory
  <2>. QED BY <2>1, MovedFound DEF Moved
<1>. QED BY <1>1, <1>2, <1>3, <1>4, <1>5, <1>6, <1>7 DEF Next, Driver

LEMMA FoundInit == Init => FoundInv
<1>. SUFFICES ASSUME Init PROVE FoundInv
  OBVIOUS
<1>1. cpu.slot = 0 /\ cpu.pc = "select" /\ ide_devices = <<>>
  BY DEF Init, Request
<1>2. \A p \in Positions : Number(p) \in 0..3
  BY Numbers
<1>3. Before(0) = {}
  BY <1>2 DEF Before, Number
<1>4. DrivesFound
  <2>1. Len(ide_devices) = 0 /\ Cardinality(Before(cpu.slot)) = 0
    BY <1>1, <1>3, FS_EmptySet
  <2>. QED BY <2>1 DEF DrivesFound
<1>5. Untouched
  BY DEF Untouched, Init, Quiet, Exists
<1>. QED BY <1>1, <1>4, <1>5 DEF FoundInv, Identifying

(* If drives answer within the driver's pause, ide_initialize lists those  *)
(* there are on any machine, in order, as the kind they are, each with its *)
(* own identification; and reading from them later does not change that.   *)
THEOREM AllDrivesFound == PROMPT => (Spec => []DrivesFound)
<1>. SUFFICES ASSUME PROMPT PROVE Spec => []DrivesFound
  OBVIOUS
<1>1. ReadInv /\ ReadInv' /\ FoundInv /\ [Next]_vars => FoundInv'
  BY FoundNext
<1>2. FoundInv => DrivesFound
  BY DEF FoundInv
<1>. QED BY <1>1, <1>2, FoundInit, ReadSafe, PTL DEF Spec
=============================================================================
