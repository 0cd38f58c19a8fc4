-------------------------------- MODULE Floppy --------------------------------
(***************************************************************************)
(* The floppy driver of chs.c under readPLUS and writePLUS, with what it   *)
(* meets: the controller, the interrupt controller it shares with the      *)
(* keyboard, and the keyboard's task, which reads its key map from the     *)
(* floppy before it answers its first interrupt.                           *)
(*                                                                         *)
(* One task at a time is in the driver (disk0, in Qfs).  wait_for_irq and  *)
(* unblockirq are one step each here; what they do in between is in        *)
(* Scheduler.  The controller does what chs.c takes it to do: a byte of a  *)
(* command, of its parameters and of its results each time it is ready.    *)
(***************************************************************************)
EXTENDS Integers, Sequences, FiniteSets

CONSTANTS
    PerTrack,    \* sectors of a track: 18
    Cylinders,   \* 80; the number of one is sent as a byte
    Base,        \* LBA_FS_BASE: 108
    Lbas,        \* the sectors of the file system that programs read and write
    MaxPolls,    \* the polls of a loop before its ERROR: 1000
    MaxWrites    \* bound: the sectors ever written

ASSUME FloppyAssumption ==
    /\ PerTrack \in Nat \ {0} /\ Cylinders \in 1..256 /\ Base \in Nat
    /\ \A lba \in Lbas : lba \in Nat /\ Base + lba < 2 * PerTrack * Cylinders
    /\ MaxPolls \in Nat \ {0} /\ MaxWrites \in Nat

VARIABLES
    work,        \* the transfers a call of readPLUS or writePLUS still has to make
    cmds,        \* the commands that floppy_read or floppy_write still has to send
    pc,          \* where the driver is in FLOPPY_SEND_COMMAND
    sent, room,  \* parameters sent; room left for results
    polls,       \* the polls used up of the loop the driver is in
    uninit,      \* fDMA_uninit
    direction,   \* the mode of DMA channel 2
    dma,         \* the sector in the DMA buffer
    buffer,      \* the sector in the buffer of the call
    fdc,         \* the controller: its phase, its command, bytes left, whether it is ready
    disk,        \* the medium
    irr,         \* the lines that request an interrupt
    inService,   \* the lines whose handler has run without an EOI since
    irqscalled,  \* the interrupts nobody was waiting for
    kb,          \* where the keyboard's task is
    key,         \* a byte waits at the keyboard's port
    lost,        \* history: the driver and the controller were out of step
    stale,       \* history: the read that filled buffer failed
    writes,      \* history: the sectors written so far
    latest,      \* history: the write that each sector was last written by
    tainted,     \* history: the sectors that a write failed on or gave stale data; a later
                 \* write replaces some bytes of what it read, and leaves the rest as it is
    fault        \* the ERROR() that stopped the machine

driverVars  == <<work, cmds, pc, sent, room, polls, uninit>>
dataVars    == <<direction, dma, buffer, disk>>
picVars     == <<irr, inService, irqscalled>>
kbVars      == <<kb, key>>
historyVars == <<lost, stale, writes, latest, tainted>>
vars == <<driverVars, dataVars, fdc, picVars, kbVars, historyVars, fault>>

\* The lines of the keyboard and the floppy; the lower one has priority.
Keyboard == 1
Drive == 6

-----------------------------------------------------------------------------
(***************************************************************************)
(* Geometry and commands.                                                  *)
(***************************************************************************)
\* Mutant of lba_2_chs: the head alternates with every sector.
lba_2_chs_Heads(lba) ==
    [cyl |-> (lba \div (2 * PerTrack)) % 256, head |-> lba % 2, sector |-> (lba % PerTrack) + 1]

lba_2_chs(lba) ==
    [cyl    |-> (lba \div (2 * PerTrack)) % 256,
     head   |-> (lba % (2 * PerTrack)) \div PerTrack,
     sector |-> (lba % PerTrack) + 1]

\* The sectors of a medium lie cylinder by cylinder, head by head.
Position(chs) == (2 * chs.cyl + chs.head) * PerTrack + chs.sector - 1

Medium == [cyl : 0..Cylinders-1, head : {0, 1}, sector : 1..PerTrack]

Params(op) ==
    CASE op = "CONFIGURE" -> 3 [] op = "SPECIFY" -> 2 [] op = "RECALIBRATE" -> 1
      [] op \in {"READ_DATA", "WRITE_DATA"} -> 8 [] OTHER -> 0

Room(op) ==
    CASE op \in {"VERSION", "LOCK"} -> 1 [] op = "SENSE_INTERRUPT" -> 2
      [] op \in {"READ_DATA", "WRITE_DATA"} -> 7 [] OTHER -> 0

\* What the controller answers; SENSE_INTERRUPT is refused, with one byte, when there
\* is nothing to sense.
Results(op) == IF op = "SENSE_INTERRUPT" THEN {1, 2} ELSE {Room(op)}

Command(op) == [op |-> op, lba |-> 0]

\* floppy_init; RESET is the first half of floppy_ctrlrs.
floppy_init ==
    [i \in 1..7 |-> Command(<<"VERSION", "CONFIGURE", "LOCK", "RESET", "SPECIFY",
                              "RECALIBRATE", "SENSE_INTERRUPT">>[i])]

Transfers(op, lba) ==
    IF op = "read" THEN <<[op |-> "READ_DATA", lba |-> lba], Command("SENSE_INTERRUPT")>>
                   ELSE <<[op |-> "WRITE_DATA", lba |-> lba], Command("SENSE_INTERRUPT")>>

Idle == [phase |-> "idle", cmd |-> Command("NONE"), left |-> 0, ready |-> TRUE]

Init ==
    /\ work = <<>> /\ cmds = <<>> /\ pc = "idle"
    /\ sent = 0 /\ room = 0 /\ polls = 0
    /\ uninit = TRUE
    /\ direction = "none" /\ dma = <<0, 0>> /\ buffer = <<0, 0>>
    /\ disk = [chs \in Medium |-> <<Position(chs), 0>>]
    /\ fdc = Idle
    /\ irr = {} /\ inService = {} /\ irqscalled = {}
    /\ kb = "boot" /\ key = FALSE
    /\ lost = FALSE /\ stale = FALSE /\ tainted = {} /\ writes = 0
    /\ latest = [lba \in Lbas |-> 0]
    /\ fault = "none"

Error(code) ==
    /\ fault' = code
    /\ UNCHANGED <<driverVars, dataVars, fdc, picVars, kbVars, historyVars>>

-----------------------------------------------------------------------------
(***************************************************************************)
(* readPLUS, writePLUS and floppy_read, floppy_write around their commands. *)
(***************************************************************************)
\* A call.  writePLUS reads what it is going to write over, and reads it once more; of
\* more than one sector it writes only the first, and that stops in floppy_write.
Call ==
    /\ pc = "idle" /\ work = <<>>
    /\ \E first, last \in Lbas, op \in {"read", "write"} :
          /\ last \in {first, first + 1}
          /\ op = "write" => writes < MaxWrites
          /\ LET reads == [i \in 1..last - first + 1 |-> <<"read", first + i - 1>>]
                 write == <<IF first = last THEN "write" ELSE "write2", first>>
             IN  work' = IF op = "read" THEN reads ELSE reads \o <<write>> \o reads
    /\ UNCHANGED <<cmds, pc, sent, room, polls, uninit, dataVars, fdc, picVars, kbVars,
                   historyVars, fault>>

\* The next sector: the driver is initialised once, then the channel is given its
\* direction, and a write fills the DMA buffer.  The data written is what was read
\* before with some bytes replaced.
Start ==
    /\ pc = "idle" /\ work # <<>>
    /\ LET op == Head(work)[1]
           lba == Head(work)[2]
       IN  IF op = "write2"
           THEN Error("FRLX")
           ELSE /\ cmds' = (IF uninit THEN floppy_init ELSE <<>>) \o Transfers(op, lba)
                /\ direction' = op
                /\ uninit' = FALSE
                /\ writes' = IF op = "write" THEN writes + 1 ELSE writes
                /\ dma' = IF op = "write" THEN <<buffer[1], writes'>> ELSE dma
                /\ pc' = "command"
                /\ UNCHANGED <<work, sent, room, polls, buffer, disk, fdc, picVars, kbVars,
                               lost, stale, latest, tainted, fault>>

\* The sector is done: a read copies the DMA buffer, whatever the results said.  The
\* first call is the keyboard's own, for /etc/keymap.
Finish ==
    /\ pc = "finish"
    /\ work' = Tail(work)
    /\ buffer' = CASE work' = <<>>           -> <<0, 0>>
                   [] Head(work)[1] = "read" -> dma
                   [] OTHER                  -> buffer
    /\ pc' = "idle"
    /\ kb' = IF kb = "boot" /\ work' = <<>> THEN "wait" ELSE kb
    /\ stale' = (stale /\ work' # <<>>)
    /\ UNCHANGED <<cmds, sent, room, polls, uninit, direction, dma, disk, fdc, picVars, key,
                   lost, writes, latest, tainted, fault>>

-----------------------------------------------------------------------------
(***************************************************************************)
(* FLOPPY_SEND_COMMAND.                                                    *)
(***************************************************************************)
Op == Head(cmds).op

Goto(label) == pc' = label /\ polls' = 0

\* One more turn of a loop that waits for the controller.
Poll(code) ==
    IF polls + 1 = MaxPolls
    THEN Error(code)
    ELSE /\ polls' = polls + 1
         /\ UNCHANGED <<work, cmds, pc, sent, room, uninit, dataVars, fdc, picVars, kbVars,
                        historyVars, fault>>

\* The direction bit of the status register: from the controller.
FromController == fdc.phase = "result"

\* RQM set and the direction to the controller.
Ready == fdc.ready /\ ~FromController

\* A byte to the FIFO: a command, or a parameter of one.  Anything else is not understood.
Write ==
    CASE fdc.ready /\ fdc.phase = "idle" ->
           fdc' = [phase |-> IF Params(Op) = 0 THEN "exec" ELSE "params",
                   cmd |-> Head(cmds), left |-> Params(Op), ready |-> FALSE]
      [] fdc.ready /\ fdc.phase = "params" ->
           fdc' = [fdc EXCEPT !.left = @ - 1, !.ready = FALSE,
                              !.phase = IF fdc.left = 1 THEN "exec" ELSE @]
      [] OTHER -> UNCHANGED fdc

Understood == fdc.ready /\ fdc.phase \in {"idle", "params"}

SendCommand ==
    /\ pc = "command" /\ cmds # <<>> /\ Op # "RESET"
    /\ IF ~Ready
       THEN Poll("FSCUNIMP")
       ELSE /\ Write
            /\ lost' = (lost \/ ~Understood \/ fdc.phase # "idle")
            /\ sent' = 0 /\ room' = Room(Op)
            /\ Goto("params")
            /\ UNCHANGED <<work, cmds, uninit, dataVars, picVars, kbVars, stale, writes, latest,
                           tainted, fault>>

SendParam ==
    /\ pc = "params" /\ sent < Params(Op)
    /\ IF ~Ready
       THEN Poll("FSC")
       ELSE /\ Write
            /\ lost' = (lost \/ ~Understood)
            /\ sent' = sent + 1
            /\ Goto("params")
            /\ UNCHANGED <<work, cmds, room, uninit, dataVars, picVars, kbVars, stale, writes,
                           latest, tainted, fault>>

Interrupts == {"READ_DATA", "WRITE_DATA", "RECALIBRATE"}

ParamsSent ==
    /\ pc = "params" /\ sent = Params(Op)
    /\ Goto(IF Op \in Interrupts THEN "irq" ELSE "results")
    /\ UNCHANGED <<work, cmds, sent, room, uninit, dataVars, fdc, picVars, kbVars, historyVars,
                   fault>>

\* floppy_ctrlrs: the controller is switched off and on.
Reset ==
    /\ pc = "command" /\ cmds # <<>> /\ Op = "RESET"
    /\ fdc' = [phase |-> "exec", cmd |-> Head(cmds), left |-> 0, ready |-> FALSE]
    /\ Goto("irq")
    /\ UNCHANGED <<work, cmds, sent, room, uninit, dataVars, picVars, kbVars, historyVars, fault>>

\* wait_for_irq(6), which takes an interrupt that came before.
WaitForIrq ==
    /\ pc = "irq"
    /\ Goto(IF Drive \in irqscalled THEN "eoi" ELSE "blocked")
    /\ irqscalled' = irqscalled \ {Drive}
    /\ UNCHANGED <<work, cmds, sent, room, uninit, dataVars, fdc, irr, inService, kbVars,
                   historyVars, fault>>

\* A wait for a sector has no time-out.
Timeout == pc = "blocked" /\ Op \in {"RESET", "RECALIBRATE"} /\ Error("WFIRQ")

\* PIC_sendEOI is not specific: it ends the service of the line of highest priority.
Highest(lines) == {l \in lines : \A m \in lines : l <= m}

\* Mutant of DriverEOI: none after a sector.
DriverEOIForgotten == IF Op = "READ_DATA" THEN inService ELSE inService \ Highest(inService)

DriverEOI == inService \ Highest(inService)

\* The commands that are left when this one is done.
NextCommand ==
    /\ cmds' = Tail(cmds)
    /\ Goto(IF Len(cmds) = 1 THEN "finish" ELSE "command")

SendEOI ==
    /\ pc = "eoi"
    /\ inService' = DriverEOI
    /\ IF Op = "RESET" THEN NextCommand ELSE Goto("results") /\ UNCHANGED cmds
    /\ UNCHANGED <<work, sent, room, uninit, dataVars, fdc, irr, irqscalled, kbVars, historyVars,
                   fault>>

\* The loop before the results, or in their place.  The loop after each result goes on with
\* the count of this one; VERSION must be the one of an 82077.
AwaitResults ==
    /\ pc = "results"
    /\ IF ~fdc.ready
       THEN Poll(IF Room(Op) = 0 THEN "FSC4" ELSE "FSC2")
       ELSE /\ IF Room(Op) = 0 THEN NextCommand ELSE pc' = "drain" /\ UNCHANGED <<cmds, polls>>
            /\ UNCHANGED <<work, sent, room, uninit, dataVars, fdc, picVars, kbVars, historyVars,
                           fault>>

\* Mutant of MoreResults: the loop only counts.
MoreResultsCounted == room > 0

MoreResults == FromController /\ room > 0

\* The loop over the results tests the direction and busy bits; it has waited for the
\* request bit after the byte before.
TakeResult ==
    /\ pc = "drain" /\ MoreResults
    /\ lost' = (lost \/ ~(fdc.ready /\ FromController))
    /\ fdc' = IF ~(fdc.ready /\ FromController) THEN fdc
              ELSE [fdc EXCEPT !.left = @ - 1, !.ready = FALSE,
                               !.phase = IF fdc.left = 1 THEN "done" ELSE @]
    /\ room' = room - 1
    /\ pc' = "drained"
    /\ UNCHANGED <<work, cmds, sent, polls, uninit, dataVars, picVars, kbVars, stale, writes,
                   latest, tainted, fault>>

AwaitNext ==
    /\ pc = "drained"
    /\ IF ~fdc.ready
       THEN Poll("FSC3")
       ELSE /\ pc' = "drain"
            /\ UNCHANGED <<work, cmds, sent, room, polls, uninit, dataVars, fdc, picVars, kbVars,
                           historyVars, fault>>

ResultsTaken ==
    /\ pc = "drain" /\ ~MoreResults
    /\ \/ NextCommand
          /\ UNCHANGED <<work, sent, room, uninit, dataVars, fdc, picVars, kbVars, historyVars,
                         fault>>
       \/ Op = "VERSION" /\ Error("FVNS")

-----------------------------------------------------------------------------
(***************************************************************************)
(* The controller.                                                         *)
(***************************************************************************)
BecomeReady ==
    /\ ~fdc.ready /\ fdc.phase \in {"idle", "params", "result", "done"}
    /\ fdc' = [fdc EXCEPT !.ready = TRUE, !.phase = IF @ = "done" THEN "idle" ELSE @]
    /\ UNCHANGED <<driverVars, dataVars, picVars, kbVars, historyVars, fault>>

\* What a command of these many result bytes leaves behind.
Answer(n) ==
    fdc' = [fdc EXCEPT !.left = n, !.phase = IF n = 0 THEN "idle" ELSE "result"]

\* The sector a transfer is about.
At == lba_2_chs(Base + fdc.cmd.lba)

IsTransfer == fdc.cmd.op \in {"READ_DATA", "WRITE_DATA"}

\* A transfer that goes well: one sector through the DMA channel.
ReadMoved ==
    /\ fdc.cmd.op = "READ_DATA"
    /\ dma' = IF direction = "read" THEN disk[At] ELSE dma
    /\ stale' = FALSE
    /\ UNCHANGED <<direction, buffer, disk, lost, writes, latest, tainted>>

WriteMoved ==
    /\ fdc.cmd.op = "WRITE_DATA"
    /\ disk' = IF direction = "write" THEN [disk EXCEPT ![At] = dma] ELSE disk
    /\ latest' = [latest EXCEPT ![fdc.cmd.lba] = writes]
    /\ tainted' = IF stale THEN tainted \cup {fdc.cmd.lba} ELSE tainted
    /\ UNCHANGED <<direction, dma, buffer, lost, stale, writes>>

\* One that goes wrong, which only the results tell; they are not looked at.
Missed ==
    /\ IF fdc.cmd.op = "READ_DATA"
       THEN stale' = TRUE /\ UNCHANGED tainted
       ELSE tainted' = tainted \cup {fdc.cmd.lba} /\ UNCHANGED stale
    /\ UNCHANGED <<dataVars, lost, writes, latest>>

Execute ==
    /\ fdc.phase = "exec"
    /\ IF IsTransfer THEN ReadMoved \/ WriteMoved \/ Missed ELSE UNCHANGED <<dataVars, historyVars>>
    /\ \E n \in Results(fdc.cmd.op) : Answer(n)
    /\ irr' = IF fdc.cmd.op \in Interrupts \cup {"RESET"} THEN irr \cup {Drive} ELSE irr
    /\ UNCHANGED <<driverVars, inService, irqscalled, kbVars, fault>>

-----------------------------------------------------------------------------
(***************************************************************************)
(* Interrupts and the keyboard.                                            *)
(***************************************************************************)
\* A key.  IRQ_set_mask(1), which is to close the line outside READ_KB_DATA, clears the
\* other bits of the mask and leaves that one: the line is always open.
KeyPress ==
    /\ ~key
    /\ key' = TRUE
    /\ irr' = irr \cup {Keyboard}
    /\ UNCHANGED <<driverVars, dataVars, fdc, inService, irqscalled, kb, historyVars, fault>>

\* The handlers FL and PS2_HANDLER with unblockirq; neither sends the EOI.
Deliver(line) ==
    /\ line \in irr /\ \A l \in inService : line < l
    /\ irr' = irr \ {line}
    /\ inService' = inService \cup {line}
    /\ CASE line = Drive /\ pc = "blocked"    -> pc' = "eoi" /\ UNCHANGED <<irqscalled, kb>>
         [] line = Keyboard /\ kb = "blocked" -> kb' = "read" /\ UNCHANGED <<irqscalled, pc>>
         [] OTHER -> irqscalled' = irqscalled \cup {line} /\ UNCHANGED <<pc, kb>>
    /\ UNCHANGED <<work, cmds, sent, room, polls, uninit, dataVars, fdc, key, historyVars, fault>>

\* READ_KB_DATA: wait_for_irq(1), which takes an interrupt that came before ...
KbWait ==
    /\ kb = "wait"
    /\ kb' = IF Keyboard \in irqscalled THEN "read" ELSE "blocked"
    /\ irqscalled' = irqscalled \ {Keyboard}
    /\ UNCHANGED <<driverVars, dataVars, fdc, irr, inService, key, historyVars, fault>>

\* ... the byte ...
KbRead ==
    /\ kb = "read"
    /\ key' = FALSE
    /\ kb' = "eoi"
    /\ UNCHANGED <<driverVars, dataVars, fdc, picVars, historyVars, fault>>

\* ... and the EOI.  What the driver does with the key needs no floppy.
KbEOI ==
    /\ kb = "eoi"
    /\ inService' = inService \ Highest(inService)
    /\ kb' = "wait"
    /\ UNCHANGED <<driverVars, dataVars, fdc, irr, irqscalled, key, historyVars, fault>>

-----------------------------------------------------------------------------

Driver ==
    \/ Start \/ Finish \/ SendCommand \/ SendParam \/ ParamsSent \/ Reset
    \/ WaitForIrq \/ SendEOI \/ AwaitResults \/ TakeResult \/ AwaitNext \/ ResultsTaken

Controller == BecomeReady \/ Execute

KeyboardTask == KbWait \/ KbRead \/ KbEOI

Alive == fault = "none"

Halted == ~Alive /\ UNCHANGED vars

Next ==
    \/ Alive /\ (Call \/ Driver \/ Timeout \/ Controller \/ KeyboardTask \/ KeyPress
                 \/ \E line \in {Keyboard, Drive} : Deliver(line))
    \/ Halted

Spec == Init /\ [][Next]_vars

\* Tasks that are ready run, the controller goes on, and an interrupt that is let through
\* again and again between keys is delivered.  Nobody has to press a key.
FairSpec ==
    /\ Spec
    /\ WF_vars(Alive /\ Driver) /\ WF_vars(Alive /\ Controller) /\ WF_vars(Alive /\ KeyboardTask)
    /\ WF_vars(Alive /\ Deliver(Keyboard)) /\ SF_vars(Alive /\ Deliver(Drive))

TypeOK ==
    /\ pc \in {"idle", "command", "params", "irq", "blocked", "eoi", "results", "drain",
               "drained", "finish"}
    /\ kb \in {"boot", "wait", "blocked", "read", "eoi"}
    /\ fdc.phase \in {"idle", "params", "exec", "result", "done"}
    /\ room \in 0..7 /\ sent \in 0..8 /\ polls \in 0..MaxPolls-1
    /\ dma \in Seq(Nat) /\ buffer \in Seq(Nat)
    /\ UNION {irr, inService, irqscalled} \subseteq {Keyboard, Drive}

-----------------------------------------------------------------------------

\* The controller and the driver stay in step through every command, although SENSE_INTERRUPT
\* answers with one byte or two and the loop over the results does not look at the request
\* bit: no byte is written or read that the other side does not expect.
InStep == TypeOK /\ ~lost /\ (pc = "command" => fdc.phase \in {"idle", "done"})

\* Unless the drive failed, a read gives the sector asked for, as it was last written, and a
\* write touches no other sector.
SectorsRight ==
    /\ \A chs \in Medium :
          LET lba == Position(chs) - Base
          IN  lba \notin tainted =>
                  disk[chs] = <<Position(chs), IF lba \in Lbas THEN latest[lba] ELSE 0>>
    /\ pc = "finish" /\ Head(work)[1] = "read" /\ ~stale /\ Head(work)[2] \notin tainted =>
          dma = <<Base + Head(work)[2], latest[Head(work)[2]]>>

\* The EOIs are not specific and are sent by tasks long after the handlers: for each line in
\* service some task has one still to send, so a line is never blocked for good.
EOIOwed ==
    Cardinality(inService) =
        Cardinality(irqscalled) + (IF pc = "eoi" THEN 1 ELSE 0)
                                + (IF kb \in {"read", "eoi"} THEN 1 ELSE 0)

\* The keyboard's task waits for the floppy, and the floppy for an EOI of the keyboard's.
BootStuck == kb = "boot" /\ Keyboard \in irqscalled

\* Nobody types faster, for ever, than the keyboard's task answers.
KeysPause == []<>(kb \in {"boot", "blocked"})

\* Every call comes to an end or stops the machine, whatever keys are pressed meanwhile -
\* once the keyboard's task has read its key map: a key before that is never answered.
CallReturns == KeysPause => (work # <<>> ~> (work = <<>> \/ ~Alive \/ BootStuck))

===============================================================================
