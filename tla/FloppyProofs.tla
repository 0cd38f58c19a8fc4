----------------------------- MODULE FloppyProofs -----------------------------
(***************************************************************************)
(* The floppy driver, for media, transfers and delays of any size.         *)
(* EOIOwed: every line in service has an EOI coming, although no EOI names *)
(* its line.  InStep: the driver and the controller agree on every command *)
(* of a sequence and every byte of it.  SectorsRight: the right sectors    *)
(* are moved.                                                              *)
(***************************************************************************)
EXTENDS Floppy, FiniteSetTheorems, TLAPS

Lines == {Keyboard, Drive}

One(condition) == IF condition THEN 1 ELSE 0

\* The number of lines in a set of them.
Count(S) == One(Keyboard \in S) + One(Drive \in S)

\* EOIOwed, counted line by line.
Owed == Count(inService) = Count(irqscalled) + One(pc = "eoi") + One(kb \in {"read", "eoi"})

\* A key is in one place at most until its byte has been read: requested, stored, or
\* with the keyboard's task.  This is why irqscalled never takes the same line twice.
OneKey ==
    /\ Keyboard \in irr => key /\ Keyboard \notin irqscalled /\ kb # "read"
    /\ Keyboard \in irqscalled => key /\ kb # "read"
    /\ kb = "read" => key

EOIInv == irr \subseteq Lines /\ inService \subseteq Lines /\ irqscalled \subseteq Lines /\ Owed /\ OneKey

\* The step has nothing to do with interrupts.
Apart ==
    /\ UNCHANGED <<inService, irqscalled, kb, key>>
    /\ irr' \in {irr, irr \cup {Drive}}
    /\ pc # "eoi" /\ pc' # "eoi"

-----------------------------------------------------------------------------
\* Count is the number of lines.
LEMMA CountLines == ASSUME NEW S, S \subseteq Lines PROVE Cardinality(S) = Count(S)
<1>1. S = {} \/ S = {Keyboard} \/ S = {Drive} \/ S = {Keyboard, Drive}
  BY DEF Lines
<1>2. Keyboard # Drive
  BY DEF Keyboard, Drive
<1>3. Cardinality({}) = 0 /\ Cardinality({Keyboard}) = 1 /\ Cardinality({Drive}) = 1
  BY FS_EmptySet, FS_Singleton
<1>4. Cardinality({Keyboard, Drive}) = 2
  <2>1. IsFiniteSet({Keyboard}) /\ Drive \notin {Keyboard}
    BY <1>2, FS_Singleton
  <2>2. Cardinality({Keyboard} \cup {Drive}) = Cardinality({Keyboard}) + 1
    BY <2>1, FS_AddElement
  <2>3. {Keyboard} \cup {Drive} = {Keyboard, Drive}
    OBVIOUS
  <2> QED BY <1>3, <2>2, <2>3
<1> QED BY <1>1, <1>2, <1>3, <1>4 DEF Count, One

\* An EOI ends the service of one line, if there is one.
LEMMA HighestOne ==
    ASSUME NEW S, S \subseteq Lines, Count(S) > 0
    PROVE  S \ Highest(S) \subseteq Lines /\ Count(S \ Highest(S)) = Count(S) - 1
<1>1. S = {1} \/ S = {6} \/ S = {1, 6}
  <2>1. S = {} \/ S = {1} \/ S = {6} \/ S = {1, 6}
    BY DEF Lines, Keyboard, Drive
  <2>2. S # {}
    BY DEF Count, One
  <2> QED BY <2>1, <2>2
<1>2. S = {1} \/ S = {1, 6} => Highest(S) = {1}
  BY DEF Highest
<1>3. S = {6} => Highest(S) = {6}
  BY DEF Highest
<1> QED BY <1>1, <1>2, <1>3 DEF Lines, Count, One, Keyboard, Drive

-----------------------------------------------------------------------------
\* Nothing is in service at first.
LEMMA InitEOI == Init => EOIInv
BY DEF Init, EOIInv, Owed, OneKey, Count, One

\* A step apart from the interrupts.
LEMMA ApartEOI == ASSUME EOIInv, Apart PROVE EOIInv'
BY DEF EOIInv, Apart, Owed, OneKey, Count, One, Lines, Keyboard, Drive

\* A step that stops the machine, or leaves all that has to do with interrupts.
LEMMA SameEOI == ASSUME EOIInv, UNCHANGED <<pc, picVars, kbVars>> PROVE EOIInv'
BY DEF EOIInv, picVars, kbVars, Owed, OneKey, Count, One

LEMMA ErrorEOI == ASSUME EOIInv, NEW code, Error(code) PROVE EOIInv'
BY SameEOI DEF Error, driverVars

\* One more turn of a loop that polls.
LEMMA PollEOI == ASSUME EOIInv, NEW code, Poll(code) PROVE EOIInv'
BY SameEOI, ErrorEOI DEF Poll

\* The driver between its interrupts.
LEMMA DriverApart ==
    ASSUME EOIInv, Start \/ SendCommand \/ SendParam \/ ParamsSent \/ Reset
                   \/ AwaitResults \/ TakeResult \/ AwaitNext \/ ResultsTaken
    PROVE  EOIInv'
<1>1. CASE Start
  BY <1>1, ErrorEOI, ApartEOI DEF Start, Apart, picVars, kbVars
<1>2. CASE SendCommand
  BY <1>2, PollEOI, ApartEOI DEF SendCommand, Apart, picVars, kbVars, Goto
<1>3. CASE SendParam
  BY <1>3, PollEOI, ApartEOI DEF SendParam, Apart, picVars, kbVars, Goto
<1>4. CASE ParamsSent
  BY <1>4, ApartEOI DEF ParamsSent, Apart, picVars, kbVars, Goto
<1>5. CASE Reset
  BY <1>5, ApartEOI DEF Reset, Apart, picVars, kbVars, Goto
<1>6. CASE AwaitResults
  BY <1>6, PollEOI, ApartEOI DEF AwaitResults, NextCommand, Apart, picVars, kbVars, Goto
<1>7. CASE TakeResult
  BY <1>7, ApartEOI DEF TakeResult, Apart, picVars, kbVars
<1>8. CASE AwaitNext
  BY <1>8, PollEOI, ApartEOI DEF AwaitNext, Apart, picVars, kbVars
<1>9. CASE ResultsTaken
  BY <1>9, ErrorEOI, ApartEOI DEF ResultsTaken, NextCommand, Apart, picVars, kbVars, Goto
<1> QED BY <1>1, <1>2, <1>3, <1>4, <1>5, <1>6, <1>7, <1>8, <1>9

\* The end of a sector may wake the keyboard's task from its start.
LEMMA FinishEOI == ASSUME EOIInv, Finish PROVE EOIInv'
<1>1. /\ pc # "eoi" /\ pc' # "eoi" /\ kb' \in {kb, "wait"} /\ (kb' = "wait" => kb \in {"boot", "wait"})
      /\ UNCHANGED <<irr, inService, irqscalled, key>>
  BY DEF Finish, picVars
<1> QED BY <1>1 DEF EOIInv, Owed, OneKey, Count, One

\* wait_for_irq takes a stored interrupt, and owes its EOI.
LEMMA WaitForIrqEOI == ASSUME EOIInv, WaitForIrq PROVE EOIInv'
<1>1. CASE Drive \in irqscalled
  BY <1>1 DEF EOIInv, WaitForIrq, Goto, Owed, OneKey, Count, One, kbVars, Keyboard, Drive
<1>2. CASE Drive \notin irqscalled
  BY <1>2 DEF EOIInv, WaitForIrq, Goto, Owed, OneKey, Count, One, kbVars, Keyboard, Drive
<1> QED BY <1>1, <1>2

\* The driver's EOI, for whichever line.
LEMMA SendEOIEOI == ASSUME EOIInv, SendEOI PROVE EOIInv'
<1>1. /\ pc = "eoi" /\ pc' # "eoi" /\ inService' = inService \ Highest(inService)
      /\ UNCHANGED <<irr, irqscalled, kb, key>>
  BY DEF SendEOI, DriverEOI, NextCommand, Goto, kbVars
<1>2. Count(inService) > 0
  BY <1>1 DEF EOIInv, Owed, Count, One
<1>3. inService' \subseteq Lines /\ Count(inService') = Count(inService) - 1
  BY <1>1, <1>2, HighestOne DEF EOIInv
<1>4. Owed'
  BY <1>1, <1>3 DEF EOIInv, Owed, Count, One
<1> QED BY <1>1, <1>3, <1>4 DEF EOIInv, OneKey

\* The keyboard's task: a stored interrupt, the byte, and its EOI, for whichever line.
LEMMA KeyboardEOI == ASSUME EOIInv, KeyboardTask PROVE EOIInv'
<1>1. CASE KbWait
  BY <1>1 DEF EOIInv, KbWait, driverVars, Owed, OneKey, Count, One, Keyboard, Drive
<1>2. CASE KbRead
  BY <1>2 DEF EOIInv, KbRead, driverVars, picVars, Owed, OneKey, Count, One
<1>3. CASE KbEOI
  <2>1. /\ kb = "eoi" /\ kb' = "wait" /\ inService' = inService \ Highest(inService)
        /\ UNCHANGED <<irr, irqscalled, pc, key>>
    BY <1>3 DEF KbEOI, driverVars
  <2>2. Count(inService) > 0
    BY <2>1 DEF EOIInv, Owed, Count, One
  <2>3. inService' \subseteq Lines /\ Count(inService') = Count(inService) - 1
    BY <2>1, <2>2, HighestOne DEF EOIInv
  <2>4. Owed'
    BY <2>1, <2>3 DEF EOIInv, Owed, Count, One
  <2> QED BY <2>1, <2>3, <2>4 DEF EOIInv, OneKey
<1> QED BY <1>1, <1>2, <1>3 DEF KeyboardTask

\* A key, whose byte was read before: no interrupt of an earlier one is left.
LEMMA KeyPressEOI == ASSUME EOIInv, KeyPress PROVE EOIInv'
BY DEF EOIInv, KeyPress, driverVars, Owed, OneKey, Count, One, Lines, Keyboard, Drive

\* A handler: the line was not in service, and its interrupt is not stored already.
LEMMA DeliverEOI == ASSUME EOIInv, NEW line \in Lines, Deliver(line) PROVE EOIInv'
<1>1. /\ line \in irr /\ line \notin inService
      /\ irr' = irr \ {line} /\ inService' = inService \cup {line} /\ key' = key
  BY DEF Deliver, Lines, Keyboard, Drive
<1>2. CASE line = Drive
  <2>1. inService = {}
    BY <1>1, <1>2 DEF Deliver, EOIInv, Lines, Keyboard, Drive
  <2>2. irqscalled = {} /\ pc # "eoi"
    BY <2>1 DEF EOIInv, Owed, Count, One, Lines, Keyboard, Drive
  <2> QED BY <1>1, <1>2, <2>1, <2>2
          DEF Deliver, EOIInv, Owed, OneKey, Count, One, Lines, Keyboard, Drive
<1>3. CASE line = Keyboard
  <2>1. Keyboard \notin irqscalled /\ key /\ kb # "read"
    BY <1>1, <1>3 DEF EOIInv, OneKey
  <2> QED BY <1>1, <1>3, <2>1
          DEF Deliver, EOIInv, Owed, OneKey, Count, One, Lines, Keyboard, Drive
<1> QED BY <1>2, <1>3 DEF Lines

\* The controller asks for its line, once or again.
LEMMA ControllerEOI == ASSUME EOIInv, Controller PROVE EOIInv'
<1>1. UNCHANGED <<pc, inService, irqscalled, kb, key>> /\ irr' \in {irr, irr \cup {Drive}}
  BY DEF Controller, BecomeReady, Execute, driverVars, picVars, kbVars
<1> QED BY <1>1 DEF EOIInv, Owed, OneKey, Count, One, Lines, Keyboard, Drive

\* Every step keeps the account of EOIs.
LEMMA NextEOI == ASSUME EOIInv, [Next]_vars PROVE EOIInv'
<1>1. CASE UNCHANGED vars
  BY <1>1, SameEOI DEF vars, driverVars
<1>2. CASE Driver
  BY <1>2, DriverApart, FinishEOI, WaitForIrqEOI, SendEOIEOI DEF Driver
<1>3. CASE Call
  BY <1>3, SameEOI DEF Call
<1>4. CASE Timeout
  BY <1>4, ErrorEOI DEF Timeout
<1> QED BY <1>1, <1>2, <1>3, <1>4, ControllerEOI, KeyboardEOI, KeyPressEOI, DeliverEOI
        DEF Next, Halted, Lines

\* For each line in service some task has an EOI still to send, whichever line it will
\* end: no line is blocked for good.
THEOREM EOIOwedCorrect == Spec => []EOIOwed
<1>1. EOIInv /\ [Next]_vars => EOIInv'
  BY NextEOI
<1>2. EOIInv => EOIOwed
  BY CountLines DEF EOIInv, EOIOwed, Owed, One
<1> QED BY InitEOI, <1>1, <1>2, PTL DEF Spec

-----------------------------------------------------------------------------
(***************************************************************************)
(* InStep.  StepInv ties the controller's phase to the driver's place.     *)
(***************************************************************************)
\* The commands there are: those of floppy_init, and the transfers of a sector.
PlainOps == {"VERSION", "CONFIGURE", "LOCK", "RESET", "SPECIFY", "RECALIBRATE", "SENSE_INTERRUPT"}
Plain == [op : PlainOps, lba : {0}]
Commands == Plain \cup [op : {"READ_DATA", "WRITE_DATA"}, lba : Lbas]

Fdc == [phase : {"idle", "params", "exec", "result", "done"}, cmd : Commands \cup {Command("NONE")},
        left : 0..8, ready : BOOLEAN]

Sector == Nat \X Nat

Types ==
    /\ TypeOK
    /\ cmds \in Seq(Commands) /\ work \in Seq({"read", "write", "write2"} \X Lbas)
    /\ fdc \in Fdc
    /\ dma \in Sector /\ buffer \in Sector /\ disk \in [Medium -> Sector]
    /\ writes \in Nat /\ latest \in [Lbas -> Nat]

\* No request bit while the controller works, and a command in hand unless the driver is
\* outside FLOPPY_SEND_COMMAND.
Busy ==
    /\ fdc.phase \in {"exec", "done"} => ~fdc.ready
    /\ cmds = <<>> <=> pc \in {"idle", "finish"}
    /\ pc # "idle" => work # <<>>

\* The controller has all of the command, and has not been asked for its results.
Given == (pc = "params" /\ sent = Params(Op)) \/ pc \in {"irq", "blocked", "eoi", "results"}

\* Where the controller is, for every place of the driver.
Together ==
    /\ pc \in {"idle", "finish", "command"} => fdc.phase \in {"idle", "done"}
    /\ pc = "params" =>
          /\ Op # "RESET" /\ sent <= Params(Op)
          /\ sent < Params(Op) => fdc.phase = "params" /\ fdc.cmd = Head(cmds) /\ fdc.left = Params(Op) - sent
    /\ pc = "params" \/ (Given /\ Op # "RESET") => room = Room(Op)
    /\ Given => \/ fdc.phase = "exec" /\ fdc.cmd = Head(cmds)
                \/ fdc.phase = "result" /\ Room(Op) > 0 /\ fdc.left \in 1..room
                \/ fdc.phase = "idle" /\ Room(Op) = 0
    /\ pc \in {"drain", "drained"} =>
          \/ fdc.phase = "result" /\ fdc.left \in 1..room
          \/ fdc.phase \in {"idle", "done"}
    /\ pc = "drain" => fdc.ready

\* The floppy's interrupt is there for the one wait that is meant by it, and after the
\* command: one left over would let the driver pass its next wait too early.
OneRequest ==
    /\ pc \in {"irq", "blocked"} => Op \in Interrupts \cup {"RESET"}
    /\ pc = "results" => Op # "RESET"
    /\ pc = "eoi" \/ (pc = "results" /\ Op \in Interrupts) => fdc.phase # "exec"
    /\ Drive \in irr \cup irqscalled =>
          /\ fdc.phase # "exec"
          /\ pc \in {"irq", "blocked"} \/ (pc = "params" /\ sent = Params(Op) /\ Op \in Interrupts)
    /\ ~(Drive \in irr /\ Drive \in irqscalled)
    /\ pc = "blocked" => Drive \notin irqscalled

StepInv == Types /\ Busy /\ Together /\ OneRequest /\ ~lost

\* The counts of parameters and results, for every command there is.
LEMMA OpFacts ==
    ASSUME NEW c \in Commands
    PROVE  /\ Params(c.op) \in 0..8 /\ Room(c.op) \in 0..7
           /\ \A n \in Results(c.op) : n \in 0..Room(c.op) /\ (n = 0 <=> Room(c.op) = 0)
           /\ (c.op = "RESET" => Params(c.op) = 0 /\ Room(c.op) = 0)
BY DEF Commands, Plain, PlainOps, Params, Room, Results

\* A sequence and its tail.
LEMMA SeqFacts ==
    ASSUME NEW S, NEW s \in Seq(S), s # <<>>
    PROVE  /\ Head(s) \in S /\ Tail(s) \in Seq(S) /\ Head(s) = s[1]
           /\ Len(s) \in Nat \ {0} /\ (Tail(s) = <<>> <=> Len(s) = 1)
           /\ Len(Tail(s)) = Len(s) - 1
           /\ \A i \in 1..Len(s) - 1 : Tail(s)[i] = s[i + 1]
           /\ \A i \in 1..Len(s) : s[i] \in S
<1>1. /\ Head(s) \in S /\ Tail(s) \in Seq(S) /\ Head(s) = s[1]
      /\ Len(s) \in Nat \ {0} /\ Len(Tail(s)) = Len(s) - 1
  OBVIOUS
<1>2. \A i \in 1..Len(s) - 1 : Tail(s)[i] = s[i + 1]
  OBVIOUS
<1>3. \A i \in 1..Len(s) : s[i] \in S
  OBVIOUS
<1>4. Tail(s) = <<>> <=> Len(s) = 1
  <2>1. Len(Tail(s)) = 0 <=> Len(s) = 1
    BY <1>1
  <2>2. \A t \in Seq(S) : t = <<>> <=> Len(t) = 0
    OBVIOUS
  <2> QED BY <1>1, <2>1, <2>2, Zenon
<1> QED BY <1>1, <1>2, <1>3, <1>4

\* The command in hand.
LEMMA CmdsFacts ==
    ASSUME Types, Busy, pc \notin {"idle", "finish"}
    PROVE  /\ Head(cmds) \in Commands /\ Tail(cmds) \in Seq(Commands)
           /\ Len(cmds) \in Nat \ {0} /\ (Tail(cmds) = <<>> <=> Len(cmds) = 1)
           /\ Params(Op) \in 0..8 /\ Room(Op) \in 0..7
           /\ \A n \in Results(Op) : n \in 0..Room(Op) /\ (n = 0 <=> Room(Op) = 0)
           /\ (Op = "RESET" => Params(Op) = 0 /\ Room(Op) = 0)
<1>1. Head(cmds) \in Commands /\ Tail(cmds) \in Seq(Commands)
           /\ Len(cmds) \in Nat \ {0} /\ (Tail(cmds) = <<>> <=> Len(cmds) = 1)
  BY SeqFacts DEF Types, Busy
<1> QED BY <1>1, OpFacts DEF Op

\* What a turn of a polling loop, an ERROR, or a step elsewhere leaves alone.
LEMMA SameStep ==
    ASSUME StepInv, TypeOK',
           UNCHANGED <<cmds, work, pc, sent, room, fdc, dataVars, irr, irqscalled, lost, writes, latest>>
    PROVE  StepInv'
BY DEF StepInv, Types, Busy, Together, OneRequest, Given, Op, dataVars

\* ERROR and its loops leave the step where it is.
LEMMA ErrorStep == ASSUME StepInv, NEW code, Error(code) PROVE StepInv'
<1>1. TypeOK'
  BY DEF Error, StepInv, Types, TypeOK, driverVars, dataVars, picVars, kbVars
<1> QED BY <1>1, SameStep DEF Error, driverVars, picVars, historyVars

\* So does one more turn of a loop that polls.
LEMMA PollStep == ASSUME StepInv, NEW code, Poll(code) PROVE StepInv'
<1>1. CASE polls + 1 = MaxPolls
  BY <1>1, ErrorStep DEF Poll
<1>2. CASE polls + 1 # MaxPolls
  <2>1. TypeOK'
    BY <1>2, FloppyAssumption DEF Poll, StepInv, Types, TypeOK, dataVars, picVars, kbVars
  <2> QED BY <1>2, <2>1, SameStep DEF Poll, picVars, historyVars
<1> QED BY <1>1, <1>2

\* A step that leaves the data alone, in its types.
LEMMA FlowTypes ==
    ASSUME Types, cmds' \in Seq(Commands), UNCHANGED <<work, dataVars, writes, latest>>,
           pc' \in {"idle", "command", "params", "irq", "blocked", "eoi", "results", "drain", "drained", "finish"},
           room' \in 0..7, sent' \in 0..8, polls' \in 0..MaxPolls-1,
           fdc' \in Fdc,
           kb' \in {"boot", "wait", "blocked", "read", "eoi"},
           UNION {irr', inService', irqscalled'} \subseteq {Keyboard, Drive}
    PROVE  Types'
BY DEF Types, TypeOK, Fdc, dataVars

\* A loop that has ended leaves its counter at zero.
LEMMA ZeroPolls == 0 \in 0..MaxPolls-1
BY FloppyAssumption

\* The command byte, to an idle controller.
LEMMA SendCommandStep == ASSUME StepInv, SendCommand PROVE StepInv'
<1> USE DEF StepInv
<1>1. CASE ~Ready
  BY <1>1, PollStep DEF SendCommand
<1>2. CASE Ready
  <2>1. fdc.ready /\ fdc.phase = "idle" /\ pc = "command" /\ Op # "RESET"
    BY <1>2 DEF SendCommand, Ready, FromController, Busy, Together
  <2>2. /\ fdc' = [phase |-> IF Params(Op) = 0 THEN "exec" ELSE "params",
                   cmd |-> Head(cmds), left |-> Params(Op), ready |-> FALSE]
        /\ ~lost' /\ sent' = 0 /\ room' = Room(Op) /\ pc' = "params" /\ polls' = 0
        /\ UNCHANGED <<work, cmds, dataVars, picVars, kbVars, writes, latest>>
    BY <1>2, <2>1 DEF SendCommand, Write, Goto, Understood
  <2>3. Head(cmds) \in Commands /\ Params(Op) \in 0..8 /\ Room(Op) \in 0..7
    BY <2>1, CmdsFacts
  <2>4. Types'
    <3>1. fdc' \in Fdc
      BY <2>2, <2>3 DEF Fdc
    <3> QED BY <2>2, <2>3, <3>1, FlowTypes, ZeroPolls DEF Types, TypeOK, picVars, kbVars
  <2>5. Busy'
    BY <2>1, <2>2 DEF Busy
  <2>6. Op' = Op /\ Params(Op)' = Params(Op) /\ Room(Op)' = Room(Op)
    BY <2>2 DEF Op
  <2>7. Together'
    BY <2>1, <2>2, <2>3, <2>6 DEF Together, Given
  <2>8. OneRequest'
    BY <2>1, <2>2, <2>6 DEF OneRequest, picVars
  <2> QED BY <2>2, <2>4, <2>5, <2>7, <2>8
<1> QED BY <1>1, <1>2

\* A parameter, to a controller that has room for it.
LEMMA SendParamStep == ASSUME StepInv, SendParam PROVE StepInv'
<1> USE DEF StepInv
<1>1. CASE ~Ready
  BY <1>1, PollStep DEF SendParam
<1>2. CASE Ready
  <2>1. /\ fdc.ready /\ fdc.phase = "params" /\ pc = "params" /\ sent < Params(Op)
        /\ Op # "RESET" /\ room = Room(Op) /\ fdc.cmd = Head(cmds) /\ fdc.left = Params(Op) - sent
    BY <1>2 DEF SendParam, Ready, FromController, Together
  <2>2. /\ fdc' = [fdc EXCEPT !.left = @ - 1, !.ready = FALSE,
                              !.phase = IF fdc.left = 1 THEN "exec" ELSE @]
        /\ ~lost' /\ sent' = sent + 1 /\ pc' = "params" /\ polls' = 0
        /\ UNCHANGED <<work, cmds, room, dataVars, picVars, kbVars, writes, latest>>
    BY <1>2, <2>1 DEF SendParam, Write, Goto, Understood
  <2>3. Head(cmds) \in Commands /\ Params(Op) \in 0..8 /\ Room(Op) \in 0..7 /\ sent \in 0..8
    BY <2>1, CmdsFacts DEF Types, TypeOK
  <2>0. fdc \in Fdc
    BY DEF Types
  <2>7. /\ fdc'.phase = (IF sent' = Params(Op) THEN "exec" ELSE "params") /\ fdc'.cmd = Head(cmds)
        /\ fdc'.left = Params(Op) - sent' /\ ~fdc'.ready
    <3>1. fdc.left = 1 <=> sent' = Params(Op)
      BY <2>1, <2>2, <2>3
    <3> QED BY <2>0, <2>1, <2>2, <2>3, <3>1 DEF Fdc
  <2>4. Types'
    <3>1. sent' \in 0..8 /\ fdc.left - 1 \in 0..8
      BY <2>1, <2>2, <2>3
    <3>2. fdc' \in Fdc
      BY <2>0, <2>2, <3>1 DEF Fdc
    <3> QED BY <2>2, <3>1, <3>2, FlowTypes, ZeroPolls DEF Types, TypeOK, picVars, kbVars
  <2>5. Busy'
    BY <2>1, <2>2, <2>7 DEF Busy
  <2>6. Op' = Op /\ Params(Op)' = Params(Op) /\ Room(Op)' = Room(Op)
    BY <2>2 DEF Op
  <2>8. Together'
    <3>1. sent' <= Params(Op) /\ (sent' < Params(Op) => sent' # Params(Op))
      BY <2>1, <2>2, <2>3
    <3>2. /\ pc' = "params" /\ Op' # "RESET" /\ sent' <= Params(Op)'
          /\ sent' < Params(Op)' =>
                fdc'.phase = "params" /\ fdc'.cmd = Head(cmds)' /\ fdc'.left = Params(Op)' - sent'
          /\ room' = Room(Op)'
      BY <2>1, <2>2, <2>6, <2>7, <3>1
    <3>3. Given' => fdc'.phase = "exec" /\ fdc'.cmd = Head(cmds)'
      BY <2>2, <2>6, <2>7 DEF Given
    <3> QED BY <3>2, <3>3 DEF Together
  <2>9. OneRequest'
    BY <2>1, <2>2, <2>3, <2>6 DEF OneRequest, picVars
  <2> QED BY <2>2, <2>4, <2>5, <2>8, <2>9
<1> QED BY <1>1, <1>2

\* The last parameter has been sent.
LEMMA ParamsSentStep == ASSUME StepInv, ParamsSent PROVE StepInv'
<1> USE DEF StepInv
<1>1. /\ pc = "params" /\ sent = Params(Op) /\ polls' = 0
      /\ pc' = IF Op \in Interrupts THEN "irq" ELSE "results"
      /\ UNCHANGED <<work, cmds, sent, room, fdc, dataVars, picVars, kbVars, lost, writes, latest>>
  BY DEF ParamsSent, Goto, historyVars
<1>2. Types' /\ Op' = Op /\ Room(Op)' = Room(Op)
  BY <1>1, FlowTypes, ZeroPolls DEF Types, TypeOK, picVars, kbVars, Op
<1> QED BY <1>1, <1>2 DEF Busy, Together, Given, OneRequest, picVars

\* RESET has neither parameters nor results.
LEMMA ResetStep == ASSUME StepInv, Reset PROVE StepInv'
<1> USE DEF StepInv
<1>1. /\ pc = "command" /\ Op = "RESET" /\ polls' = 0 /\ pc' = "irq"
      /\ fdc' = [phase |-> "exec", cmd |-> Head(cmds), left |-> 0, ready |-> FALSE]
      /\ UNCHANGED <<work, cmds, sent, room, dataVars, picVars, kbVars, lost, writes, latest>>
  BY DEF Reset, Goto, historyVars
<1>2. Head(cmds) \in Commands
  BY <1>1, CmdsFacts
<1>3. Types' /\ Op' = Op
  <2>1. fdc' \in Fdc
    BY <1>1, <1>2 DEF Fdc
  <2> QED BY <1>1, <2>1, FlowTypes, ZeroPolls DEF Types, TypeOK, picVars, kbVars, Op
<1> QED BY <1>1, <1>3 DEF Busy, Together, Given, OneRequest, picVars

\* The wait passes on, or goes to sleep.
LEMMA WaitForIrqStep == ASSUME StepInv, WaitForIrq PROVE StepInv'
<1> USE DEF StepInv
<1>1. /\ pc = "irq" /\ pc' = (IF Drive \in irqscalled THEN "eoi" ELSE "blocked") /\ polls' = 0
      /\ irqscalled' = irqscalled \ {Drive}
      /\ UNCHANGED <<work, cmds, sent, room, fdc, dataVars, irr, inService, kbVars, lost, writes, latest>>
  BY DEF WaitForIrq, Goto, historyVars
<1>2. Types' /\ Op' = Op
  BY <1>1, FlowTypes, ZeroPolls DEF Types, TypeOK, kbVars, Op
<1>3. Busy' /\ Together'
  BY <1>1, <1>2 DEF Busy, Together, Given
<1>4. OneRequest'
  BY <1>1, <1>2 DEF OneRequest
<1> QED BY <1>1, <1>2, <1>3, <1>4

\* A command is done when the controller is out of it.
LEMMA NextCommandStep ==
    ASSUME StepInv, NextCommand, pc \notin {"idle", "finish"}, fdc.phase \in {"idle", "done"},
           Drive \notin irr \cup irqscalled, inService' \subseteq {Keyboard, Drive},
           UNCHANGED <<work, sent, room, fdc, dataVars, irr, irqscalled, kbVars, lost, writes, latest>>
    PROVE  StepInv'
<1> USE DEF StepInv
<1>1. /\ cmds' = Tail(cmds) /\ pc' = (IF Len(cmds) = 1 THEN "finish" ELSE "command") /\ polls' = 0
  BY DEF NextCommand, Goto
<1>2. cmds' \in Seq(Commands) /\ (cmds' = <<>> <=> pc' = "finish")
  BY <1>1, CmdsFacts
<1>3. Types'
  BY <1>1, <1>2, FlowTypes, ZeroPolls DEF Types, TypeOK, kbVars
<1> QED BY <1>1, <1>2, <1>3 DEF Busy, Together, Given, OneRequest

\* After the wait, RESET is over and the other commands have results.
LEMMA SendEOIStep == ASSUME StepInv, SendEOI PROVE StepInv'
<1> USE DEF StepInv
<1>1. /\ pc = "eoi" /\ inService' \subseteq {Keyboard, Drive}
      /\ UNCHANGED <<work, sent, room, fdc, dataVars, irr, irqscalled, kbVars, lost, writes, latest>>
  BY DEF SendEOI, DriverEOI, historyVars, Types, TypeOK
<1>2. Drive \notin irr \cup irqscalled /\ fdc.phase # "exec"
  BY <1>1 DEF OneRequest
<1>3. CASE Op = "RESET"
  <2>1. Room(Op) = 0
    BY <1>1, <1>3, CmdsFacts
  <2>2. fdc.phase = "idle"
    BY <1>1, <1>2, <2>1 DEF Together, Given, Types, Fdc
  <2> QED BY <1>1, <1>2, <1>3, <2>2, NextCommandStep DEF SendEOI
<1>4. CASE Op # "RESET"
  <2>1. cmds' = cmds /\ pc' = "results" /\ polls' = 0
    BY <1>4 DEF SendEOI, Goto
  <2>2. Types' /\ Op' = Op
    BY <1>1, <2>1, FlowTypes, ZeroPolls DEF Types, TypeOK, kbVars, Op
  <2> QED BY <1>1, <1>2, <1>4, <2>1, <2>2 DEF Busy, Together, Given, OneRequest
<1> QED BY <1>3, <1>4

\* The controller has results exactly for the commands that have room for them.
LEMMA AwaitResultsStep == ASSUME StepInv, AwaitResults PROVE StepInv'
<1> USE DEF StepInv
<1>1. CASE ~fdc.ready
  BY <1>1, PollStep DEF AwaitResults
<1>2. CASE fdc.ready
  <2>1. /\ pc = "results" /\ fdc.phase # "exec" /\ Drive \notin irr \cup irqscalled
        /\ UNCHANGED <<work, sent, room, fdc, dataVars, picVars, kbVars, lost, writes, latest>>
    BY <1>2 DEF AwaitResults, Busy, OneRequest, historyVars
  <2>2. CASE Room(Op) = 0
    <3>1. fdc.phase = "idle"
      BY <2>1, <2>2 DEF Together, Given
    <3>2. NextCommand /\ UNCHANGED <<irr, irqscalled>> /\ inService' \subseteq {Keyboard, Drive}
      BY <1>2, <2>1, <2>2 DEF AwaitResults, picVars, Types, TypeOK
    <3> QED BY <2>1, <3>1, <3>2, NextCommandStep
  <2>3. CASE Room(Op) # 0
    <3>1. cmds' = cmds /\ pc' = "drain" /\ polls' = polls
      BY <1>2, <2>3 DEF AwaitResults
    <3>2. Types' /\ Op' = Op
      BY <2>1, <3>1, FlowTypes DEF Types, TypeOK, picVars, kbVars, Op
    <3> QED BY <1>2, <2>1, <2>3, <3>1, <3>2 DEF Busy, Together, Given, OneRequest, picVars
  <2> QED BY <2>2, <2>3
<1> QED BY <1>1, <1>2

\* A result byte is taken from a controller that has one.
LEMMA TakeResultStep == ASSUME StepInv, TakeResult PROVE StepInv'
<1> USE DEF StepInv
<1>1. /\ pc = "drain" /\ fdc.phase = "result" /\ fdc.ready /\ fdc.left \in 1..room /\ room \in 0..7
  BY DEF TakeResult, MoreResults, FromController, Together, Types, TypeOK
<1>2. /\ ~lost' /\ room' = room - 1 /\ pc' = "drained"
      /\ fdc' = [fdc EXCEPT !.left = @ - 1, !.ready = FALSE, !.phase = IF fdc.left = 1 THEN "done" ELSE @]
      /\ UNCHANGED <<work, cmds, sent, polls, dataVars, picVars, kbVars, writes, latest>>
  BY <1>1 DEF TakeResult, FromController
<1>3. Types'
  <2>0. fdc \in Fdc /\ fdc.left - 1 \in 0..8 /\ room' \in 0..7
    BY <1>1, <1>2 DEF Types
  <2>1. fdc' \in Fdc
    BY <1>2, <2>0 DEF Fdc
  <2> QED BY <1>2, <2>0, <2>1, FlowTypes DEF Types, TypeOK, picVars, kbVars
<1>4. Busy' /\ Together'
  BY <1>1, <1>2 DEF Busy, Together, Given, Types, Fdc
<1>5. OneRequest'
  BY <1>1, <1>2 DEF OneRequest, picVars
<1> QED BY <1>2, <1>3, <1>4, <1>5

\* The wait between two result bytes.
LEMMA AwaitNextStep == ASSUME StepInv, AwaitNext PROVE StepInv'
<1> USE DEF StepInv
<1>1. CASE ~fdc.ready
  BY <1>1, PollStep DEF AwaitNext
<1>2. CASE fdc.ready
  <2>1. /\ pc = "drained" /\ pc' = "drain"
        /\ UNCHANGED <<work, cmds, sent, room, polls, fdc, dataVars, picVars, kbVars, lost, writes, latest>>
    BY <1>2 DEF AwaitNext, historyVars
  <2>2. Types'
    BY <2>1, FlowTypes DEF Types, TypeOK, picVars, kbVars
  <2> QED BY <1>2, <2>1, <2>2 DEF Busy, Together, Given, OneRequest, picVars
<1> QED BY <1>1, <1>2

\* The results are all taken: the controller is out of the command.
LEMMA ResultsTakenStep == ASSUME StepInv, ResultsTaken PROVE StepInv'
<1> USE DEF StepInv
<1>1. pc = "drain" /\ fdc.phase \in {"idle", "done"} /\ Drive \notin irr \cup irqscalled
  BY DEF ResultsTaken, MoreResults, FromController, Together, OneRequest, Types, TypeOK
<1>2. CASE Error("FVNS")
  BY <1>2, ErrorStep
<1>3. CASE NextCommand /\ UNCHANGED <<work, sent, room, uninit, dataVars, fdc, picVars, kbVars, historyVars, fault>>
  <2>1. inService' \subseteq {Keyboard, Drive}
    BY <1>3 DEF picVars, Types, TypeOK
  <2> QED BY <1>1, <1>3, <2>1, NextCommandStep DEF picVars, historyVars
<1> QED BY <1>2, <1>3 DEF ResultsTaken

-----------------------------------------------------------------------------
\* Division with its remainder, for lba_2_chs.
LEMMA DivMod ==
    ASSUME NEW a \in Nat, NEW b \in Nat \ {0}
    PROVE  a = b * (a \div b) + (a % b) /\ a % b \in 0..b-1 /\ a \div b \in Nat
OBVIOUS

\* A multiple leaves room for b before the next.
LEMMA Multiples == ASSUME NEW b \in Nat, NEW x \in Nat, NEW y \in Nat, x < y PROVE b * x + b <= b * y
OBVIOUS

\* Quotient and remainder are unique.
LEMMA DivModOnce ==
    ASSUME NEW b \in Nat \ {0}, NEW x \in Nat, NEW y \in Nat, NEW r \in 0..b-1, NEW s \in 0..b-1,
           b * x + r = b * y + s
    PROVE  x = y /\ r = s
<1>1. ~(x < y)
  BY Multiples
<1>2. ~(y < x)
  BY Multiples
<1> QED BY <1>1, <1>2

\* lba_2_chs names a sector of the medium, the one that the controller finds there.
LEMMA Geometry ==
    ASSUME NEW lba \in Nat, lba < 2 * PerTrack * Cylinders
    PROVE  lba_2_chs(lba) \in Medium /\ Position(lba_2_chs(lba)) = lba
<1> DEFINE c == lba \div (2 * PerTrack)
           r == lba % (2 * PerTrack)
           h == r \div PerTrack
           s == lba % PerTrack
<1>1. 2 * PerTrack \in Nat \ {0} /\ PerTrack \in Nat \ {0}
  BY FloppyAssumption
<1>2. lba = 2 * PerTrack * c + r /\ r \in 0..2*PerTrack-1 /\ c \in Nat
  BY <1>1, DivMod
<1>3. r = PerTrack * h + (r % PerTrack) /\ r % PerTrack \in 0..PerTrack-1 /\ h \in Nat
  <2> HIDE DEF r
  <2>1. r \in Nat
    BY <1>1, <1>2
  <2>2. r = PerTrack * (r \div PerTrack) + (r % PerTrack) /\ r % PerTrack \in 0..PerTrack-1 /\ r \div PerTrack \in Nat
    BY <1>1, <2>1, DivMod
  <2> QED BY <2>2
<1>4. lba = PerTrack * (lba \div PerTrack) + s /\ s \in 0..PerTrack-1 /\ lba \div PerTrack \in Nat
  BY <1>1, DivMod
<1> HIDE DEF c, r, h, s
<1>5. h \in {0, 1}
  <2>1. ~(2 <= h)
    <3>1. PerTrack * 2 <= PerTrack * h \/ h < 2
      BY <1>1, <1>3
    <3> QED BY <1>1, <1>2, <1>3, <3>1
  <2> QED BY <1>3, <2>1
<1>6. c \in 0..Cylinders-1
  <2>1. ~(Cylinders <= c)
    <3>1. Cylinders <= c => 2 * PerTrack * Cylinders <= 2 * PerTrack * c
      BY <1>1, <1>2, FloppyAssumption
    <3> QED BY <1>1, <1>2, <3>1, FloppyAssumption
  <2> QED BY <1>2, <2>1, FloppyAssumption
<1>7. lba = PerTrack * (2 * c + h) + (r % PerTrack)
  <2>1. CASE h = 0
    BY <1>1, <1>2, <1>3, <2>1
  <2>2. CASE h = 1
    BY <1>1, <1>2, <1>3, <2>2
  <2> QED BY <1>5, <2>1, <2>2
<1>8. r % PerTrack = s
  <2>1. 2 * c + h \in Nat
    BY <1>2, <1>3
  <2>2. PerTrack * (2 * c + h) + (r % PerTrack) = PerTrack * (lba \div PerTrack) + s
    BY <1>4, <1>7
  <2> DEFINE x == 2 * c + h
             y == lba \div PerTrack
             u == r % PerTrack
  <2>3. x \in Nat /\ y \in Nat /\ u \in 0..PerTrack-1 /\ PerTrack * x + u = PerTrack * y + s
    BY <1>3, <1>4, <2>1, <2>2
  <2> HIDE DEF x, y, u
  <2>4. u = s
    BY <1>1, <1>4, <2>3, DivModOnce
  <2> QED BY <2>4 DEF u
<1>9. c % 256 = c
  BY <1>6, FloppyAssumption
<1>10. lba_2_chs(lba) = [cyl |-> c, head |-> h, sector |-> s + 1]
  BY <1>9 DEF lba_2_chs, c, r, h, s
<1> QED BY <1>1, <1>2, <1>4, <1>5, <1>6, <1>7, <1>8, <1>10 DEF Position, Medium

\* Two sectors of the medium have two positions.
LEMMA PositionOnce ==
    ASSUME NEW x \in Medium, NEW y \in Medium, Position(x) = Position(y)
    PROVE  x = y
<1>1. PerTrack * (2 * x.cyl + x.head) + (x.sector - 1) = PerTrack * (2 * y.cyl + y.head) + (y.sector - 1)
  BY FloppyAssumption DEF Position, Medium
<1>2. 2 * x.cyl + x.head = 2 * y.cyl + y.head /\ x.sector - 1 = y.sector - 1
  <2>1. 2 * x.cyl + x.head \in Nat /\ 2 * y.cyl + y.head \in Nat /\ x.sector - 1 \in 0..PerTrack-1 /\ y.sector - 1 \in 0..PerTrack-1
    BY FloppyAssumption DEF Medium
  <2> DEFINE c == 2 * x.cyl + x.head
             d == 2 * y.cyl + y.head
             r == x.sector - 1
             q == y.sector - 1
  <2>2. c \in Nat /\ d \in Nat /\ r \in 0..PerTrack-1 /\ q \in 0..PerTrack-1
        /\ PerTrack * c + r = PerTrack * d + q
    BY <1>1, <2>1
  <2> HIDE DEF c, d, r, q
  <2>3. c = d /\ r = q
    BY <2>2, FloppyAssumption, DivModOnce
  <2> QED BY <2>3 DEF c, d, r, q
<1>3. x.cyl = y.cyl /\ x.head = y.head /\ x.sector = y.sector
  <2>1. x.cyl \in Nat /\ x.head \in {0, 1} /\ x.sector \in Nat
        /\ y.cyl \in Nat /\ y.head \in {0, 1} /\ y.sector \in Nat
    BY FloppyAssumption DEF Medium
  <2> QED BY <1>2, <2>1
<1> QED BY <1>3 DEF Medium

\* The sectors of the file system are on the medium.
LEMMA AtMedium ==
    ASSUME NEW lba \in Lbas
    PROVE  lba_2_chs(Base + lba) \in Medium /\ Position(lba_2_chs(Base + lba)) = Base + lba
<1>1. Base + lba \in Nat /\ Base + lba < 2 * PerTrack * Cylinders
  BY FloppyAssumption
<1> QED BY <1>1, Geometry

\* A concatenation, part by part.
LEMMA ConcatFacts ==
    ASSUME NEW S, NEW s \in Seq(S), NEW t \in Seq(S)
    PROVE  /\ s \o t \in Seq(S) /\ Len(s \o t) = Len(s) + Len(t)
           /\ \A i \in 1..Len(s) : (s \o t)[i] = s[i]
           /\ \A i \in 1..Len(t) : (s \o t)[Len(s) + i] = t[i]
OBVIOUS

\* The commands for a transfer.
Planned(cs, op, lba) ==
    /\ cs \in Seq(Commands) /\ cs # <<>>
    /\ cs[Len(cs)] = Command("SENSE_INTERRUPT")
    /\ Len(cs) >= 2 =>
          cs[Len(cs) - 1] = [op |-> IF op = "read" THEN "READ_DATA" ELSE "WRITE_DATA", lba |-> lba]
    /\ \A i \in 1..Len(cs) - 2 : cs[i] \in Plain

\* Start plans the transfer, whether the floppy_init commands come before it or not.
LEMMA PlannedStart ==
    ASSUME NEW op \in {"read", "write"}, NEW lba \in Lbas, NEW first \in BOOLEAN
    PROVE  LET cs == (IF first THEN floppy_init ELSE <<>>) \o Transfers(op, lba)
           IN  Planned(cs, op, lba) /\ Len(cs) >= 2
<1> DEFINE init == IF first THEN floppy_init ELSE <<>>
           moves == Transfers(op, lba)
           cs == init \o moves
<1>1. init \in Seq(Commands) /\ \A i \in 1..Len(init) : init[i] \in Plain
  <2>1. floppy_init \in Seq(Commands) /\ \A i \in 1..Len(floppy_init) : floppy_init[i] \in Plain
    <3>1. \A i \in 1..7 : floppy_init[i] \in Plain
      BY DEF floppy_init, Command, Plain, PlainOps
    <3>2. floppy_init = [i \in 1..7 |-> floppy_init[i]]
      BY DEF floppy_init
    <3>3. Len(floppy_init) = 7
      BY <3>2
    <3> HIDE DEF floppy_init
    <3> QED BY <3>1, <3>2, <3>3 DEF Commands
  <2>2. <<>> \in Seq(Commands) /\ \A i \in 1..Len(<<>>) : <<>>[i] \in Plain
    OBVIOUS
  <2> QED BY <2>1, <2>2
<1>2. /\ moves \in Seq(Commands) /\ Len(moves) = 2
      /\ moves[1] = [op |-> IF op = "read" THEN "READ_DATA" ELSE "WRITE_DATA", lba |-> lba]
      /\ moves[2] = Command("SENSE_INTERRUPT")
  <2> DEFINE move == [op |-> IF op = "read" THEN "READ_DATA" ELSE "WRITE_DATA", lba |-> lba]
             sense == Command("SENSE_INTERRUPT")
  <2>1. move \in Commands /\ sense \in Commands
    BY DEF Command, Commands, Plain, PlainOps
  <2>2. moves = <<move, sense>>
    BY DEF Transfers
  <2> HIDE DEF move, sense, moves
  <2>3. moves \in Seq(Commands) /\ Len(moves) = 2 /\ moves[1] = move /\ moves[2] = sense
    BY <2>1, <2>2
  <2> QED BY <2>3 DEF move, sense
<1> HIDE DEF init, moves
<1>3. /\ cs \in Seq(Commands) /\ Len(cs) = Len(init) + 2 /\ Len(init) \in Nat
      /\ \A i \in 1..Len(init) : cs[i] = init[i]
      /\ cs[Len(init) + 1] = moves[1] /\ cs[Len(init) + 2] = moves[2]
  <2>1. init \in Seq(Commands) /\ moves \in Seq(Commands) /\ Len(moves) = 2 /\ Len(init) \in Nat
    BY <1>1, <1>2
  <2>2. \A i \in 1..Len(moves) : cs[Len(init) + i] = moves[i]
    BY <2>1, ConcatFacts
  <2>3. cs \in Seq(Commands) /\ Len(cs) = Len(init) + Len(moves)
    BY <2>1, ConcatFacts
  <2>4. \A i \in 1..Len(init) : cs[i] = init[i]
    BY <2>1, ConcatFacts
  <2> HIDE DEF cs
  <2> QED BY <2>1, <2>2, <2>3, <2>4
<1> HIDE DEF cs
<1>4. Planned(cs, op, lba) /\ Len(cs) >= 2
  BY <1>1, <1>2, <1>3 DEF Planned
<1> QED BY <1>4 DEF cs, init, moves

Steps == {"read", "write", "write2"} \X Lbas

\* A call asks for one sector, or for two that follow each other.
LEMMA CallWork ==
    ASSUME Call
    PROVE  /\ work' \in Seq(Steps) /\ work' # <<>>
           /\ work'[1][1] = "read"
           /\ \A i \in 1..Len(work') - 1 :
                 work'[i + 1][1] = "write" => work'[i] = <<"read", work'[i + 1][2]>>
<1>1. PICK first \in Lbas, last \in Lbas, op \in {"read", "write"} :
          /\ last \in {first, first + 1}
          /\ LET reads == [i \in 1..last - first + 1 |-> <<"read", first + i - 1>>]
                 write == <<IF first = last THEN "write" ELSE "write2", first>>
             IN  work' = IF op = "read" THEN reads ELSE reads \o <<write>> \o reads
  BY DEF Call
<1> DEFINE reads == [i \in 1..last - first + 1 |-> <<"read", first + i - 1>>]
           write == <<IF first = last THEN "write" ELSE "write2", first>>
<1>2. first \in Nat /\ last \in Nat
  BY FloppyAssumption
<1>3. /\ reads \in Seq(Steps) /\ Len(reads) = last - first + 1
      /\ \A i \in 1..Len(reads) : reads[i] = <<"read", first + i - 1>>
  <2>1. \A i \in 1..last - first + 1 : <<"read", first + i - 1>> \in Steps
    <3>1. \A i \in 1..last - first + 1 : first + i - 1 \in Lbas
      BY <1>1, <1>2
    <3> QED BY <3>1 DEF Steps
  <2>2. last - first + 1 \in Nat
    BY <1>1, <1>2
  <2> QED BY <2>1, <2>2
<1>4. <<write>> \in Seq(Steps) /\ Len(<<write>>) = 1 /\ <<write>>[1] = write
  BY DEF Steps
<1>5. work' = IF op = "read" THEN reads ELSE reads \o <<write>> \o reads
  BY <1>1
<1>6. write[1] = "write" => first = last /\ write = <<"write", first>>
  OBVIOUS
<1>7. write[1] # "read"
  OBVIOUS
<1> HIDE DEF reads, write
<1>8. CASE op = "read"
  <2>1. work' = reads /\ 1 \in 1..Len(reads) /\ Len(reads) \in Nat
    BY <1>1, <1>2, <1>3, <1>5, <1>8
  <2>2. \A i \in 1..Len(reads) - 1 : i + 1 \in 1..Len(reads) /\ reads[i + 1][1] # "write"
    BY <1>3, <2>1
  <2>3. reads[1][1] = "read" /\ reads # <<>>
    BY <1>3, <2>1
  <2> QED BY <1>3, <2>1, <2>2, <2>3
<1>9. CASE op # "read"
  <2> DEFINE front == reads \o <<write>>
  <2>1. /\ front \in Seq(Steps) /\ Len(front) = Len(reads) + Len(<<write>>)
        /\ \A i \in 1..Len(reads) : front[i] = reads[i]
    BY <1>3, <1>4, ConcatFacts
  <2>2. \A i \in 1..Len(<<write>>) : front[Len(reads) + i] = <<write>>[i]
    BY <1>3, <1>4, ConcatFacts
  <2>3. front[Len(reads) + 1] = write /\ Len(front) = Len(reads) + 1
    BY <1>4, <2>1, <2>2
  <2> HIDE DEF front
  <2>4. work' = front \o reads
    BY <1>5, <1>9 DEF front
  <2>5. /\ work' \in Seq(Steps) /\ Len(work') = Len(front) + Len(reads)
        /\ \A i \in 1..Len(front) : work'[i] = front[i]
    BY <1>3, <2>1, <2>4, ConcatFacts
  <2>6. \A i \in 1..Len(reads) : work'[Len(front) + i] = reads[i]
    <3>1. reads \in Seq(Steps) /\ front \in Seq(Steps)
      BY <1>3, <2>1
    <3>2. \A i \in 1..Len(reads) : (front \o reads)[Len(front) + i] = reads[i]
      BY <3>1, ConcatFacts
    <3> QED BY <2>4, <3>2
  <2>7. Len(reads) \in {1, 2} /\ (first = last <=> Len(reads) = 1)
    BY <1>1, <1>2, <1>3
  <2>8. work'[1] = <<"read", first>>
    BY <1>2, <1>3, <2>1, <2>3, <2>5, <2>7
  <2>9. ASSUME NEW i \in 1..Len(work') - 1, work'[i + 1][1] = "write"
        PROVE  work'[i] = <<"read", work'[i + 1][2]>>
    <3>1. i + 1 = Len(front)
      <4>1. CASE i + 1 \in 1..Len(reads)
        <5>1. work'[i + 1] = reads[i + 1]
          BY <2>1, <2>3, <2>5, <2>7, <4>1
        <5> QED BY <1>3, <2>9, <4>1, <5>1
      <4>2. CASE i + 1 > Len(front)
        <5>1. i + 1 - Len(front) \in 1..Len(reads)
          BY <2>3, <2>5, <2>7, <4>2
        <5>2. work'[i + 1] = reads[i + 1 - Len(front)]
          BY <2>3, <2>6, <2>7, <5>1
        <5> QED BY <1>3, <2>9, <5>1, <5>2
      <4> QED BY <2>3, <2>5, <2>7, <4>1, <4>2
    <3>2. work'[i + 1] = write
      BY <2>3, <2>5, <2>7, <3>1
    <3>3. Len(reads) = 1 /\ i = 1 /\ write = <<"write", first>>
      BY <1>6, <2>3, <2>7, <2>9, <3>1, <3>2
    <3> QED BY <2>8, <3>2, <3>3
  <2> QED BY <2>3, <2>5, <2>7, <2>8, <2>9
<1> QED BY <1>8, <1>9

\* A sector is a sequence, as TypeOK has it.
LEMMA SectorSeq == \A s \in Sector : s \in Seq(Nat)
<1> SUFFICES ASSUME NEW s \in Sector PROVE s \in Seq(Nat)
  OBVIOUS
<1>1. s = <<s[1], s[2]>> /\ s[1] \in Nat /\ s[2] \in Nat
  BY DEF Sector
<1>2. \A a, b \in Nat : <<a, b>> \in Seq(Nat)
  OBVIOUS
<1> QED BY <1>1, <1>2, Zenon

\* A call of the driver starts from outside any command.
LEMMA CallStep == ASSUME StepInv, Call PROVE StepInv'
<1>1. UNCHANGED <<cmds, pc, sent, room, polls, uninit, dataVars, fdc, picVars, kbVars, historyVars>>
  BY DEF Call
<1>2. Types'
  BY <1>1, CallWork DEF StepInv, Types, TypeOK, Steps, dataVars, picVars, kbVars, historyVars
<1> QED BY <1>1, <1>2, CallWork DEF StepInv, Busy, Together, OneRequest, Given, Op, picVars, historyVars

\* The commands of a transfer are planned.
LEMMA StartStep == ASSUME StepInv, Start PROVE StepInv'
<1> USE DEF StepInv
<1>1. CASE Head(work)[1] = "write2"
  BY <1>1, ErrorStep DEF Start
<1>2. CASE Head(work)[1] # "write2"
  <2>1. Head(work) \in Steps
    BY SeqFacts DEF Start, Types, Steps
  <2>2. Head(work)[1] \in {"read", "write"} /\ Head(work)[2] \in Lbas
    BY <1>2, <2>1 DEF Steps
  <2>3. /\ pc = "idle" /\ pc' = "command" /\ work # <<>>
        /\ cmds' = (IF uninit THEN floppy_init ELSE <<>>) \o Transfers(Head(work)[1], Head(work)[2])
        /\ writes' = (IF Head(work)[1] = "write" THEN writes + 1 ELSE writes)
        /\ dma' = IF Head(work)[1] = "write" THEN <<buffer[1], writes'>> ELSE dma
        /\ UNCHANGED <<work, sent, room, polls, buffer, disk, fdc, picVars, kbVars, lost, latest>>
    BY <1>2 DEF Start
  <2>4. cmds' \in Seq(Commands) /\ cmds' # <<>>
    <3>1. CASE uninit = TRUE
      BY <2>2, <2>3, <3>1, PlannedStart DEF Planned
    <3>2. CASE uninit # TRUE
      <4>1. cmds' = (IF FALSE THEN floppy_init ELSE <<>>) \o Transfers(Head(work)[1], Head(work)[2])
        BY <2>3, <3>2
      <4> QED BY <2>2, <4>1, PlannedStart DEF Planned
    <3> QED BY <3>1, <3>2
  <2>5. Types'
    <3>1. writes' \in Nat /\ dma' \in Sector
      BY <2>3 DEF Types, Sector
    <3>2. dma' \in Seq(Nat)
      BY <3>1, SectorSeq
    <3> QED BY <2>3, <2>4, <3>1, <3>2 DEF Types, TypeOK, picVars, kbVars
  <2> QED BY <2>3, <2>4, <2>5 DEF Busy, Together, Given, OneRequest, picVars
<1> QED BY <1>1, <1>2

\* The last command is over.
LEMMA FinishStep == ASSUME StepInv, Finish PROVE StepInv'
<1> USE DEF StepInv
<1>1. /\ pc = "finish" /\ pc' = "idle" /\ buffer' \in {<<0, 0>>, dma, buffer} /\ work' = Tail(work)
      /\ kb' \in {kb, "wait"}
      /\ UNCHANGED <<cmds, sent, room, polls, dma, disk, fdc, picVars, lost, writes, latest>>
  BY DEF Finish
<1>2. Types'
  <2>1. buffer' \in Sector /\ buffer' \in Seq(Nat)
    <3>1. buffer' \in Sector
      BY <1>1 DEF Types, Sector
    <3> QED BY <3>1, SectorSeq
  <2>2. work' \in Seq(Steps)
    BY <1>1, SeqFacts DEF Types, Busy, Steps
  <2> QED BY <1>1, <2>1, <2>2 DEF Types, TypeOK, Steps, picVars
<1> QED BY <1>1, <1>2 DEF Busy, Together, Given, OneRequest, picVars

\* The controller raises its request bit.
LEMMA BecomeReadyStep == ASSUME StepInv, BecomeReady PROVE StepInv'
<1> USE DEF StepInv
<1>1. /\ fdc' = [fdc EXCEPT !.ready = TRUE, !.phase = IF @ = "done" THEN "idle" ELSE @]
      /\ fdc.phase \in {"idle", "params", "result", "done"}
      /\ UNCHANGED <<work, cmds, pc, sent, room, polls, dataVars, picVars, kbVars, lost, writes, latest>>
  BY DEF BecomeReady, driverVars, historyVars
<1>2. /\ fdc' \in Fdc /\ fdc'.left = fdc.left /\ fdc'.cmd = fdc.cmd /\ fdc'.ready
      /\ fdc'.phase = IF fdc.phase = "done" THEN "idle" ELSE fdc.phase
  BY <1>1 DEF Types, Fdc
<1>3. Types' /\ Op' = Op
  BY <1>1, <1>2, FlowTypes DEF Types, TypeOK, picVars, kbVars, Op
<1> QED BY <1>1, <1>2, <1>3 DEF Busy, Together, Given, OneRequest, picVars

\* Where a command is executed: while the driver waits for it.
LEMMA Executing ==
    ASSUME StepInv, fdc.phase = "exec"
    PROVE  Given /\ fdc.cmd = Head(cmds) /\ pc \notin {"idle", "finish"} /\ Head(cmds) \in Commands
<1>1. Given /\ fdc.cmd = Head(cmds) /\ pc \notin {"idle", "finish"}
  <2>1. pc \in {"params", "irq", "blocked", "eoi", "results"}
    BY DEF StepInv, Types, TypeOK, Together
  <2>2. Given
    <3>1. CASE pc = "params"
      <4>1. sent \in Nat /\ Params(Op) \in Nat
        BY <3>1, CmdsFacts DEF StepInv, Types, TypeOK
      <4> QED BY <3>1, <4>1 DEF StepInv, Together, Given
    <3> QED BY <2>1, <3>1 DEF Given
  <2> QED BY <2>1, <2>2 DEF StepInv, Together
<1> QED BY <1>1, CmdsFacts DEF StepInv

\* Execution leaves the results that the driver will read, and the interrupt that it waits for.
LEMMA ExecuteStep == ASSUME StepInv, Execute PROVE StepInv'
<1> USE DEF StepInv
<1>1. /\ fdc.phase = "exec" /\ Given /\ fdc.cmd = Head(cmds) /\ pc \notin {"idle", "finish"}
      /\ Head(cmds) \in Commands /\ Drive \notin irr \cup irqscalled
      /\ UNCHANGED <<work, cmds, pc, sent, room, polls, inService, irqscalled, kbVars>>
  BY Executing DEF Execute, driverVars, OneRequest
<1>2. PICK n \in Results(Op) : fdc' = [fdc EXCEPT !.left = n, !.phase = IF n = 0 THEN "idle" ELSE "result"]
  BY <1>1 DEF Execute, Answer, Op
<1>3. n \in 0..Room(Op) /\ (n = 0 <=> Room(Op) = 0) /\ Room(Op) \in 0..7 /\ (Op = "RESET" => Room(Op) = 0)
  BY <1>1, <1>2, CmdsFacts
<1>4. /\ fdc' \in Fdc /\ fdc'.left = n /\ fdc'.phase = (IF n = 0 THEN "idle" ELSE "result")
  <2>1. fdc \in Fdc /\ n \in 0..8
    BY <1>3 DEF Types
  <2> QED BY <1>2, <2>1 DEF Fdc
<1>5. irr' = IF Op \in Interrupts \cup {"RESET"} THEN irr \cup {Drive} ELSE irr
  BY <1>1 DEF Execute, Op
<1>6. UNCHANGED <<lost, writes>>
  BY DEF Execute, ReadMoved, WriteMoved, Missed, historyVars
<1>7. /\ dma' \in Sector /\ disk' \in [Medium -> Sector] /\ latest' \in [Lbas -> Nat] /\ buffer' = buffer
  <2>1. CASE ~IsTransfer \/ Missed
    BY <2>1 DEF Execute, Missed, ReadMoved, WriteMoved, IsTransfer, dataVars, historyVars, Types
  <2>2. CASE IsTransfer /\ (ReadMoved \/ WriteMoved)
    <3>1. At \in Medium
      BY <1>1, <2>2, AtMedium DEF At, IsTransfer, Commands, Plain, PlainOps
    <3>2. CASE ReadMoved
      BY <3>1, <3>2 DEF ReadMoved, Types
    <3>3. CASE WriteMoved
      BY <3>1, <3>3 DEF WriteMoved, Types
    <3> QED BY <2>2, <3>2, <3>3
  <2> QED BY <2>1, <2>2 DEF Execute
<1>8. Types'
  <2>1. dma' \in Seq(Nat)
    BY <1>7, SectorSeq
  <2>2. fdc'.phase \in {"idle", "params", "exec", "result", "done"}
    BY <1>4
  <2> QED BY <1>1, <1>4, <1>5, <1>6, <1>7, <2>1, <2>2 DEF Types, TypeOK, kbVars
<1>9. Op' = Op /\ Room(Op)' = Room(Op) /\ Params(Op)' = Params(Op) /\ Given'
  BY <1>1 DEF Op, Given
<1>10. room = Room(Op) \/ Op = "RESET"
  BY <1>1 DEF Together
<1>11. Busy' /\ Together'
  BY <1>1, <1>3, <1>4, <1>9, <1>10 DEF Busy, Together, Given
<1>12. OneRequest'
  <2>1. pc = "params" => Op # "RESET" /\ sent = Params(Op)
    BY <1>1 DEF Together, Given
  <2>2. fdc'.phase # "exec"
    BY <1>4
  <2>3. Op \in Interrupts \cup {"RESET"} => pc \in {"irq", "blocked"} \/ (pc = "params" /\ Op \in Interrupts)
    BY <1>1, <2>1 DEF OneRequest, Given
  <2> QED BY <1>1, <1>5, <1>9, <2>1, <2>2, <2>3 DEF OneRequest
<1> QED BY <1>6, <1>8, <1>11, <1>12

\* An interrupt wakes its waiter or is stored.
LEMMA DeliverStep == ASSUME StepInv, NEW line \in {Keyboard, Drive}, Deliver(line) PROVE StepInv'
<1> USE DEF StepInv
<1>1. /\ line \in irr /\ irr' = irr \ {line} /\ inService' = inService \cup {line}
      /\ UNCHANGED <<work, cmds, sent, room, polls, dataVars, fdc, lost, writes, latest>>
  BY DEF Deliver, historyVars
<1>2. \/ line = Drive /\ pc = "blocked" /\ pc' = "eoi" /\ UNCHANGED <<irqscalled, kb>>
      \/ line = Keyboard /\ UNCHANGED <<pc, irqscalled>> /\ kb' = "read"
      \/ ~(line = Drive /\ pc = "blocked") /\ irqscalled' = irqscalled \cup {line} /\ UNCHANGED <<pc, kb>>
  BY DEF Deliver, Keyboard, Drive
<1>3. Types' /\ Op' = Op
  <2>1. pc' \in {pc, "eoi"} /\ kb' \in {kb, "read"} /\ UNION {irr', inService', irqscalled'} \subseteq {Keyboard, Drive}
    BY <1>1, <1>2 DEF Types, TypeOK
  <2> QED BY <1>1, <2>1, FlowTypes DEF Types, TypeOK, Op
<1>4. Keyboard # Drive
  BY DEF Keyboard, Drive
<1>5. Busy' /\ Together'
  BY <1>1, <1>2, <1>3 DEF Busy, Together, Given
<1>6. OneRequest'
  BY <1>1, <1>2, <1>3, <1>4 DEF OneRequest
<1> QED BY <1>1, <1>3, <1>5, <1>6

\* The keyboard's task has nothing to do with the controller.
LEMMA KeyboardStep == ASSUME StepInv, KeyboardTask \/ KeyPress PROVE StepInv'
<1> USE DEF StepInv
<1>1. /\ UNCHANGED <<driverVars, dataVars, fdc, historyVars>>
      /\ kb' \in {kb, "read", "blocked", "eoi", "wait"}
      /\ irr' \in {irr, irr \cup {Keyboard}} /\ irqscalled' \in {irqscalled, irqscalled \ {Keyboard}}
      /\ inService' \subseteq inService
  BY DEF KeyboardTask, KbWait, KbRead, KbEOI, KeyPress, picVars
<1>2. Types' /\ Op' = Op
  BY <1>1, FlowTypes DEF Types, TypeOK, driverVars, historyVars, Op
<1>3. Keyboard # Drive
  BY DEF Keyboard, Drive
<1>4. Busy' /\ Together'
  BY <1>1, <1>2 DEF Busy, Together, Given, driverVars
<1>5. OneRequest'
  BY <1>1, <1>2, <1>3 DEF OneRequest, driverVars
<1> QED BY <1>1, <1>2, <1>4, <1>5 DEF historyVars

\* Nothing has been sent at first.
LEMMA StepInit == Init => StepInv
<1> SUFFICES ASSUME Init PROVE StepInv
  OBVIOUS
<1>1. Medium = Medium /\ \A chs \in Medium : Position(chs) \in Nat
  BY FloppyAssumption DEF Medium, Position
<1>2. Types
  BY <1>1, ZeroPolls DEF Init, Types, TypeOK, Idle, Fdc, Sector
<1> QED BY <1>2 DEF Init, StepInv, Busy, Together, Given, OneRequest, Idle

\* StepInv is inductive.
LEMMA StepNext == ASSUME StepInv, [Next]_vars PROVE StepInv'
<1>1. CASE UNCHANGED vars
  <2>1. Types'
    BY <1>1 DEF StepInv, Types, TypeOK, vars, driverVars, dataVars, picVars, kbVars, historyVars
  <2> QED BY <1>1, <2>1 DEF StepInv, Busy, Together, Given, OneRequest, Op, vars, driverVars, picVars, historyVars
<1>2. CASE Driver
  BY <1>2, StartStep, FinishStep, SendCommandStep, SendParamStep, ParamsSentStep, ResetStep, WaitForIrqStep,
     SendEOIStep, AwaitResultsStep, TakeResultStep, AwaitNextStep, ResultsTakenStep DEF Driver
<1>3. CASE Controller
  BY <1>3, BecomeReadyStep, ExecuteStep DEF Controller
<1>4. CASE Timeout
  BY <1>4, ErrorStep DEF Timeout
<1> QED BY <1>1, <1>2, <1>3, <1>4, CallStep, KeyboardStep, DeliverStep DEF Next, Halted

\* FLOPPY_SEND_COMMAND keeps in step with the controller through every command: no byte is
\* written or read that the other side does not expect.
THEOREM InStepCorrect == Spec => []InStep
<1>1. StepInv => InStep
  BY DEF StepInv, Types, Together, InStep
<1>2. StepInv /\ [Next]_vars => StepInv'
  BY StepNext
<1> QED BY StepInit, <1>1, <1>2, PTL DEF Spec

-----------------------------------------------------------------------------
(***************************************************************************)
(* SectorsRight.  What the DMA buffer and the disk hold, for every place   *)
(* of the driver in a transfer.                                            *)
(***************************************************************************)
\* The transfer being made: its direction and its sector.
Way == Head(work)[1]
Place == Head(work)[2]

\* The command for it is behind the driver.
Moved ==
    \/ pc = "finish" \/ Len(cmds) = 1
    \/ Len(cmds) = 2 /\ (Given \/ pc \in {"drain", "drained"}) /\ fdc.phase # "exec"

\* The commands left are those of the transfer, and the channel is set for it.
OnCourse ==
    pc # "idle" =>
        /\ Way \in {"read", "write"} /\ direction = Way
        /\ pc # "finish" => Planned(cmds, Way, Place)

\* What the DMA buffer holds: a sector read, or the one to write over what was read.
Loaded ==
    pc # "idle" =>
        /\ Way = "read" /\ Moved /\ ~stale => dma = disk[lba_2_chs(Base + Place)]
        /\ Way = "write" => dma[2] = writes
        /\ Way = "write" /\ ~stale /\ Place \notin tainted => dma[1] = Base + Place

\* A write comes right after the read of its sector, which has filled the buffer.
ReadFirst ==
    /\ \A i \in 1..Len(work) - 1 : work[i + 1][1] = "write" => work[i] = <<"read", work[i + 1][2]>>
    /\ pc = "idle" /\ work # <<>> /\ Way = "write" /\ ~stale /\ Place \notin tainted =>
          buffer[1] = Base + Place

DiskRight ==
    \A chs \in Medium :
        LET lba == Position(chs) - Base
        IN  lba \notin tainted => disk[chs] = <<Position(chs), IF lba \in Lbas THEN latest[lba] ELSE 0>>

DataInv == OnCourse /\ Loaded /\ ReadFirst /\ DiskRight

\* The transfer in hand.
LEMMA WorkFacts ==
    ASSUME StepInv, work # <<>>
    PROVE  /\ Head(work) \in Steps /\ Place \in Lbas /\ Way \in {"read", "write", "write2"}
           /\ Head(work) = work[1] /\ Len(work) \in Nat \ {0} /\ Len(Tail(work)) = Len(work) - 1
           /\ \A i \in 1..Len(work) - 1 : Tail(work)[i] = work[i + 1]
           /\ (Tail(work) = <<>> <=> Len(work) = 1) /\ Tail(work) \in Seq(Steps)
<1>1. work \in Seq(Steps)
  BY DEF StepInv, Types, Steps
<1>2. Head(work) \in Steps
  BY <1>1, SeqFacts
<1> QED BY <1>1, <1>2, SeqFacts DEF Way, Place, Steps

\* With two commands left, the first is the transfer.
LEMMA TransferHead ==
    ASSUME StepInv, DataInv, pc \notin {"idle", "finish"}, Len(cmds) = 2
    PROVE  /\ Head(cmds) = [op |-> IF Way = "read" THEN "READ_DATA" ELSE "WRITE_DATA", lba |-> Place]
           /\ Params(Op) = 8 /\ Room(Op) = 7 /\ Op # "RESET" /\ Op \in Interrupts
<1>1. Head(cmds) = cmds[1]
  BY SeqFacts DEF StepInv, Types, Busy
<1>2. Head(cmds) = [op |-> IF Way = "read" THEN "READ_DATA" ELSE "WRITE_DATA", lba |-> Place]
  BY <1>1 DEF DataInv, OnCourse, Planned
<1> QED BY <1>2 DEF Op, Params, Room, Interrupts

\* Only the transfer is one, and then two commands are left.
LEMMA IsTransferHead ==
    ASSUME StepInv, DataInv, pc \notin {"idle", "finish"}
    PROVE  Op \in {"READ_DATA", "WRITE_DATA"} => Len(cmds) = 2
<1>1. Head(cmds) = cmds[1] /\ Len(cmds) \in Nat \ {0} /\ Planned(cmds, Way, Place)
  BY SeqFacts DEF StepInv, Types, Busy, DataInv, OnCourse
<1>2. CASE Len(cmds) = 1
  BY <1>1, <1>2 DEF Planned, Op, Command
<1>3. CASE Len(cmds) > 2
  <2>1. cmds[1] \in Plain
    BY <1>1, <1>3 DEF Planned
  <2>2. Op \in PlainOps
    BY <1>1, <2>1 DEF Op, Plain
  <2> QED BY <2>2 DEF PlainOps
<1>4. Len(cmds) = 1 \/ Len(cmds) = 2 \/ Len(cmds) > 2
  <2> DEFINE n == Len(cmds)
  <2>1. n \in Nat \ {0}
    BY <1>1
  <2> HIDE DEF n
  <2>2. n = 1 \/ n = 2 \/ n > 2
    BY <2>1
  <2> QED BY <2>2 DEF n
<1> QED BY <1>2, <1>3, <1>4

\* A step in the same transfer that moves no data, and no command with it.
LEMMA SameData ==
    ASSUME DataInv, UNCHANGED <<work, cmds, dataVars, stale, writes, latest, tainted>>,
           pc = "idle" <=> pc' = "idle", pc = "finish" <=> pc' = "finish",
           pc # "idle" => (Moved' => Moved)
    PROVE  DataInv'
<1>1. Way' = Way /\ Place' = Place
  BY DEF Way, Place
<1>2. OnCourse' /\ ReadFirst' /\ DiskRight'
  BY <1>1 DEF DataInv, OnCourse, ReadFirst, DiskRight, dataVars
<1>3. Loaded'
  BY <1>1 DEF DataInv, Loaded, dataVars
<1> QED BY <1>2, <1>3 DEF DataInv

\* In particular one that leaves the controller where it is.
LEMMA StillData ==
    ASSUME DataInv, UNCHANGED <<work, cmds, dataVars, stale, writes, latest, tainted, pc, sent, fdc>>
    PROVE  DataInv'
BY SameData DEF Moved, Given, Op

\* ERROR moves no data.
LEMMA ErrorData == ASSUME DataInv, NEW code, Error(code) PROVE DataInv'
BY StillData DEF Error, driverVars, historyVars

\* Nor does one more turn of a loop that polls.
LEMMA PollData == ASSUME DataInv, NEW code, Poll(code) PROVE DataInv'
BY StillData, ErrorData DEF Poll, historyVars

\* The next command, or the end of the transfer.
LEMMA NextCommandData ==
    ASSUME StepInv, DataInv, NextCommand, pc \notin {"idle", "finish"}, Len(cmds) # 2 \/ Moved,
           UNCHANGED <<work, dataVars, stale, writes, latest, tainted>>
    PROVE  DataInv'
<1>1. cmds' = Tail(cmds) /\ pc' = (IF Len(cmds) = 1 THEN "finish" ELSE "command")
  BY DEF NextCommand, Goto
<1>2. cmds \in Seq(Commands) /\ cmds # <<>> /\ Planned(cmds, Way, Place)
  BY DEF StepInv, Types, Busy, DataInv, OnCourse
<1>3. /\ Len(cmds) \in Nat \ {0} /\ Len(cmds') = Len(cmds) - 1 /\ cmds' \in Seq(Commands)
      /\ (cmds' = <<>> <=> Len(cmds) = 1)
      /\ \A i \in 1..Len(cmds) - 1 : cmds'[i] = cmds[i + 1]
  BY <1>1, <1>2, SeqFacts
<1>4. Way' = Way /\ Place' = Place
  BY DEF Way, Place
<1>5. OnCourse'
  <2>1. CASE Len(cmds) = 1
    BY <1>1, <1>4, <2>1 DEF DataInv, OnCourse, dataVars
  <2>2. CASE Len(cmds) # 1
    <3>1. cmds' # <<>> /\ cmds'[Len(cmds')] = cmds[Len(cmds)]
      BY <1>3, <2>2
    <3>2. Len(cmds') >= 2 => cmds'[Len(cmds') - 1] = cmds[Len(cmds) - 1]
      BY <1>3, <2>2
    <3>3. \A i \in 1..Len(cmds') - 2 : cmds'[i] \in Plain
      <4>1. \A i \in 1..Len(cmds') - 2 : i + 1 \in 1..Len(cmds) - 2 /\ cmds'[i] = cmds[i + 1]
        BY <1>3, <2>2
      <4> QED BY <1>2, <4>1 DEF Planned
    <3>4. Planned(cmds', Way, Place)
      BY <1>2, <1>3, <3>1, <3>2, <3>3 DEF Planned
    <3> QED BY <1>1, <1>4, <3>4 DEF DataInv, OnCourse, dataVars
  <2> QED BY <2>1, <2>2
<1>6. Moved' => Moved
  <2>1. ~Given'
    BY <1>1 DEF Given
  <2>2. Moved' => Len(cmds) = 1 \/ Len(cmds) = 2
    BY <1>1, <1>3, <2>1 DEF Moved
  <2> QED BY <2>2 DEF Moved
<1>7. Loaded'
  BY <1>4, <1>6 DEF DataInv, Loaded, dataVars
<1>8. ReadFirst' /\ DiskRight'
  BY <1>1, <1>4 DEF DataInv, ReadFirst, DiskRight, dataVars
<1> QED BY <1>5, <1>7, <1>8 DEF DataInv

\* FLOPPY_SEND_COMMAND moves no data itself.
LEMMA CommandData ==
    ASSUME StepInv, DataInv,
           SendCommand \/ SendParam \/ ParamsSent \/ Reset \/ WaitForIrq \/ SendEOI
           \/ AwaitResults \/ TakeResult \/ AwaitNext \/ ResultsTaken
    PROVE  DataInv'
<1> USE DEF historyVars
<1>1. CASE SendCommand
  <2>1. CASE ~Ready
    BY <1>1, <2>1, PollData DEF SendCommand
  <2>2. CASE Ready
    <3>1. /\ pc = "command" /\ pc' = "params" /\ sent' = 0
          /\ UNCHANGED <<work, cmds, dataVars, stale, writes, latest, tainted>>
      BY <1>1, <2>2 DEF SendCommand, Goto
    <3>2. Moved' => Moved
      <4>1. CASE Len(cmds) = 2
        BY <3>1, <4>1, TransferHead DEF Moved, Given, Op
      <4> QED BY <3>1, <4>1 DEF Moved
    <3> QED BY <3>1, <3>2, SameData
  <2> QED BY <2>1, <2>2
<1>2. CASE SendParam
  <2>1. CASE ~Ready
    BY <1>2, <2>1, PollData DEF SendParam
  <2>2. CASE Ready
    <3>1. /\ pc = "params" /\ pc' = "params" /\ sent' = sent + 1 /\ sent < Params(Op)
          /\ UNCHANGED <<work, cmds, dataVars, stale, writes, latest, tainted>>
      BY <1>2, <2>2 DEF SendParam, Goto
    <3>2. fdc.ready /\ fdc.phase = "params" /\ fdc.left = Params(Op) - sent
      BY <2>2, <3>1 DEF StepInv, Together, Ready, FromController
    <3>3. Moved' => Moved
      <4>1. CASE Len(cmds) = 2
        <5>1. Params(Op) = 8 /\ sent \in Nat /\ fdc \in Fdc
          BY <3>1, <4>1, TransferHead DEF StepInv, Types, TypeOK
        <5>2. fdc' = [fdc EXCEPT !.left = @ - 1, !.ready = FALSE,
                                 !.phase = IF fdc.left = 1 THEN "exec" ELSE @]
          BY <1>2, <2>2, <3>2 DEF SendParam, Write
        <5>3. Given' => fdc'.phase = "exec"
          <6>1. Given' => sent + 1 = 8
            BY <3>1, <5>1 DEF Given, Op
          <6>2. sent + 1 = 8 => fdc.left = 1
            BY <3>2, <5>1
          <6> QED BY <5>1, <5>2, <6>1, <6>2 DEF Fdc
        <5> QED BY <3>1, <4>1, <5>3 DEF Moved
      <4> QED BY <3>1, <4>1 DEF Moved
    <3> QED BY <3>1, <3>3, SameData
  <2> QED BY <2>1, <2>2
<1>3. CASE ParamsSent
  <2>1. /\ pc = "params" /\ pc' \in {"irq", "results"} /\ Given
        /\ UNCHANGED <<work, cmds, fdc, dataVars, stale, writes, latest, tainted>>
    BY <1>3 DEF ParamsSent, Goto, Given
  <2> QED BY <2>1, SameData DEF Moved
<1>4. CASE Reset
  <2>1. /\ pc = "command" /\ pc' = "irq" /\ fdc'.phase = "exec"
        /\ UNCHANGED <<work, cmds, dataVars, stale, writes, latest, tainted>>
    BY <1>4 DEF Reset, Goto
  <2> QED BY <2>1, SameData DEF Moved
<1>5. CASE WaitForIrq
  <2>1. /\ pc = "irq" /\ pc' \in {"eoi", "blocked"}
        /\ UNCHANGED <<work, cmds, fdc, dataVars, stale, writes, latest, tainted>>
    BY <1>5 DEF WaitForIrq, Goto
  <2> QED BY <2>1, SameData DEF Moved, Given
<1>6. CASE SendEOI
  <2>1. pc = "eoi" /\ UNCHANGED <<work, fdc, dataVars, stale, writes, latest, tainted>>
    BY <1>6 DEF SendEOI
  <2>2. CASE Op = "RESET"
    BY <1>6, <2>1, <2>2, TransferHead, NextCommandData DEF SendEOI
  <2>3. CASE Op # "RESET"
    <3>1. cmds' = cmds /\ pc' = "results"
      BY <1>6, <2>3 DEF SendEOI, Goto
    <3> QED BY <2>1, <3>1, SameData DEF Moved, Given
  <2> QED BY <2>2, <2>3
<1>7. CASE AwaitResults
  <2>1. CASE ~fdc.ready
    BY <1>7, <2>1, PollData DEF AwaitResults
  <2>2. CASE fdc.ready
    <3>1. pc = "results" /\ UNCHANGED <<work, fdc, dataVars, stale, writes, latest, tainted>>
      BY <1>7, <2>2 DEF AwaitResults
    <3>2. CASE Room(Op) = 0
      BY <1>7, <2>2, <3>1, <3>2, TransferHead, NextCommandData DEF AwaitResults
    <3>3. CASE Room(Op) # 0
      <4>1. cmds' = cmds /\ pc' = "drain"
        BY <1>7, <2>2, <3>3 DEF AwaitResults
      <4> QED BY <3>1, <4>1, SameData DEF Moved, Given
    <3> QED BY <3>2, <3>3
  <2> QED BY <2>1, <2>2
<1>8. CASE TakeResult
  <2>1. /\ pc = "drain" /\ pc' = "drained" /\ fdc.phase # "exec"
        /\ UNCHANGED <<work, cmds, dataVars, stale, writes, latest, tainted>>
    BY <1>8 DEF TakeResult, StepInv, Together
  <2> QED BY <2>1, SameData DEF Moved
<1>9. CASE AwaitNext
  <2>1. CASE ~fdc.ready
    BY <1>9, <2>1, PollData DEF AwaitNext
  <2>2. CASE fdc.ready
    <3>1. /\ pc = "drained" /\ pc' = "drain"
          /\ UNCHANGED <<work, cmds, fdc, dataVars, stale, writes, latest, tainted>>
      BY <1>9, <2>2 DEF AwaitNext
    <3> QED BY <3>1, SameData DEF Moved
  <2> QED BY <2>1, <2>2
<1>10. CASE ResultsTaken
  <2>1. pc = "drain" /\ fdc.phase # "exec"
    BY <1>10 DEF ResultsTaken, StepInv, Together
  <2>2. Len(cmds) # 2 \/ Moved
    BY <2>1 DEF Moved
  <2> QED BY <1>10, <2>1, <2>2, ErrorData, NextCommandData DEF ResultsTaken
<1> QED BY <1>1, <1>2, <1>3, <1>4, <1>5, <1>6, <1>7, <1>8, <1>9, <1>10

\* The controller and the interrupts, apart from a command that is executed.
LEMMA OutsideData ==
    ASSUME StepInv, DataInv,
           BecomeReady \/ KeyboardTask \/ KeyPress \/ \E line \in {Keyboard, Drive} : Deliver(line)
    PROVE  DataInv'
<1> USE DEF historyVars, driverVars
<1>1. CASE BecomeReady
  <2>1. /\ UNCHANGED <<work, cmds, pc, sent, dataVars, stale, writes, latest, tainted>>
        /\ fdc.phase # "exec"
    BY <1>1 DEF BecomeReady
  <2> QED BY <2>1, SameData DEF Moved, Given, Op
<1>2. CASE KeyboardTask \/ KeyPress
  BY <1>2, StillData DEF KeyboardTask, KbWait, KbRead, KbEOI, KeyPress
<1>3. CASE \E line \in {Keyboard, Drive} : Deliver(line)
  <2>1. /\ UNCHANGED <<work, cmds, sent, fdc, dataVars, stale, writes, latest, tainted>>
        /\ pc' = pc \/ (pc = "blocked" /\ pc' = "eoi")
    BY <1>3 DEF Deliver
  <2> QED BY <2>1, SameData DEF Moved, Given, Op
<1> QED BY <1>1, <1>2, <1>3

\* A call reads each sector that it means to write.
LEMMA CallData == ASSUME StepInv, DataInv, Call PROVE DataInv'
<1>1. /\ pc = "idle" /\ work' \in Seq(Steps) /\ work' # <<>> /\ work'[1][1] = "read"
      /\ UNCHANGED <<pc, dataVars, latest, tainted>>
      /\ \A i \in 1..Len(work') - 1 : work'[i + 1][1] = "write" => work'[i] = <<"read", work'[i + 1][2]>>
  BY CallWork DEF Call, historyVars
<1>2. Way' = "read"
  BY <1>1, SeqFacts DEF Way
<1> QED BY <1>1, <1>2 DEF DataInv, OnCourse, Loaded, ReadFirst, DiskRight, dataVars

\* The channel is set for the transfer before its command is sent.
LEMMA StartData == ASSUME StepInv, DataInv, Start PROVE DataInv'
<1>1. CASE Head(work)[1] = "write2"
  BY <1>1, ErrorData DEF Start
<1>2. CASE Head(work)[1] # "write2"
  <2>1. /\ pc = "idle" /\ pc' = "command" /\ work # <<>>
        /\ cmds' = (IF uninit THEN floppy_init ELSE <<>>) \o Transfers(Way, Place)
        /\ direction' = Way
        /\ writes' = (IF Way = "write" THEN writes + 1 ELSE writes)
        /\ dma' = (IF Way = "write" THEN <<buffer[1], writes'>> ELSE dma)
        /\ UNCHANGED <<work, buffer, disk, stale, latest, tainted>>
    BY <1>2 DEF Start, Way, Place
  <2>2. Way \in {"read", "write"} /\ Place \in Lbas /\ Way' = Way /\ Place' = Place
    BY <1>2, <2>1, WorkFacts DEF Way, Place
  <2>3. Planned(cmds', Way, Place) /\ Len(cmds') >= 2
    <3>1. CASE uninit = TRUE
      BY <2>1, <2>2, <3>1, PlannedStart
    <3>2. CASE uninit # TRUE
      <4>1. cmds' = (IF FALSE THEN floppy_init ELSE <<>>) \o Transfers(Way, Place)
        BY <2>1, <3>2
      <4> QED BY <2>2, <4>1, PlannedStart
    <3> QED BY <3>1, <3>2
  <2>4. ~Moved'
    BY <2>1, <2>3 DEF Moved, Given
  <2>5. OnCourse' /\ ReadFirst' /\ DiskRight'
    BY <2>1, <2>2, <2>3 DEF DataInv, OnCourse, ReadFirst, DiskRight
  <2>6. Loaded'
    BY <2>1, <2>2, <2>4 DEF DataInv, Loaded, ReadFirst
  <2> QED BY <2>5, <2>6 DEF DataInv
<1> QED BY <1>1, <1>2

\* A sector read without an error is the one that was asked for.
LEMMA ReadRight ==
    ASSUME StepInv, DataInv, pc # "idle", Way = "read", Moved, ~stale, Place \notin tainted
    PROVE  dma = <<Base + Place, latest[Place]>>
<1>1. Place \in Lbas
  BY WorkFacts DEF StepInv, Busy
<1> DEFINE chs == lba_2_chs(Base + Place)
<1>2. chs \in Medium /\ Position(chs) = Base + Place /\ Base + Place - Base = Place
  BY <1>1, AtMedium, FloppyAssumption
<1>3. dma = disk[chs]
  BY DEF DataInv, Loaded
<1> HIDE DEF chs
<1>4. Position(chs) - Base = Place
  <2>1. Base \in Nat /\ Place \in Nat
    BY <1>1, FloppyAssumption
  <2> QED BY <1>2, <2>1
<1>5. disk[chs] = <<Position(chs), IF Position(chs) - Base \in Lbas THEN latest[Position(chs) - Base] ELSE 0>>
  <2>1. Position(chs) - Base \notin tainted
    BY <1>4
  <2> QED BY <1>2, <2>1 DEF DataInv, DiskRight
<1> QED BY <1>1, <1>2, <1>3, <1>4, <1>5

\* The end of a read fills the buffer, for the write that may follow.
LEMMA FinishData == ASSUME StepInv, DataInv, Finish PROVE DataInv'
<1>1. /\ pc = "finish" /\ pc' = "idle" /\ work' = Tail(work)
      /\ buffer' = CASE work' = <<>> -> <<0, 0>> [] Way = "read" -> dma [] OTHER -> buffer
      /\ stale' = (stale /\ work' # <<>>)
      /\ UNCHANGED <<disk, latest, tainted>>
  BY DEF Finish, Way
<1>2. work # <<>> /\ Moved
  BY <1>1 DEF StepInv, Busy, Moved
<1>3. ReadFirst'
  <2>1. \A i \in 1..Len(work') - 1 : work'[i + 1][1] = "write" => work'[i] = <<"read", work'[i + 1][2]>>
    <3>1. \A i \in 1..Len(work') - 1 :
              /\ i + 1 \in 1..Len(work) - 1 /\ work'[i] = work[i + 1] /\ work'[i + 1] = work[i + 1 + 1]
      BY <1>1, <1>2, WorkFacts
    <3> QED BY <3>1 DEF DataInv, ReadFirst
  <2>2. ASSUME work' # <<>>, Way' = "write", ~stale', Place' \notin tainted'
        PROVE  buffer'[1] = Base + Place'
    <3>1. /\ Len(work) - 1 >= 1 /\ Len(work) \in Nat /\ Head(work) = work[1] /\ Tail(work)[1] = work[2]
          /\ work' \in Seq(Steps)
      BY <1>1, <1>2, <2>2, WorkFacts
    <3>2. Head(work') = work[2]
      BY <1>1, <2>2, <3>1, SeqFacts
    <3>3. work[1] = <<"read", work[2][2]>>
      <4>1. work[1 + 1][1] = "write"
        BY <2>2, <3>2 DEF Way
      <4>2. 1 \in 1..Len(work) - 1
        BY <3>1
      <4>3. work[1] = <<"read", work[1 + 1][2]>>
        BY <4>1, <4>2 DEF DataInv, ReadFirst
      <4> QED BY <4>3
    <3>4. Way = "read" /\ Place = Place' /\ Place \notin tainted /\ ~stale
      <4>1. Place' = work[2][2]
        BY <3>2 DEF Place
      <4>2. Way = "read" /\ Place = work[2][2]
        <5>1. Head(work) = <<"read", work[2][2]>>
          BY <3>1, <3>3
        <5> QED BY <5>1 DEF Way, Place
      <4>3. ~stale /\ tainted' = tainted
        BY <1>1, <2>2
      <4> QED BY <2>2, <4>1, <4>2, <4>3
    <3>5. buffer' = <<Base + Place, latest[Place]>>
      BY <1>1, <1>2, <2>2, <3>4, ReadRight
    <3> QED BY <3>4, <3>5
  <2> QED BY <2>1, <2>2 DEF ReadFirst
<1>4. OnCourse' /\ Loaded' /\ DiskRight'
  BY <1>1 DEF DataInv, OnCourse, Loaded, DiskRight
<1> QED BY <1>3, <1>4 DEF DataInv

\* The controller moves the sector, or misses it.
LEMMA ExecuteData == ASSUME StepInv, DataInv, Execute PROVE DataInv'
<1>1. /\ fdc.phase = "exec" /\ Given /\ fdc.cmd = Head(cmds) /\ pc \notin {"idle", "finish"}
      /\ work # <<>> /\ Place \in Lbas
      /\ UNCHANGED <<work, cmds, pc, sent>>
  BY Executing, WorkFacts DEF Execute, driverVars, StepInv, Busy
<1>2. Way' = Way /\ Place' = Place /\ Way \in {"read", "write"} /\ direction = Way
  BY <1>1 DEF Way, Place, DataInv, OnCourse
<1>3. CASE ~IsTransfer
  <2>1. UNCHANGED <<dataVars, historyVars>> /\ Len(cmds) # 2
    <3>1. Op \notin {"READ_DATA", "WRITE_DATA"}
      BY <1>1, <1>3 DEF IsTransfer, Op
    <3> QED BY <1>1, <1>3, <3>1, TransferHead DEF Execute, Op
  <2>2. Moved' => Moved
    BY <1>1, <2>1 DEF Moved
  <2> QED BY <1>1, <2>1, <2>2, SameData DEF historyVars
<1>4. CASE IsTransfer
  <2>1. /\ Len(cmds) = 2
        /\ Head(cmds) = [op |-> IF Way = "read" THEN "READ_DATA" ELSE "WRITE_DATA", lba |-> Place]
    BY <1>1, <1>4, IsTransferHead, TransferHead DEF IsTransfer, Op
  <2>2. fdc.cmd.lba = Place /\ (fdc.cmd.op = "READ_DATA" <=> Way = "read") /\ (fdc.cmd.op = "WRITE_DATA" <=> Way = "write")
    BY <1>1, <1>2, <2>1
  <2>3. At = lba_2_chs(Base + Place) /\ At \in Medium /\ Position(At) = Base + Place
    BY <1>1, <2>2, AtMedium DEF At
  <2>4. OnCourse' \/ direction' # direction
    BY <1>1, <1>2 DEF DataInv, OnCourse
  <2>5. CASE ReadMoved
    <3>1. /\ Way = "read" /\ dma' = disk[At] /\ ~stale'
          /\ UNCHANGED <<direction, buffer, disk, writes, latest, tainted>>
      BY <1>2, <2>2, <2>5 DEF ReadMoved
    <3>2. Loaded'
      BY <1>2, <2>3, <3>1 DEF Loaded
    <3>3. ReadFirst' /\ DiskRight'
      BY <1>1, <1>2, <3>1 DEF DataInv, ReadFirst, DiskRight
    <3> QED BY <2>4, <3>1, <3>2, <3>3 DEF DataInv
  <2>6. CASE Missed
    <3>1. UNCHANGED <<dataVars, writes, latest>> /\ tainted \subseteq tainted'
          /\ (Way = "read" => stale') /\ (Way = "write" => stale' = stale)
      BY <1>2, <2>2, <2>6 DEF Missed
    <3>2. Loaded'
      BY <1>1, <1>2, <3>1 DEF DataInv, Loaded, dataVars
    <3>3. ReadFirst' /\ DiskRight'
      BY <1>1, <1>2, <3>1 DEF DataInv, ReadFirst, DiskRight, dataVars
    <3> QED BY <2>4, <3>1, <3>2, <3>3 DEF DataInv, dataVars
  <2>7. CASE WriteMoved
    <3>1. /\ Way = "write" /\ disk' = [disk EXCEPT ![At] = dma]
          /\ latest' = [latest EXCEPT ![Place] = writes]
          /\ tainted \subseteq tainted' /\ (stale => Place \in tainted')
          /\ UNCHANGED <<direction, dma, buffer, stale, writes>>
      BY <1>2, <2>2, <2>7 DEF WriteMoved
    <3>2. Loaded' /\ ReadFirst'
      BY <1>1, <1>2, <3>1 DEF DataInv, Loaded, ReadFirst
    <3>3. DiskRight'
      <4>1. SUFFICES ASSUME NEW chs \in Medium, Position(chs) - Base \notin tainted'
                     PROVE  disk'[chs] = <<Position(chs),
                                IF Position(chs) - Base \in Lbas THEN latest'[Position(chs) - Base] ELSE 0>>
        BY DEF DiskRight
      <4>2. disk \in [Medium -> Sector] /\ dma \in Sector /\ latest \in [Lbas -> Nat]
        BY DEF StepInv, Types
      <4>3. Position(chs) - Base \notin tainted
        BY <3>1, <4>1
      <4>4. CASE chs = At
        <5>1. Position(chs) - Base = Place /\ Position(chs) = Base + Place
          BY <1>1, <2>3, <4>4, FloppyAssumption
        <5>2. ~stale /\ Place \notin tainted
          BY <3>1, <4>1, <4>3, <5>1
        <5>3. dma = <<Base + Place, writes>>
          <6>1. dma[1] = Base + Place /\ dma[2] = writes
            BY <1>1, <3>1, <5>2 DEF DataInv, Loaded
          <6> QED BY <4>2, <6>1 DEF Sector
        <5>4. disk'[chs] = dma /\ latest'[Place] = writes
          BY <1>1, <3>1, <4>2, <4>4
        <5> QED BY <1>1, <5>1, <5>3, <5>4
      <4>5. CASE chs # At
        <5>1. Position(chs) # Base + Place
          BY <2>3, <4>5, PositionOnce
        <5>2. Position(chs) \in Int /\ Base \in Int /\ Place \in Int
          BY <1>1, FloppyAssumption DEF Position, Medium
        <5>3. Position(chs) - Base # Place
          BY <5>1, <5>2
        <5>4. disk'[chs] = disk[chs]
          BY <3>1, <4>2, <4>5
        <5>5. Position(chs) - Base \in Lbas => latest'[Position(chs) - Base] = latest[Position(chs) - Base]
          BY <3>1, <4>2, <5>3
        <5> QED BY <4>3, <5>4, <5>5 DEF DataInv, DiskRight
      <4> QED BY <4>4, <4>5
    <3> QED BY <2>4, <3>1, <3>2, <3>3 DEF DataInv
  <2> QED BY <1>4, <2>5, <2>6, <2>7 DEF Execute
<1> QED BY <1>3, <1>4

\* The medium is as it was made.
LEMMA DataInit == Init => DataInv
<1> SUFFICES ASSUME Init PROVE DataInv
  OBVIOUS
<1>1. DiskRight
  BY DEF Init, DiskRight
<1> QED BY <1>1 DEF Init, DataInv, OnCourse, Loaded, ReadFirst

\* DataInv is inductive, given StepInv.
LEMMA DataNext == ASSUME StepInv, DataInv, [Next]_vars PROVE DataInv'
<1>1. CASE UNCHANGED vars
  BY <1>1, StillData DEF vars, driverVars, historyVars
<1>2. CASE Driver
  BY <1>2, StartData, FinishData, CommandData DEF Driver
<1>3. CASE Controller
  BY <1>3, OutsideData, ExecuteData DEF Controller
<1>4. CASE Timeout
  BY <1>4, ErrorData DEF Timeout
<1> QED BY <1>1, <1>2, <1>3, <1>4, CallData, OutsideData DEF Next, Halted

\* While no transfer fails, FLOPPY_READ_L and FLOPPY_WRITE_L move the sectors that were asked
\* for: a read ends with the last contents of its sector, a write leaves the others alone.
THEOREM SectorsRightCorrect == Spec => []SectorsRight
<1>1. StepInv /\ DataInv => SectorsRight
  <2> SUFFICES ASSUME StepInv, DataInv PROVE SectorsRight
    OBVIOUS
  <2>1. pc = "finish" /\ Way = "read" /\ ~stale /\ Place \notin tainted =>
            dma = <<Base + Place, latest[Place]>>
    BY ReadRight DEF Moved
  <2> QED BY <2>1 DEF DataInv, DiskRight, SectorsRight, Way, Place
<1>2. StepInv /\ [Next]_vars => StepInv'
  BY StepNext
<1>3. StepInv /\ DataInv /\ [Next]_vars => DataInv'
  BY DataNext
<1> QED BY StepInit, DataInit, <1>1, <1>2, <1>3, PTL DEF Spec

===============================================================================
