-------------------------- MODULE InterruptsProofs --------------------------
(***************************************************************************)
(* What holds of interrupts for every screen, table of gates, text, set of *)
(* keys and devices, and in every interleaving of kmain, the handler and   *)
(* the devices: the gates are there in time, what is in service is ended,  *)
(* no byte is stranded, the shift is never stuck, kmain and the handler    *)
(* never print at the same time, and the screen shows what was printed and *)
(* typed.                                                                  *)
(***************************************************************************)
EXTENDS Interrupts, SequenceTheorems, WellFoundedInduction, TLAPS

Steps == {"main", "eoi", "dispatch", "timer", "status", "read", "return"}

\* A console is a record of its three fields, with its cursor on the screen.
IsConsole(k) ==
    /\ k = [col |-> k.col, lin |-> k.lin, cells |-> k.cells]
    /\ k.col \in Columns /\ k.lin \in Lines

\* TypeOK, and the types of what it does not mention.
StateOK ==
    /\ TypeOK
    /\ step \in Steps
    /\ IsConsole(con) /\ (at = <<>> \/ at \in Screen)
    /\ shift_ \in BOOLEAN
    /\ sent \in Seq(Code) /\ held \subseteq Keys
    /\ step = "read" => buffer # <<>>

-----------------------------------------------------------------------------
\* The order of kmain.
LEMMA ProgramIs ==
    /\ Len(Program) = 10
    /\ Program[1] = "exceptions" /\ Program[2] = "remap" /\ Program[3] = "irqs"
    /\ Program[4] = "syscall" /\ Program[5] = "sti" /\ Program[6] = "clear"
    /\ Program[7] = "print" /\ Program[8] = "timer" /\ Program[9] = "keyboard"
    /\ Program[10] = "halt"
BY DEF Program

\* Each part of kmain has its place.
LEMMA RunsWhere ==
    ASSUME main \in 1 .. 10, NEW part, Runs(part)
    PROVE  /\ step = "main"
           /\ part = "exceptions" => main = 1
           /\ part = "remap" => main = 2
           /\ part = "irqs" => main = 3
           /\ part = "syscall" => main = 4
           /\ part = "sti" => main = 5
           /\ part = "clear" => main = 6
           /\ part = "print" => main = 7
           /\ part = "timer" => main = 8
           /\ part = "keyboard" => main = 9
           /\ part = "halt" => main = 10
BY ProgramIs DEF Runs

-----------------------------------------------------------------------------
\* The console stays a console.
LEMMA ClearedConsole == IsConsole(Cleared)
BY ConsoleAssumption DEF IsConsole, Cleared, Columns, Lines

LEMMA StoreConsole ==
    ASSUME NEW k, IsConsole(k), NEW c
    PROVE  IsConsole(Store(k, c)) /\ Store(k, c).col = k.col /\ Store(k, c).lin = k.lin
<1>1. CASE c = NewLine
  BY <1>1 DEF Store
<1>2. CASE c # NewLine
  <2> DEFINE cells == [k.cells EXCEPT ![<<k.lin, k.col>>] = c]
  <2>1. Store(k, c) = [k EXCEPT !.cells = cells]
    BY <1>2 DEF Store
  <2>2. Store(k, c) = [col |-> k.col, lin |-> k.lin, cells |-> cells]
    <3> HIDE DEF cells
    <3> QED BY <2>1 DEF IsConsole
  <2> HIDE DEF cells
  <2> QED BY <2>2 DEF IsConsole
<1> QED BY <1>1, <1>2

LEMMA MovedConsole ==
    ASSUME NEW k, IsConsole(k), NEW x, NEW y, NEW r,
           r = [k EXCEPT !.lin = y, !.col = x]
    PROVE  r = [col |-> x, lin |-> y, cells |-> k.cells]
<1>1. DOMAIN k = {"col", "lin", "cells"}
  BY DEF IsConsole
<1>2. r.col = x /\ r.lin = y /\ r.cells = k.cells
  BY <1>1
<1>3. r = [d \in DOMAIN k |-> r[d]]
  OBVIOUS
<1>4. [col |-> x, lin |-> y, cells |-> k.cells] = [d \in DOMAIN k |-> r[d]]
  BY <1>1, <1>2
<1> QED BY <1>3, <1>4, Zenon

LEMMA AdvanceConsole ==
    ASSUME NEW k, IsConsole(k), NEW c
    PROVE  IsConsole(Advance(k, c))
<1> DEFINE moved == [k EXCEPT !.col = 0, !.lin = @ + 1]
           blank == [p \in Screen |-> IF p[1] + 1 \in Lines THEN moved.cells[<<p[1] + 1, p[2]>>]
                                      ELSE Blank]
<1>1. moved = [col |-> 0, lin |-> k.lin + 1, cells |-> k.cells]
  <2> DEFINE x == 0
             y == k.lin + 1
  <2> HIDE DEF x, y
  <2>1. [k EXCEPT !.col = x, !.lin = y] = [k EXCEPT !.lin = y, !.col = x]
    OBVIOUS
  <2>2. [k EXCEPT !.lin = y, !.col = x] = [col |-> x, lin |-> y, cells |-> k.cells]
    BY MovedConsole
  <2> QED BY <2>1, <2>2 DEF x, y
<1>2. ScrollDown(moved) = [col |-> 0, lin |-> HEIGHT - 1, cells |-> blank]
  <2>1. ScrollDown(moved) = [moved EXCEPT !.lin = HEIGHT - 1, !.cells = blank]
    BY DEF ScrollDown
  <2> HIDE DEF moved, blank
  <2> QED BY <1>1, <2>1
<1>3. IsConsole(NextLine(k))
  <2>1. NextLine(k) = IF moved.lin >= HEIGHT THEN ScrollDown(moved) ELSE moved
    BY DEF NextLine
  <2> HIDE DEF moved, blank
  <2> QED BY <1>1, <1>2, <2>1, ConsoleAssumption DEF IsConsole, Columns, Lines
<1>4. CASE c = NewLine \/ k.col + 1 >= WIDTH
  BY <1>3, <1>4 DEF Advance
<1>5. CASE ~ (c = NewLine \/ k.col + 1 >= WIDTH)
  <2>1. Advance(k, c) = [col |-> k.col + 1, lin |-> k.lin, cells |-> k.cells]
    BY <1>5 DEF Advance, IsConsole
  <2> QED BY <1>5, <2>1, ConsoleAssumption DEF IsConsole, Columns, Lines
<1> QED BY <1>4, <1>5

LEMMA PrintcConsole ==
    ASSUME NEW k, IsConsole(k), NEW c
    PROVE  IsConsole(printc(k, c))
BY StoreConsole, AdvanceConsole DEF printc

\* What a scan code may do to the driver's state.
LEMMA ProcessDriver ==
    ASSUME NEW shift \in BOOLEAN, NEW k, IsConsole(k), NEW code \in Code
    PROVE  LET d == Process([shift_ |-> shift, con |-> k], code)
           IN  /\ IsConsole(d.con)
               /\ d.shift_ = IF code.key \in ShiftKeys THEN ~ code.up ELSE shift
<1> DEFINE d == [shift_ |-> shift, con |-> k]
<1>1. CASE code.up
  BY <1>1 DEF Process, on_keyup, Code, ShiftKeys
<1>2. CASE ~ code.up
  <2>1. IsConsole(printc(k, IF shift THEN en_US_shift[code.key] ELSE en_US[code.key]))
    BY PrintcConsole
  <2> QED BY <1>2, <2>1 DEF Process, on_keydown, Code, ShiftKeys
<1> QED BY <1>1, <1>2

-----------------------------------------------------------------------------
\* Types.

\* A handler's step needs only the buffer and the line, and changes only where
\* it is, except that it ends what is in service and reads the byte.
LEMMA EndedSubset ==
    ASSUME NEW s, NEW lines
    PROVE  Ended(s, lines) \subseteq s
BY DEF Ended

\* Gates past the end of the table are not found.
LEMMA AddGatesBound ==
    ASSUME gates \subseteq 0 .. (GATES - 1), NEW vectors, vectors \subseteq Nat, AddGates(vectors)
    PROVE  gates' \subseteq 0 .. (GATES - 1)
<1>1. ASSUME NEW v \in vectors, v < GATES PROVE v \in 0 .. (GATES - 1)
  BY <1>1, InterruptsAssumption
<1> QED BY <1>1 DEF AddGates

LEMMA StateInit == Init => StateOK
<1> SUFFICES ASSUME Init PROVE StateOK
  OBVIOUS
<1>1. IsConsole(con) /\ con.col \in Columns /\ con.lin \in Lines
  BY ClearedConsole DEF Init, IsConsole
<1>2. sent = <<>> /\ <<>> \in Seq(Code) /\ latched \in 0 .. Len(sent)
  BY DEF Init
<1>3. TypeOK
  <2>1. main \in 1 .. Len(Program)
    BY ProgramIs DEF Init
  <2> QED BY <1>1, <1>2, <2>1 DEF Init, TypeOK
<1> QED BY <1>1, <1>2, <1>3 DEF Init, StateOK, Steps

LEMMA VectorsNat == {Vector(l) : l \in 0 .. 15} \subseteq Nat
BY DEF Vector

LEMMA StateKmain ==
    ASSUME StateOK, kmain
    PROVE  StateOK'
<1> USE DEF StateOK, TypeOK, MainVars, CpuVars, PicVars, HandlerVars, DriverVars, DeviceVars, Done
<1>0. main \in 1 .. 10
  BY ProgramIs
<1>1. CASE Refused
  BY <1>0, <1>1, ProgramIs DEF Refused
<1>2. CASE ExceptionGates
  <2>1. gates' \subseteq 0 .. (GATES - 1)
    <3>1. 0 .. 31 \subseteq Nat
      OBVIOUS
    <3> QED BY <1>2, <3>1, AddGatesBound DEF ExceptionGates
  <2> QED BY <1>0, <1>2, <2>1, ProgramIs, RunsWhere DEF ExceptionGates
<1>3. CASE irq_remap
  BY <1>0, <1>3, ProgramIs, RunsWhere DEF irq_remap
<1>4. CASE IrqGates
  <2>1. gates' \subseteq 0 .. (GATES - 1)
    <3>1. {Vector(l) : l \in 0 .. 15} \subseteq Nat
      BY VectorsNat
    <3> HIDE DEF TypeOK
    <3>2. gates \subseteq 0 .. (GATES - 1) /\ AddGates({Vector(l) : l \in 0 .. 15})
      BY <1>4 DEF IrqGates, TypeOK
    <3> QED BY <3>1, <3>2, AddGatesBound
  <2> QED BY <1>0, <1>4, <2>1, ProgramIs, RunsWhere DEF IrqGates
<1>5. CASE SyscallGate
  <2>1. gates' \subseteq 0 .. (GATES - 1)
    <3>1. {128} \subseteq Nat /\ AddGates({128})
      BY <1>5 DEF SyscallGate
    <3> QED BY <3>1, AddGatesBound
  <2> QED BY <1>0, <1>5, <2>1, ProgramIs, RunsWhere DEF SyscallGate
<1>6. CASE Sti
  BY <1>0, <1>6, ProgramIs, RunsWhere DEF Sti
<1>7. CASE ClearScreen
  BY <1>0, <1>7, ProgramIs, RunsWhere, ClearedConsole DEF ClearScreen, IsConsole
<1>8. CASE PrintStore
  <2>1. IsConsole(con') /\ at' \in Screen
    BY <1>8, StoreConsole DEF PrintStore, IsConsole, Screen
  <2> QED BY <1>8, <2>1 DEF PrintStore, IsConsole
<1>9. CASE PrintAdvance
  <2> DEFINE k == [con EXCEPT !.lin = at[1], !.col = at[2]]
  <2>0. at \in Screen /\ con' = Advance(k, Welcome[printed + 1])
    BY <1>9 DEF PrintAdvance
  <2>1. k = [col |-> at[2], lin |-> at[1], cells |-> con.cells]
    BY MovedConsole
  <2>2. IsConsole(con')
    <3> HIDE DEF k
    <3>1. IsConsole(k)
      BY <2>0, <2>1 DEF IsConsole, Screen
    <3> QED BY <2>0, <3>1, AdvanceConsole
  <2> QED BY <1>9, <2>2 DEF PrintAdvance, IsConsole
<1>10. CASE PrintDone
  BY <1>0, <1>10, ProgramIs, RunsWhere DEF PrintDone
<1>11. CASE AddTimer
  BY <1>0, <1>11, ProgramIs, RunsWhere DEF AddTimer
<1>12. CASE AddKeyboard
  BY <1>0, <1>12, ProgramIs, RunsWhere DEF AddKeyboard
<1> QED
  BY <1>1, <1>2, <1>3, <1>4, <1>5, <1>6, <1>7, <1>8, <1>9, <1>10, <1>11, <1>12 DEF kmain

LEMMA ReadDataDriver ==
    ASSUME StateOK, ReadData
    PROVE  IsConsole(con') /\ shift_' \in BOOLEAN
<1> DEFINE c == Head(buffer)
           d == Process([shift_ |-> shift_, con |-> con], c)
<1>1. c \in Code
  BY DEF StateOK, TypeOK, ReadData, InHandler
<1>2. con' = d.con /\ shift_' = d.shift_
  BY DEF ReadData
<1>3. IsConsole(con) /\ shift_ \in BOOLEAN
  BY DEF StateOK
<1> HIDE DEF c
<1>4. IsConsole(d.con) /\ d.shift_ = IF c.key \in ShiftKeys THEN ~ c.up ELSE shift_
  BY <1>1, <1>3, ProcessDriver
<1> HIDE DEF d
<1>5. d.shift_ \in BOOLEAN
  BY <1>3, <1>4
<1> QED BY <1>2, <1>4, <1>5

LEMMA StateHandler ==
    ASSUME StateOK, handler
    PROVE  StateOK'
<1> USE DEF StateOK, TypeOK, MainVars, CpuVars, PicVars, HandlerVars, DriverVars, DeviceVars,
            InHandler, Steps
<1>1. CASE Acknowledge
  <2>1. isr' \subseteq isr
    BY <1>1, EndedSubset DEF Acknowledge, AfterEoi
  <2> QED BY <1>1, <2>1 DEF Acknowledge
<1>2. CASE Dispatch
  BY <1>2 DEF Dispatch
<1>3. CASE on_timer
  BY <1>3 DEF on_timer
<1>4. CASE ReadStatus
  BY <1>4 DEF ReadStatus, DataInBuffer
<1>5. CASE ReadData
  <2>1. IsConsole(con') /\ shift_' \in BOOLEAN
    BY <1>5, ReadDataDriver
  <2> QED BY <1>5, <2>1 DEF ReadData, IsConsole
<1>6. CASE Return
  BY <1>6 DEF Return
<1> QED
  BY <1>1, <1>2, <1>3, <1>4, <1>5, <1>6 DEF handler

LEMMA StateDevices ==
    ASSUME StateOK, devices
    PROVE  StateOK'
<1> USE DEF StateOK, TypeOK, MainVars, CpuVars, PicVars, HandlerVars, DriverVars, DeviceVars,
            DeviceStep
<1>1. CASE Tick
  BY <1>1 DEF Tick, Timer, Irqs, Cascade
<1>2. CASE Latch
  <2>1. sent[latched + 1] \in Code
    BY <1>2 DEF Latch
  <2> QED BY <1>2, <2>1 DEF Latch, Kbd, Irqs, Cascade
<1>3. ASSUME NEW l \in Others, Raise(l) PROVE StateOK'
  BY <1>3, InterruptsAssumption DEF Raise, Irqs, Cascade
<1>4. ASSUME NEW k \in Keys, Press(k) PROVE StateOK'
  <2>1. [key |-> k, up |-> FALSE] \in Code
    BY InterruptsAssumption DEF Code
  <2>2. sent' \in Seq(Code) /\ Len(sent') = Len(sent) + 1
    BY <1>4, <2>1 DEF Press
  <2> QED BY <1>4, <2>2 DEF Press
<1>5. ASSUME NEW k \in held, Release(k) PROVE StateOK'
  <2>1. [key |-> k, up |-> TRUE] \in Code
    BY InterruptsAssumption DEF Code
  <2>2. sent' \in Seq(Code) /\ Len(sent') = Len(sent) + 1
    BY <1>5, <2>1 DEF Release
  <2> QED BY <1>5, <2>2 DEF Release
<1> QED
  BY <1>1, <1>2, <1>3, <1>4, <1>5 DEF devices

LEMMA ServiceLines == \A l \in 0 .. 15 : InService(l) \subseteq 0 .. 15
BY DEF InService, Cascade

LEMMA StateStep ==
    ASSUME StateOK, [Next]_vars
    PROVE  StateOK'
<1> USE DEF StateOK, TypeOK, MainVars, CpuVars, PicVars, HandlerVars, DriverVars, DeviceVars
<1>1. CASE Halt
  BY <1>1 DEF Halt, vars
<1>2. ASSUME NEW l \in Irqs, Accept(l) PROVE StateOK'
  <2>1. InService(l) \subseteq 0 .. 15
    BY ServiceLines DEF Irqs
  <2>2. /\ UNCHANGED <<main, printed, at, gates, timer_handler_p, keyboard_handler_p, shift_, con>>
        /\ UNCHANGED <<sent, latched, buffer, held>>
        /\ irr' = irr \ {l} /\ isr' = isr \cup InService(l) /\ owed' = owed \ {l}
        /\ IF_' = FALSE /\ step' = "eoi" /\ line' = l
    BY <1>2 DEF Accept
  <2>3. TypeOK'
    BY <2>1, <2>2
  <2> QED BY <2>2, <2>3 DEF Steps
<1>3. ASSUME NEW l \in {7, 15}, Spurious(l) PROVE StateOK'
  <2>1. InService(l) \subseteq 0 .. 15
    BY ServiceLines
  <2>2. l \in Irqs
    BY DEF Irqs, Cascade
  <2> QED BY <1>3, <2>1, <2>2 DEF Spurious, Steps
<1>4. CASE UNCHANGED vars
  BY <1>4 DEF vars
<1> QED
  BY <1>1, <1>2, <1>3, <1>4, StateKmain, StateHandler, StateDevices DEF Next

LEMMA StateAlways == Spec => []StateOK
BY StateInit, StateStep, PTL DEF Spec

\* In every state of every run the cursor is on the screen, whoever prints and
\* whatever is typed: no character is written outside video memory.
THEOREM TypeCorrect == Spec => []TypeOK
<1>1. StateOK => TypeOK
  BY DEF StateOK
<1> QED BY <1>1, StateAlways, PTL

-----------------------------------------------------------------------------
\* Who runs, and with which gates.

\* How far kmain is says which gates there are; interrupts are enabled, and
\* handlers run, only when it is past Sti.
Control ==
    /\ main = 1 => gates = {}
    /\ main \in {2, 3} => gates = 0 .. 31
    /\ main \in 4 .. 9 => gates = 0 .. 47
    /\ IF_ \/ step # "main" => main >= 6 /\ gates = 0 .. 47
    /\ step # "main" => ~ IF_
    /\ step = "main" <=> line = NoLine

LEMMA GatesAdded ==
    /\ {v \in 0 .. 31 : v < GATES} = 0 .. 31
    /\ {} \cup {v \in 0 .. 31 : v < GATES} = 0 .. 31
    /\ (0 .. 31) \cup {v \in {Vector(l) : l \in 0 .. 15} : v < GATES} = 0 .. 47
    /\ (0 .. 47) \cup {v \in {128} : v < GATES} = 0 .. 47
<1>1. \A v \in 0 .. 47 : v < GATES
  BY InterruptsAssumption
<1>2. ~ (128 < GATES)
  BY InterruptsAssumption
<1>3. {Vector(l) : l \in 0 .. 15} = 32 .. 47
  <2>1. ASSUME NEW v \in 32 .. 47 PROVE v \in {Vector(l) : l \in 0 .. 15}
    <3>1. v - 32 \in 0 .. 15 /\ v = Vector(v - 32)
      BY DEF Vector
    <3> QED BY <3>1
  <2> QED BY <2>1 DEF Vector
<1> QED BY <1>1, <1>2, <1>3

LEMMA ControlInit == Init => Control
BY DEF Init, Control

LEMMA ControlKmain ==
    ASSUME StateOK, Control, kmain
    PROVE  Control'
<1> USE DEF Control, Done, CpuVars
<1>0. main \in 1 .. 10 /\ step = "main"
  BY ProgramIs DEF StateOK, TypeOK, kmain, Refused, ExceptionGates, irq_remap, IrqGates,
     SyscallGate, Sti, ClearScreen, PrintStore, PrintAdvance, PrintDone, AddTimer, AddKeyboard,
     Runs
<1>1. CASE Refused
  BY <1>0, <1>1, ProgramIs, RunsWhere DEF Refused
<1>2. CASE ExceptionGates
  BY <1>0, <1>2, RunsWhere, GatesAdded DEF ExceptionGates, AddGates
<1>3. CASE irq_remap
  BY <1>0, <1>3, RunsWhere DEF irq_remap
<1>4. CASE IrqGates
  BY <1>0, <1>4, RunsWhere, GatesAdded DEF IrqGates, AddGates
<1>5. CASE SyscallGate
  BY <1>0, <1>5, RunsWhere, GatesAdded DEF SyscallGate, AddGates
<1>6. CASE Sti
  BY <1>0, <1>6, RunsWhere DEF Sti
<1>7. CASE ClearScreen
  BY <1>0, <1>7, RunsWhere DEF ClearScreen
<1>8. CASE PrintStore \/ PrintAdvance
  <2>1. UNCHANGED <<main, gates, IF_, step, line>>
    BY <1>8 DEF PrintStore, PrintAdvance
  <2> QED BY <2>1
<1>9. CASE PrintDone
  BY <1>0, <1>9, RunsWhere DEF PrintDone
<1>10. CASE AddTimer
  BY <1>0, <1>10, RunsWhere DEF AddTimer
<1>11. CASE AddKeyboard
  BY <1>0, <1>11, RunsWhere DEF AddKeyboard
<1> QED
  BY <1>1, <1>2, <1>3, <1>4, <1>5, <1>6, <1>7, <1>8, <1>9, <1>10, <1>11 DEF kmain

LEMMA ControlStep ==
    ASSUME StateOK, Control, [Next]_vars
    PROVE  Control'
<1> USE DEF Control, MainVars, CpuVars
<1>1. CASE handler
  <2>1. UNCHANGED <<main, gates>> /\ step # "main"
    BY <1>1 DEF handler, Acknowledge, Dispatch, on_timer, ReadStatus, ReadData, Return, InHandler
  <2>2. \/ IF_' = TRUE /\ step' = "main" /\ line' = NoLine
        \/ UNCHANGED <<IF_, line>> /\ step' # "main"
    BY <1>1 DEF handler, Acknowledge, Dispatch, on_timer, ReadStatus, ReadData, Return, InHandler
  <2> QED BY <2>1, <2>2
<1>2. CASE devices
  <2>1. UNCHANGED <<main, gates, IF_, step, line>>
    BY <1>2 DEF devices, Tick, Latch, Raise, Press, Release, DeviceStep
  <2> QED BY <2>1
<1>3. ASSUME NEW l \in Irqs, Accept(l) PROVE Control'
  <2>1. l # NoLine
    BY DEF Irqs, NoLine
  <2> QED BY <1>3, <2>1 DEF Accept
<1>4. ASSUME NEW l \in {7, 15}, Spurious(l) PROVE Control'
  BY <1>4 DEF Spurious, NoLine
<1>5. CASE Halt \/ UNCHANGED vars
  BY <1>5 DEF Halt, vars
<1> QED
  BY <1>1, <1>2, <1>3, <1>4, <1>5, ControlKmain DEF Next

LEMMA ControlAlways == Spec => []Control
BY ControlInit, ControlStep, StateAlways, PTL DEF Spec

\* Whenever interrupts are enabled every vector that an exception or a
\* controller can raise has its gate (segments.cpp:224-289).
THEOREM GatesAlwaysReady == Spec => []GatesReady
<1>1. Control => GatesReady
  BY DEF Control, GatesReady
<1> QED BY <1>1, ControlAlways, PTL

-----------------------------------------------------------------------------
\* What is in service.

\* Only the interrupt whose handler has not yet ended it is in service; a
\* spurious one is not, but the slave's has put the cascade in service.
ServiceOK ==
    /\ step = "eoi" => \/ isr = InService(line)
                       \/ line \in {7, 15} /\ isr = InService(line) \ {line}
    /\ step # "eoi" => isr = {}

LEMMA MinOfOne ==
    ASSUME NEW n \in Nat
    PROVE  Min({n}) = n
BY DEF Min

LEMMA EndedOne ==
    ASSUME NEW n \in Nat, NEW lines, n \in lines
    PROVE  Ended({n}, lines) = {}
<1>1. {n} \cap lines = {n}
  OBVIOUS
<1> QED BY <1>1, MinOfOne DEF Ended

\* The two ends of interrupt leave nothing in service.
LEMMA EoiClears ==
    ASSUME NEW l \in Irqs, \/ isr = InService(l)
                           \/ l \in {7, 15} /\ isr = InService(l) \ {l}
    PROVE  AfterEoi(l) = {}
<1>1. CASE l \in Slave
  <2>0. ForSlave(l) /\ InService(l) = {Cascade, l}
    BY <1>1 DEF ForSlave, InService, Vector, Slave
  <2>1. Ended(isr, Slave) = {Cascade}
    <3>1. CASE isr = {Cascade, l}
      <4>1. isr \cap Slave = {l} /\ isr \ {l} = {Cascade}
        <5>1. Cascade \notin Slave /\ Cascade # l
          BY <1>1 DEF Slave, Cascade
        <5> QED BY <1>1, <3>1, <5>1
      <4>2. Min({l}) = l
        BY <1>1, MinOfOne DEF Slave
      <4> QED BY <4>1, <4>2 DEF Ended
    <3>2. CASE isr = {Cascade, l} \ {l}
      <4>1. isr = {Cascade} /\ isr \cap Slave = {}
        BY <1>1, <3>2 DEF Slave, Cascade
      <4> QED BY <4>1 DEF Ended
    <3> QED BY <2>0, <3>1, <3>2
  <2>2. Ended({Cascade}, Master) = {}
    BY EndedOne DEF Cascade, Master
  <2> QED BY <2>0, <2>1, <2>2 DEF AfterEoi
<1>2. CASE l \notin Slave
  <2>0. ~ ForSlave(l) /\ InService(l) = {l} /\ l \in Master
    BY <1>2 DEF ForSlave, InService, Vector, Slave, Master, Irqs
  <2>1. isr = {l} \/ isr = {}
    BY <2>0
  <2>2. Ended({l}, Master) = {} /\ Ended({}, Master) = {}
    <3>1. {} \cap Master = {} /\ l \in Nat
      BY <2>0 DEF Master
    <3> QED BY <2>0, <3>1, EndedOne DEF Ended
  <2> QED BY <2>0, <2>1, <2>2 DEF AfterEoi
<1> QED BY <1>1, <1>2

LEMMA ServiceInit == Init => ServiceOK
BY DEF Init, ServiceOK

LEMMA ServiceStep ==
    ASSUME StateOK, Control, ServiceOK, [Next]_vars
    PROVE  ServiceOK'
<1> USE DEF ServiceOK, PicVars, CpuVars
<1>1. CASE kmain
  BY <1>1 DEF kmain, Refused, ExceptionGates, irq_remap, IrqGates, SyscallGate, Sti,
     ClearScreen, PrintStore, PrintAdvance, PrintDone, AddTimer, AddKeyboard, Runs
<1>2. CASE Acknowledge
  <2>1. line \in Irqs
    BY <1>2 DEF Acknowledge, InHandler, StateOK, TypeOK, Control
  <2> QED BY <1>2, <2>1, EoiClears DEF Acknowledge, InHandler
<1>3. CASE handler /\ ~ Acknowledge
  BY <1>3 DEF handler, Dispatch, on_timer, ReadStatus, ReadData, Return, InHandler
<1>4. CASE devices
  BY <1>4 DEF devices, Tick, Latch, Raise, Press, Release, DeviceStep
<1>5. ASSUME NEW l \in Irqs, Accept(l) PROVE ServiceOK'
  BY <1>5 DEF Accept, InService
<1>6. ASSUME NEW l \in {7, 15}, Spurious(l) PROVE ServiceOK'
  BY <1>6 DEF Spurious, InService
<1>7. CASE Halt \/ UNCHANGED vars
  BY <1>7 DEF Halt, vars, InService
<1> QED
  BY <1>1, <1>2, <1>3, <1>4, <1>5, <1>6, <1>7 DEF Next

\* Whatever was asked, in any order and spuriously or not, nothing is in service
\* when interrupts are enabled again: no line is ever shut out.
THEOREM AlwaysAcknowledged == Spec => []Acknowledged
<1>1. Control /\ ServiceOK => Acknowledged
  BY DEF Control, ServiceOK, Acknowledged
<1> QED BY <1>1, ServiceInit, ServiceStep, StateAlways, ControlAlways, PTL DEF Spec

-----------------------------------------------------------------------------
\* The byte in the buffer.

LEMMA ByteInit == Init => ByteNotStranded
BY DEF Init, ByteNotStranded

LEMMA ByteStep ==
    ASSUME StateOK, Control, ByteNotStranded, [Next]_vars
    PROVE  ByteNotStranded'
<1> USE DEF ByteNotStranded, CpuVars, PicVars, DeviceVars
<1>0. NoLine # Kbd /\ Timer # Kbd
  BY DEF NoLine, Kbd, Timer
<1>1. CASE irq_remap
  BY <1>1 DEF irq_remap
<1>2. CASE kmain /\ ~ irq_remap
  <2>1. \/ UNCHANGED <<irr, step, line, buffer, missed>>
        \/ UNCHANGED <<irr, buffer, missed>> /\ step = "main"
    BY <1>2 DEF kmain, Refused, ExceptionGates, IrqGates, SyscallGate, Sti,
       ClearScreen, PrintStore, PrintAdvance, PrintDone, AddTimer, AddKeyboard, Runs
  <2> QED BY <2>1
<1>3. CASE Acknowledge
  BY <1>3 DEF Acknowledge, InHandler
<1>4. CASE Dispatch
  BY <1>0, <1>4 DEF Dispatch, InHandler
<1>5. CASE on_timer
  BY <1>5 DEF on_timer, InHandler
<1>6. CASE ReadStatus
  BY <1>6 DEF ReadStatus, InHandler, DataInBuffer
<1>7. CASE ReadData
  BY <1>7 DEF ReadData, InHandler
<1>8. CASE Return
  BY <1>8 DEF Return
<1>9. CASE devices
  <2>1. UNCHANGED <<step, line, missed>>
    BY <1>9 DEF devices, Tick, Latch, Raise, Press, Release, DeviceStep
  <2>2. irr \subseteq irr' /\ (UNCHANGED buffer \/ Kbd \in irr')
    BY <1>9 DEF devices, Tick, Latch, Raise, Press, Release, DeviceStep
  <2> QED BY <2>1, <2>2
<1>10. ASSUME NEW l \in Irqs, Accept(l) PROVE ByteNotStranded'
  BY <1>10 DEF Accept
<1>11. ASSUME NEW l \in {7, 15}, Spurious(l) PROVE ByteNotStranded'
  BY <1>11 DEF Spurious
<1>12. CASE Halt \/ UNCHANGED vars
  BY <1>12 DEF Halt, vars
<1> QED
  BY <1>1, <1>2, <1>3, <1>4, <1>5, <1>6, <1>7, <1>8, <1>9, <1>10, <1>11, <1>12
     DEF Next, handler

\* A byte whose request came when the driver was there is read, or there still
\* is a request or a handler that will read it: the keyboard never falls silent.
THEOREM ByteNeverStranded == Spec => []ByteNotStranded
BY ByteInit, ByteStep, StateAlways, ControlAlways, PTL DEF Spec

-----------------------------------------------------------------------------
\* kmain and the handler share the console without a lock.

\* kmain prints, and the keyboard's driver is installed when it has ended; the
\* cursor that kmain has loaded is then the console's own.
Turns ==
    /\ at # <<>> => main = 7 /\ at = <<con.lin, con.col>>
    /\ keyboard_handler_p => main = 10
    /\ step \in {"status", "read"} => keyboard_handler_p

\* kmain is never interrupted in the middle of printc by a handler that prints,
\* and the cursor it goes on with is not stale.
OnePrinter ==
    at # <<>> => step \notin {"status", "read"} /\ at = <<con.lin, con.col>>

LEMMA TurnsInit == Init => Turns
BY DEF Init, Turns

LEMMA TurnsKmain ==
    ASSUME StateOK, Turns, kmain
    PROVE  Turns'
<1> USE DEF Turns, Done, MainVars, CpuVars, HandlerVars, DriverVars
<1>0. main \in 1 .. 10 /\ step = "main"
  BY ProgramIs DEF StateOK, TypeOK, kmain, Refused, ExceptionGates, irq_remap, IrqGates,
     SyscallGate, Sti, ClearScreen, PrintStore, PrintAdvance, PrintDone, AddTimer, AddKeyboard,
     Runs
<1>1. CASE Refused
  BY <1>0, <1>1, ProgramIs, RunsWhere DEF Refused
<1>2. CASE ExceptionGates
  BY <1>0, <1>2, RunsWhere DEF ExceptionGates
<1>3. CASE irq_remap
  BY <1>0, <1>3, RunsWhere DEF irq_remap
<1>4. CASE IrqGates
  BY <1>0, <1>4, RunsWhere DEF IrqGates
<1>5. CASE SyscallGate
  BY <1>0, <1>5, RunsWhere DEF SyscallGate
<1>6. CASE Sti
  BY <1>0, <1>6, RunsWhere DEF Sti
<1>7. CASE ClearScreen
  BY <1>0, <1>7, RunsWhere DEF ClearScreen
<1>8. CASE PrintStore
  <2>1. con'.lin = con.lin /\ con'.col = con.col
    BY <1>8, StoreConsole DEF PrintStore, StateOK
  <2> QED BY <1>0, <1>8, <2>1, RunsWhere DEF PrintStore
<1>9. CASE PrintAdvance
  BY <1>0, <1>9, RunsWhere DEF PrintAdvance
<1>10. CASE PrintDone
  BY <1>0, <1>10, RunsWhere DEF PrintDone
<1>11. CASE AddTimer
  BY <1>0, <1>11, RunsWhere DEF AddTimer
<1>12. CASE AddKeyboard
  BY <1>0, <1>12, RunsWhere DEF AddKeyboard
<1> QED
  BY <1>1, <1>2, <1>3, <1>4, <1>5, <1>6, <1>7, <1>8, <1>9, <1>10, <1>11, <1>12 DEF kmain

LEMMA TurnsStep ==
    ASSUME StateOK, Turns, [Next]_vars
    PROVE  Turns'
<1> USE DEF Turns, MainVars, CpuVars, HandlerVars, DriverVars
<1>1. CASE Dispatch
  BY <1>1 DEF Dispatch, InHandler
<1>2. CASE ReadData
  BY <1>2 DEF ReadData, InHandler
<1>3. CASE handler /\ ~ Dispatch /\ ~ ReadData
  BY <1>3 DEF handler, Acknowledge, on_timer, ReadStatus, Return, InHandler
<1>4. CASE devices
  <2>1. UNCHANGED <<main, at, step, keyboard_handler_p, con>>
    BY <1>4 DEF devices, Tick, Latch, Raise, Press, Release, DeviceStep
  <2> QED BY <2>1
<1>5. ASSUME NEW l \in Irqs, Accept(l) PROVE Turns'
  BY <1>5 DEF Accept
<1>6. ASSUME NEW l \in {7, 15}, Spurious(l) PROVE Turns'
  BY <1>6 DEF Spurious
<1>7. CASE Halt \/ UNCHANGED vars
  BY <1>7 DEF Halt, vars
<1> QED
  BY <1>1, <1>2, <1>3, <1>4, <1>5, <1>6, <1>7, TurnsKmain DEF Next

\* The order of kmain alone keeps the two from printing at the same time, for
\* every text, every screen and every moment a key is pressed.
THEOREM OnePrinterAtATime == Spec => []OnePrinter
<1>1. Turns => OnePrinter
  BY DEF Turns, OnePrinter
<1> QED BY <1>1, TurnsInit, TurnsStep, StateAlways, PTL DEF Spec

-----------------------------------------------------------------------------
\* The shift state.

\* How many codes the driver has read.
Read == IF buffer = <<>> THEN latched ELSE latched - 1

\* The byte in the buffer is the last code that was latched.
BufferOK == buffer # <<>> => latched >= 1 /\ buffer = <<sent[latched]>>

\* A key whose last code is that of pressing it is down.
HeldOK ==
    \A j \in 1 .. Len(sent) :
        /\ ~ sent[j].up
        /\ \A i \in (j + 1) .. Len(sent) : sent[i].key = sent[j].key => ~ sent[i].up
        => sent[j].key \in held

\* The shift is on because of a shift key pressed, with none released since,
\* among the codes that the driver has read.
ShiftOK ==
    shift_ => \E j \in 1 .. Read :
        /\ sent[j].key \in ShiftKeys /\ ~ sent[j].up
        /\ \A i \in (j + 1) .. Read : sent[i].key \in ShiftKeys => ~ sent[i].up

KeysOK == BufferOK /\ HeldOK /\ ShiftOK

\* Codes that have been sent stay.
LEMMA AppendKeeps ==
    ASSUME NEW s \in Seq(Code), NEW c \in Code
    PROVE  /\ Len(Append(s, c)) = Len(s) + 1
           /\ Append(s, c)[Len(s) + 1] = c
           /\ \A i \in 1 .. Len(s) : Append(s, c)[i] = s[i]
OBVIOUS

LEMMA KeysInit == Init => KeysOK
BY DEF Init, KeysOK, BufferOK, HeldOK, ShiftOK, Read

\* The user presses or releases a key.
LEMMA KeysSent ==
    ASSUME StateOK, KeysOK, NEW k \in Keys, NEW up \in BOOLEAN,
           sent' = Append(sent, [key |-> k, up |-> up]),
           held' = IF up THEN held \ {k} ELSE held \cup {k},
           UNCHANGED <<latched, buffer, shift_>>
    PROVE  KeysOK'
<1> DEFINE c == [key |-> k, up |-> up]
           n == Len(sent)
<1>0. c \in Code /\ c.key = k /\ c.up = up
  BY InterruptsAssumption DEF Code
<1>1. /\ n \in Nat /\ Len(sent') = n + 1 /\ sent'[n + 1] = c
      /\ \A i \in 1 .. n : sent'[i] = sent[i]
  BY <1>0, AppendKeeps DEF StateOK
<1> HIDE DEF c
<1>2. latched \in 0 .. n /\ Read \in Int /\ Read <= n /\ Read' = Read
  BY DEF StateOK, TypeOK, Read
<1>3. BufferOK'
  BY <1>1, <1>2 DEF KeysOK, BufferOK
<1>4. ShiftOK'
  BY <1>1, <1>2 DEF KeysOK, ShiftOK
<1>5. HeldOK'
  <2> SUFFICES ASSUME NEW j \in 1 .. (n + 1), ~ sent'[j].up,
                      \A i \in (j + 1) .. (n + 1) : sent'[i].key = sent'[j].key => ~ sent'[i].up
               PROVE  sent'[j].key \in held'
    BY <1>1 DEF HeldOK
  <2>1. CASE j = n + 1
    BY <1>0, <1>1, <2>1
  <2>2. CASE j \in 1 .. n
    <3>1. sent'[j] = sent[j]
      BY <1>1, <2>2
    <3>2. \A i \in (j + 1) .. n : sent[i].key = sent[j].key => ~ sent[i].up
      BY <1>1, <2>2, <3>1
    <3>3. sent[j].key \in held
      BY <2>2, <3>1, <3>2 DEF KeysOK, HeldOK
    <3>4. sent[j].key = k => ~ up
      BY <1>0, <1>1, <2>2, <3>1
    <3> QED BY <3>1, <3>3, <3>4
  <2> QED BY <1>1, <2>1, <2>2
<1> QED BY <1>3, <1>4, <1>5 DEF KeysOK

LEMMA KeysRead ==
    ASSUME StateOK, KeysOK, ReadData
    PROVE  KeysOK'
<1> DEFINE code == Head(buffer)
<1>0. /\ buffer # <<>> /\ buffer' = <<>> /\ UNCHANGED <<sent, latched, held>>
      /\ shift_' = Process([shift_ |-> shift_, con |-> con], code).shift_
  BY DEF ReadData, InHandler, StateOK
<1>1. latched \in 1 .. Len(sent) /\ code = sent[latched] /\ code \in Code
  BY <1>0 DEF KeysOK, BufferOK, StateOK, TypeOK
<1>2. Read = latched - 1 /\ Read' = latched
  BY <1>0 DEF Read
<1>3. shift_' = IF code.key \in ShiftKeys THEN ~ code.up ELSE shift_
  <2> HIDE DEF code
  <2> QED BY <1>0, <1>1, ProcessDriver DEF StateOK
<1>4. ShiftOK'
  <2> SUFFICES ASSUME shift_'
               PROVE  \E j \in 1 .. latched :
                        /\ sent[j].key \in ShiftKeys /\ ~ sent[j].up
                        /\ \A i \in (j + 1) .. latched : sent[i].key \in ShiftKeys => ~ sent[i].up
    BY <1>0, <1>2 DEF ShiftOK
  <2> HIDE DEF code
  <2>1. CASE code.key \in ShiftKeys
    <3>1. sent[latched].key \in ShiftKeys /\ ~ sent[latched].up
      BY <1>1, <1>3, <2>1
    <3>2. (latched + 1) .. latched = {}
      BY <1>1
    <3> QED BY <1>1, <3>1, <3>2
  <2>2. CASE code.key \notin ShiftKeys
    <3>1. PICK j \in 1 .. (latched - 1) :
            /\ sent[j].key \in ShiftKeys /\ ~ sent[j].up
            /\ \A i \in (j + 1) .. (latched - 1) : sent[i].key \in ShiftKeys => ~ sent[i].up
      BY <1>2, <1>3, <2>2 DEF KeysOK, ShiftOK
    <3>2. \A i \in (j + 1) .. latched : sent[i].key \in ShiftKeys => ~ sent[i].up
      BY <1>1, <2>2, <3>1
    <3> QED BY <1>1, <3>1, <3>2
  <2> QED BY <2>1, <2>2
<1> QED BY <1>0, <1>4 DEF KeysOK, BufferOK, HeldOK

LEMMA KeysLatch ==
    ASSUME StateOK, KeysOK, Latch
    PROVE  KeysOK'
<1>1. /\ buffer = <<>> /\ buffer' = <<sent[latched + 1]>> /\ latched' = latched + 1
      /\ UNCHANGED <<sent, held, shift_>> /\ latched \in Nat
  BY DEF Latch, DeviceStep, DriverVars, StateOK, TypeOK
<1>2. Read' = Read
  BY <1>1 DEF Read
<1>3. BufferOK'
  BY <1>1 DEF BufferOK
<1>4. ShiftOK'
  BY <1>1, <1>2 DEF KeysOK, ShiftOK
<1> QED BY <1>1, <1>3, <1>4 DEF KeysOK, HeldOK

LEMMA KeysStep ==
    ASSUME StateOK, KeysOK, [Next]_vars
    PROVE  KeysOK'
<1>1. ASSUME UNCHANGED <<sent, latched, buffer, held, shift_>> PROVE KeysOK'
  BY <1>1 DEF KeysOK, BufferOK, HeldOK, ShiftOK, Read
<1> USE DEF DeviceVars, DriverVars
<1>2. CASE kmain
  BY <1>1, <1>2 DEF kmain, Refused, ExceptionGates, irq_remap, IrqGates, SyscallGate, Sti,
     ClearScreen, PrintStore, PrintAdvance, PrintDone, AddTimer, AddKeyboard
<1>3. CASE handler /\ ~ ReadData
  BY <1>1, <1>3 DEF handler, Acknowledge, Dispatch, on_timer, ReadStatus, Return, InHandler
<1>4. ASSUME NEW k \in Keys, Press(k) PROVE KeysOK'
  <2>1. /\ sent' = Append(sent, [key |-> k, up |-> FALSE])
        /\ held' = IF FALSE THEN held \ {k} ELSE held \cup {k}
        /\ UNCHANGED <<latched, buffer, shift_>>
    BY <1>4 DEF Press, DeviceStep
  <2> QED BY <2>1, KeysSent
<1>5. ASSUME NEW k \in held, Release(k) PROVE KeysOK'
  <2>1. /\ sent' = Append(sent, [key |-> k, up |-> TRUE])
        /\ held' = IF TRUE THEN held \ {k} ELSE held \cup {k}
        /\ UNCHANGED <<latched, buffer, shift_>>
    BY <1>5 DEF Release, DeviceStep
  <2>2. k \in Keys
    BY DEF StateOK
  <2> QED BY <2>1, <2>2, KeysSent
<1>6. CASE Tick \/ (\E l \in Others : Raise(l))
  BY <1>1, <1>6 DEF Tick, Raise, DeviceStep
<1>7. CASE \E l \in Irqs : Accept(l)
  BY <1>1, <1>7 DEF Accept
<1>8. CASE \E l \in {7, 15} : Spurious(l)
  BY <1>1, <1>8 DEF Spurious
<1>9. CASE Halt \/ UNCHANGED vars
  BY <1>1, <1>9 DEF Halt, vars
<1> QED
  BY <1>2, <1>3, <1>4, <1>5, <1>6, <1>7, <1>8, <1>9, KeysRead, KeysLatch DEF Next, devices

\* However long the user types, on both shift keys and with keys that repeat,
\* the shift is off once every code is read and no shift key is down.
THEOREM ShiftNeverStuck == Spec => []NoStuckShift
<1>1. StateOK /\ KeysOK => NoStuckShift
  <2> SUFFICES ASSUME StateOK, KeysOK, Consumed = sent, shift_
               PROVE  held \cap ShiftKeys # {}
    BY DEF NoStuckShift
  <2>1. Read \in Int /\ Read <= Len(sent) /\ Len(sent) \in Nat
    BY DEF Read, StateOK, TypeOK
  <2>2. Read = Len(sent)
    <3>1. CASE Read >= 0
      <4>1. Len(SubSeq(sent, 1, Read)) = Read
        BY <2>1, <3>1 DEF StateOK
      <4> QED BY <4>1 DEF Consumed, Read
    <3>2. CASE Read < 0
      BY <2>1, <3>2 DEF KeysOK, ShiftOK
    <3> QED BY <2>1, <3>1, <3>2
  <2>3. PICK j \in 1 .. Len(sent) :
          /\ sent[j].key \in ShiftKeys /\ ~ sent[j].up
          /\ \A i \in (j + 1) .. Len(sent) : sent[i].key \in ShiftKeys => ~ sent[i].up
    BY <2>2 DEF KeysOK, ShiftOK
  <2>4. sent[j].key \in held
    BY <2>3 DEF KeysOK, HeldOK
  <2> QED BY <2>3, <2>4
<1> QED BY <1>1, KeysInit, KeysStep, StateAlways, PTL DEF Spec

-----------------------------------------------------------------------------
\* Functions that are defined by recursion.

LEMMA NatSetInduction ==
    ASSUME NEW S, 0 \in S, \A n \in Nat : n \in S => n + 1 \in S
    PROVE  \A n \in Nat : n \in S
<1> SUFFICES ASSUME Nat \ S # {} PROVE FALSE
  OBVIOUS
<1>1. PICK x \in Nat \ S : \A y \in Nat \ S : ~ (<<y, x>> \in OpToRel(<, Nat))
  BY WFMin, NatLessThanWellFounded, Zenon
<1>2. \A y \in Nat \ S : ~ (y < x)
  BY <1>1, Zenon DEF OpToRel
<1>3. x # 0 /\ x - 1 \in Nat
  <2>1. x # 0 /\ x \in Nat
    OBVIOUS
  <2> QED BY <2>1
<1>4. x - 1 \in S
  BY <1>2, <1>3
<1>5. (x - 1) + 1 \in S
  BY <1>3, <1>4
<1> QED BY <1>5

\* f goes n steps of G from a.
Goes(f, V, a, G, n) ==
    /\ f \in [0 .. n -> V] /\ f[0] = a
    /\ \A i \in 0 .. (n - 1) : f[i + 1] = G[<<i, f[i]>>]

\* A step that takes V to V can be taken any number of times.
LEMMA Iterates ==
    ASSUME NEW V, NEW a \in V, NEW G \in [Nat \X V -> V]
    PROVE  \A n \in Nat : \E f : Goes(f, V, a, G, n)
<1> DEFINE S == {n \in Nat : \E f : Goes(f, V, a, G, n)}
<1>1. 0 \in S
  <2>1. Goes([i \in 0 .. 0 |-> a], V, a, G, 0)
    BY DEF Goes
  <2> QED BY <2>1
<1>2. ASSUME NEW n \in Nat, n \in S PROVE n + 1 \in S
  <2>1. PICK g : Goes(g, V, a, G, n)
    BY <1>2
  <2> DEFINE x == G[<<n, g[n]>>]
             f == [i \in 0 .. (n + 1) |-> IF i = n + 1 THEN x ELSE g[i]]
  <2>2. x \in V
    BY <2>1 DEF Goes
  <2>3. \A i \in 0 .. n : f[i] = g[i]
    OBVIOUS
  <2>4. f[n + 1] = x /\ f \in [0 .. (n + 1) -> V]
    BY <2>1, <2>2 DEF Goes
  <2>5. ASSUME NEW i \in 0 .. n PROVE f[i + 1] = G[<<i, f[i]>>]
    <3> HIDE DEF f
    <3>1. CASE i = n
      BY <2>3, <2>4, <3>1
    <3>2. CASE i # n
      <4>1. i \in 0 .. (n - 1) /\ i + 1 \in 0 .. n
        BY <3>2
      <4>2. g[i + 1] = G[<<i, g[i]>>]
        BY <2>1, <4>1 DEF Goes
      <4> QED BY <2>3, <4>1, <4>2
    <3> QED BY <3>1, <3>2
  <2>6. f[0] = a
    BY <2>1, <2>3 DEF Goes
  <2> HIDE DEF f
  <2>7. Goes(f, V, a, G, n + 1)
    BY <2>4, <2>5, <2>6 DEF Goes
  <2> QED BY <2>7
<1>3. \A n \in Nat : n \in S
  <2> HIDE DEF S
  <2> QED BY <1>1, <1>2, NatSetInduction
<1> QED BY <1>3

-----------------------------------------------------------------------------
\* The places of the characters of a text.

NextPlace(q, c) ==
    IF c = NewLine \/ q[2] + 1 = WIDTH THEN <<q[1] + 1, 0>> ELSE <<q[1], q[2] + 1>>

\* The function in Placed is defined by its equation.
LEMMA PlacedIs ==
    ASSUME NEW text, Len(text) \in Nat
    PROVE  /\ Placed(text) \in [0 .. Len(text) -> Nat \X Columns]
           /\ Placed(text)[0] = <<0, 0>>
           /\ \A i \in 1 .. Len(text) : Placed(text)[i] = NextPlace(Placed(text)[i - 1], text[i])
<1> DEFINE n == Len(text)
           V == Nat \X Columns
           G == [x \in Nat \X V |-> NextPlace(x[2], text[x[1] + 1])]
           P == CHOOSE place : place = [i \in 0 .. n |->
                  IF i = 0 THEN <<0, 0>> ELSE NextPlace(place[i - 1], text[i])]
<1>1. <<0, 0>> \in V
  BY ConsoleAssumption DEF Columns
<1>2. \A q \in V : \A c : NextPlace(q, c) \in V
  BY ConsoleAssumption DEF Columns, NextPlace
<1>3. G \in [Nat \X V -> V]
  <2> HIDE DEF V
  <2> QED BY <1>2
<1>4. \A i \in Nat, q \in V : G[<<i, q>>] = NextPlace(q, text[i + 1])
  <2> HIDE DEF V
  <2> QED OBVIOUS
<1> HIDE DEF G, V
<1>5. PICK f : Goes(f, V, <<0, 0>>, G, n)
  <2>1. \A a \in V : \E f : Goes(f, V, a, G, n)
    <3> HIDE DEF n, P
    <3>1. n \in Nat
      BY DEF n
    <3> QED BY <1>3, <3>1, Iterates
  <2> QED BY <1>1, <2>1, Zenon
<1>6. ASSUME NEW i \in 1 .. n PROVE f[i] = NextPlace(f[i - 1], text[i])
  <2>1. i - 1 \in 0 .. (n - 1) /\ (i - 1) + 1 = i /\ i - 1 \in Nat /\ i - 1 \in 0 .. n
    OBVIOUS
  <2>2. f[(i - 1) + 1] = G[<<i - 1, f[i - 1]>>]
    BY <1>5, <2>1 DEF Goes
  <2>3. f[i - 1] \in V
    BY <1>5, <2>1 DEF Goes
  <2>4. G[<<i - 1, f[i - 1]>>] = NextPlace(f[i - 1], text[(i - 1) + 1])
    BY <1>4, <2>1, <2>3
  <2> QED BY <2>1, <2>2, <2>4
<1>7. f = [i \in 0 .. n |-> IF i = 0 THEN <<0, 0>> ELSE NextPlace(f[i - 1], text[i])]
  <2>1. ASSUME NEW i \in 0 .. n
        PROVE  f[i] = IF i = 0 THEN <<0, 0>> ELSE NextPlace(f[i - 1], text[i])
    <3>1. CASE i = 0
      BY <1>5, <3>1 DEF Goes
    <3>2. CASE i # 0
      <4>1. i \in 1 .. n
        BY <3>2
      <4> QED BY <1>6, <3>2, <4>1
    <3> QED BY <3>1, <3>2
  <2> QED BY <1>5, <2>1 DEF Goes
<1>8. P = [i \in 0 .. n |-> IF i = 0 THEN <<0, 0>> ELSE NextPlace(P[i - 1], text[i])]
  BY <1>7, Zenon
<1>9. Placed(text) = P
  BY Zenon DEF Placed, NextPlace
<1> HIDE DEF P
<1>10. \A i \in 0 .. n : P[i] = IF i = 0 THEN <<0, 0>> ELSE NextPlace(P[i - 1], text[i])
  BY <1>8
<1>11. P[0] = <<0, 0>> /\ \A i \in 1 .. n : P[i] = NextPlace(P[i - 1], text[i])
  BY <1>10
<1>12. DOMAIN P = 0 .. n
  BY <1>8
<1>13. \A i \in 0 .. n : P[i] \in V
  <2> DEFINE S == {i \in Nat : i <= n => P[i] \in V}
  <2>1. 0 \in S
    <3>1. P[0] \in V
      BY <1>1, <1>11
    <3> QED BY <3>1
  <2>2. ASSUME NEW i \in Nat, i \in S PROVE i + 1 \in S
    <3> SUFFICES ASSUME i + 1 <= n PROVE P[i + 1] \in V
      OBVIOUS
    <3>1. P[i] \in V /\ i + 1 \in 1 .. n /\ (i + 1) - 1 = i
      BY <2>2
    <3> QED BY <1>2, <1>11, <3>1
  <2>3. \A i \in Nat : i \in S
    <3> HIDE DEF S
    <3> QED BY <2>1, <2>2, NatSetInduction
  <2> QED BY <2>3
<1>14. P \in [0 .. n -> V]
  <2>1. P = [i \in 0 .. n |-> P[i]]
    BY <1>8
  <2> HIDE DEF n
  <2> QED BY <1>13, <2>1
<1> HIDE DEF n
<1>15. Placed(text) \in [0 .. n -> V] /\ Placed(text)[0] = <<0, 0>>
  BY <1>9, <1>11, <1>14
<1>16. \A i \in 1 .. n : Placed(text)[i] = NextPlace(Placed(text)[i - 1], text[i])
  BY <1>9, <1>11
<1> QED BY <1>15, <1>16 DEF V, n

\* A text that goes on does not move what it began with.
LEMMA PlacedMore ==
    ASSUME NEW t, NEW u, Len(t) \in Nat, Len(u) = Len(t) + 1,
           \A i \in 1 .. Len(t) : u[i] = t[i]
    PROVE  /\ \A i \in 0 .. Len(t) : Placed(u)[i] = Placed(t)[i]
           /\ Placed(u)[Len(u)] = NextPlace(Placed(t)[Len(t)], u[Len(u)])
<1> DEFINE n == Len(t)
           S == {i \in Nat : i <= n => Placed(u)[i] = Placed(t)[i]}
<1>1. n \in Nat /\ Len(u) \in Nat
  OBVIOUS
<1>2. /\ Placed(t)[0] = <<0, 0>>
      /\ \A i \in 1 .. n : Placed(t)[i] = NextPlace(Placed(t)[i - 1], t[i])
  BY <1>1, PlacedIs
<1>3. Placed(u)[0] = <<0, 0>>
  BY <1>1, PlacedIs
<1>4. \A i \in 1 .. (n + 1) : Placed(u)[i] = NextPlace(Placed(u)[i - 1], u[i])
  <2>1. \A i \in 1 .. Len(u) : Placed(u)[i] = NextPlace(Placed(u)[i - 1], u[i])
    BY <1>1, PlacedIs
  <2> QED BY <2>1
<1>5. 0 \in S
  BY <1>2, <1>3
<1>6. ASSUME NEW i \in Nat, i \in S PROVE i + 1 \in S
  <2> SUFFICES ASSUME i + 1 <= n PROVE Placed(u)[i + 1] = Placed(t)[i + 1]
    OBVIOUS
  <2>1. Placed(u)[i] = Placed(t)[i] /\ i + 1 \in 1 .. n /\ i + 1 \in 1 .. (n + 1)
        /\ (i + 1) - 1 = i /\ u[i + 1] = t[i + 1]
    BY <1>6
  <2>2. Placed(u)[i + 1] = NextPlace(Placed(u)[(i + 1) - 1], u[i + 1])
    BY <1>4, <2>1
  <2>3. Placed(t)[i + 1] = NextPlace(Placed(t)[(i + 1) - 1], t[i + 1])
    BY <1>2, <2>1
  <2> QED BY <2>1, <2>2, <2>3
<1>7. \A i \in Nat : i \in S
  <2> HIDE DEF S
  <2> QED BY <1>5, <1>6, NatSetInduction
<1>8. \A i \in 0 .. n : Placed(u)[i] = Placed(t)[i]
  BY <1>7
<1>9. Placed(u)[n + 1] = NextPlace(Placed(t)[n], u[n + 1])
  <2>1. n + 1 \in 1 .. (n + 1) /\ (n + 1) - 1 = n /\ n \in 0 .. n
    BY <1>1
  <2>2. Placed(u)[n + 1] = NextPlace(Placed(u)[(n + 1) - 1], u[n + 1])
    BY <1>4, <2>1
  <2> QED BY <1>8, <2>1, <2>2
<1> QED BY <1>8, <1>9

\* Place q comes before place r on the paper.
Before(q, r) == q[1] < r[1] \/ (q[1] = r[1] /\ q[2] < r[2])

\* The places of a text come one after the other.
LEMMA PlacesGrow ==
    ASSUME NEW t, Len(t) \in Nat
    PROVE  \A i \in 0 .. (Len(t) - 1) : Before(Placed(t)[i], Placed(t)[Len(t)])
<1> DEFINE n == Len(t)
           place == Placed(t)
           S == {k \in Nat : k <= n => \A i \in 0 .. (k - 1) : Before(place[i], place[k])}
<1>1. n \in Nat /\ \A i \in 0 .. n : place[i] \in Nat \X Columns
  BY PlacedIs
<1>2. \A i \in 1 .. n : place[i] = NextPlace(place[i - 1], t[i])
  BY PlacedIs
<1>3. ASSUME NEW q \in Nat \X Columns, NEW c PROVE Before(q, NextPlace(q, c))
  BY ConsoleAssumption DEF Before, NextPlace, Columns
<1>4. ASSUME NEW q \in Nat \X Columns, NEW r \in Nat \X Columns, NEW s \in Nat \X Columns,
             Before(q, r), Before(r, s)
      PROVE  Before(q, s)
  BY <1>4, ConsoleAssumption DEF Before, Columns
<1> HIDE DEF place
<1>5. 0 \in S
  OBVIOUS
<1>6. ASSUME NEW k \in Nat, k \in S PROVE k + 1 \in S
  <2> SUFFICES ASSUME k + 1 <= n, NEW i \in 0 .. k PROVE Before(place[i], place[k + 1])
    <3>1. \A i : i \in 0 .. ((k + 1) - 1) <=> i \in 0 .. k
      OBVIOUS
    <3> QED BY <3>1
  <2>1. /\ k + 1 \in 1 .. n /\ (k + 1) - 1 = k
        /\ place[i] \in Nat \X Columns /\ place[k] \in Nat \X Columns
        /\ place[k + 1] \in Nat \X Columns
    BY <1>1
  <2>2. place[k + 1] = NextPlace(place[(k + 1) - 1], t[k + 1])
    BY <1>2, <2>1
  <2>3. Before(place[k], place[k + 1])
    BY <1>3, <2>1, <2>2
  <2>4. CASE i = k
    BY <2>3, <2>4
  <2>5. CASE i # k
    <3>1. i \in 0 .. (k - 1) /\ k <= n
      BY <1>1, <2>5
    <3>2. Before(place[i], place[k])
      BY <1>6, <3>1
    <3> QED BY <1>4, <2>1, <2>3, <3>2
  <2> QED BY <2>4, <2>5
<1>7. \A k \in Nat : k \in S
  <2> HIDE DEF S
  <2> QED BY <1>5, <1>6, NatSetInduction
<1> QED BY <1>1, <1>7 DEF place

-----------------------------------------------------------------------------
\* What the screen shows of a text.

\* The characters at place <<r, s>> of the paper, and what is to be seen there.
CharsAt(text, r, s) ==
    {i \in 1 .. Len(text) : text[i] # NewLine /\ Placed(text)[i - 1] = <<r, s>>}

Ink(text, r, s) ==
    IF CharsAt(text, r, s) = {} THEN Blank
    ELSE text[CHOOSE i \in CharsAt(text, r, s) : TRUE]

\* Where the text ends, and the first line of the paper that is on the screen.
Last(text) == Placed(text)[Len(text)]
FirstRow(last) == IF last[1] < HEIGHT THEN 0 ELSE last[1] - HEIGHT + 1

LEMMA ShownIs ==
    ASSUME NEW text
    PROVE  Shown(text) = [col |-> Last(text)[2], lin |-> Last(text)[1] - FirstRow(Last(text)),
                          cells |-> [p \in Screen |-> Ink(text, p[1] + FirstRow(Last(text)), p[2])]]
BY Zenon DEF Shown, Ink, CharsAt, Last, FirstRow

\* One more character is to be seen where the text ended, and nowhere else.
LEMMA InkMore ==
    ASSUME NEW t, NEW u, Len(t) \in Nat, Len(u) = Len(t) + 1,
           \A i \in 1 .. Len(t) : u[i] = t[i], NEW r, NEW s
    PROVE  Ink(u, r, s) = IF u[Len(u)] # NewLine /\ Last(t) = <<r, s>> THEN u[Len(u)]
                          ELSE Ink(t, r, s)
<1> DEFINE n == Len(t)
           c == u[Len(u)]
<1>1. n \in Nat /\ n + 1 \in 1 .. (n + 1) /\ Len(u) = n + 1 /\ (n + 1) - 1 = n
  OBVIOUS
<1>2. \A i \in 1 .. n : u[i] = t[i] /\ Placed(u)[i - 1] = Placed(t)[i - 1]
  <2>1. \A i \in 0 .. n : Placed(u)[i] = Placed(t)[i]
    BY PlacedMore
  <2>2. \A i \in 1 .. n : i - 1 \in 0 .. n
    BY <1>1
  <2> QED BY <2>1, <2>2
<1>3. Placed(u)[n] = Last(t)
  BY <1>1, PlacedMore DEF Last
<1>4. \A i \in CharsAt(t, r, s) : i \in 1 .. n
  BY DEF CharsAt
<1>5. CASE c # NewLine /\ Last(t) = <<r, s>>
  <2>1. CharsAt(t, r, s) = {}
    <3> SUFFICES ASSUME NEW i \in CharsAt(t, r, s) PROVE FALSE
      OBVIOUS
    <3>1. i - 1 \in 0 .. (n - 1) /\ Placed(t)[i - 1] = <<r, s>>
      BY <1>1, <1>4 DEF CharsAt
    <3>2. Before(Placed(t)[i - 1], Placed(t)[n])
      BY <1>1, <3>1, PlacesGrow
    <3>3. Before(<<r, s>>, <<r, s>>) /\ Placed(t)[n] \in Nat \X Columns /\ Placed(t)[n] = <<r, s>>
      BY <1>1, <1>5, <3>1, <3>2, PlacedIs DEF Last
    <3>4. r \in Nat /\ s \in Nat
      BY <3>3, ConsoleAssumption DEF Columns
    <3> QED BY <3>3, <3>4 DEF Before
  <2>2. \A i : i \in CharsAt(u, r, s) <=> i = n + 1
    <3>1. n + 1 \in CharsAt(u, r, s)
      <4>1. n + 1 \in 1 .. Len(u) /\ u[n + 1] # NewLine /\ Placed(u)[(n + 1) - 1] = <<r, s>>
        BY <1>1, <1>3, <1>5
      <4> QED BY <4>1 DEF CharsAt
    <3>2. ASSUME NEW i \in CharsAt(u, r, s), i # n + 1 PROVE FALSE
      <4>1. i \in 1 .. n /\ u[i] # NewLine /\ Placed(u)[i - 1] = <<r, s>>
        BY <1>1, <3>2 DEF CharsAt
      <4>2. i \in CharsAt(t, r, s)
        BY <1>2, <4>1 DEF CharsAt
      <4> QED BY <2>1, <4>2
    <3> QED BY <3>1, <3>2
  <2>3. (CHOOSE i \in CharsAt(u, r, s) : TRUE) = n + 1 /\ CharsAt(u, r, s) # {}
    BY <2>2
  <2> QED BY <1>1, <1>5, <2>3 DEF Ink
<1>6. CASE ~ (c # NewLine /\ Last(t) = <<r, s>>)
  <2>1. CharsAt(u, r, s) = CharsAt(t, r, s)
    <3>1. ASSUME NEW i \in CharsAt(u, r, s) PROVE i \in CharsAt(t, r, s)
      <4>1. i \in 1 .. (n + 1) /\ u[i] # NewLine /\ Placed(u)[i - 1] = <<r, s>>
        BY <1>1 DEF CharsAt
      <4>2. i # n + 1
        BY <1>1, <1>3, <1>6, <4>1
      <4>3. i \in 1 .. n
        BY <1>1, <4>1, <4>2
      <4> QED BY <1>2, <4>1, <4>3 DEF CharsAt
    <3>2. ASSUME NEW i \in CharsAt(t, r, s) PROVE i \in CharsAt(u, r, s)
      <4>1. i \in 1 .. n /\ t[i] # NewLine /\ Placed(t)[i - 1] = <<r, s>>
        BY DEF CharsAt
      <4>2. i \in 1 .. Len(u)
        BY <1>1, <4>1
      <4> QED BY <1>2, <4>1, <4>2 DEF CharsAt
    <3> QED BY <3>1, <3>2
  <2>2. CASE CharsAt(t, r, s) = {}
    BY <1>6, <2>1, <2>2 DEF Ink
  <2>3. CASE CharsAt(t, r, s) # {}
    <3> DEFINE k == CHOOSE i \in CharsAt(t, r, s) : TRUE
    <3>1. k \in CharsAt(t, r, s)
      BY <2>3
    <3>2. Ink(u, r, s) = u[k] /\ Ink(t, r, s) = t[k]
      BY <2>1, <2>3 DEF Ink
    <3> HIDE DEF k
    <3> QED BY <1>2, <1>4, <1>6, <3>1, <3>2
  <2> QED BY <2>2, <2>3
<1> QED BY <1>5, <1>6

\* There is nothing to be seen below the end of a text.
LEMMA InkEnds ==
    ASSUME NEW t, Len(t) \in Nat, NEW r \in Nat, NEW s, r > Last(t)[1]
    PROVE  Ink(t, r, s) = Blank
<1> SUFFICES ASSUME NEW i \in CharsAt(t, r, s) PROVE FALSE
  BY DEF Ink
<1>1. i - 1 \in 0 .. (Len(t) - 1) /\ Placed(t)[i - 1] = <<r, s>>
  BY DEF CharsAt
<1>2. Before(Placed(t)[i - 1], Placed(t)[Len(t)])
  BY <1>1, PlacesGrow
<1>3. Placed(t)[Len(t)] \in Nat \X Columns
  BY PlacedIs
<1>4. Last(t)[1] \in Nat
  BY <1>3 DEF Last
<1>5. r < Last(t)[1] \/ r = Last(t)[1]
  BY <1>1, <1>2 DEF Before, Last
<1> QED BY <1>4, <1>5

\* A console by its fields, and what printc's halves make of it.
Con(col, lin, cells) == [col |-> col, lin |-> lin, cells |-> cells]
Scrolled(cells) ==
    [p \in Screen |-> IF p[1] + 1 \in Lines THEN cells[<<p[1] + 1, p[2]>>] ELSE Blank]

LEMMA StoreIs ==
    ASSUME NEW x, NEW y, NEW cells, NEW c
    PROVE  Store(Con(x, y, cells), c) =
             Con(x, y, IF c = NewLine THEN cells ELSE [cells EXCEPT ![<<y, x>>] = c])
BY DEF Store, Con

LEMMA NextLineIs ==
    ASSUME NEW x, NEW y, NEW cells
    PROVE  NextLine(Con(x, y, cells)) =
             IF y + 1 >= HEIGHT THEN Con(0, HEIGHT - 1, Scrolled(cells))
             ELSE Con(0, y + 1, cells)
<1> DEFINE k == Con(x, y, cells)
           moved == [k EXCEPT !.col = 0, !.lin = @ + 1]
<1>1. moved = Con(0, y + 1, cells)
  <2> DEFINE v == 0
             w == k.lin + 1
  <2>1. k.lin = y
    BY DEF Con
  <2> HIDE DEF v, w
  <2>2. [k EXCEPT !.col = v, !.lin = w] = Con(v, w, cells)
    <3> DEFINE r == [k EXCEPT !.col = v, !.lin = w]
    <3>1. DOMAIN k = {"col", "lin", "cells"} /\ k.cells = cells
      BY DEF Con
    <3> HIDE DEF k
    <3>2. r.col = v /\ r.lin = w /\ r.cells = cells
      BY <3>1
    <3>3. r = [d \in DOMAIN k |-> r[d]]
      OBVIOUS
    <3> HIDE DEF r
    <3>4. Con(v, w, cells) = [d \in DOMAIN k |-> r[d]]
      BY <3>1, <3>2 DEF Con
    <3> QED BY <3>3, <3>4, Zenon DEF r
  <2>3. moved = [k EXCEPT !.col = v, !.lin = w]
    BY Zenon DEF v, w
  <2> QED BY <2>1, <2>2, <2>3 DEF v, w
<1>2. NextLine(k) = IF moved.lin >= HEIGHT THEN ScrollDown(moved) ELSE moved
  BY DEF NextLine
<1> HIDE DEF moved, k
<1>3. moved.lin = y + 1 /\ moved.cells = cells
  BY <1>1 DEF Con
<1>4. ScrollDown(moved) = [moved EXCEPT !.lin = HEIGHT - 1, !.cells = Scrolled(cells)]
  BY <1>3 DEF ScrollDown, Scrolled
<1>5. ScrollDown(moved) = Con(0, HEIGHT - 1, Scrolled(cells))
  BY <1>1, <1>4 DEF Con
<1> QED BY <1>1, <1>2, <1>3, <1>5 DEF k

LEMMA AdvanceIs ==
    ASSUME NEW x, NEW y, NEW cells, NEW c
    PROVE  Advance(Con(x, y, cells), c) =
             IF c = NewLine \/ x + 1 >= WIDTH THEN NextLine(Con(x, y, cells))
             ELSE Con(x + 1, y, cells)
BY DEF Advance, Con

\* printc keeps on the screen what the text printed so far should look like:
\* one more character printed shows one more character of the text.
LEMMA ShownMore ==
    ASSUME NEW t, NEW u, Len(t) \in Nat, Len(u) = Len(t) + 1,
           \A i \in 1 .. Len(t) : u[i] = t[i]
    PROVE  Shown(u) = printc(Shown(t), u[Len(u)])
<1> DEFINE c == u[Len(u)]
           l == Last(t)
           m == Last(u)
           f == FirstRow(l)
           Inked(v, r) == [p \in Screen |-> Ink(v, p[1] + r, p[2])]
<1>1. l \in Nat \X Columns /\ l[1] \in Nat /\ l[2] \in Columns /\ l = <<l[1], l[2]>>
  <2>1. l \in Nat \X Columns
    BY PlacedIs DEF Last
  <2> HIDE DEF l
  <2> QED BY <2>1
<1>2. m = NextPlace(l, c)
  BY PlacedMore DEF Last
<1>3. Shown(t) = Con(l[2], l[1] - f, Inked(t, f))
  BY ShownIs DEF Con
<1>4. Shown(u) = Con(m[2], m[1] - FirstRow(m), Inked(u, FirstRow(m)))
  BY ShownIs DEF Con
<1>5. f \in Nat /\ l[1] - f \in Lines
  <2> HIDE DEF l
  <2> QED BY <1>1, ConsoleAssumption DEF FirstRow, Lines
<1>6. \A r, s : Ink(u, r, s) = IF c # NewLine /\ l = <<r, s>> THEN c ELSE Ink(t, r, s)
  BY InkMore
<1>7. ASSUME NEW r \in Nat, NEW s, r > l[1] PROVE Ink(u, r, s) = Blank
  <2>1. l # <<r, s>>
    <3> HIDE DEF l
    <3> QED BY <1>1, <1>7
  <2>2. Ink(t, r, s) = Blank
    BY <1>7, InkEnds
  <2> QED BY <1>6, <2>1, <2>2
<1> HIDE DEF l, m, f, c
<1>8. ASSUME NEW p \in Screen PROVE p[1] \in Lines /\ p[2] \in Columns /\ p = <<p[1], p[2]>>
  BY DEF Screen
<1>9. Store(Shown(t), c) = Con(l[2], l[1] - f, Inked(u, f))
  <2>1. CASE c = NewLine
    <3>1. Inked(u, f) = Inked(t, f)
      BY <1>6, <2>1
    <3> DEFINE x == l[2]
               y == l[1] - f
               old == Inked(t, f)
    <3> HIDE DEF x, y, old
    <3>2. Store(Con(x, y, old), c) = Con(x, y, old)
      BY <2>1, StoreIs
    <3> QED BY <1>3, <3>1, <3>2 DEF x, y, old
  <2>2. CASE c # NewLine
    <3> DEFINE at0 == <<l[1] - f, l[2]>>
               cells == [Inked(t, f) EXCEPT ![at0] = c]
    <3>1. ASSUME NEW p \in Screen PROVE cells[p] = Ink(u, p[1] + f, p[2])
      <4>1. cells[p] = IF p = at0 THEN c ELSE Ink(t, p[1] + f, p[2])
        <5> HIDE DEF at0
        <5> QED OBVIOUS
      <4>2. p = at0 <=> l = <<p[1] + f, p[2]>>
        <5>1. p[1] \in Nat /\ p = <<p[1], p[2]>>
          BY <1>8 DEF Lines
        <5>2. p = at0 <=> p[1] = l[1] - f /\ p[2] = l[2]
          BY <5>1
        <5>3. l = <<p[1] + f, p[2]>> <=> l[1] = p[1] + f /\ l[2] = p[2]
          BY <1>1
        <5>4. p[1] = l[1] - f <=> l[1] = p[1] + f
          BY <1>1, <1>5, <5>1
        <5> QED BY <5>2, <5>3, <5>4
      <4> HIDE DEF cells, at0
      <4> QED BY <1>6, <2>2, <4>1, <4>2
    <3>2. cells = [p \in Screen |-> cells[p]]
      <4> HIDE DEF at0
      <4> QED OBVIOUS
    <3>3. Store(Shown(t), c) = Con(l[2], l[1] - f, cells)
      <4> HIDE DEF Inked
      <4> QED BY <1>3, <2>2, StoreIs
    <3> HIDE DEF cells, at0
    <3>4. cells = Inked(u, f)
      BY <3>1, <3>2
    <3> QED BY <3>3, <3>4
  <2> QED BY <2>1, <2>2
<1>10. printc(Shown(t), c) = Advance(Con(l[2], l[1] - f, Inked(u, f)), c)
  BY <1>9 DEF printc
<1>11. Advance(Con(l[2], l[1] - f, Inked(u, f)), c) =
         IF c = NewLine \/ l[2] + 1 >= WIDTH
           THEN IF (l[1] - f) + 1 >= HEIGHT THEN Con(0, HEIGHT - 1, Scrolled(Inked(u, f)))
                ELSE Con(0, (l[1] - f) + 1, Inked(u, f))
         ELSE Con(l[2] + 1, l[1] - f, Inked(u, f))
  <2> HIDE DEF Inked
  <2> QED BY AdvanceIs, NextLineIs
<1>12. CASE ~ (c = NewLine \/ l[2] + 1 = WIDTH)
  <2>1. m[1] = l[1] /\ m[2] = l[2] + 1
    BY <1>2, <1>12 DEF NextPlace
  <2>2. FirstRow(m) = f
    BY <2>1 DEF FirstRow, f
  <2>3. ~ (c = NewLine \/ l[2] + 1 >= WIDTH)
    BY <1>1, <1>12, ConsoleAssumption DEF Columns
  <2> HIDE DEF Inked
  <2> QED BY <1>4, <1>10, <1>11, <2>1, <2>2, <2>3 DEF c
<1>13. CASE (c = NewLine \/ l[2] + 1 = WIDTH) /\ l[1] + 1 < HEIGHT
  <2>1. m[1] = l[1] + 1 /\ m[2] = 0
    BY <1>2, <1>13 DEF NextPlace
  <2>2. FirstRow(m) = 0 /\ f = 0
    BY <1>1, <1>13, <2>1, ConsoleAssumption DEF FirstRow, f
  <2>3. /\ c = NewLine \/ l[2] + 1 >= WIDTH
        /\ ~ ((l[1] - f) + 1 >= HEIGHT) /\ (l[1] - f) + 1 = m[1] - FirstRow(m)
    BY <1>1, <1>13, <2>1, <2>2, ConsoleAssumption DEF Columns
  <2> HIDE DEF Inked
  <2> QED BY <1>4, <1>10, <1>11, <2>1, <2>2, <2>3 DEF c
<1>14. CASE (c = NewLine \/ l[2] + 1 = WIDTH) /\ ~ (l[1] + 1 < HEIGHT)
  <2>1. m[1] = l[1] + 1 /\ m[2] = 0
    BY <1>2, <1>14 DEF NextPlace
  <2>2. FirstRow(m) = f + 1 /\ f + HEIGHT = l[1] + 1
    BY <1>1, <1>14, <2>1, ConsoleAssumption DEF FirstRow, f
  <2>3. /\ c = NewLine \/ l[2] + 1 >= WIDTH
        /\ (l[1] - f) + 1 >= HEIGHT /\ HEIGHT - 1 = m[1] - FirstRow(m)
    BY <1>1, <1>5, <1>14, <2>1, <2>2, ConsoleAssumption DEF Columns
  <2>4. ASSUME NEW p \in Screen
        PROVE  Scrolled(Inked(u, f))[p] = Ink(u, p[1] + (f + 1), p[2])
    <3>1. p[1] \in Nat /\ p[1] + (f + 1) \in Nat /\ (p[1] + 1) + f = p[1] + (f + 1)
          /\ p[2] \in Columns /\ p[1] < HEIGHT
      BY <1>5, <1>8, ConsoleAssumption DEF Lines
    <3>2. Scrolled(Inked(u, f))[p] =
            IF p[1] + 1 \in Lines THEN Inked(u, f)[<<p[1] + 1, p[2]>>] ELSE Blank
      BY DEF Scrolled
    <3>3. CASE p[1] + 1 \in Lines
      <4>1. <<p[1] + 1, p[2]>> \in Screen
        BY <3>1, <3>3 DEF Screen
      <4>2. Inked(u, f)[<<p[1] + 1, p[2]>>] = Ink(u, (p[1] + 1) + f, p[2])
        BY <4>1
      <4> HIDE DEF Inked
      <4> QED BY <3>1, <3>2, <3>3, <4>2
    <3>4. CASE p[1] + 1 \notin Lines
      <4>1. p[1] + (f + 1) > l[1]
        <5>1. p[1] + 1 = HEIGHT
          BY <3>1, <3>4, ConsoleAssumption DEF Lines
        <5> QED BY <1>1, <1>5, <2>2, <3>1, <5>1
      <4>2. Ink(u, p[1] + (f + 1), p[2]) = Blank
        BY <1>7, <3>1, <4>1
      <4> QED BY <3>2, <3>4, <4>2
    <3> QED BY <3>3, <3>4
  <2>5. Scrolled(Inked(u, f)) = Inked(u, f + 1)
    <3>1. Scrolled(Inked(u, f)) = [p \in Screen |-> Scrolled(Inked(u, f))[p]]
      BY DEF Scrolled
    <3> QED BY <2>4, <3>1
  <2> HIDE DEF Inked
  <2> QED BY <1>4, <1>10, <1>11, <2>1, <2>2, <2>3, <2>5 DEF c
<1> QED BY <1>12, <1>13, <1>14

LEMMA ShownEmpty ==
    ASSUME NEW t, Len(t) = 0
    PROVE  Shown(t) = Cleared
<1>1. Last(t) = <<0, 0>>
  BY PlacedIs DEF Last
<1>2. FirstRow(Last(t)) = 0 /\ Last(t)[1] = 0 /\ Last(t)[2] = 0
  BY <1>1, ConsoleAssumption DEF FirstRow
<1>3. \A r, s : Ink(t, r, s) = Blank
  BY DEF Ink, CharsAt
<1>4. Shown(t) = [col |-> 0, lin |-> 0, cells |-> [p \in Screen |-> Ink(t, p[1] + 0, p[2])]]
  BY <1>2, ShownIs
<1> QED BY <1>3, <1>4 DEF Cleared

-----------------------------------------------------------------------------
\* What codes stand for.

\* What is printed; the last four are the keyboard's.
Chars == STRING \cup {"lower", "upper", "nul", NewLine}

Prints(c) == ~ c.up /\ c.key \notin ShiftKeys
CharOf(s, i) == IF ShiftedAt(s, i) THEN en_US_shift[s[i].key] ELSE en_US[s[i].key]
TypedStep(s, q, i) == IF Prints(s[i]) THEN Append(q, CharOf(s, i)) ELSE q

\* f[i]: what the first i codes stand for.
TypedBy(f, s) ==
    /\ f \in [0 .. Len(s) -> Seq(Chars)] /\ f[0] = <<>>
    /\ \A i \in 1 .. Len(s) : f[i] = TypedStep(s, f[i - 1], i)

LEMMA CharOfChars ==
    ASSUME NEW s \in Seq(Code), NEW i \in 1 .. Len(s), Prints(s[i])
    PROVE  CharOf(s, i) \in Chars
<1>1. s[i] \in Code
  OBVIOUS
<1>2. s[i].key = "letter" \/ s[i].key = "return" \/ s[i].key = "control"
  BY <1>1 DEF Code, Prints
<1>3. \A k \in {"letter", "return", "control"} : en_US[k] \in Chars /\ en_US_shift[k] \in Chars
  <2>1. /\ en_US["letter"] = "lower" /\ en_US["return"] = NewLine /\ en_US["control"] = "nul"
        /\ en_US_shift["letter"] = "upper" /\ en_US_shift["return"] = NewLine
        /\ en_US_shift["control"] = "nul"
    BY DEF en_US, en_US_shift
  <2> QED BY <2>1 DEF Chars
<1>4. en_US[s[i].key] \in Chars /\ en_US_shift[s[i].key] \in Chars
  BY <1>2, <1>3
<1> QED BY <1>4 DEF CharOf

LEMMA TypedStepText ==
    ASSUME NEW s \in Seq(Code), NEW i \in 1 .. Len(s), NEW q \in Seq(Chars)
    PROVE  TypedStep(s, q, i) \in Seq(Chars)
<1>1. CASE Prints(s[i])
  <2>1. CharOf(s, i) \in Chars
    BY <1>1, CharOfChars
  <2>2. Append(q, CharOf(s, i)) \in Seq(Chars)
    BY <2>1, AppendProperties
  <2> QED BY <1>1, <2>2 DEF TypedStep
<1>2. CASE ~ Prints(s[i])
  BY <1>2 DEF TypedStep
<1> QED BY <1>1, <1>2

\* The function in Typed is defined by its equation.
LEMMA TypedIs ==
    ASSUME NEW s \in Seq(Code)
    PROVE  \E f : TypedBy(f, s) /\ Typed(s) = f[Len(s)]
<1> DEFINE n == Len(s)
           V == Seq(Chars)
           G == [x \in Nat \X V |-> IF x[1] + 1 \in 1 .. n THEN TypedStep(s, x[2], x[1] + 1) ELSE x[2]]
           P == CHOOSE text : text = [i \in 0 .. n |->
                  IF i = 0 THEN <<>> ELSE TypedStep(s, text[i - 1], i)]
<1>0. n \in Nat /\ <<>> \in V
  OBVIOUS
<1>1. \A i \in 1 .. n, q \in V : TypedStep(s, q, i) \in V
  BY TypedStepText
<1>2. G \in [Nat \X V -> V]
  <2> HIDE DEF V, n
  <2> QED BY <1>1
<1>3. \A i \in 1 .. n, q \in V : G[<<i - 1, q>>] = TypedStep(s, q, i)
  <2> SUFFICES ASSUME NEW i \in 1 .. n, NEW q \in V PROVE G[<<i - 1, q>>] = TypedStep(s, q, i)
    OBVIOUS
  <2>1. i - 1 \in Nat /\ (i - 1) + 1 = i
    BY <1>0
  <2>2. G[<<i - 1, q>>] = IF (i - 1) + 1 \in 1 .. n THEN TypedStep(s, q, (i - 1) + 1) ELSE q
    <3> HIDE DEF V, n
    <3> QED BY <2>1
  <2> QED BY <2>1, <2>2
<1> HIDE DEF G, V
<1>4. PICK f : Goes(f, V, <<>>, G, n)
  <2>1. \A a \in V : \E f : Goes(f, V, a, G, n)
    <3> HIDE DEF n, P
    <3> QED BY <1>0, <1>2, Iterates
  <2> QED BY <1>0, <2>1, Zenon
<1> HIDE DEF n
<1>5. ASSUME NEW i \in 1 .. n PROVE f[i] = TypedStep(s, f[i - 1], i)
  <2>1. i - 1 \in 0 .. (n - 1) /\ (i - 1) + 1 = i /\ i - 1 \in 0 .. n
    BY <1>0
  <2>2. f[(i - 1) + 1] = G[<<i - 1, f[i - 1]>>]
    BY <1>4, <2>1 DEF Goes
  <2>3. f[i - 1] \in V
    BY <1>4, <2>1 DEF Goes
  <2>4. G[<<i - 1, f[i - 1]>>] = TypedStep(s, f[i - 1], i)
    BY <1>3, <2>3
  <2> QED BY <2>1, <2>2, <2>4
<1>6. f = [i \in 0 .. n |-> IF i = 0 THEN <<>> ELSE TypedStep(s, f[i - 1], i)]
  <2>1. ASSUME NEW i \in 0 .. n
        PROVE  f[i] = IF i = 0 THEN <<>> ELSE TypedStep(s, f[i - 1], i)
    <3>1. CASE i = 0
      BY <1>4, <3>1 DEF Goes
    <3>2. CASE i # 0
      <4>1. i \in 1 .. n
        BY <1>0, <3>2
      <4> QED BY <1>5, <3>2, <4>1
    <3> QED BY <3>1, <3>2
  <2> QED BY <1>4, <2>1 DEF Goes
<1>7. P = [i \in 0 .. n |-> IF i = 0 THEN <<>> ELSE TypedStep(s, P[i - 1], i)]
  BY <1>6, Zenon
<1>8. Typed(s) = P[n]
  BY Zenon DEF Typed, TypedStep, Prints, CharOf, n
<1> HIDE DEF P
<1>9. \A i \in 0 .. n : P[i] = IF i = 0 THEN <<>> ELSE TypedStep(s, P[i - 1], i)
  BY <1>7
<1>10. P[0] = <<>> /\ \A i \in 1 .. n : P[i] = TypedStep(s, P[i - 1], i)
  BY <1>0, <1>9
<1>11. \A i \in 0 .. n : P[i] \in V
  <2> DEFINE S == {i \in Nat : i <= n => P[i] \in V}
  <2>1. 0 \in S
    <3>1. P[0] \in V
      BY <1>0, <1>10
    <3> QED BY <3>1
  <2>2. ASSUME NEW i \in Nat, i \in S PROVE i + 1 \in S
    <3> SUFFICES ASSUME i + 1 <= n PROVE P[i + 1] \in V
      OBVIOUS
    <3>1. P[i] \in V /\ i + 1 \in 1 .. n /\ (i + 1) - 1 = i
      BY <1>0, <2>2
    <3> QED BY <1>1, <1>10, <3>1
  <2>3. \A i \in Nat : i \in S
    <3> HIDE DEF S
    <3> QED BY <2>1, <2>2, NatSetInduction
  <2> QED BY <1>0, <2>3
<1>12. P \in [0 .. n -> V]
  <2>1. P = [i \in 0 .. n |-> P[i]]
    BY <1>7
  <2> QED BY <1>11, <2>1
<1>13. TypedBy(P, s)
  BY <1>10, <1>12 DEF TypedBy, n, V
<1> QED BY <1>8, <1>13 DEF n

\* Whether an earlier code is shifted does not depend on later ones.
LEMMA ShiftedSame ==
    ASSUME NEW s \in Seq(Code), NEW c \in Code, NEW i \in 1 .. (Len(s) + 1)
    PROVE  ShiftedAt(Append(s, c), i) <=> ShiftedAt(s, i)
<1>1. \A j \in 1 .. (i - 1) : Append(s, c)[j] = s[j]
  BY AppendKeeps
<1>2. \A j \in 1 .. (i - 1) : \A k \in (j + 1) .. (i - 1) : Append(s, c)[k] = s[k]
  BY <1>1
<1> DEFINE u == Append(s, c)
<1> HIDE DEF u
<1> QED BY <1>1, <1>2 DEF ShiftedAt, u

\* A shift key decides, any other key leaves the shift as it is.
LEMMA ShiftedMore ==
    ASSUME NEW s \in Seq(Code), NEW c \in Code
    PROVE  ShiftedAt(Append(s, c), Len(s) + 2) <=>
             IF c.key \in ShiftKeys THEN ~ c.up ELSE ShiftedAt(s, Len(s) + 1)
<1> DEFINE u == Append(s, c)
           n == Len(s)
<1>1. n \in Nat /\ u[n + 1] = c /\ \A i \in 1 .. n : u[i] = s[i]
  BY AppendKeeps
<1> HIDE DEF u, n
<1>2. ShiftedAt(u, n + 2) <=> \E j \in 1 .. (n + 1) :
        /\ u[j].key \in ShiftKeys /\ ~ u[j].up
        /\ \A k \in (j + 1) .. (n + 1) : u[k].key \notin ShiftKeys
  <2>1. (n + 2) - 1 = n + 1
    BY <1>1
  <2> QED BY <2>1 DEF ShiftedAt
<1>3. ShiftedAt(s, n + 1) <=> \E j \in 1 .. n :
        /\ s[j].key \in ShiftKeys /\ ~ s[j].up
        /\ \A k \in (j + 1) .. n : s[k].key \notin ShiftKeys
  <2>1. (n + 1) - 1 = n
    BY <1>1
  <2> QED BY <2>1 DEF ShiftedAt
<1>4. CASE c.key \in ShiftKeys
  <2>1. ASSUME ~ c.up PROVE ShiftedAt(u, n + 2)
    <3>1. n + 1 \in 1 .. (n + 1) /\ ((n + 1) + 1) .. (n + 1) = {}
      BY <1>1
    <3> QED BY <1>1, <1>2, <1>4, <2>1, <3>1
  <2>2. ASSUME ShiftedAt(u, n + 2) PROVE ~ c.up
    <3>1. PICK j \in 1 .. (n + 1) :
            /\ u[j].key \in ShiftKeys /\ ~ u[j].up
            /\ \A k \in (j + 1) .. (n + 1) : u[k].key \notin ShiftKeys
      BY <1>2, <2>2
    <3>2. j = n + 1
      <4>1. j # n + 1 => n + 1 \in (j + 1) .. (n + 1)
        BY <1>1
      <4> QED BY <1>1, <1>4, <3>1, <4>1
    <3> QED BY <1>1, <3>1, <3>2
  <2> QED BY <1>4, <2>1, <2>2 DEF u, n
<1>5. CASE c.key \notin ShiftKeys
  <2>1. ASSUME ShiftedAt(s, n + 1) PROVE ShiftedAt(u, n + 2)
    <3>1. PICK j \in 1 .. n :
            /\ s[j].key \in ShiftKeys /\ ~ s[j].up
            /\ \A k \in (j + 1) .. n : s[k].key \notin ShiftKeys
      BY <1>3, <2>1
    <3>2. \A k \in (j + 1) .. (n + 1) : k = n + 1 \/ (k \in (j + 1) .. n /\ k \in 1 .. n)
      BY <1>1
    <3>3. \A k \in (j + 1) .. (n + 1) : u[k].key \notin ShiftKeys
      BY <1>1, <1>5, <3>1, <3>2
    <3>4. j \in 1 .. (n + 1) /\ u[j] = s[j]
      BY <1>1
    <3> QED BY <1>2, <3>1, <3>3, <3>4
  <2>2. ASSUME ShiftedAt(u, n + 2) PROVE ShiftedAt(s, n + 1)
    <3>1. PICK j \in 1 .. (n + 1) :
            /\ u[j].key \in ShiftKeys /\ ~ u[j].up
            /\ \A k \in (j + 1) .. (n + 1) : u[k].key \notin ShiftKeys
      BY <1>2, <2>2
    <3>2. j \in 1 .. n
      BY <1>1, <1>5, <3>1
    <3>3. \A k \in (j + 1) .. n : k \in (j + 1) .. (n + 1) /\ k \in 1 .. n
      BY <1>1, <3>2
    <3>4. \A k \in (j + 1) .. n : s[k].key \notin ShiftKeys
      BY <1>1, <3>1, <3>3
    <3> QED BY <1>1, <1>3, <3>1, <3>2, <3>4
  <2> QED BY <1>5, <2>1, <2>2 DEF u, n
<1> QED BY <1>4, <1>5

\* A code adds its character, if it has one, to what the codes before stand for.
LEMMA TypedMore ==
    ASSUME NEW s \in Seq(Code), NEW c \in Code
    PROVE  Typed(Append(s, c)) =
             IF Prints(c)
               THEN Append(Typed(s), IF ShiftedAt(s, Len(s) + 1) THEN en_US_shift[c.key]
                                     ELSE en_US[c.key])
             ELSE Typed(s)
<1> DEFINE u == Append(s, c)
           n == Len(s)
<1>1. /\ u \in Seq(Code) /\ n \in Nat /\ Len(u) = n + 1
      /\ u[n + 1] = c /\ \A i \in 1 .. n : u[i] = s[i]
  BY AppendKeeps, AppendProperties
<1>2. PICK f : TypedBy(f, s) /\ Typed(s) = f[n]
  BY TypedIs
<1>3. PICK g : TypedBy(g, u) /\ Typed(u) = g[n + 1]
  <2>1. PICK g : TypedBy(g, u) /\ Typed(u) = g[Len(u)]
    <3> HIDE DEF u
    <3> QED BY <1>1, TypedIs
  <2> QED BY <1>1, <2>1
<1>4. \A i \in 1 .. (n + 1) : ShiftedAt(u, i) <=> ShiftedAt(s, i)
  BY ShiftedSame
<1> HIDE DEF u
<1>5. \A i \in 1 .. n : CharOf(u, i) = CharOf(s, i)
  <2> SUFFICES ASSUME NEW i \in 1 .. n PROVE CharOf(u, i) = CharOf(s, i)
    OBVIOUS
  <2>1. u[i] = s[i] /\ i \in 1 .. (n + 1)
    BY <1>1
  <2>2. ShiftedAt(u, i) <=> ShiftedAt(s, i)
    BY <1>4, <2>1
  <2>3. CASE ShiftedAt(s, i)
    BY <2>1, <2>2, <2>3 DEF CharOf
  <2>4. CASE ~ ShiftedAt(s, i)
    BY <2>1, <2>2, <2>4 DEF CharOf
  <2> QED BY <2>3, <2>4
<1>6. f[0] = <<>> /\ \A i \in 1 .. n : f[i] = TypedStep(s, f[i - 1], i)
  BY <1>2 DEF TypedBy
<1>7. g[0] = <<>> /\ \A i \in 1 .. (n + 1) : g[i] = TypedStep(u, g[i - 1], i)
  BY <1>1, <1>3 DEF TypedBy
<1>8. \A i \in 0 .. n : g[i] = f[i]
  <2> DEFINE S == {i \in Nat : i <= n => g[i] = f[i]}
  <2>1. 0 \in S
    BY <1>6, <1>7
  <2>2. ASSUME NEW i \in Nat, i \in S PROVE i + 1 \in S
    <3> SUFFICES ASSUME i + 1 <= n PROVE g[i + 1] = f[i + 1]
      OBVIOUS
    <3>1. /\ g[i] = f[i] /\ i + 1 \in 1 .. n /\ i + 1 \in 1 .. (n + 1) /\ (i + 1) - 1 = i
      BY <1>1, <2>2
    <3>2. g[i + 1] = TypedStep(u, g[(i + 1) - 1], i + 1)
      BY <1>7, <3>1
    <3>3. f[i + 1] = TypedStep(s, f[(i + 1) - 1], i + 1)
      BY <1>6, <3>1
    <3>4. CharOf(u, i + 1) = CharOf(s, i + 1) /\ u[i + 1] = s[i + 1]
      BY <1>1, <1>5, <3>1
    <3>5. TypedStep(u, f[i], i + 1) = TypedStep(s, f[i], i + 1)
      BY <3>4 DEF TypedStep
    <3> QED BY <3>1, <3>2, <3>3, <3>5
  <2>3. \A i \in Nat : i \in S
    <3> HIDE DEF S
    <3> QED BY <2>1, <2>2, NatSetInduction
  <2> QED BY <1>1, <2>3
<1>9. Typed(u) = TypedStep(u, Typed(s), n + 1)
  <2>1. n + 1 \in 1 .. (n + 1) /\ (n + 1) - 1 = n /\ n \in 0 .. n
    BY <1>1
  <2>2. g[n + 1] = TypedStep(u, g[(n + 1) - 1], n + 1)
    BY <1>7, <2>1
  <2> QED BY <1>2, <1>3, <1>8, <2>1, <2>2
<1>10. ShiftedAt(u, n + 1) <=> ShiftedAt(s, n + 1)
  BY <1>1, <1>4
<1>11. CASE ShiftedAt(s, n + 1)
  <2>1. CharOf(u, n + 1) = en_US_shift[c.key]
    BY <1>1, <1>10, <1>11 DEF CharOf
  <2> QED BY <1>1, <1>9, <1>11, <2>1 DEF TypedStep, u
<1>12. CASE ~ ShiftedAt(s, n + 1)
  <2>1. CharOf(u, n + 1) = en_US[c.key]
    BY <1>1, <1>10, <1>12 DEF CharOf
  <2> QED BY <1>1, <1>9, <1>12, <2>1 DEF TypedStep, u
<1> QED BY <1>11, <1>12

LEMMA TypedText ==
    /\ \A s \in Seq(Code) : Typed(s) \in Seq(Chars)
    /\ Typed(<<>>) = <<>>
<1>1. ASSUME NEW s \in Seq(Code) PROVE Typed(s) \in Seq(Chars) /\ (Len(s) = 0 => Typed(s) = <<>>)
  <2>1. PICK f : TypedBy(f, s) /\ Typed(s) = f[Len(s)]
    BY TypedIs
  <2>2. Len(s) \in 0 .. Len(s)
    OBVIOUS
  <2> QED BY <2>1, <2>2 DEF TypedBy
<1>2. <<>> \in Seq(Code) /\ Len(<<>>) = 0
  OBVIOUS
<1> QED BY <1>1, <1>2

-----------------------------------------------------------------------------
\* The text on the screen.

\* What kmain has printed, and then what the codes read stand for.
ToShow(n, s) == SubSeq(Welcome, 1, n) \o Typed(s)

LEMMA WelcomeChars == Welcome \in Seq(Chars) /\ Len(Welcome) \in Nat
<1>1. STRING \subseteq Chars
  BY DEF Chars
<1>2. Welcome \in Seq(STRING)
  BY InterruptsAssumption
<1>3. Len(Welcome) \in Nat /\ Welcome \in [1 .. Len(Welcome) -> STRING]
  BY <1>2
<1>4. Welcome \in [1 .. Len(Welcome) -> Chars]
  <2> HIDE DEF Chars
  <2> QED BY <1>1, <1>3
<1> QED BY <1>3, <1>4, SeqDef

LEMMA ToShowIs ==
    ASSUME NEW n \in 0 .. Len(Welcome), NEW s \in Seq(Code)
    PROVE  /\ Len(ToShow(n, s)) \in Nat /\ Len(ToShow(n, s)) = n + Len(Typed(s))
           /\ Len(Typed(s)) \in Nat
           /\ \A i \in 1 .. n : ToShow(n, s)[i] = Welcome[i]
           /\ \A i \in 1 .. Len(Typed(s)) : ToShow(n, s)[n + i] = Typed(s)[i]
<1> DEFINE a == SubSeq(Welcome, 1, n)
           b == Typed(s)
<1>1. a \in Seq(Chars) /\ Len(a) = n /\ \A i \in 1 .. n : a[i] = Welcome[i]
  BY WelcomeChars
<1>2. b \in Seq(Chars)
  BY TypedText
<1> HIDE DEF a, b
<1>3. /\ Len(a \o b) = Len(a) + Len(b) /\ Len(b) \in Nat
      /\ \A i \in 1 .. (Len(a) + Len(b)) : (a \o b)[i] = IF i <= Len(a) THEN a[i] ELSE b[i - Len(a)]
  BY <1>1, <1>2, ConcatProperties
<1>4. n \in Nat
  BY WelcomeChars
<1>5. \A i \in 1 .. n : (a \o b)[i] = Welcome[i]
  <2>1. \A i \in 1 .. n : i \in 1 .. (n + Len(b)) /\ i <= n
    BY <1>3, <1>4
  <2> QED BY <1>1, <1>3, <2>1
<1>6. \A i \in 1 .. Len(b) : (a \o b)[n + i] = b[i]
  <2>1. \A i \in 1 .. Len(b) : n + i \in 1 .. (n + Len(b)) /\ ~ (n + i <= n) /\ (n + i) - n = i
    BY <1>3, <1>4
  <2> QED BY <1>1, <1>3, <2>1
<1>7. ToShow(n, s) = a \o b
  BY DEF ToShow, a, b
<1> QED BY <1>1, <1>3, <1>4, <1>5, <1>6, <1>7 DEF b

\* kmain prints one more character, while nothing typed has been read.
LEMMA PrintMore ==
    ASSUME NEW n \in 0 .. (Len(Welcome) - 1), NEW s \in Seq(Code), Len(s) = 0
    PROVE  Shown(ToShow(n + 1, s)) = printc(Shown(ToShow(n, s)), Welcome[n + 1])
<1>1. s = <<>>
  OBVIOUS
<1>2. Len(Typed(s)) = 0
  BY <1>1, TypedText
<1>0. ASSUME NEW k \in 0 .. Len(Welcome)
      PROVE  Len(ToShow(k, s)) = k /\ \A i \in 1 .. k : ToShow(k, s)[i] = Welcome[i]
  <2>1. Len(ToShow(k, s)) = k + Len(Typed(s)) /\ \A i \in 1 .. k : ToShow(k, s)[i] = Welcome[i]
    BY ToShowIs
  <2>2. k + 0 = k
    BY WelcomeChars
  <2> QED BY <1>2, <2>1, <2>2
<1>3. n \in Nat /\ n \in 0 .. Len(Welcome) /\ n + 1 \in 0 .. Len(Welcome)
  BY WelcomeChars
<1> DEFINE t == ToShow(n, s)
           u == ToShow(n + 1, s)
<1>4. Len(t) = n /\ \A i \in 1 .. n : t[i] = Welcome[i]
  BY <1>0, <1>3
<1>5. Len(u) = n + 1 /\ \A i \in 1 .. (n + 1) : u[i] = Welcome[i]
  BY <1>0, <1>3
<1> HIDE DEF t, u
<1>6. \A i \in 1 .. n : u[i] = t[i]
  BY <1>3, <1>4, <1>5
<1>7. u[Len(u)] = Welcome[n + 1]
  BY <1>3, <1>5
<1>8. Shown(u) = printc(Shown(t), u[Len(u)])
  BY <1>3, <1>4, <1>5, <1>6, ShownMore
<1> QED BY <1>7, <1>8 DEF t, u

\* The driver reads one more code.
LEMMA ReadMore ==
    ASSUME NEW n \in 0 .. Len(Welcome), NEW s \in Seq(Code), NEW c \in Code
    PROVE  Shown(ToShow(n, Append(s, c))) =
             IF Prints(c)
               THEN printc(Shown(ToShow(n, s)), IF ShiftedAt(s, Len(s) + 1) THEN en_US_shift[c.key]
                                                ELSE en_US[c.key])
             ELSE Shown(ToShow(n, s))
<1> DEFINE v == Append(s, c)
           x == IF ShiftedAt(s, Len(s) + 1) THEN en_US_shift[c.key] ELSE en_US[c.key]
           t == ToShow(n, s)
           u == ToShow(n, v)
           a == Typed(s)
           b == Typed(v)
<1>1. v \in Seq(Code)
  BY AppendProperties
<1>2. CASE ~ Prints(c)
  BY <1>2, TypedMore DEF ToShow
<1>3. CASE Prints(c)
  <2>1. b = Append(a, x)
    BY <1>3, TypedMore
  <2>2. a \in Seq(Chars)
    BY TypedText
  <2>3. n \in Nat
    BY WelcomeChars
  <2> HIDE DEF x
  <2>4. /\ Len(a) \in Nat /\ Len(t) = n + Len(a)
        /\ \A i \in 1 .. n : t[i] = Welcome[i]
        /\ \A i \in 1 .. Len(a) : t[n + i] = a[i]
    BY ToShowIs
  <2> HIDE DEF v
  <2>5. /\ Len(b) \in Nat /\ Len(u) = n + Len(b)
        /\ \A i \in 1 .. n : u[i] = Welcome[i]
        /\ \A i \in 1 .. Len(b) : u[n + i] = b[i]
    BY <1>1, ToShowIs
  <2> HIDE DEF a, b, t, u
  <2>6. Len(b) = Len(a) + 1 /\ b[Len(a) + 1] = x /\ \A i \in 1 .. Len(a) : b[i] = a[i]
    BY <2>1, <2>2
  <2>7. ASSUME NEW i \in 1 .. Len(t) PROVE u[i] = t[i]
    <3>1. CASE i \in 1 .. n
      BY <2>4, <2>5, <3>1
    <3>2. CASE i \notin 1 .. n
      <4> DEFINE j == i - n
      <4>1. j \in 1 .. Len(a) /\ j \in 1 .. Len(b) /\ n + j = i
        BY <2>3, <2>4, <2>6, <3>2
      <4>2. u[n + j] = b[j] /\ t[n + j] = a[j]
        <5> HIDE DEF j
        <5> QED BY <2>4, <2>5, <4>1
      <4> QED BY <2>6, <4>1, <4>2
    <3> QED BY <3>1, <3>2
  <2>8. Len(t) \in Nat /\ Len(u) = Len(t) + 1
    BY <2>3, <2>4, <2>5, <2>6
  <2>9. u[Len(u)] = x
    <3>1. Len(b) \in 1 .. Len(b) /\ Len(u) = n + Len(b)
      BY <2>4, <2>5, <2>6
    <3> QED BY <2>5, <2>6, <3>1
  <2>10. Shown(u) = printc(Shown(t), u[Len(u)])
    BY <2>7, <2>8, ShownMore
  <2> QED BY <1>3, <2>9, <2>10 DEF t, u, v, x
<1> QED BY <1>2, <1>3

\* The screen shows the text, or kmain is halfway through the next character of
\* it; and the driver's shift is that of the next code.
ScreenOK ==
    /\ printed \in 0 .. Len(Welcome)
    /\ main <= 6 => printed = 0
    /\ at # <<>> => printed < Len(Welcome)
    /\ ~ keyboard_handler_p => Read = 0
    /\ shift_ <=> ShiftedAt(Consumed, Read + 1)
    /\ con = IF at = <<>> THEN Shown(ToShow(printed, Consumed))
             ELSE Store(Shown(ToShow(printed, Consumed)), Welcome[printed + 1])

LEMMA ReadFacts ==
    ASSUME StateOK, KeysOK
    PROVE  /\ Read \in 0 .. Len(sent) /\ Len(sent) \in Nat
           /\ Consumed = SubSeq(sent, 1, Read)
           /\ Consumed \in Seq(Code) /\ Len(Consumed) = Read
           /\ \A i \in 1 .. Read : Consumed[i] = sent[i]
<1>1. Read \in 0 .. Len(sent) /\ Len(sent) \in Nat
  BY DEF StateOK, TypeOK, KeysOK, BufferOK, Read
<1>2. Consumed = SubSeq(sent, 1, Read)
  BY DEF Consumed, Read
<1>3. \A i \in 1 .. Read : sent[i] \in Code
  BY <1>1 DEF StateOK
<1>4. /\ SubSeq(sent, 1, Read) \in Seq(Code) /\ Len(SubSeq(sent, 1, Read)) = Read
      /\ \A i \in 1 .. Read : SubSeq(sent, 1, Read)[i] = sent[i]
  BY <1>1 DEF StateOK
<1> QED BY <1>1, <1>2, <1>4

LEMMA ScreenInit == Init => ScreenOK
<1> SUFFICES ASSUME Init PROVE ScreenOK
  OBVIOUS
<1>1. printed = 0 /\ at = <<>> /\ Read = 0 /\ ~ shift_ /\ con = Cleared
  BY DEF Init, Read
<1>2. Consumed = <<>>
  BY <1>1 DEF Init, Consumed
<1>3. <<>> \in Seq(Code) /\ Len(<<>>) = 0 /\ 0 \in 0 .. Len(Welcome)
  BY WelcomeChars
<1>4. Len(ToShow(0, <<>>)) = 0
  <2>1. Len(ToShow(0, <<>>)) = 0 + Len(Typed(<<>>))
    BY <1>3, ToShowIs
  <2> QED BY <1>3, <2>1, TypedText
<1>5. con = Shown(ToShow(0, <<>>))
  BY <1>1, <1>4, ShownEmpty
<1>6. ~ ShiftedAt(<<>>, 0 + 1)
  BY DEF ShiftedAt
<1> QED BY <1>1, <1>2, <1>3, <1>5, <1>6 DEF ScreenOK

\* A step that prints nothing and reads nothing.
LEMMA ScreenKeeps ==
    ASSUME ScreenOK, StateOK, StateOK', main <= main', keyboard_handler_p => keyboard_handler_p',
           UNCHANGED <<printed, at, con, shift_>>, Read' = Read, Consumed' = Consumed
    PROVE  ScreenOK'
<1>1. main \in Int /\ main' \in Int
  BY ProgramIs DEF StateOK, TypeOK
<1> QED BY <1>1 DEF ScreenOK

\* What is read from the buffer is what was typed.
LEMMA NothingRead ==
    ASSUME StateOK, KeysOK, UNCHANGED <<sent, latched, buffer>>
    PROVE  Read' = Read /\ Consumed' = Consumed
BY DEF Read, Consumed

LEMMA MoreSent ==
    ASSUME StateOK, KeysOK, NEW c \in Code, sent' = Append(sent, c), UNCHANGED <<latched, buffer>>
    PROVE  Read' = Read /\ Consumed' = Consumed
<1>1. Read' = Read /\ Consumed' = SubSeq(sent', 1, Read)
  BY DEF Read, Consumed
<1>2. Read \in 0 .. Len(sent) /\ sent \in Seq(Code) /\ Len(sent) \in Nat
  BY ReadFacts DEF StateOK
<1>3. SubSeq(Append(sent, c), 1, Read) = SubSeq(sent, 1, Read)
  <2> DEFINE a == SubSeq(Append(sent, c), 1, Read)
             b == SubSeq(sent, 1, Read)
             u == Append(sent, c)
  <2>1. u \in Seq(Code) /\ Len(u) = Len(sent) + 1 /\ \A i \in 1 .. Len(sent) : u[i] = sent[i]
    BY <1>2, AppendKeeps, AppendProperties
  <2> HIDE DEF u
  <2>2. /\ SubSeq(u, 1, Read) \in Seq(Code) /\ Len(SubSeq(u, 1, Read)) = Read
        /\ \A i \in 1 .. Read : SubSeq(u, 1, Read)[i] = u[i]
    BY <1>2, <2>1
  <2>3. b \in Seq(Code) /\ Len(b) = Read /\ \A i \in 1 .. Read : b[i] = sent[i]
    BY <1>2
  <2> HIDE DEF b
  <2>4. \A i \in 1 .. Read : SubSeq(u, 1, Read)[i] = b[i]
    <3>1. \A i \in 1 .. Read : i \in 1 .. Len(sent)
      BY <1>2
    <3> QED BY <2>1, <2>2, <2>3, <3>1
  <2>5. SubSeq(u, 1, Read) = b
    BY <2>2, <2>3, <2>4, SeqEqual
  <2> QED BY <2>5 DEF u, b
<1> QED BY <1>1, <1>3, ReadFacts

LEMMA ScreenKmain ==
    ASSUME StateOK, StateOK', KeysOK, Turns, ScreenOK, kmain
    PROVE  ScreenOK'
<1>0. main \in 1 .. 10 /\ step = "main"
  BY ProgramIs DEF StateOK, TypeOK, kmain, Refused, ExceptionGates, irq_remap, IrqGates,
     SyscallGate, Sti, ClearScreen, PrintStore, PrintAdvance, PrintDone, AddTimer, AddKeyboard,
     Runs
<1>1. Read' = Read /\ Consumed' = Consumed
  <2>1. UNCHANGED <<sent, latched, buffer>>
    BY DEF kmain, Refused, ExceptionGates, irq_remap, IrqGates, SyscallGate, Sti,
       ClearScreen, PrintStore, PrintAdvance, PrintDone, AddTimer, AddKeyboard, DeviceVars
  <2> QED BY <2>1, NothingRead
<1>2. Consumed \in Seq(Code) /\ Len(Consumed) = Read /\ Len(Welcome) \in Nat
  BY ReadFacts, WelcomeChars
<1>3. CASE ClearScreen
  <2>1. main = 6 /\ main' = 7 /\ con' = Cleared /\ UNCHANGED <<printed, at, shift_, keyboard_handler_p>>
    BY <1>0, <1>3, RunsWhere DEF ClearScreen, Done, HandlerVars
  <2>2. printed = 0 /\ at = <<>> /\ Read = 0
    BY <2>1 DEF ScreenOK, Turns
  <2>3. Len(ToShow(0, Consumed)) = 0
    <3>1. Consumed = <<>> /\ 0 \in 0 .. Len(Welcome)
      BY <1>2, <2>2
    <3>2. Len(ToShow(0, Consumed)) = 0 + Len(Typed(Consumed))
      BY <1>2, <3>1, ToShowIs
    <3> QED BY <3>1, <3>2, TypedText
  <2>4. con' = Shown(ToShow(printed', Consumed'))
    BY <1>1, <2>1, <2>2, <2>3, ShownEmpty
  <2> QED BY <1>1, <2>1, <2>2, <2>4 DEF ScreenOK
<1>4. CASE PrintStore
  <2>1. /\ main = 7 /\ at = <<>> /\ printed < Len(Welcome) /\ at' = <<con.lin, con.col>>
        /\ con' = Store(con, Welcome[printed + 1])
        /\ UNCHANGED <<main, printed, shift_, keyboard_handler_p>>
    BY <1>0, <1>4, RunsWhere DEF PrintStore, HandlerVars
  <2>2. at' # <<>>
    BY <2>1
  <2>3. con' = Store(Shown(ToShow(printed', Consumed')), Welcome[printed' + 1])
    BY <1>1, <2>1 DEF ScreenOK
  <2> QED BY <1>1, <2>1, <2>2, <2>3 DEF ScreenOK
<1>5. CASE PrintAdvance
  <2> DEFINE c == Welcome[printed + 1]
  <2>1. /\ main = 7 /\ at # <<>> /\ at' = <<>> /\ printed' = printed + 1
        /\ con' = Advance([con EXCEPT !.lin = at[1], !.col = at[2]], c)
        /\ UNCHANGED <<main, shift_, keyboard_handler_p>>
    BY <1>0, <1>5, RunsWhere DEF PrintAdvance, HandlerVars
  <2>2. at = <<con.lin, con.col>> /\ ~ keyboard_handler_p
    BY <2>1 DEF Turns
  <2>3. printed \in 0 .. (Len(Welcome) - 1) /\ Read = 0
    BY <1>2, <2>1, <2>2 DEF ScreenOK
  <2>4. con = Store(Shown(ToShow(printed, Consumed)), c)
    BY <2>1 DEF ScreenOK
  <2>5. [con EXCEPT !.lin = at[1], !.col = at[2]] = con
    <3> DEFINE x == con.col
               y == con.lin
               r == [con EXCEPT !.lin = y, !.col = x]
    <3>1. r = [col |-> x, lin |-> y, cells |-> con.cells]
      <4> HIDE DEF x, y
      <4> QED BY MovedConsole DEF StateOK
    <3>2. con = [col |-> con.col, lin |-> con.lin, cells |-> con.cells]
      BY DEF StateOK, IsConsole
    <3>3. at[1] = y /\ at[2] = x
      BY <2>2
    <3> QED BY <3>1, <3>2, <3>3, Zenon
  <2>6. con' = printc(Shown(ToShow(printed, Consumed)), c)
    BY <2>1, <2>4, <2>5 DEF printc
  <2>7. Shown(ToShow(printed + 1, Consumed)) = printc(Shown(ToShow(printed, Consumed)), c)
    BY <1>2, <2>3, PrintMore
  <2>8. con' = Shown(ToShow(printed', Consumed'))
    BY <1>1, <2>1, <2>6, <2>7
  <2> QED BY <1>1, <1>2, <2>1, <2>3, <2>8 DEF ScreenOK
<1>6. CASE ~ ClearScreen /\ ~ PrintStore /\ ~ PrintAdvance
  <2>1. UNCHANGED <<printed, at, con, shift_>> /\ (keyboard_handler_p => keyboard_handler_p')
    BY <1>6 DEF kmain, Refused, ExceptionGates, irq_remap, IrqGates, SyscallGate, Sti, PrintDone,
       AddTimer, AddKeyboard, Done, DriverVars, HandlerVars
  <2>2. main' = main + 1 \/ main' = 10
    BY <1>6, ProgramIs DEF kmain, Refused, ExceptionGates, irq_remap, IrqGates, SyscallGate, Sti,
       PrintDone, AddTimer, AddKeyboard, Done
  <2>3. main <= main'
    BY <1>0, <2>2
  <2> QED BY <1>1, <2>1, <2>3, ScreenKeeps
<1> QED BY <1>3, <1>4, <1>5, <1>6

\* What a code does to the console.
LEMMA ProcessCon ==
    ASSUME NEW shift \in BOOLEAN, NEW k, NEW code
    PROVE  Process([shift_ |-> shift, con |-> k], code).con =
             IF Prints(code) THEN printc(k, IF shift THEN en_US_shift[code.key] ELSE en_US[code.key])
             ELSE k
<1>1. CASE code.up
  BY <1>1 DEF Process, on_keyup, Prints
<1>2. CASE ~ code.up /\ code.key \in ShiftKeys
  BY <1>2 DEF Process, on_keydown, Prints
<1>3. CASE ~ code.up /\ code.key \notin ShiftKeys
  <2> DEFINE x == printc(k, IF shift THEN en_US_shift[code.key] ELSE en_US[code.key])
             d == [shift_ |-> shift, con |-> k]
  <2>1. Process(d, code) = [d EXCEPT !.con = x]
    BY <1>3 DEF Process, on_keydown
  <2> HIDE DEF x
  <2> QED BY <1>3, <2>1 DEF Prints, x
<1> QED BY <1>1, <1>2, <1>3

LEMMA ScreenRead ==
    ASSUME StateOK, StateOK', KeysOK, KeysOK', Turns, ScreenOK, ReadData
    PROVE  ScreenOK'
<1> DEFINE c == Head(buffer)
           s == Consumed
           shows == ToShow(printed, s)
<1>1. /\ step = "read" /\ buffer # <<>> /\ buffer' = <<>>
      /\ UNCHANGED <<main, printed, at, sent, latched, keyboard_handler_p>>
      /\ shift_' = Process([shift_ |-> shift_, con |-> con], c).shift_
      /\ con' = Process([shift_ |-> shift_, con |-> con], c).con
  BY DEF ReadData, InHandler, StateOK, MainVars, HandlerVars
<1>2. at = <<>> /\ keyboard_handler_p
  BY <1>1 DEF Turns
<1>3. latched \in 1 .. Len(sent) /\ c = sent[latched] /\ c \in Code
  BY <1>1 DEF KeysOK, BufferOK, StateOK, TypeOK
<1>4. Read = latched - 1 /\ Read' = latched /\ Read' = Read + 1
  BY <1>1, <1>3 DEF Read
<1>5. s \in Seq(Code) /\ Len(s) = Read /\ Read \in Nat /\ \A i \in 1 .. Read : s[i] = sent[i]
  BY ReadFacts
<1>6. /\ s' \in Seq(Code) /\ Len(s') = Read + 1
      /\ \A i \in 1 .. (Read + 1) : s'[i] = sent[i]
  <2>1. s' = SubSeq(sent, 1, latched)
    BY <1>1 DEF Consumed
  <2>2. /\ SubSeq(sent, 1, latched) \in Seq(Code) /\ Len(SubSeq(sent, 1, latched)) = latched
        /\ \A i \in 1 .. latched : SubSeq(sent, 1, latched)[i] = sent[i]
    BY <1>3 DEF StateOK
  <2>3. latched = Read + 1
    BY <1>4
  <2> HIDE DEF s
  <2> QED BY <2>1, <2>2, <2>3
<1> HIDE DEF c, s
<1>7. s' = Append(s, c)
  <2> DEFINE u == Append(s, c)
  <2>1. u \in Seq(Code) /\ Len(u) = Read + 1 /\ u[Read + 1] = c /\ \A i \in 1 .. Read : u[i] = s[i]
    <3>1. Append(s, c) \in Seq(Code) /\ Len(Append(s, c)) = Len(s) + 1
      BY <1>3, <1>5, AppendProperties
    <3>2. Append(s, c)[Len(s) + 1] = c /\ \A i \in 1 .. Len(s) : Append(s, c)[i] = s[i]
      BY <1>3, <1>5, AppendKeeps
    <3> QED BY <1>5, <3>1, <3>2
  <2> HIDE DEF u
  <2>2. \A i \in 1 .. (Read + 1) : s'[i] = u[i]
    <3> SUFFICES ASSUME NEW i \in 1 .. (Read + 1) PROVE s'[i] = u[i]
      OBVIOUS
    <3>1. CASE i = Read + 1
      BY <1>3, <1>4, <1>5, <1>6, <2>1, <3>1
    <3>2. CASE i # Read + 1
      <4>1. i \in 1 .. Read
        BY <1>5, <3>2
      <4> QED BY <1>5, <1>6, <2>1, <4>1
    <3> QED BY <3>1, <3>2
  <2>3. s' = u
    BY <1>5, <1>6, <2>1, <2>2, SeqEqual
  <2> QED BY <2>3 DEF u
<1>8. printed \in 0 .. Len(Welcome) /\ (shift_ <=> ShiftedAt(s, Len(s) + 1)) /\ con = Shown(shows)
  BY <1>2, <1>5 DEF ScreenOK, s
<1>9. con' = Shown(ToShow(printed, Append(s, c)))
  <2> DEFINE x == IF shift_ THEN en_US_shift[c.key] ELSE en_US[c.key]
  <2>1. con' = IF Prints(c) THEN printc(con, x) ELSE con
    BY <1>1, ProcessCon DEF StateOK
  <2>2. x = IF ShiftedAt(s, Len(s) + 1) THEN en_US_shift[c.key] ELSE en_US[c.key]
    BY <1>8
  <2>3. Shown(ToShow(printed, Append(s, c))) = IF Prints(c) THEN printc(Shown(shows), x) ELSE Shown(shows)
    BY <1>3, <1>5, <1>8, <2>2, ReadMore
  <2> HIDE DEF x, shows
  <2> QED BY <1>8, <2>1, <2>3
<1>10. shift_' <=> ShiftedAt(Append(s, c), Read' + 1)
  <2>1. shift_' = IF c.key \in ShiftKeys THEN ~ c.up ELSE shift_
    BY <1>1, <1>3, ProcessDriver DEF StateOK
  <2>2. Read' + 1 = Len(s) + 2
    BY <1>4, <1>5
  <2>3. ShiftedAt(Append(s, c), Len(s) + 2) <=>
          IF c.key \in ShiftKeys THEN ~ c.up ELSE ShiftedAt(s, Len(s) + 1)
    BY <1>3, <1>5, ShiftedMore
  <2> QED BY <1>8, <2>1, <2>2, <2>3
<1>11. con' = Shown(ToShow(printed', Consumed'))
  BY <1>1, <1>7, <1>9 DEF s
<1>12. shift_' <=> ShiftedAt(Consumed', Read' + 1)
  BY <1>7, <1>10 DEF s
<1>13. (main' <= 6 => printed' = 0) /\ printed' \in 0 .. Len(Welcome)
  BY <1>1, <1>8 DEF ScreenOK
<1> QED BY <1>1, <1>2, <1>11, <1>12, <1>13 DEF ScreenOK

LEMMA ScreenDevices ==
    ASSUME StateOK, StateOK', KeysOK, ScreenOK, devices
    PROVE  ScreenOK'
<1>1. UNCHANGED <<main, printed, at, con, shift_, keyboard_handler_p>>
  BY DEF devices, Tick, Latch, Raise, Press, Release, DeviceStep, MainVars, HandlerVars, DriverVars
<1>2. Read' = Read /\ Consumed' = Consumed
  <2>1. CASE Tick \/ \E l \in Others : Raise(l)
    BY <2>1, NothingRead DEF Tick, Raise, DeviceVars
  <2>2. CASE Latch
    <3>1. buffer = <<>> /\ buffer' # <<>> /\ latched' = latched + 1 /\ sent' = sent /\ latched \in Nat
      BY <2>2 DEF Latch, StateOK, TypeOK
    <3>2. (latched + 1) - 1 = latched
      BY <3>1
    <3> QED BY <3>1, <3>2 DEF Read, Consumed
  <2>3. ASSUME NEW k \in Keys, NEW up \in BOOLEAN, sent' = Append(sent, [key |-> k, up |-> up]),
               UNCHANGED <<latched, buffer>>
        PROVE  Read' = Read /\ Consumed' = Consumed
    <3> DEFINE c == [key |-> k, up |-> up]
    <3>1. c \in Code
      BY InterruptsAssumption DEF Code
    <3> HIDE DEF c
    <3>2. sent' = Append(sent, c)
      BY <2>3 DEF c
    <3> QED BY <2>3, <3>1, <3>2, MoreSent
  <2>4. CASE \E k \in Keys : Press(k)
    BY <2>3, <2>4 DEF Press
  <2>5. CASE \E k \in held : Release(k)
    BY <2>3, <2>5 DEF Release, StateOK
  <2> QED BY <2>1, <2>2, <2>4, <2>5 DEF devices
<1>3. main \in Int /\ main <= main'
  BY <1>1, ProgramIs DEF StateOK, TypeOK
<1> QED BY <1>1, <1>2, <1>3, ScreenKeeps

LEMMA ScreenStep ==
    ASSUME StateOK, StateOK', KeysOK, KeysOK', Turns, ScreenOK, [Next]_vars
    PROVE  ScreenOK'
<1>0. main \in Int /\ main <= main
  BY ProgramIs DEF StateOK, TypeOK
<1>1. ASSUME UNCHANGED <<main, printed, at, con, shift_, keyboard_handler_p, sent, latched, buffer>>
      PROVE  ScreenOK'
  BY <1>0, <1>1, NothingRead, ScreenKeeps
<1> USE DEF MainVars, HandlerVars, DriverVars, DeviceVars
<1>2. CASE handler /\ ~ ReadData
  BY <1>1, <1>2 DEF handler, Acknowledge, Dispatch, on_timer, ReadStatus, Return, InHandler
<1>3. CASE \E l \in Irqs : Accept(l)
  BY <1>1, <1>3 DEF Accept
<1>4. CASE \E l \in {7, 15} : Spurious(l)
  BY <1>1, <1>4 DEF Spurious
<1>5. CASE Halt \/ UNCHANGED vars
  BY <1>1, <1>5 DEF Halt, vars
<1> QED BY <1>2, <1>3, <1>4, <1>5, ScreenKmain, ScreenRead, ScreenDevices DEF Next

\* For every screen, every text of kmain's and everything that is typed, in every
\* interleaving of the two that print: between two calls of printc the screen
\* shows the end of the text printed so far, each character where it should be
\* (protected_mode.cpp:40-62) and shifted as the codes say (keyboard.cpp:126-168).
THEOREM ScreenAlwaysShowsText == Spec => []ScreenShowsText
<1>1. ScreenOK => ScreenShowsText
  BY DEF ScreenOK, ScreenShowsText, Quiet, ToShow
<1>2. Spec => []KeysOK
  BY KeysInit, KeysStep, StateAlways, PTL DEF Spec
<1>3. Spec => []Turns
  BY TurnsInit, TurnsStep, StateAlways, PTL DEF Spec
<1> QED BY <1>1, <1>2, <1>3, ScreenInit, ScreenStep, StateAlways, PTL DEF Spec

=============================================================================
