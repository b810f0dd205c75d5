----------------------------- MODULE Interrupts -----------------------------
(***************************************************************************)
(* Interrupts from the first instruction of kmain until the kernel halts:  *)
(* arch/amd64/bootstrap (segments.cpp, irq.cpp, isr.S), the handlers of    *)
(* drivers/peripherals, and the thread of kmain (main.cpp) they interrupt. *)
(*                                                                         *)
(* The processor runs kmain, or the handler of one interrupt with          *)
(* interrupts disabled: `step` is "main" or where that handler is.  The    *)
(* two 8259A controllers hold requests (irr) and the lines in service      *)
(* (isr), the slave's behind line 2 of the master.  The keyboard sends     *)
(* codes one at a time: the next one waits until the buffer is read, and   *)
(* only a code that enters the empty buffer raises line 1.                 *)
(*                                                                         *)
(* sent and owed are about the environment: what the user typed, and the   *)
(* requests that were pending at the last tick, which are served before    *)
(* the next one, 10 ms later.  missed is a history variable: a code's      *)
(* request came to nothing before the driver was there.                    *)
(***************************************************************************)
EXTENDS Keyboard, FiniteSets, FiniteSetsExt

CONSTANTS
    GATES,     \* LONG_MODE_IDT_GATES, 64: past the last line, short of 0x80
    Keys,      \* keys the user presses
    Others,    \* lines of devices without a handler
    Welcome,   \* characters that kmain prints
    MaxCodes   \* bound: codes the keyboard sends

ASSUME InterruptsAssumption ==
    /\ GATES \in 48 .. 128
    /\ Keys \subseteq {c.key : c \in Code}
    /\ Others \subseteq 3 .. 15
    /\ Welcome \in Seq(STRING)
    /\ MaxCodes \in Nat

VARIABLES
    main,                \* the part of kmain that comes next
    printed,             \* characters of Welcome that kmain has printed
    at,                  \* the cursor kmain has loaded in the middle of printc, or <<>>
    gates,               \* vectors with a gate that the processor finds
    IF_,                 \* the interrupt flag
    step, line,          \* where the handler is, and for which line
    irr, isr, owed,      \* the controllers, and the timer's patience
    timer_handler_p, keyboard_handler_p,  \* installed?
    shift_, con,         \* the driver's and the console's state
    sent, latched,       \* codes the keyboard has sent, and how many got to the buffer
    buffer,              \* the byte at DATA_PORT, or <<>>
    held,                \* keys that are down
    missed

MainVars == <<main, printed, at>>
PicVars == <<irr, isr, owed>>
HandlerVars == <<timer_handler_p, keyboard_handler_p>>
DriverVars == <<shift_, con>>
DeviceVars == <<sent, latched, buffer, held>>
CpuVars == <<IF_, step, line>>

vars == <<MainVars, gates, CpuVars, PicVars, HandlerVars, DriverVars, DeviceVars, missed>>

NoLine == 16
Timer == 0
Kbd == 1
Cascade == 2
Irqs == (0 .. 15) \ {Cascade}
Master == 0 .. 7
Slave == 8 .. 15
Vector(l) == 32 + l

-----------------------------------------------------------------------------
\* The thread of kmain.

\* A slip of Program: the keyboard is there before the kernel has introduced
\* itself.
ProgramKeyboardFirst ==
    <<"exceptions", "remap", "irqs", "syscall", "sti", "clear", "keyboard", "print", "timer", "halt">>

\* A slip of Program: interrupts are enabled as soon as the controllers are set.
ProgramEarlySti ==
    <<"exceptions", "remap", "sti", "irqs", "syscall", "clear", "print", "timer", "keyboard", "halt">>

\* idt_setup, clear, everything kmain prints, the two drivers, and the end.
Program ==
    <<"exceptions", "remap", "irqs", "syscall", "sti", "clear", "print", "timer", "keyboard", "halt">>

Init ==
    /\ main = 1 /\ printed = 0 /\ at = <<>>
    /\ gates = {}
    /\ IF_ = FALSE /\ step = "main" /\ line = NoLine
    /\ irr = {} /\ isr = {} /\ owed = {}
    /\ timer_handler_p = FALSE /\ keyboard_handler_p = FALSE
    /\ shift_ = FALSE /\ con = Cleared
    /\ sent = <<>> /\ latched = 0 /\ buffer = <<>> /\ held = {}
    /\ missed = FALSE

\* kmain gets to run, and what comes next is `part`.
Runs(part) == step = "main" /\ Program[main] = part
Done == main' = main + 1 /\ UNCHANGED <<printed, at>>

\* The kernel was not started by a multiboot loader.
Refused ==
    /\ Runs("exceptions")
    /\ main' = Len(Program)
    /\ UNCHANGED <<printed, at, gates, CpuVars, PicVars, HandlerVars, DriverVars, DeviceVars, missed>>

\* idt_add_gate: a gate past the limit is written, outside the table, and never
\* found; what it is written over is not modelled.
AddGates(vectors) == gates' = gates \cup {v \in vectors : v < GATES}

ExceptionGates ==
    /\ Runs("exceptions") /\ Done
    /\ AddGates(0 .. 31)
    /\ UNCHANGED <<CpuVars, PicVars, HandlerVars, DriverVars, DeviceVars, missed>>

IrqGates ==
    /\ Runs("irqs") /\ Done
    /\ AddGates({Vector(l) : l \in 0 .. 15})
    /\ UNCHANGED <<CpuVars, PicVars, HandlerVars, DriverVars, DeviceVars, missed>>

SyscallGate ==
    /\ Runs("syscall") /\ Done
    /\ AddGates({128})
    /\ UNCHANGED <<CpuVars, PicVars, HandlerVars, DriverVars, DeviceVars, missed>>

\* irq_remap: the first control word makes a controller forget its requests;
\* a line that is up, like that of a full buffer, does not rise again.
irq_remap ==
    /\ Runs("remap") /\ Done
    /\ irr' = {} /\ isr' = {} /\ owed' = {}
    /\ missed' = (missed \/ buffer # <<>>)
    /\ UNCHANGED <<gates, CpuVars, HandlerVars, DriverVars, DeviceVars>>

Sti ==
    /\ Runs("sti") /\ Done
    /\ IF_' = TRUE
    /\ UNCHANGED <<gates, step, line, PicVars, HandlerVars, DriverVars, DeviceVars, missed>>

ClearScreen ==
    /\ Runs("clear") /\ Done
    /\ con' = Cleared
    /\ UNCHANGED <<gates, CpuVars, PicVars, HandlerVars, shift_, DeviceVars, missed>>

\* printc, called by kmain, may be interrupted between its two halves.
PrintStore ==
    /\ Runs("print") /\ at = <<>> /\ printed < Len(Welcome)
    /\ at' = <<con.lin, con.col>>
    /\ con' = Store(con, Welcome[printed + 1])
    /\ UNCHANGED <<main, printed, gates, CpuVars, PicVars, HandlerVars, shift_, DeviceVars, missed>>

PrintAdvance ==
    /\ Runs("print") /\ at # <<>>
    /\ con' = Advance([con EXCEPT !.lin = at[1], !.col = at[2]], Welcome[printed + 1])
    /\ at' = <<>> /\ printed' = printed + 1
    /\ UNCHANGED <<main, gates, CpuVars, PicVars, HandlerVars, shift_, DeviceVars, missed>>

PrintDone ==
    /\ Runs("print") /\ at = <<>> /\ printed = Len(Welcome) /\ Done
    /\ UNCHANGED <<gates, CpuVars, PicVars, HandlerVars, DriverVars, DeviceVars, missed>>

\* add_timer; main.cpp keeps a copy of the object, the handler has the original.
AddTimer ==
    /\ Runs("timer") /\ Done
    /\ timer_handler_p' = TRUE
    /\ UNCHANGED <<gates, CpuVars, PicVars, keyboard_handler_p, DriverVars, DeviceVars, missed>>

AddKeyboard ==
    /\ Runs("keyboard") /\ Done
    /\ keyboard_handler_p' = TRUE
    /\ UNCHANGED <<gates, CpuVars, PicVars, timer_handler_p, DriverVars, DeviceVars, missed>>

\* kmain has returned: hlt, again and again.
Halt == Runs("halt") /\ UNCHANGED vars

kmain ==
    \/ Refused \/ ExceptionGates \/ irq_remap \/ IrqGates \/ SyscallGate \/ Sti
    \/ ClearScreen \/ PrintStore \/ PrintAdvance \/ PrintDone \/ AddTimer \/ AddKeyboard

-----------------------------------------------------------------------------
\* The controllers, in edge-triggered and fully nested mode.

\* The order of the lines: the slave's come in at line 2 of the master.
Rank(l) == IF l <= Kbd THEN l ELSE IF l \in Slave THEN l - 6 ELSE l + 7

\* A line as important as l, or more, is in service.
Blocked(l) ==
    IF l \in Master THEN \E s \in isr \cap Master : s <= l
    ELSE (\E s \in isr \cap Master : s <= Cascade) \/ (\E s \in isr \cap Slave : s <= l)

InService(l) == IF l \in Slave THEN {Cascade, l} ELSE {l}

\* A non-specific end of interrupt is for the most important line in service.
Ended(s, lines) == IF s \cap lines = {} THEN s ELSE s \ {Min(s \cap lines)}

\* The processor takes the most important request and enters its gate, with
\* interrupts disabled.
Accept(l) ==
    /\ step = "main" /\ IF_
    /\ l \in irr /\ ~ Blocked(l)
    /\ \A m \in irr : Blocked(m) \/ Rank(l) <= Rank(m)
    /\ irr' = irr \ {l} /\ isr' = isr \cup InService(l) /\ owed' = owed \ {l}
    /\ IF_' = FALSE /\ step' = "eoi" /\ line' = l
    /\ UNCHANGED <<MainVars, gates, HandlerVars, DriverVars, DeviceVars, missed>>

\* A request is gone when the processor asks for it: the controller answers
\* with its last line, which it does not put in service.
Spurious(l) ==
    /\ step = "main" /\ IF_ /\ ~ Blocked(l)
    /\ isr' = isr \cup (InService(l) \ {l})
    /\ IF_' = FALSE /\ step' = "eoi" /\ line' = l
    /\ UNCHANGED <<MainVars, gates, irr, owed, HandlerVars, DriverVars, DeviceVars, missed>>

-----------------------------------------------------------------------------
\* interrupt_handler and the code around it.

InHandler(s) == step = s /\ UNCHANGED <<MainVars, gates, IF_, line, HandlerVars, sent, latched, held>>

\* A slip of ForSlave: the first line of the slave is taken for the master's.
ForSlaveLate(l) == Vector(l) > 40

\* int_no >= 0x28
ForSlave(l) == Vector(l) >= 40

\* A slip of AfterEoi: an interrupt of the slave is ended at the slave only.
AfterEoiOnce(l) == IF ForSlave(l) THEN Ended(isr, Slave) ELSE Ended(isr, Master)

\* The slave, if the interrupt is the slave's, and the master in any case.
AfterEoi(l) == Ended(IF ForSlave(l) THEN Ended(isr, Slave) ELSE isr, Master)

Acknowledge ==
    /\ InHandler("eoi")
    /\ isr' = AfterEoi(line)
    /\ step' = "dispatch"
    /\ UNCHANGED <<irr, owed, DriverVars, buffer, missed>>

\* The switch: handlers that are installed are called, and nothing else is.
Dispatch ==
    /\ InHandler("dispatch")
    /\ step' = IF line = Timer /\ timer_handler_p THEN "timer"
               ELSE IF line = Kbd /\ keyboard_handler_p THEN "status"
               ELSE "return"
    /\ missed' = (missed \/ (line = Kbd /\ ~ keyboard_handler_p))
    /\ UNCHANGED <<PicVars, DriverVars, buffer>>

\* The tick is counted, and the count is read by nobody.
on_timer ==
    /\ InHandler("timer")
    /\ step' = "return"
    /\ UNCHANGED <<PicVars, DriverVars, buffer, missed>>

\* A slip of DataInBuffer: the bit of the other direction is tested.
DataInBufferWrong == FALSE

\* status & DATA_IN_BUFFER
DataInBuffer == buffer # <<>>

\* on_keyboard reads the status, and the byte if there is one.
ReadStatus ==
    /\ InHandler("status")
    /\ step' = IF DataInBuffer THEN "read" ELSE "return"
    /\ UNCHANGED <<PicVars, DriverVars, buffer, missed>>

ReadData ==
    LET d == Process([shift_ |-> shift_, con |-> con], Head(buffer))
    IN  /\ InHandler("read")
        /\ buffer' = <<>>
        /\ shift_' = d.shift_ /\ con' = d.con
        /\ step' = "return"
        /\ UNCHANGED <<PicVars, missed>>

\* iretq, with the flags kmain had.
Return ==
    /\ step = "return"
    /\ IF_' = TRUE /\ step' = "main" /\ line' = NoLine
    /\ UNCHANGED <<MainVars, gates, PicVars, HandlerVars, DriverVars, DeviceVars, missed>>

handler ==
    \/ Acknowledge \/ Dispatch \/ on_timer \/ ReadStatus \/ ReadData \/ Return

-----------------------------------------------------------------------------
\* Devices and the user.

DeviceStep == UNCHANGED <<MainVars, gates, CpuVars, isr, HandlerVars, DriverVars, missed>>

Tick ==
    /\ owed = {}
    /\ irr' = irr \cup {Timer} /\ owed' = irr'
    /\ UNCHANGED DeviceVars /\ DeviceStep

Raise(l) ==
    /\ l \notin irr
    /\ irr' = irr \cup {l}
    /\ UNCHANGED <<owed, DeviceVars>> /\ DeviceStep

\* A key that is held repeats its code.
Press(k) ==
    /\ Len(sent) < MaxCodes
    /\ sent' = Append(sent, [key |-> k, up |-> FALSE])
    /\ held' = held \cup {k}
    /\ UNCHANGED <<irr, owed, latched, buffer>> /\ DeviceStep

Release(k) ==
    /\ Len(sent) < MaxCodes
    /\ sent' = Append(sent, [key |-> k, up |-> TRUE])
    /\ held' = held \ {k}
    /\ UNCHANGED <<irr, owed, latched, buffer>> /\ DeviceStep

\* The next code enters the buffer, and the line rises.
Latch ==
    /\ buffer = <<>> /\ latched < Len(sent)
    /\ buffer' = <<sent[latched + 1]>> /\ latched' = latched + 1
    /\ irr' = irr \cup {Kbd}
    /\ UNCHANGED <<owed, sent, held>> /\ DeviceStep

devices ==
    \/ Tick \/ Latch
    \/ \E l \in Others : Raise(l)
    \/ \E k \in Keys : Press(k)
    \/ \E k \in held : Release(k)

Next ==
    \/ kmain \/ Halt \/ handler \/ devices
    \/ \E l \in Irqs : Accept(l)
    \/ \E l \in {7, 15} : Spurious(l)

\* The processor goes on, and takes a request it may take; whether keys are
\* pressed or devices ask for anything is up to them.
Fairness ==
    /\ WF_vars(handler)
    /\ SF_vars(\E l \in Irqs : Accept(l))
    /\ WF_vars(Latch)
    /\ WF_vars(kmain)

Spec == Init /\ [][Next]_vars /\ Fairness

-----------------------------------------------------------------------------
\* Types; the cursor is on the screen between any two calls of printc, so that
\* no character is written outside video memory (protected_mode.cpp:53).
TypeOK ==
    /\ main \in 1 .. Len(Program)
    /\ gates \subseteq 0 .. (GATES - 1)
    /\ IF_ \in BOOLEAN /\ line \in Irqs \cup {NoLine}
    /\ irr \subseteq Irqs /\ isr \subseteq 0 .. 15 /\ owed \subseteq irr
    /\ con.col \in Columns /\ con.lin \in Lines
    /\ buffer \in {<<>>} \cup {<<c>> : c \in Code} /\ latched \in 0 .. Len(sent)

\* Interrupts are enabled before anything else is set up (segments.cpp:289), so
\* by then every vector that an exception or the controllers can raise must have
\* its gate.
GatesReady == IF_ => 0 .. 47 \subseteq gates

\* "Add syscall interrupt (0x80) - user accessible" (segments.cpp:285): when
\* interrupts are enabled the processor finds the gate of the system call.
SyscallGateThere == IF_ => 128 \in gates

\* When interrupts are enabled no line is left in service: whatever was asked,
\* spurious requests included, has been ended at the controllers that have it in
\* service (irq.cpp:37-42), or lower lines would be shut out for good.
Acknowledged == IF_ => isr = {}

\* A byte in the buffer always has a request or a handler that is going to read
\* it, because only reading it lets the next one raise the line
\* (keyboard.cpp:128-133); unless its request came before the driver.
ByteNotStranded ==
    buffer # <<>> /\ ~ missed =>
        \/ Kbd \in irr
        \/ line = Kbd /\ step \in {"eoi", "dispatch", "status", "read"}

\* Codes that the driver has read.
Consumed == SubSeq(sent, 1, IF buffer = <<>> THEN latched ELSE latched - 1)

Quiet == step = "main" /\ at = <<>>

\* Nothing typed leaves the shift on: when every code has been read and no shift
\* key is down, shift_ is off (keyboard.cpp:143-158).
NoStuckShift ==
    Quiet /\ Consumed = sent /\ held \cap ShiftKeys = {} => ~ shift_

\* The screen shows what kmain printed and then what the codes read stand for,
\* in order, wrapped and scrolled: kmain and the handler, which share the console
\* without a lock, never print at the same time.
ScreenShowsText ==
    Quiet => con = Shown(SubSeq(Welcome, 1, printed) \o Typed(Consumed))

\* Once interrupts are enabled every request is served, whatever other lines
\* ask for, as long as the timer leaves time for it.
RequestsServed ==
    \A l \in {Timer, Kbd} \cup Others : (IF_ /\ l \in irr) ~> (l \notin irr)

=============================================================================
