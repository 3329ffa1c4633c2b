----------------------------- MODULE KernelLog -----------------------------
(***************************************************************************)
(* Who takes the lock of the global allocator, and when.  Every println!   *)
(* and log! formats into a heap string, so the lock is taken by            *)
(*   - the boot CPU, on its way from init_allocator to kmain (main.rs);    *)
(*   - the other CPUs, started by APIC::new, which log once and halt;      *)
(*   - null_interrupt_handler, which interrupts the boot CPU when a key is *)
(*     pressed (the only line APIC::new unmasks) and logs as well;         *)
(*   - exception_handler, which interrupts any of this code on the boot    *)
(*     CPU, itself included, when an instruction faults.  (The other CPUs  *)
(*     load no IDT: a fault there resets the machine.)                     *)
(* The two OnceCells on the way, APIC and KERNEL_FEATURES, are filled      *)
(* while the other contexts may already read them.                         *)
(***************************************************************************)
EXTENDS Integers, FiniteSets

CONSTANTS
    Aps,                \* the CPUs other than the boot CPU
    Builds,             \* the values of LOG_LEVEL: 1 in a debug build, 2 in a release build
    CmdlineLevels,      \* what log_level= may say on the command line, beside nothing
    HeapCalls,          \* bound: heap calls in a stage of the boot
    LogCalls,           \* bound: heap calls of one println!
    Keys,               \* bound: key presses
    Faults              \* bound: exceptions

ASSUME LevelAssumption == Builds \subseteq 1 .. 2 /\ CmdlineLevels \subseteq 0 .. 255
ASSUME CallsAssumption == HeapCalls \in Nat /\ LogCalls \in Nat /\ Keys \in Nat /\ Faults \in Nat
ASSUME ContextsAssumption == {"boot", "irq", "exc0", "exc1"} \intersect Aps = {}

\* "exc0" and "exc1" are the exception handlers that found FAULTED 0 and 1.
Contexts == Aps \union {"boot", "irq", "exc0", "exc1"}

VARIABLES
    locked, mx,         \* ALLOCATOR's lock: see Mutex.tla
    todo,               \* the heap calls each context still has to make
    stage,              \* where the boot CPU is
    ap,                 \* where each other CPU is
    irq,                \* where the interrupt handler is
    exc,                \* where the innermost exception handler is
    FAULTED,            \* exceptions so far
    sci_en,             \* the firmware has handed the hardware over to ACPI
    unmasked,           \* the keyboard line is enabled in the IOAPIC
    keys,               \* keys still to be pressed
    LOG_LEVEL,          \* the level compiled in: never changes
    log_level,          \* the level parse_kernel_cmdline ends with: never changes
    APIC,               \* the OnceCell: has it been set
    KERNEL_FEATURES     \* the OnceCell: "uninitialized", "initializing", "initialized"

lockVars == <<locked, mx, todo>>
levels   == <<LOG_LEVEL, log_level>>
cells    == <<APIC, KERNEL_FEATURES, levels>>
faults   == <<exc, FAULTED>>
vars     == <<locked, mx, todo, stage, ap, irq, faults, sci_en, unmasked, keys, cells>>

Lock == INSTANCE Mutex

Debug == 1
Fatal == 5

Init ==
    /\ Lock!Init
    /\ todo = [c \in Contexts |-> IF c = "boot" THEN 1 ELSE 0]
    /\ stage = "allocator"
    /\ ap = [c \in Aps |-> "parked"]
    /\ irq = "none"
    /\ exc = "none" /\ FAULTED = 0
    /\ sci_en \in BOOLEAN
    /\ unmasked = FALSE
    /\ keys = Keys
    /\ LOG_LEVEL \in Builds /\ log_level \in CmdlineLevels \union {LOG_LEVEL}
    /\ APIC = FALSE
    /\ KERNEL_FEATURES = "uninitialized"

-----------------------------------------------------------------------------
(* A heap call of context c: lock, use the allocator, drop the guard.      *)
HeapCall(c) ==
    /\ \/ todo[c] > 0 /\ Lock!Call(c) /\ UNCHANGED todo
       \/ Lock!CompareExchange(c) /\ UNCHANGED todo
       \/ Lock!DropGuard(c) /\ todo' = [todo EXCEPT ![c] = @ - 1]
    /\ UNCHANGED <<stage, ap, irq, faults, sci_en, unmasked, keys, cells>>

\* Context c has no heap call under way and none to make.
Quiet(c) == todo[c] = 0 /\ mx[c] = "out"

\* The log levels a reader of KERNEL_FEATURES can find: a read that meets the
\* unsynchronised write of another CPU may see it or not.
LevelsSeen ==
    CASE KERNEL_FEATURES = "uninitialized" -> {LOG_LEVEL}
      [] KERNEL_FEATURES = "initializing"  -> {LOG_LEVEL, log_level}
      [] KERNEL_FEATURES = "initialized"   -> {log_level}

\* log!(importance, ...) in context c: the heap calls it will make.
Log(c, importance) ==
    \E level \in LevelsSeen :
        todo' = [todo EXCEPT ![c] = IF importance >= level THEN LogCalls ELSE 0]

(* The boot CPU.  Its code runs only while no handler has interrupted it.  *)
BootRuns == irq = "none" /\ exc = "none"

Advance(from, to, calls) ==
    /\ BootRuns
    /\ stage = from /\ Quiet("boot")
    /\ stage' = to
    /\ todo' = [todo EXCEPT !["boot"] = calls]
    /\ UNCHANGED <<locked, mx, irq, faults, keys>>

BootHeapCall == BootRuns /\ HeapCall("boot")

(* init_allocator is done: vmm_init, and init_acpi as far as it lists the  *)
(* tables.                                                                 *)
EnterAcpi ==
    Advance("allocator", "tables", HeapCalls) /\ UNCHANGED <<ap, sci_en, unmasked, cells>>

(* outb(smi_cmd_port, acpi_enable) asks the firmware to switch ...         *)
AskFirmware ==
    Advance("tables", "enabling", 0) /\ UNCHANGED <<ap, sci_en, unmasked, cells>>

(* ... which it does in its own time, ...                                  *)
FirmwareEnables ==
    /\ stage = "enabling" /\ ~sci_en
    /\ sci_en' = TRUE
    /\ UNCHANGED <<lockVars, stage, ap, irq, faults, unmasked, keys, cells>>

(* ... and the loop polls SCI_EN until it has.  APIC::new follows, up to   *)
(* the loop that starts the other CPUs.                                    *)
SciEnabled ==
    sci_en /\ Advance("enabling", "acpi", HeapCalls) /\ UNCHANGED <<ap, sci_en, unmasked, cells>>

(* APIC::new: cpu.goto_address.write(test).                                *)
StartAp(c) ==
    /\ BootRuns
    /\ stage = "acpi" /\ Quiet("boot")
    /\ ap[c] = "parked"
    /\ ap' = [ap EXCEPT ![c] = "started"]
    /\ UNCHANGED <<lockVars, stage, irq, faults, sci_en, unmasked, keys, cells>>

(* apic.set_interrupt(0x01, 0x01), after the last CPU has been started.    *)
UnmaskKeyboard ==
    /\ \A c \in Aps : ap[c] # "parked"
    /\ Advance("acpi", "unmasked", 0)
    /\ unmasked' = TRUE
    /\ UNCHANGED <<ap, sci_en, cells>>

(* init_acpi: APIC.set(...), then parse_kernel_cmdline collects into Vecs. *)
SetApic ==
    Advance("unmasked", "cmdline", HeapCalls) /\ APIC' = TRUE
        /\ UNCHANGED <<ap, sci_en, unmasked, KERNEL_FEATURES, levels>>

(* KERNEL_FEATURES.set: OnceCell::set writes its state twice.              *)
SetFeatures ==
    Advance("cmdline", "features", 0) /\ KERNEL_FEATURES' = "initializing"
        /\ UNCHANGED <<ap, sci_en, unmasked, APIC, levels>>

EnterKmain ==
    Advance("features", "kmain", HeapCalls) /\ KERNEL_FEATURES' = "initialized"
        /\ UNCHANGED <<ap, sci_en, unmasked, APIC, levels>>

(* The end of kmain: hcf().                                                *)
Halt ==
    Advance("kmain", "halted", 0) /\ UNCHANGED <<ap, sci_en, unmasked, cells>>

Boot ==
    \/ BootHeapCall \/ EnterAcpi \/ AskFirmware \/ SciEnabled \/ UnmaskKeyboard
    \/ SetApic \/ SetFeatures \/ EnterKmain \/ Halt
    \/ \E c \in Aps : StartAp(c)

-----------------------------------------------------------------------------
(* The entry point of the other CPUs, `test`: log and halt.                *)
ApLog(c) ==
    /\ ap[c] = "started"
    /\ ap' = [ap EXCEPT ![c] = "logging"]
    /\ Log(c, Debug)
    /\ UNCHANGED <<locked, mx, stage, irq, faults, sci_en, unmasked, keys, cells>>

\* Mutant: no hcf() at the end of `test`.
ApAgain(c) ==
    /\ ap[c] = "logging" /\ Quiet(c)
    /\ ap' = [ap EXCEPT ![c] = "started"]
    /\ UNCHANGED <<lockVars, stage, irq, faults, sci_en, unmasked, keys, cells>>

ApHalt(c) ==
    /\ ap[c] = "logging" /\ Quiet(c)
    /\ ap' = [ap EXCEPT ![c] = "halted"]
    /\ UNCHANGED <<lockVars, stage, irq, faults, sci_en, unmasked, keys, cells>>

Ap(c) == ApLog(c) \/ HeapCall(c) \/ ApHalt(c)

-----------------------------------------------------------------------------
(* A key is pressed: null_interrupt_handler starts on the boot CPU, between *)
(* any two instructions.  The gate clears the interrupt flag, so handlers  *)
(* do not nest.                                                            *)
Interrupt ==
    /\ unmasked /\ keys > 0 /\ BootRuns
    /\ irq' = "logging"
    /\ keys' = keys - 1
    /\ Log("irq", Debug)
    /\ UNCHANGED <<locked, mx, stage, ap, faults, sci_en, unmasked, cells>>

\* Mutant: the interrupt is not acknowledged and comes again at once.
Unacknowledged ==
    /\ irq = "logging" /\ exc = "none" /\ Quiet("irq") /\ APIC
    /\ UNCHANGED vars

(* signal_end_of_interrupt dereferences APIC ...                           *)
EndOfInterrupt ==
    /\ irq = "logging" /\ exc = "none" /\ Quiet("irq") /\ APIC
    /\ irq' = "none"
    /\ UNCHANGED <<lockVars, stage, ap, faults, sci_en, unmasked, keys, cells>>

(* ... which panics as long as the cell is empty, and the panic handler    *)
(* prints before it halts the CPU.                                         *)
ApicPanic ==
    /\ irq = "logging" /\ exc = "none" /\ Quiet("irq") /\ ~APIC
    /\ irq' = "panic"
    /\ todo' = [todo EXCEPT !["irq"] = LogCalls]
    /\ UNCHANGED <<locked, mx, stage, ap, faults, sci_en, unmasked, keys, cells>>

Irq == (exc = "none" /\ HeapCall("irq")) \/ EndOfInterrupt \/ ApicPanic

-----------------------------------------------------------------------------
(* Exceptions.  hcf() raises none: `Halted` is the boot CPU in it.         *)
Halted ==
    \/ BootRuns /\ stage = "halted"
    \/ exc = "none" /\ irq = "panic" /\ Quiet("irq")
    \/ exc = "stopped"

(* An instruction of the boot CPU faults, whatever it is doing.  FAULTED   *)
(* tells the handler how often that has happened: the first time it logs   *)
(* and prints a stack trace, for which get_function_name reads a file      *)
(* whatever the log level; the second time it only logs, and then it goes  *)
(* straight to hcf().  The handler is only reached in a build that inlines *)
(* push_gprs: as a function of its own, which pushes without saying so, it *)
(* returns to the register it pushed last, and what runs then is anything: *)
(* the boot CPU is "lost".                                                 *)
Exception ==
    /\ ~Halted /\ exc # "lost"
    /\ FAULTED < Faults
    /\ \/ /\ FAULTED = 0
          /\ exc' = "first"
          /\ FAULTED' = 1
          /\ todo' = [todo EXCEPT !["exc0"] = LogCalls]
       \/ /\ FAULTED = 1
          /\ exc' = "second"
          /\ FAULTED' = 2
          /\ Log("exc1", Fatal)
       \/ /\ FAULTED > 1
          /\ exc' = "stopped"
          /\ FAULTED' = FAULTED + 1
          /\ UNCHANGED todo
       \/ /\ exc' = "lost"
          /\ UNCHANGED <<FAULTED, todo>>
    /\ UNCHANGED <<locked, mx, stage, ap, irq, sci_en, unmasked, keys, cells>>

ExcHeapCall ==
    \/ exc \in {"first", "panic"} /\ HeapCall("exc0")
    \/ exc = "second" /\ HeapCall("exc1")

(* The second handler, and a panic, end in hcf() where they are.  The      *)
(* first one returns into its stub, which loads rsp from rdi.  The call    *)
(* may have left anything there, so that the pops and the calls that       *)
(* follow may use any memory as the stack: the CPU is lost, faults again   *)
(* (which is Exception), or comes through to the end of the interrupt,     *)
(* which panics without an APIC, and to hcf().                             *)
ExcDone ==
    /\ \/ /\ \/ exc = "second" /\ Quiet("exc1")
             \/ exc = "panic" /\ Quiet("exc0")
             \/ exc = "first" /\ Quiet("exc0") /\ APIC
          /\ exc' = "stopped"
          /\ UNCHANGED todo
       \/ /\ exc = "first" /\ Quiet("exc0") /\ ~APIC
          /\ exc' = "panic"
          /\ todo' = [todo EXCEPT !["exc0"] = LogCalls]
       \/ /\ exc = "first" /\ Quiet("exc0")
          /\ exc' = "lost"
          /\ UNCHANGED todo
    /\ UNCHANGED <<locked, mx, stage, ap, irq, FAULTED, sci_en, unmasked, keys, cells>>

Exc == ExcHeapCall \/ ExcDone

(* Every CPU has come to hcf(), but for a boot CPU that is lost.           *)
Rest ==
    /\ Halted \/ exc = "lost"
    /\ \A c \in Aps : ap[c] = "halted" \/ (ap[c] = "parked" /\ exc \in {"stopped", "lost"})
    /\ UNCHANGED vars

Next ==
    \/ Boot \/ FirmwareEnables
    \/ \E c \in Aps : Ap(c)
    \/ Interrupt \/ Irq
    \/ Exception \/ Exc
    \/ Rest

(* Every CPU keeps executing and the firmware answers; a key may never be  *)
(* pressed, and nothing needs to fault.                                    *)
Fairness ==
    /\ WF_vars(Boot) /\ WF_vars(Irq) /\ WF_vars(Exc)
    /\ \A c \in Aps : WF_vars(Ap(c))
    /\ WF_vars(FirmwareEnables)

Spec == Init /\ [][Next]_vars /\ Fairness

-----------------------------------------------------------------------------
\* The free list has one user at a time, across CPUs, interrupts and exceptions.
AllocatorExclusive == Lock!MutualExclusion

\* As long as no interrupt arrives and nothing faults, the boot CPU and the others
\* contend for the lock without ever locking each other out, and wait for the
\* firmware no longer than it takes: all of them come to the end of their code,
\* at every log level.
EverybodyHalts ==
    []BootRuns => <>(stage = "halted" /\ \A c \in Aps : ap[c] = "halted")

\* When neither the build nor the command line asks for level Debug, interrupts
\* that arrive once APIC has been set do not keep the boot CPU from finishing,
\* unless an instruction faults.
BootFinishes ==
    (APIC /\ irq # "panic" /\ LOG_LEVEL > Debug /\ log_level > Debug)
        ~> ((stage = "halted" /\ irq = "none") \/ exc # "none")

\* "Set every interrupt to the "null" interrupt handler (it does nothing)": the
\* handler comes back to the code it interrupted.
NullHandlerReturns == (irq = "logging") ~> (irq = "none")
=============================================================================
