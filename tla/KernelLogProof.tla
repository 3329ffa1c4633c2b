-------------------------- MODULE KernelLogProof --------------------------
(***************************************************************************)
(* Proofs about KernelLog: whatever the CPUs, the interrupts, the faults   *)
(* and the log levels are, the allocator has one user at a time.           *)
(***************************************************************************)
EXTENDS KernelLog, TLAPS

(* The lock's types and exclusion are inductive together: the flag being    *)
(* set exactly while somebody is inside is what lets compare_exchange admit *)
(* only one.                                                                *)
LockInv == Lock!TypeOK /\ Lock!MutualExclusion

(* A step of the kernel is a step of the lock or leaves it alone.           *)
LEMMA LockSteps ==
    ASSUME Next
    PROVE  Lock!Next \/ UNCHANGED <<locked, mx>>
<1>1. ASSUME NEW c \in Contexts, HeapCall(c)
      PROVE  Lock!Next \/ UNCHANGED <<locked, mx>>
  BY <1>1 DEF HeapCall, Lock!Next
<1>2. {"boot", "irq", "exc0", "exc1"} \subseteq Contexts /\ Aps \subseteq Contexts
  BY DEF Contexts
<1>3. CASE Boot
  <2>1. CASE BootHeapCall
    BY <1>1, <1>2, <2>1 DEF BootHeapCall
  <2>2. CASE ~BootHeapCall
    BY <1>3, <2>2 DEF Boot, EnterAcpi, AskFirmware, SciEnabled, UnmaskKeyboard, SetApic,
       SetFeatures, EnterKmain, Halt, StartAp, Advance, lockVars
  <2> QED
    BY <2>1, <2>2
<1>4. ASSUME NEW c \in Aps, Ap(c)
      PROVE  Lock!Next \/ UNCHANGED <<locked, mx>>
  BY <1>1, <1>2, <1>4 DEF Ap, ApLog, ApHalt, lockVars
<1>5. CASE Interrupt
  BY <1>5 DEF Interrupt
<1>6. CASE Irq
  BY <1>1, <1>2, <1>6 DEF Irq, EndOfInterrupt, ApicPanic, lockVars
<1>7. CASE FirmwareEnables
  BY <1>7 DEF FirmwareEnables, lockVars
<1>8. CASE Exception
  BY <1>8 DEF Exception
<1>9. CASE Exc
  BY <1>1, <1>2, <1>9 DEF Exc, ExcHeapCall, ExcDone
<1>10. CASE Rest
  BY <1>10 DEF Rest, vars
<1> QED
  BY <1>3, <1>4, <1>5, <1>6, <1>7, <1>8, <1>9, <1>10 DEF Next

(* The steps of the lock keep the invariant.                                *)
LEMMA LockNextInv == LockInv /\ Lock!Next => LockInv'
<1> SUFFICES ASSUME LockInv, NEW c \in Contexts,
                    Lock!Call(c) \/ Lock!CompareExchange(c) \/ Lock!DropGuard(c)
             PROVE  LockInv'
  BY DEF Lock!Next
<1> USE DEF LockInv, Lock!TypeOK, Lock!MutualExclusion
<1>1. CASE Lock!Call(c)
  BY <1>1 DEF Lock!Call
<1>2. CASE Lock!CompareExchange(c)
  BY <1>2 DEF Lock!CompareExchange
<1>3. CASE Lock!DropGuard(c)
  BY <1>3 DEF Lock!DropGuard
<1> QED
  BY <1>1, <1>2, <1>3

(* For every number of CPUs, every log level and every sequence of key      *)
(* presses and faults, at most one context is between lock() and the drop   *)
(* of its guard, the interrupt and exception handlers included.             *)
THEOREM Exclusion == Spec => []AllocatorExclusive
<1>1. Init => LockInv
  BY DEF Init, Lock!Init, LockInv, Lock!TypeOK, Lock!MutualExclusion
<1>2. LockInv /\ [Next]_vars => LockInv'
  <2> SUFFICES ASSUME LockInv, [Next]_vars PROVE LockInv'
    OBVIOUS
  <2>1. CASE UNCHANGED <<locked, mx>>
    BY <2>1 DEF LockInv, Lock!TypeOK, Lock!MutualExclusion
  <2>2. CASE Lock!Next
    BY <2>2, LockNextInv
  <2>3. Next \/ UNCHANGED <<locked, mx>>
    BY DEF vars
  <2> QED
    BY <2>1, <2>2, <2>3, LockSteps
<1> QED
  BY <1>1, <1>2, PTL DEF Spec, LockInv, AllocatorExclusive
=============================================================================
