------------------------------- MODULE Mutex -------------------------------
(***************************************************************************)
(* The spin lock of src/src/libs/sync/mutex.rs.  lock() retries a          *)
(* compare_exchange(false, true) until it succeeds (a failed try changes   *)
(* nothing and is not a step), and dropping the guard stores false.        *)
(* A context is anything that runs code: a CPU, or an interrupt handler    *)
(* that has interrupted one.                                               *)
(***************************************************************************)
CONSTANT Contexts

VARIABLES
    locked,     \* the AtomicBool
    mx          \* where each context is: "out", "spinning" or "inside"

mutexVars == <<locked, mx>>

Init ==
    /\ locked = FALSE
    /\ mx = [c \in Contexts |-> "out"]

Call(c) ==
    /\ mx[c] = "out"
    /\ mx' = [mx EXCEPT ![c] = "spinning"]
    /\ UNCHANGED locked

\* Mutant: the swap succeeds whatever the flag was.
Exchange(c) ==
    /\ mx[c] = "spinning"
    /\ locked' = TRUE
    /\ mx' = [mx EXCEPT ![c] = "inside"]

CompareExchange(c) ==
    /\ mx[c] = "spinning"
    /\ locked = FALSE
    /\ locked' = TRUE
    /\ mx' = [mx EXCEPT ![c] = "inside"]

DropGuard(c) ==
    /\ mx[c] = "inside"
    /\ locked' = FALSE
    /\ mx' = [mx EXCEPT ![c] = "out"]

Next == \E c \in Contexts : Call(c) \/ CompareExchange(c) \/ DropGuard(c)

Spec == Init /\ [][Next]_mutexVars

-----------------------------------------------------------------------------
\* The lock and the contexts keep their types.
TypeOK ==
    /\ locked \in BOOLEAN
    /\ mx \in [Contexts -> {"out", "spinning", "inside"}]

\* Between lock() and the drop of its guard no other context has the data, and
\* the flag is set exactly then.
MutualExclusion ==
    /\ \A c, d \in Contexts : mx[c] = "inside" /\ mx[d] = "inside" => c = d
    /\ locked = TRUE <=> \E c \in Contexts : mx[c] = "inside"
=============================================================================
