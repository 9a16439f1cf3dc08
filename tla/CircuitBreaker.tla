---------------------------- MODULE CircuitBreaker ----------------------------
(***************************************************************************)
(* The circuit breaker of orbit-resilience, shared by concurrent callers.  *)
(* try_acquire takes the lock once.  record_success and record_failure     *)
(* touch the atomic counter BEFORE they take the lock, so each is two      *)
(* steps and the callers' steps interleave between them; a call that was   *)
(* let in while the circuit was closed may report long after it tripped.   *)
(*                                                                         *)
(* opened_at is kept as the time since then: NotOpened for None, capped at *)
(* the cooldown, beyond which the code tells no two times apart.           *)
(***************************************************************************)
EXTENDS Integers, FiniteSets

CONSTANTS
    Callers,            \* tasks that call through one breaker
    failure_threshold,
    open_cooldown,      \* in ticks
    MaxFailures         \* bound: failures counted without a reset

ASSUME BreakerAssumption ==
    /\ IsFiniteSet(Callers)
    /\ failure_threshold \in Nat
    /\ open_cooldown \in Nat
    /\ MaxFailures \in Nat

VARIABLES
    state,                  \* CircuitInner.state
    opened_at,              \* CircuitInner.opened_at, as the time since it
    consecutive_failures,   \* the atomic counter
    call,                   \* per caller: where its call stands
    prev                    \* per caller: the count its failure saw

breakerVars == <<state, opened_at, consecutive_failures, call, prev>>

CircuitState == {"Closed", "Open", "HalfOpen"}
NotOpened == -1
CallState == {"idle", "calling", "succeeded", "failed"}

BreakerTypeOK ==
    /\ state \in CircuitState
    /\ opened_at \in {NotOpened} \cup 0..open_cooldown
    /\ consecutive_failures \in 0..MaxFailures
    /\ call \in [Callers -> CallState]
    /\ prev \in [Callers -> 0..MaxFailures]

BreakerInit ==
    /\ state = "Closed"
    /\ opened_at = NotOpened
    /\ consecutive_failures = 0
    /\ call = [c \in Callers |-> "idle"]
    /\ prev = [c \in Callers |-> 0]

\* The state a look at the breaker leaves: Open turns HalfOpen once the
\* cooldown has passed since opened_at.
\* Faulty variant: the cooldown must be exceeded, which the timer never is.
look_late == IF state = "Open" /\ opened_at # NotOpened /\ opened_at > open_cooldown
             THEN "HalfOpen" ELSE state
look == IF state = "Open" /\ opened_at # NotOpened /\ opened_at >= open_cooldown
        THEN "HalfOpen" ELSE state

Step(c, from, to) == call[c] = from /\ call' = [call EXCEPT ![c] = to]

\* A caller is turned away while the circuit is open, and let in otherwise.
try_acquire(c) ==
    /\ Step(c, "idle", IF look = "Open" THEN "idle" ELSE "calling")
    /\ state' = look
    /\ UNCHANGED <<opened_at, consecutive_failures, prev>>

\* record_success resets the counter ...
record_success(c) ==
    /\ Step(c, "calling", "succeeded")
    /\ consecutive_failures' = 0
    /\ UNCHANGED <<state, opened_at, prev>>

\* ... and, with the lock, closes a half-open circuit.
success_locked(c) ==
    /\ Step(c, "succeeded", "idle")
    /\ IF state = "HalfOpen"
       THEN state' = "Closed" /\ opened_at' = NotOpened
       ELSE UNCHANGED <<state, opened_at>>
    /\ UNCHANGED <<consecutive_failures, prev>>

\* record_failure counts the failure ...
record_failure(c) ==
    /\ consecutive_failures < MaxFailures
    /\ Step(c, "calling", "failed")
    /\ consecutive_failures' = consecutive_failures + 1
    /\ prev' = [prev EXCEPT ![c] = consecutive_failures + 1]
    /\ UNCHANGED <<state, opened_at>>

\* ... and, with the lock, trips the circuit: at the threshold when it is
\* closed, always when it is half open.
\* Faulty variant: a failure that reports late trips an open circuit again.
should_open_again(c) == state # "Closed" \/ prev[c] >= failure_threshold
should_open(c) == \/ state = "Closed" /\ prev[c] >= failure_threshold
                  \/ state = "HalfOpen"

failure_locked(c) ==
    /\ Step(c, "failed", "idle")
    /\ IF should_open(c)
       THEN state' = "Open" /\ opened_at' = 0
       ELSE UNCHANGED <<state, opened_at>>
    /\ UNCHANGED <<consecutive_failures, prev>>

\* Time passes.
Tick ==
    /\ opened_at \in 0..(open_cooldown - 1)
    /\ opened_at' = opened_at + 1
    /\ UNCHANGED <<state, consecutive_failures, call, prev>>

BreakerNext ==
    \/ Tick
    \/ \E c \in Callers :
        \/ try_acquire(c)
        \/ record_success(c) \/ success_locked(c)
        \/ record_failure(c) \/ failure_locked(c)

\* Time goes on, and some caller keeps asking.
BreakerFairness ==
    /\ WF_breakerVars(Tick)
    /\ \A c \in Callers : WF_breakerVars(try_acquire(c))
    /\ \A c \in Callers : WF_breakerVars(record_success(c) \/ record_failure(c))
    /\ \A c \in Callers : WF_breakerVars(success_locked(c) \/ failure_locked(c))

BreakerSpec == BreakerInit /\ [][BreakerNext]_breakerVars /\ BreakerFairness

-----------------------------------------------------------------------------

\* A failure that reports late never prolongs the outage: while the circuit
\* stays open, the time it opened at is not moved (record_failure leaves an
\* open circuit alone), so the cooldown is counted from the trip.
LateFailuresDoNotProlong ==
    [][state = "Open" /\ state' = "Open" => opened_at' >= opened_at]_breakerVars

\* No circuit stays open for ever: one that tripped lets a caller in again,
\* whatever the calls still in flight report meanwhile.
TrippedCircuitRecovers == (state = "Open") ~> (state # "Open")
=============================================================================
