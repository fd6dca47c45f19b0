--------------------------- MODULE CircuitBreaker ---------------------------
(***************************************************************************)
(* The in-process circuit breaker in front of Mercado Pago                 *)
(* (backend/core/circuit_breaker.py, AsyncCircuitBreaker).                 *)
(*                                                                         *)
(* Calls are coroutines of one event loop.  A call is admitted by          *)
(* _before_call, runs its operation while other calls interleave, and then *)
(* reports its outcome.  The critical sections under the asyncio lock hold *)
(* no await, so each one is a single step; what interleaves is the         *)
(* operation itself, so a call admitted while the circuit was closed may   *)
(* report after the circuit has opened, half-opened or closed again.       *)
(*                                                                         *)
(* The clock is abstracted to the one comparison the code makes with it:   *)
(* retry is "due" once _retry_at has passed.                               *)
(***************************************************************************)
EXTENDS Naturals

CONSTANTS
    Calls,      \* the coroutines that use the breaker
    Threshold,  \* failure_threshold
    Cuts        \* how a time limit reaches a call: "raised" inside it or "drained"

ASSUME ThresholdAssumption == Threshold \in Nat \ {0}
ASSUME CutsAssumption == Cuts \subseteq {"raised", "drained"}

VARIABLES
    state,      \* self._state
    failures,   \* self._consecutive_failures
    retry,      \* "due" when self._clock() >= self._retry_at, else "waiting"
    probe,      \* self._probe_in_flight: "taken" or "free"
    call        \* where each coroutine is: outside, in a normal call or in the probe

breakerVars == <<state, failures, retry, probe, call>>

CircuitStates == {"closed", "open", "half_open"}
CallStates == {"idle", "normal", "probe"}

BreakerTypeOK ==
    /\ state \in CircuitStates
    /\ failures \in 0..Threshold
    /\ retry \in {"due", "waiting"}
    /\ probe \in {"taken", "free"}
    /\ call \in [Calls -> CallStates]

BreakerInit ==
    /\ state = "closed"
    /\ failures = 0
    /\ retry = "due"
    /\ probe = "free"
    /\ call = [c \in Calls |-> "idle"]

-----------------------------------------------------------------------------
(* _before_call: a closed circuit admits everyone.                         *)
AdmitNormal(c) ==
    /\ call[c] = "idle"
    /\ state = "closed"
    /\ call' = [call EXCEPT ![c] = "normal"]
    /\ UNCHANGED <<state, failures, retry, probe>>

(* _before_call: once the wait is over the first call in takes the probe;  *)
(* the others are rejected with CircuitBreakerOpenError and change nothing *)
(* but, when the circuit was open, the state.                              *)
AdmitProbe(c) ==
    /\ call[c] = "idle"
    /\ state = "half_open" \/ (state = "open" /\ retry = "due")
    /\ probe = "free"
    /\ state' = "half_open"
    /\ probe' = "taken"
    /\ call' = [call EXCEPT ![c] = "probe"]
    /\ UNCHANGED <<failures, retry>>

(* _before_call raises after moving an open circuit to half_open: the      *)
(* probe flag was still taken by an earlier probe.                         *)
RejectHalfOpen(c) ==
    /\ call[c] = "idle"
    /\ state = "open" /\ retry = "due"
    /\ probe = "taken"
    /\ state' = "half_open"
    /\ UNCHANGED <<failures, retry, probe, call>>

-----------------------------------------------------------------------------
(* _open_circuit                                                           *)
OpenCircuit ==
    /\ state' = "open"
    /\ retry' = "waiting"
    /\ failures' = Threshold

(* _mark_success: any call that answers closes the circuit, whatever its   *)
(* state is by then; also the failures should_record_failure discards.     *)
MarkSuccess(c) ==
    /\ call[c] # "idle"
    /\ state' = "closed"
    /\ failures' = 0
    /\ probe' = IF call[c] = "probe" THEN "free" ELSE probe
    /\ call' = [call EXCEPT ![c] = "idle"]
    /\ UNCHANGED retry

(* _mark_failure                                                           *)
MarkFailure(c) ==
    /\ call[c] # "idle"
    /\ IF call[c] = "probe" \/ state = "half_open"
          THEN OpenCircuit /\ probe' = "free"
          ELSE /\ IF failures + 1 >= Threshold
                     THEN OpenCircuit
                     ELSE failures' = failures + 1 /\ UNCHANGED <<state, retry>>
               /\ UNCHANGED probe
    /\ call' = [call EXCEPT ![c] = "idle"]

(* Mutant of ReleaseProbe: the cut-off call forgets that it was the probe. *)
ReleaseProbeForgotten(c) ==
    /\ "raised" \in Cuts
    /\ call[c] # "idle"
    /\ call' = [call EXCEPT ![c] = "idle"]
    /\ UNCHANGED <<state, failures, retry, probe>>

(* SoftTimeLimitExceeded raised inside the call: neither a success nor a   *)
(* failure, it only lets go of the probe (_release_probe).                 *)
ReleaseProbe(c) ==
    /\ "raised" \in Cuts
    /\ call[c] # "idle"
    /\ probe' = IF call[c] = "probe" THEN "free" ELSE probe
    /\ call' = [call EXCEPT ![c] = "idle"]
    /\ UNCHANGED <<state, failures, retry>>

(* The time limit came out of the event loop instead, and _cancel_and_drain *)
(* (core/worker_loop.py) cancels every pending task.  CancelledError is    *)
(* not an Exception: no handler of `call` runs.                            *)
Drain ==
    /\ "drained" \in Cuts
    /\ \E c \in Calls : call[c] # "idle"
    /\ call' = [c \in Calls |-> "idle"]
    /\ UNCHANGED <<state, failures, retry, probe>>

(* Mutant of Cool: an open circuit never looks at the clock again.         *)
CoolUnlessOpen ==
    /\ retry = "waiting" /\ state # "open"
    /\ retry' = "due"
    /\ UNCHANGED <<state, failures, probe, call>>

(* The clock reaches _retry_at.                                            *)
Cool ==
    /\ retry = "waiting"
    /\ retry' = "due"
    /\ UNCHANGED <<state, failures, probe, call>>

Admit(c) == AdmitNormal(c) \/ AdmitProbe(c) \/ RejectHalfOpen(c)

Report(c) == MarkSuccess(c) \/ MarkFailure(c) \/ ReleaseProbe(c)

BreakerNext == Cool \/ Drain \/ \E c \in Calls : Admit(c) \/ Report(c)

(* Every operation ends: the HTTP client has a timeout below the breaker.  *)
BreakerFairness == WF_breakerVars(Cool) /\ \A c \in Calls : WF_breakerVars(Report(c))

BreakerSpec == BreakerInit /\ [][BreakerNext]_breakerVars /\ BreakerFairness

-----------------------------------------------------------------------------
(* The probe flag is never orphaned: while it is taken some coroutine that *)
(* will clear it is still running, also after a time limit ("solo suelta   *)
(* la sonda si esta llamada lo era", in `call`).  With the flag taken and  *)
(* nobody to clear it the half-open circuit would reject every call for    *)
(* ever.                                                                   *)
NoOrphanProbe == probe = "taken" => \E c \in Calls : call[c] = "probe"

(* A circuit away from closed has really counted Threshold failures in a   *)
(* row, and a closed one has not: late reports of calls admitted in an     *)
(* earlier state never leave the counter and the state apart.              *)
OpenIffThreshold == (state # "closed") <=> (failures = Threshold)

(* Of all the ways a call can end, only the cancellation from outside can  *)
(* leave the flag without its probe.                                       *)
OnlyDrainOrphans == [][NoOrphanProbe => NoOrphanProbe' \/ Drain]_breakerVars

(* The breaker recovers: a circuit that opened is closed again, or lets a  *)
(* probe through, however the late reports interleave, as long as its      *)
(* probe is not cancelled from outside.                                    *)
Recovers ==
    (state # "closed" /\ NoOrphanProbe)
        ~> \/ state = "closed"
           \/ retry = "due" /\ probe = "free"
           \/ ~NoOrphanProbe
=============================================================================
