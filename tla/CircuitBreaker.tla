--------------------------- MODULE CircuitBreaker ---------------------------
(***************************************************************************)
(* CircuitBreaker (linkedin/throttle.rs): every method is one step under   *)
(* the mutex.  The instant it opened at is reduced to whether the cooldown *)
(* has passed since: "open" fails fast, "cooled" is Open with a cooldown   *)
(* that is over.                                                           *)
(***************************************************************************)
EXTENDS Naturals

CONSTANT Threshold

ASSUME ThresholdAssumption == Threshold \in Nat \ {0}

VARIABLES circuit, failures

breakerVars == <<circuit, failures>>

\* The shapes of the state: among them, failures stay below the threshold and
\* only a closed circuit counts them.
BreakerTypeOK ==
  /\ circuit \in {"closed", "open", "cooled", "half"}
  /\ failures \in 0..(Threshold - 1)
  /\ circuit # "closed" => failures = 0

BreakerInit == circuit = "closed" /\ failures = 0

\* check answers Ok, and grants the probe when the cooldown is over.
Passes == circuit \in {"closed", "cooled"}

Check ==
  /\ circuit' = IF circuit = "cooled" THEN "half" ELSE circuit
  /\ UNCHANGED failures

RecordSuccess == circuit' = "closed" /\ failures' = 0

\* Mutant: the failure after the threshold opens.
RecordFailureLate ==
  IF circuit = "closed"
  THEN IF failures >= Threshold
       THEN circuit' = "open" /\ failures' = 0
       ELSE circuit' = circuit /\ failures' = failures + 1
  ELSE circuit' = IF circuit = "half" THEN "open" ELSE circuit
       /\ UNCHANGED failures

\* Mutant: a failed probe keeps the instant the circuit opened at before it.
RecordFailureStale ==
  IF circuit = "half"
  THEN circuit' = "cooled" /\ UNCHANGED failures
  ELSE IF circuit = "closed"
       THEN IF failures + 1 >= Threshold
            THEN circuit' = "open" /\ failures' = 0
            ELSE circuit' = circuit /\ failures' = failures + 1
       ELSE UNCHANGED breakerVars

\* A closed circuit counts and opens at the threshold, a half-open one reopens
\* with a fresh cooldown, an open one keeps the instant it opened at.
RecordFailure ==
  \/ /\ circuit = "closed"
     /\ IF failures + 1 >= Threshold
        THEN circuit' = "open" /\ failures' = 0
        ELSE circuit' = circuit /\ failures' = failures + 1
  \/ /\ circuit = "half"
     /\ circuit' = "open"
     /\ UNCHANGED failures
  \/ /\ circuit \in {"open", "cooled"}
     /\ UNCHANGED breakerVars

CooldownPasses ==
  /\ circuit = "open"
  /\ circuit' = "cooled"
  /\ UNCHANGED failures

=============================================================================
