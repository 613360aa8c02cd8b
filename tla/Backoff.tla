------------------------------- MODULE Backoff -------------------------------
(***************************************************************************)
(* The retry loop of memorySubscription.handleEvent with the delays that   *)
(* calculateBackoff (utils.go) puts between its attempts.  Durations are   *)
(* integers of a fixed width.  A float is a fraction of two integers, with *)
(* denominator 0 for the infinities and for NaN, which is 0 over 0; what    *)
(* rounding does is bounded, not followed bit by bit.                      *)
(***************************************************************************)
EXTENDS Integers

CONSTANTS
  MaxInt,       \* the greatest time.Duration: 2^63 - 1 in the code
  Precision,    \* a rounding is off by at most one part in this: 2^52
  MaxFloat,     \* the greatest float64
  Policies,     \* the retry policies subscriptions are given
  NilPolicy,    \* the pointer that WithRetryPolicy(nil) stores
  Second        \* time.Second

\* The least one, in two's complement.
MinInt == -MaxInt - 1
Durations == MinInt..MaxInt

ASSUME BackoffAssumption ==
  /\ MaxInt \in Nat /\ Precision \in Nat \ {0} /\ MaxFloat \in Nat
  /\ Second \in Durations /\ NilPolicy \notin Policies
  /\ \A p \in Policies :
       /\ p.retries \in Int /\ p.initial \in Durations /\ p.max \in Durations
       /\ p.strategy \in STRING
       /\ p.multiplier.num \in Int /\ p.multiplier.den \in Nat

VARIABLES
  policy,   \* SubscribeConfig.RetryPolicy
  state,    \* where handleEvent is
  attempt,  \* its loop counter
  delay,    \* what time.After was last given
  calls     \* auxiliary: handler calls so far

vars == <<policy, state, attempt, delay, calls>>

Abs(n) == IF n < 0 THEN -n ELSE n

\* math.Pow for a whole exponent: 1 for the exponent 0, whatever the base, and an
\* infinity when the power is no float64.
Power(m, n) ==
  IF n = 0 THEN [num |-> 1, den |-> 1]
  ELSE IF Abs(m.num ^ n) > MaxFloat * m.den ^ n THEN [num |-> 1, den |-> 0]
  ELSE [num |-> m.num ^ n, den |-> m.den ^ n]

\* float64(InitialDelay) * math.Pow(Multiplier, n) before rounding; 0 times an
\* infinity is NaN.
Product(p, n) ==
  LET power == Power(p.multiplier, n)
  IN  [num |-> p.initial * power.num, den |-> power.den]

\* Small whole products are exact.
Whole(x) == \E y \in (-Precision)..Precision : x.num = y * x.den

\* x is a number, and k roundings do not take it out of the durations.
Fits(x, k) ==
  /\ x.num \in Int /\ x.den \in Nat \ {0}
  /\ Abs(x.num) * (IF Whole(x) THEN Precision ELSE Precision + k)
       < (MaxInt + 1) * x.den * Precision

\* y is what a float that k roundings have made of x is cut to, towards zero.
Near(x, k, y) ==
  IF Whole(x) THEN y * x.den = x.num
  ELSE LET size == IF x.num < 0 THEN -y ELSE y
       IN  /\ size >= 0
           /\ size * x.den * Precision <= Abs(x.num) * (Precision + k)
           /\ Abs(x.num) * (Precision - k) < (size + 1) * x.den * Precision

\* The conversion to time.Duration.  What is no duration becomes, depending on the
\* machine, the least one (amd64) or the greatest (arm64), and NaN perhaps 0.
ToDuration(x, k) ==
  IF x.den = 0 THEN {MinInt, MaxInt} \cup (IF x.num = 0 THEN {0} ELSE {})
  ELSE {y \in Durations : Near(x, k, y)}
         \cup (IF Fits(x, k) THEN {} ELSE {MinInt, MaxInt})

Capped(p, d) == IF d > p.max THEN p.max ELSE d

\* Mutant of calculateBackoff: the cap comes before the multiplication.
calculateBackoffMutant(p, n) ==
  IF p = NilPolicy THEN {Second}
  ELSE IF p.strategy = "exponential"
       THEN ToDuration(Product([p EXCEPT !.initial = Capped(p, @)], n), n + 2)
       ELSE {Capped(p, p.initial)}

\* The delays calculateBackoff may return.  Rounded are InitialDelay, each of the
\* n factors of the power, and the product.
calculateBackoff(p, n) ==
  IF p = NilPolicy THEN {Second}
  ELSE LET raw == IF p.strategy = "exponential" THEN ToDuration(Product(p, n), n + 2)
                                                ELSE {p.initial}
       IN  {Capped(p, d) : d \in raw}

Init ==
  /\ policy \in Policies \cup {NilPolicy}
  /\ state = "loop" /\ attempt = 0 /\ delay = 0 /\ calls = 0

\* Mutant of Turn: the exponent starts at one.
TurnMutant ==
  /\ state = "loop" /\ policy # NilPolicy /\ attempt <= policy.retries
  /\ IF attempt > 0
     THEN state' = "waiting" /\ delay' \in calculateBackoff(policy, attempt)
     ELSE state' = "calling" /\ UNCHANGED delay
  /\ UNCHANGED <<policy, attempt, calls>>

\* A turn of the loop up to the handler, or to the wait before it.
Turn ==
  /\ state = "loop" /\ policy # NilPolicy /\ attempt <= policy.retries
  /\ IF attempt > 0
     THEN state' = "waiting" /\ delay' \in calculateBackoff(policy, attempt - 1)
     ELSE state' = "calling" /\ UNCHANGED delay
  /\ UNCHANGED <<policy, attempt, calls>>

\* Mutant of GiveUp: the loop condition is < in place of <=.
GiveUpMutant ==
  /\ state = "loop" /\ policy # NilPolicy /\ attempt >= policy.retries
  /\ state' = "failed"
  /\ UNCHANGED <<policy, attempt, delay, calls>>

GiveUp ==
  /\ state = "loop" /\ policy # NilPolicy /\ attempt > policy.retries
  /\ state' = "failed"
  /\ UNCHANGED <<policy, attempt, delay, calls>>

\* The loop condition reads MaxRetries through the nil pointer.
NilPanic ==
  /\ state = "loop" /\ policy = NilPolicy
  /\ state' = "panicked"
  /\ UNCHANGED <<policy, attempt, delay, calls>>

Elapse ==
  /\ state = "waiting"
  /\ state' = "calling"
  /\ UNCHANGED <<policy, attempt, delay, calls>>

Stopped ==
  /\ state = "waiting"
  /\ state' = "stopped"
  /\ UNCHANGED <<policy, attempt, delay, calls>>

Succeed ==
  /\ state = "calling"
  /\ state' = "handled" /\ calls' = calls + 1
  /\ UNCHANGED <<policy, attempt, delay>>

\* Mutant of Fail: the loop counts the wrong way.
FailMutant ==
  /\ state = "calling"
  /\ state' = "loop" /\ calls' = calls + 1 /\ attempt' = attempt - 1
  /\ UNCHANGED <<policy, delay>>

Fail ==
  /\ state = "calling"
  /\ state' = "loop" /\ calls' = calls + 1 /\ attempt' = attempt + 1
  /\ UNCHANGED <<policy, delay>>

Next == Turn \/ GiveUp \/ NilPanic \/ Elapse \/ Stopped \/ Succeed \/ Fail

Spec == Init /\ [][Next]_vars

------------------------------------------------------------------------------
\* The states of handleEvent, and counters that are natural numbers.
TypeOK ==
  /\ policy \in Policies \cup {NilPolicy}
  /\ state \in {"loop", "waiting", "calling", "handled", "failed", "stopped", "panicked"}
  /\ attempt \in Nat /\ calls \in Nat /\ delay \in Int

\* What a retry should wait: the exponential or the fixed delay, without limits.
Ideal ==
  IF policy.strategy = "exponential" THEN Product(policy, attempt - 1)
                                     ELSE [num |-> policy.initial, den |-> 1]

\* The handler is called at most once and once more for each retry the policy
\* allows, not at all if it allows a negative number, and handleEvent reports
\* failure only after all of these calls.
HandlerCallsExact ==
  policy # NilPolicy =>
    LET most == IF policy.retries < 0 THEN 0 ELSE policy.retries + 1
    IN  calls <= most /\ (state = "failed" => calls = most)

\* Before the k-th retry the worker waits initial * multiplier ^ (k - 1), or
\* MaxDelay if that is less: exactly so with the fixed strategy and for small whole
\* products, else less than a nanosecond and k + 1 roundings away from it, as long
\* as these do not take the product out of the range of a duration.
WaitsAsConfigured ==
  state = "waiting" =>
    LET x == Ideal
        due == IF x.num > policy.max * x.den THEN policy.max * x.den ELSE x.num
        off == Abs(delay * x.den - due)
    IN  IF policy.strategy # "exponential" THEN off = 0
        ELSE Fits(x, attempt + 1) =>
               IF Whole(x) THEN off = 0
               ELSE off * Precision < x.den * Precision + Abs(x.num) * (attempt + 1)

\* No wait is longer than MaxDelay, even when the product does not fit.
WaitBounded == state = "waiting" => delay <= policy.max

\* The comment at the cap says that it limits the delay to MaxDelay: a retry
\* whose exponential delay exceeds MaxDelay waits MaxDelay.
LongWaitIsMaxDelay ==
  state = "waiting" /\ Ideal.num > policy.max * Ideal.den => delay = policy.max
==============================================================================
