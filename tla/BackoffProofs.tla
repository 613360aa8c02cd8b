---------------------------- MODULE BackoffProofs ----------------------------
(***************************************************************************)
(* What the retry loop of handleEvent promises, for every set of policies  *)
(* and every width of a duration: how often the handler is called, and how *)
(* long each wait is.  The inductive invariant is LoopInv, on top of the   *)
(* types.  The powers need no type of their own: whatever a product is,    *)
(* its conversion is a duration, and one that fits is a number.            *)
(***************************************************************************)
EXTENDS Backoff, TLAPS

USE BackoffAssumption DEF BackoffAssumption

\* A float becomes a duration, whatever its value.
LEMMA DurationType ==
  ASSUME NEW x, NEW k
  PROVE  ToDuration(x, k) \subseteq Durations
BY DEF ToDuration, Durations, MinInt

\* A policy's delays are durations that do not exceed its MaxDelay.
LEMMA DelayBounded ==
  ASSUME NEW p \in Policies, NEW n, NEW d \in calculateBackoff(p, n)
  PROVE  d \in Durations /\ d <= p.max
<1> DEFINE raw == IF p.strategy = "exponential" THEN ToDuration(Product(p, n), n + 2)
                                                ELSE {p.initial}
<1>1. raw \subseteq Durations /\ p.max \in Durations  BY DurationType
<1>2. PICK r \in raw : d = IF r > p.max THEN p.max ELSE r
  BY DEF calculateBackoff, Capped
<1>3. r \in Int /\ p.max \in Int  BY <1>1 DEF Durations, MinInt
<1> QED  BY <1>1, <1>2, <1>3

\* An integer that N / D, off by at most k parts in P, is cut to is less than one
\* and these k parts away from it.
LEMMA CutWithin ==
  ASSUME NEW N \in Nat, NEW D \in Nat \ {0}, NEW P \in Nat \ {0}, NEW k \in Nat,
         NEW y \in Nat, y * D * P <= N * (P + k), N * (P - k) < (y + 1) * D * P
  PROVE  Abs(y * D - N) * P < D * P + N * k
<1>1. N * (P + k) = N * P + N * k /\ N * (P - k) = N * P - N * k
  OBVIOUS
<1>2. (y + 1) * D * P = y * D * P + D * P
  OBVIOUS
<1>3. (y * D - N) * P = y * D * P - N * P /\ (N - y * D) * P = N * P - y * D * P
  OBVIOUS
<1>4. y * D * P \in Int /\ N * P \in Int /\ N * k \in Int /\ D * P \in Int /\ D * P > 0
      /\ y * D - N \in Int
  OBVIOUS
<1>5. (y * D - N) * P < D * P + N * k /\ (N - y * D) * P < D * P + N * k
  BY <1>1, <1>2, <1>3, <1>4
<1>6. Abs(y * D - N) = y * D - N \/ Abs(y * D - N) = N - y * D
  BY <1>4 DEF Abs
<1> QED  BY <1>5, <1>6

\* A cap brings two durations no further apart.
LEMMA CapWithin ==
  ASSUME NEW N \in Int, NEW D \in Nat \ {0}, NEW P \in Nat \ {0}, NEW y \in Int,
         NEW m \in Int, NEW b \in Int, Abs(y * D - N) * P < b
  PROVE  Abs((IF y > m THEN m ELSE y) * D - (IF N > m * D THEN m * D ELSE N)) * P < b
<1> DEFINE a == y * D
           M == m * D
           c == (IF y > m THEN m ELSE y) * D
           due == IF N > M THEN M ELSE N
<1>1. a \in Int /\ M \in Int /\ c \in Int /\ due \in Int
  OBVIOUS
<1>2. c = IF a > M THEN M ELSE a
  <2>1. CASE y > m
    BY <2>1
  <2>2. CASE ~(y > m)
    BY <2>2
  <2> QED  BY <2>1, <2>2
<1> HIDE DEF c
<1>3. Abs(c - due) <= Abs(a - N) /\ Abs(c - due) \in Nat /\ Abs(a - N) \in Nat
  <2> HIDE DEF a, M
  <2> QED  BY <1>1, <1>2 DEF Abs
<1>4. Abs(c - due) * P <= Abs(a - N) * P
  <2> DEFINE u == Abs(c - due)
             v == Abs(a - N)
  <2> SUFFICES u * P <= v * P
    OBVIOUS
  <2> HIDE DEF u, v
  <2>1. u \in Nat /\ v \in Nat /\ u <= v  BY <1>3 DEF u, v
  <2> QED  BY <2>1
<1>5. Abs(c - due) * P \in Int /\ Abs(a - N) * P \in Int  BY <1>3
<1>6. Abs(c - due) * P < b
  <2> DEFINE u == Abs(c - due) * P
             v == Abs(a - N) * P
  <2>1. v < b  OBVIOUS
  <2> HIDE DEF u, v
  <2>2. u \in Int /\ v \in Int /\ u <= v  BY <1>4, <1>5 DEF u, v
  <2>3. u < b  BY <2>1, <2>2
  <2> QED  BY <2>3 DEF u
<1> QED  BY <1>6 DEF c

\* The bound WaitsAsConfigured gives on a delay that is due after the product x,
\* with k roundings.
Within(x, k, d) ==
  LET due == IF x.num > policy.max * x.den THEN policy.max * x.den ELSE x.num
      off == Abs(d * x.den - due)
  IN  IF Whole(x) THEN off = 0
      ELSE off * Precision < x.den * Precision + Abs(x.num) * k

\* A product that fits is converted, then capped, within that bound.
LEMMA CappedWithin ==
  ASSUME policy \in Policies, NEW x, NEW k \in Nat, Fits(x, k), NEW r \in ToDuration(x, k)
  PROVE  Within(x, k, Capped(policy, r))
<1> DEFINE N == x.num
           D == x.den
           P == Precision
           m == policy.max
<1>1. N \in Int /\ D \in Nat \ {0} /\ P \in Nat \ {0} /\ m \in Int
  BY DEF Fits, Durations, MinInt
<1>2. r \in Int /\ Near(x, k, r)
  BY <1>1 DEF ToDuration, Durations, MinInt
<1>3. CASE Whole(x)
  <2>1. r * D = N  BY <1>2, <1>3 DEF Near
  <2> DEFINE diff == (IF r > m THEN m ELSE r) * D - (IF N > m * D THEN m * D ELSE N)
             one == 1
  <2>2. one \in Nat \ {0} /\ one \in Int /\ Abs(r * D - N) * one < one
    BY <1>1, <2>1 DEF Abs
  <2>3. diff \in Int
    BY <1>1, <1>2
  <2>4. Abs(diff) * one < one
    <3> HIDE DEF N, D, m, one
    <3> QED  BY <1>1, <1>2, <2>2, CapWithin
  <2>5. Abs(diff) = 0
    <3> HIDE DEF diff
    <3> QED  BY <2>3, <2>4 DEF Abs
  <2> QED  BY <1>3, <2>5 DEF Within, Capped
<1>4. CASE ~Whole(x)
  <2> DEFINE size == IF N < 0 THEN -r ELSE r
             b == D * P + Abs(N) * k
  <2>1. size >= 0 /\ size * D * P <= Abs(N) * (P + k)
        /\ Abs(N) * (P - k) < (size + 1) * D * P
    BY <1>2, <1>4 DEF Near
  <2>2. size \in Nat /\ Abs(N) \in Nat
    BY <1>1, <1>2, <2>1 DEF Abs
  <2>3. Abs(size * D - Abs(N)) * P < b
    <3> HIDE DEF N, D, P, size
    <3> QED  BY <1>1, <2>1, <2>2, CutWithin
  <2>4. Abs(size * D - Abs(N)) = Abs(r * D - N)
    <3> HIDE DEF N, D
    <3>1. r * D \in Int /\ (-r) * D = -(r * D)  BY <1>1, <1>2
    <3> QED  BY <1>1, <1>2, <3>1 DEF Abs
  <2>5. b \in Int
    <3> HIDE DEF N, D, P
    <3> QED  BY <1>1, <2>2
  <2>6. Abs((IF r > m THEN m ELSE r) * D - (IF N > m * D THEN m * D ELSE N)) * P < b
    <3>1. Abs(r * D - N) * P < b  BY <2>3, <2>4
    <3> HIDE DEF N, D, P, m, b
    <3> QED  BY <1>1, <1>2, <2>5, <3>1, CapWithin
  <2> QED  BY <1>4, <2>6 DEF Within, Capped
<1> QED  BY <1>3, <1>4

\* The inductive invariant behind HandlerCallsExact, WaitsAsConfigured and
\* WaitBounded: outside a turn the loop counter is the number of calls made, a
\* call is made only in a turn that the policy allows, and a wait is one that
\* calculateBackoff gave for the retry about to be made.
LoopInv ==
  /\ state # "handled" => calls = attempt
  /\ policy # NilPolicy =>
       /\ state \in {"waiting", "calling", "stopped", "handled"} => attempt <= policy.retries
       /\ state = "handled" => calls = attempt + 1
       /\ attempt <= (IF policy.retries < 0 THEN 0 ELSE policy.retries + 1)
       /\ state = "failed" => attempt > policy.retries
       /\ state = "waiting" => /\ attempt > 0
                               /\ delay \in calculateBackoff(policy, attempt - 1)
  /\ policy = NilPolicy => state \in {"loop", "panicked"}

\* The loop begins before its first turn.
LEMMA InitLoop == Init => TypeOK /\ LoopInv
BY DEF Init, TypeOK, LoopInv

\* Every step keeps the types and LoopInv.
LEMMA NextLoop == TypeOK /\ LoopInv /\ [Next]_vars => TypeOK' /\ LoopInv'
<1> SUFFICES ASSUME TypeOK, LoopInv, [Next]_vars PROVE TypeOK' /\ LoopInv'
  OBVIOUS
<1> USE DEF TypeOK, LoopInv
<1>1. CASE Turn
  <2>1. policy \in Policies  BY <1>1 DEF Turn
  <2>2. CASE attempt > 0
    <3>1. state' = "waiting" /\ delay' \in calculateBackoff(policy, attempt - 1)
          /\ UNCHANGED <<policy, attempt, calls>>
      BY <1>1, <2>2 DEF Turn
    <3>2. delay' \in Int  BY <2>1, <3>1, DelayBounded DEF Durations, MinInt
    <3> QED  BY <1>1, <2>2, <3>1, <3>2 DEF Turn
  <2>3. CASE ~(attempt > 0)
    BY <1>1, <2>3 DEF Turn
  <2> QED  BY <2>2, <2>3
<1>2. CASE GiveUp
  BY <1>2 DEF GiveUp
<1>3. CASE NilPanic
  BY <1>3 DEF NilPanic
<1>4. CASE Elapse
  BY <1>4 DEF Elapse
<1>5. CASE Stopped
  BY <1>5 DEF Stopped
<1>6. CASE Succeed
  BY <1>6 DEF Succeed
<1>7. CASE Fail
  <2>1. policy \in Policies /\ policy # NilPolicy  BY <1>7 DEF Fail
  <2> QED  BY <1>7, <2>1 DEF Fail
<1>8. CASE UNCHANGED vars
  BY <1>8 DEF vars, calculateBackoff
<1> QED  BY <1>1, <1>2, <1>3, <1>4, <1>5, <1>6, <1>7, <1>8 DEF Next

------------------------------------------------------------------------------
(* The theorems *)

\* The loop counter tracks the handler calls, and a wait is the one due.
THEOREM LoopInvariant == Spec => []LoopInv
BY InitLoop, NextLoop, PTL DEF Spec

\* The states of handleEvent and its counters have their types.
THEOREM TypeCorrect == Spec => []TypeOK
BY InitLoop, NextLoop, PTL DEF Spec

\* The handler is called at most MaxRetries + 1 times, and before a failure is
\* reported exactly as often; not at all if MaxRetries is negative.
THEOREM CallsExact == Spec => []HandlerCallsExact
<1>1. TypeOK /\ LoopInv => HandlerCallsExact
  BY DEF TypeOK, LoopInv, HandlerCallsExact
<1> QED  BY <1>1, TypeCorrect, LoopInvariant, PTL

\* The k-th retry waits for initial * multiplier ^ (k - 1), or MaxDelay if that is
\* less, as exactly as floats allow, whenever that product surely is a duration.
THEOREM WaitsExact == Spec => []WaitsAsConfigured
<1>1. TypeOK /\ LoopInv => WaitsAsConfigured
  <2> SUFFICES ASSUME TypeOK, LoopInv, state = "waiting" PROVE WaitsAsConfigured
    BY DEF WaitsAsConfigured
  <2>1. policy \in Policies /\ policy # NilPolicy /\ attempt \in Nat /\ attempt > 0
        /\ delay \in calculateBackoff(policy, attempt - 1)
    BY DEF TypeOK, LoopInv
  <2>2. policy.initial \in Int /\ policy.max \in Int
    BY <2>1 DEF Durations, MinInt
  <2>3. CASE policy.strategy # "exponential"
    <3>1. delay = Capped(policy, policy.initial)
      BY <2>1, <2>3 DEF calculateBackoff
    <3>2. Ideal = [num |-> policy.initial, den |-> 1]
      BY <2>3 DEF Ideal
    <3> QED  BY <2>2, <2>3, <3>1, <3>2 DEF WaitsAsConfigured, Capped, Abs
  <2>4. CASE policy.strategy = "exponential"
    <3> DEFINE x == Product(policy, attempt - 1)
               k == attempt + 1
    <3>1. Ideal = x  BY <2>4 DEF Ideal
    <3>2. PICK r \in ToDuration(x, k) : delay = Capped(policy, r)
      <4>1. attempt - 1 + 2 = k  BY <2>1
      <4> QED  BY <2>1, <2>4, <4>1 DEF calculateBackoff
    <3> SUFFICES ASSUME Fits(x, k) PROVE Within(x, k, delay)
      BY <2>4, <3>1 DEF WaitsAsConfigured, Within
    <3> HIDE DEF x
    <3>3. k \in Nat  BY <2>1
    <3> HIDE DEF k
    <3> QED  BY <2>1, <2>2, <3>2, <3>3, CappedWithin
  <2> QED  BY <2>3, <2>4
<1> QED  BY <1>1, TypeCorrect, LoopInvariant, PTL

\* No wait exceeds MaxDelay, products that overflow included.
THEOREM WaitsBounded == Spec => []WaitBounded
<1>1. TypeOK /\ LoopInv => WaitBounded
  <2> SUFFICES ASSUME TypeOK, LoopInv, state = "waiting" PROVE delay <= policy.max
    BY DEF WaitBounded
  <2>1. policy \in Policies /\ delay \in calculateBackoff(policy, attempt - 1)
    BY DEF TypeOK, LoopInv
  <2> QED  BY <2>1, DelayBounded
<1> QED  BY <1>1, TypeCorrect, LoopInvariant, PTL

==============================================================================
