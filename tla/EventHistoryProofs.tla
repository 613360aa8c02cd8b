-------------------------- MODULE EventHistoryProofs --------------------------
(***************************************************************************)
(* The history is the newest part of the log, for every capacity and every *)
(* limit.  HistoryInv is inductive as it stands; the work is in two facts  *)
(* about sequences: what an addition does to the newest elements, and that *)
(* the newest of the newest are the newest.                                *)
(***************************************************************************)
EXTENDS EventHistory, TLAPS

\* An element of Newest, by its index, and its length.
LEMMA NewestIndex ==
  ASSUME NEW S, NEW s \in Seq(S), NEW n \in 0..Len(s)
  PROVE  /\ Newest(s, n) \in Seq(S)
         /\ Len(Newest(s, n)) = n
         /\ \A i \in 1..n : Newest(s, n)[i] = s[Len(s) - n + i]
BY DEF Newest

\* Sequences of equal length with equal elements are equal.
LEMMA SameSeq ==
  ASSUME NEW S, NEW s \in Seq(S), NEW t \in Seq(S), Len(s) = Len(t),
         \A i \in 1..Len(s) : s[i] = t[i]
  PROVE  s = t
OBVIOUS

\* Adding to the newest maxSize elements of a log gives those of the longer log.
LEMMA AddNewest ==
  ASSUME NEW S, NEW s \in Seq(S), NEW e \in S, NEW m \in Nat \ {0}
  PROVE  HistoryAdd(Newest(s, Smaller(Len(s), m)), m, e)
           = Newest(Append(s, e), Smaller(Len(s) + 1, m))
<1> DEFINE q == Newest(s, Smaller(Len(s), m))
           long == Append(s, e)
           n == Smaller(Len(s) + 1, m)
           r == HistoryAdd(q, m, e)
           w == Newest(long, n)
<1>0. Smaller(Len(s), m) \in 0..Len(s)
  BY DEF Smaller
<1>1. /\ q \in Seq(S) /\ Len(q) = Smaller(Len(s), m)
      /\ \A i \in 1..Len(q) : q[i] = s[Len(s) - Len(q) + i]
  <2> DEFINE k == Smaller(Len(s), m)
  <2>1. k \in 0..Len(s)
    BY <1>0
  <2> HIDE DEF k
  <2>2. /\ Newest(s, k) \in Seq(S) /\ Len(Newest(s, k)) = k
        /\ \A i \in 1..k : Newest(s, k)[i] = s[Len(s) - k + i]
    BY <2>1, NewestIndex
  <2> QED BY <2>2 DEF k
<1>2. /\ long \in Seq(S) /\ Len(long) = Len(s) + 1 /\ n \in 0..Len(long)
      /\ \A i \in 1..Len(s) : long[i] = s[i]
      /\ long[Len(s) + 1] = e
  BY DEF Smaller
<1>3. w \in Seq(S) /\ Len(w) = n /\ \A i \in 1..n : w[i] = long[Len(long) - n + i]
  BY <1>2, NewestIndex
<1>4. CASE Len(s) >= m
  <2>1. r = Append(Tail(q), e) /\ Len(q) = m /\ n = m
    BY <1>1, <1>4 DEF HistoryAdd, Smaller
  <2>2. r \in Seq(S) /\ Len(r) = m
    BY <1>1, <2>1
  <2>3. ASSUME NEW i \in 1..m PROVE r[i] = w[i]
    <3>1. CASE i = m
      BY <1>1, <1>2, <1>3, <2>1, <3>1
    <3>2. CASE i < m
      <4>1. r[i] = q[i + 1]
        BY <1>1, <2>1, <3>2
      <4>2. q[i + 1] = s[Len(s) - m + i + 1]
        BY <1>1, <2>1, <3>2
      <4>3. w[i] = long[Len(s) + 1 - m + i]
        <5>1. i \in 1..n /\ Len(long) - n + i = Len(s) + 1 - m + i
          BY <1>2, <2>1, <3>2
        <5> HIDE DEF w, n, long
        <5> QED BY <1>3, <5>1
      <4>4. Len(s) - m + i + 1 \in 1..Len(s)
        BY <1>4, <3>2
      <4> QED BY <1>2, <4>1, <4>2, <4>3, <4>4
    <3> QED BY <3>1, <3>2
  <2> HIDE DEF r, w
  <2> QED BY <1>3, <2>1, <2>2, <2>3, SameSeq DEF r, w
<1>5. CASE Len(s) < m
  <2>1. r = Append(q, e) /\ Len(q) = Len(s) /\ n = Len(s) + 1
    BY <1>1, <1>5 DEF HistoryAdd, Smaller
  <2>2. r \in Seq(S) /\ Len(r) = n
    BY <1>1, <2>1
  <2>3. ASSUME NEW i \in 1..n PROVE r[i] = w[i]
    BY <1>1, <1>2, <1>3, <2>1
  <2> HIDE DEF r, w
  <2> QED BY <1>3, <2>1, <2>2, <2>3, SameSeq DEF r, w
<1> QED BY <1>4, <1>5

\* get returns the newest events of those retained, as many as it should.
LEMMA GetNewest ==
  ASSUME NEW S, NEW s \in Seq(S), NEW m \in Nat \ {0}, NEW limit \in Int
  PROVE  LET kept == Smaller(Len(s), m)
             n == IF limit > 0 THEN Smaller(limit, kept) ELSE kept
         IN  HistoryGet(Newest(s, kept), limit) = Newest(s, n)
<1> DEFINE kept == Smaller(Len(s), m)
           n == IF limit > 0 THEN Smaller(limit, kept) ELSE kept
           q == Newest(s, kept)
<1>1. kept \in 0..Len(s) /\ n \in 0..kept
  BY DEF Smaller
<1>2. q \in Seq(S) /\ Len(q) = kept /\ \A i \in 1..kept : q[i] = s[Len(s) - kept + i]
  BY <1>1, NewestIndex
<1>3. HistoryGet(q, limit) = Newest(q, n)
  <2>1. n = IF limit <= 0 \/ limit > Len(q) THEN Len(q) ELSE limit
    BY <1>1, <1>2 DEF Smaller
  <2> HIDE DEF q, n
  <2> QED BY <2>1 DEF HistoryGet, Newest
<1> HIDE DEF kept, n, q
<1>4. /\ Newest(q, n) \in Seq(S) /\ Len(Newest(q, n)) = n
      /\ \A i \in 1..n : Newest(q, n)[i] = q[kept - n + i]
  <2>1. n \in 0..Len(q)
    BY <1>1, <1>2
  <2>2. /\ Newest(q, n) \in Seq(S) /\ Len(Newest(q, n)) = n
        /\ \A i \in 1..n : Newest(q, n)[i] = q[Len(q) - n + i]
    BY <1>2, <2>1, NewestIndex
  <2> QED BY <1>2, <2>2
<1>5. /\ Newest(s, n) \in Seq(S) /\ Len(Newest(s, n)) = n
      /\ \A i \in 1..n : Newest(s, n)[i] = s[Len(s) - n + i]
  <2>1. n \in 0..Len(s)
    BY <1>1
  <2> QED BY <2>1, NewestIndex
<1>6. \A i \in 1..n : q[kept - n + i] = s[Len(s) - n + i]
  BY <1>1, <1>2
<1>7. Newest(q, n) = Newest(s, n)
  BY <1>4, <1>5, <1>6, SameSeq
<1> QED BY <1>3, <1>7 DEF q, n, kept

\* HistoryInv holds of the empty history.
LEMMA InitHistory == Init => HistoryInv
BY HistoryAssumption DEF HistoryAssumption, Init, HistoryInv, TypeOK, RetainsNewest,
     ReadsNewest, Newest, Smaller

\* Every addition and every read keeps HistoryInv.
LEMMA NextHistory == HistoryInv /\ [Next]_vars => HistoryInv'
<1> SUFFICES ASSUME HistoryInv, [Next]_vars PROVE HistoryInv'
  OBVIOUS
<1> USE HistoryAssumption DEF HistoryAssumption
<1>0. TypeOK /\ RetainsNewest /\ ReadsNewest
  BY DEF HistoryInv
<1>1. ASSUME NEW e \in Events, Add(e) PROVE HistoryInv'
  <2>1. /\ events' = HistoryAdd(events, MaxHistorySize, e)
        /\ log' = Append(log, e) /\ answer' = answer
    BY <1>1 DEF Add
  <2>2. log \in Seq(Events) /\ log' \in Seq(Events) /\ Len(log') = Len(log) + 1
    BY <1>0, <2>1 DEF TypeOK
  <2>3. RetainsNewest'
    BY <1>0, <2>1, <2>2, AddNewest DEF RetainsNewest
  <2>4. events' \in Seq(Events)
    <3>1. Smaller(Len(log'), MaxHistorySize) \in 0..Len(log')
      BY <2>2 DEF Smaller
    <3> QED BY <2>2, <2>3, <3>1, NewestIndex DEF RetainsNewest
  <2>5. TypeOK'
    BY <1>0, <2>1, <2>2, <2>4 DEF TypeOK
  <2>6. SubSeq(log', 1, answer.at) = SubSeq(log, 1, answer.at)
    BY <1>0, <2>1, <2>2 DEF TypeOK
  <2>7. ReadsNewest'
    BY <1>0, <2>1, <2>6 DEF ReadsNewest
  <2> QED BY <2>3, <2>5, <2>7 DEF HistoryInv
<1>2. ASSUME NEW limit \in Limits, Get(limit) PROVE HistoryInv'
  <2>1. /\ answer' = [limit |-> limit, got |-> HistoryGet(events, limit), at |-> Len(log)]
        /\ events' = events /\ log' = log
    BY <1>2 DEF Get
  <2>2. limit \in Int /\ log \in Seq(Events) /\ SubSeq(log, 1, Len(log)) = log
    BY <1>0 DEF TypeOK
  <2>3. ReadsNewest'
    BY <1>0, <2>1, <2>2, GetNewest DEF RetainsNewest, ReadsNewest
  <2>4. HistoryGet(events, limit) \in Seq(Events)
    BY <1>0 DEF TypeOK, HistoryGet
  <2>5. TypeOK'
    BY <1>0, <2>1, <2>2, <2>4 DEF TypeOK
  <2> QED BY <1>0, <2>1, <2>3, <2>5 DEF HistoryInv, RetainsNewest
<1>3. CASE UNCHANGED vars
  BY <1>0, <1>3 DEF vars, HistoryInv, TypeOK, RetainsNewest, ReadsNewest
<1> QED BY <1>1, <1>2, <1>3 DEF Next

\* The history always holds the newest events ever added, and every answer of
\* get is the newest of them at its time.
THEOREM HistoryCorrect == Spec => []HistoryInv
BY InitHistory, NextHistory, PTL DEF Spec

\* The history forgets only the oldest events, and only at capacity.
THEOREM HistoryRetains == Spec => []RetainsNewest
<1>1. HistoryInv => RetainsNewest
  BY DEF HistoryInv
<1> QED BY <1>1, HistoryCorrect, PTL

\* Every answer of get is the newest events, whatever is added later.
THEOREM HistoryReads == Spec => []ReadsNewest
<1>1. HistoryInv => ReadsNewest
  BY DEF HistoryInv
<1> QED BY <1>1, HistoryCorrect, PTL

==============================================================================
