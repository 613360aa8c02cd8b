------------------------------ MODULE ListProofs ------------------------------
(***************************************************************************)
(* Lists without repetition, which is what the buses keep their            *)
(* subscriptions and events in.                                            *)
(***************************************************************************)
EXTENDS Integers, Sequences, FiniteSetTheorems, TLAPS

\* Without its head, a list has the same entries but the head.
LEMMA TailDistinct ==
  ASSUME NEW S, NEW q \in Seq(S), q # <<>>, IsInjective(q)
  PROVE  /\ IsInjective(Tail(q)) /\ Range(Tail(q)) = Range(q) \ {Head(q)}
         /\ Head(q) \in Range(q)
<1>1. Len(q) \in Nat /\ Len(q) > 0 /\ Head(q) = q[1] /\ 1 \in DOMAIN q
  OBVIOUS
<1>2. Len(Tail(q)) = Len(q) - 1 /\ DOMAIN Tail(q) = 1..(Len(q) - 1)
  BY <1>1
<1>3. \A i \in DOMAIN Tail(q) : Tail(q)[i] = q[i + 1] /\ i + 1 \in DOMAIN q /\ i + 1 # 1
  BY <1>1, <1>2
<1>4. IsInjective(Tail(q))
  <2> SUFFICES ASSUME NEW i \in DOMAIN Tail(q), NEW j \in DOMAIN Tail(q), Tail(q)[i] = Tail(q)[j]
               PROVE  i = j
    BY DEF IsInjective
  <2>1. i + 1 = j + 1  BY <1>3 DEF IsInjective
  <2>2. i \in Int /\ j \in Int  BY <1>2
  <2> QED  BY <2>1, <2>2
<1>5. Range(Tail(q)) \subseteq Range(q)  BY <1>3 DEF Range
<1>7. ASSUME NEW x \in Range(q), x # Head(q) PROVE x \in Range(Tail(q))
  <2>1. PICK i \in DOMAIN q : q[i] = x  BY <1>7 DEF Range
  <2>2. i # 1 /\ i \in 1..Len(q)  BY <1>1, <1>7, <2>1
  <2>3. i - 1 \in DOMAIN Tail(q) /\ (i - 1) + 1 = i  BY <1>1, <1>2, <2>2
  <2>4. Tail(q)[i - 1] = x  BY <1>3, <2>1, <2>3
  <2> QED  BY <2>3, <2>4 DEF Range
<1>6. Head(q) \notin Range(Tail(q))  BY <1>1, <1>3 DEF Range, IsInjective
<1> QED  BY <1>1, <1>4, <1>5, <1>6, <1>7 DEF Range

\* A new entry may be appended.
LEMMA AppendDistinct ==
  ASSUME NEW S, NEW q \in Seq(S), NEW x \in S, IsInjective(q), x \notin Range(q)
  PROVE  IsInjective(Append(q, x)) /\ Range(Append(q, x)) = Range(q) \cup {x}
<1>1. DOMAIN Append(q, x) = 1..(Len(q) + 1) /\ DOMAIN q = 1..Len(q) /\ Len(q) \in Nat
  OBVIOUS
<1>2. \A i \in 1..Len(q) : Append(q, x)[i] = q[i] /\ q[i] # x
  BY <1>1 DEF Range
<1>3. Append(q, x)[Len(q) + 1] = x
  OBVIOUS
<1>a. Range(Append(q, x)) = Range(q) \cup {x}
  <2>1. \A i \in DOMAIN q : i \in DOMAIN Append(q, x) /\ Append(q, x)[i] = q[i]
    BY <1>1, <1>2
  <2>2. Len(q) + 1 \in DOMAIN Append(q, x)  BY <1>1
  <2> QED  BY <1>3, <2>1, <2>2 DEF Range
<1> SUFFICES ASSUME NEW i \in 1..(Len(q) + 1), NEW j \in 1..(Len(q) + 1),
                    Append(q, x)[i] = Append(q, x)[j]
             PROVE  i = j
  BY <1>1, <1>a DEF IsInjective
<1>4. CASE i \in 1..Len(q) /\ j \in 1..Len(q)  BY <1>1, <1>2, <1>4 DEF IsInjective
<1>5. CASE i = Len(q) + 1 \/ j = Len(q) + 1  BY <1>1, <1>2, <1>3, <1>5
<1> QED  BY <1>1, <1>4, <1>5

\* What is cut out of such a list is gone, and nothing else is.
LEMMA CutDistinct ==
  ASSUME NEW S, NEW q \in Seq(S), NEW k \in DOMAIN q, IsInjective(q)
  PROVE  LET c == SubSeq(q, 1, k - 1) \o SubSeq(q, k + 1, Len(q)) IN
         IsInjective(c) /\ Range(c) = Range(q) \ {q[k]}
<1> DEFINE front == SubSeq(q, 1, k - 1)
           back == SubSeq(q, k + 1, Len(q))
           at(i) == IF i < k THEN i ELSE i + 1
<1>1. k \in 1..Len(q) /\ Len(q) \in Nat  OBVIOUS
<1>2. front \in Seq(S) /\ Len(front) = k - 1 /\ \A j \in 1..(k - 1) : front[j] = q[j]
  BY <1>1
<1>3. back \in Seq(S) /\ Len(back) = Len(q) - k /\ \A j \in 1..(Len(q) - k) : back[j] = q[j + k]
  BY <1>1
<1> HIDE DEF front, back
<1>4. DOMAIN (front \o back) = 1..(Len(q) - 1)
  BY <1>1, <1>2, <1>3
<1>5. ASSUME NEW i \in 1..(Len(q) - 1)
      PROVE  (front \o back)[i] = q[at(i)] /\ at(i) \in DOMAIN q \ {k}
  <2>1. CASE i < k  BY <1>1, <1>2, <1>3, <1>4, <2>1
  <2>2. CASE i >= k
    <3>1. (front \o back)[i] = back[i - (k - 1)]  BY <1>1, <1>2, <1>3, <1>4, <2>2
    <3>2. i - (k - 1) \in 1..(Len(q) - k)  BY <1>1, <2>2
    <3>3. back[i - (k - 1)] = q[(i - (k - 1)) + k]  BY <1>3, <3>2
    <3>4. (i - (k - 1)) + k = at(i) /\ at(i) \in DOMAIN q \ {k}  BY <1>1, <2>2
    <3> QED  BY <3>1, <3>3, <3>4
  <2>3. i < k \/ i >= k  BY <1>1
  <2> QED  BY <2>1, <2>2, <2>3
<1>6. \A i, j \in 1..(Len(q) - 1) : at(i) = at(j) => i = j  BY <1>1
<1>7. ASSUME NEW j \in DOMAIN q \ {k} PROVE \E i \in 1..(Len(q) - 1) : at(i) = j
  <2>1. CASE j < k
    <3>1. j \in 1..(Len(q) - 1) /\ at(j) = j  BY <1>1, <2>1
    <3> QED  BY <3>1
  <2>2. CASE j > k
    <3>1. j - 1 \in 1..(Len(q) - 1) /\ at(j - 1) = j  BY <1>1, <2>2
    <3> QED  BY <3>1
  <2> QED  BY <1>1, <2>1, <2>2
<1> HIDE DEF at
<1>8. ASSUME NEW i \in 1..(Len(q) - 1), NEW j \in 1..(Len(q) - 1),
             (front \o back)[i] = (front \o back)[j]
      PROVE  i = j
  <2>1. q[at(i)] = q[at(j)] /\ at(i) \in DOMAIN q /\ at(j) \in DOMAIN q  BY <1>5, <1>8
  <2> QED  BY <2>1, <1>6 DEF IsInjective
<1>9. Range(front \o back) = {q[at(i)] : i \in 1..(Len(q) - 1)}
  BY <1>4, <1>5 DEF Range
<1>10. Range(q) \ {q[k]} = {q[j] : j \in DOMAIN q \ {k}}
  BY DEF Range, IsInjective
<1>11. Range(front \o back) = Range(q) \ {q[k]}
  BY <1>5, <1>7, <1>9, <1>10
<1> QED  BY <1>4, <1>8, <1>11 DEF IsInjective, front, back

\* Lists with no common entry may be joined.
LEMMA ConcatDistinct ==
  ASSUME NEW S, NEW q \in Seq(S), NEW r \in Seq(S), IsInjective(q), IsInjective(r),
         Range(q) \cap Range(r) = {}
  PROVE  q \o r \in Seq(S) /\ IsInjective(q \o r) /\ Range(q \o r) = Range(q) \cup Range(r)
<1>1. /\ Len(q) \in Nat /\ Len(r) \in Nat
      /\ DOMAIN q = 1..Len(q) /\ DOMAIN r = 1..Len(r)
      /\ DOMAIN (q \o r) = 1..(Len(q) + Len(r))
  OBVIOUS
<1>2. \A i \in DOMAIN q : i \in DOMAIN (q \o r) /\ (q \o r)[i] = q[i]
  BY <1>1
<1>3. ASSUME NEW i \in DOMAIN r
      PROVE  i + Len(q) \in DOMAIN (q \o r) /\ (q \o r)[i + Len(q)] = r[i]
  <2>1. i + Len(q) \in 1..(Len(q) + Len(r)) /\ ~(i + Len(q) \in 1..Len(q))  BY <1>1
  <2>2. (q \o r)[i + Len(q)] = r[(i + Len(q)) - Len(q)]  BY <1>1, <2>1
  <2>3. (i + Len(q)) - Len(q) = i  BY <1>1
  <2> QED  BY <1>1, <2>1, <2>2, <2>3
<1>4. \A i \in DOMAIN (q \o r) : i \in DOMAIN q \/ i - Len(q) \in DOMAIN r
  BY <1>1
<1>5. \A i \in DOMAIN (q \o r) : i \notin DOMAIN q => (q \o r)[i] = r[i - Len(q)]
  BY <1>1
<1>6. \A x : x \in Range(q \o r) => x \in Range(q) \/ x \in Range(r)
  BY <1>2, <1>4, <1>5 DEF Range
<1>7. \A x : x \in Range(q) \/ x \in Range(r) => x \in Range(q \o r)
  BY <1>2, <1>3 DEF Range
<1>8. ASSUME NEW i \in DOMAIN (q \o r), NEW j \in DOMAIN (q \o r), (q \o r)[i] = (q \o r)[j]
      PROVE  i = j
  <2>1. CASE i \in DOMAIN q /\ j \in DOMAIN q  BY <1>2, <1>8, <2>1 DEF IsInjective
  <2>2. CASE i \notin DOMAIN q /\ j \notin DOMAIN q
    <3>1. i - Len(q) = j - Len(q)  BY <1>4, <1>5, <1>8, <2>2 DEF IsInjective
    <3> QED  BY <1>1, <3>1
  <2>3. \A a, b \in DOMAIN (q \o r) :
          a \in DOMAIN q /\ b \notin DOMAIN q => (q \o r)[a] # (q \o r)[b]
    <3> SUFFICES ASSUME NEW a \in DOMAIN (q \o r), NEW b \in DOMAIN (q \o r),
                        a \in DOMAIN q, b \notin DOMAIN q
                 PROVE  (q \o r)[a] # (q \o r)[b]
      OBVIOUS
    <3>1. (q \o r)[a] \in Range(q)  BY <1>2 DEF Range
    <3>2. (q \o r)[b] \in Range(r)  BY <1>4, <1>5 DEF Range
    <3> QED  BY <3>1, <3>2
  <2> QED  BY <1>8, <2>1, <2>2, <2>3
<1> QED  BY <1>6, <1>7, <1>8 DEF IsInjective

\* A list without repetition is as long as it has entries.
LEMMA LenDistinct ==
  ASSUME NEW S, NEW q \in Seq(S), IsInjective(q)
  PROVE  Cardinality(Range(q)) = Len(q)
<1>1. Len(q) \in Nat /\ DOMAIN q = 1..Len(q)
  OBVIOUS
<1>2. q \in Bijection(1..Len(q), Range(q))
  <2>1. q \in [1..Len(q) -> Range(q)]  BY <1>1 DEF Range
  <2>2. \A x \in Range(q) : \E i \in 1..Len(q) : q[i] = x  BY <1>1 DEF Range
  <2> QED  BY <2>1, <2>2 DEF Bijection, Injection, Surjection
<1> QED  BY <1>1, <1>2, FS_CountingElements DEF ExistsBijection

===============================================================================
