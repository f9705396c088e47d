---------------------------- MODULE DistinctSeqs ----------------------------
(***************************************************************************)
(* Lemmas about sequences without duplicates: the free lists and queues of *)
(* the components hold each block or work item at most once, and these say *)
(* what the operations on them preserve.                                   *)
(***************************************************************************)
EXTENDS Integers, Sequences, Functions, SequenceTheorems, FiniteSetTheorems, TLAPS

(* Taking the head of a sequence without duplicates.                       *)
LEMMA TakeHead ==
  ASSUME NEW S, NEW s \in Seq(S), s # <<>>, IsInjective(s)
  PROVE  /\ Tail(s) \in Seq(S) /\ Head(s) \in S
         /\ IsInjective(Tail(s))
         /\ Range(s) = Range(Tail(s)) \cup {Head(s)}
         /\ Head(s) \notin Range(Tail(s))
<1>1. /\ Len(s) \in Nat \ {0} /\ DOMAIN s = 1..Len(s)
      /\ Tail(s) \in Seq(S) /\ Len(Tail(s)) = Len(s) - 1
      /\ DOMAIN Tail(s) = 1..(Len(s) - 1)
      /\ \A i \in 1..(Len(s) - 1) : Tail(s)[i] = s[i + 1]
      /\ Head(s) = s[1] /\ Head(s) \in S
  OBVIOUS
<1>2. IsInjective(Tail(s))
  <2> SUFFICES ASSUME NEW a \in 1..(Len(s) - 1), NEW b \in 1..(Len(s) - 1),
                      s[a + 1] = s[b + 1]
               PROVE  a = b
    BY <1>1 DEF IsInjective
  <2> QED BY <1>1 DEF IsInjective
<1>3. Head(s) \notin Range(Tail(s))
  <2> SUFFICES ASSUME NEW a \in 1..(Len(s) - 1), s[a + 1] = s[1]
               PROVE  FALSE
    BY <1>1 DEF Range
  <2> QED BY <1>1 DEF IsInjective
<1>4. Range(s) = Range(Tail(s)) \cup {Head(s)}
  <2>1. ASSUME NEW i \in 1..Len(s) PROVE s[i] \in Range(Tail(s)) \cup {Head(s)}
    <3>1. CASE i = 1 BY <1>1, <3>1
    <3>2. CASE i # 1
      <4>1. i - 1 \in 1..(Len(s) - 1) /\ s[i] = Tail(s)[i - 1] BY <1>1, <3>2
      <4> QED BY <1>1, <4>1 DEF Range
    <3> QED BY <3>1, <3>2
  <2>2. ASSUME NEW i \in 1..(Len(s) - 1) PROVE Tail(s)[i] \in Range(s)
    <3>1. i + 1 \in DOMAIN s /\ Tail(s)[i] = s[i + 1] BY <1>1
    <3> QED BY <3>1 DEF Range
  <2>3. Head(s) \in Range(s) BY <1>1 DEF Range
  <2> QED BY <1>1, <2>1, <2>2, <2>3 DEF Range
<1> QED BY <1>1, <1>2, <1>3, <1>4

(* Appending an element the sequence does not have.                        *)
LEMMA AppendNew ==
  ASSUME NEW S, NEW s \in Seq(S), NEW e \in S, IsInjective(s), e \notin Range(s)
  PROVE  /\ Append(s, e) \in Seq(S)
         /\ IsInjective(Append(s, e))
         /\ Range(Append(s, e)) = Range(s) \cup {e}
<1> DEFINE t == Append(s, e)
<1>1. /\ Len(s) \in Nat /\ DOMAIN s = 1..Len(s)
      /\ t \in Seq(S) /\ DOMAIN t = 1..(Len(s) + 1)
      /\ \A i \in 1..Len(s) : t[i] = s[i]
      /\ t[Len(s) + 1] = e
  OBVIOUS
<1>2. \A i \in 1..Len(s) : s[i] # e BY <1>1 DEF Range
<1>3. IsInjective(t)
  <2> SUFFICES ASSUME NEW a \in 1..(Len(s) + 1), NEW b \in 1..(Len(s) + 1),
                      t[a] = t[b]
               PROVE  a = b
    BY <1>1 DEF IsInjective
  <2>1. CASE a = Len(s) + 1 \/ b = Len(s) + 1 BY <1>1, <1>2, <2>1
  <2>2. CASE a \in 1..Len(s) /\ b \in 1..Len(s)
    BY <1>1, <2>2 DEF IsInjective
  <2> QED BY <1>1, <2>1, <2>2
<1>4. Range(t) = Range(s) \cup {e}
  <2>1. \A i \in DOMAIN t : t[i] \in Range(s) \cup {e}
    <3> SUFFICES ASSUME NEW i \in 1..(Len(s) + 1)
                 PROVE  t[i] \in Range(s) \cup {e}
      BY <1>1
    <3>1. CASE i = Len(s) + 1 BY <1>1, <3>1
    <3>2. CASE i \in 1..Len(s) BY <1>1, <3>2 DEF Range
    <3> QED BY <1>1, <3>1, <3>2
  <2>2. \A i \in DOMAIN s : s[i] \in Range(t)
    <3> SUFFICES ASSUME NEW i \in 1..Len(s) PROVE s[i] \in Range(t)
      BY <1>1
    <3>1. i \in DOMAIN t /\ t[i] = s[i] BY <1>1
    <3> QED BY <3>1 DEF Range
  <2>3. e \in Range(t)
    <3>1. Len(s) + 1 \in DOMAIN t BY <1>1
    <3> QED BY <1>1, <3>1 DEF Range
  <2> QED BY <2>1, <2>2, <2>3 DEF Range
<1> QED BY <1>1, <1>3, <1>4

(* Putting an element the sequence does not have before it.                *)
LEMMA PushNew ==
  ASSUME NEW S, NEW s \in Seq(S), NEW e \in S, IsInjective(s), e \notin Range(s)
  PROVE  /\ <<e>> \o s \in Seq(S)
         /\ IsInjective(<<e>> \o s)
         /\ Range(<<e>> \o s) = Range(s) \cup {e}
<1> DEFINE t == <<e>> \o s
<1>1. /\ Len(s) \in Nat /\ DOMAIN s = 1..Len(s)
      /\ t \in Seq(S) /\ DOMAIN t = 1..(Len(s) + 1)
      /\ \A i \in 2..(Len(s) + 1) : t[i] = s[i - 1]
      /\ t[1] = e
  OBVIOUS
<1>2. \A i \in 1..Len(s) : s[i] # e BY <1>1 DEF Range
<1>3. IsInjective(t)
  <2> SUFFICES ASSUME NEW a \in 1..(Len(s) + 1), NEW b \in 1..(Len(s) + 1),
                      t[a] = t[b]
               PROVE  a = b
    BY <1>1 DEF IsInjective
  <2>1. CASE a = 1 \/ b = 1
    <3>1. \A i \in 2..(Len(s) + 1) : t[i] # e BY <1>1, <1>2
    <3> QED BY <1>1, <2>1, <3>1
  <2>2. CASE a \in 2..(Len(s) + 1) /\ b \in 2..(Len(s) + 1)
    <3>1. /\ a - 1 \in 1..Len(s) /\ b - 1 \in 1..Len(s)
          /\ s[a - 1] = s[b - 1]
      BY <1>1, <2>2
    <3> QED BY <1>1, <3>1 DEF IsInjective
  <2> QED BY <1>1, <2>1, <2>2
<1>4. Range(t) = Range(s) \cup {e}
  <2>1. \A i \in DOMAIN t : t[i] \in Range(s) \cup {e}
    <3> SUFFICES ASSUME NEW i \in 1..(Len(s) + 1)
                 PROVE  t[i] \in Range(s) \cup {e}
      BY <1>1
    <3>1. CASE i = 1 BY <1>1, <3>1
    <3>2. CASE i \in 2..(Len(s) + 1)
      <4>1. i - 1 \in DOMAIN s /\ t[i] = s[i - 1] BY <1>1, <3>2
      <4> QED BY <4>1 DEF Range
    <3> QED BY <1>1, <3>1, <3>2
  <2>2. \A i \in DOMAIN s : s[i] \in Range(t)
    <3> SUFFICES ASSUME NEW i \in 1..Len(s) PROVE s[i] \in Range(t)
      BY <1>1
    <3>1. i + 1 \in DOMAIN t /\ t[i + 1] = s[i] BY <1>1
    <3> QED BY <3>1 DEF Range
  <2>3. e \in Range(t) BY <1>1 DEF Range
  <2> QED BY <2>1, <2>2, <2>3 DEF Range
<1> QED BY <1>1, <1>3, <1>4

(* Taking an element out of a sequence without duplicates.                 *)
LEMMA RemoveOne ==
  ASSUME NEW S, NEW s \in Seq(S), NEW i \in 1..Len(s), IsInjective(s)
  PROVE  LET t == SubSeq(s, 1, i - 1) \o SubSeq(s, i + 1, Len(s))
         IN  /\ t \in Seq(S) /\ s[i] \in S
             /\ IsInjective(t)
             /\ Range(s) = Range(t) \cup {s[i]}
             /\ s[i] \notin Range(t)
<1> DEFINE a == SubSeq(s, 1, i - 1)
           b == SubSeq(s, i + 1, Len(s))
           t == a \o b
<1>1. /\ Len(s) \in Nat \ {0} /\ DOMAIN s = 1..Len(s) /\ s[i] \in S
      /\ i \in Nat
  OBVIOUS
<1>2. a \in Seq(S) /\ Len(a) = i - 1 /\ \A j \in 1..(i - 1) : a[j] = s[j]
  <2>1. 1 \in Int /\ i - 1 \in Int /\ \A j \in 1..(i - 1) : s[j] \in S BY <1>1
  <2>2. /\ a \in Seq(S) /\ Len(a) = IF 1 <= i - 1 THEN i - 1 - 1 + 1 ELSE 0
        /\ \A j \in 1..(i - 1 - 1 + 1) : a[j] = s[1 + j - 1]
    BY <2>1, SubSeqProperties
  <2> HIDE DEF a
  <2>3. ASSUME NEW j \in 1..(i - 1) PROVE a[j] = s[j]
    <3>1. j \in 1..(i - 1 - 1 + 1) /\ 1 + j - 1 = j BY <1>1
    <3>2. a[j] = s[1 + j - 1] BY <2>2, <3>1
    <3> QED BY <3>1, <3>2
  <2> QED BY <1>1, <2>2, <2>3
<1>3. b \in Seq(S) /\ Len(b) = Len(s) - i /\ \A j \in 1..(Len(s) - i) : b[j] = s[i + j]
  <2>1. i + 1 \in Int /\ Len(s) \in Int /\ \A j \in (i + 1)..Len(s) : s[j] \in S BY <1>1
  <2>2. /\ b \in Seq(S)
        /\ Len(b) = IF i + 1 <= Len(s) THEN Len(s) - (i + 1) + 1 ELSE 0
        /\ \A j \in 1..(Len(s) - (i + 1) + 1) : b[j] = s[i + 1 + j - 1]
    BY <2>1, SubSeqProperties
  <2> HIDE DEF b
  <2>3. ASSUME NEW j \in 1..(Len(s) - i) PROVE b[j] = s[i + j]
    <3>1. j \in 1..(Len(s) - (i + 1) + 1) /\ i + 1 + j - 1 = i + j BY <1>1
    <3>2. b[j] = s[i + 1 + j - 1] BY <2>2, <3>1
    <3> QED BY <3>1, <3>2
  <2>4. Len(b) = Len(s) - i
    <3>1. Len(b) = IF i + 1 <= Len(s) THEN Len(s) - (i + 1) + 1 ELSE 0 BY <2>2
    <3>2. i \in Int /\ Len(s) \in Int /\ 1 <= i /\ i <= Len(s) BY <1>1
    <3> QED BY <3>1, <3>2
  <2> QED BY <2>2, <2>3, <2>4
<1> HIDE DEF a, b
<1>4. /\ t \in Seq(S) /\ Len(t) = Len(s) - 1 /\ DOMAIN t = 1..(Len(s) - 1)
      /\ \A j \in 1..(Len(s) - 1) : t[j] = IF j < i THEN s[j] ELSE s[j + 1]
  <2>1. /\ t \in Seq(S) /\ Len(t) = Len(a) + Len(b)
        /\ \A j \in 1..(Len(a) + Len(b)) :
             t[j] = IF j <= Len(a) THEN a[j] ELSE b[j - Len(a)]
    BY <1>2, <1>3, ConcatProperties
  <2> HIDE DEF t
  <2>2. /\ Len(t) = Len(s) - 1 /\ DOMAIN t = 1..(Len(s) - 1)
        /\ \A j \in 1..(Len(s) - 1) :
             t[j] = IF j <= i - 1 THEN a[j] ELSE b[j - (i - 1)]
    BY <1>1, <1>2, <1>3, <2>1
  <2>3. ASSUME NEW j \in 1..(Len(s) - 1) PROVE t[j] = IF j < i THEN s[j] ELSE s[j + 1]
    <3>1. CASE j < i BY <1>1, <1>2, <2>2, <3>1
    <3>2. CASE j >= i
      <4>1. j - (i - 1) \in 1..(Len(s) - i) /\ i + (j - (i - 1)) = j + 1 BY <1>1, <3>2
      <4>2. b[j - (i - 1)] = s[i + (j - (i - 1))] BY <1>3, <4>1
      <4> QED BY <1>1, <2>2, <3>2, <4>1, <4>2
    <3> QED BY <1>1, <3>1, <3>2
  <2> QED BY <2>1, <2>2, <2>3
<1> HIDE DEF t
<1>5. IsInjective(t)
  <2> SUFFICES ASSUME NEW j \in 1..(Len(s) - 1), NEW k \in 1..(Len(s) - 1),
                      t[j] = t[k]
               PROVE  j = k
    BY <1>4 DEF IsInjective
  <2> DEFINE At(n) == IF n < i THEN n ELSE n + 1
  <2>1. \A n \in 1..(Len(s) - 1) : At(n) \in 1..Len(s) /\ t[n] = s[At(n)] BY <1>1, <1>4
  <2>2. At(j) = At(k)
    <3> HIDE DEF At
    <3> QED BY <1>1, <2>1 DEF IsInjective
  <2> QED BY <1>1, <2>2
<1>6. s[i] \notin Range(t)
  <2> SUFFICES ASSUME NEW j \in 1..(Len(s) - 1), t[j] = s[i]
               PROVE  FALSE
    BY <1>4 DEF Range
  <2>1. CASE j < i
    <3>1. j \in 1..Len(s) /\ s[j] = s[i] BY <1>1, <1>4, <2>1
    <3> QED BY <1>1, <2>1, <3>1 DEF IsInjective
  <2>2. CASE j >= i
    <3>1. j + 1 \in 1..Len(s) /\ s[j + 1] = s[i] BY <1>1, <1>4, <2>2
    <3> QED BY <1>1, <2>2, <3>1 DEF IsInjective
  <2> QED BY <1>1, <2>1, <2>2
<1>7. Range(s) = Range(t) \cup {s[i]}
  <2>1. ASSUME NEW j \in 1..Len(s) PROVE s[j] \in Range(t) \cup {s[i]}
    <3>1. CASE j = i BY <3>1
    <3>2. CASE j < i
      <4>1. j \in DOMAIN t /\ t[j] = s[j] BY <1>1, <1>4, <3>2
      <4> QED BY <4>1 DEF Range
    <3>3. CASE j > i
      <4>1. j - 1 \in DOMAIN t /\ t[j - 1] = s[j] BY <1>1, <1>4, <3>3
      <4> QED BY <4>1 DEF Range
    <3> QED BY <1>1, <3>1, <3>2, <3>3
  <2>2. ASSUME NEW j \in 1..(Len(s) - 1) PROVE t[j] \in Range(s)
    <3>1. /\ j \in DOMAIN s /\ j + 1 \in DOMAIN s
          /\ t[j] = s[j] \/ t[j] = s[j + 1]
      BY <1>1, <1>4
    <3> QED BY <3>1 DEF Range
  <2>3. s[i] \in Range(s) BY <1>1 DEF Range
  <2> QED BY <1>1, <1>4, <2>1, <2>2, <2>3 DEF Range
<1> QED BY <1>1, <1>4, <1>5, <1>6, <1>7 DEF t, a, b

(* A sequence of distinct numbers of 1..n that misses one is shorter than n. *)
LEMMA PigeonHole ==
  ASSUME NEW n \in Nat, NEW s \in Seq(1..n), IsInjective(s),
         NEW x \in 1..n, x \notin Range(s)
  PROVE  Len(s) < n
<1>1. IsFiniteSet(1..n) /\ Cardinality(1..n) = n
  <2>1. 1 \in Int /\ n \in Int OBVIOUS
  <2>2. /\ IsFiniteSet(1..n)
        /\ Cardinality(1..n) = IF 1 > n THEN 0 ELSE n - 1 + 1
    BY <2>1, FS_Interval
  <2> QED BY <2>2
<1>2. /\ IsFiniteSet((1..n) \ {x})
      /\ Cardinality((1..n) \ {x}) = n - 1
  BY <1>1, FS_RemoveElement
<1>3. Len(s) \in Nat /\ DOMAIN s = 1..Len(s) OBVIOUS
<1>4. s \in [1..Len(s) -> (1..n) \ {x}]
  BY <1>3 DEF Range
<1>5. s \in Injection(1..Len(s), (1..n) \ {x})
  BY <1>4 DEF Injection
<1>6. Cardinality(1..Len(s)) <= n - 1
  BY <1>2, <1>5, FS_Injection
<1>7. Cardinality(1..Len(s)) = Len(s)
  <2>1. 1 \in Int /\ Len(s) \in Int BY <1>3
  <2>2. Cardinality(1..Len(s)) = IF 1 > Len(s) THEN 0 ELSE Len(s) - 1 + 1
    BY <2>1, FS_Interval
  <2> QED BY <1>3, <2>2
<1> QED BY <1>3, <1>6, <1>7

=============================================================================
