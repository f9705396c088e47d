--------------------------- MODULE TimerWheelProofs ---------------------------
(***************************************************************************)
(* The timer wheel for any number of timers, spokes and ticks: the lists   *)
(* stay what OSTmr_Link and OSTmr_Unlink take them for (WheelConsistent),  *)
(* and each timer goes off at its tick (the safety of TimerService).       *)
(***************************************************************************)
EXTENDS TimerWheel, DistinctSeqs

(* A spoke of the timers T: one chain of the timers of its history, linked  *)
(* both ways and counted, exactly the running ones that fall due in it.    *)
Running(T, s) == {t \in Timers : T[t].state = "RUNNING" /\ Spoke(T[t].match) = s}

Next1(q, i) == IF i = Len(q) THEN NULL ELSE q[i + 1]
Prev1(q, i) == IF i = 1 THEN NULL ELSE q[i - 1]

SpokeLinked(T, F, N, s, q) ==
  /\ q \in Seq(Timers) /\ IsInjective(q) /\ Range(q) = Running(T, s)
  /\ N[s] = Len(q)
  /\ F[s] = IF q = <<>> THEN NULL ELSE q[1]
  /\ \A i \in 1..Len(q) :
       T[q[i]].next = Next1(q, i) /\ T[q[i]].prev = Prev1(q, i)

Tmr == [state : States, opt : Opts \cup {"NONE"}, dly : Delays \cup {0},
        match : 0..(TIME_MOD - 1), next : Pointers, prev : Pointers]

WellLinked(T, F, N, P) ==
  /\ T \in [Timers -> Tmr]
  /\ F \in [Spokes -> Pointers] /\ N \in [Spokes -> Nat]
  /\ P \in [Spokes -> Seq(Timers)]
  /\ \A s \in Spokes : SpokeLinked(T, F, N, s, P[s])

(* The free list: the timers not in use, each once.                        *)
FreeLinked ==
  /\ OSTmrFreeList \in Pointers /\ unused \in Seq(Timers) /\ IsInjective(unused)
  /\ Range(unused) = {t \in Timers : ~InUse(t)}
  /\ OSTmrFreeList = IF unused = <<>> THEN NULL ELSE unused[1]
  /\ \A i \in 1..Len(unused) : tmr[unused[i]].next = Next1(unused, i)

(* A caller inside mod_timer has a timer nobody frees.                     *)
CallersHold ==
  \A c \in Callers : caller[c].pc # "idle" =>
    /\ caller[c].tmr \in Timers /\ InUse(caller[c].tmr)
    /\ caller[c].dly \in Delays

(* No timer is past due: outside the walk none is due, in the walk those   *)
(* that are due are not yet passed.                                        *)
Due(t) == tmr[t].state = "RUNNING" /\ tmr[t].match = OSTmrTime

Walk ==
  IF walking
  THEN \E k \in 1..(Len(spokes[Spoke(OSTmrTime)]) + 1) :
         /\ ptmr = IF k = Len(spokes[Spoke(OSTmrTime)]) + 1 THEN NULL
                   ELSE spokes[Spoke(OSTmrTime)][k]
         /\ \A i \in 1..(k - 1) : ~Due(spokes[Spoke(OSTmrTime)][i])
  ELSE \A t \in Timers : ~Due(t)

Linked == WellLinked(tmr, first, entries, spokes) /\ FreeLinked

LEMMA Sizes ==
  /\ WHEEL \in Nat \ {0} /\ TIME_MOD \in Nat \ {0} /\ TIMER_MAX \in Nat \ {0}
  /\ Delays \subseteq 1..(TIME_MOD - 1) /\ Delays \subseteq Nat
BY WheelAssumption, UseAssumption

LEMMA ClockRange ==
  ASSUME NEW m \in Nat
  PROVE  m % TIME_MOD \in 0..(TIME_MOD - 1) /\ Spoke(m) \in Spokes
<1>1. \A k \in Nat, n \in Nat \ {0} : k % n \in 0..(n - 1) OBVIOUS
<1> QED BY <1>1, Sizes DEF Spoke, Spokes

(* The assignments to the fields of a timer.                               *)
LEMMA FieldTypes ==
  ASSUME NEW r \in Tmr, NEW p \in Pointers, NEW st \in States,
         NEW d \in Delays \cup {0}, NEW m \in 0..(TIME_MOD - 1),
         NEW o \in Opts \cup {"NONE"}
  PROVE  /\ [r EXCEPT !.next = p] \in Tmr /\ [r EXCEPT !.prev = p] \in Tmr
         /\ [r EXCEPT !.state = st] \in Tmr /\ [r EXCEPT !.dly = d] \in Tmr
         /\ [r EXCEPT !.match = m] \in Tmr /\ [r EXCEPT !.opt = o] \in Tmr
BY DEF Tmr

(* The history of a spoke without one of its timers.                       *)
LEMMA WithoutOne ==
  ASSUME NEW S, NEW q \in Seq(S), IsInjective(q), NEW k \in 1..Len(q)
  PROVE  LET r == Without(q, q[k])
         IN  /\ r \in Seq(S) /\ Len(r) = Len(q) - 1 /\ IsInjective(r)
             /\ \A i \in 1..(Len(q) - 1) : r[i] = IF i < k THEN q[i] ELSE q[i + 1]
             /\ Range(r) = Range(q) \ {q[k]}
<1> DEFINE r == Without(q, q[k])
<1>1. /\ Len(q) \in Nat \ {0} /\ DOMAIN q = 1..Len(q) /\ k \in Nat
      /\ \A i \in 1..Len(q) : q[i] \in S
      /\ \A i, j \in 1..Len(q) : q[i] = q[j] => i = j
  BY DEF IsInjective
<1>2. (CHOOSE i \in DOMAIN q : q[i] = q[k]) = k BY <1>1
<1>3. r = [i \in 1..(Len(q) - 1) |-> IF i < k THEN q[i] ELSE q[i + 1]]
  BY <1>2 DEF Without
<1>4. \A i \in 1..(Len(q) - 1) :
        /\ i \in 1..Len(q) /\ i + 1 \in 1..Len(q)
        /\ r[i] = IF i < k THEN q[i] ELSE q[i + 1]
  BY <1>1, <1>3
<1>5. r \in Seq(S) /\ Len(r) = Len(q) - 1 /\ DOMAIN r = 1..(Len(q) - 1)
  <2>1. Len(q) - 1 \in Nat /\ \A i \in 1..(Len(q) - 1) : r[i] \in S
    BY <1>1, <1>4
  <2>2. r \in Seq(S) /\ DOMAIN r = 1..(Len(q) - 1) BY <1>3, <2>1
  <2> HIDE DEF r
  <2> QED BY <2>1, <2>2
<1> HIDE DEF r
<1>6. IsInjective(r)
  <2> SUFFICES ASSUME NEW i \in 1..(Len(q) - 1), NEW j \in 1..(Len(q) - 1),
                      r[i] = r[j]
               PROVE  i = j
    BY <1>5 DEF IsInjective
  <2>1. CASE i < k /\ j < k BY <1>1, <1>4, <2>1
  <2>2. CASE i < k /\ ~(j < k) BY <1>1, <1>4, <2>2
  <2>3. CASE ~(i < k) /\ j < k BY <1>1, <1>4, <2>3
  <2>4. CASE ~(i < k) /\ ~(j < k) BY <1>1, <1>4, <2>4
  <2> QED BY <2>1, <2>2, <2>3, <2>4
<1>7. Range(r) = Range(q) \ {q[k]}
  <2>1. ASSUME NEW x \in Range(r) PROVE x \in Range(q) \ {q[k]}
    <3>1. PICK i \in 1..(Len(q) - 1) : x = r[i] BY <1>5 DEF Range
    <3>2. PICK j \in 1..Len(q) : x = q[j] /\ j # k
      <4>1. CASE i < k BY <1>4, <3>1, <4>1
      <4>2. CASE ~(i < k) BY <1>1, <1>4, <3>1, <4>2
      <4> QED BY <4>1, <4>2
    <3> QED BY <1>1, <3>2 DEF Range
  <2>2. ASSUME NEW x \in Range(q) \ {q[k]} PROVE x \in Range(r)
    <3>1. PICK i \in 1..Len(q) : x = q[i] BY <1>1 DEF Range
    <3>2. CASE i < k
      <4>1. i \in 1..(Len(q) - 1) /\ r[i] = x BY <1>1, <1>4, <3>1, <3>2
      <4> QED BY <1>5, <4>1 DEF Range
    <3>3. CASE i > k
      <4>1. i - 1 \in 1..(Len(q) - 1) /\ r[i - 1] = x BY <1>1, <1>4, <3>1, <3>3
      <4> QED BY <1>5, <4>1 DEF Range
    <3>4. i # k BY <3>1
    <3> QED BY <1>1, <3>2, <3>3, <3>4
  <2> QED BY <2>1, <2>2
<1> QED BY <1>4, <1>5, <1>6, <1>7 DEF r

-----------------------------------------------------------------------------
(* OSTmr_Link and OSTmr_Unlink, on any well linked lists.                  *)

(* A spoke's timers, by their place in its history.                        *)
LEMMA Places ==
  ASSUME NEW T, NEW F, NEW N, NEW P, WellLinked(T, F, N, P), NEW s \in Spokes
  PROVE  LET q == P[s]
         IN  /\ q \in Seq(Timers) /\ Len(q) \in Nat /\ DOMAIN q = 1..Len(q)
             /\ \A i \in 1..Len(q) : q[i] \in Running(T, s)
             /\ \A i, j \in 1..Len(q) : q[i] = q[j] => i = j
             /\ \A x \in Running(T, s) : \E i \in 1..Len(q) : q[i] = x
             /\ \A i \in 1..Len(q) :
                  T[q[i]].next = Next1(q, i) /\ T[q[i]].prev = Prev1(q, i)
             /\ N[s] = Len(q) /\ Range(q) = Running(T, s)
             /\ F[s] = IF q = <<>> THEN NULL ELSE q[1]
<1> DEFINE q == P[s]
<1>1. SpokeLinked(T, F, N, s, q) BY DEF WellLinked
<1> HIDE DEF q
<1>2. /\ q \in Seq(Timers) /\ Len(q) \in Nat /\ DOMAIN q = 1..Len(q)
      /\ Range(q) = Running(T, s)
  BY <1>1 DEF SpokeLinked
<1>3. /\ \A i \in 1..Len(q) : q[i] \in Running(T, s)
      /\ \A x \in Running(T, s) : \E i \in 1..Len(q) : q[i] = x
      /\ \A i, j \in 1..Len(q) : q[i] = q[j] => i = j
  BY <1>1, <1>2 DEF Range, IsInjective, SpokeLinked
<1> QED BY <1>1, <1>2, <1>3 DEF SpokeLinked, q

(* A spoke whose timers and head a change leaves alone is still a spoke.   *)
LEMMA OtherSpoke ==
  ASSUME NEW T, NEW F, NEW N, NEW P, WellLinked(T, F, N, P),
         NEW T2, NEW F2, NEW N2, NEW s \in Spokes,
         Running(T2, s) = Running(T, s),
         \A x \in Running(T, s) : T2[x].next = T[x].next
                                  /\ T2[x].prev = T[x].prev,
         F2[s] = F[s], N2[s] = N[s]
  PROVE  SpokeLinked(T2, F2, N2, s, P[s])
<1> DEFINE q == P[s]
<1>1. SpokeLinked(T, F, N, s, q) BY DEF WellLinked
<1>2. \A i \in 1..Len(q) : q[i] \in Running(T, s) BY Places
<1> QED BY <1>1, <1>2 DEF SpokeLinked

(* What of a timer neither linking nor unlinking another one changes.      *)
Same(T2, T, x) ==
  /\ T2[x].state = T[x].state /\ T2[x].match = T[x].match
  /\ T2[x].dly = T[x].dly /\ T2[x].opt = T[x].opt

(* The four tables of the wheel after timer t is linked for match m.       *)
LinkedFor(T, F, N, P, t, m, T2, F2, N2, P2) ==
  LET s == Spoke(m)
      old == F[s]
  IN  /\ T2 = [x \in Timers |->
            IF x = t THEN [T[x] EXCEPT !.state = "RUNNING", !.match = m,
                                       !.next = old, !.prev = NULL]
            ELSE IF x = old THEN [T[x] EXCEPT !.prev = t]
            ELSE T[x]]
      /\ F2 = [F EXCEPT ![s] = t]
      /\ N2 = [N EXCEPT ![s] = IF old = NULL THEN 1 ELSE @ + 1]
      /\ P2 = [P EXCEPT ![s] = <<t>> \o @]

Matches == 0..(TIME_MOD - 1)

(* What linking timer t leaves: it runs, and the others are as they were.  *)
NowRuns(T, t, m, T2, F2, N2, P2) ==
  /\ WellLinked(T2, F2, N2, P2)
  /\ T2[t].state = "RUNNING" /\ T2[t].match = m
  /\ T2[t].dly = T[t].dly /\ T2[t].opt = T[t].opt
  /\ \A x \in Timers \ {t} :
       Same(T2, T, x) /\ (T[x].state # "RUNNING" => T2[x] = T[x])

LEMMA LinkKeeps ==
  ASSUME NEW T, NEW F, NEW N, NEW P, WellLinked(T, F, N, P),
         NEW t \in Timers, T[t].state # "RUNNING", NEW m \in Matches,
         NEW T2, NEW F2, NEW N2, NEW P2,
         LinkedFor(T, F, N, P, t, m, T2, F2, N2, P2)
  PROVE  NowRuns(T, t, m, T2, F2, N2, P2)
<1> DEFINE s == Spoke(m)
           q == P[s]
           old == F[s]
           p == <<t>> \o q
<1>1. /\ T2 = [x \in Timers |->
           IF x = t THEN [T[x] EXCEPT !.state = "RUNNING", !.match = m,
                                      !.next = old, !.prev = NULL]
           ELSE IF x = old THEN [T[x] EXCEPT !.prev = t]
           ELSE T[x]]
      /\ F2 = [F EXCEPT ![s] = t]
      /\ N2 = [N EXCEPT ![s] = IF old = NULL THEN 1 ELSE N[s] + 1]
      /\ P2 = [P EXCEPT ![s] = p]
  BY DEF LinkedFor
<1>2. /\ T \in [Timers -> Tmr] /\ F \in [Spokes -> Pointers]
      /\ N \in [Spokes -> Nat] /\ P \in [Spokes -> Seq(Timers)]
  BY DEF WellLinked
<1>3. s \in Spokes
  <2>1. m \in Nat BY Sizes DEF Matches
  <2> QED BY <2>1, ClockRange
<1>4. /\ q \in Seq(Timers) /\ Len(q) \in Nat /\ DOMAIN q = 1..Len(q)
      /\ \A i \in 1..Len(q) : q[i] \in Running(T, s)
      /\ \A i, j \in 1..Len(q) : q[i] = q[j] => i = j
      /\ \A i \in 1..Len(q) :
           T[q[i]].next = Next1(q, i) /\ T[q[i]].prev = Prev1(q, i)
      /\ N[s] = Len(q) /\ Range(q) = Running(T, s)
      /\ old = IF q = <<>> THEN NULL ELSE q[1]
  BY <1>3, Places
<1>5. \A i \in 1..Len(q) : q[i] \in Timers /\ q[i] # t /\ q[i] # NULL
  BY <1>4 DEF Running, Timers, NULL
<1>6. /\ old = IF Len(q) = 0 THEN NULL ELSE q[1]
      /\ old = NULL <=> Len(q) = 0
  <2>1. q = <<>> <=> Len(q) = 0 BY <1>4
  <2>2. Len(q) # 0 => 1 \in 1..Len(q) BY <1>4
  <2> QED BY <1>4, <1>5, <2>1, <2>2
<1>7. /\ p \in Seq(Timers) /\ Len(p) = Len(q) + 1 /\ p[1] = t
      /\ \A i \in 2..(Len(q) + 1) : p[i] = q[i - 1]
  BY <1>4
<1>8. IsInjective(p) /\ Range(p) = Range(q) \cup {t}
  <2>1. IsInjective(q) BY <1>3 DEF WellLinked, SpokeLinked
  <2>2. t \notin Range(q) BY <1>4 DEF Running
  <2> QED BY <1>4, <2>1, <2>2, PushNew
<1> HIDE DEF p, q, old, s
<1>k. /\ F2 \in [Spokes -> Pointers] /\ F2[s] = t
      /\ \A z \in Spokes \ {s} : F2[z] = F[z]
  <2>1. t \in Pointers BY DEF Pointers
  <2> QED BY <1>1, <1>2, <1>3, <2>1
<1>l. /\ N2 \in [Spokes -> Nat]
      /\ N2[s] = IF old = NULL THEN 1 ELSE N[s] + 1
      /\ \A z \in Spokes \ {s} : N2[z] = N[z]
  <2> DEFINE n == IF old = NULL THEN 1 ELSE N[s] + 1
  <2>1. n \in Nat /\ N2 = [N EXCEPT ![s] = n]
    <3>1. N[s] \in Nat BY <1>2, <1>3
    <3>2. n \in Nat BY <3>1
    <3> QED BY <1>1, <3>2
  <2> HIDE DEF n
  <2>2. N2[s] = n BY <1>2, <1>3, <2>1
  <2>3. N2 \in [Spokes -> Nat] BY <1>2, <1>3, <2>1
  <2>4. \A z \in Spokes \ {s} : N2[z] = N[z]
    BY <1>2, <1>3, <2>1
  <2> QED BY <2>2, <2>3, <2>4 DEF n
<1>m. /\ P2 \in [Spokes -> Seq(Timers)] /\ P2[s] = p
      /\ \A z \in Spokes \ {s} : P2[z] = P[z]
  BY <1>1, <1>2, <1>3, <1>7
<1>t. T2 \in [Timers -> Tmr]
  <2> SUFFICES ASSUME NEW x \in Timers PROVE T2[x] \in Tmr
    BY <1>1
  <2>1. T[x] \in Tmr /\ old \in Pointers /\ t \in Pointers /\ NULL \in Pointers
    BY <1>2, <1>3 DEF Pointers, old
  <2>2. CASE x = t
    <3>1. T2[x] = [T[x] EXCEPT !.state = "RUNNING", !.match = m,
                                     !.next = old, !.prev = NULL]
      BY <1>1, <2>2
    <3> QED BY <1>3, <2>1, <3>1 DEF Tmr, States, Matches
  <2>3. CASE x # t /\ x = old
    <3>1. T2[x] = [T[x] EXCEPT !.prev = t] BY <1>1, <2>3
    <3> QED BY <2>1, <3>1, FieldTypes DEF Tmr
  <2>4. CASE x # t /\ x # old BY <1>1, <2>1, <2>4
  <2> QED BY <2>2, <2>3, <2>4
<1>e. /\ T[t] \in Tmr
      /\ T2[t] = [T[t] EXCEPT !.state = "RUNNING", !.match = m,
                                     !.next = old, !.prev = NULL]
  BY <1>1, <1>2
<1>f. /\ T2[t].state = "RUNNING" /\ T2[t].match = m
      /\ T2[t].next = old /\ T2[t].prev = NULL
      /\ T2[t].dly = T[t].dly /\ T2[t].opt = T[t].opt
  BY <1>e DEF Tmr
<1>g. \A x \in Timers \ {t} :
        /\ Same(T2, T, x) /\ T2[x].next = T[x].next
        /\ T2[x].prev = IF x = old THEN t ELSE T[x].prev
        /\ x # old => T2[x] = T[x]
  BY <1>1, <1>2 DEF Tmr, Same
<1>h. old # NULL => old \in Running(T, s)
  BY <1>4, <1>6
<1>9. /\ Running(T2, s) = Running(T, s) \cup {t}
      /\ \A z \in Spokes \ {s} : Running(T2, z) = Running(T, z)
  BY <1>f, <1>g DEF Running, Same, s
<1>10. SpokeLinked(T2, F2, N2, s, p)
  <2>1. N2[s] = Len(p)
    BY <1>4, <1>6, <1>7, <1>l
  <2>2. F2[s] = p[1] /\ p # <<>> BY <1>4, <1>7, <1>k
  <2>3. ASSUME NEW i \in 1..Len(p)
        PROVE  T2[p[i]].next = Next1(p, i) /\ T2[p[i]].prev = Prev1(p, i)
    <3>1. CASE i = 1
      <4>1. Next1(p, 1) = old /\ Prev1(p, 1) = NULL
        <5>1. Len(q) # 0 => p[2] = q[1] BY <1>4, <1>7
        <5>2. 1 = Len(p) <=> Len(q) = 0 BY <1>4, <1>7
        <5> QED BY <1>6, <5>1, <5>2 DEF Next1, Prev1
      <4> QED BY <1>f, <1>7, <3>1, <4>1
    <3>2. CASE i # 1
      <4> DEFINE j == i - 1
      <4>1. j \in 1..Len(q) /\ p[i] = q[j] /\ i = j + 1
        BY <1>4, <1>7, <3>2
      <4>2. Next1(p, i) = Next1(q, j)
        <5>1. i # Len(p) => p[i + 1] = q[j + 1] BY <1>4, <1>7, <4>1
        <5>2. i = Len(p) <=> j = Len(q) BY <1>4, <1>7, <4>1
        <5> HIDE DEF j
        <5> QED BY <5>1, <5>2 DEF Next1
      <4>3. Prev1(p, i) = IF j = 1 THEN t ELSE q[j - 1]
        BY <1>4, <1>7, <3>2, <4>1 DEF Prev1
      <4>4. q[j] = old <=> j = 1
        BY <1>4, <4>1
      <4> HIDE DEF j
      <4>5. T2[q[j]].next = Next1(q, j)
        BY <1>4, <1>5, <1>g, <4>1
      <4>6. T2[q[j]].prev = IF j = 1 THEN t ELSE q[j - 1]
        BY <1>4, <1>5, <1>g, <4>1, <4>4 DEF Prev1
      <4> QED BY <4>1, <4>2, <4>3, <4>5, <4>6
    <3> QED BY <3>1, <3>2
  <2> QED BY <1>4, <1>7, <1>8, <1>9, <2>1, <2>2, <2>3 DEF SpokeLinked
<1>11. ASSUME NEW z \in Spokes \ {s} PROVE SpokeLinked(T2, F2, N2, z, P[z])
  <2>1. \A x \in Running(T, z) : x \in Timers \ {t} /\ x # old
    BY <1>6, <1>h, <1>5 DEF Running, Timers, NULL
  <2>2. F2[z] = F[z] /\ N2[z] = N[z]
    BY <1>k, <1>l
  <2>3. \A x \in Running(T, z) : T2[x].next = T[x].next /\ T2[x].prev = T[x].prev
    BY <1>g, <2>1
  <2> QED BY <1>9, <2>2, <2>3, OtherSpoke
<1>12. WellLinked(T2, F2, N2, P2)
  <2>1. \A z \in Spokes : SpokeLinked(T2, F2, N2, z, P2[z])
    BY <1>10, <1>11, <1>m
  <2> QED BY <1>t, <1>k, <1>l, <1>m, <2>1 DEF WellLinked
<1>13. \A x \in Timers \ {t} :
         T[x].state # "RUNNING" => T2[x] = T[x]
  BY <1>g, <1>h DEF Running, Timers, NULL
<1> QED BY <1>12, <1>13, <1>f, <1>g DEF NowRuns

(* And after timer t is unlinked.                                          *)
UnlinkedFrom(T, F, N, P, t, T2, F2, N2, P2) ==
  LET s == Spoke(T[t].match)
      next == T[t].next
      prev == T[t].prev
      head == F[s] = t
  IN  /\ T2 = [x \in Timers |->
            IF x = t THEN [T[x] EXCEPT !.state = "STOPPED", !.next = NULL,
                                       !.prev = NULL]
            ELSE IF x = next THEN [T[x] EXCEPT !.prev = IF head THEN NULL ELSE prev]
            ELSE IF x = prev /\ ~head THEN [T[x] EXCEPT !.next = next]
            ELSE T[x]]
      /\ F2 = IF head THEN [F EXCEPT ![s] = next] ELSE F
      /\ N2 = [N EXCEPT ![s] = @ - 1]
      /\ P2 = [P EXCEPT ![s] = Without(@, t)]

NowStopped(T, t, T2, F2, N2, P2) ==
  /\ WellLinked(T2, F2, N2, P2)
  /\ T2[t].state = "STOPPED" /\ T2[t].match = T[t].match
  /\ T2[t].dly = T[t].dly /\ T2[t].opt = T[t].opt
  /\ \A x \in Timers \ {t} :
       Same(T2, T, x) /\ (T[x].state # "RUNNING" => T2[x] = T[x])

LEMMA UnlinkKeeps ==
  ASSUME NEW T, NEW F, NEW N, NEW P, WellLinked(T, F, N, P),
         NEW t \in Timers, T[t].state = "RUNNING",
         NEW T2, NEW F2, NEW N2, NEW P2,
         UnlinkedFrom(T, F, N, P, t, T2, F2, N2, P2)
  PROVE  NowStopped(T, t, T2, F2, N2, P2)
<1> DEFINE s == Spoke(T[t].match)
           q == P[s]
           next == T[t].next
           prev == T[t].prev
           head == F[s] = t
           p == Without(q, t)
<1>1. /\ T2 = [x \in Timers |->
            IF x = t THEN [T[x] EXCEPT !.state = "STOPPED", !.next = NULL,
                                       !.prev = NULL]
            ELSE IF x = next THEN [T[x] EXCEPT !.prev = IF head THEN NULL ELSE prev]
            ELSE IF x = prev /\ ~head THEN [T[x] EXCEPT !.next = next]
            ELSE T[x]]
      /\ F2 = IF head THEN [F EXCEPT ![s] = next] ELSE F
      /\ N2 = [N EXCEPT ![s] = N[s] - 1]
      /\ P2 = [P EXCEPT ![s] = p]
  BY DEF UnlinkedFrom
<1>2. /\ T \in [Timers -> Tmr] /\ F \in [Spokes -> Pointers]
      /\ N \in [Spokes -> Nat] /\ P \in [Spokes -> Seq(Timers)]
  BY DEF WellLinked
<1>3. s \in Spokes
  <2>1. T[t] \in Tmr BY <1>2
  <2>2. T[t].match \in 0..(TIME_MOD - 1) BY <2>1 DEF Tmr
  <2>3. T[t].match \in Nat BY <2>2, Sizes
  <2> QED BY <2>3, ClockRange
<1>4. /\ q \in Seq(Timers) /\ Len(q) \in Nat /\ DOMAIN q = 1..Len(q)
      /\ \A i \in 1..Len(q) : q[i] \in Running(T, s)
      /\ \A i, j \in 1..Len(q) : q[i] = q[j] => i = j
      /\ \A x \in Running(T, s) : \E i \in 1..Len(q) : q[i] = x
      /\ \A i \in 1..Len(q) :
           T[q[i]].next = Next1(q, i) /\ T[q[i]].prev = Prev1(q, i)
      /\ N[s] = Len(q) /\ Range(q) = Running(T, s)
      /\ F[s] = IF q = <<>> THEN NULL ELSE q[1]
  BY <1>3, Places
<1>5. PICK k \in 1..Len(q) : q[k] = t
  <2>1. t \in Running(T, s) BY DEF Running
  <2> QED BY <1>4, <2>1
<1>6. /\ \A i \in 1..Len(q) : q[i] \in Timers /\ q[i] # NULL
      /\ next = Next1(q, k) /\ prev = Prev1(q, k) /\ (head <=> k = 1)
      /\ F[s] = q[1] /\ k \in Nat
  <2>1. q # <<>> /\ 1 \in 1..Len(q) BY <1>4, <1>5
  <2> QED BY <1>4, <1>5, <2>1 DEF Running, Timers, NULL
<1>7. /\ p \in Seq(Timers) /\ Len(p) = Len(q) - 1 /\ IsInjective(p)
      /\ \A i \in 1..(Len(q) - 1) : p[i] = IF i < k THEN q[i] ELSE q[i + 1]
      /\ Range(p) = Range(q) \ {t}
  <2>1. IsInjective(q) BY <1>3 DEF WellLinked, SpokeLinked
  <2>2. p = Without(q, q[k]) BY <1>5
  <2> HIDE DEF p, q
  <2>3. /\ p \in Seq(Timers) /\ Len(p) = Len(q) - 1 /\ IsInjective(p)
        /\ \A i \in 1..(Len(q) - 1) : p[i] = IF i < k THEN q[i] ELSE q[i + 1]
        /\ Range(p) = Range(q) \ {q[k]}
    <3>1. q \in Seq(Timers) /\ k \in 1..Len(q) BY <1>4, <1>5
    <3> QED BY <2>1, <2>2, <3>1, WithoutOne
  <2> QED BY <1>5, <2>3
<1>n. Len(q) \in Nat /\ k \in 1..Len(q) /\ Len(p) = Len(q) - 1
  BY <1>4, <1>5, <1>7
<1>o. /\ k # Len(q) => next = q[k + 1] /\ k + 1 \in 1..Len(q)
      /\ k = Len(q) => next = NULL
      /\ k # 1 => prev = q[k - 1] /\ k - 1 \in 1..Len(q)
  <2>1. k # Len(q) => k + 1 \in 1..Len(q) BY <1>n
  <2>2. k # 1 => k - 1 \in 1..Len(q) BY <1>n
  <2> HIDE DEF q, next, prev
  <2> QED BY <1>6, <2>1, <2>2 DEF Next1, Prev1
<1>p. /\ next = NULL \/ next \in Running(T, s)
      /\ head \/ prev \in Running(T, s)
  <2>1. \A i \in 1..Len(q) : q[i] \in Running(T, s) BY <1>4
  <2>2. head <=> k = 1 BY <1>6
  <2> HIDE DEF q, next, prev, head, s
  <2>3. CASE k = Len(q) /\ k = 1 BY <1>o, <2>2, <2>3
  <2>4. CASE k = Len(q) /\ k # 1 BY <1>o, <2>1, <2>4
  <2>5. CASE k # Len(q) /\ k = 1 BY <1>o, <2>1, <2>2, <2>5
  <2>6. CASE k # Len(q) /\ k # 1 BY <1>o, <2>1, <2>6
  <2> QED BY <2>3, <2>4, <2>5, <2>6
<1>f. /\ T2[t].state = "STOPPED" /\ T2[t].match = T[t].match
      /\ T2[t].dly = T[t].dly /\ T2[t].opt = T[t].opt
  <2>1. /\ T[t] \in Tmr
        /\ T2[t] = [T[t] EXCEPT !.state = "STOPPED", !.next = NULL, !.prev = NULL]
    BY <1>1, <1>2
  <2> QED BY <2>1 DEF Tmr
<1> HIDE DEF p, q, next, prev, head, s
<1>g. \A x \in Timers \ {t} :
        /\ Same(T2, T, x)
        /\ T2[x].next = IF x = prev /\ x # next /\ ~head THEN next ELSE T[x].next
        /\ T2[x].prev = IF x = next THEN (IF head THEN NULL ELSE prev) ELSE T[x].prev
        /\ x # next /\ x # prev => T2[x] = T[x]
  <2> SUFFICES ASSUME NEW x \in Timers \ {t}
               PROVE  /\ Same(T2, T, x)
                      /\ T2[x].next = IF x = prev /\ x # next /\ ~head THEN next
                                      ELSE T[x].next
                      /\ T2[x].prev = IF x = next THEN (IF head THEN NULL ELSE prev)
                                      ELSE T[x].prev
                      /\ x # next /\ x # prev => T2[x] = T[x]
    OBVIOUS
  <2>0. T[x] \in Tmr BY <1>2
  <2>1. CASE x = next
    <3>1. T2[x] = [T[x] EXCEPT !.prev = IF head THEN NULL ELSE prev]
      BY <1>1, <2>1
    <3> QED BY <2>0, <2>1, <3>1 DEF Tmr, Same
  <2>2. CASE x # next /\ x = prev /\ ~head
    <3>1. T2[x] = [T[x] EXCEPT !.next = next] BY <1>1, <2>2
    <3> QED BY <2>0, <2>2, <3>1 DEF Tmr, Same
  <2>3. CASE x # next /\ ~(x = prev /\ ~head)
    <3>1. T2[x] = T[x] BY <1>1, <2>3
    <3> QED BY <2>3, <3>1 DEF Same
  <2> QED BY <2>1, <2>2, <2>3
<1>t. T2 \in [Timers -> Tmr]
  <2> SUFFICES ASSUME NEW x \in Timers PROVE T2[x] \in Tmr
    BY <1>1
  <2>1. /\ T[x] \in Tmr /\ next \in Pointers /\ prev \in Pointers
        /\ NULL \in Pointers /\ "STOPPED" \in States
    <3>1. T[x] \in Tmr /\ T[t] \in Tmr BY <1>2
    <3> QED BY <3>1 DEF Tmr, Pointers, next, prev, States
  <2>2. CASE x = t
    <3>1. T2[x] = [T[x] EXCEPT !.state = "STOPPED", !.next = NULL, !.prev = NULL]
      BY <1>1, <2>2
    <3> QED BY <2>1, <3>1 DEF Tmr
  <2>3. CASE x # t /\ x = next
    <3>1. T2[x] = [T[x] EXCEPT !.prev = IF head THEN NULL ELSE prev]
      BY <1>1, <2>3
    <3>2. (IF head THEN NULL ELSE prev) \in Pointers BY <2>1
    <3> QED BY <2>1, <3>1, <3>2 DEF Tmr
  <2>4. CASE x # t /\ x # next /\ x = prev /\ ~head
    <3>1. T2[x] = [T[x] EXCEPT !.next = next] BY <1>1, <2>4
    <3> QED BY <2>1, <3>1 DEF Tmr
  <2>5. CASE x # t /\ x # next /\ ~(x = prev /\ ~head)
    <3>1. T2[x] = T[x] BY <1>1, <2>5
    <3> QED BY <2>1, <3>1
  <2> QED BY <2>2, <2>3, <2>4, <2>5
<1>h. \A j \in 1..Len(q) : j # k =>
        /\ T2[q[j]].next = IF j = k - 1 THEN Next1(q, k) ELSE Next1(q, j)
        /\ T2[q[j]].prev = IF j = k + 1 THEN Prev1(q, k) ELSE Prev1(q, j)
  <2> SUFFICES ASSUME NEW j \in 1..Len(q), j # k
               PROVE  /\ T2[q[j]].next = IF j = k - 1 THEN Next1(q, k) ELSE Next1(q, j)
                      /\ T2[q[j]].prev = IF j = k + 1 THEN Prev1(q, k) ELSE Prev1(q, j)
    OBVIOUS
  <2>1. q[j] \in Timers \ {t} BY <1>4, <1>5, <1>6
  <2>2. q[j] = next <=> j = k + 1
    <3>1. CASE k = Len(q) BY <1>6, <1>n, <1>o, <3>1
    <3>2. CASE k # Len(q)
      <4>1. next = q[k + 1] /\ k + 1 \in 1..Len(q) BY <1>o, <3>2
      <4> QED BY <1>4, <4>1
    <3> QED BY <3>1, <3>2
  <2>3. q[j] = prev /\ ~head <=> j = k - 1
    <3>1. CASE k = 1 BY <1>4, <1>6, <3>1
    <3>2. CASE k # 1
      <4>1. prev = q[k - 1] /\ k - 1 \in 1..Len(q) /\ ~head
        BY <1>4, <1>6, <3>2 DEF Prev1
      <4> QED BY <1>4, <4>1
    <3> QED BY <3>1, <3>2
  <2>4. T[q[j]].next = Next1(q, j) /\ T[q[j]].prev = Prev1(q, j) BY <1>4
  <2>5. (IF head THEN NULL ELSE prev) = Prev1(q, k)
    BY <1>6 DEF Prev1
  <2>6. ~(j = k + 1 /\ j = k - 1) BY <1>6
  <2> QED BY <1>6, <1>g, <2>1, <2>2, <2>3, <2>4, <2>5, <2>6
<1>k. /\ F2 \in [Spokes -> Pointers] /\ F2[s] = IF head THEN next ELSE F[s]
      /\ \A z \in Spokes \ {s} : F2[z] = F[z]
  <2>1. next \in Pointers
    <3>1. T[t] \in Tmr BY <1>2
    <3> QED BY <3>1 DEF Tmr, next
  <2> QED BY <1>1, <1>2, <1>3, <2>1
<1>l. /\ N2 \in [Spokes -> Nat] /\ N2[s] = Len(p)
      /\ \A z \in Spokes \ {s} : N2[z] = N[z]
  <2>1. N[s] - 1 = Len(p) /\ Len(p) \in Nat BY <1>4, <1>5, <1>7
  <2> QED BY <1>1, <1>2, <1>3, <2>1
<1>m. /\ P2 \in [Spokes -> Seq(Timers)] /\ P2[s] = p
      /\ \A z \in Spokes \ {s} : P2[z] = P[z]
  BY <1>1, <1>2, <1>3, <1>7
<1>9. /\ Running(T2, s) = Running(T, s) \ {t}
      /\ \A z \in Spokes \ {s} : Running(T2, z) = Running(T, z)
  BY <1>f, <1>g DEF Running, Same, s
<1>10. SpokeLinked(T2, F2, N2, s, p)
  <2>1. F2[s] = IF p = <<>> THEN NULL ELSE p[1]
    <3>1. p = <<>> <=> Len(q) = 1 BY <1>4, <1>5, <1>7
    <3>2. CASE k = 1
      <4>1. F2[s] = Next1(q, 1) BY <1>6, <1>k, <3>2
      <4>2. Len(q) # 1 => p[1] = q[2] BY <1>4, <1>5, <1>7, <3>2
      <4> QED BY <3>1, <4>1, <4>2 DEF Next1
    <3>3. CASE k # 1
      <4>1. F2[s] = q[1] BY <1>6, <1>k, <3>3
      <4>2. Len(q) # 1 /\ p[1] = q[1] BY <1>4, <1>5, <1>7, <3>3
      <4> QED BY <3>1, <4>1, <4>2
    <3> QED BY <3>2, <3>3
  <2>2. ASSUME NEW i \in 1..Len(p)
        PROVE  T2[p[i]].next = Next1(p, i) /\ T2[p[i]].prev = Prev1(p, i)
    <3>0. i \in 1..(Len(q) - 1) BY <1>7
    <3>1. CASE i < k
      <4>1. i \in 1..Len(q) /\ i # k /\ i # k + 1 /\ p[i] = q[i]
        BY <1>4, <1>6, <1>7, <3>0, <3>1
      <4>2. T2[p[i]].prev = Prev1(p, i)
        <5>1. T2[p[i]].prev = Prev1(q, i) BY <1>h, <4>1
        <5>2. i # 1 => p[i - 1] = q[i - 1] BY <1>4, <1>6, <1>7, <3>0, <3>1
        <5> QED BY <5>1, <5>2 DEF Prev1
      <4>3. CASE i = k - 1
        <5>1. T2[p[i]].next = Next1(q, k) BY <1>h, <4>1, <4>3
        <5>2. i # Len(p) => p[i + 1] = q[k + 1]
          <6>1. i # Len(p) => i + 1 \in 1..(Len(q) - 1) /\ ~(i + 1 < k)
            BY <1>n, <3>0, <4>3
          <6>2. i + 2 = k + 1 BY <1>n, <3>0, <4>3
          <6> QED BY <1>7, <6>1, <6>2
        <5>3. i = Len(p) <=> k = Len(q) BY <1>4, <1>6, <1>7, <4>3
        <5> QED BY <4>2, <5>1, <5>2, <5>3 DEF Next1
      <4>4. CASE i # k - 1
        <5>1. T2[p[i]].next = Next1(q, i) BY <1>h, <4>1, <4>4
        <5>2. i # Len(p) /\ i # Len(q) /\ p[i + 1] = q[i + 1]
          <6>1. /\ i + 1 \in 1..(Len(q) - 1) /\ i + 1 < k
                /\ i # Len(p) /\ i # Len(q)
            BY <1>n, <3>0, <3>1, <4>4
          <6> QED BY <1>7, <6>1
        <5> QED BY <4>2, <5>1, <5>2 DEF Next1
      <4> QED BY <4>3, <4>4
    <3>2. CASE ~(i < k)
      <4> DEFINE j == i + 1
      <4>1. j \in 1..Len(q) /\ j # k /\ j # k - 1 /\ p[i] = q[j]
        BY <1>4, <1>6, <1>7, <3>0, <3>2
      <4>2. T2[p[i]].next = Next1(p, i)
        <5>1. T2[p[i]].next = Next1(q, j) BY <1>h, <4>1
        <5>2. i # Len(p) => p[i + 1] = q[j + 1]
          BY <1>4, <1>6, <1>7, <3>0, <3>2
        <5>3. i = Len(p) <=> j = Len(q) BY <1>4, <1>7, <3>0
        <5> HIDE DEF j
        <5> QED BY <5>1, <5>2, <5>3 DEF Next1
      <4>3. CASE i = k
        <5>1. T2[p[i]].prev = Prev1(q, k) BY <1>h, <4>1, <4>3
        <5>2. i # 1 => p[i - 1] = q[k - 1]
          BY <1>4, <1>6, <1>7, <3>0, <4>3
        <5> QED BY <4>2, <4>3, <5>1, <5>2 DEF Prev1
      <4>4. CASE i # k
        <5>1. T2[p[i]].prev = Prev1(q, j) BY <1>6, <1>h, <3>0, <4>1, <4>4
        <5>2. i # 1 /\ j # 1 /\ p[i - 1] = q[j - 1]
          BY <1>4, <1>5, <1>6, <1>7, <3>0, <3>2, <4>4
        <5> HIDE DEF j
        <5> QED BY <4>2, <5>1, <5>2 DEF Prev1
      <4> QED BY <4>3, <4>4
    <3> QED BY <3>1, <3>2
  <2> QED BY <1>4, <1>7, <1>9, <1>l, <2>1, <2>2 DEF SpokeLinked
<1>11. ASSUME NEW z \in Spokes \ {s} PROVE SpokeLinked(T2, F2, N2, z, P[z])
  <2>1. \A x \in Running(T, z) : x \in Timers \ {t} /\ x \notin Running(T, s)
    BY DEF Running, s
  <2>2. \A x \in Running(T, z) : x # next /\ (x = prev => head)
    <3>1. \A x \in Running(T, z) : x # NULL BY DEF Running, Timers, NULL
    <3> QED BY <1>p, <2>1, <3>1
  <2>3. F2[z] = F[z] /\ N2[z] = N[z] BY <1>k, <1>l
  <2>4. \A x \in Running(T, z) : T2[x].next = T[x].next /\ T2[x].prev = T[x].prev
    BY <1>g, <2>1, <2>2
  <2> QED BY <1>9, <2>3, <2>4, OtherSpoke
<1>12. WellLinked(T2, F2, N2, P2)
  <2>1. \A z \in Spokes : SpokeLinked(T2, F2, N2, z, P2[z])
    BY <1>10, <1>11, <1>m
  <2> QED BY <1>t, <1>k, <1>l, <1>m, <2>1 DEF WellLinked
<1>13. \A x \in Timers \ {t} :
         T[x].state # "RUNNING" => T2[x] = T[x]
  <2>1. prev = NULL \/ ~head BY <1>6 DEF Prev1
  <2> QED BY <1>g, <1>p, <2>1 DEF Running, Timers, NULL
<1> QED BY <1>12, <1>13, <1>f, <1>g DEF NowStopped

(* A change that leaves alone which timers run, their matches and their    *)
(* links.                                                                  *)
LEMMA TouchKeeps ==
  ASSUME NEW T, NEW F, NEW N, NEW P, WellLinked(T, F, N, P),
         NEW T2 \in [Timers -> Tmr],
         \A x \in Timers :
           /\ T2[x].state = "RUNNING" <=> T[x].state = "RUNNING"
           /\ T[x].state = "RUNNING" =>
                /\ T2[x].match = T[x].match /\ T2[x].next = T[x].next
                /\ T2[x].prev = T[x].prev
  PROVE  WellLinked(T2, F, N, P)
<1>1. ASSUME NEW s \in Spokes PROVE SpokeLinked(T2, F, N, s, P[s])
  <2>1. Running(T2, s) = Running(T, s) BY DEF Running
  <2>2. \A x \in Running(T, s) : T2[x].next = T[x].next /\ T2[x].prev = T[x].prev
    BY DEF Running
  <2> QED BY <2>1, <2>2, OtherSpoke
<1> QED BY <1>1 DEF WellLinked

LEMMA LinkIs ==
  ASSUME NEW w, NEW t
  PROVE  LET r == OSTmr_Link(w, t)
         IN  LinkedFor(w.tmr, w.first, w.entries, w.spokes, t,
                       (w.tmr[t].dly + OSTmrTime') % TIME_MOD,
                       r.tmr, r.first, r.entries, r.spokes)
BY DEF OSTmr_Link, LinkedFor

LEMMA UnlinkIs ==
  ASSUME NEW w, NEW t
  PROVE  LET r == OSTmr_Unlink(w, t)
         IN  UnlinkedFrom(w.tmr, w.first, w.entries, w.spokes, t,
                          r.tmr, r.first, r.entries, r.spokes)
BY DEF OSTmr_Unlink, UnlinkedFrom

(* The clock's arithmetic: a timer just started is not due, its delay is   *)
(* what it has left, and a tick takes one of it.                           *)
LEMMA Remainder ==
  ASSUME NEW x \in 0..(2 * TIME_MOD - 1)
  PROVE  x % TIME_MOD = IF x < TIME_MOD THEN x ELSE x - TIME_MOD
<1>1. TIME_MOD \in Nat \ {0} BY Sizes
<1>2. CASE x < TIME_MOD BY <1>1, <1>2
<1>3. CASE ~(x < TIME_MOD)
  <2>1. x % TIME_MOD = (x - TIME_MOD) % TIME_MOD BY <1>1, <1>3
  <2>2. (x - TIME_MOD) % TIME_MOD = x - TIME_MOD BY <1>1, <1>3
  <2> QED BY <1>3, <2>1, <2>2
<1> QED BY <1>2, <1>3

LEMMA Difference ==
  ASSUME NEW a \in 0..(TIME_MOD - 1), NEW b \in 0..(TIME_MOD - 1)
  PROVE  (a - b) % TIME_MOD = IF a >= b THEN a - b ELSE a - b + TIME_MOD
<1>1. TIME_MOD \in Nat \ {0} BY Sizes
<1>2. CASE a >= b BY <1>1, <1>2
<1>3. CASE ~(a >= b)
  <2>1. (a - b) % TIME_MOD = (a - b + TIME_MOD) % TIME_MOD BY <1>1, <1>3
  <2>2. (a - b + TIME_MOD) % TIME_MOD = a - b + TIME_MOD BY <1>1, <1>3
  <2> QED BY <1>3, <2>1, <2>2
<1> QED BY <1>2, <1>3

LEMMA Fresh ==
  ASSUME NEW d \in Delays, NEW n \in 0..(TIME_MOD - 1)
  PROVE  /\ (d + n) % TIME_MOD \in 0..(TIME_MOD - 1)
         /\ (d + n) % TIME_MOD # n
         /\ (((d + n) % TIME_MOD) - n) % TIME_MOD = d
<1>1. TIME_MOD \in Nat \ {0} /\ d \in 1..(TIME_MOD - 1) BY Sizes
<1>2. (d + n) % TIME_MOD = IF d + n < TIME_MOD THEN d + n ELSE d + n - TIME_MOD
  BY <1>1, Remainder
<1> DEFINE m == (d + n) % TIME_MOD
<1>3. m \in 0..(TIME_MOD - 1) /\ m # n BY <1>1, <1>2
<1>4. (m - n) % TIME_MOD = IF m >= n THEN m - n ELSE m - n + TIME_MOD
  <2> HIDE DEF m
  <2> QED BY <1>3, Difference
<1> QED BY <1>1, <1>2, <1>3, <1>4

LEMMA OneLess ==
  ASSUME NEW m \in 0..(TIME_MOD - 1), NEW n \in 0..(TIME_MOD - 1), m # n
  PROVE  /\ (m - ((n + 1) % TIME_MOD)) % TIME_MOD = ((m - n) % TIME_MOD) - 1
         /\ (n + 1) % TIME_MOD \in 0..(TIME_MOD - 1)
<1>1. TIME_MOD \in Nat \ {0} BY Sizes
<1>2. (n + 1) % TIME_MOD = IF n + 1 < TIME_MOD THEN n + 1 ELSE 0
  BY <1>1, Remainder
<1> DEFINE k == (n + 1) % TIME_MOD
<1>3. k \in 0..(TIME_MOD - 1) BY <1>1, <1>2
<1>4. (m - k) % TIME_MOD = IF m >= k THEN m - k ELSE m - k + TIME_MOD
  <2> HIDE DEF k
  <2> QED BY <1>3, Difference
<1>5. (m - n) % TIME_MOD = IF m >= n THEN m - n ELSE m - n + TIME_MOD
  BY Difference
<1> QED BY <1>1, <1>2, <1>3, <1>4, <1>5

-----------------------------------------------------------------------------
(* The inductive invariant.                                                *)
IInv == TypeOK /\ Linked /\ CallersHold /\ Walk

WheelType == [Callers -> [pc : {"idle", "set", "start"}, tmr : Pointers,
                          dly : Delays \cup {0}]]

(* The lists of the next state.                                            *)
LEMMA NextLists ==
  WellLinked(tmr, first, entries, spokes)' <=>
    WellLinked(tmr', first', entries', spokes')
BY DEF WellLinked, SpokeLinked, Running, Next1, Prev1

(* The free list stays one while no timer comes into use or goes out of it *)
(* and the unused ones are not touched.                                    *)
LEMMA FreeKeeps ==
  ASSUME FreeLinked, UNCHANGED pool,
         \A t \in Timers : /\ InUse(t)' <=> InUse(t)
                           /\ ~InUse(t) => tmr'[t] = tmr[t]
  PROVE  FreeLinked'
<1>1. \A i \in 1..Len(unused) : unused[i] \in Timers /\ ~InUse(unused[i])
  <2>1. unused \in Seq(Timers) /\ Range(unused) = {t \in Timers : ~InUse(t)}
    BY DEF FreeLinked
  <2> QED BY <2>1 DEF Range
<1>2. \A i \in 1..Len(unused) : tmr'[unused[i]] = tmr[unused[i]] BY <1>1
<1>3. {t \in Timers : ~InUse(t)}' = {t \in Timers : ~InUse(t)} OBVIOUS
<1> QED BY <1>2, <1>3 DEF FreeLinked, pool

(* A step of a thread on timer t: t may be linked anew or taken out, and   *)
(* keeps its delay and its use; no other timer changes but for its links.  *)
Changed(t) ==
  /\ ~walking /\ UNCHANGED <<task, pool>>
  /\ WellLinked(tmr', first', entries', spokes')
  /\ \A x \in Timers \ {t} :
       Same(tmr', tmr, x) /\ (tmr[x].state # "RUNNING" => tmr'[x] = tmr[x])
  /\ tmr'[t].dly = tmr[t].dly
  /\ tmr'[t].state = "UNUSED" <=> tmr[t].state = "UNUSED"
  /\ ~InUse(t) => tmr'[t] = tmr[t]
  /\ tmr'[t].state = "RUNNING" =>
       tmr'[t].match = (tmr[t].dly + OSTmrTime) % TIME_MOD

(* A step after which a caller is only further in mod_timer, or out of it. *)
CallersGoOn ==
  /\ caller' \in WheelType
  /\ \A c \in Callers : caller'[c].pc # "idle" =>
       /\ caller[c].pc # "idle"
       /\ caller'[c].tmr = caller[c].tmr /\ caller'[c].dly = caller[c].dly

(* A step that leaves the free list, the use and (if it is not to one a     *)
(* caller may set) the delay of every timer.                               *)
LEMMA RestKeeps ==
  ASSUME IInv, WellLinked(tmr', first', entries', spokes'), UNCHANGED pool,
         \A x \in Timers : /\ InUse(x)' <=> InUse(x)
                           /\ ~InUse(x) => tmr'[x] = tmr[x]
                           /\ tmr'[x].dly \in Delays \cup {tmr[x].dly},
         OSTmrTime' \in Matches, signal' \in 0..MAX_SIGNAL,
         walking' \in BOOLEAN, ptmr' \in Pointers, CallersGoOn
  PROVE  TypeOK' /\ Linked' /\ CallersHold'
<1>1. Linked'
  <2>1. FreeLinked' BY FreeKeeps DEF IInv, Linked
  <2>2. WellLinked(tmr, first, entries, spokes)' BY NextLists
  <2> QED BY <2>1, <2>2 DEF Linked
<1>2. TypeOK'
  <2>1. \A x \in Timers : InUse(x)' => tmr'[x].dly \in Delays
    BY DEF IInv, TypeOK
  <2>2. OSTmrFreeList' \in Pointers /\ unused' \in Seq(Timers)
    BY DEF IInv, TypeOK, pool
  <2>3. /\ tmr' \in [Timers -> Tmr]
        /\ first' \in [Spokes -> Pointers] /\ entries' \in [Spokes -> Nat]
        /\ spokes' \in [Spokes -> Seq(Timers)]
    BY DEF WellLinked
  <2>4. caller' \in WheelType BY DEF CallersGoOn
  <2> QED BY <2>1, <2>2, <2>3, <2>4 DEF TypeOK, Tmr, WheelType, Matches
<1>3. CallersHold'
  <2> SUFFICES ASSUME NEW c \in Callers, caller'[c].pc # "idle"
               PROVE  /\ caller'[c].tmr \in Timers
                      /\ tmr'[caller'[c].tmr].state # "UNUSED"
                      /\ caller'[c].dly \in Delays
    BY DEF CallersHold, InUse
  <2>1. /\ caller'[c].tmr = caller[c].tmr /\ caller'[c].dly = caller[c].dly
        /\ caller[c].pc # "idle"
    BY DEF CallersGoOn
  <2>2. caller[c].tmr \in Timers /\ InUse(caller[c].tmr) /\ caller[c].dly \in Delays
    BY <2>1 DEF IInv, CallersHold
  <2>3. tmr'[caller[c].tmr].state # "UNUSED" BY <2>2 DEF InUse
  <2> QED BY <2>1, <2>2, <2>3
<1> QED BY <1>1, <1>2, <1>3

LEMMA ChangedKeeps ==
  ASSUME IInv, NEW t \in Timers, Changed(t), CallersGoOn
  PROVE  IInv'
<1>1. /\ \A x \in Timers : (InUse(x)' <=> InUse(x)) /\ (~InUse(x) => tmr'[x] = tmr[x])
      /\ \A x \in Timers : tmr'[x].dly = tmr[x].dly
  BY DEF Changed, Same, InUse
<1>2. UNCHANGED <<OSTmrTime, signal, walking, ptmr, pool>> /\ ~walking
  BY DEF Changed, task
<1>3. TypeOK' /\ Linked' /\ CallersHold'
  <2>1. /\ OSTmrTime' \in Matches /\ signal' \in 0..MAX_SIGNAL
        /\ walking' \in BOOLEAN /\ ptmr' \in Pointers
    BY <1>2 DEF IInv, TypeOK, Matches
  <2>2. WellLinked(tmr', first', entries', spokes') BY DEF Changed
  <2> QED BY <1>1, <1>2, <2>1, <2>2, RestKeeps
<1>6. Walk'
  <2>1. \A x \in Timers : ~Due(x) BY <1>2 DEF IInv, Walk
  <2>2. \A x \in Timers \ {t} : ~Due(x)'
    BY <1>2, <2>1 DEF Due, Changed, Same
  <2>3. ~Due(t)'
    <3> SUFFICES ASSUME tmr'[t].state = "RUNNING" PROVE tmr'[t].match # OSTmrTime
      BY <1>2 DEF Due
    <3>1. InUse(t) BY <1>1 DEF InUse
    <3>2. tmr[t].dly \in Delays /\ OSTmrTime \in 0..(TIME_MOD - 1)
      BY <3>1 DEF IInv, TypeOK
    <3>3. tmr'[t].match = (tmr[t].dly + OSTmrTime) % TIME_MOD BY DEF Changed
    <3> QED BY <3>2, <3>3, Fresh
  <2> QED BY <1>2, <2>2, <2>3 DEF Walk
<1> QED BY <1>3, <1>6 DEF IInv

(* What the two functions do to a timer in use.                            *)
LEMMA StopChanges ==
  ASSUME IInv, NEW t \in Timers, OSTmrStop(t)
  PROVE  Changed(t) /\ tmr'[t].state # "RUNNING"
<1>1. /\ ~walking /\ UNCHANGED <<task, pool>>
      /\ WellLinked(tmr, first, entries, spokes)
      /\ IF tmr[t].state = "RUNNING" THEN Become(OSTmr_Unlink(Lists, t))
                                     ELSE UNCHANGED lists
  BY DEF OSTmrStop, SchedUnlocked, IInv, Linked
<1>2. CASE tmr[t].state # "RUNNING"
  <2>1. UNCHANGED <<tmr, first, entries, spokes>> BY <1>1, <1>2 DEF lists
  <2>2. WellLinked(tmr', first', entries', spokes')
    BY <1>1, <2>1
  <2> QED BY <1>1, <1>2, <2>1, <2>2 DEF Changed, Same, InUse
<1>3. CASE tmr[t].state = "RUNNING"
  <2>1. UnlinkedFrom(tmr, first, entries, spokes, t, tmr', first', entries', spokes')
    <3>1. Become(OSTmr_Unlink(Lists, t)) BY <1>1, <1>3
    <3> QED BY <3>1, UnlinkIs DEF Become, Lists
  <2>2. /\ WellLinked(tmr', first', entries', spokes')
        /\ tmr'[t].state = "STOPPED" /\ tmr'[t].dly = tmr[t].dly
        /\ \A x \in Timers \ {t} :
             Same(tmr', tmr, x) /\ (tmr[x].state # "RUNNING" => tmr'[x] = tmr[x])
    BY <1>1, <1>3, <2>1, UnlinkKeeps DEF NowStopped
  <2> QED BY <1>1, <1>3, <2>2 DEF Changed, InUse
<1> QED BY <1>2, <1>3

LEMMA StartChanges ==
  ASSUME IInv, NEW t \in Timers, OSTmrStart(t)
  PROVE  Changed(t) /\ (InUse(t) => tmr'[t].state = "RUNNING")
<1>1. /\ ~walking /\ UNCHANGED <<task, pool>>
      /\ WellLinked(tmr, first, entries, spokes)
      /\ OSTmrTime \in 0..(TIME_MOD - 1) /\ OSTmrTime' = OSTmrTime
  BY DEF OSTmrStart, SchedUnlocked, IInv, Linked, TypeOK, task
<1>2. CASE ~InUse(t)
  <2>1. tmr[t].state = "UNUSED" BY <1>2 DEF InUse
  <2>2. UNCHANGED <<tmr, first, entries, spokes>> BY <2>1 DEF OSTmrStart, lists
  <2>3. WellLinked(tmr', first', entries', spokes') BY <1>1, <2>2
  <2> QED BY <1>1, <1>2, <2>1, <2>2, <2>3 DEF Changed, Same, InUse
<1> DEFINE m == (tmr[t].dly + OSTmrTime) % TIME_MOD
<1>3. CASE InUse(t)
  <2>0. m \in Matches
    <3>1. tmr[t].dly \in Delays BY <1>3 DEF IInv, TypeOK
    <3> QED BY <1>1, <3>1, Fresh DEF Matches
  <2> HIDE DEF m
  <2>1. CASE tmr[t].state # "RUNNING"
    <3>1. Become(OSTmr_Link(Lists, t))
      BY <1>3, <2>1 DEF OSTmrStart, InUse
    <3>2. LinkedFor(tmr, first, entries, spokes, t, m, tmr', first', entries', spokes')
      BY <1>1, <3>1, LinkIs DEF Become, Lists, m
    <3>3. /\ WellLinked(tmr', first', entries', spokes')
          /\ tmr'[t].state = "RUNNING" /\ tmr'[t].match = m
          /\ tmr'[t].dly = tmr[t].dly
          /\ \A x \in Timers \ {t} :
               Same(tmr', tmr, x) /\ (tmr[x].state # "RUNNING" => tmr'[x] = tmr[x])
      <4>1. NowRuns(tmr, t, m, tmr', first', entries', spokes')
        BY <1>1, <2>0, <2>1, <3>2, LinkKeeps
      <4> QED BY <4>1 DEF NowRuns
    <3> QED BY <1>1, <1>3, <3>3 DEF Changed, InUse, m
  <2>2. CASE tmr[t].state = "RUNNING"
    <3> DEFINE u == OSTmr_Unlink(Lists, t)
               T == u.tmr
               F == u.first
               N == u.entries
               P == u.spokes
    <3>1. Become(OSTmr_Link(u, t)) BY <2>2 DEF OSTmrStart
    <3>2. UnlinkedFrom(tmr, first, entries, spokes, t, T, F, N, P)
      BY UnlinkIs DEF Lists
    <3>3. LinkedFor(T, F, N, P, t, (T[t].dly + OSTmrTime') % TIME_MOD,
                    tmr', first', entries', spokes')
      <4> HIDE DEF u
      <4> QED BY <3>1, LinkIs DEF Become
    <3> HIDE DEF u, T, F, N, P
    <3>4. /\ WellLinked(T, F, N, P) /\ T[t].state = "STOPPED"
          /\ T[t].dly = tmr[t].dly
          /\ \A x \in Timers \ {t} :
               Same(T, tmr, x) /\ (tmr[x].state # "RUNNING" => T[x] = tmr[x])
      BY <1>1, <2>2, <3>2, UnlinkKeeps DEF NowStopped
    <3>5. LinkedFor(T, F, N, P, t, m, tmr', first', entries', spokes')
      BY <1>1, <3>3, <3>4 DEF m
    <3>6. /\ WellLinked(tmr', first', entries', spokes')
          /\ tmr'[t].state = "RUNNING" /\ tmr'[t].match = m
          /\ tmr'[t].dly = T[t].dly
          /\ \A x \in Timers \ {t} :
               Same(tmr', T, x) /\ (T[x].state # "RUNNING" => tmr'[x] = T[x])
      <4>1. T[t].state # "RUNNING" BY <3>4
      <4>2. NowRuns(T, t, m, tmr', first', entries', spokes')
        BY <2>0, <3>4, <3>5, <4>1, LinkKeeps
      <4> QED BY <4>2 DEF NowRuns
    <3> QED BY <1>1, <1>3, <3>4, <3>6 DEF Changed, InUse, Same, m
  <2> QED BY <2>1, <2>2
<1> QED BY <1>2, <1>3

-----------------------------------------------------------------------------
(* The steps: first those of the threads.                                  *)
LEMMA CallersStay ==
  ASSUME IInv, UNCHANGED caller
  PROVE  CallersGoOn
BY DEF IInv, TypeOK, CallersGoOn, WheelType

LEMMA AddKeeps ==
  ASSUME IInv, NEW t \in Timers, add_timer(t)
  PROVE  IInv'
BY StartChanges, CallersStay, ChangedKeeps DEF add_timer

LEMMA DelKeeps ==
  ASSUME IInv, NEW t \in Timers, del_timer(t)
  PROVE  IInv'
BY StopChanges, CallersStay, ChangedKeeps DEF del_timer

LEMMA ModStartKeeps ==
  ASSUME IInv, NEW c \in Callers, ModStart(c)
  PROVE  IInv'
<1>1. caller \in WheelType /\ caller[c].pc # "idle"
  BY DEF IInv, TypeOK, WheelType, ModStart
<1>2. caller[c].tmr \in Timers BY <1>1 DEF IInv, CallersHold
<1>3. Changed(caller[c].tmr) BY <1>2, StartChanges DEF ModStart
<1>4. CallersGoOn
  <2> DEFINE r == [pc |-> "idle", tmr |-> NULL, dly |-> 0]
  <2>1. caller' = [caller EXCEPT ![c] = r] BY DEF ModStart
  <2>2. r \in [pc : {"idle", "set", "start"}, tmr : Pointers, dly : Delays \cup {0}]
        /\ r.pc = "idle"
    BY DEF Pointers
  <2> HIDE DEF r
  <2>3. caller' \in WheelType BY <1>1, <2>1, <2>2 DEF WheelType
  <2>4. caller'[c].pc = "idle" /\ \A e \in Callers \ {c} : caller'[e] = caller[e]
    BY <1>1, <2>1, <2>2 DEF WheelType
  <2> QED BY <2>3, <2>4 DEF CallersGoOn
<1> QED BY <1>2, <1>3, <1>4, ChangedKeeps

LEMMA ModPendingKeeps ==
  ASSUME IInv, NEW c \in Callers, NEW t \in Timers, NEW d \in Delays,
         ModPending(c, t, d)
  PROVE  IInv'
<1> DEFINE r == [pc |-> "set", tmr |-> t, dly |-> d]
<1>1. /\ UNCHANGED <<tmr, first, entries, spokes>>
      /\ UNCHANGED <<OSTmrFreeList, unused>>
      /\ UNCHANGED <<OSTmrTime, signal, walking, ptmr>>
      /\ caller' = [caller EXCEPT ![c] = r] /\ InUse(t)
  BY DEF ModPending, lists, pool, task
<1>2. /\ r \in [pc : {"idle", "set", "start"}, tmr : Pointers, dly : Delays \cup {0}]
      /\ r.tmr = t /\ r.dly = d
  BY DEF Pointers
<1> HIDE DEF r
<1>3. caller \in WheelType BY DEF IInv, TypeOK, WheelType
<1>4. /\ caller' \in WheelType /\ caller'[c] = r
      /\ \A e \in Callers \ {c} : caller'[e] = caller[e]
  BY <1>1, <1>2, <1>3 DEF WheelType
<1>5. TypeOK'
  BY <1>1, <1>4 DEF IInv, TypeOK, InUse, WheelType
<1>6. Linked'
  <2>1. WellLinked(tmr, first, entries, spokes)' BY <1>1, NextLists DEF IInv, Linked
  <2>2. FreeLinked' BY <1>1 DEF IInv, Linked, FreeLinked, InUse
  <2> QED BY <2>1, <2>2 DEF Linked
<1>7. CallersHold'
  <2> SUFFICES ASSUME NEW e \in Callers, caller'[e].pc # "idle"
               PROVE  /\ caller'[e].tmr \in Timers
                      /\ tmr'[caller'[e].tmr].state # "UNUSED"
                      /\ caller'[e].dly \in Delays
    BY DEF CallersHold, InUse
  <2>1. CASE e = c BY <1>1, <1>2, <1>4, <2>1 DEF InUse
  <2>2. CASE e # c
    <3>1. caller'[e] = caller[e] BY <1>4, <2>2
    <3> QED BY <1>1, <3>1 DEF IInv, CallersHold, InUse
  <2> QED BY <2>1, <2>2
<1>8. Walk' BY <1>1 DEF IInv, Walk, Due
<1> QED BY <1>5, <1>6, <1>7, <1>8 DEF IInv

LEMMA ModSetKeeps ==
  ASSUME IInv, NEW c \in Callers, ModSet(c)
  PROVE  IInv'
<1> DEFINE t == caller[c].tmr
           d == caller[c].dly
<1>1. /\ caller[c].pc = "set" /\ ~walking /\ tmr' = [tmr EXCEPT ![t].dly = d]
      /\ caller' = [caller EXCEPT ![c].pc = "start"]
      /\ UNCHANGED <<first, entries, spokes, pool, OSTmrTime, signal, walking, ptmr>>
  BY DEF ModSet, task
<1>2. t \in Timers /\ InUse(t) /\ d \in Delays
  BY <1>1 DEF IInv, CallersHold
<1>3. CallersGoOn
  <2>1. caller \in WheelType BY DEF IInv, TypeOK, WheelType
  <2>2. /\ caller' \in WheelType
        /\ caller'[c].tmr = caller[c].tmr /\ caller'[c].dly = caller[c].dly
        /\ \A e \in Callers \ {c} : caller'[e] = caller[e]
    BY <1>1, <2>1 DEF WheelType
  <2> QED BY <1>1, <2>2 DEF CallersGoOn
<1> HIDE DEF t, d
<1>4. tmr \in [Timers -> Tmr] BY DEF IInv, Linked, WellLinked
<1>5. /\ tmr' \in [Timers -> Tmr] /\ tmr'[t] = [tmr[t] EXCEPT !.dly = d]
      /\ \A x \in Timers \ {t} : tmr'[x] = tmr[x]
  <2>1. [tmr[t] EXCEPT !.dly = d] \in Tmr BY <1>2, <1>4 DEF Tmr
  <2> QED BY <1>1, <1>2, <1>4, <2>1
<1>6. /\ tmr'[t].state = tmr[t].state /\ tmr'[t].match = tmr[t].match
      /\ tmr'[t].next = tmr[t].next /\ tmr'[t].prev = tmr[t].prev
      /\ tmr'[t].dly = d
  BY <1>2, <1>4, <1>5 DEF Tmr
<1>7. WellLinked(tmr', first', entries', spokes')
  <2>1. WellLinked(tmr, first, entries, spokes) BY DEF IInv, Linked
  <2>2. \A x \in Timers :
          /\ tmr'[x].state = "RUNNING" <=> tmr[x].state = "RUNNING"
          /\ tmr'[x].match = tmr[x].match /\ tmr'[x].next = tmr[x].next
          /\ tmr'[x].prev = tmr[x].prev
    BY <1>5, <1>6
  <2>3. tmr' \in [Timers -> Tmr] BY <1>5
  <2>4. WellLinked(tmr', first, entries, spokes) BY <2>1, <2>2, <2>3, TouchKeeps
  <2> QED BY <1>1, <2>4
<1>8. \A x \in Timers : /\ InUse(x)' <=> InUse(x)
                        /\ ~InUse(x) => tmr'[x] = tmr[x]
                        /\ tmr'[x].dly \in Delays \cup {tmr[x].dly}
  BY <1>2, <1>5, <1>6 DEF InUse
<1>9. TypeOK' /\ Linked' /\ CallersHold'
  <2>1. /\ OSTmrTime' \in Matches /\ signal' \in 0..MAX_SIGNAL
        /\ walking' \in BOOLEAN /\ ptmr' \in Pointers
    BY <1>1 DEF IInv, TypeOK, Matches
  <2> QED BY <1>1, <1>3, <1>7, <1>8, <2>1, RestKeeps
<1>10. Walk'
  <2>1. \A x \in Timers : ~Due(x) BY <1>1 DEF IInv, Walk
  <2> QED BY <1>1, <1>5, <1>6, <2>1 DEF Walk, Due
<1> QED BY <1>9, <1>10 DEF IInv

(* The free list loses its head to a new timer, which does not run.        *)
LEMMA CreateKeeps ==
  ASSUME IInv, NEW t \in Timers, NEW d \in Delays, NEW o \in Opts,
         timer_setup(t, d, o)
  PROVE  IInv'
<1> DEFINE r == [tmr[t] EXCEPT !.state = "STOPPED", !.opt = o, !.dly = d,
                               !.next = NULL, !.prev = NULL]
<1>1. /\ ~walking /\ UNCHANGED <<OSTmrTime, signal, walking, ptmr, caller>>
      /\ OSTmrFreeList # NULL /\ t = OSTmrFreeList
      /\ OSTmrFreeList' = tmr[t].next /\ unused' = Tail(unused)
      /\ UNCHANGED <<first, entries, spokes>>
      /\ tmr' = [tmr EXCEPT ![t] = r]
  BY DEF timer_setup, OSTmrCreate, SchedUnlocked, task
<1>2. /\ tmr \in [Timers -> Tmr] /\ WellLinked(tmr, first, entries, spokes)
      /\ FreeLinked
  BY DEF IInv, Linked, WellLinked
<1>3. /\ r \in Tmr /\ r.state = "STOPPED" /\ r.dly = d
  <2>1. tmr[t] \in Tmr BY <1>2
  <2> QED BY <2>1 DEF Tmr, States, Pointers
<1> HIDE DEF r
<1>4. /\ tmr' \in [Timers -> Tmr] /\ tmr'[t] = r
      /\ \A x \in Timers \ {t} : tmr'[x] = tmr[x]
  BY <1>1, <1>2, <1>3
<1>5. /\ unused \in Seq(Timers) /\ Len(unused) \in Nat \ {0} /\ unused[1] = t
      /\ IsInjective(unused) /\ Range(unused) = {x \in Timers : ~InUse(x)}
      /\ \A i \in 1..Len(unused) : tmr[unused[i]].next = Next1(unused, i)
  <2>1. unused # <<>> BY <1>1, <1>2 DEF FreeLinked
  <2> QED BY <1>1, <1>2, <2>1 DEF FreeLinked
<1>6. ~InUse(t)
  <2>1. t \in Range(unused) BY <1>5 DEF Range
  <2> QED BY <1>5, <2>1
<1>7. WellLinked(tmr', first', entries', spokes')
  <2>1. tmr[t].state = "UNUSED" BY <1>6 DEF InUse
  <2>2. WellLinked(tmr', first, entries, spokes)
    BY <1>2, <1>3, <1>4, <2>1, TouchKeeps
  <2> QED BY <1>1, <2>2
<1>8. \A x \in Timers : ~InUse(x)' <=> ~InUse(x) /\ x # t
  BY <1>3, <1>4 DEF InUse
<1>9. FreeLinked'
  <2> DEFINE q == unused
             p == Tail(unused)
  <2>1. /\ p \in Seq(Timers) /\ Len(p) = Len(q) - 1
        /\ \A i \in 1..(Len(q) - 1) : p[i] = q[i + 1]
    BY <1>5
  <2>2. IsInjective(p) /\ Range(q) = Range(p) \cup {t} /\ t \notin Range(p)
    <3>1. q # <<>> /\ Head(q) = t BY <1>5
    <3> QED BY <1>5, <3>1, TakeHead
  <2>3. unused' = p BY <1>1
  <2> HIDE DEF p
  <2>4. Range(p) = {x \in Timers : ~InUse(x)'}
    BY <1>5, <1>8, <2>2
  <2>5. OSTmrFreeList' = IF p = <<>> THEN NULL ELSE p[1]
    <3>1. tmr[q[1]].next = Next1(q, 1) BY <1>5
    <3>2. Len(q) = 1 <=> p = <<>> BY <1>5, <2>1
    <3>3. Len(q) # 1 => p[1] = q[2] BY <1>5, <2>1
    <3> QED BY <1>1, <1>5, <3>1, <3>2, <3>3 DEF Next1
  <2>6. ASSUME NEW i \in 1..Len(p) PROVE tmr'[p[i]].next = Next1(p, i)
    <3>1. i + 1 \in 1..Len(q) /\ p[i] = q[i + 1] /\ i \in 1..(Len(q) - 1)
      BY <1>5, <2>1
    <3>2. p[i] \in Timers \ {t} BY <2>1, <2>2, <3>1 DEF Range
    <3>3. tmr'[p[i]].next = Next1(q, i + 1) BY <1>4, <1>5, <3>1, <3>2
    <3>4. i = Len(p) <=> i + 1 = Len(q) BY <1>5, <2>1
    <3>5. i # Len(p) => p[i + 1] = q[i + 1 + 1] BY <1>5, <2>1
    <3> QED BY <3>3, <3>4, <3>5 DEF Next1
  <2>7. OSTmrFreeList' \in Pointers
    BY <1>1, <1>2 DEF Tmr
  <2> QED BY <2>1, <2>2, <2>3, <2>4, <2>5, <2>6, <2>7 DEF FreeLinked
<1>10. TypeOK'
  <2>1. \A x \in Timers : InUse(x)' => tmr'[x].dly \in Delays
    BY <1>3, <1>4, <1>8 DEF IInv, TypeOK
  <2>2. /\ OSTmrTime' \in 0..(TIME_MOD - 1) /\ signal' \in 0..MAX_SIGNAL
        /\ walking' \in BOOLEAN /\ ptmr' \in Pointers /\ caller' \in WheelType
    BY <1>1 DEF IInv, TypeOK, WheelType
  <2>3. /\ tmr' \in [Timers -> Tmr]
        /\ first' \in [Spokes -> Pointers] /\ entries' \in [Spokes -> Nat]
        /\ spokes' \in [Spokes -> Seq(Timers)]
    BY <1>7 DEF WellLinked
  <2>4. OSTmrFreeList' \in Pointers /\ unused' \in Seq(Timers)
    BY <1>9 DEF FreeLinked
  <2> QED BY <2>1, <2>2, <2>3, <2>4 DEF TypeOK, Tmr, WheelType
<1>11. CallersHold'
  BY <1>1, <1>6, <1>8 DEF IInv, CallersHold, InUse
<1>12. Walk'
  <2>1. \A x \in Timers : ~Due(x) BY <1>1 DEF IInv, Walk
  <2> QED BY <1>1, <1>3, <1>4, <2>1 DEF Walk, Due
<1>13. Linked'
  <2>1. WellLinked(tmr, first, entries, spokes)' BY <1>7, NextLists
  <2> QED BY <1>9, <2>1 DEF Linked
<1> QED BY <1>10, <1>11, <1>12, <1>13 DEF IInv

(* A freed timer is taken out of its spoke, if it runs, and becomes the    *)
(* head of the free list.                                                  *)
LEMMA FreedKeeps ==
  ASSUME IInv, NEW t \in Timers, timer_free(t)
  PROVE  IInv'
<1> DEFINE w == IF tmr[t].state = "RUNNING" THEN OSTmr_Unlink(Lists, t) ELSE Lists
           T == w.tmr
           r == [T[t] EXCEPT !.state = "UNUSED", !.opt = "NONE", !.match = 0,
                             !.next = OSTmrFreeList, !.prev = NULL]
<1>1. /\ ~walking /\ UNCHANGED <<OSTmrTime, signal, walking, ptmr, caller>>
      /\ tmr[t].state # "UNUSED" /\ ~Held(t)
      /\ OSTmrFreeList' = t /\ unused' = <<t>> \o unused
  BY DEF timer_free, OSTmrDel, SchedUnlocked, task
<1>2. /\ tmr' = [T EXCEPT ![t] = r]
      /\ first' = w.first /\ entries' = w.entries /\ spokes' = w.spokes
  BY DEF timer_free, OSTmrDel, Become, OSTmr_Unlink, Lists
<1>3. /\ tmr \in [Timers -> Tmr] /\ WellLinked(tmr, first, entries, spokes)
      /\ FreeLinked
  BY DEF IInv, Linked, WellLinked
<1>4. /\ WellLinked(T, w.first, w.entries, w.spokes)
      /\ T[t].state # "RUNNING"
      /\ \A x \in Timers \ {t} :
           Same(T, tmr, x) /\ (tmr[x].state # "RUNNING" => T[x] = tmr[x])
  <2>1. CASE tmr[t].state = "RUNNING"
    <3> DEFINE F == w.first
               N == w.entries
               P == w.spokes
    <3>1. UnlinkedFrom(tmr, first, entries, spokes, t, T, F, N, P)
      BY <2>1, UnlinkIs DEF Lists
    <3> HIDE DEF w, T, F, N, P
    <3>2. NowStopped(tmr, t, T, F, N, P) BY <1>3, <2>1, <3>1, UnlinkKeeps
    <3> QED BY <3>2 DEF NowStopped, F, N, P
  <2>2. CASE tmr[t].state # "RUNNING" BY <1>3, <2>2 DEF Lists, Same
  <2> QED BY <2>1, <2>2
<1> HIDE DEF w, T, r
<1>5. T \in [Timers -> Tmr] BY <1>4 DEF WellLinked
<1>6. r \in Tmr /\ r.state = "UNUSED" /\ r.next = OSTmrFreeList
  <2>1. T[t] \in Tmr /\ OSTmrFreeList \in Pointers BY <1>3, <1>5 DEF FreeLinked
  <2>2. 0 \in 0..(TIME_MOD - 1) /\ NULL \in Pointers BY Sizes DEF Pointers
  <2> QED BY <2>1, <2>2 DEF Tmr, States, r
<1>7. /\ tmr' \in [Timers -> Tmr] /\ tmr'[t] = r
      /\ \A x \in Timers \ {t} : tmr'[x] = T[x]
  BY <1>2, <1>5, <1>6
<1>8. WellLinked(tmr', first', entries', spokes')
  <2> DEFINE F == w.first
             N == w.entries
             P == w.spokes
  <2> HIDE DEF F, N, P
  <2>1. WellLinked(T, F, N, P) BY <1>4 DEF F, N, P
  <2>2. WellLinked(tmr', F, N, P) BY <1>4, <1>6, <1>7, <2>1, TouchKeeps
  <2> QED BY <1>2, <2>2 DEF F, N, P
<1>9. \A x \in Timers \ {t} :
        /\ Same(tmr', tmr, x) /\ (tmr[x].state # "RUNNING" => tmr'[x] = tmr[x])
        /\ ~InUse(x)' <=> ~InUse(x)
  BY <1>4, <1>7 DEF Same, InUse
<1>10. ~InUse(t)' /\ InUse(t) BY <1>1, <1>6, <1>7 DEF InUse
<1>11. FreeLinked'
  <2> DEFINE q == unused
             p == <<t>> \o unused
  <2>1. /\ q \in Seq(Timers) /\ IsInjective(q) /\ Len(q) \in Nat
        /\ Range(q) = {x \in Timers : ~InUse(x)}
        /\ \A i \in 1..Len(q) : tmr[q[i]].next = Next1(q, i)
        /\ OSTmrFreeList = IF q = <<>> THEN NULL ELSE q[1]
    BY <1>3 DEF FreeLinked
  <2>2. t \notin Range(q) BY <1>10, <2>1
  <2>3. /\ p \in Seq(Timers) /\ IsInjective(p) /\ Range(p) = Range(q) \cup {t}
    BY <2>1, <2>2, PushNew
  <2>4. /\ Len(p) = Len(q) + 1 /\ p[1] = t /\ p # <<>>
        /\ \A i \in 2..(Len(q) + 1) : p[i] = q[i - 1]
    BY <2>1
  <2>5. unused' = p BY <1>1
  <2> HIDE DEF p
  <2>6. Range(p) = {x \in Timers : ~InUse(x)'} BY <1>9, <1>10, <2>1, <2>3
  <2>7. ASSUME NEW i \in 1..Len(p) PROVE tmr'[p[i]].next = Next1(p, i)
    <3>1. CASE i = 1
      <4>1. q = <<>> <=> Len(q) = 0 BY <2>1
      <4>2. Len(q) # 0 => p[2] = q[1] BY <2>1, <2>4
      <4>3. Len(p) = 1 <=> Len(q) = 0 BY <2>1, <2>4
      <4>4. Next1(p, 1) = OSTmrFreeList BY <2>1, <4>1, <4>2, <4>3 DEF Next1
      <4> QED BY <1>6, <1>7, <2>4, <3>1, <4>4
    <3>2. CASE i # 1
      <4> DEFINE j == i - 1
      <4>1. j \in 1..Len(q) /\ p[i] = q[j] /\ i = j + 1
        BY <2>1, <2>4, <3>2
      <4>2. i # Len(p) => p[i + 1] = q[j + 1] BY <2>1, <2>4, <4>1
      <4>3. i = Len(p) <=> j = Len(q) BY <2>1, <2>4, <4>1
      <4> HIDE DEF j
      <4>4. q[j] \in Timers \ {t} /\ ~InUse(q[j])
        BY <2>1, <2>2, <4>1 DEF Range
      <4>5. tmr'[p[i]] = tmr[q[j]]
        BY <1>9, <4>1, <4>4 DEF InUse
      <4> QED BY <2>1, <4>1, <4>2, <4>3, <4>5 DEF Next1
    <3> QED BY <3>1, <3>2
  <2>8. OSTmrFreeList' \in Pointers BY <1>1 DEF Pointers
  <2>9. OSTmrFreeList' = p[1] BY <1>1, <2>4
  <2> QED BY <2>3, <2>4, <2>5, <2>6, <2>7, <2>8, <2>9 DEF FreeLinked
<1>12. TypeOK'
  <2>1. \A x \in Timers : InUse(x)' => tmr'[x].dly \in Delays
    BY <1>9, <1>10 DEF IInv, TypeOK, Same
  <2>2. /\ OSTmrTime' \in 0..(TIME_MOD - 1) /\ signal' \in 0..MAX_SIGNAL
        /\ walking' \in BOOLEAN /\ ptmr' \in Pointers /\ caller' \in WheelType
    BY <1>1 DEF IInv, TypeOK, WheelType
  <2>3. /\ tmr' \in [Timers -> Tmr]
        /\ first' \in [Spokes -> Pointers] /\ entries' \in [Spokes -> Nat]
        /\ spokes' \in [Spokes -> Seq(Timers)]
    BY <1>8 DEF WellLinked
  <2>4. OSTmrFreeList' \in Pointers /\ unused' \in Seq(Timers)
    BY <1>11 DEF FreeLinked
  <2> QED BY <2>1, <2>2, <2>3, <2>4 DEF TypeOK, Tmr, WheelType
<1>13. CallersHold'
  <2> SUFFICES ASSUME NEW e \in Callers, caller[e].pc # "idle"
               PROVE  /\ caller[e].tmr \in Timers
                      /\ tmr'[caller[e].tmr].state # "UNUSED"
                      /\ caller[e].dly \in Delays
    BY <1>1 DEF CallersHold, InUse
  <2>1. caller[e].tmr \in Timers /\ InUse(caller[e].tmr) /\ caller[e].dly \in Delays
    BY DEF IInv, CallersHold
  <2>2. caller[e].tmr # t BY <1>1 DEF Held
  <2> QED BY <1>9, <2>1, <2>2 DEF InUse
<1>14. Walk'
  <2>1. \A x \in Timers : ~Due(x) BY <1>1 DEF IInv, Walk
  <2>2. \A x \in Timers : tmr'[x].state = "RUNNING" /\ tmr'[x].match = OSTmrTime
          => FALSE
    BY <1>6, <1>7, <1>9, <2>1 DEF Due, Same
  <2> QED BY <1>1, <2>2 DEF Walk, Due
<1>15. Linked'
  <2>1. WellLinked(tmr, first, entries, spokes)' BY <1>8, NextLists
  <2> QED BY <1>11, <2>1 DEF Linked
<1> QED BY <1>12, <1>13, <1>14, <1>15 DEF IInv

(* The tick and the timer task.                                            *)
LEMMA SignalKeeps ==
  ASSUME IInv, OSTmrSignal
  PROVE  IInv'
<1>1. /\ UNCHANGED <<tmr, first, entries, spokes, OSTmrFreeList, unused>>
      /\ UNCHANGED <<OSTmrTime, walking, ptmr, caller>>
      /\ signal' \in 0..MAX_SIGNAL
  <2>1. signal \in 0..MAX_SIGNAL /\ MAX_SIGNAL \in Nat
    BY UseAssumption DEF IInv, TypeOK
  <2> QED BY <2>1 DEF OSTmrSignal, lists, pool
<1>2. TypeOK' BY <1>1 DEF IInv, TypeOK, InUse
<1>3. Linked'
  <2>1. WellLinked(tmr, first, entries, spokes)' BY <1>1, NextLists DEF IInv, Linked
  <2>2. FreeLinked' BY <1>1 DEF IInv, Linked, FreeLinked, InUse
  <2> QED BY <2>1, <2>2 DEF Linked
<1>4. CallersHold' /\ Walk' BY <1>1 DEF IInv, CallersHold, InUse, Walk, Due
<1> QED BY <1>2, <1>3, <1>4 DEF IInv

(* A step of the task that leaves the lists alone.                         *)
LEMMA TaskLeaves ==
  ASSUME IInv, UNCHANGED <<lists, pool, caller>>,
         OSTmrTime' \in Matches, signal' \in 0..MAX_SIGNAL,
         walking' \in BOOLEAN, ptmr' \in Pointers
  PROVE  TypeOK' /\ Linked' /\ CallersHold'
<1>1. UNCHANGED <<tmr, first, entries, spokes>> BY DEF lists
<1>2. WellLinked(tmr', first', entries', spokes') BY <1>1 DEF IInv, Linked
<1>3. CallersGoOn BY CallersStay
<1>4. \A x \in Timers : /\ InUse(x)' <=> InUse(x)
                        /\ ~InUse(x) => tmr'[x] = tmr[x]
                        /\ tmr'[x].dly \in Delays \cup {tmr[x].dly}
  BY <1>1 DEF InUse
<1> QED BY <1>2, <1>3, <1>4, RestKeeps

(* The spoke the task walks, in the state before the step.                 *)
Here == spokes[Spoke(OSTmrTime)]

LEMMA WalkedSpoke ==
  ASSUME IInv
  PROVE  /\ Spoke(OSTmrTime) \in Spokes /\ Here \in Seq(Timers) /\ Len(Here) \in Nat
         /\ \A i \in 1..Len(Here) :
              /\ Here[i] \in Running(tmr, Spoke(OSTmrTime)) /\ Here[i] # NULL
              /\ tmr[Here[i]].next = Next1(Here, i)
         /\ \A i, j \in 1..Len(Here) : Here[i] = Here[j] => i = j
         /\ \A x \in Running(tmr, Spoke(OSTmrTime)) : \E i \in 1..Len(Here) : Here[i] = x
         /\ first[Spoke(OSTmrTime)] = IF Len(Here) = 0 THEN NULL ELSE Here[1]
         /\ \A x \in Timers : Due(x) => x \in Running(tmr, Spoke(OSTmrTime))
<1> DEFINE s == Spoke(OSTmrTime)
<1>1. s \in Spokes
  <2>1. OSTmrTime \in Nat BY Sizes DEF IInv, TypeOK
  <2> QED BY <2>1, ClockRange
<1>2. WellLinked(tmr, first, entries, spokes) BY DEF IInv, Linked
<1> HIDE DEF s
<1>3. LET q == spokes[s]
      IN  /\ q \in Seq(Timers) /\ Len(q) \in Nat
          /\ \A i \in 1..Len(q) :
               q[i] \in Running(tmr, s) /\ tmr[q[i]].next = Next1(q, i)
          /\ \A i, j \in 1..Len(q) : q[i] = q[j] => i = j
          /\ \A x \in Running(tmr, s) : \E i \in 1..Len(q) : q[i] = x
          /\ first[s] = IF q = <<>> THEN NULL ELSE q[1]
  BY <1>1, <1>2, Places
<1>4. spokes[s] = <<>> <=> Len(spokes[s]) = 0 BY <1>3
<1>5. \A x \in Running(tmr, s) : x # NULL BY DEF Running, Timers, NULL
<1>6. \A x \in Timers : Due(x) => x \in Running(tmr, s) BY DEF Due, Running, s
<1> QED BY <1>1, <1>3, <1>4, <1>5, <1>6 DEF Here, s

LEMMA TurnKeeps ==
  ASSUME IInv, TaskTurn
  PROVE  IInv'
<1>1. /\ signal > 0 /\ signal' = signal - 1 /\ walking' = TRUE
      /\ OSTmrTime' = (OSTmrTime + 1) % TIME_MOD
      /\ ptmr' = first[Spoke(OSTmrTime')] /\ UNCHANGED <<lists, pool, caller>>
      /\ UNCHANGED <<tmr, first, entries, spokes>>
  BY DEF TaskTurn, lists
<1>2. OSTmrTime' \in Matches
  <2>1. OSTmrTime + 1 \in Nat BY Sizes DEF IInv, TypeOK
  <2> QED BY <1>1, <2>1, ClockRange DEF Matches
<1>3. ptmr' \in Pointers
  <2>1. OSTmrTime' \in Nat BY <1>2, Sizes DEF Matches
  <2>2. Spoke(OSTmrTime') \in Spokes BY <2>1, ClockRange
  <2> QED BY <1>1, <2>2 DEF IInv, TypeOK
<1>4. TypeOK' /\ Linked' /\ CallersHold'
  <2>1. signal' \in 0..MAX_SIGNAL
    BY <1>1, UseAssumption DEF IInv, TypeOK
  <2> QED BY <1>1, <1>2, <1>3, <2>1, TaskLeaves
<1>5. Walk'
  <2> DEFINE s == Spoke(OSTmrTime')
             q == spokes[s]
  <2>1. s \in Spokes
    <3>1. OSTmrTime' \in Nat BY <1>2, Sizes DEF Matches
    <3> QED BY <3>1, ClockRange
  <2> HIDE DEF s
  <2>2. /\ Len(q) \in Nat /\ q \in Seq(Timers)
        /\ first[s] = IF q = <<>> THEN NULL ELSE q[1]
    <3>1. WellLinked(tmr, first, entries, spokes) BY DEF IInv, Linked
    <3> QED BY <2>1, <3>1, Places
  <2>3. q = <<>> <=> Len(q) = 0 BY <2>2
  <2>4. 1 \in 1..(Len(q) + 1) /\ ptmr' = IF 1 = Len(q) + 1 THEN NULL ELSE q[1]
    <3>1. ptmr' = first[s] BY <1>1 DEF s
    <3>2. 1 = Len(q) + 1 <=> q = <<>> BY <2>2, <2>3
    <3>3. 1 \in 1..(Len(q) + 1) BY <2>2
    <3> HIDE DEF q
    <3> QED BY <2>2, <3>1, <3>2, <3>3
  <2>5. q = spokes'[Spoke(OSTmrTime')] BY <1>1 DEF s
  <2>6. \A i \in 1..(1 - 1) : FALSE OBVIOUS
  <2> QED BY <1>1, <2>4, <2>5, <2>6 DEF Walk
<1> QED BY <1>4, <1>5 DEF IInv

LEMMA PassKeeps ==
  ASSUME IInv, TaskPass
  PROVE  IInv'
<1> DEFINE q == Here
<1>1. /\ walking /\ ptmr # NULL /\ tmr[ptmr].match # OSTmrTime
      /\ ptmr' = tmr[ptmr].next
      /\ UNCHANGED <<OSTmrTime, signal, walking, lists, pool, caller>>
      /\ UNCHANGED <<tmr, first, entries, spokes>>
  BY DEF TaskPass, lists
<1>2. PICK k \in 1..Len(q) :
        ptmr = q[k] /\ \A i \in 1..(k - 1) : ~Due(q[i])
  BY <1>1, WalkedSpoke DEF IInv, Walk, Here
<1>3. ptmr' = IF k = Len(q) THEN NULL ELSE q[k + 1]
  BY <1>1, <1>2, WalkedSpoke DEF Next1
<1>4. Walk'
  <2>1. /\ k + 1 \in 1..(Len(q) + 1)
        /\ ptmr' = IF k + 1 = Len(q) + 1 THEN NULL ELSE q[k + 1]
    BY <1>2, <1>3, WalkedSpoke
  <2>2. ASSUME NEW i \in 1..(k + 1 - 1) PROVE ~Due(q[i])
    <3>1. CASE i = k BY <1>1, <1>2, <3>1 DEF Due
    <3>2. CASE i # k
      <4>1. i \in 1..(k - 1) BY <1>2, <3>2, WalkedSpoke
      <4> QED BY <1>2, <4>1
    <3> QED BY <3>1, <3>2
  <2>3. \A i \in 1..(k + 1 - 1) :
          ~(tmr'[q[i]].state = "RUNNING" /\ tmr'[q[i]].match = OSTmrTime')
    BY <1>1, <2>2 DEF Due
  <2>4. q = spokes'[Spoke(OSTmrTime')] BY <1>1 DEF Here
  <2> HIDE DEF q
  <2> DEFINE n == k + 1
  <2>5. /\ n \in 1..(Len(q) + 1)
        /\ ptmr' = IF n = Len(q) + 1 THEN NULL ELSE q[n]
        /\ \A i \in 1..(n - 1) :
             ~(tmr'[q[i]].state = "RUNNING" /\ tmr'[q[i]].match = OSTmrTime')
    BY <2>1, <2>3
  <2> HIDE DEF n
  <2>6. walking' BY <1>1
  <2> QED BY <2>4, <2>5, <2>6 DEF Walk, Due
<1>5. TypeOK' /\ Linked' /\ CallersHold'
  <2>1. /\ OSTmrTime' \in Matches /\ signal' \in 0..MAX_SIGNAL /\ walking' \in BOOLEAN
    BY <1>1 DEF IInv, TypeOK, Matches
  <2>2. ptmr' \in Pointers
    <3>1. ptmr \in Timers BY <1>1 DEF IInv, TypeOK, Pointers
    <3> QED BY <1>1, <3>1 DEF IInv, TypeOK
  <2> QED BY <1>1, <2>1, <2>2, TaskLeaves
<1> QED BY <1>4, <1>5 DEF IInv

LEMMA DoneKeeps ==
  ASSUME IInv, TaskDone
  PROVE  IInv'
<1> DEFINE q == Here
<1>1. /\ walking /\ ptmr = NULL /\ walking' = FALSE
      /\ UNCHANGED <<OSTmrTime, signal, ptmr, lists, pool, caller>>
      /\ UNCHANGED <<tmr, first, entries, spokes>>
  BY DEF TaskDone, lists
<1>2. \A i \in 1..Len(q) : ~Due(q[i])
  <2>1. PICK k \in 1..(Len(q) + 1) :
          /\ ptmr = IF k = Len(q) + 1 THEN NULL ELSE q[k]
          /\ \A i \in 1..(k - 1) : ~Due(q[i])
    BY <1>1 DEF IInv, Walk, Here
  <2>2. k = Len(q) + 1 BY <1>1, <2>1, WalkedSpoke
  <2>3. \A i \in 1..Len(q) : i \in 1..(k - 1) BY <2>2, WalkedSpoke
  <2> QED BY <2>1, <2>3
<1>3. \A x \in Timers : ~Due(x) BY <1>2, WalkedSpoke
<1>4. Walk' BY <1>1, <1>3 DEF Walk, Due
<1>5. TypeOK' /\ Linked' /\ CallersHold'
  <2>1. /\ OSTmrTime' \in Matches /\ signal' \in 0..MAX_SIGNAL
        /\ walking' \in BOOLEAN /\ ptmr' \in Pointers
    BY <1>1 DEF IInv, TypeOK, Matches
  <2> QED BY <1>1, <2>1, TaskLeaves
<1> QED BY <1>4, <1>5 DEF IInv

(* The timer the task is at falls due: it is taken out, and a periodic one *)
(* is linked anew; the task stays between the same two timers.             *)
Expired(t) ==
  /\ t \in Timers /\ tmr[t].state = "RUNNING" /\ tmr[t].match = OSTmrTime
  /\ WellLinked(tmr', first', entries', spokes')
  /\ \A x \in Timers \ {t} :
       Same(tmr', tmr, x) /\ (tmr[x].state # "RUNNING" => tmr'[x] = tmr[x])
  /\ tmr'[t].dly = tmr[t].dly /\ tmr'[t].state # "UNUSED"
  /\ tmr'[t].state = "RUNNING" =>
       tmr'[t].match = (tmr[t].dly + OSTmrTime) % TIME_MOD
  /\ \E p \in {Without(Here, t), <<t>> \o Without(Here, t)} :
       spokes'[Spoke(OSTmrTime)] = p

LEMMA ExpireChanges ==
  ASSUME IInv, TaskExpire, NEW k \in 1..Len(Here), ptmr = Here[k]
  PROVE  Expired(ptmr)
<1> DEFINE t == ptmr
           s == Spoke(OSTmrTime)
           u == OSTmr_Unlink(Lists, t)
           T == u.tmr
           F == u.first
           N == u.entries
           P == u.spokes
<1>1. /\ tmr[t].match = OSTmrTime /\ OSTmrTime' = OSTmrTime
      /\ Become(IF tmr[t].opt = "PERIODIC" THEN OSTmr_Link(u, t)
                ELSE [u EXCEPT !.tmr[t].state = "COMPLETED"])
  BY DEF TaskExpire
<1>2. /\ t \in Timers /\ tmr[t].state = "RUNNING" /\ s \in Spokes
      /\ WellLinked(tmr, first, entries, spokes)
  BY WalkedSpoke DEF Running, IInv, Linked
<1>3. /\ OSTmrTime \in 0..(TIME_MOD - 1) /\ tmr[t].dly \in Delays
      /\ spokes \in [Spokes -> Seq(Timers)]
  BY <1>2 DEF IInv, TypeOK, InUse
<1>4. UnlinkedFrom(tmr, first, entries, spokes, t, T, F, N, P)
  BY UnlinkIs DEF Lists
<1>5. P = [spokes EXCEPT ![s] = Without(Here, t)]
  BY <1>1 DEF OSTmr_Unlink, Lists, Here
<1>6. CASE tmr[t].opt = "PERIODIC"
  <2> DEFINE m == (tmr[t].dly + OSTmrTime) % TIME_MOD
  <2>1. Become(OSTmr_Link(u, t)) BY <1>1, <1>6
  <2>2. LinkedFor(T, F, N, P, t, (T[t].dly + OSTmrTime') % TIME_MOD,
                  tmr', first', entries', spokes')
    <3> HIDE DEF u
    <3> QED BY <2>1, LinkIs DEF Become
  <2> HIDE DEF u, T, F, N, P
  <2>3. NowStopped(tmr, t, T, F, N, P) BY <1>2, <1>4, UnlinkKeeps
  <2>4. /\ WellLinked(T, F, N, P) /\ T[t].state # "RUNNING"
        /\ T[t].dly = tmr[t].dly
        /\ \A x \in Timers \ {t} :
             Same(T, tmr, x) /\ (tmr[x].state # "RUNNING" => T[x] = tmr[x])
    BY <2>3 DEF NowStopped
  <2>5. LinkedFor(T, F, N, P, t, m, tmr', first', entries', spokes')
    BY <1>1, <2>2, <2>4
  <2>6. m \in Matches BY <1>3, Fresh DEF Matches
  <2> HIDE DEF m
  <2>7. NowRuns(T, t, m, tmr', first', entries', spokes')
    BY <1>2, <2>4, <2>5, <2>6, LinkKeeps
  <2>8. \E p \in {Without(Here, t), <<t>> \o Without(Here, t)} : spokes'[s] = p
    <3> DEFINE z == Spoke(m)
    <3>1. spokes' = [P EXCEPT ![z] = <<t>> \o P[z]] BY <2>5 DEF LinkedFor
    <3>2. P[s] = Without(Here, t) /\ DOMAIN P = Spokes BY <1>2, <1>3, <1>5
    <3> HIDE DEF z
    <3>3. spokes'[s] = IF z = s THEN <<t>> \o P[s] ELSE P[s] BY <1>2, <3>1, <3>2
    <3> QED BY <3>2, <3>3
  <2>9. /\ tmr'[t].state = "RUNNING" /\ tmr'[t].match = m /\ tmr'[t].dly = tmr[t].dly
        /\ WellLinked(tmr', first', entries', spokes')
        /\ \A x \in Timers \ {t} :
             Same(tmr', T, x) /\ (T[x].state # "RUNNING" => tmr'[x] = T[x])
    BY <2>4, <2>7 DEF NowRuns
  <2>10. \A x \in Timers \ {t} :
           Same(tmr', tmr, x) /\ (tmr[x].state # "RUNNING" => tmr'[x] = tmr[x])
    BY <2>4, <2>9 DEF Same
  <2> QED BY <1>1, <1>2, <2>8, <2>9, <2>10 DEF Expired, m, s
<1>7. CASE tmr[t].opt # "PERIODIC"
  <2>1. /\ tmr' = [T EXCEPT ![t].state = "COMPLETED"]
        /\ first' = F /\ entries' = N /\ spokes' = P
    BY <1>1, <1>7 DEF Become, OSTmr_Unlink
  <2> HIDE DEF u, T, F, N, P
  <2>2. NowStopped(tmr, t, T, F, N, P) BY <1>2, <1>4, UnlinkKeeps
  <2>3. /\ WellLinked(T, F, N, P) /\ T[t].state = "STOPPED"
        /\ T[t].dly = tmr[t].dly /\ T \in [Timers -> Tmr]
        /\ \A x \in Timers \ {t} :
             Same(T, tmr, x) /\ (tmr[x].state # "RUNNING" => T[x] = tmr[x])
    BY <2>2 DEF NowStopped, WellLinked
  <2>4. /\ tmr' \in [Timers -> Tmr] /\ tmr'[t] = [T[t] EXCEPT !.state = "COMPLETED"]
        /\ \A x \in Timers \ {t} : tmr'[x] = T[x]
    <3>1. [T[t] EXCEPT !.state = "COMPLETED"] \in Tmr
      BY <1>2, <2>3 DEF Tmr, States
    <3> QED BY <1>2, <2>1, <2>3, <3>1
  <2>5. tmr'[t].state = "COMPLETED" /\ tmr'[t].dly = tmr[t].dly
    BY <1>2, <2>3, <2>4 DEF Tmr
  <2>6. WellLinked(tmr', first', entries', spokes')
    <3>1. WellLinked(tmr', F, N, P)
      <4>1. \A x \in Timers :
              /\ tmr'[x].state = "RUNNING" <=> T[x].state = "RUNNING"
              /\ T[x].state = "RUNNING" =>
                   /\ tmr'[x].match = T[x].match /\ tmr'[x].next = T[x].next
                   /\ tmr'[x].prev = T[x].prev
        BY <2>3, <2>4, <2>5
      <4>2. tmr' \in [Timers -> Tmr] /\ WellLinked(T, F, N, P) BY <2>3, <2>4
      <4> QED BY <4>1, <4>2, TouchKeeps
    <3> QED BY <2>1, <3>1
  <2>7. \A x \in Timers \ {t} :
          Same(tmr', tmr, x) /\ (tmr[x].state # "RUNNING" => tmr'[x] = tmr[x])
    BY <2>3, <2>4 DEF Same
  <2>8. \E p \in {Without(Here, t), <<t>> \o Without(Here, t)} : spokes'[s] = p
    BY <1>2, <1>3, <1>5, <2>1
  <2> QED BY <1>1, <1>2, <2>5, <2>6, <2>7, <2>8 DEF Expired, s
<1> QED BY <1>6, <1>7

LEMMA ExpireKeeps ==
  ASSUME IInv, TaskExpire
  PROVE  IInv'
<1> DEFINE q == Here
           t == ptmr
           s == Spoke(OSTmrTime)
<1>1. /\ walking /\ t # NULL /\ ptmr' = tmr[t].next
      /\ UNCHANGED <<OSTmrTime, signal, walking, pool, caller>>
  BY DEF TaskExpire
<1>2. PICK k \in 1..Len(q) : t = q[k] /\ \A i \in 1..(k - 1) : ~Due(q[i])
  BY <1>1, WalkedSpoke DEF IInv, Walk, Here
<1>3. Expired(t) BY <1>2, ExpireChanges
<1>4. ptmr' = IF k = Len(q) THEN NULL ELSE q[k + 1]
  BY <1>1, <1>2, WalkedSpoke DEF Next1
<1>5. TypeOK' /\ Linked' /\ CallersHold'
  <2>1. \A x \in Timers : /\ InUse(x)' <=> InUse(x)
                          /\ ~InUse(x) => tmr'[x] = tmr[x]
                          /\ tmr'[x].dly \in Delays \cup {tmr[x].dly}
    BY <1>3 DEF Expired, InUse, Same
  <2>2. /\ OSTmrTime' \in Matches /\ signal' \in 0..MAX_SIGNAL /\ walking' \in BOOLEAN
    BY <1>1 DEF IInv, TypeOK, Matches
  <2>3. ptmr' \in Pointers BY <1>1, <1>3 DEF IInv, TypeOK, Expired
  <2>4. WellLinked(tmr', first', entries', spokes') BY <1>3 DEF Expired
  <2> QED BY <1>1, <2>1, <2>2, <2>3, <2>4, CallersStay, RestKeeps
<1>6. \A x \in Timers : tmr'[x].state = "RUNNING" /\ tmr'[x].match = OSTmrTime
        => x # t /\ Due(x)
  <2> SUFFICES ASSUME NEW x \in Timers, tmr'[x].state = "RUNNING",
                      tmr'[x].match = OSTmrTime
               PROVE  x # t /\ Due(x)
    OBVIOUS
  <2>1. x # t
    <3> SUFFICES ASSUME x = t PROVE FALSE OBVIOUS
    <3>1. tmr'[t].match = (tmr[t].dly + OSTmrTime) % TIME_MOD BY <1>3 DEF Expired
    <3>2. tmr[t].dly \in Delays /\ OSTmrTime \in 0..(TIME_MOD - 1)
      BY <1>3 DEF Expired, InUse, IInv, TypeOK
    <3> QED BY <3>1, <3>2, Fresh
  <2> QED BY <1>3, <2>1 DEF Expired, Same, Due
<1>7. Walk'
  <2> DEFINE r == Without(q, t)
             p == spokes'[s]
  <2>1. /\ r \in Seq(Timers) /\ Len(r) = Len(q) - 1 /\ Len(q) \in Nat
        /\ \A i \in 1..(Len(q) - 1) : r[i] = IF i < k THEN q[i] ELSE q[i + 1]
    <3>1. IsInjective(q) /\ q \in Seq(Timers) /\ Len(q) \in Nat
      BY WalkedSpoke DEF IInv, Linked, WellLinked, SpokeLinked, Here
    <3> QED BY <1>2, <3>1, WithoutOne
  <2>2. p = r \/ p = <<t>> \o r BY <1>3 DEF Expired
  <2> HIDE DEF r
  <2>3. \E n \in 1..(Len(p) + 1) :
          /\ ptmr' = IF n = Len(p) + 1 THEN NULL ELSE p[n]
          /\ \A i \in 1..(n - 1) : p[i] = t \/ \E j \in 1..(k - 1) : p[i] = q[j]
    <3>1. CASE p = r
      <4>1. k \in 1..(Len(r) + 1) BY <1>2, <2>1
      <4>2. ptmr' = IF k = Len(r) + 1 THEN NULL ELSE r[k] BY <1>2, <1>4, <2>1
      <4>3. \A i \in 1..(k - 1) : r[i] = q[i] BY <1>2, <2>1
      <4> QED BY <3>1, <4>1, <4>2, <4>3
    <3>2. CASE p = <<t>> \o r
      <4>0. /\ Len(p) = Len(q) /\ p[1] = t
            /\ \A i \in 2..Len(q) : p[i] = r[i - 1]
        BY <1>2, <2>1, <3>2
      <4> HIDE DEF p
      <4> DEFINE n == k + 1
      <4>1. n \in 1..(Len(p) + 1) /\ n \in Nat BY <1>2, <2>1, <4>0
      <4>2. ptmr' = IF n = Len(p) + 1 THEN NULL ELSE p[n]
        <5>1. n = Len(p) + 1 <=> k = Len(q) BY <1>2, <2>1, <4>0
        <5>2. k # Len(q) => p[n] = q[k + 1]
          <6>1. k # Len(q) => k + 1 \in 2..Len(q) /\ k \in 1..(Len(q) - 1) /\ ~(k < k)
            BY <1>2, <2>1
          <6>2. k # Len(q) => p[n] = r[k + 1 - 1] /\ r[k] = q[k + 1] BY <2>1, <4>0, <6>1
          <6> QED BY <1>2, <2>1, <6>2
        <5> QED BY <1>4, <5>1, <5>2
      <4>3. ASSUME NEW i \in 1..(n - 1)
            PROVE  p[i] = t \/ \E j \in 1..(k - 1) : p[i] = q[j]
        <5>1. CASE i = 1 BY <4>0, <5>1
        <5>2. CASE i # 1
          <6>1. i \in 2..Len(q) /\ i - 1 \in 1..(Len(q) - 1) /\ i - 1 < k
                /\ i - 1 \in 1..(k - 1)
            BY <1>2, <2>1, <5>2
          <6>2. p[i] = q[i - 1] BY <2>1, <4>0, <6>1
          <6> QED BY <6>1, <6>2
        <5> QED BY <5>1, <5>2
      <4> HIDE DEF n
      <4> QED BY <4>1, <4>2, <4>3
    <3> QED BY <2>2, <3>1, <3>2
  <2>4. p \in Seq(Timers)
    <3>1. spokes' \in [Spokes -> Seq(Timers)] BY <1>3 DEF Expired, WellLinked
    <3>2. s \in Spokes BY WalkedSpoke
    <3> QED BY <3>1, <3>2
  <2>5. walking' /\ p = spokes'[Spoke(OSTmrTime')] /\ OSTmrTime' = OSTmrTime BY <1>1
  <2> HIDE DEF p
  <2>6. PICK n \in 1..(Len(p) + 1) :
          /\ ptmr' = IF n = Len(p) + 1 THEN NULL ELSE p[n]
          /\ \A i \in 1..(n - 1) : p[i] = t \/ \E j \in 1..(k - 1) : p[i] = q[j]
    BY <2>3
  <2>7. ASSUME NEW i \in 1..(n - 1)
        PROVE  ~(tmr'[p[i]].state = "RUNNING" /\ tmr'[p[i]].match = OSTmrTime')
    <3>1. p[i] \in Timers
      <4>1. i \in 1..Len(p) BY <2>4, <2>6
      <4> QED BY <2>4, <4>1
    <3>2. p[i] = t \/ ~Due(p[i]) BY <1>2, <2>6
    <3> QED BY <1>6, <2>5, <3>1, <3>2
  <2> QED BY <2>5, <2>6, <2>7 DEF Walk, Due
<1> QED BY <1>5, <1>7 DEF IInv

-----------------------------------------------------------------------------
(* The invariant holds at the start and in every step.                     *)
LEMMA InitHolds == Init => IInv
<1> SUFFICES ASSUME Init PROVE IInv OBVIOUS
<1>1. /\ 0 \in 0..(TIME_MOD - 1) /\ NULL \in Pointers /\ 1 \in Timers
      /\ TIMER_MAX \in Nat \ {0} /\ MAX_SIGNAL \in Nat
  BY Sizes, UseAssumption DEF Pointers, Timers
<1>2. /\ tmr \in [Timers -> Tmr]
      /\ \A t \in Timers :
           /\ tmr[t].state = "UNUSED" /\ tmr[t].prev = NULL
           /\ tmr[t].next = IF t = TIMER_MAX THEN NULL ELSE t + 1
  <2>1. \A t \in Timers : (IF t = TIMER_MAX THEN NULL ELSE t + 1) \in Pointers
    BY <1>1 DEF Pointers, Timers, NULL
  <2>2. tmr = [t \in Timers |->
                 [state |-> "UNUSED", opt |-> "NONE", dly |-> 0, match |-> 0,
                  next |-> IF t = TIMER_MAX THEN NULL ELSE t + 1, prev |-> NULL]]
    BY DEF Init
  <2> QED BY <1>1, <2>1, <2>2 DEF Tmr, States
<1>3. /\ unused \in Seq(Timers) /\ Len(unused) = TIMER_MAX
      /\ DOMAIN unused = 1..TIMER_MAX /\ \A i \in 1..TIMER_MAX : unused[i] = i
  BY <1>1 DEF Init, Timers
<1>4. IsInjective(unused) /\ Range(unused) = Timers
  BY <1>3 DEF IsInjective, Range, Timers
<1>5. /\ \A s \in Spokes : first[s] = NULL /\ entries[s] = 0 /\ spokes[s] = <<>>
      /\ first \in [Spokes -> Pointers] /\ entries \in [Spokes -> Nat]
      /\ spokes \in [Spokes -> Seq(Timers)]
      /\ OSTmrFreeList = 1 /\ OSTmrTime = 0 /\ signal = 0 /\ ~walking
      /\ walking \in BOOLEAN /\ ptmr = NULL
  <2>1. /\ first = [s \in Spokes |-> NULL] /\ entries = [s \in Spokes |-> 0]
        /\ spokes = [s \in Spokes |-> <<>>]
    BY DEF Init
  <2>2. /\ \A s \in Spokes : first[s] = NULL /\ entries[s] = 0 /\ spokes[s] = <<>>
        /\ first \in [Spokes -> Pointers] /\ entries \in [Spokes -> Nat]
        /\ spokes \in [Spokes -> Seq(Timers)]
    BY <1>1, <2>1
  <2> QED BY <2>2 DEF Init
<1>6. caller \in WheelType /\ \A c \in Callers : caller[c].pc = "idle"
  BY <1>1 DEF Init, WheelType
<1>7. TypeOK
  BY <1>1, <1>2, <1>3, <1>5, <1>6 DEF TypeOK, InUse, Tmr, WheelType, Pointers
<1>8. FreeLinked
  <2>1. OSTmrFreeList = IF unused = <<>> THEN NULL ELSE unused[1]
    <3>1. unused # <<>> BY <1>1, <1>3
    <3> QED BY <1>1, <1>3, <1>5, <3>1
  <2>2. \A i \in 1..Len(unused) : tmr[unused[i]].next = Next1(unused, i)
    <3>1. \A i \in 1..TIMER_MAX :
            tmr[i].next = IF i = TIMER_MAX THEN NULL ELSE i + 1
      BY <1>2 DEF Timers
    <3>2. \A i \in 1..TIMER_MAX : i # TIMER_MAX => unused[i + 1] = i + 1
      BY <1>1, <1>3
    <3> QED BY <1>3, <3>1, <3>2 DEF Next1
  <2>3. Range(unused) = {t \in Timers : ~InUse(t)} BY <1>2, <1>4 DEF InUse
  <2> QED BY <1>1, <1>3, <1>4, <1>5, <2>1, <2>2, <2>3 DEF FreeLinked, Pointers
<1>9. WellLinked(tmr, first, entries, spokes)
  <2> SUFFICES ASSUME NEW s \in Spokes
               PROVE  SpokeLinked(tmr, first, entries, s, spokes[s])
    BY <1>2, <1>5 DEF WellLinked
  <2>1. Running(tmr, s) = {} BY <1>2 DEF Running
  <2>2. IsInjective(<<>>) /\ Range(<<>>) = {} /\ Len(<<>>) = 0 /\ <<>> \in Seq(Timers)
    BY DEF IsInjective, Range
  <2> QED BY <1>5, <2>1, <2>2 DEF SpokeLinked
<1>10. CallersHold /\ Walk BY <1>2, <1>5, <1>6 DEF CallersHold, Walk, Due
<1> QED BY <1>7, <1>8, <1>9, <1>10 DEF IInv, Linked

LEMMA StepKeeps == IInv /\ [Next]_vars => IInv'
<1> SUFFICES ASSUME IInv, [Next]_vars PROVE IInv' OBVIOUS
<1>1. CASE OSTmrSignal BY <1>1, SignalKeeps
<1>2. CASE OSTmr_Task
  BY <1>2, TurnKeeps, ExpireKeeps, PassKeeps, DoneKeeps DEF OSTmr_Task
<1>3. ASSUME NEW t \in Timers, add_timer(t) PROVE IInv' BY <1>3, AddKeeps
<1>4. ASSUME NEW t \in Timers, del_timer(t) PROVE IInv' BY <1>4, DelKeeps
<1>5. ASSUME NEW t \in Timers, timer_free(t) PROVE IInv' BY <1>5, FreedKeeps
<1>6. ASSUME NEW t \in Timers, NEW d \in Delays, NEW o \in Opts, timer_setup(t, d, o)
      PROVE  IInv'
  BY <1>6, CreateKeeps
<1>7. ASSUME NEW c \in Callers, NEW t \in Timers, NEW d \in Delays, ModPending(c, t, d)
      PROVE  IInv'
  BY <1>7, ModPendingKeeps
<1>8. ASSUME NEW c \in Callers, mod_timer(c) PROVE IInv'
  BY <1>8, ModSetKeeps, ModStartKeeps DEF mod_timer
<1>9. CASE UNCHANGED vars
  <2>1. /\ UNCHANGED <<tmr, first, entries, spokes, OSTmrFreeList, unused>>
        /\ UNCHANGED <<OSTmrTime, signal, walking, ptmr, caller>>
    BY <1>9 DEF vars, lists, pool, task
  <2>2. TypeOK' BY <2>1 DEF IInv, TypeOK, InUse
  <2>3. WellLinked(tmr, first, entries, spokes)' BY <2>1, NextLists DEF IInv, Linked
  <2>4. FreeLinked' BY <2>1 DEF IInv, Linked, FreeLinked, InUse
  <2>5. CallersHold' /\ Walk' BY <2>1 DEF IInv, CallersHold, InUse, Walk, Due
  <2> QED BY <2>2, <2>3, <2>4, <2>5 DEF IInv, Linked
<1> QED BY <1>1, <1>2, <1>3, <1>4, <1>5, <1>6, <1>7, <1>8, <1>9 DEF Next

LEMMA Invariant == Spec => []IInv
<1>1. IInv /\ [Next]_vars => IInv' BY StepKeeps
<1> QED BY <1>1, InitHolds, PTL DEF Spec

(* os_tmr.c and timer.c keep every field in its type, and a timer in use   *)
(* has a delay, for any number of timers, spokes and callers.              *)
THEOREM TypesHold == Spec => []TypeOK
<1>1. IInv => TypeOK BY DEF IInv
<1> QED BY <1>1, Invariant, PTL

(* No order of starts, stops, frees and expiries, also in the middle of    *)
(* the task's walk, breaks a list of the wheel or the free list.           *)
THEOREM WheelStaysConsistent == Spec => []WheelConsistent
<1>1. ASSUME IInv PROVE WheelConsistent
  <2>1. ASSUME NEW s \in Spokes
        PROVE  LET q == spokes[s]
               IN  /\ IsInjective(q) /\ Chain(first[s], q) /\ entries[s] = Len(q)
                   /\ Range(q) = Running(tmr, s)
                   /\ \A i \in 1..Len(q) : tmr[q[i]].prev = Prev1(q, i)
    BY <1>1 DEF IInv, Linked, WellLinked, SpokeLinked, Chain, Next1
  <2>2. /\ IsInjective(unused) /\ Chain(OSTmrFreeList, unused)
        /\ Range(unused) = {t \in Timers : ~InUse(t)}
    BY <1>1 DEF IInv, Linked, FreeLinked, Chain, Next1
  <2> QED BY <1>1, <2>1, <2>2 DEF WheelConsistent, IInv, Running, Prev1
<1> QED BY <1>1, Invariant, PTL

-----------------------------------------------------------------------------
(* The wheel implements the safety of TimerService.                        *)
LeftOf(T, n, t) ==
  IF T[t].state = "RUNNING" THEN (T[t].match - n) % TIME_MOD ELSE -1

LEMMA LeftIs ==
  /\ Left = [t \in Timers |-> LeftOf(tmr, OSTmrTime, t)]
  /\ Left' = [t \in Timers |-> LeftOf(tmr', OSTmrTime', t)]
BY DEF Left, LeftOf

(* A timer has nothing left exactly when it is due.                        *)
LEMMA NothingLeft ==
  ASSUME IInv, NEW t \in Timers
  PROVE  Left[t] = 0 <=> Due(t)
<1>1. tmr[t] \in Tmr /\ OSTmrTime \in 0..(TIME_MOD - 1) /\ TIME_MOD \in Nat \ {0}
  BY Sizes DEF IInv, TypeOK, Linked, WellLinked
<1>2. tmr[t].match \in 0..(TIME_MOD - 1) BY <1>1 DEF Tmr
<1>3. (tmr[t].match - OSTmrTime) % TIME_MOD =
        IF tmr[t].match >= OSTmrTime THEN tmr[t].match - OSTmrTime
                                     ELSE tmr[t].match - OSTmrTime + TIME_MOD
  BY <1>1, <1>2, Difference
<1>4. Left[t] = IF tmr[t].state = "RUNNING"
                THEN (tmr[t].match - OSTmrTime) % TIME_MOD ELSE -1
  BY DEF Left
<1>5. (tmr[t].match - OSTmrTime) % TIME_MOD = 0 <=> tmr[t].match = OSTmrTime
  BY <1>1, <1>2, <1>3
<1> QED BY <1>4, <1>5 DEF Due

LEMMA NoneDueOutside ==
  ASSUME IInv, ~walking
  PROVE  Service!NoneDue
<1>1. \A t \in Timers : ~Due(t) BY DEF IInv, Walk
<1> QED BY <1>1, NothingLeft DEF Service!NoneDue

(* Timers that are the same have the same left.                            *)
LEMMA SameLeft ==
  ASSUME NEW S \in SUBSET Timers, OSTmrTime' = OSTmrTime,
         \A x \in S : /\ tmr'[x].state = tmr[x].state
                      /\ tmr[x].state = "RUNNING" => tmr'[x].match = tmr[x].match
  PROVE  \A x \in S : Left'[x] = Left[x]
BY LeftIs DEF LeftOf

LEMMA ChangedServes ==
  ASSUME IInv, NEW t \in Timers, Changed(t),
         tmr'[t].state = "RUNNING" => tmr[t].dly \in Delays
  PROVE  Service!Disarm(t) \/ \E d \in Delays : Service!Arm(t, d)
<1>1. ~walking /\ OSTmrTime' = OSTmrTime BY DEF Changed, task
<1>2. Service!NoneDue BY <1>1, NoneDueOutside
<1>3. \A x \in Timers \ {t} : Left'[x] = Left[x]
  <2>1. \A x \in Timers \ {t} :
          tmr'[x].state = tmr[x].state /\ tmr'[x].match = tmr[x].match
    BY DEF Changed, Same
  <2> QED BY <1>1, <2>1, SameLeft
<1>4. CASE tmr'[t].state = "RUNNING"
  <2> DEFINE d == tmr[t].dly
  <2>1. d \in Delays /\ OSTmrTime \in 0..(TIME_MOD - 1)
    BY <1>4 DEF IInv, TypeOK
  <2>2. tmr'[t].match = (d + OSTmrTime) % TIME_MOD BY <1>4 DEF Changed
  <2> HIDE DEF d
  <2>3. (((d + OSTmrTime) % TIME_MOD) - OSTmrTime) % TIME_MOD = d BY <2>1, Fresh
  <2>4. Left'[t] = d BY <1>1, <1>4, <2>2, <2>3, LeftIs DEF LeftOf
  <2>5. Left' = [Left EXCEPT ![t] = d] BY <1>3, <2>4, LeftIs
  <2> QED BY <1>2, <2>1, <2>5 DEF Service!Arm
<1>5. CASE tmr'[t].state # "RUNNING"
  <2>1. Left'[t] = -1 BY <1>5, LeftIs DEF LeftOf
  <2>2. Left' = [Left EXCEPT ![t] = -1] BY <1>3, <2>1, LeftIs
  <2> QED BY <1>2, <2>2 DEF Service!Disarm, Service!Off
<1> QED BY <1>4, <1>5

LEMMA StartServes ==
  ASSUME IInv, NEW t \in Timers, OSTmrStart(t)
  PROVE  Service!Disarm(t) \/ \E d \in Delays : Service!Arm(t, d)
<1>1. Changed(t) BY StartChanges
<1>2. tmr'[t].state = "RUNNING" => tmr[t].dly \in Delays
  BY <1>1 DEF Changed, InUse, IInv, TypeOK
<1> QED BY <1>1, <1>2, ChangedServes

(* A step that neither starts nor stops a timer is no step of the service. *)
LEMMA Stutters ==
  ASSUME OSTmrTime' = OSTmrTime,
         \A x \in Timers : /\ tmr'[x].state = "RUNNING" <=> tmr[x].state = "RUNNING"
                           /\ tmr[x].state = "RUNNING" => tmr'[x].match = tmr[x].match
  PROVE  UNCHANGED Left
BY LeftIs DEF LeftOf

LEMMA FreeServes ==
  ASSUME IInv, NEW t \in Timers, timer_free(t)
  PROVE  Service!Disarm(t)
<1> DEFINE w == IF tmr[t].state = "RUNNING" THEN OSTmr_Unlink(Lists, t) ELSE Lists
           T == w.tmr
<1>1. ~walking /\ OSTmrTime' = OSTmrTime
  BY DEF timer_free, OSTmrDel, SchedUnlocked, task
<1>2. tmr' = [T EXCEPT ![t] = [@ EXCEPT !.state = "UNUSED", !.opt = "NONE", !.match = 0,
                                        !.next = OSTmrFreeList, !.prev = NULL]]
  BY DEF timer_free, OSTmrDel, Become, OSTmr_Unlink, Lists
<1>3. T \in [Timers -> Tmr] /\ \A x \in Timers \ {t} : Same(T, tmr, x)
  <2>0. WellLinked(tmr, first, entries, spokes) BY DEF IInv, Linked
  <2>1. CASE tmr[t].state = "RUNNING"
    <3> DEFINE F == w.first
               N == w.entries
               P == w.spokes
    <3>1. UnlinkedFrom(tmr, first, entries, spokes, t, T, F, N, P)
      BY <2>1, UnlinkIs DEF Lists
    <3> HIDE DEF w, T, F, N, P
    <3>2. NowStopped(tmr, t, T, F, N, P) BY <2>0, <2>1, <3>1, UnlinkKeeps
    <3> QED BY <3>2 DEF NowStopped, WellLinked
  <2>2. CASE tmr[t].state # "RUNNING" BY <2>0, <2>2 DEF Lists, Same, WellLinked
  <2> QED BY <2>1, <2>2
<1> HIDE DEF w, T
<1>4. tmr'[t].state = "UNUSED" BY <1>2, <1>3 DEF Tmr
<1>5. \A x \in Timers \ {t} :
        tmr'[x].state = tmr[x].state /\ tmr'[x].match = tmr[x].match
  BY <1>2, <1>3 DEF Same
<1>6. \A x \in Timers \ {t} : Left'[x] = Left[x] BY <1>1, <1>5, SameLeft
<1>7. Left'[t] = -1 BY <1>4, LeftIs DEF LeftOf
<1>8. Left' = [Left EXCEPT ![t] = -1] BY <1>6, <1>7, LeftIs
<1> QED BY <1>1, <1>8, NoneDueOutside DEF Service!Disarm, Service!Off

LEMMA TurnServes ==
  ASSUME IInv, TaskTurn
  PROVE  Service!Tick
<1>1. ~walking /\ tmr' = tmr /\ OSTmrTime' = (OSTmrTime + 1) % TIME_MOD
  BY DEF TaskTurn, lists
<1>2. \A t \in Timers : ~Due(t) BY <1>1 DEF IInv, Walk
<1>3. ASSUME NEW t \in Timers
      PROVE  Left'[t] = IF Left[t] = -1 THEN -1 ELSE Left[t] - 1
  <2>1. CASE tmr[t].state # "RUNNING" BY <1>1, <2>1, LeftIs DEF LeftOf
  <2>2. CASE tmr[t].state = "RUNNING"
    <3> DEFINE m == tmr[t].match
    <3>1. m \in 0..(TIME_MOD - 1) /\ OSTmrTime \in 0..(TIME_MOD - 1) /\ m # OSTmrTime
      <4>1. tmr[t] \in Tmr BY DEF IInv, Linked, WellLinked
      <4> QED BY <1>2, <2>2, <4>1 DEF Tmr, Due, IInv, TypeOK
    <3>2. Left[t] = (m - OSTmrTime) % TIME_MOD BY <2>2, LeftIs DEF LeftOf
    <3>3. Left'[t] = (m - ((OSTmrTime + 1) % TIME_MOD)) % TIME_MOD
      BY <1>1, <2>2, LeftIs DEF LeftOf
    <3> HIDE DEF m
    <3>4. Left'[t] = Left[t] - 1 BY <3>1, <3>2, <3>3, OneLess
    <3>5. Left[t] # -1
      <4>1. Left[t] = IF m >= OSTmrTime THEN m - OSTmrTime ELSE m - OSTmrTime + TIME_MOD
        BY <3>1, <3>2, Difference
      <4> QED BY <3>1, <4>1, Sizes
    <3> QED BY <3>4, <3>5
  <2> QED BY <2>1, <2>2
<1>4. Left' = [t \in Timers |-> IF Left[t] = -1 THEN -1 ELSE Left[t] - 1]
  BY <1>3, LeftIs
<1> QED BY <1>1, <1>4, NoneDueOutside DEF Service!Tick, Service!Off

LEMMA ExpireServes ==
  ASSUME IInv, TaskExpire
  PROVE  ptmr \in Timers /\ Service!Fire(ptmr)
<1> DEFINE t == ptmr
<1>1. walking /\ t # NULL /\ OSTmrTime' = OSTmrTime BY DEF TaskExpire
<1>2. \E k \in 1..Len(Here) : t = Here[k]
  BY <1>1, WalkedSpoke DEF IInv, Walk, Here
<1>3. Expired(t) BY <1>2, ExpireChanges
<1>4. t \in Timers /\ Left[t] = 0 BY <1>3, NothingLeft DEF Expired, Due
<1>5. \A x \in Timers \ {t} : Left'[x] = Left[x]
  <2>1. \A x \in Timers \ {t} :
          tmr'[x].state = tmr[x].state /\ tmr'[x].match = tmr[x].match
    BY <1>3 DEF Expired, Same
  <2> QED BY <1>1, <2>1, SameLeft
<1>6. Left'[t] \in Delays \cup {-1}
  <2>1. CASE tmr'[t].state # "RUNNING" BY <1>4, <2>1, LeftIs DEF LeftOf
  <2>2. CASE tmr'[t].state = "RUNNING"
    <3> DEFINE d == tmr[t].dly
    <3>1. d \in Delays /\ OSTmrTime \in 0..(TIME_MOD - 1)
      BY <1>3 DEF Expired, InUse, IInv, TypeOK
    <3>2. tmr'[t].match = (d + OSTmrTime) % TIME_MOD BY <1>3, <2>2 DEF Expired
    <3> HIDE DEF d
    <3>3. (((d + OSTmrTime) % TIME_MOD) - OSTmrTime) % TIME_MOD = d BY <3>1, Fresh
    <3> QED BY <1>1, <1>4, <2>2, <3>1, <3>2, <3>3, LeftIs DEF LeftOf
  <2> QED BY <2>1, <2>2
<1>7. Left' = [Left EXCEPT ![t] = Left'[t]] BY <1>5, LeftIs
<1> QED BY <1>4, <1>6, <1>7 DEF Service!Fire, Service!Off

LEMMA SetupServes ==
  ASSUME IInv, NEW t \in Timers, NEW d \in Delays, NEW o \in Opts, timer_setup(t, d, o)
  PROVE  UNCHANGED Left
<1> DEFINE r == [tmr[t] EXCEPT !.state = "STOPPED", !.opt = o, !.dly = d,
                               !.next = NULL, !.prev = NULL]
<1>1. /\ t = OSTmrFreeList /\ OSTmrTime' = OSTmrTime /\ tmr' = [tmr EXCEPT ![t] = r]
      /\ OSTmrFreeList # NULL
  BY DEF timer_setup, OSTmrCreate, SchedUnlocked, task
<1>2. tmr \in [Timers -> Tmr] /\ FreeLinked BY DEF IInv, Linked, WellLinked
<1>3. r.state = "STOPPED" BY <1>2 DEF Tmr
<1> HIDE DEF r
<1>4. tmr'[t] = r /\ \A x \in Timers \ {t} : tmr'[x] = tmr[x] BY <1>1, <1>2
<1>5. tmr[t].state = "UNUSED"
  <2>1. unused # <<>> /\ t = unused[1] BY <1>1, <1>2 DEF FreeLinked
  <2>2. t \in Range(unused)
    <3>1. unused \in Seq(Timers) BY <1>2 DEF FreeLinked
    <3>2. 1 \in DOMAIN unused BY <2>1, <3>1
    <3> QED BY <2>1, <3>2 DEF Range
  <2> QED BY <1>2, <2>2 DEF FreeLinked, InUse
<1> QED BY <1>1, <1>3, <1>4, <1>5, Stutters

LEMMA StepServes == IInv /\ [Next]_vars => [Service!Next]_Left
<1> SUFFICES ASSUME IInv, [Next]_vars PROVE Service!Next \/ UNCHANGED Left OBVIOUS
<1>1. CASE OSTmrSignal \/ TaskPass \/ TaskDone \/ UNCHANGED vars
      \/ \E c \in Callers, t \in Timers, d \in Delays : ModPending(c, t, d)
  <2>1. tmr' = tmr /\ OSTmrTime' = OSTmrTime
    BY <1>1 DEF OSTmrSignal, TaskPass, TaskDone, vars, ModPending, lists, task
  <2> QED BY <2>1, Stutters
<1>2. CASE TaskTurn BY <1>2, TurnServes DEF Service!Next
<1>3. CASE TaskExpire BY <1>3, ExpireServes DEF Service!Next
<1>4. ASSUME NEW t \in Timers, add_timer(t) PROVE Service!Next
  BY <1>4, StartServes DEF add_timer, Service!Next
<1>5. ASSUME NEW t \in Timers, del_timer(t) PROVE Service!Next
  <2>1. Changed(t) /\ tmr'[t].state # "RUNNING" BY <1>5, StopChanges DEF del_timer
  <2> QED BY <2>1, ChangedServes DEF Service!Next
<1>6. ASSUME NEW t \in Timers, timer_free(t) PROVE Service!Next
  BY <1>6, FreeServes DEF Service!Next
<1>7. ASSUME NEW t \in Timers, NEW d \in Delays, NEW o \in Opts, timer_setup(t, d, o)
      PROVE  UNCHANGED Left
  BY <1>7, SetupServes
<1>8. ASSUME NEW c \in Callers, ModSet(c) PROVE UNCHANGED Left
  <2> DEFINE t == caller[c].tmr
             e == caller[c].dly
  <2>1. tmr' = [tmr EXCEPT ![t].dly = e] /\ OSTmrTime' = OSTmrTime
    BY <1>8 DEF ModSet, task
  <2>2. t \in Timers BY <1>8 DEF ModSet, IInv, CallersHold
  <2>3. tmr \in [Timers -> Tmr] BY DEF IInv, Linked, WellLinked
  <2> HIDE DEF t, e
  <2>4. tmr'[t] = [tmr[t] EXCEPT !.dly = e] /\ \A x \in Timers \ {t} : tmr'[x] = tmr[x]
    BY <2>1, <2>2, <2>3
  <2>5. tmr'[t].state = tmr[t].state /\ tmr'[t].match = tmr[t].match
    BY <2>2, <2>3, <2>4 DEF Tmr
  <2> QED BY <2>1, <2>4, <2>5, Stutters
<1>9. ASSUME NEW c \in Callers, ModStart(c) PROVE Service!Next
  <2>1. caller[c].tmr \in Timers
    BY <1>9 DEF ModStart, IInv, CallersHold
  <2>2. OSTmrStart(caller[c].tmr) BY <1>9 DEF ModStart
  <2> QED BY <2>1, <2>2, StartServes DEF Service!Next
<1> QED BY <1>1, <1>2, <1>3, <1>4, <1>5, <1>6, <1>7, <1>8, <1>9
     DEF Next, OSTmr_Task, mod_timer

LEMMA StartOfService == Init => Service!Init
BY DEF Init, Left, Service!Init, Service!Off

(* No timer goes off before the tick it was last set for, none is passed   *)
(* over by the walk, and none goes off after it was stopped or freed.      *)
THEOREM TimersServe == Spec => Service!Spec
<1>1. IInv /\ [Next]_vars => [Service!Next]_Left BY StepServes
<1> QED BY <1>1, StartOfService, Invariant, PTL DEF Spec, Service!Spec

=============================================================================
