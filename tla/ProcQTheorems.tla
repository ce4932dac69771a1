--------------------------- MODULE ProcQTheorems ---------------------------
(***************************************************************************)
(* What the operations of ProcQ return, for queues of any length.          *)
(***************************************************************************)
EXTENDS ProcQ, SequenceTheorems, FiniteSetTheorems, TLAPS

\* insertProcQ adds p to the members of the queue; a queue without p stays
\* without duplicates (pcb.c:81).
LEMMA InsertProcQ ==
  ASSUME NEW S, NEW q \in Seq(S), NEW p \in S
  PROVE  /\ insertProcQ(q, p) \in Seq(S)
         /\ ~ emptyProcQ(insertProcQ(q, p))
         /\ ToSet(insertProcQ(q, p)) = ToSet(q) \cup {p}
         /\ p \notin ToSet(q) /\ Distinct(q) => Distinct(insertProcQ(q, p))
<1>1. /\ Append(q, p) \in Seq(S)
      /\ Append(q, p) # << >>
      /\ Len(Append(q, p)) = Len(q) + 1
      /\ \A i \in 1 .. Len(q) : Append(q, p)[i] = q[i]
      /\ Append(q, p)[Len(q) + 1] = p
  BY AppendProperties
<1>2. /\ DOMAIN q = 1 .. Len(q) /\ Len(q) \in Nat
      /\ DOMAIN Append(q, p) = 1 .. Len(q) + 1
  BY <1>1, LenProperties
<1>3. ToSet(Append(q, p)) = ToSet(q) \cup {p}
  <2>1. ToSet(Append(q, p)) \subseteq ToSet(q) \cup {p}
    BY <1>1, <1>2 DEF ToSet
  <2>2. ToSet(q) \cup {p} \subseteq ToSet(Append(q, p))
    BY <1>1, <1>2 DEF ToSet
  <2> QED BY <2>1, <2>2
<1>4. ASSUME p \notin ToSet(q), Distinct(q) PROVE Distinct(Append(q, p))
  BY <1>1, <1>2, <1>4 DEF ToSet, Distinct
<1> QED BY <1>1, <1>3, <1>4 DEF insertProcQ, emptyProcQ

\* removeProcQ takes exactly the head out (pcb.c:96-105).
LEMMA RemoveProcQ ==
  ASSUME NEW S, NEW q \in Seq(S), ~ emptyProcQ(q)
  PROVE  /\ headProcQ(q) \in S
         /\ headProcQ(q) \in ToSet(q)
         /\ removeProcQ(q) \in Seq(S)
         /\ ToSet(q) = ToSet(removeProcQ(q)) \cup {headProcQ(q)}
         /\ Distinct(q) => /\ Distinct(removeProcQ(q))
                           /\ headProcQ(q) \notin ToSet(removeProcQ(q))
<1>1. /\ Head(q) \in S
      /\ Tail(q) \in Seq(S)
      /\ Len(Tail(q)) = Len(q) - 1
      /\ \A i \in 1 .. Len(Tail(q)) : Tail(q)[i] = q[i + 1]
  BY HeadTailProperties DEF emptyProcQ
<1>2. /\ DOMAIN q = 1 .. Len(q) /\ Len(q) \in Nat /\ Len(q) # 0
      /\ DOMAIN Tail(q) = 1 .. Len(q) - 1
      /\ Head(q) = q[1]
  BY <1>1, LenProperties, EmptySeq DEF emptyProcQ
<1>3. Head(q) \in ToSet(q)
  BY <1>2 DEF ToSet
<1>4. ToSet(q) = ToSet(Tail(q)) \cup {Head(q)}
  <2>1. ToSet(Tail(q)) \subseteq ToSet(q)
    BY <1>1, <1>2 DEF ToSet
  <2>2. ASSUME NEW i \in 1 .. Len(q) PROVE q[i] \in ToSet(Tail(q)) \cup {Head(q)}
    <3>1. CASE i = 1 BY <3>1, <1>2
    <3>2. CASE i # 1
      <4>1. i - 1 \in 1 .. Len(Tail(q)) /\ Tail(q)[i - 1] = q[i]
        BY <3>2, <1>1, <1>2
      <4> QED BY <4>1, <1>1, <1>2 DEF ToSet
    <3> QED BY <3>1, <3>2
  <2> QED BY <2>1, <2>2, <1>2, <1>3 DEF ToSet
<1>5. ASSUME Distinct(q) PROVE Distinct(Tail(q)) /\ Head(q) \notin ToSet(Tail(q))
  BY <1>1, <1>2, <1>5 DEF ToSet, Distinct
<1> QED BY <1>1, <1>3, <1>4, <1>5 DEF headProcQ, removeProcQ

\* outProcQ takes out one occurrence of p, and the others keep their order.
LEMMA OutProcQOrder ==
  ASSUME NEW S, NEW q \in Seq(S), NEW p \in ToSet(q), Distinct(q)
  PROVE  /\ outProcQ(q, p) \in Seq(S) /\ Len(outProcQ(q, p)) = Len(q) - 1
         /\ \E n \in 1 .. Len(q) :
              /\ q[n] = p
              /\ \A i \in 1 .. Len(q) - 1 :
                   outProcQ(q, p)[i] = IF i < n THEN q[i] ELSE q[i + 1]
<1>1. DOMAIN q = 1 .. Len(q) /\ Len(q) \in Nat /\ (\A i \in 1 .. Len(q) : q[i] \in S)
  BY LenProperties, ElementOfSeq
<1>2. PICK n \in 1 .. Len(q) : q[n] = p
  BY <1>1 DEF ToSet
<1> DEFINE I == {i \in 1 .. Len(q) : q[i] = p}
           t == SubSeq(q, 1, n - 1)
           u == SubSeq(q, n + 1, Len(q))
<1>3. I = {n}
  BY <1>2, <1>1 DEF Distinct
<1>4. Min({n}) = n
  BY DEF Min
<1>5. SelectInSeq(q, LAMBDA v : v = p) = n
  BY <1>3, <1>4 DEF SelectInSeq
<1>6. outProcQ(q, p) = t \o u
  BY <1>2, <1>5 DEF outProcQ, RemoveFirst, RemoveAt
<1>7. /\ t \in Seq(S) /\ Len(t) = n - 1
      /\ \A i \in 1 .. n - 1 : t[i] = q[i]
  <2>1. \A i \in 1 .. n - 1 : q[i] \in S
    BY <1>1, <1>2
  <2>2. /\ t \in Seq(S) /\ Len(t) = IF 1 <= n - 1 THEN n - 1 - 1 + 1 ELSE 0
        /\ \A i \in 1 .. n - 1 - 1 + 1 : t[i] = q[1 + i - 1]
    BY <2>1, <1>2, SubSeqProperties
  <2> QED BY <2>2, <1>2
<1>8. /\ u \in Seq(S) /\ Len(u) = Len(q) - n
      /\ \A i \in 1 .. Len(q) - n : u[i] = q[n + i]
  <2>1. \A i \in n + 1 .. Len(q) : q[i] \in S
    BY <1>1, <1>2
  <2>2. /\ u \in Seq(S) /\ Len(u) = IF n + 1 <= Len(q) THEN Len(q) - (n + 1) + 1 ELSE 0
        /\ \A i \in 1 .. Len(q) - (n + 1) + 1 : u[i] = q[n + 1 + i - 1]
    BY <2>1, <1>2, <1>1, SubSeqProperties
  <2> QED BY <2>2, <1>2, <1>1
<1> HIDE DEF t, u
<1>9. /\ t \o u \in Seq(S) /\ Len(t \o u) = Len(q) - 1
      /\ \A i \in 1 .. Len(q) - 1 : (t \o u)[i] = IF i < n THEN q[i] ELSE q[i + 1]
  <2>1. /\ t \o u \in Seq(S) /\ Len(t \o u) = Len(t) + Len(u)
        /\ \A i \in 1 .. Len(t) + Len(u) :
              (t \o u)[i] = IF i <= Len(t) THEN t[i] ELSE u[i - Len(t)]
    BY <1>7, <1>8, ConcatProperties
  <2>2. ASSUME NEW i \in 1 .. Len(q) - 1
        PROVE (t \o u)[i] = IF i < n THEN q[i] ELSE q[i + 1]
    <3>1. CASE i < n BY <3>1, <2>1, <1>7, <1>8, <1>1, <1>2
    <3>2. CASE ~ (i < n)
      <4>1. i - (n - 1) \in 1 .. Len(q) - n BY <3>2, <1>1, <1>2
      <4>2. u[i - (n - 1)] = q[i + 1]
        BY <4>1, <1>8, <1>1, <1>2
      <4> QED BY <3>2, <4>2, <2>1, <1>7, <1>8, <1>1, <1>2
    <3> QED BY <3>1, <3>2
  <2> QED BY <2>1, <2>2, <1>7, <1>8, <1>1, <1>2
<1> QED BY <1>2, <1>6, <1>9

\* outProcQ takes exactly p out of a queue without duplicates (pcb.c:112-126).
LEMMA OutProcQ ==
  ASSUME NEW S, NEW q \in Seq(S), NEW p, Distinct(q)
  PROVE  /\ outProcQ(q, p) \in Seq(S)
         /\ ToSet(outProcQ(q, p)) = ToSet(q) \ {p}
         /\ Distinct(outProcQ(q, p))
         /\ p \notin ToSet(q) => outProcQ(q, p) = q
<1>1. DOMAIN q = 1 .. Len(q) /\ Len(q) \in Nat /\ (\A i \in 1 .. Len(q) : q[i] \in S)
  BY LenProperties, ElementOfSeq
<1>2. CASE p \notin ToSet(q)
  <2>1. outProcQ(q, p) = q
    BY <1>1, <1>2 DEF outProcQ, RemoveFirst, ToSet
  <2> QED BY <2>1, <1>2
<1>3. CASE p \in ToSet(q)
  <2> DEFINE r == outProcQ(q, p)
  <2>1. /\ r \in Seq(S) /\ Len(r) = Len(q) - 1
        /\ \E n \in 1 .. Len(q) :
             q[n] = p /\ \A i \in 1 .. Len(q) - 1 : r[i] = IF i < n THEN q[i] ELSE q[i + 1]
    BY ONLY <1>3, OutProcQOrder, q \in Seq(S), Distinct(q)
  <2>2. PICK n \in 1 .. Len(q) :
          q[n] = p /\ \A i \in 1 .. Len(q) - 1 : r[i] = IF i < n THEN q[i] ELSE q[i + 1]
    BY <2>1
  <2>3. DOMAIN r = 1 .. Len(q) - 1
    BY <2>1, LenProperties
  <2> HIDE DEF r
  <2>4. ToSet(r) = ToSet(q) \ {p}
    <3>1. ASSUME NEW i \in 1 .. Len(q) - 1 PROVE r[i] \in ToSet(q) \ {p}
      BY <2>2, <1>1 DEF ToSet, Distinct
    <3>2. ASSUME NEW i \in 1 .. Len(q), q[i] # p PROVE q[i] \in ToSet(r)
      <4>1. CASE i < n
        BY <4>1, <2>3, <2>2, <1>1 DEF ToSet
      <4>2. CASE i > n
        <5>1. i - 1 \in 1 .. Len(q) - 1 /\ r[i - 1] = q[i]
          BY <4>2, <2>2, <1>1
        <5> QED BY <5>1, <2>3 DEF ToSet
      <4> QED BY <4>1, <4>2, <3>2, <2>2
    <3> QED BY <3>1, <3>2, <2>3, <1>1 DEF ToSet
  <2>5. Distinct(r)
    <3> SUFFICES ASSUME NEW i \in 1 .. Len(q) - 1, NEW j \in 1 .. Len(q) - 1, r[i] = r[j]
                 PROVE  i = j
      BY <2>3 DEF Distinct
    <3> DEFINE at(k) == IF k < n THEN k ELSE k + 1
    <3>1. r[i] = q[at(i)] /\ r[j] = q[at(j)]
      BY <2>2
    <3>2. at(i) \in 1 .. Len(q) /\ at(j) \in 1 .. Len(q)
      BY <1>1, <2>1
    <3>3. at(i) = at(j)
      BY <3>1, <3>2, <1>1 DEF Distinct
    <3> QED BY <3>3, <2>1
  <2> QED BY <2>1, <2>4, <2>5, <1>3 DEF r
<1> QED BY <1>2, <1>3

\* A queue appended to another has the members of both (interrupts.c:186-193).
LEMMA ConcatProcQ ==
  ASSUME NEW S, NEW q \in Seq(S), NEW r \in Seq(S)
  PROVE  /\ q \o r \in Seq(S)
         /\ ToSet(q \o r) = ToSet(q) \cup ToSet(r)
         /\ Distinct(q) /\ Distinct(r) /\ ToSet(q) \cap ToSet(r) = {} => Distinct(q \o r)
<1>1. /\ q \o r \in Seq(S) /\ Len(q \o r) = Len(q) + Len(r)
      /\ \A i \in 1 .. Len(q) + Len(r) :
           (q \o r)[i] = IF i <= Len(q) THEN q[i] ELSE r[i - Len(q)]
  BY ConcatProperties
<1>2. /\ DOMAIN q = 1 .. Len(q) /\ DOMAIN r = 1 .. Len(r)
      /\ DOMAIN (q \o r) = 1 .. Len(q) + Len(r)
      /\ Len(q) \in Nat /\ Len(r) \in Nat
  BY <1>1, LenProperties
<1>3. \A i \in 1 .. Len(q) : i \in 1 .. Len(q) + Len(r) /\ (q \o r)[i] = q[i]
  BY <1>1, <1>2
<1>4. \A i \in 1 .. Len(r) : /\ Len(q) + i \in 1 .. Len(q) + Len(r)
                             /\ (q \o r)[Len(q) + i] = r[i]
  BY <1>1, <1>2
<1>5. \A i \in 1 .. Len(q) + Len(r) : i \in 1 .. Len(q) \/ i - Len(q) \in 1 .. Len(r)
  BY <1>2
<1>6. ToSet(q \o r) = ToSet(q) \cup ToSet(r)
  <2>1. ToSet(q) \cup ToSet(r) \subseteq ToSet(q \o r)
    BY <1>2, <1>3, <1>4 DEF ToSet
  <2>2. ToSet(q \o r) \subseteq ToSet(q) \cup ToSet(r)
    BY <1>1, <1>2, <1>5 DEF ToSet
  <2> QED BY <2>1, <2>2
<1>7. ASSUME Distinct(q), Distinct(r), ToSet(q) \cap ToSet(r) = {} PROVE Distinct(q \o r)
  <2> SUFFICES ASSUME NEW i \in 1 .. Len(q) + Len(r), NEW j \in 1 .. Len(q) + Len(r),
                      (q \o r)[i] = (q \o r)[j]
               PROVE  i = j
    BY <1>2 DEF Distinct
  <2>1. \A m \in 1 .. Len(q), n \in 1 .. Len(r) : q[m] # r[n]
    BY <1>2, <1>7 DEF ToSet
  <2>2. CASE i <= Len(q) /\ j <= Len(q)
    BY <2>2, <1>1, <1>2, <1>7 DEF Distinct
  <2>3. CASE ~ (i <= Len(q)) /\ ~ (j <= Len(q))
    BY <2>3, <1>1, <1>2, <1>5, <1>7 DEF Distinct
  <2>4. CASE i <= Len(q) /\ ~ (j <= Len(q))
    BY <2>4, <2>1, <1>1, <1>2
  <2>5. CASE ~ (i <= Len(q)) /\ j <= Len(q)
    BY <2>5, <2>1, <1>1, <1>2
  <2> QED BY <2>2, <2>3, <2>4, <2>5
<1> QED BY <1>1, <1>6, <1>7

-----------------------------------------------------------------------------
(* outAllProcQ, by induction on the length of the part of the queue it has   *)
(* seen; the induction is over a set of numbers.                             *)

\* A set of numbers with 0 and the successors of its members has every number.
LEMMA AllNumbers ==
  ASSUME NEW A \in SUBSET Nat, 0 \in A, \A n \in A : n + 1 \in A
  PROVE  A = Nat
<1> SUFFICES ASSUME Nat \ A # {} PROVE FALSE
  OBVIOUS
<1> DEFINE R == StrictSubsetOrdering(Nat)
           T == {0 .. n : n \in Nat \ A}
<1>1. IsWellFoundedOn(R, FiniteSubsetsOf(Nat))
  BY FS_StrictSubsetOrderingWellFounded
<1>2. T \subseteq FiniteSubsetsOf(Nat)
  <2>1. \A n \in Nat : IsFiniteSet(0 .. n) /\ 0 .. n \in SUBSET Nat
    BY FS_Interval
  <2> QED BY <2>1 DEF FiniteSubsetsOf
<1>3. T # {}
  OBVIOUS
<1>4. PICK t \in T : \A u \in T : << u, t >> \notin R
  <2> HIDE DEF R, T
  <2> QED BY <1>1, <1>2, <1>3, WFMin
<1>5. PICK n \in Nat \ A : t = 0 .. n
  OBVIOUS
<1>6. n # 0 /\ n - 1 \in Nat \ A
  <2>1. n # 0 /\ n - 1 \in Nat
    OBVIOUS
  <2>2. CASE n - 1 \in A
    <3>1. n - 1 + 1 \in A
      BY <2>2
    <3> QED BY <3>1
  <2> QED BY <2>1, <2>2
<1>7. << 0 .. n - 1, 0 .. n >> \in R
  BY <1>6 DEF StrictSubsetOrdering
<1> QED BY <1>4, <1>5, <1>6, <1>7

\* What outAllProcQ keeps of the first n PCBs, given what it keeps of fewer
Keep(q, S, n, kept) ==
  IF n = 0 THEN << >> ELSE IF q[n] \in S THEN kept[n - 1] ELSE Append(kept[n - 1], q[n])

\* The function that outAllProcQ defines by recursion exists.
LEMMA KeptExists ==
  ASSUME NEW q, NEW S, NEW l \in Nat
  PROVE  \E kept : kept = [n \in 0 .. l |-> Keep(q, S, n, kept)]
<1> DEFINE A == {m \in Nat : \E kept : kept = [n \in 0 .. m |-> Keep(q, S, n, kept)]}
<1>1. 0 \in A
  <2> DEFINE kept == [n \in 0 .. 0 |-> << >>]
  <2>1. kept = [n \in 0 .. 0 |-> Keep(q, S, n, kept)]
    BY DEF Keep
  <2> QED BY <2>1
<1>2. ASSUME NEW m \in A PROVE m + 1 \in A
  <2>1. PICK g : g = [n \in 0 .. m |-> Keep(q, S, n, g)]
    OBVIOUS
  <2> DEFINE h == [n \in 0 .. m + 1 |-> IF n = m + 1 THEN Keep(q, S, n, g) ELSE g[n]]
  <2>2. ASSUME NEW n \in 0 .. m + 1 PROVE h[n] = Keep(q, S, n, h)
    <3>1. CASE n = m + 1
      <4>1. h[n - 1] = g[n - 1] BY <3>1
      <4>2. h[n] = Keep(q, S, n, g) BY <3>1
      <4> HIDE DEF h
      <4> QED BY <4>1, <4>2 DEF Keep
    <3>2. CASE n # m + 1
      <4>1. n \in 0 .. m /\ h[n] = g[n] /\ (n # 0 => h[n - 1] = g[n - 1]) BY <3>2
      <4>2. g[n] = Keep(q, S, n, g) BY <4>1, <2>1
      <4> HIDE DEF h
      <4> QED BY <4>1, <4>2 DEF Keep
    <3> QED BY <3>1, <3>2
  <2>3. h = [n \in 0 .. m + 1 |-> Keep(q, S, n, h)]
    <3>1. h = [n \in 0 .. m + 1 |-> h[n]] OBVIOUS
    <3> HIDE DEF h
    <3> QED BY <3>1, <2>2
  <2> HIDE DEF h
  <2> QED BY <2>3
<1> HIDE DEF A
<1>3. A = Nat
  BY <1>1, <1>2, AllNumbers DEF A
<1> QED BY <1>3 DEF A

\* outAllProcQ takes exactly the members of S out of a queue (pcb.c:112-126),
\* and a queue without duplicates stays so.
LEMMA OutAllProcQ ==
  ASSUME NEW P, NEW q \in Seq(P), NEW S
  PROVE  /\ outAllProcQ(q, S) \in Seq(P)
         /\ ToSet(outAllProcQ(q, S)) = ToSet(q) \ S
         /\ Distinct(q) => Distinct(outAllProcQ(q, S))
<1> DEFINE l == Len(q)
           kept == CHOOSE g : g = [n \in 0 .. l |-> Keep(q, S, n, g)]
           Seen(n) == {q[i] : i \in 1 .. n}
<1>1. DOMAIN q = 1 .. l /\ l \in Nat /\ \A i \in 1 .. l : q[i] \in P
  BY LenProperties, ElementOfSeq
<1>2. outAllProcQ(q, S) = kept[l]
  BY DEF outAllProcQ, Keep, mkEmptyProcQ, insertProcQ
<1>3. kept = [n \in 0 .. l |-> Keep(q, S, n, kept)]
  <2> HIDE DEF kept
  <2> QED BY <1>1, KeptExists DEF kept
<1> HIDE DEF kept, l
<1> DEFINE A == {n \in Nat : n <= l =>
                   /\ kept[n] \in Seq(P)
                   /\ ToSet(kept[n]) = Seen(n) \ S
                   /\ Distinct(q) => Distinct(kept[n])}
<1>4. 0 \in A
  <2>1. kept[0] = << >>
    BY <1>1, <1>3 DEF Keep
  <2>2. << >> \in Seq(P) /\ ToSet(<< >>) = {} /\ Distinct(<< >>)
    BY EmptySeq DEF ToSet, Distinct
  <2>3. Seen(0) = {}
    OBVIOUS
  <2> HIDE DEF Seen
  <2> QED BY <2>1, <2>2, <2>3
<1>5. ASSUME NEW n \in A PROVE n + 1 \in A
  <2> SUFFICES ASSUME n + 1 <= l
               PROVE  /\ kept[n + 1] \in Seq(P)
                      /\ ToSet(kept[n + 1]) = Seen(n + 1) \ S
                      /\ Distinct(q) => Distinct(kept[n + 1])
    OBVIOUS
  <2>1. /\ n \in Nat /\ kept[n] \in Seq(P) /\ ToSet(kept[n]) = Seen(n) \ S
        /\ Distinct(q) => Distinct(kept[n])
    BY <1>1
  <2>2. kept[n + 1] = IF q[n + 1] \in S THEN kept[n] ELSE insertProcQ(kept[n], q[n + 1])
    <3>1. n + 1 \in 0 .. l /\ n + 1 # 0 /\ n + 1 - 1 = n
      BY <1>1, <2>1
    <3>2. kept[n + 1] = Keep(q, S, n + 1, kept)
      BY <1>3, <3>1
    <3> QED BY <3>1, <3>2 DEF Keep, insertProcQ
  <2>3. Seen(n + 1) = Seen(n) \cup {q[n + 1]} /\ q[n + 1] \in P
    BY <1>1, <2>1
  <2>4. Distinct(q) => q[n + 1] \notin Seen(n)
    BY <1>1, <2>1 DEF Distinct
  <2> HIDE DEF Seen
  <2>5. CASE q[n + 1] \in S
    BY <2>5, <2>1, <2>2, <2>3
  <2>6. CASE q[n + 1] \notin S
    <3>1. kept[n + 1] = insertProcQ(kept[n], q[n + 1])
      BY <2>2, <2>6
    <3>2. /\ insertProcQ(kept[n], q[n + 1]) \in Seq(P)
          /\ ToSet(insertProcQ(kept[n], q[n + 1])) = ToSet(kept[n]) \cup {q[n + 1]}
          /\ q[n + 1] \notin ToSet(kept[n]) /\ Distinct(kept[n])
               => Distinct(insertProcQ(kept[n], q[n + 1]))
      <4> HIDE DEF A
      <4>1. \A x \in Seq(P), e \in P :
              /\ insertProcQ(x, e) \in Seq(P)
              /\ ToSet(insertProcQ(x, e)) = ToSet(x) \cup {e}
              /\ e \notin ToSet(x) /\ Distinct(x) => Distinct(insertProcQ(x, e))
        BY InsertProcQ
      <4> QED BY <2>1, <2>3, <4>1
    <3> QED BY <2>1, <2>3, <2>4, <2>6, <3>1, <3>2
  <2> QED BY <2>5, <2>6
<1>6. A = Nat
  <2> HIDE DEF A
  <2>1. A \in SUBSET Nat
    BY DEF A
  <2> QED BY <1>4, <1>5, <2>1, AllNumbers
<1>7. l \in A /\ Seen(l) = ToSet(q)
  BY <1>1, <1>6 DEF ToSet
<1> HIDE DEF Seen
<1> QED BY <1>2, <1>7

\* Without a member of S in the queue, outAllProcQ changes nothing.
LEMMA OutAllNothing ==
  ASSUME NEW P, NEW q \in Seq(P), NEW S, ToSet(q) \cap S = {}
  PROVE  outAllProcQ(q, S) = q
<1> DEFINE l == Len(q)
           kept == CHOOSE g : g = [n \in 0 .. l |-> Keep(q, S, n, g)]
           Part(n) == [k \in 1 .. n |-> q[k]]
<1>1. DOMAIN q = 1 .. l /\ l \in Nat /\ q = Part(l) /\ \A k \in 1 .. l : q[k] \in P
  BY LenProperties, ElementOfSeq, SeqDef
<1>2. outAllProcQ(q, S) = kept[l]
  BY DEF outAllProcQ, Keep, mkEmptyProcQ, insertProcQ
<1>3. kept = [n \in 0 .. l |-> Keep(q, S, n, kept)]
  <2> HIDE DEF kept
  <2> QED BY <1>1, KeptExists DEF kept
<1> HIDE DEF kept, l
<1> DEFINE A == {n \in Nat : n <= l => kept[n] = Part(n)}
<1>4. 0 \in A
  <2>1. kept[0] = << >>
    BY <1>1, <1>3 DEF Keep
  <2>2. Part(0) = << >>
    BY SMT
  <2> HIDE DEF Part
  <2> QED BY <2>1, <2>2
<1>5. ASSUME NEW n \in A PROVE n + 1 \in A
  <2> SUFFICES ASSUME n + 1 <= l PROVE kept[n + 1] = Part(n + 1)
    OBVIOUS
  <2>1. n \in Nat /\ n + 1 \in 1 .. l /\ kept[n] = Part(n)
    BY <1>1
  <2>2. q[n + 1] \notin S
    BY <1>1, <2>1 DEF ToSet
  <2>3. kept[n + 1] = Keep(q, S, n + 1, kept)
    <3>1. n + 1 \in 0 .. l
      BY <1>1, <2>1
    <3> HIDE DEF A, Part
    <3> QED BY <3>1, <1>3
  <2>4. kept[n + 1] = Append(Part(n), q[n + 1])
    <3>1. n + 1 # 0 /\ n + 1 - 1 = n
      BY <2>1
    <3> QED BY <3>1, <2>1, <2>2, <2>3 DEF Keep
  <2>5. Append(Part(n), q[n + 1]) = Part(n + 1)
    <3>1. Part(n) \in Seq(P) /\ Part(n + 1) \in Seq(P) /\ Len(Part(n)) = n /\ Len(Part(n + 1)) = n + 1
      <4>1. \A m \in Nat : m <= l => Part(m) \in [1 .. m -> P]
        BY <1>1
      <4>2. Part(n) \in [1 .. n -> P] /\ Part(n + 1) \in [1 .. n + 1 -> P] /\ n + 1 \in Nat
        BY <4>1, <2>1, <1>1
      <4> HIDE DEF Part
      <4> QED BY <4>2, <2>1, SeqDef, LenProperties
    <3> DEFINE new == q[n + 1]
    <3>2. new \in P
      BY <1>1, <2>1
    <3>3. /\ Append(Part(n), new) \in Seq(P) /\ Len(Append(Part(n), new)) = n + 1
          /\ \A k \in 1 .. n : Append(Part(n), new)[k] = Part(n)[k]
          /\ Append(Part(n), new)[n + 1] = new
      <4> HIDE DEF Part, new
      <4> QED BY <3>1, <3>2, AppendProperties
    <3>4. \A k \in 1 .. n + 1 : Append(Part(n), new)[k] = Part(n + 1)[k]
      BY <3>3, <2>1
    <3> HIDE DEF Part, new
    <3> QED BY <3>1, <3>3, <3>4, SeqEqual DEF new
  <2> QED BY <2>4, <2>5
<1>6. A = Nat
  <2> HIDE DEF A
  <2>1. A \in SUBSET Nat
    BY DEF A
  <2> QED BY <1>4, <1>5, <2>1, AllNumbers
<1> QED BY <1>1, <1>2, <1>6

\* insertProcQ makes a queue one longer, removeProcQ one shorter.
LEMMA QueueLengths ==
  ASSUME NEW P, NEW q \in Seq(P)
  PROVE  /\ Len(q) \in Nat /\ (emptyProcQ(q) <=> Len(q) = 0)
         /\ \A p \in P : Len(insertProcQ(q, p)) = Len(q) + 1
         /\ ~ emptyProcQ(q) => Len(removeProcQ(q)) = Len(q) - 1
BY LenProperties, EmptySeq, AppendProperties, HeadTailProperties
   DEF emptyProcQ, insertProcQ, removeProcQ
=============================================================================
