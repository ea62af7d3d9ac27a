--------------------------- MODULE SublistProofs ---------------------------
(* What Keep returns, for every sequence.  The library's induction theorems *)
(* take an operator as a parameter, which the provers cannot instantiate;   *)
(* here induction is on sets of numbers instead (AllNat), from the theorem  *)
(* that the finite subsets of a set are well-founded.                       *)
EXTENDS Sublists, Sequences, FiniteSetTheorems, SequenceTheorems, TLAPS

\* Every set of numbers that is not empty has a least one: of the intervals up to
\* its numbers one has none strictly inside it.
LEMMA LeastOf ==
    ASSUME NEW T \in SUBSET Nat, T # {}
    PROVE  \E m \in T : \A n \in T : m <= n
<1> DEFINE Upto == {0 .. n : n \in T}
<1>1. Upto # {} /\ Upto \subseteq FiniteSubsetsOf(Nat)
  <2>1. ASSUME NEW n \in T PROVE 0 .. n \in FiniteSubsetsOf(Nat)
    BY FS_Interval DEF FiniteSubsetsOf
  <2>2. QED
    BY <2>1
<1>2. PICK I \in Upto : \A J \in Upto : ~ (<<J, I>> \in StrictSubsetOrdering(Nat))
  BY <1>1, FS_StrictSubsetOrderingWellFounded, WFMin
<1>3. PICK m \in T : I = 0 .. m
  BY <1>2
<1>4. ASSUME NEW n \in T, ~ (m <= n) PROVE FALSE
  <2>1. 0 .. n \in Upto
    OBVIOUS
  <2>2. 0 .. n \subseteq 0 .. m /\ 0 .. n # 0 .. m
    <3>1. n \in Nat /\ m \in Nat /\ n < m
      BY <1>4
    <3>2. m \in 0 .. m /\ m \notin 0 .. n
      BY <3>1
    <3>3. QED
      BY <3>1, <3>2
  <2>3. <<0 .. n, 0 .. m>> \in StrictSubsetOrdering(Nat)
    <3>1. 0 .. n \in SUBSET Nat /\ 0 .. m \in SUBSET Nat
      OBVIOUS
    <3> HIDE DEF Upto
    <3>2. QED
      BY <2>2, <3>1 DEF StrictSubsetOrdering
  <2>4. QED
    BY <1>2, <1>3, <2>1, <2>3
<1>5. QED
  BY <1>4

\* Induction, for what can be said of a set.
LEMMA AllNat ==
    ASSUME NEW S, 0 \in S, \A n \in Nat : n \in S => n + 1 \in S
    PROVE  Nat \subseteq S
<1>1. SUFFICES ASSUME Nat \ S # {} PROVE FALSE
  OBVIOUS
<1>2. PICK m \in Nat \ S : \A n \in Nat \ S : m <= n
  BY <1>1, LeastOf
<1>3. m - 1 \in Nat /\ m - 1 \notin Nat \ S
  BY <1>2
<1>4. QED
  BY <1>2, <1>3

-----------------------------------------------------------------------------
KeepNext(s, S, i, before) == IF s[i] \in S THEN Append(before, s[i]) ELSE before
Recurs(f, s, S, n) == f = [i \in 0 .. n |-> IF i = 0 THEN << >> ELSE KeepNext(s, S, i, f[i - 1])]

\* There is a function that computes what is kept step by step.
LEMMA RecursionEnds ==
    ASSUME NEW s, NEW S, NEW n \in Nat
    PROVE  \E f : Recurs(f, s, S, n)
<1> DEFINE Q == {m \in Nat : \E f : Recurs(f, s, S, m)}
<1>1. 0 \in Q
  <2>1. Recurs([i \in 0 .. 0 |-> << >>], s, S, 0)
    BY DEF Recurs
  <2>2. QED
    BY <2>1
<1>2. ASSUME NEW m \in Nat, m \in Q PROVE m + 1 \in Q
  <2>1. PICK f : Recurs(f, s, S, m)
    BY <1>2
  <2> DEFINE g == [i \in 0 .. m + 1 |-> IF i = m + 1 THEN KeepNext(s, S, i, f[m]) ELSE f[i]]
  <2>2. \A i \in 0 .. m : g[i] = f[i]
    OBVIOUS
  <2>3. \A i \in 0 .. m : f[i] = IF i = 0 THEN << >> ELSE KeepNext(s, S, i, f[i - 1])
    BY <2>1 DEF Recurs
  <2>4. g[m + 1] = KeepNext(s, S, m + 1, g[m])
    BY <2>2
  <2>5. \A i \in 0 .. m + 1 : g[i] = IF i = 0 THEN << >> ELSE KeepNext(s, S, i, g[i - 1])
    <3>1. ASSUME NEW i \in 0 .. m PROVE g[i] = IF i = 0 THEN << >> ELSE KeepNext(s, S, i, g[i - 1])
      <4>1. CASE i = 0
        BY <2>2, <2>3, <4>1
      <4>2. CASE i # 0
        <5>1. i - 1 \in 0 .. m
          BY <4>2
        <5> HIDE DEF g
        <5>2. QED
          BY <2>2, <2>3, <4>2, <5>1
      <4>3. QED
        BY <4>1, <4>2
    <3>2. \A i \in 0 .. m + 1 : i = m + 1 \/ i \in 0 .. m
      OBVIOUS
    <3> HIDE DEF g
    <3>3. QED
      BY <2>4, <3>1, <3>2
  <2>6. g = [i \in 0 .. m + 1 |-> g[i]]
    OBVIOUS
  <2> HIDE DEF g
  <2>7. Recurs(g, s, S, m + 1)
    BY <2>5, <2>6 DEF Recurs
  <2>8. QED
    BY <2>7
<1> HIDE DEF Q
<1>3. Nat \subseteq Q
  BY <1>1, <1>2, AllNat
<1>4. QED
  BY <1>3 DEF Q

\* The function the module defines is one.
LEMMA KeptIs ==
    ASSUME NEW T, NEW s \in Seq(T), NEW S
    PROVE  /\ KeptOf(s, S)[0] = << >>
           /\ \A i \in 1 .. Len(s) : KeptOf(s, S)[i] = KeepNext(s, S, i, KeptOf(s, S)[i - 1])
<1>1. Len(s) \in Nat
  OBVIOUS
<1>2. KeptOf(s, S) = CHOOSE f : Recurs(f, s, S, Len(s))
  BY DEF KeptOf, Recurs, KeepNext
<1>3. Recurs(KeptOf(s, S), s, S, Len(s))
  BY <1>1, <1>2, RecursionEnds
<1>4. PICK f : f = KeptOf(s, S)
  OBVIOUS
<1>5. \A i \in 0 .. Len(s) : f[i] = IF i = 0 THEN << >> ELSE KeepNext(s, S, i, f[i - 1])
  BY <1>3, <1>4 DEF Recurs
<1>6. f[0] = << >> /\ \A i \in 1 .. Len(s) : f[i] = KeepNext(s, S, i, f[i - 1])
  BY <1>1, <1>5
<1>7. QED
  BY <1>4, <1>6

KeptWell(T, s, S, n) ==
    /\ KeptOf(s, S)[n] \in Seq(T)
    /\ Members(KeptOf(s, S)[n]) = {s[i] : i \in 1 .. n} \cap S

\* After n steps it has kept those of the first n members that are in S.
LEMMA KeptOfMembers ==
    ASSUME NEW T, NEW s \in Seq(T), NEW S, NEW n \in 0 .. Len(s)
    PROVE  KeptWell(T, s, S, n)
<1> DEFINE K == KeptOf(s, S)
           Fine(m) == K[m] \in Seq(T) /\ Members(K[m]) = {s[i] : i \in 1 .. m} \cap S
           Q == {m \in Nat : m <= Len(s) => Fine(m)}
<1>1. Len(s) \in Nat
  OBVIOUS
<1>2. K[0] = << >> /\ \A i \in 1 .. Len(s) : K[i] = KeepNext(s, S, i, K[i - 1])
  BY KeptIs
<1> HIDE DEF K
<1>3. 0 \in Q
  <2>1. Members(K[0]) = {} /\ K[0] \in Seq(T)
    BY <1>2 DEF Members
  <2>2. {s[i] : i \in 1 .. 0} = {}
    OBVIOUS
  <2>3. QED
    BY <2>1, <2>2
<1>4. ASSUME NEW m \in Nat, m \in Q PROVE m + 1 \in Q
  <2> SUFFICES ASSUME m + 1 <= Len(s) PROVE Fine(m + 1)
    OBVIOUS
  <2>1. Fine(m)
    BY <1>1, <1>4
  <2>2. m + 1 \in 1 .. Len(s) /\ (m + 1) - 1 = m
    BY <1>1
  <2>3. K[m + 1] = KeepNext(s, S, m + 1, K[m])
    BY <1>2, <2>2
  <2>4. {s[i] : i \in 1 .. m + 1} = {s[i] : i \in 1 .. m} \cup {s[m + 1]}
    <3>1. 1 .. m + 1 = 1 .. m \cup {m + 1}
      OBVIOUS
    <3>2. QED
      BY <3>1
  <2>5. s[m + 1] \in T
    BY <2>2
  <2>6. CASE s[m + 1] \in S
    <3>1. K[m + 1] = Append(K[m], s[m + 1])
      BY <2>3, <2>6 DEF KeepNext
    <3>2. /\ K[m + 1] \in Seq(T) /\ Len(K[m + 1]) = Len(K[m]) + 1
          /\ \A i \in 1 .. Len(K[m]) : K[m + 1][i] = K[m][i]
          /\ K[m + 1][Len(K[m]) + 1] = s[m + 1]
      BY <2>1, <2>5, <3>1
    <3>3. Members(K[m + 1]) = Members(K[m]) \cup {s[m + 1]}
      <4>1. DOMAIN K[m] = 1 .. Len(K[m]) /\ DOMAIN K[m + 1] = 1 .. Len(K[m]) \cup {Len(K[m]) + 1}
        BY <2>1, <3>2, SMTT(20)
      <4>2. QED
        BY <3>2, <4>1, SMTT(20) DEF Members
    <3>4. QED
      BY <2>1, <2>4, <2>6, <3>2, <3>3
  <2>7. CASE s[m + 1] \notin S
    BY <2>1, <2>3, <2>4, <2>7 DEF KeepNext
  <2>8. QED
    BY <2>6, <2>7
<1> HIDE DEF Q
<1>5. n \in Nat /\ n <= Len(s) /\ n \in Q
  BY <1>1, <1>3, <1>4, AllNat
<1>6. QED
  BY <1>5 DEF Q, K, KeptWell

\* What is kept of s are the members of s that are in S.
LEMMA KeepProperties ==
    ASSUME NEW T, NEW s \in Seq(T), NEW S
    PROVE  /\ Keep(s, S) \in Seq(T)
           /\ Members(Keep(s, S)) = Members(s) \cap S
<1>1. Len(s) \in 0 .. Len(s) /\ DOMAIN s = 1 .. Len(s)
  OBVIOUS
<1>2. PICK n \in 0 .. Len(s) : n = Len(s)
  BY <1>1
<1>3. KeptWell(T, s, S, n)
  BY KeptOfMembers
<1>4. CASE Members(s) \subseteq S
  BY <1>4 DEF Keep
<1>5. CASE ~ (Members(s) \subseteq S)
  <2>1. Keep(s, S) = KeptOf(s, S)[n] /\ Members(s) = {s[i] : i \in 1 .. n}
    BY <1>1, <1>2, <1>5 DEF Keep, Members
  <2>2. QED
    BY <1>3, <2>1 DEF KeptWell
<1>6. QED
  BY <1>4, <1>5
=============================================================================
