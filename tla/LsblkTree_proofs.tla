-------------------------- MODULE LsblkTree_proofs --------------------------
(***************************************************************************)
(* Proofs about LsblkTree: what the recursive functions of fsutils/lsblk.go *)
(* return, for every number of devices, every stacking and every filter.   *)
(***************************************************************************)
EXTENDS LsblkTree, TLAPS, WellFoundedInduction, SequenceTheorems

-----------------------------------------------------------------------------
(* Induction                                                               *)

\* A set of natural numbers that is not empty has a least element.
LEMMA LeastNat ==
    ASSUME NEW T, T \subseteq Nat, T # {}
    PROVE  \E x \in T : \A y \in T : x <= y
<1>1. PICK x \in T : \A y \in T : <<y, x>> \notin OpToRel(<, Nat)
    BY NatLessThanWellFounded, WFMin, Zenon
<1>2. \A y \in T : <<y, x>> \in OpToRel(<, Nat) <=> y < x
    BY DEF OpToRel
<1>3. \A y \in T : ~(y < x) => x <= y
    OBVIOUS
<1> QED BY <1>1, <1>2, <1>3

\* Induction from 0 up to n, with a set for the predicate.
LEMMA Upward ==
    ASSUME NEW n \in Nat, NEW S, 0 \in S, \A i \in 1..n : i - 1 \in S => i \in S
    PROVE  \A i \in 0..n : i \in S
<1> DEFINE T == {i \in 0..n : i \notin S}
<1>1. SUFFICES ASSUME T # {} PROVE FALSE
    OBVIOUS
<1>2. PICK x \in T : \A y \in T : x <= y
  <2>1. T \subseteq Nat
    OBVIOUS
  <2> HIDE DEF T
  <2> QED BY <1>1, <2>1, LeastNat
<1>3. x \in 1..n /\ x - 1 \in 0..n /\ x - 1 \notin T
    BY <1>2
<1> QED BY <1>3

\* Induction from the devices that nothing lies on down to the oldest.
LEMMA Downward ==
    ASSUME NEW S, \A d \in Device : (\A e \in Device : e > d => e \in S) => d \in S
    PROVE  Device \subseteq S
<1> DEFINE T == {MaxDevice - d : d \in Device \ S}
<1>1. SUFFICES ASSUME T # {} PROVE FALSE
    OBVIOUS
<1>2. PICK x \in T : \A y \in T : x <= y
  <2>1. T \subseteq Nat
    BY TreeAssumption DEF Device
  <2> HIDE DEF T
  <2> QED BY <1>1, <2>1, LeastNat
<1>3. PICK d \in Device \ S : x = MaxDevice - d
    OBVIOUS
<1>4. ASSUME NEW e \in Device, e > d, e \notin S PROVE FALSE
  <2>1. MaxDevice - e \in T
    BY <1>4
  <2>2. x <= MaxDevice - e
    BY <1>2, <2>1
  <2> QED BY <1>3, <1>4, <2>2, TreeAssumption DEF Device
<1> QED BY <1>3, <1>4

-----------------------------------------------------------------------------
(* Sequences                                                               *)

\* A sequence of length n is a function on 1..n, and the other way round.
LEMMA AsSequence ==
    ASSUME NEW E, NEW n \in Nat
    PROVE  /\ \A c \in [1..n -> E] : c \in Seq(E) /\ Len(c) = n
           /\ \A c \in Seq(E) : Len(c) = n => c = [i \in 1..n |-> c[i]]
OBVIOUS

\* What two sequences hold together.
LEMMA ConcatMembers ==
    ASSUME NEW D, NEW s \in Seq(D), NEW t \in Seq(D)
    PROVE  ToSet(s \o t) = ToSet(s) \cup ToSet(t)
<1> DEFINE u == s \o t
<1>1. u \in Seq(D) /\ Len(u) = Len(s) + Len(t) /\ Len(s) \in Nat /\ Len(t) \in Nat
    OBVIOUS
<1>2. \A i \in 1..Len(s) : u[i] = s[i]
    OBVIOUS
<1>3. \A i \in 1..Len(t) : u[Len(s) + i] = t[i]
    OBVIOUS
<1>4. DOMAIN s = 1..Len(s) /\ DOMAIN t = 1..Len(t) /\ DOMAIN u = 1..Len(u)
    BY <1>1
<1> HIDE DEF u
<1>5. \A i \in DOMAIN u : i \in DOMAIN s \/ i - Len(s) \in DOMAIN t
    BY <1>1, <1>4
<1>6. \A i \in DOMAIN u : u[i] \in ToSet(s) \cup ToSet(t)
  <2> TAKE i \in DOMAIN u
  <2>1. CASE i \in DOMAIN s
    BY <1>2, <1>4, <2>1 DEF ToSet
  <2>2. CASE i - Len(s) \in DOMAIN t
    <3>1. u[i] = t[i - Len(s)]
      BY <1>1, <1>3, <1>4, <2>2
    <3> QED BY <2>2, <3>1 DEF ToSet
  <2> QED BY <1>5, <2>1, <2>2
<1>7. \A i \in DOMAIN s : s[i] \in ToSet(u)
    BY <1>1, <1>2, <1>4 DEF ToSet
<1>8. \A i \in DOMAIN t : t[i] \in ToSet(u)
  <2> TAKE i \in DOMAIN t
  <2>1. Len(s) + i \in DOMAIN u /\ u[Len(s) + i] = t[i]
    BY <1>1, <1>3, <1>4
  <2> QED BY <2>1 DEF ToSet
<1>9. ToSet(u) = ToSet(s) \cup ToSet(t)
    BY <1>6, <1>7, <1>8 DEF ToSet
<1> QED BY <1>9 DEF u

-----------------------------------------------------------------------------
(* FlattenSeq                                                              *)

\* What the first i of n sequences give, one after the other, for every i.
PartialSums(ss, n, D) ==
    {fl \in [0..n -> Seq(D)] : fl[0] = <<>> /\ \A i \in 1..n : fl[i] = fl[i-1] \o ss[i]}

\* The running concatenations of a sequence of sequences exist: FlattenSeq is then the last
\* one.
LEMMA PartialSumsExist ==
    ASSUME NEW D, NEW n \in Nat, NEW ss \in [1..n -> Seq(D)]
    PROVE  PartialSums(ss, n, D) # {}
<1> DEFINE Good(fl, m) == fl[0] = <<>> /\ \A i \in 1..m : fl[i] = fl[i-1] \o ss[i]
           S == {m \in 0..n : \E fl \in [0..n -> Seq(D)] : Good(fl, m)}
<1>1. 0 \in S
  <2>1. [j \in 0..n |-> <<>>] \in [0..n -> Seq(D)]
    OBVIOUS
  <2>2. Good([j \in 0..n |-> <<>>], 0)
    OBVIOUS
  <2>3. 0 \in 0..n
    OBVIOUS
  <2> HIDE DEF Good
  <2> QED BY <2>1, <2>2, <2>3
<1>2. ASSUME NEW m \in 1..n, m - 1 \in S PROVE m \in S
  <2>1. PICK fl \in [0..n -> Seq(D)] : Good(fl, m - 1)
    BY <1>2
  <2>2. m - 1 \in 0..n /\ m \in 0..n /\ m # 0
    OBVIOUS
  <2>3. fl[m-1] \o ss[m] \in Seq(D)
    BY <2>2
  <2> DEFINE new == [fl EXCEPT ![m] = fl[m-1] \o ss[m]]
  <2>4. new \in [0..n -> Seq(D)]
    BY <2>3
  <2>5. new[0] = <<>>
    BY <2>1, <2>2
  <2>6. ASSUME NEW i \in 1..m PROVE new[i] = new[i-1] \o ss[i]
    <3>1. i \in 0..n /\ i - 1 \in 0..n /\ i - 1 # m
      OBVIOUS
    <3>2. new[i-1] = fl[i-1]
      BY <3>1
    <3>3. CASE i = m
      BY <3>1, <3>2, <3>3
    <3>4. CASE i # m
      <4>1. i \in 1..m-1
        BY <3>4
      <4>2. new[i] = fl[i]
        BY <3>1, <3>4
      <4> QED BY <2>1, <3>2, <4>1, <4>2
    <3> QED BY <3>3, <3>4
  <2>7. Good(new, m)
    BY <2>5, <2>6
  <2> HIDE DEF Good, new
  <2> QED BY <2>2, <2>4, <2>7
<1>3. n \in S
  <2> HIDE DEF S
  <2>1. n \in 0..n
    OBVIOUS
  <2> QED BY <1>1, <1>2, <2>1, Upward
<1> QED BY <1>3 DEF PartialSums

\* FlattenSeq is the last of them.
LEMMA FlattenIsPrefix ==
    ASSUME NEW D, NEW n \in Nat, NEW ss \in [1..n -> Seq(D)], NEW fl \in PartialSums(ss, n, D)
    PROVE  FlattenSeq(ss) = fl[n]
<1>0. Len(ss) = n
    OBVIOUS
<1>1. CASE n = 0
  <2>1. ss = <<>>
    BY <1>1
  <2> QED BY <1>0, <1>1, <2>1 DEF PartialSums, FlattenSeq
<1>2. CASE n # 0
  <2> DEFINE Eqn(r) == r = [i \in 1..n |-> IF i = 1 THEN ss[i] ELSE r[i-1] \o ss[i]]
             h == [i \in 1..n |-> fl[i]]
  <2>1. Eqn(h)
    <3>1. ASSUME NEW i \in 1..n
          PROVE  fl[i] = IF i = 1 THEN ss[i] ELSE h[i-1] \o ss[i]
      <4>1. fl[i] = fl[i-1] \o ss[i] /\ ss[i] \in Seq(D) /\ fl[0] = <<>>
        BY DEF PartialSums
      <4>2. CASE i = 1
        <5>1. <<>> \o ss[i] = ss[i]
          BY <4>1
        <5>2. fl[i-1] = <<>>
          BY <4>1, <4>2
        <5> QED BY <4>1, <4>2, <5>1, <5>2
      <4>3. CASE i # 1
        <5>1. i - 1 \in 1..n
          BY <4>3
        <5> QED BY <4>1, <4>3, <5>1
      <4> QED BY <4>2, <4>3
    <3> QED BY <3>1
  <2>2. PICK r : Eqn(r) /\ FlattenSeq(ss) = r[n]
    <3> HIDE DEF h
    <3> QED BY <1>0, <1>2, <2>1 DEF FlattenSeq
  <2> DEFINE S == {m \in 0..n : m = 0 \/ r[m] = h[m]}
  <2>3. 0 \in S
    OBVIOUS
  <2>4. ASSUME NEW m \in 1..n, m - 1 \in S PROVE m \in S
    <3> HIDE DEF h
    <3>1. r[m] = IF m = 1 THEN ss[m] ELSE r[m-1] \o ss[m]
      BY <2>2
    <3>2. h[m] = IF m = 1 THEN ss[m] ELSE h[m-1] \o ss[m]
      BY <2>1
    <3>3. m # 1 => r[m-1] = h[m-1]
      BY <2>4
    <3> QED BY <3>1, <3>2, <3>3
  <2>5. n \in S
    <3> HIDE DEF S
    <3>1. n \in 0..n
      OBVIOUS
    <3> QED BY <2>3, <2>4, <3>1, Upward
  <2> QED BY <1>2, <2>2, <2>5
<1> QED BY <1>1, <1>2

\* Flattening gives a sequence, with the members of its parts.
LEMMA FlattenMembers ==
    ASSUME NEW D, NEW n \in Nat, NEW ss \in [1..n -> Seq(D)]
    PROVE  /\ FlattenSeq(ss) \in Seq(D)
           /\ \A x : x \in ToSet(FlattenSeq(ss)) <=> \E i \in 1..n : x \in ToSet(ss[i])
<1>1. PICK fl \in PartialSums(ss, n, D) : FlattenSeq(ss) = fl[n]
  <2>1. PartialSums(ss, n, D) # {}
    BY PartialSumsExist
  <2> QED BY <2>1, FlattenIsPrefix
<1>2. n \in 0..n /\ fl[n] \in Seq(D)
    BY DEF PartialSums
<1> DEFINE S == {m \in 0..n : \A x : x \in ToSet(fl[m]) <=> \E i \in 1..m : x \in ToSet(ss[i])}
<1>3. 0 \in S
    BY DEF PartialSums, ToSet
<1>4. ASSUME NEW m \in 1..n, m - 1 \in S PROVE m \in S
  <2>1. fl[m] = fl[m-1] \o ss[m] /\ fl[m-1] \in Seq(D) /\ ss[m] \in Seq(D)
    <3>1. m - 1 \in 0..n
      OBVIOUS
    <3> QED BY <3>1 DEF PartialSums
  <2>2. ToSet(fl[m]) = ToSet(fl[m-1]) \cup ToSet(ss[m])
    BY <2>1, ConcatMembers
  <2>3. (\A i \in 1..m : i \in 1..(m-1) \/ i = m) /\ 1..(m-1) \subseteq 1..m /\ m \in 1..m /\ m \in 0..n
    OBVIOUS
  <2>4. \A x : x \in ToSet(fl[m-1]) <=> \E i \in 1..(m-1) : x \in ToSet(ss[i])
    BY <1>4
  <2>5. \A x : x \in ToSet(fl[m]) <=> \E i \in 1..m : x \in ToSet(ss[i])
    BY <2>2, <2>3, <2>4, Zenon
  <2> QED BY <2>3, <2>5
<1>5. n \in S
  <2> HIDE DEF S
  <2> QED BY <1>2, <1>3, <1>4, Upward
<1>6. \A x : x \in ToSet(fl[n]) <=> \E i \in 1..n : x \in ToSet(ss[i])
    BY <1>5
<1> QED BY <1>1, <1>2, <1>6

\* One sequence flattened, and two sequences of sequences flattened one after the other.
LEMMA FlattenOne ==
    ASSUME NEW D, NEW s \in Seq(D)
    PROVE  FlattenSeq(<<s>>) = s
<1> DEFINE ss == <<s>>
           fl == [i \in 0..1 |-> IF i = 0 THEN <<>> ELSE s]
<1>1. ss \in [1..1 -> Seq(D)] /\ ss[1] = s
    OBVIOUS
<1>2. fl \in [0..1 -> Seq(D)] /\ fl[0] = <<>> /\ fl[1] = s
    OBVIOUS
<1>3. \A i \in 1..1 : i = 1 /\ i - 1 = 0
    OBVIOUS
<1>4. <<>> \o s = s
    BY ConcatEmptySeq
<1> HIDE DEF ss, fl
<1>5. fl \in PartialSums(ss, 1, D)
    BY <1>1, <1>2, <1>3, <1>4 DEF PartialSums
<1>6. FlattenSeq(ss) = fl[1]
    BY <1>1, <1>5, FlattenIsPrefix
<1> QED BY <1>2, <1>6 DEF ss

LEMMA FlattenConcat ==
    ASSUME NEW D, NEW n \in Nat, NEW ss \in [1..n -> Seq(D)],
           NEW m \in Nat, NEW tt \in [1..m -> Seq(D)]
    PROVE  FlattenSeq(ss \o tt) = FlattenSeq(ss) \o FlattenSeq(tt)
<1>1. PICK fl \in PartialSums(ss, n, D) : FlattenSeq(ss) = fl[n]
  <2>1. PartialSums(ss, n, D) # {}
    BY PartialSumsExist
  <2> QED BY <2>1, FlattenIsPrefix
<1>2. PICK gl \in PartialSums(tt, m, D) : FlattenSeq(tt) = gl[m]
  <2>1. PartialSums(tt, m, D) # {}
    BY PartialSumsExist
  <2> QED BY <2>1, FlattenIsPrefix
<1> DEFINE u == ss \o tt
           hl == [i \in 0..(n+m) |-> IF i <= n THEN fl[i] ELSE fl[n] \o gl[i-n]]
<1>3. ss \in Seq(Seq(D)) /\ tt \in Seq(Seq(D)) /\ Len(ss) = n /\ Len(tt) = m
    OBVIOUS
<1>4. /\ u \in [1..(n+m) -> Seq(D)]
      /\ \A i \in 1..n : u[i] = ss[i]
      /\ \A i \in (n+1)..(n+m) : u[i] = tt[i-n]
  <2>1. u \in Seq(Seq(D)) /\ Len(u) = n + m
    BY <1>3, ConcatProperties
  <2>2. \A i \in 1..(n+m) : u[i] = IF i <= n THEN ss[i] ELSE tt[i-n]
    BY <1>3, ConcatProperties
  <2> HIDE DEF u
  <2> QED BY <2>1, <2>2
<1> HIDE DEF u
<1>5. /\ fl \in [0..n -> Seq(D)] /\ fl[0] = <<>> /\ \A i \in 1..n : fl[i] = fl[i-1] \o ss[i]
      /\ gl \in [0..m -> Seq(D)] /\ gl[0] = <<>> /\ \A i \in 1..m : gl[i] = gl[i-1] \o tt[i]
    BY DEF PartialSums
<1>6. hl \in [0..(n+m) -> Seq(D)]
  <2>1. ASSUME NEW i \in 0..(n+m) PROVE hl[i] \in Seq(D)
    <3>1. fl[n] \in Seq(D)
      BY <1>5
    <3>2. CASE i <= n
      BY <1>5, <3>2
    <3>3. CASE ~(i <= n)
      <4>1. i - n \in 0..m
        BY <3>3
      <4>2. gl[i-n] \in Seq(D)
        BY <1>5, <4>1
      <4> QED BY <3>1, <3>3, <4>2
    <3> QED BY <3>2, <3>3
  <2> QED BY <2>1
<1>7. hl[0] = <<>>
    BY <1>5
<1>8. ASSUME NEW i \in 1..(n+m) PROVE hl[i] = hl[i-1] \o u[i]
  <2>0. i \in 0..(n+m) /\ i - 1 \in 0..(n+m)
    OBVIOUS
  <2>1. CASE i <= n
    <3>1. i \in 1..n /\ i - 1 <= n
      BY <2>1
    <3>2. hl[i] = fl[i] /\ hl[i-1] = fl[i-1]
      BY <2>0, <2>1, <3>1
    <3> QED BY <1>4, <1>5, <3>1, <3>2
  <2>2. CASE i = n + 1
    <3>1. 1 \in 1..m /\ ~(i <= n) /\ i - n = 1 /\ i - 1 = n /\ n <= n /\ 1 - 1 = 0
      BY <2>2
    <3>2. hl[i] = fl[n] \o gl[1] /\ hl[i-1] = fl[n]
      BY <2>0, <3>1
    <3>3. gl[1] = gl[0] \o tt[1] /\ gl[0] = <<>> /\ tt[1] \in Seq(D)
      BY <1>5, <3>1
    <3>4. gl[1] = tt[1]
      BY <3>3, ConcatEmptySeq
    <3>5. u[i] = tt[1]
      BY <1>4, <2>2
    <3> QED BY <3>2, <3>4, <3>5
  <2>3. CASE i > n + 1
    <3>1. /\ i - n \in 1..m /\ i - n - 1 \in 0..m /\ (i - 1) - n = i - n - 1
          /\ ~(i <= n) /\ ~(i - 1 <= n) /\ i \in (n+1)..(n+m)
      BY <2>3
    <3>2. hl[i] = fl[n] \o gl[i-n] /\ hl[i-1] = fl[n] \o gl[i-n-1]
      BY <2>0, <3>1
    <3>3. gl[i-n] = gl[i-n-1] \o tt[i-n]
      BY <1>5, <3>1
    <3>4. fl[n] \in Seq(D) /\ gl[i-n-1] \in Seq(D) /\ tt[i-n] \in Seq(D)
      <4>1. n \in 0..n
        OBVIOUS
      <4> HIDE DEF hl
      <4>2. fl[n] \in Seq(D)
        BY <1>5, <4>1
      <4>3. gl[i-n-1] \in Seq(D)
        BY <1>5, <3>1
      <4>4. tt[i-n] \in Seq(D)
        BY <3>1
      <4> QED BY <4>2, <4>3, <4>4
    <3>5. u[i] = tt[i-n]
      BY <1>4, <3>1
    <3>6. fl[n] \o (gl[i-n-1] \o tt[i-n]) = (fl[n] \o gl[i-n-1]) \o tt[i-n]
      <4>1. \A a, b, c \in Seq(D) : a \o (b \o c) = (a \o b) \o c
        OBVIOUS
      <4> HIDE DEF hl
      <4> QED BY <3>4, <4>1
    <3> QED BY <3>2, <3>3, <3>5, <3>6
  <2>4. i <= n \/ i = n + 1 \/ i > n + 1
    OBVIOUS
  <2> QED BY <2>1, <2>2, <2>3, <2>4, Zenon
<1>9. hl[n+m] = fl[n] \o gl[m]
  <2>1. CASE m = 0
    <3>1. fl[n] \in Seq(D)
      BY <1>5
    <3>2. fl[n] \o <<>> = fl[n]
      BY <3>1, ConcatEmptySeq
    <3> QED BY <1>5, <2>1, <3>2
  <2>2. CASE m # 0
    <3>1. n + m \in 0..(n+m) /\ ~(n + m <= n) /\ (n + m) - n = m
      BY <2>2
    <3> QED BY <3>1
  <2> QED BY <2>1, <2>2
<1>10. hl \in PartialSums(u, n+m, D)
  <2> HIDE DEF hl
  <2> QED BY <1>6, <1>7, <1>8 DEF PartialSums
<1>11. FlattenSeq(u) = hl[n+m]
  <2>1. n + m \in Nat
    OBVIOUS
  <2> HIDE DEF hl
  <2> QED BY <1>4, <1>10, <2>1, FlattenIsPrefix
<1> QED BY <1>1, <1>2, <1>9, <1>11 DEF u

-----------------------------------------------------------------------------
(* The loops                                                               *)

\* A recursive function called on each device returns what it returns for one of them.
LEMMA ForEachMembers ==
    ASSUME NEW w \in [Device -> Seq(Device)], NEW s \in Seq(Device)
    PROVE  /\ ForEach(w, s) \in Seq(Device)
           /\ \A x : x \in ToSet(ForEach(w, s)) <=> \E d \in ToSet(s) : x \in ToSet(w[d])
<1> DEFINE ss == [i \in DOMAIN s |-> w[s[i]]]
<1>1. PICK n \in Nat : n = Len(s) /\ DOMAIN s = 1..n
    OBVIOUS
<1>2. \A i \in 1..n : s[i] \in Device
    BY <1>1
<1>3. ss \in [1..n -> Seq(Device)]
    BY <1>1, <1>2
<1>4. \A x : (\E i \in 1..n : x \in ToSet(ss[i])) <=> \E d \in ToSet(s) : x \in ToSet(w[d])
    BY <1>1 DEF ToSet
<1>5. ForEach(w, s) = FlattenSeq(ss)
    BY DEF ForEach
<1>6. /\ FlattenSeq(ss) \in Seq(Device)
      /\ \A x : x \in ToSet(FlattenSeq(ss)) <=> \E i \in 1..n : x \in ToSet(ss[i])
  <2> HIDE DEF ss
  <2> QED BY <1>3, FlattenMembers
<1> HIDE DEF ss
<1> QED BY <1>4, <1>5, <1>6, Zenon

\* What the loop of FilterDevices flattens.
Chosen(s, K) == [i \in DOMAIN s |-> IF s[i] \in K THEN <<s[i]>> ELSE <<>>]

\* What FilterDevices appends, device by device.
LEMMA ChosenType ==
    ASSUME NEW s \in Seq(Device), NEW K
    PROVE  Len(s) \in Nat /\ DOMAIN s = 1..Len(s) /\ Chosen(s, K) \in [1..Len(s) -> Seq(Device)]
<1>1. PICK n \in Nat : n = Len(s) /\ DOMAIN s = 1..n
    OBVIOUS
<1>2. \A i \in 1..n : s[i] \in Device
    BY <1>1
<1>3. Chosen(s, K) \in [1..n -> Seq(Device)]
    BY <1>1, <1>2 DEF Chosen
<1> QED BY <1>1, <1>3

\* FilterDevices keeps the devices of K, ...
LEMMA FilterDevicesMembers ==
    ASSUME NEW s \in Seq(Device), NEW K
    PROVE  /\ FilterDevices(s, K) \in Seq(Device)
           /\ ToSet(FilterDevices(s, K)) = ToSet(s) \cap K
<1>1. PICK n \in Nat : n = Len(s) /\ DOMAIN s = 1..n /\ Chosen(s, K) \in [1..n -> Seq(Device)]
    BY ChosenType
<1>2. FilterDevices(s, K) = FlattenSeq(Chosen(s, K))
    BY DEF FilterDevices, Chosen
<1>3. ASSUME NEW i \in 1..n, NEW x
      PROVE  x \in ToSet(Chosen(s, K)[i]) <=> s[i] \in K /\ x = s[i]
    BY <1>1 DEF Chosen, ToSet
<1>4. \A x : x \in ToSet(s) <=> \E i \in 1..n : x = s[i]
    BY <1>1 DEF ToSet
<1>5. /\ FlattenSeq(Chosen(s, K)) \in Seq(Device)
      /\ \A x : x \in ToSet(FlattenSeq(Chosen(s, K))) <=> \E i \in 1..n : x \in ToSet(Chosen(s, K)[i])
    BY <1>1, FlattenMembers
<1>6. ASSUME NEW x
      PROVE  x \in ToSet(FlattenSeq(Chosen(s, K))) <=> x \in ToSet(s) /\ x \in K
  <2>1. \A i \in 1..n : x \in ToSet(Chosen(s, K)[i]) <=> s[i] \in K /\ x = s[i]
    BY <1>3
  <2> QED BY <1>4, <1>5, <2>1, Zenon
<1> QED BY <1>2, <1>5, <1>6

\* ... one part of the rows after the other, ...
LEMMA FilterDevicesConcat ==
    ASSUME NEW s \in Seq(Device), NEW t \in Seq(Device), NEW K
    PROVE  FilterDevices(s \o t, K) = FilterDevices(s, K) \o FilterDevices(t, K)
<1>1. PICK n \in Nat : n = Len(s) /\ DOMAIN s = 1..n /\ Chosen(s, K) \in [1..n -> Seq(Device)]
    BY ChosenType
<1>2. PICK m \in Nat : m = Len(t) /\ DOMAIN t = 1..m /\ Chosen(t, K) \in [1..m -> Seq(Device)]
    BY ChosenType
<1> DEFINE u == s \o t
           cs == Chosen(s, K)
           ct == Chosen(t, K)
<1>3. u \in Seq(Device) /\ Len(u) = n + m /\ \A i \in 1..(n+m) : u[i] = IF i <= n THEN s[i] ELSE t[i-n]
    BY <1>1, <1>2, ConcatProperties
<1> HIDE DEF cs, ct
<1>4. /\ cs \o ct \in Seq(Seq(Device)) /\ Len(cs \o ct) = n + m
      /\ \A i \in 1..(n+m) : (cs \o ct)[i] = IF i <= n THEN cs[i] ELSE ct[i-n]
  <2>1. cs \in Seq(Seq(Device)) /\ Len(cs) = n /\ ct \in Seq(Seq(Device)) /\ Len(ct) = m
    BY <1>1, <1>2, AsSequence DEF cs, ct
  <2> QED BY <2>1, ConcatProperties
<1>5. Chosen(u, K) = cs \o ct
  <2>1. DOMAIN u = 1..(n+m) /\ DOMAIN (cs \o ct) = 1..(n+m)
    <3> HIDE DEF u
    <3> QED BY <1>3, <1>4
  <2>2. ASSUME NEW i \in 1..(n+m) PROVE Chosen(u, K)[i] = (cs \o ct)[i]
    <3>1. CASE i <= n
      <4>1. i \in 1..n
        BY <3>1
      <4>2. (cs \o ct)[i] = cs[i] /\ u[i] = s[i]
        BY <1>3, <1>4, <3>1
      <4> HIDE DEF u
      <4> QED BY <1>1, <2>1, <4>1, <4>2 DEF Chosen, cs
    <3>2. CASE ~(i <= n)
      <4>1. i - n \in 1..m
        BY <3>2
      <4>2. (cs \o ct)[i] = ct[i-n] /\ u[i] = t[i-n]
        BY <1>3, <1>4, <3>2
      <4> HIDE DEF u
      <4> QED BY <1>2, <2>1, <4>1, <4>2 DEF Chosen, ct
    <3> QED BY <3>1, <3>2
  <2>3. DOMAIN Chosen(u, K) = 1..(n+m)
    BY <2>1 DEF Chosen
  <2>4. cs \o ct = [i \in 1..(n+m) |-> (cs \o ct)[i]]
    <3>1. n + m \in Nat
      OBVIOUS
    <3>2. \A c \in Seq(Seq(Device)) : Len(c) = n + m => c = [i \in 1..(n+m) |-> c[i]]
      BY <3>1, AsSequence
    <3> QED BY <1>4, <3>2, Zenon
  <2>5. Chosen(u, K) = [i \in 1..(n+m) |-> Chosen(u, K)[i]]
    <3> HIDE DEF u
    <3> QED BY <2>1 DEF Chosen
  <2> HIDE DEF u
  <2> QED BY <2>2, <2>4, <2>5
<1>6. FlattenSeq(cs \o ct) = FlattenSeq(cs) \o FlattenSeq(ct)
  <2>1. cs \in [1..n -> Seq(Device)] /\ ct \in [1..m -> Seq(Device)]
    BY <1>1, <1>2 DEF cs, ct
  <2>2. \A ss \in [1..n -> Seq(Device)], tt \in [1..m -> Seq(Device)] :
            FlattenSeq(ss \o tt) = FlattenSeq(ss) \o FlattenSeq(tt)
    <3> HIDE DEF u
    <3> QED BY FlattenConcat
  <2> QED BY <2>1, <2>2, Zenon
<1> QED BY <1>5, <1>6 DEF FilterDevices, Chosen, cs, ct

\* ... however the rows are put together, ...
LEMMA FilterDevicesFlatten ==
    ASSUME NEW n \in Nat, NEW ss \in [1..n -> Seq(Device)], NEW K
    PROVE  FilterDevices(FlattenSeq(ss), K) = FlattenSeq([i \in 1..n |-> FilterDevices(ss[i], K)])
<1>1. PICK fl \in PartialSums(ss, n, Device) : FlattenSeq(ss) = fl[n]
  <2>1. PartialSums(ss, n, Device) # {}
    BY PartialSumsExist
  <2> QED BY <2>1, FlattenIsPrefix
<1>2. /\ fl \in [0..n -> Seq(Device)] /\ fl[0] = <<>>
      /\ \A i \in 1..n : fl[i] = fl[i-1] \o ss[i]
    BY <1>1 DEF PartialSums
<1> DEFINE gg == [i \in 1..n |-> FilterDevices(ss[i], K)]
           gl == [i \in 0..n |-> FilterDevices(fl[i], K)]
<1>3. gg \in [1..n -> Seq(Device)]
    BY FilterDevicesMembers
<1>4. gl \in [0..n -> Seq(Device)]
    BY <1>2, FilterDevicesMembers
<1>5. gl[0] = <<>>
  <2>1. FilterDevices(<<>>, K) = <<>>
    BY DEF FilterDevices, FlattenSeq
  <2> QED BY <1>2, <2>1
<1>6. ASSUME NEW i \in 1..n PROVE gl[i] = gl[i-1] \o gg[i]
  <2>1. i \in 0..n /\ i - 1 \in 0..n
    OBVIOUS
  <2>2. fl[i] = fl[i-1] \o ss[i] /\ fl[i-1] \in Seq(Device) /\ ss[i] \in Seq(Device)
    BY <1>2, <2>1
  <2>3. \A a, b \in Seq(Device) :
            FilterDevices(a \o b, K) = FilterDevices(a, K) \o FilterDevices(b, K)
    BY FilterDevicesConcat
  <2>4. FilterDevices(fl[i], K) = FilterDevices(fl[i-1], K) \o FilterDevices(ss[i], K)
    BY <2>2, <2>3, Zenon
  <2> QED BY <2>1, <2>4
<1>7. gl \in PartialSums(gg, n, Device)
  <2> HIDE DEF gg, gl
  <2> QED BY <1>4, <1>5, <1>6 DEF PartialSums
<1>8. FlattenSeq(gg) = gl[n]
  <2> HIDE DEF gg, gl
  <2> QED BY <1>3, <1>7, FlattenIsPrefix
<1>9. n \in 0..n
    OBVIOUS
<1> QED BY <1>1, <1>8, <1>9

\* ... so that filtering what a walk returns is filtering it at every device.
LEMMA FilterDevicesForEach ==
    ASSUME NEW w \in [Device -> Seq(Device)], NEW s \in Seq(Device), NEW K
    PROVE  FilterDevices(ForEach(w, s), K) = ForEach([d \in Device |-> FilterDevices(w[d], K)], s)
<1> DEFINE ss == [i \in DOMAIN s |-> w[s[i]]]
           wk == [d \in Device |-> FilterDevices(w[d], K)]
<1>1. PICK n \in Nat : n = Len(s) /\ DOMAIN s = 1..n
    OBVIOUS
<1>2. \A i \in 1..n : s[i] \in Device
    BY <1>1
<1>3. ss \in [1..n -> Seq(Device)]
    BY <1>1, <1>2
<1>4. [i \in 1..n |-> FilterDevices(ss[i], K)] = [i \in DOMAIN s |-> wk[s[i]]]
    BY <1>1, <1>2
<1>5. FilterDevices(FlattenSeq(ss), K) = FlattenSeq([i \in 1..n |-> FilterDevices(ss[i], K)])
  <2> HIDE DEF ss
  <2> QED BY <1>3, FilterDevicesFlatten
<1>6. ForEach(w, s) = FlattenSeq(ss) /\ ForEach(wk, s) = FlattenSeq([i \in DOMAIN s |-> wk[s[i]]])
    BY DEF ForEach
<1> QED BY <1>4, <1>5, <1>6

-----------------------------------------------------------------------------
(* The recursion                                                           *)

\* Younger devices lie on older ones, so that the recursion ends.
LeadsUp(next) ==
    /\ next \in [Device -> Seq(Device)]
    /\ \A d \in Device : \A e \in ToSet(next[d]) : d < e

Unfolds(w, kept, next) == w = [d \in Device |-> kept[d] \o ForEach(w, next[d])]

\* The loop only looks at the devices that it visits.
LEMMA ForEachLocal ==
    ASSUME NEW w, NEW v, NEW s \in Seq(Device), \A e \in ToSet(s) : w[e] = v[e]
    PROVE  ForEach(w, s) = ForEach(v, s)
<1>1. \A i \in DOMAIN s : w[s[i]] = v[s[i]]
    BY DEF ToSet
<1>2. [i \in DOMAIN s |-> w[s[i]]] = [i \in DOMAIN s |-> v[s[i]]]
    BY <1>1
<1> QED BY <1>2 DEF ForEach

\* Where children are newer than their parent, the recursion has a solution: it is built
\* from the newest device down.
LEMMA UnfoldingExists ==
    ASSUME NEW kept \in [Device -> Seq(Device)], NEW next, LeadsUp(next)
    PROVE  \E w : Unfolds(w, kept, next)
<1> DEFINE Good(w, m) == \A d \in Device : d > MaxDevice - m => w[d] = kept[d] \o ForEach(w, next[d])
           S == {m \in 0..MaxDevice : \E w \in [Device -> Seq(Device)] : Good(w, m)}
<1>0. MaxDevice \in Nat
    BY TreeAssumption
<1>1. 0 \in S
  <2>1. [d \in Device |-> <<>>] \in [Device -> Seq(Device)]
    OBVIOUS
  <2>2. Good([d \in Device |-> <<>>], 0)
    BY <1>0 DEF Device
  <2>3. 0 \in 0..MaxDevice
    BY <1>0
  <2> HIDE DEF Good
  <2> QED BY <2>1, <2>2, <2>3
<1>2. ASSUME NEW m \in 1..MaxDevice, m - 1 \in S PROVE m \in S
  <2>1. PICK w \in [Device -> Seq(Device)] : Good(w, m - 1)
    BY <1>2
  <2> DEFINE c == MaxDevice - m + 1
             row == kept[c] \o ForEach(w, next[c])
             new == [w EXCEPT ![c] = row]
  <2>2. c \in Device /\ c \in Int
    BY <1>0 DEF Device
  <2>3. row \in Seq(Device)
    <3>1. kept[c] \in Seq(Device) /\ next[c] \in Seq(Device)
      BY <2>2 DEF LeadsUp
    <3>2. ForEach(w, next[c]) \in Seq(Device)
      BY <3>1, ForEachMembers
    <3> QED BY <3>1, <3>2, ConcatProperties
  <2>4. new \in [Device -> Seq(Device)]
    <3> HIDE DEF row, c
    <3> QED BY <2>2, <2>3
  <2>5. ASSUME NEW d \in Device, d > MaxDevice - m
        PROVE  new[d] = kept[d] \o ForEach(new, next[d])
    <3>1. d >= c /\ d \in Int
      BY <1>0, <2>5 DEF Device
    <3>2. next[d] \in Seq(Device) /\ \A e \in ToSet(next[d]) : d < e /\ e \in Device
      BY DEF LeadsUp, ToSet
    <3>3. \A e \in ToSet(next[d]) : e # c
      <4> HIDE DEF c
      <4> QED BY <2>2, <3>1, <3>2 DEF Device
    <3>4. \A e \in ToSet(next[d]) : new[e] = w[e]
      <4> HIDE DEF row, c
      <4> QED BY <3>2, <3>3
    <3>5. ForEach(new, next[d]) = ForEach(w, next[d])
      <4> HIDE DEF new
      <4> QED BY <3>2, <3>4, ForEachLocal
    <3>6. CASE d = c
      <4>1. new[d] = row
        <5> HIDE DEF row, c
        <5> QED BY <2>2, <3>6
      <4> QED BY <3>5, <3>6, <4>1
    <3>7. CASE d # c
      <4>1. new[d] = w[d]
        <5> HIDE DEF row, c
        <5> QED BY <3>7
      <4>2. d > MaxDevice - (m - 1)
        BY <1>0, <3>1, <3>7
      <4>3. w[d] = kept[d] \o ForEach(w, next[d])
        BY <2>1, <4>2
      <4> QED BY <3>5, <4>1, <4>3
    <3> QED BY <3>6, <3>7
  <2>6. Good(new, m)
    BY <2>5
  <2>7. m \in 0..MaxDevice
    OBVIOUS
  <2> HIDE DEF Good, new
  <2> QED BY <2>4, <2>6, <2>7
<1>3. MaxDevice \in S
  <2> HIDE DEF S
  <2>1. MaxDevice \in 0..MaxDevice
    BY <1>0
  <2> QED BY <1>0, <1>1, <1>2, <2>1, Upward
<1>4. PICK w \in [Device -> Seq(Device)] : Good(w, MaxDevice)
    BY <1>3
<1>5. \A d \in Device : d > MaxDevice - MaxDevice
    BY <1>0 DEF Device
<1>6. \A d \in Device : w[d] = kept[d] \o ForEach(w, next[d])
    BY <1>4, <1>5
<1>7. w = [d \in Device |-> w[d]]
    OBVIOUS
<1> QED BY <1>6, <1>7 DEF Unfolds

\* So Walk is one: each device contributes its own part, then come its children.
LEMMA WalkUnfolds ==
    ASSUME NEW kept \in [Device -> Seq(Device)], NEW next, LeadsUp(next)
    PROVE  /\ Walk(kept, next) \in [Device -> Seq(Device)]
           /\ \A d \in Device : Walk(kept, next)[d] = kept[d] \o ForEach(Walk(kept, next), next[d])
<1> DEFINE W == Walk(kept, next)
<1>1. Unfolds(W, kept, next)
  <2>1. W = CHOOSE w : Unfolds(w, kept, next)
    BY DEF Walk, Unfolds
  <2> HIDE DEF W
  <2> QED BY <2>1, UnfoldingExists
<1> HIDE DEF W
<1>2. \A d \in Device : W[d] = kept[d] \o ForEach(W, next[d])
    BY <1>1 DEF Unfolds
<1> DEFINE S == {d \in Device : W[d] \in Seq(Device)}
<1>3. ASSUME NEW d \in Device, \A e \in Device : e > d => e \in S PROVE d \in S
  <2> DEFINE v == [e \in Device |-> IF e > d THEN W[e] ELSE <<>>]
  <2>1. v \in [Device -> Seq(Device)]
    BY <1>3
  <2>2. kept[d] \in Seq(Device) /\ next[d] \in Seq(Device)
        /\ \A e \in ToSet(next[d]) : d < e /\ e \in Device
    BY DEF LeadsUp, ToSet
  <2>3. \A e \in ToSet(next[d]) : W[e] = v[e]
    BY <2>2, TreeAssumption DEF Device
  <2> HIDE DEF v
  <2>4. ForEach(W, next[d]) = ForEach(v, next[d])
    BY <2>2, <2>3, ForEachLocal
  <2>5. ForEach(v, next[d]) \in Seq(Device)
    BY <2>1, <2>2, ForEachMembers
  <2>6. kept[d] \o ForEach(v, next[d]) \in Seq(Device)
    BY <2>2, <2>5, ConcatProperties
  <2>7. W[d] \in Seq(Device)
    BY <1>2, <2>4, <2>6
  <2> QED BY <2>7
<1>4. Device \subseteq S
  <2> HIDE DEF S
  <2> QED BY <1>3, Downward
<1>5. W \in [Device -> Seq(Device)]
  <2>1. W = [d \in Device |-> W[d]]
    BY <1>1 DEF Unfolds
  <2> QED BY <1>4, <2>1
<1> QED BY <1>2, <1>5 DEF W

\* The same as sets.
LEMMA WalkMembers ==
    ASSUME NEW kept \in [Device -> Seq(Device)], NEW next, LeadsUp(next), NEW d \in Device
    PROVE  \A x : x \in ToSet(Walk(kept, next)[d]) <=>
                 x \in ToSet(kept[d]) \/ \E c \in ToSet(next[d]) : x \in ToSet(Walk(kept, next)[c])
<1> DEFINE W == Walk(kept, next)
           s == kept[d]
           t == ForEach(W, next[d])
<1>1. W \in [Device -> Seq(Device)] /\ W[d] = s \o t
    BY WalkUnfolds
<1>2. s \in Seq(Device) /\ next[d] \in Seq(Device)
    BY DEF LeadsUp
<1> HIDE DEF W, s
<1>3. /\ t \in Seq(Device)
      /\ \A x : x \in ToSet(t) <=> \E c \in ToSet(next[d]) : x \in ToSet(W[c])
    BY <1>1, <1>2, ForEachMembers
<1> HIDE DEF t
<1>4. ToSet(s \o t) = ToSet(s) \cup ToSet(t)
    BY <1>2, <1>3, ConcatMembers
<1>5. \A x : x \in ToSet(W[d]) <=> x \in ToSet(s) \/ \E c \in ToSet(next[d]) : x \in ToSet(W[c])
    BY <1>1, <1>3, <1>4
<1> QED BY <1>5 DEF W, s

\* The devices of D and those that next leads to from them.
Reached(D, next) ==
    {e \in Device :
        \A X \in SUBSET Device : D \subseteq X /\ (\A d \in X : ToSet(next[d]) \subseteq X) => e \in X}

\* What is reached contains its start and whatever comes next of it.
LEMMA ReachedClosed ==
    ASSUME NEW D \in SUBSET Device, NEW next, LeadsUp(next)
    PROVE  D \subseteq Reached(D, next) /\ \A d \in Reached(D, next) : ToSet(next[d]) \subseteq Reached(D, next)
<1>1. D \subseteq Reached(D, next)
    BY DEF Reached
<1>2. ASSUME NEW d \in Reached(D, next), NEW e \in ToSet(next[d]) PROVE e \in Reached(D, next)
  <2>1. e \in Device
    BY DEF LeadsUp, ToSet, Reached
  <2>2. ASSUME NEW X \in SUBSET Device, D \subseteq X, \A c \in X : ToSet(next[c]) \subseteq X
        PROVE  e \in X
    <3>1. d \in X
      BY <2>2 DEF Reached
    <3> QED BY <2>2, <3>1
  <2> QED BY <2>1, <2>2 DEF Reached
<1> QED BY <1>1, <1>2

\* What the recursion returns for a device was kept of a device that it reaches.
LEMMA WalkStaysInside ==
    ASSUME NEW kept \in [Device -> Seq(Device)], NEW next, LeadsUp(next),
           NEW X \in SUBSET Device, \A d \in X : ToSet(next[d]) \subseteq X
    PROVE  \A d \in X : \A x \in ToSet(Walk(kept, next)[d]) : \E e \in X : x \in ToSet(kept[e])
<1> DEFINE W == Walk(kept, next)
           S == {d \in Device : d \in X => \A x \in ToSet(W[d]) : \E e \in X : x \in ToSet(kept[e])}
<1>1. ASSUME NEW d \in Device, \A e \in Device : e > d => e \in S PROVE d \in S
  <2>1. \A x : x \in ToSet(W[d]) <=>
            x \in ToSet(kept[d]) \/ \E c \in ToSet(next[d]) : x \in ToSet(W[c])
    BY WalkMembers
  <2> HIDE DEF W
  <2>2. SUFFICES ASSUME d \in X, NEW x \in ToSet(W[d]) PROVE \E e \in X : x \in ToSet(kept[e])
    OBVIOUS
  <2>3. CASE x \in ToSet(kept[d])
    BY <2>2, <2>3
  <2>4. ASSUME NEW c \in ToSet(next[d]), x \in ToSet(W[c]) PROVE \E e \in X : x \in ToSet(kept[e])
    <3>1. d < c /\ c \in Device /\ c \in X
      BY <2>2 DEF LeadsUp, ToSet
    <3>2. c > d
      BY <3>1, TreeAssumption DEF Device
    <3>3. c \in S
      BY <1>1, <3>1, <3>2
    <3> QED BY <2>4, <3>1, <3>3
  <2> QED BY <2>1, <2>2, <2>3, <2>4
<1>2. Device \subseteq S
  <2> HIDE DEF S
  <2> QED BY <1>1, Downward
<1> QED BY <1>2

\* A walk returns what the devices that it reaches contribute.
LEMMA WalkReaches ==
    ASSUME NEW kept \in [Device -> Seq(Device)], NEW next, LeadsUp(next), NEW s \in Seq(Device)
    PROVE  /\ ForEach(Walk(kept, next), s) \in Seq(Device)
           /\ \A x : x \in ToSet(ForEach(Walk(kept, next), s)) <=>
                        \E e \in Reached(ToSet(s), next) : x \in ToSet(kept[e])
<1> DEFINE W == Walk(kept, next)
           R == Reached(ToSet(s), next)
           T == ToSet(ForEach(W, s))
<1>1. /\ W \in [Device -> Seq(Device)]
      /\ \A d \in Device : W[d] = kept[d] \o ForEach(W, next[d])
    BY WalkUnfolds
<1>2. ToSet(s) \in SUBSET Device
    BY DEF ToSet
<1> HIDE DEF W
<1>3. /\ ForEach(W, s) \in Seq(Device)
      /\ \A x : x \in T <=> \E d \in ToSet(s) : x \in ToSet(W[d])
    BY <1>1, ForEachMembers
<1>4. R \in SUBSET Device /\ ToSet(s) \subseteq R /\ \A d \in R : ToSet(next[d]) \subseteq R
  <2>1. R \in SUBSET Device
    BY DEF Reached
  <2> HIDE DEF R
  <2> QED BY <1>2, <2>1, ReachedClosed DEF R
<1>5. ASSUME NEW x \in T PROVE \E e \in R : x \in ToSet(kept[e])
  <2>1. PICK d \in ToSet(s) : x \in ToSet(W[d])
    BY <1>3
  <2> HIDE DEF R
  <2>2. \A c \in R : \A y \in ToSet(W[c]) : \E e \in R : y \in ToSet(kept[e])
    BY <1>4, WalkStaysInside DEF W
  <2> QED BY <1>4, <2>1, <2>2
<1>6. ASSUME NEW e \in R, NEW x \in ToSet(kept[e]) PROVE x \in T
  <2> DEFINE X == {d \in Device : ToSet(W[d]) \subseteq T}
  <2>1. ToSet(s) \subseteq X
    BY <1>2, <1>3
  <2>2. \A d \in Device : ToSet(kept[d]) \subseteq ToSet(W[d])
                          /\ \A c \in ToSet(next[d]) : ToSet(W[c]) \subseteq ToSet(W[d])
    BY WalkMembers DEF W
  <2>3. \A d \in X : ToSet(next[d]) \subseteq X
    <3> TAKE d \in X
    <3>1. ToSet(next[d]) \subseteq Device
      BY DEF LeadsUp, ToSet
    <3> HIDE DEF T
    <3> QED BY <2>2, <3>1
  <2>4. X \in SUBSET Device
    OBVIOUS
  <2>5. e \in X
    <3> HIDE DEF X
    <3> QED BY <2>1, <2>3, <2>4 DEF Reached
  <2> HIDE DEF T
  <2> QED BY <1>4, <2>2, <2>5
<1> HIDE DEF R
<1> QED BY <1>3, <1>5, <1>6 DEF W, R

-----------------------------------------------------------------------------
(* The forest                                                              *)

ForestInv == LeadsUp(below) /\ f \in Filter /\ g \in Filter

\* A device lies on older ones, whatever other tools stack and take apart.
THEOREM SpecForestInv == Spec => []ForestInv
<1>1. Init => ForestInv
    BY TreeAssumption DEF Init, ForestInv, LeadsUp, ToSet
<1>2. ForestInv /\ [Next]_vars => ForestInv'
  <2> SUFFICES ASSUME ForestInv, [Next]_vars PROVE ForestInv'
    OBVIOUS
  <2>1. ASSUME NEW d \in Device, NEW s \in Seq(Device), \A c \in ToSet(s) : d < c,
               below' = [below EXCEPT ![d] = s], UNCHANGED <<f, g>>
        PROVE  ForestInv'
    <3>1. below' \in [Device -> Seq(Device)]
      BY <2>1 DEF ForestInv, LeadsUp
    <3>2. ASSUME NEW c \in Device, NEW e \in ToSet(below'[c]) PROVE c < e
      BY <2>1, <3>2 DEF ForestInv, LeadsUp
    <3> QED BY <2>1, <3>1, <3>2 DEF ForestInv, LeadsUp
  <2>2. ASSUME NEW d \in Device, NEW e \in Device, Stack(d, e) PROVE ForestInv'
    <3>1. below[d] \in Seq(Device) /\ \A c \in ToSet(below[d]) : d < c
      BY DEF ForestInv, LeadsUp
    <3>2. Append(below[d], e) \in Seq(Device)
      BY <3>1
    <3>3. \A c \in ToSet(Append(below[d], e)) : c \in ToSet(below[d]) \/ c = e
      BY <3>1 DEF ToSet
    <3>4. d < e /\ below' = [below EXCEPT ![d] = Append(below[d], e)] /\ UNCHANGED <<f, g>>
      BY <2>2 DEF Stack
    <3> QED BY <2>1, <3>1, <3>2, <3>3, <3>4
  <2>3. ASSUME NEW d \in Device, NEW e \in Device, Unstack(d, e) PROVE ForestInv'
    <3> DEFINE s == FilterDevices(below[d], Device \ {e})
    <3>1. below[d] \in Seq(Device) /\ \A c \in ToSet(below[d]) : d < c
      BY DEF ForestInv, LeadsUp
    <3>2. s \in Seq(Device) /\ ToSet(s) \subseteq ToSet(below[d])
      BY <3>1, FilterDevicesMembers
    <3>3. below' = [below EXCEPT ![d] = s] /\ UNCHANGED <<f, g>>
      BY <2>3 DEF Unstack
    <3> HIDE DEF s
    <3> QED BY <2>1, <3>1, <3>2, <3>3
  <2>4. CASE UNCHANGED vars
    BY <2>4 DEF ForestInv, LeadsUp, vars
  <2> QED BY <2>2, <2>3, <2>4 DEF Next
<1> QED BY <1>1, <1>2, PTL DEF Spec

\* Where the recursion goes when only the devices of S are followed.
Followed(S) == [d \in Device |-> IF d \in S THEN below[d] ELSE <<>>]

\* The closed sets of the properties say the same as the walk that stops outside S.
LEMMA AboveIsReached ==
    ASSUME LeadsUp(below), NEW D \in SUBSET Device, NEW S
    PROVE  LeadsUp(Followed(S)) /\ Above(D, S) = Reached(D, Followed(S))
<1>1. LeadsUp(Followed(S))
    BY DEF Followed, LeadsUp, ToSet
<1>2. \A X \in SUBSET Device :
        (\A d \in X \cap S : ToSet(below[d]) \subseteq X) <=> (\A d \in X : ToSet(Followed(S)[d]) \subseteq X)
  <2>1. ToSet(<<>>) = {}
    BY DEF ToSet
  <2>2. \A d \in Device : ToSet(Followed(S)[d]) = IF d \in S THEN ToSet(below[d]) ELSE {}
    BY <2>1 DEF Followed
  <2> QED BY <2>2
<1> QED BY <1>1, <1>2 DEF Above, Reached

\* A walk that keeps the devices of K returns those that it reaches.
Keep(K) == [d \in Device |-> IF d \in K THEN <<d>> ELSE <<>>]

\* A walk that keeps the devices of K returns those of K that it reaches.
LEMMA WalkSelects ==
    ASSUME NEW K, NEW next, LeadsUp(next), NEW s \in Seq(Device)
    PROVE  /\ ForEach(Walk(Keep(K), next), s) \in Seq(Device)
           /\ ToSet(ForEach(Walk(Keep(K), next), s)) = Reached(ToSet(s), next) \cap K
<1> DEFINE kept == Keep(K)
           T == ToSet(ForEach(Walk(kept, next), s))
           R == Reached(ToSet(s), next)
<1>0. kept \in [Device -> Seq(Device)] /\ \A e \in Device : ToSet(kept[e]) = {e} \cap K
    BY DEF Keep, ToSet
<1> HIDE DEF kept
<1>1. /\ ForEach(Walk(kept, next), s) \in Seq(Device)
      /\ \A x : x \in T <=> \E e \in R : x \in ToSet(kept[e])
    BY <1>0, WalkReaches
<1>2. R \subseteq Device
    BY DEF Reached
<1> HIDE DEF T, R
<1>3. \A x : x \in T <=> x \in R /\ x \in K
    BY <1>0, <1>1, <1>2
<1> QED BY <1>1, <1>3 DEF T, R, kept

\* A walk with a filter returns what it includes of what it reaches past the devices
\* that do not stop.
LEMMA GetBlockDevicesMembers ==
    ASSUME LeadsUp(below), NEW a \in Filter, NEW s \in Seq(Device)
    PROVE  /\ GetBlockDevices(s, a) \in Seq(Device)
           /\ ToSet(GetBlockDevices(s, a)) =
                  Above(ToSet(s), {d \in Device : ~a[d].stop}) \cap Included(a)
<1> DEFINE S == {d \in Device : ~a[d].stop}
           next == Followed(S)
<1>1. ToSet(s) \in SUBSET Device
    BY DEF ToSet
<1>2. LeadsUp(next) /\ Above(ToSet(s), S) = Reached(ToSet(s), next)
  <2> HIDE DEF S
  <2> QED BY <1>1, AboveIsReached
<1>3. Keep(Included(a)) = [d \in Device |-> IF a[d].skip THEN <<>> ELSE <<d>>]
    BY DEF Keep, Included
<1>4. next = [d \in Device |-> IF a[d].stop THEN <<>> ELSE below[d]]
    BY DEF Followed
<1>5. GetBlockDevices(s, a) = ForEach(Walk(Keep(Included(a)), next), s)
    BY <1>3, <1>4 DEF GetBlockDevices, FilterDeviceRecursive
<1> HIDE DEF next
<1>6. /\ ForEach(Walk(Keep(Included(a)), next), s) \in Seq(Device)
      /\ ToSet(ForEach(Walk(Keep(Included(a)), next), s)) = Reached(ToSet(s), next) \cap Included(a)
    BY <1>2, WalkSelects
<1> QED BY <1>2, <1>5, <1>6

\* FlattenDevices returns the devices and all that lies on them.
LEMMA FlattenDevicesMembers ==
    ASSUME LeadsUp(below), NEW s \in Seq(Device)
    PROVE  /\ FlattenDevices(s) \in Seq(Device)
           /\ ToSet(FlattenDevices(s)) = Above(ToSet(s), Device)
<1>1. ToSet(s) \in SUBSET Device
    BY DEF ToSet
<1>2. below = Followed(Device)
    BY DEF Followed, LeadsUp
<1>3. Above(ToSet(s), Device) = Reached(ToSet(s), below)
    BY <1>1, <1>2, AboveIsReached
<1>4. Keep(Device) = [d \in Device |-> <<d>>]
    BY DEF Keep
<1>5. FlattenDevices(s) = ForEach(Walk(Keep(Device), below), s)
    BY <1>4 DEF FlattenDevices
<1>6. Reached(ToSet(s), below) \subseteq Device
    BY DEF Reached
<1>7. /\ ForEach(Walk(Keep(Device), below), s) \in Seq(Device)
      /\ ToSet(ForEach(Walk(Keep(Device), below), s)) = Reached(ToSet(s), below) \cap Device
    BY WalkSelects
<1> QED BY <1>3, <1>5, <1>6, <1>7

\* The top level lists the devices that lie on no other, the oldest first.
LEMMA ListingMembers ==
    /\ Listing \in Seq(Device)
    /\ ToSet(Listing) = Tops
<1>1. [d \in Device |-> d] \in Seq(Device)
    BY TreeAssumption DEF Device
<1>2. ToSet([d \in Device |-> d]) = Device
    BY DEF ToSet
<1>3. Tops \subseteq Device
    BY DEF Tops
<1> QED BY <1>1, <1>2, <1>3, FilterDevicesMembers DEF Listing

-----------------------------------------------------------------------------
(* Theorems                                                                *)

\* No device is returned that the filter skips, or that only a way through a device with a
\* stop leads to: what filterDeviceRecursive returns, for every listing and every FilterFunc.
THEOREM SpecStopPrunesBelow == Spec => []StopPrunesBelow
<1>1. ForestInv => StopPrunesBelow
    BY ListingMembers, GetBlockDevicesMembers DEF ForestInv, StopPrunesBelow
<1> QED BY <1>1, SpecForestInv, PTL

\* Filters that never stop reach the same devices.
LEMMA ReturnedWithoutStops ==
    ASSUME LeadsUp(below), NEW a \in Filter, NeverStops(a)
    PROVE  ToSet(GetBlockDevices(Listing, a)) = Above(Tops, Device) \cap Included(a)
<1>1. {d \in Device : ~a[d].stop} = Device
    BY DEF NeverStops
<1> QED BY <1>1, ListingMembers, GetBlockDevicesMembers

\* Without stops And, Or and Not are intersection, union and complement of what is
\* included: De Morgan's laws relate what they return, for every two FilterFuncs.
THEOREM SpecCombinatorsAgree == Spec => []CombinatorsAgree
<1>1. ASSUME ForestInv, NeverStops(f), NeverStops(g)
      PROVE  LET Returned(a) == ToSet(GetBlockDevices(Listing, a)) IN
             /\ Returned(And(f, g)) = Returned(f) \cap Returned(g)
             /\ Returned(Or(f, g)) = Returned(f) \cup Returned(g)
             /\ Returned(Not(And(f, g))) = Returned(Or(Not(f), Not(g)))
  <2>1. /\ f \in [Device -> Verdict] /\ g \in [Device -> Verdict]
        /\ \A d \in Device : ~f[d].stop /\ ~g[d].stop
    BY <1>1 DEF ForestInv, Filter, NeverStops
  <2>2. And(f, g) \in Filter /\ NeverStops(And(f, g)) /\ Included(And(f, g)) = Included(f) \cap Included(g)
    BY <2>1 DEF And, Filter, NeverStops, Included
  <2>3. Or(f, g) \in Filter /\ NeverStops(Or(f, g)) /\ Included(Or(f, g)) = Included(f) \cup Included(g)
    BY <2>1 DEF Or, Verdict, Filter, NeverStops, Included
  <2>4. /\ Not(And(f, g)) \in Filter /\ NeverStops(Not(And(f, g)))
        /\ Or(Not(f), Not(g)) \in Filter /\ NeverStops(Or(Not(f), Not(g)))
        /\ Included(Not(And(f, g))) = Included(Or(Not(f), Not(g)))
    BY <2>1 DEF And, Or, Not, Verdict, Filter, NeverStops, Included
  <2>5. \A a \in Filter : NeverStops(a) =>
            ToSet(GetBlockDevices(Listing, a)) = Above(Tops, Device) \cap Included(a)
    BY <1>1, ReturnedWithoutStops DEF ForestInv
  <2>6. f \in Filter /\ g \in Filter
    BY <1>1 DEF ForestInv
  <2> QED BY <1>1, <2>2, <2>3, <2>4, <2>5, <2>6
<1>2. ForestInv => CombinatorsAgree
    BY <1>1 DEF CombinatorsAgree
<1> QED BY <1>2, SpecForestInv, PTL

-----------------------------------------------------------------------------
(* The lookup of one device                                                *)

\* A stop at the device itself hides nothing that the search has not found.
LEMMA StopAtTarget ==
    ASSUME LeadsUp(below), NEW name
    PROVE  name \in Above(Tops, {d \in Device : d # name}) <=> name \in Above(Tops, Device)
<1> DEFINE S == {d \in Device : d # name}
<1>1. ASSUME name \in Above(Tops, S) PROVE name \in Above(Tops, Device)
    BY <1>1 DEF Above
<1>2. ASSUME name \in Above(Tops, Device) PROVE name \in Above(Tops, S)
  <2>1. SUFFICES ASSUME NEW X \in SUBSET Device, Tops \subseteq X,
                        \A d \in X \cap S : ToSet(below[d]) \subseteq X, name \notin X
                 PROVE  FALSE
    BY <1>2 DEF Above
  <2>2. X \cap S = X \cap Device
    BY <2>1
  <2> HIDE DEF S
  <2> QED BY <1>2, <2>1, <2>2 DEF Above
<1> QED BY <1>1, <1>2

\* All rows of a search for one name are that name.
LEMMA FirstOf ==
    ASSUME NEW s \in Seq(Device), NEW name, ToSet(s) \subseteq {name}
    PROVE  First(s) = IF name \in ToSet(s) THEN <<name>> ELSE <<>>
<1>1. CASE s = <<>>
  <2>1. name \notin ToSet(s)
    BY <1>1 DEF ToSet
  <2> QED BY <1>1, <2>1 DEF First
<1>2. CASE s # <<>>
  <2>1. Len(s) \in Nat /\ Len(s) >= 1 /\ 1 \in DOMAIN s
    BY <1>2
  <2>2. s[1] = name /\ name \in ToSet(s)
    BY <2>1 DEF ToSet
  <2>3. First(s) = SubSeq(s, 1, 1)
    BY <1>2 DEF First
  <2>4. SubSeq(s, 1, 1) = <<s[1]>>
    <3>1. PICK t : t = SubSeq(s, 1, 1)
      OBVIOUS
    <3>2. t \in Seq(Device) /\ Len(t) = 1 /\ t[1] = s[1]
      BY <2>1, <3>1
    <3>3. <<s[1]>> \in Seq(Device) /\ Len(<<s[1]>>) = 1 /\ <<s[1]>>[1] = s[1]
      BY <2>1
    <3>4. \A c \in Seq(Device) : Len(c) = 1 => c = [i \in 1..1 |-> c[i]]
      BY AsSequence
    <3>5. t = [i \in 1..1 |-> t[i]] /\ <<s[1]>> = [i \in 1..1 |-> <<s[1]>>[i]]
      BY <3>2, <3>3, <3>4
    <3>6. [i \in 1..1 |-> t[i]] = [i \in 1..1 |-> <<s[1]>>[i]]
      BY <3>2, <3>3
    <3> QED BY <3>1, <3>5, <3>6
  <2> QED BY <2>2, <2>3, <2>4
<1> QED BY <1>1, <1>2

\* GetBlockDevice finds what a search of the flattened listing finds, whatever lies on
\* what: the fallback of GetUUID can only repeat its first answer.
THEOREM SpecLookupFindsFirst == Spec => []LookupFindsFirst
<1>1. ASSUME ForestInv, NEW name \in Device \cup {0}
      PROVE  GetBlockDevice(Listing, name) = First(FilterDevices(FlattenDevices(Listing), {name}))
  <2> DEFINE a == DeviceNameMatch(name)
             S == {d \in Device : d # name}
             found == GetBlockDevices(Listing, a)
             rows == FilterDevices(FlattenDevices(Listing), {name})
  <2>1. a \in Filter /\ {d \in Device : ~a[d].stop} = S /\ Included(a) = Device \cap {name}
    BY DEF DeviceNameMatch, Filter, Verdict, Included
  <2>2. found \in Seq(Device) /\ ToSet(found) = Above(Tops, S) \cap Device \cap {name}
    <3> HIDE DEF a, S
    <3>1. LeadsUp(below)
      BY <1>1 DEF ForestInv
    <3> QED BY <2>1, <3>1, ListingMembers, GetBlockDevicesMembers
  <2>3. FlattenDevices(Listing) \in Seq(Device)
        /\ ToSet(FlattenDevices(Listing)) = Above(Tops, Device)
    BY <1>1, ListingMembers, FlattenDevicesMembers DEF ForestInv
  <2>4. rows \in Seq(Device) /\ ToSet(rows) = Above(Tops, Device) \cap {name}
    BY <2>3, FilterDevicesMembers
  <2>5. name \in Above(Tops, S) <=> name \in Above(Tops, Device)
    BY <1>1, StopAtTarget DEF ForestInv
  <2>6. Above(Tops, S) \subseteq Device
    BY DEF Above
  <2>7. ToSet(found) \subseteq {name} /\ ToSet(rows) \subseteq {name}
        /\ (name \in ToSet(found) <=> name \in ToSet(rows))
    <3> HIDE DEF S, found, rows
    <3> QED BY <2>2, <2>4, <2>5, <2>6
  <2> HIDE DEF found, rows
  <2>8. First(found) = First(rows)
    BY <2>2, <2>4, <2>7, FirstOf
  <2> QED BY <2>8 DEF GetBlockDevice, found, rows, a
<1>2. ForestInv => LookupFindsFirst
    BY <1>1 DEF LookupFindsFirst
<1> QED BY <1>2, SpecForestInv, PTL

-----------------------------------------------------------------------------
(* Row by row                                                              *)

\* Along the recursion of a filter that never stops, each device returns its rows of the
\* flattened listing that the filter includes.
LEMMA FilteredWalk ==
    ASSUME LeadsUp(below), NEW K
    PROVE  \A d \in Device :
               Walk(Keep(K), below)[d] = FilterDevices(Walk(Keep(Device), below)[d], K)
<1> DEFINE F == Walk(Keep(K), below)
           W == Walk(Keep(Device), below)
           S == {d \in Device : F[d] = FilterDevices(W[d], K)}
<1>1. \A J : Keep(J) \in [Device -> Seq(Device)]
    BY DEF Keep
<1>2. /\ F \in [Device -> Seq(Device)]
      /\ \A d \in Device : F[d] = Keep(K)[d] \o ForEach(F, below[d])
    BY <1>1, WalkUnfolds
<1>3. /\ W \in [Device -> Seq(Device)]
      /\ \A d \in Device : W[d] = Keep(Device)[d] \o ForEach(W, below[d])
    BY <1>1, WalkUnfolds
<1> HIDE DEF F, W
<1>4. ASSUME NEW d \in Device, \A e \in Device : e > d => e \in S PROVE d \in S
  <2> DEFINE wk == [e \in Device |-> FilterDevices(W[e], K)]
  <2>1. below[d] \in Seq(Device) /\ \A e \in ToSet(below[d]) : e \in Device /\ e > d
    BY TreeAssumption DEF LeadsUp, ToSet, Device
  <2>2. ForEach(W, below[d]) \in Seq(Device)
    BY <1>3, <2>1, ForEachMembers
  <2>3. Keep(Device)[d] = <<d>> /\ <<d>> \in Seq(Device)
    BY DEF Keep
  <2>4. FilterDevices(W[d], K) = FilterDevices(<<d>>, K) \o FilterDevices(ForEach(W, below[d]), K)
    <3>1. \A a, b \in Seq(Device) :
              FilterDevices(a \o b, K) = FilterDevices(a, K) \o FilterDevices(b, K)
      BY FilterDevicesConcat
    <3>2. W[d] = <<d>> \o ForEach(W, below[d])
      BY <1>3, <2>3
    <3> QED BY <2>2, <2>3, <3>1, <3>2, Zenon
  <2>5. FilterDevices(<<d>>, K) = Keep(K)[d]
    <3>1. Chosen(<<d>>, K) = <<Keep(K)[d]>>
      BY DEF Chosen, Keep
    <3>2. FilterDevices(<<d>>, K) = FlattenSeq(<<Keep(K)[d]>>)
      BY <3>1 DEF FilterDevices, Chosen
    <3>3. Keep(K)[d] \in Seq(Device)
      BY <1>1
    <3> QED BY <3>2, <3>3, FlattenOne
  <2>6. FilterDevices(ForEach(W, below[d]), K) = ForEach(wk, below[d])
    BY <1>3, <2>1, FilterDevicesForEach
  <2>7. \A e \in ToSet(below[d]) : wk[e] = F[e]
    BY <1>4, <2>1
  <2>8. ForEach(wk, below[d]) = ForEach(F, below[d])
    <3> HIDE DEF wk
    <3> QED BY <2>1, <2>7, ForEachLocal
  <2> QED BY <1>2, <2>4, <2>5, <2>6, <2>8
<1>5. Device \subseteq S
  <2> HIDE DEF S
  <2> QED BY <1>4, Downward
<1> QED BY <1>5 DEF F, W

\* As long as no filter stops, GetBlockDevices returns the rows of the flattened listing
\* that the filter includes, in their order and with their repetitions: the listing by
\* rows on which driver-init and driver-scan are modelled.
THEOREM SpecFilterKeepsRows == Spec => []FilterKeepsRows
<1>1. ASSUME ForestInv, NeverStops(f)
      PROVE  GetBlockDevices(Listing, f) = FilterDevices(FlattenDevices(Listing), Included(f))
  <2> DEFINE K == Included(f)
             W == Walk(Keep(Device), below)
             F == Walk(Keep(K), below)
             wk == [d \in Device |-> FilterDevices(W[d], K)]
  <2>1. LeadsUp(below)
    BY <1>1 DEF ForestInv
  <2>2. /\ [d \in Device |-> IF f[d].stop THEN <<>> ELSE below[d]] = below
        /\ [d \in Device |-> IF f[d].skip THEN <<>> ELSE <<d>>] = Keep(K)
        /\ [d \in Device |-> <<d>>] = Keep(Device)
    BY <1>1, <2>1 DEF NeverStops, LeadsUp, Keep, Included
  <2>3. GetBlockDevices(Listing, f) = ForEach(F, Listing) /\ FlattenDevices(Listing) = ForEach(W, Listing)
    BY <2>2 DEF GetBlockDevices, FilterDeviceRecursive, FlattenDevices
  <2>4. W \in [Device -> Seq(Device)]
    <3>1. Keep(Device) \in [Device -> Seq(Device)]
      BY DEF Keep
    <3> QED BY <2>1, <3>1, WalkUnfolds
  <2>5. \A d \in Device : F[d] = FilterDevices(W[d], K)
    <3> HIDE DEF K
    <3> QED BY <2>1, FilteredWalk
  <2> HIDE DEF W, F, K
  <2>6. FilterDevices(ForEach(W, Listing), K) = ForEach(wk, Listing)
    BY <2>4, ListingMembers, FilterDevicesForEach
  <2>7. \A e \in ToSet(Listing) : wk[e] = F[e]
    BY <2>5, ListingMembers DEF Tops
  <2>8. ForEach(wk, Listing) = ForEach(F, Listing)
    <3> HIDE DEF wk
    <3> QED BY <2>7, ListingMembers, ForEachLocal
  <2> QED BY <2>3, <2>6, <2>8 DEF K
<1>2. ForestInv => FilterKeepsRows
    BY <1>1 DEF FilterKeepsRows
<1> QED BY <1>2, SpecForestInv, PTL

-----------------------------------------------------------------------------
(* The search for the root disk                                            *)

\* The top level is printed from the oldest device to the newest.
LEMMA ListingAscends ==
    \A i, j \in DOMAIN Listing : i < j => Listing[i] < Listing[j]
<1> DEFINE n == MaxDevice
           ids == [d \in Device |-> d]
           ch == Chosen(ids, Tops)
           Ascends(s) == \A i, j \in 1..Len(s) : i < j => s[i] < s[j]
           Bounded(s, m) == \A i \in 1..Len(s) : s[i] <= m
<1>1. n \in Nat /\ Device = 1..n /\ ids \in Seq(Device) /\ Len(ids) = n
    BY TreeAssumption DEF Device
<1>2. ch \in [1..n -> Seq(Device)]
  <2> HIDE DEF ids, n
  <2> QED BY <1>1, ChosenType
<1>3. Listing = FlattenSeq(ch)
    BY DEF Listing, FilterDevices, Chosen
<1>4. \A m \in 1..n : ch[m] = <<m>> \/ ch[m] = <<>>
    BY <1>1 DEF Chosen
<1> HIDE DEF n, ids, ch
<1>5. PICK fl \in PartialSums(ch, n, Device) : FlattenSeq(ch) = fl[n]
  <2>1. PartialSums(ch, n, Device) # {}
    BY <1>1, <1>2, PartialSumsExist
  <2> QED BY <1>1, <1>2, <2>1, FlattenIsPrefix
<1>6. /\ fl \in [0..n -> Seq(Device)] /\ fl[0] = <<>>
      /\ \A m \in 1..n : fl[m] = fl[m-1] \o ch[m]
    BY <1>5 DEF PartialSums
<1> DEFINE S == {m \in 0..n : Ascends(fl[m]) /\ Bounded(fl[m], m)}
<1>7. 0 \in S
    BY <1>1, <1>6
<1>8. ASSUME NEW m \in 1..n, m - 1 \in S PROVE m \in S
  <2> DEFINE p == fl[m-1]
  <2>1. m \in 0..n /\ m - 1 \in 0..n /\ m \in Device
    BY <1>1
  <2>2. p \in Seq(Device) /\ Ascends(p) /\ Bounded(p, m - 1)
    BY <1>6, <1>8, <2>1
  <2>3. fl[m] = p \o ch[m]
    BY <1>6
  <2> HIDE DEF p
  <2>4. CASE ch[m] = <<>>
    <3>1. fl[m] = p
      BY <2>2, <2>3, <2>4
    <3>2. \A i \in 1..Len(p) : p[i] <= m
      BY <1>1, <2>2 DEF Device
    <3> QED BY <2>1, <2>2, <3>1, <3>2
  <2>5. CASE ch[m] = <<m>>
    <3> DEFINE t == p \o <<m>>
    <3>1. Len(t) = Len(p) + 1 /\ Len(p) \in Nat /\ t[Len(p) + 1] = m
          /\ \A i \in 1..Len(p) : t[i] = p[i] /\ p[i] \in Device /\ p[i] <= m - 1
      BY <2>1, <2>2
    <3>2. fl[m] = t
      BY <2>3, <2>5
    <3> HIDE DEF t
    <3>3. \A i \in 1..Len(t) : i \in 1..Len(p) \/ i = Len(p) + 1
      BY <3>1
    <3>4. \A i \in 1..Len(p) : t[i] < m /\ t[i] <= m
      <4>1. \A e \in Device : e <= m - 1 => e < m /\ e <= m
        BY <1>1 DEF Device
      <4> QED BY <3>1, <4>1
    <3>5. Bounded(t, m)
      BY <3>1, <3>3, <3>4
    <3>6. Ascends(t)
      <4> TAKE i, j \in 1..Len(t)
      <4> HAVE i < j
      <4>1. i \in 1..Len(p)
        BY <3>1, <3>3
      <4>2. CASE j \in 1..Len(p)
        BY <2>2, <3>1, <4>1, <4>2
      <4>3. CASE j = Len(p) + 1
        BY <3>1, <3>4, <4>1, <4>3
      <4> QED BY <3>3, <4>2, <4>3
    <3> QED BY <2>1, <3>2, <3>5, <3>6
  <2> QED BY <1>4, <2>4, <2>5
<1>9. n \in S
  <2>1. n \in 0..n
    BY <1>1
  <2> HIDE DEF S
  <2> QED BY <1>1, <1>7, <1>8, <2>1, Upward
<1>10. Ascends(Listing)
    BY <1>3, <1>5, <1>9
<1>11. DOMAIN Listing = 1..Len(Listing)
    BY ListingMembers
<1> QED BY <1>10, <1>11

\* Every device lies on a top-level disk: on the oldest of those that it lies on.
LEMMA HasDisk ==
    ASSUME LeadsUp(below), NEW source \in Device
    PROVE  \E d \in Tops : source \in Above({d}, Device)
<1> DEFINE T == {d \in Device : source \in Above({d}, Device)}
<1>1. source \in T
    BY DEF Above
<1>2. T \subseteq Nat
    BY TreeAssumption DEF Device
<1>3. PICK c \in T : \A d \in T : c <= d
  <2> HIDE DEF T
  <2> QED BY <1>1, <1>2, LeastNat
<1>4. ASSUME NEW p \in Parents(c) PROVE FALSE
  <2>1. p \in Device /\ c \in ToSet(below[p]) /\ p < c
    BY DEF Parents, LeadsUp
  <2>2. source \in Above({p}, Device)
    <3>1. SUFFICES ASSUME NEW X \in SUBSET Device, {p} \subseteq X,
                          \A d \in X \cap Device : ToSet(below[d]) \subseteq X
                   PROVE  source \in X
      BY DEF Above
    <3>2. {c} \subseteq X
      BY <2>1, <3>1
    <3>3. source \in Above({c}, Device)
      OBVIOUS
    <3> QED BY <3>1, <3>2, <3>3 DEF Above
  <2>3. c <= p
    BY <1>3, <2>1, <2>2
  <2> QED BY <1>2, <2>1, <2>3, TreeAssumption DEF Device
<1>5. c \in Tops
    BY <1>4 DEF Tops
<1> QED BY <1>5

\* The guardrail excludes exactly one disk with everything on it, the oldest top-level
\* disk below the root device, on every node and for every root device that lsblk lists.
THEOREM SpecRootDiskExcluded == Spec => []RootDiskExcluded
<1>1. ASSUME ForestInv, NEW source \in Device
      PROVE  LET disks == {d \in Tops : source \in Above({d}, Device)}
             IN  FindRootDiskDescendants(Listing, source) = Above({Min(disks)}, Device)
  <2> DEFINE disks == {d \in Tops : source \in Above({d}, Device)}
             hits == {i \in DOMAIN Listing : source \in Subtree(Listing[i])}
  <2>1. \A d \in Device : Subtree(d) = Above({d}, Device)
    <3> TAKE d \in Device
    <3>1. <<d>> \in Seq(Device) /\ ToSet(<<d>>) = {d}
      BY DEF ToSet
    <3> QED BY <1>1, <3>1, FlattenDevicesMembers DEF Subtree, ForestInv
  <2>2. \A i \in DOMAIN Listing : i \in Nat /\ Listing[i] \in Tops
    BY ListingMembers DEF ToSet
  <2>3. Tops \subseteq Device
    BY DEF Tops
  <2>4. \A i \in hits : i \in Nat /\ Listing[i] \in disks
    BY <2>1, <2>2, <2>3
  <2>5. \A d \in disks : \E i \in hits : Listing[i] = d
    BY <2>1, <2>3, ListingMembers DEF ToSet
  <2>6. disks # {}
    BY <1>1, HasDisk DEF ForestInv
  <2>7. hits \subseteq Nat /\ hits # {} /\ hits \subseteq DOMAIN Listing
    BY <2>4, <2>5, <2>6
  <2>8. disks \subseteq Nat
    <3>1. Device \subseteq Nat
      BY TreeAssumption DEF Device
    <3> QED BY <2>3, <3>1
  <2>9. FindRootDiskDescendants(Listing, source) = Subtree(Listing[Min(hits)])
    BY <2>7 DEF FindRootDiskDescendants
  <2> HIDE DEF hits, disks
  <2>10. \E m \in hits : \A i \in hits : m <= i
    BY <2>7, LeastNat
  <2>11. Min(hits) \in hits /\ \A i \in hits : Min(hits) <= i
    BY <2>10 DEF Min
  <2>12. PICK m : m = Min(hits) /\ m \in hits
    BY <2>11
  <2>13. Listing[m] \in disks
    BY <2>4, <2>12
  <2>14. \A d \in disks : Listing[m] <= d
    <3> TAKE d \in disks
    <3>1. PICK i \in hits : Listing[i] = d
      BY <2>5
    <3>2. m <= i /\ m \in DOMAIN Listing /\ i \in DOMAIN Listing /\ m \in Nat /\ i \in Nat
      BY <2>7, <2>11, <2>12
    <3>3. m < i => Listing[m] < Listing[i]
      BY <3>2, ListingAscends
    <3>4. m < i \/ m = i
      BY <3>2
    <3>5. Listing[m] \in Nat /\ d \in Nat
      BY <2>8, <2>13
    <3>6. Listing[m] < d \/ Listing[m] = d
      BY <3>1, <3>3, <3>4
    <3>7. \A a, b \in Nat : a < b \/ a = b => a <= b
      OBVIOUS
    <3> QED BY <3>5, <3>6, <3>7, Zenon
  <2>15. Min(disks) = Listing[m]
    <3>1. Min(disks) \in disks /\ \A d \in disks : Min(disks) <= d
      BY <2>13, <2>14 DEF Min
    <3>2. Min(disks) <= Listing[m] /\ Listing[m] <= Min(disks)
      BY <2>13, <2>14, <3>1
    <3>3. Min(disks) \in Nat /\ Listing[m] \in Nat
      BY <2>8, <2>13, <3>1
    <3>4. \A a, b \in Nat : a <= b /\ b <= a => a = b
      OBVIOUS
    <3> QED BY <3>2, <3>3, <3>4, Zenon
  <2>16. Listing[m] \in Device
    BY <2>3, <2>13 DEF disks
  <2> QED BY <2>1, <2>9, <2>12, <2>15, <2>16 DEF disks
<1>2. ForestInv => RootDiskExcluded
    BY <1>1 DEF RootDiskExcluded
<1> QED BY <1>2, SpecForestInv, PTL

=============================================================================
