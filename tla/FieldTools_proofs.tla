---------------------------- MODULE FieldTools_proofs ----------------------------
(***************************************************************************)
(* What the field tools may never do to a meter and to what they know of    *)
(* it, proved for any number of connections, probe lists of any length, any *)
(* answers and restarts, and any interleaving of runs.                      *)
(*                                                                         *)
(* The brute-force scan by itself (theorems of ScanSpec): give a group up   *)
(* too early, leave out a probe of a scan that was not cut short, lose what *)
(* a results file holds, or go back.  All three tools together (theorems of *)
(* ToolsSpec): leave an association open that it knows of, list an answer   *)
(* for a request it does not answer, or go round in circles.                *)
(*                                                                         *)
(* The operators that filter and collect probes are recursive functions:    *)
(* what they return is found by induction over their argument's length,     *)
(* which the first lemmas make available for properties given as sets.      *)
(***************************************************************************)
EXTENDS FieldTools, TLAPS, WellFoundedInduction, NaturalsInduction, SequenceTheorems,
        FiniteSetTheorems

------------------------------------------------------------------------------
(* Induction over the natural numbers, in a form the provers can use.      *)

\* A set of natural numbers that is not empty has a least member.
LEMMA LeastNatural ==
  ASSUME NEW T, T \subseteq Nat, T # {}
  PROVE  \E x \in T : \A y \in T : x <= y
<1> DEFINE R == {p \in Nat \X Nat : p[1] < p[2]}
<1>1. IsWellFoundedOn(R, Nat)
  BY NatLessThanWellFounded DEF OpToRel
<1>2. \A x, y \in Nat : <<y, x>> \in R <=> y < x
  OBVIOUS
<1> HIDE DEF R
<1>3. \E x \in T : \A y \in T : ~ (<<y, x>> \in R)
  BY <1>1, WFMin
<1>4. \A x, y \in T : ~ (y < x) => x <= y
  OBVIOUS
<1>5. QED
  BY <1>2, <1>3, <1>4

\* Induction over the natural numbers, for a property given as a set.
LEMMA SetInduction ==
  ASSUME NEW P, 0 \in P, \A n \in Nat : n \in P => n + 1 \in P
  PROVE  \A n \in Nat : n \in P
<1> SUFFICES ASSUME NEW n \in Nat, n \notin P PROVE FALSE
  OBVIOUS
<1> DEFINE T == {k \in Nat : k \notin P}
<1>1. T \subseteq Nat /\ T # {}
  OBVIOUS
<1> HIDE DEF T
<1>2. PICK x \in T : \A y \in T : x <= y
  BY <1>1, LeastNatural
<1>3. x # 0 /\ x - 1 \in Nat /\ x - 1 \notin T
  BY <1>2 DEF T
<1>4. QED
  BY <1>2, <1>3 DEF T

\* g is built from base by one step after the other, up to n.
Built(g, n, base, step) == g[0] = base /\ \A i \in 1..n : g[i] = step[i][g[i - 1]]

\* What is built from base by one step after the other exists.
LEMMA RecursionExists ==
  ASSUME NEW S, NEW n \in Nat, NEW base \in S, NEW step \in [1..n -> [S -> S]]
  PROVE  \E g \in [0..n -> S] : Built(g, n, base, step)
<1> DEFINE Upto(m, g) == g[0] = base /\ \A i \in 1..m : g[i] = step[i][g[i - 1]]
           P == {m \in Nat : m <= n => \E g \in [0..m -> S] : Upto(m, g)}
<1>1. 0 \in P
  <2>1. [i \in 0..0 |-> base] \in [0..0 -> S] /\ Upto(0, [i \in 0..0 |-> base])
    OBVIOUS
  <2>2. QED
    BY <2>1
<1>2. ASSUME NEW m \in Nat, m \in P PROVE m + 1 \in P
  <2> SUFFICES ASSUME m + 1 <= n PROVE \E g \in [0..(m + 1) -> S] : Upto(m + 1, g)
    OBVIOUS
  <2>1. PICK h \in [0..m -> S] : Upto(m, h)
    BY <1>2
  <2>2. m + 1 \in 1..n /\ h[m] \in S /\ step[m + 1] \in [S -> S]
    OBVIOUS
  <2>3. PICK x \in S : x = step[m + 1][h[m]]
    BY <2>2
  <2> DEFINE g == [i \in 0..(m + 1) |-> IF i = m + 1 THEN x ELSE h[i]]
  <2>4. g \in [0..(m + 1) -> S]
    OBVIOUS
  <2>5. g[0] = base
    BY <2>1
  <2>6. \A i \in 0..m : g[i] = h[i]
    OBVIOUS
  <2>7. g[m + 1] = x
    OBVIOUS
  <2>8. ASSUME NEW i \in 1..(m + 1) PROVE g[i] = step[i][g[i - 1]]
    <3> HIDE DEF g
    <3>1. CASE i = m + 1
      <4>1. g[i - 1] = h[m]
        BY <2>6, <3>1
      <4>2. QED
        BY <2>3, <2>7, <3>1, <4>1
    <3>2. CASE i \in 1..m
      <4>1. g[i] = h[i] /\ g[i - 1] = h[i - 1]
        BY <2>6, <3>2
      <4>2. QED
        BY <2>1, <3>2, <4>1
    <3>3. QED
      BY <3>1, <3>2
  <2> HIDE DEF g
  <2>9. QED
    BY <2>4, <2>5, <2>8
<1> HIDE DEF P
<1>3. \A m \in Nat : m \in P
  BY <1>1, <1>2, SetInduction
<1>4. n \in P
  BY <1>3
<1>5. QED
  BY <1>4 DEF P, Built

\* What is so at the base and kept by every step is so at the end.
LEMMA RecursionKeeps ==
  ASSUME NEW n \in Nat, NEW P, 0 \in P, \A i \in 1..n : i - 1 \in P => i \in P
  PROVE  \A i \in 0..n : i \in P
<1> DEFINE Q == {i \in Nat : i <= n => i \in P}
<1>1. 0 \in Q
  OBVIOUS
<1>2. ASSUME NEW m \in Nat, m \in Q PROVE m + 1 \in Q
  <2> SUFFICES ASSUME m + 1 <= n PROVE m + 1 \in P
    OBVIOUS
  <2>1. m + 1 \in 1..n /\ (m + 1) - 1 = m /\ m \in P
    BY <1>2
  <2>2. QED
    BY <2>1
<1> HIDE DEF Q
<1>3. \A m \in Nat : m \in Q
  BY <1>1, <1>2, SetInduction
<1>4. QED
  BY <1>3 DEF Q

------------------------------------------------------------------------------
(* The operators of the model: filters, lists of probes, the next probe.   *)

\* What filter leaves.
LEMMA FilteredLeaves ==
  ASSUME NEW S, NEW probes \in Seq(S), NEW results
  PROVE  /\ Filtered(probes, results) \in Seq(S)
         /\ \A i \in 1..Len(Filtered(probes, results)) : Wanted(Filtered(probes, results)[i], results)
         /\ \A j \in 1..Len(probes) : Wanted(probes[j], results) =>
                \E i \in 1..Len(Filtered(probes, results)) : Filtered(probes, results)[i] = probes[j]
<1> DEFINE n == Len(probes)
           next == [i \in 1..n |-> [x \in Seq(S) |->
                      IF Wanted(probes[i], results) THEN Append(x, probes[i]) ELSE x]]
           of(f) == [i \in 0..n |-> IF i = 0 THEN <<>>
                      ELSE IF Wanted(probes[i], results) THEN Append(f[i - 1], probes[i])
                      ELSE f[i - 1]]
<1>0. n \in Nat /\ \A i \in 1..n : probes[i] \in S
  OBVIOUS
<1>1. next \in [1..n -> [Seq(S) -> Seq(S)]]
  BY <1>0
<1>2. PICK g \in [0..n -> Seq(S)] : g[0] = <<>> /\ \A i \in 1..n : g[i] = next[i][g[i - 1]]
  <2> HIDE DEF next, n
  <2>1. <<>> \in Seq(S)
    OBVIOUS
  <2>2. PICK T : T = Seq(S)
    OBVIOUS
  <2>3. PICK st : st = next
    OBVIOUS
  <2>4. n \in Nat /\ <<>> \in T /\ st \in [1..n -> [T -> T]]
    BY <1>0, <1>1, <2>1, <2>2, <2>3
  <2>5. \E g \in [0..n -> T] : Built(g, n, <<>>, st)
    BY <2>4, RecursionExists
  <2>6. QED
    BY <2>2, <2>3, <2>5 DEF Built
<1>3. g = of(g)
  <2>1. \A i \in 0..n : g[i] = IF i = 0 THEN <<>>
                      ELSE IF Wanted(probes[i], results) THEN Append(g[i - 1], probes[i])
                      ELSE g[i - 1]
    <3>1. ASSUME NEW i \in 1..n
          PROVE  g[i] = IF Wanted(probes[i], results) THEN Append(g[i - 1], probes[i]) ELSE g[i - 1]
      <4>1. i - 1 \in 0..n /\ g[i] = next[i][g[i - 1]]
        BY <1>0, <1>2
      <4>2. g[i - 1] \in Seq(S)
        BY <4>1
      <4>3. QED
        BY <4>1, <4>2
    <3>2. \A i \in 0..n : i = 0 \/ i \in 1..n
      BY <1>0
    <3>3. \A i \in 1..n : i # 0
      BY <1>0
    <3>4. QED
      BY <1>2, <3>1, <3>2, <3>3
  <2>2. QED
    BY <2>1
<1> DEFINE rest == CHOOSE f : f = of(f)
<1>4. rest = of(rest)
  <2> HIDE DEF of
  <2>1. \E f : f = of(f)
    BY <1>3
  <2>2. QED BY <2>1
<1>5. Filtered(probes, results) = rest[n]
  BY DEF Filtered
<1> HIDE DEF rest, next
<1>6. rest[0] = <<>> /\ \A i \in 1..n : rest[i] = IF Wanted(probes[i], results) THEN Append(rest[i - 1], probes[i]) ELSE rest[i - 1]
  <2> HIDE DEF n
  <2>1. \A i \in 0..n : rest[i] = IF i = 0 THEN <<>>
                      ELSE IF Wanted(probes[i], results) THEN Append(rest[i - 1], probes[i])
                      ELSE rest[i - 1]
    <3>1. PICK f : f = rest
      OBVIOUS
    <3>2. f = of(f)
      BY <1>4, <3>1
    <3>3. QED
      BY <3>1, <3>2
  <2>2. 0 \in 0..n /\ \A i \in 1..n : i \in 0..n /\ i # 0
    BY <1>0
  <2>3. QED
    BY <2>1, <2>2
<1> DEFINE Kept(i) ==
      /\ rest[i] \in Seq(S)
      /\ \A k \in 1..Len(rest[i]) : Wanted(rest[i][k], results)
      /\ \A j \in 1..i : Wanted(probes[j], results) => \E k \in 1..Len(rest[i]) : rest[i][k] = probes[j]
           P == {i \in Nat : Kept(i)}
<1> HIDE DEF of, n
<1>7. 0 \in P
  <2>1. Len(<<>>) = 0 /\ <<>> \in Seq(S) /\ 1..0 = {}
    OBVIOUS
  <2>2. Kept(0)
    BY <1>6, <2>1
  <2>3. QED
    BY <2>2
<1>8. ASSUME NEW i \in 1..n, i - 1 \in P PROVE i \in P
  <2>1. PICK r \in Seq(S) : r = rest[i - 1]
    BY <1>8
  <2>2. /\ \A k \in 1..Len(r) : Wanted(r[k], results)
        /\ \A j \in 1..(i - 1) : Wanted(probes[j], results) => \E k \in 1..Len(r) : r[k] = probes[j]
    BY <1>8, <2>1
  <2>3. probes[i] \in S /\ i \in Nat
    BY <1>0
  <2>4. CASE ~ Wanted(probes[i], results)
    <3>1. rest[i] = r
      BY <1>6, <2>1, <2>4
    <3>2. ASSUME NEW j \in 1..i, Wanted(probes[j], results)
          PROVE  \E k \in 1..Len(r) : r[k] = probes[j]
      <4>1. j \in 1..(i - 1)
        BY <2>4, <3>2
      <4>2. QED
        BY <2>2, <3>2, <4>1
    <3>3. QED
      BY <2>2, <2>3, <3>1, <3>2
  <2>5. CASE Wanted(probes[i], results)
    <3>1. PICK q : q = Append(r, probes[i])
      OBVIOUS
    <3>2. rest[i] = q
      BY <1>6, <2>1, <2>5, <3>1
    <3>3. /\ q \in Seq(S) /\ Len(q) = Len(r) + 1
          /\ \A k \in 1..Len(r) : q[k] = r[k]
          /\ q[Len(r) + 1] = probes[i]
          /\ Len(r) \in Nat
      BY <2>3, <3>1
    <3>4. \A k \in 1..Len(q) : Wanted(q[k], results)
      <4>1. \A k \in 1..Len(q) : k \in 1..Len(r) \/ k = Len(r) + 1
        BY <3>3
      <4>2. QED
        BY <2>2, <2>5, <3>3, <4>1
    <3>5. ASSUME NEW j \in 1..i, Wanted(probes[j], results)
          PROVE  \E k \in 1..Len(q) : q[k] = probes[j]
      <4>1. CASE j = i
        BY <3>3, <4>1
      <4>2. CASE j \in 1..(i - 1)
        <5>1. PICK k \in 1..Len(r) : r[k] = probes[j]
          BY <2>2, <3>5, <4>2
        <5>2. QED
          BY <3>3, <5>1
      <4>3. QED
        BY <2>3, <4>1, <4>2
    <3>6. QED
      BY <2>3, <3>2, <3>3, <3>4, <3>5
  <2>6. QED
    BY <2>4, <2>5
<1>9. n \in P
  <2> HIDE DEF P
  <2>1. \A i \in 0..n : i \in P
    BY <1>0, <1>7, <1>8, RecursionKeeps
  <2>2. QED
    BY <1>0, <2>1
<1>10. QED
  BY <1>5, <1>9 DEF n

\* Sequences put one behind the other are a sequence.
LEMMA FlattenedIsSequence ==
  ASSUME NEW S, NEW seqs \in Seq(Seq(S))
  PROVE  FlattenSeq(seqs) \in Seq(S)
<1> DEFINE n == Len(seqs)
           of(f) == [i \in 1..n |-> IF i = 1 THEN seqs[i] ELSE f[i - 1] \o seqs[i]]
           next == [i \in 1..n |-> [x \in Seq(S) |-> x \o seqs[i]]]
<1>0. n \in Nat /\ \A i \in 1..n : seqs[i] \in Seq(S)
  OBVIOUS
<1>1. CASE n = 0
  <2>1. FlattenSeq(seqs) = seqs /\ seqs = <<>>
    BY <1>1 DEF FlattenSeq
  <2>2. QED
    BY <2>1
<1>2. CASE n # 0
  <2>1. next \in [1..n -> [Seq(S) -> Seq(S)]]
    <3>1. \A i \in 1..n : \A x \in Seq(S) : x \o seqs[i] \in Seq(S)
      BY <1>0
    <3>2. QED
      BY <3>1
  <2>2. PICK g \in [0..n -> Seq(S)] : Built(g, n, <<>>, next)
    <3> HIDE DEF next, n, of
    <3>1. <<>> \in Seq(S)
      OBVIOUS
    <3>2. PICK T : T = Seq(S)
      OBVIOUS
    <3>3. PICK st : st = next
      OBVIOUS
    <3>4. \E g \in [0..n -> T] : Built(g, n, <<>>, st)
      BY <1>0, <2>1, <3>1, <3>2, <3>3, RecursionExists
    <3>5. QED
      BY <3>2, <3>3, <3>4
  <2>3. ASSUME NEW i \in 1..n PROVE g[i] = g[i - 1] \o seqs[i] /\ g[i - 1] \in Seq(S) /\ g[i] \in Seq(S)
    <3>0. g[i] = next[i][g[i - 1]]
      <4> HIDE DEF next, n
      <4>1. QED
        BY <2>2 DEF Built
    <3>1. i - 1 \in 0..n /\ i \in 0..n /\ g[i] = next[i][g[i - 1]]
      BY <1>0, <3>0
    <3>2. g[i - 1] \in Seq(S) /\ g[i] \in Seq(S)
      BY <3>1
    <3>3. QED
      BY <3>1, <3>2
  <2>4. g[0] = <<>>
    BY <2>2 DEF Built
  <2> DEFINE h == [i \in 1..n |-> g[i]]
  <2> HIDE DEF next, n
  <2>5. h = of(h)
    <3>1. ASSUME NEW i \in 1..n PROVE g[i] = IF i = 1 THEN seqs[i] ELSE h[i - 1] \o seqs[i]
      <4>1. CASE i = 1
        <5>1. 1 \in 1..n /\ 1 - 1 = 0
          BY <4>1
        <5>2. g[1] = <<>> \o seqs[1] /\ seqs[1] \in Seq(S)
          BY <1>0, <2>3, <2>4, <5>1
        <5>3. QED
          BY <4>1, <5>2
      <4>2. CASE i # 1
        <5>1. i - 1 \in 1..n
          BY <1>0, <4>2
        <5>2. QED
          BY <2>3, <4>2, <5>1
      <4>3. QED
        BY <4>1, <4>2
    <3>2. QED
      BY <3>1
  <2> DEFINE flatten == CHOOSE f : f = of(f)
  <2>6. flatten = of(flatten)
    <3> HIDE DEF of, h
    <3>1. \E f : f = of(f)
      BY <2>5
    <3>2. QED BY <3>1
  <2>7. FlattenSeq(seqs) = flatten[n]
    BY <1>2 DEF FlattenSeq, n
  <2> HIDE DEF flatten, h
  <2>8. \A i \in 1..n : flatten[i] = IF i = 1 THEN seqs[i] ELSE flatten[i - 1] \o seqs[i]
    <3>1. PICK f : f = flatten
      OBVIOUS
    <3>2. f = of(f)
      BY <2>6, <3>1
    <3>3. QED
      BY <3>1, <3>2
  <2> HIDE DEF of
  <2> DEFINE P == {i \in Nat : i # 0 => flatten[i] \in Seq(S)}
  <2>9. 0 \in P
    OBVIOUS
  <2>10. ASSUME NEW i \in 1..n, i - 1 \in P PROVE i \in P
    <3>1. CASE i = 1
      <4>1. flatten[i] = seqs[i] /\ seqs[i] \in Seq(S) /\ i \in Nat
        BY <1>0, <2>8, <3>1
      <4>2. QED
        BY <4>1
    <3>2. CASE i # 1
      <4>1. flatten[i - 1] \in Seq(S) /\ seqs[i] \in Seq(S)
        BY <1>0, <2>10, <3>2
      <4>2. flatten[i] = flatten[i - 1] \o seqs[i] /\ i \in Nat
        <5>1. flatten[i] = IF i = 1 THEN seqs[i] ELSE flatten[i - 1] \o seqs[i]
          BY <2>8
        <5>2. i \in Nat
          BY <1>0
        <5>3. QED
          BY <3>2, <5>1, <5>2
      <4>3. flatten[i] \in Seq(S)
        BY <4>1, <4>2
      <4>4. QED
        BY <4>2, <4>3
    <3>3. QED
      BY <3>1, <3>2
  <2>11. n \in P
    <3> HIDE DEF P
    <3>1. \A i \in 0..n : i \in P
      BY <1>0, <2>9, <2>10, RecursionKeeps
    <3>2. QED
      BY <1>0, <3>1
  <2>12. QED
    BY <1>2, <2>7, <2>11
<1>3. QED
  BY <1>1, <1>2

\* The codes that answered are codes; nothing answered where nothing was asked.
LEMMA SuccessfulCodes ==
  ASSUME NEW C, NEW results, Len(results) \in Nat,
         \A i \in 1..Len(results) : results[i].result = "success" => results[i].probe.c \in C
  PROVE  SuccessfulC(results) \in Seq(C) /\ (Len(results) = 0 => SuccessfulC(results) = <<>>)
<1> DEFINE n == Len(results)
           takes(i, x) == results[i].result = "success" /\ results[i].probe.c \notin ToSet(x)
           of(f) == [i \in 0..n |-> IF i = 0 THEN <<>>
                      ELSE IF takes(i, f[i - 1]) THEN Append(f[i - 1], results[i].probe.c)
                      ELSE f[i - 1]]
           next == [i \in 1..n |-> [x \in Seq(C) |->
                      IF takes(i, x) THEN Append(x, results[i].probe.c) ELSE x]]
<1>1. next \in [1..n -> [Seq(C) -> Seq(C)]]
  <2>1. ASSUME NEW i \in 1..n, NEW x \in Seq(C)
        PROVE  (IF takes(i, x) THEN Append(x, results[i].probe.c) ELSE x) \in Seq(C)
    <3>1. CASE takes(i, x)
      BY <3>1
    <3>2. CASE ~ takes(i, x)
      BY <3>2
    <3>3. QED
      BY <3>1, <3>2
  <2> HIDE DEF takes
  <2>2. QED
    BY <2>1
<1> HIDE DEF takes
<1>2. PICK g \in [0..n -> Seq(C)] : Built(g, n, <<>>, next)
  <2> HIDE DEF next, n, of
  <2>1. <<>> \in Seq(C)
    OBVIOUS
  <2>2. PICK T : T = Seq(C)
    OBVIOUS
  <2>3. PICK st : st = next
    OBVIOUS
  <2>4. \E g \in [0..n -> T] : Built(g, n, <<>>, st)
    BY <1>1, <2>1, <2>2, <2>3, RecursionExists DEF n
  <2>5. QED
    BY <2>2, <2>3, <2>4
<1>3. g = of(g)
  <2>1. ASSUME NEW i \in 1..n
        PROVE  g[i] = IF takes(i, g[i - 1]) THEN Append(g[i - 1], results[i].probe.c) ELSE g[i - 1]
    <3>1. i - 1 \in 0..n /\ g[i] = next[i][g[i - 1]]
      BY <1>2 DEF Built
    <3>2. g[i - 1] \in Seq(C)
      BY <3>1
    <3>3. QED
      BY <3>1, <3>2
  <2>2. g[0] = <<>>
    BY <1>2 DEF Built
  <2>3. ASSUME NEW i \in 0..n
        PROVE  g[i] = IF i = 0 THEN <<>>
                      ELSE IF takes(i, g[i - 1]) THEN Append(g[i - 1], results[i].probe.c)
                      ELSE g[i - 1]
    <3>1. CASE i = 0
      BY <2>2, <3>1
    <3>2. CASE i # 0
      <4>1. i \in 1..n
        BY <3>2
      <4>2. QED
        BY <2>1, <3>2, <4>1
    <3>3. QED
      BY <3>1, <3>2
  <2>4. QED
    BY <2>3
<1> DEFINE cs == CHOOSE f : f = of(f)
<1>4. cs = of(cs)
  <2> HIDE DEF of
  <2>1. \E f : f = of(f)
    BY <1>3
  <2>2. QED BY <2>1
<1>5. SuccessfulC(results) = cs[n]
  BY DEF SuccessfulC, takes
<1> HIDE DEF cs, next
<1>6. \A i \in 0..n : cs[i] = IF i = 0 THEN <<>>
                      ELSE IF takes(i, cs[i - 1]) THEN Append(cs[i - 1], results[i].probe.c)
                      ELSE cs[i - 1]
  <2>1. PICK f : f = cs
    OBVIOUS
  <2>2. f = of(f)
    BY <1>4, <2>1
  <2>3. QED
    BY <2>1, <2>2
<1> HIDE DEF of
<1>7. cs[0] = <<>>
  BY <1>6
<1> DEFINE P == {i \in Nat : cs[i] \in Seq(C)}
<1>8. 0 \in P
  <2>1. cs[0] \in Seq(C)
    BY <1>7
  <2>2. QED
    BY <2>1
<1>9. ASSUME NEW i \in 1..n, i - 1 \in P PROVE i \in P
  <2>1. cs[i] = IF takes(i, cs[i - 1]) THEN Append(cs[i - 1], results[i].probe.c) ELSE cs[i - 1]
    BY <1>6
  <2>2. cs[i - 1] \in Seq(C)
    BY <1>9
  <2>3. takes(i, cs[i - 1]) => results[i].probe.c \in C
    BY DEF takes
  <2>4. cs[i] \in Seq(C)
    <3>1. CASE takes(i, cs[i - 1])
      BY <2>1, <2>2, <2>3, <3>1
    <3>2. CASE ~ takes(i, cs[i - 1])
      BY <2>1, <2>2, <3>2
    <3>3. QED
      BY <3>1, <3>2
  <2>5. QED
    BY <2>4
<1>10. n \in P
  <2> HIDE DEF P
  <2>1. \A i \in 0..n : i \in P
    BY <1>8, <1>9, RecursionKeeps
  <2>2. QED
    BY <2>1
<1>11. QED
  BY <1>5, <1>7, <1>10

Variants == {Phase1Probes[i].v : i \in DOMAIN Phase1Probes} \cup ToSet(Phase2Variants)

\* Every probe either phase may have.
ScanProbes == [ab : {"1-0", "0-0"}, c : 0..MaxC, v : Variants]

\* What generatePhase1Probes returns are probes.
LEMMA PhaseOneProbes == Phase1Probes \in Seq(ScanProbes)
<1> DEFINE V == {Phase1Probes[i].v : i \in DOMAIN Phase1Probes}
           S == [ab : {"1-0", "0-0"}, c : 0..MaxC, v : V]
<1>1. Phase1Probes \in Seq(S)
  BY ScanAssumption
<1>2. S \subseteq ScanProbes
  BY DEF ScanProbes, Variants
<1> HIDE DEF S
<1>3. QED
  BY <1>1, <1>2

\* Phase 2 asks for probes around each C: between 0 and MaxC, with its own variants.
LEMMA ProbesAround ==
  ASSUME NEW c \in 0..MaxC
  PROVE  Around(c) \in Seq(ScanProbes)
<1> DEFINE first == IF c < Radius THEN 0 ELSE c - Radius
           last == IF c + Radius > MaxC THEN MaxC ELSE c + Radius
           part(i) == [j \in DOMAIN Phase2Variants |->
                          [ab |-> "1-0", c |-> (first + i) - 1, v |-> Phase2Variants[j]]]
           n == (last + 1) - first
           parts == [i \in 1..n |-> part(i)]
<1>1. first \in Nat /\ last \in Nat /\ last <= MaxC /\ first <= last /\ n \in Nat
  BY ScanAssumption
<1>2. /\ DOMAIN Phase2Variants = 1..Len(Phase2Variants)
      /\ Len(Phase2Variants) \in Nat
      /\ \A j \in DOMAIN Phase2Variants : Phase2Variants[j] \in Variants
  <2>1. Phase2Variants \in Seq(ToSet(Phase2Variants))
    BY ScanAssumption
  <2>2. ToSet(Phase2Variants) \subseteq Variants
    BY DEF Variants
  <2>3. QED
    BY <2>1, <2>2
<1>3. ASSUME NEW i \in 1..n PROVE part(i) \in Seq(ScanProbes)
  <2>1. (first + i) - 1 \in 0..MaxC
    BY <1>1, ScanAssumption
  <2>2. PICK d \in 0..MaxC : d = (first + i) - 1
    BY <2>1
  <2>3. \A j \in DOMAIN Phase2Variants :
            [ab |-> "1-0", c |-> d, v |-> Phase2Variants[j]] \in ScanProbes
    BY <1>2 DEF ScanProbes
  <2>4. part(i) = [j \in 1..Len(Phase2Variants) |-> [ab |-> "1-0", c |-> d, v |-> Phase2Variants[j]]]
    BY <1>2, <2>2
  <2>5. part(i) \in [1..Len(Phase2Variants) -> ScanProbes]
    BY <1>2, <2>3, <2>4
  <2> HIDE DEF part
  <2>6. QED
    BY <1>2, <2>5, SeqDef, Zenon
<1> HIDE DEF part
<1>4. parts \in Seq(Seq(ScanProbes))
  <2> HIDE DEF n
  <2>1. QED
    BY <1>1, <1>3
<1>5. Around(c) = FlattenSeq(parts)
  BY DEF Around, part
<1>6. QED
  <2> HIDE DEF parts
  <2>1. QED
    BY <1>4, <1>5, FlattenedIsSequence

\* What phase 2 is made of.
LEMMA PhaseTwoProbes ==
  ASSUME NEW results, Len(results) \in Nat,
         \A i \in 1..Len(results) : results[i].probe.c \in 0..MaxC
  PROVE  /\ GeneratePhase2Probes(results) \in Seq(ScanProbes)
         /\ Len(results) = 0 => GeneratePhase2Probes(results) = <<>>
<1>1. PICK C : C = 0..MaxC
  OBVIOUS
<1>2. PICK cs : cs = SuccessfulC(results)
  OBVIOUS
<1>3. cs \in Seq(C) /\ (Len(results) = 0 => cs = <<>>)
  BY <1>1, <1>2, SuccessfulCodes
<1>4. GeneratePhase2Probes(results) = FlattenSeq([i \in DOMAIN cs |-> Around(cs[i])])
  BY <1>2 DEF GeneratePhase2Probes
<1>5. PICK parts : parts = [i \in DOMAIN cs |-> Around(cs[i])]
  OBVIOUS
<1>6. parts \in Seq(Seq(ScanProbes)) /\ Len(parts) = Len(cs)
  <2>1. \A i \in 1..Len(cs) : cs[i] \in 0..MaxC
    <3>1. \A i \in 1..Len(cs) : cs[i] \in C
      BY <1>3
    <3>2. QED
      BY <1>1, <3>1
  <2>2. \A i \in 1..Len(cs) : Around(cs[i]) \in Seq(ScanProbes)
    BY <2>1, ProbesAround
  <2>3. DOMAIN cs = 1..Len(cs) /\ Len(cs) \in Nat
    BY <1>3
  <2>4. QED
    BY <1>5, <2>2, <2>3
<1>7. GeneratePhase2Probes(results) \in Seq(ScanProbes)
  BY <1>4, <1>5, <1>6, FlattenedIsSequence
<1>8. Len(results) = 0 => GeneratePhase2Probes(results) = <<>>
  <2>1. Len(results) = 0 => Len(parts) = 0 /\ parts = <<>>
    <3>1. \A T : \A x \in Seq(T) : Len(x) = 0 => x = <<>>
      OBVIOUS
    <3>2. cs = <<>> => Len(cs) = 0
      OBVIOUS
    <3>3. QED
      BY <1>3, <1>6, <3>1, <3>2
  <2>2. QED
    BY <1>4, <1>5, <2>1 DEF FlattenSeq
<1>9. QED
  BY <1>7, <1>8

\* Every probe has a group that failures counts.
LEMMA GroupOfProbe == \A p \in ScanProbes : Group(p) \in Groups
BY DEF ScanProbes, Group, Groups

\* The probe the loop stops at: every one before it is of an exhausted group.
LEMMA NextProbeIs ==
  ASSUME NEW S, NEW run, run.probes \in Seq(S), run.at \in Nat
  PROVE  LET next == NextProbe(run)
             n == Len(run.probes)
         IN  /\ next \in Nat
             /\ run.at <= n => next >= run.at
             /\ next <= n + 1
             /\ next <= n => next >= run.at /\ ~ Exhausted(run, run.probes[next])
             /\ \A i \in run.at..(next - 1) : Exhausted(run, run.probes[i])
<1> DEFINE n == Len(run.probes)
           open == {i \in run.at..n : ~ Exhausted(run, run.probes[i])}
<1>1. n \in Nat
  OBVIOUS
<1>2. open \cup {n + 1} \subseteq Nat /\ n + 1 \in open \cup {n + 1}
  BY <1>1
<1>3. PICK x \in open \cup {n + 1} : \A y \in open \cup {n + 1} : x <= y
  <2> DEFINE T == open \cup {n + 1}
  <2>1. T \subseteq Nat /\ T # {}
    BY <1>2
  <2> HIDE DEF T
  <2>2. \E x \in T : \A y \in T : x <= y
    BY <2>1, LeastNatural
  <2>3. QED
    BY <2>2 DEF T
<1>4. NextProbe(run) = CHOOSE i \in open \cup {n + 1} : \A j \in open : i <= j
  BY DEF NextProbe
<1> HIDE DEF open, n
<1>5. PICK next : next = NextProbe(run)
  OBVIOUS
<1>6. next \in open \cup {n + 1} /\ \A j \in open : next <= j
  <2>1. \E i \in open \cup {n + 1} : \A j \in open : i <= j
    BY <1>3
  <2>2. QED
    BY <1>4, <1>5, <2>1
<1>7. next \in Nat
  BY <1>2, <1>6
<1>8. next <= n + 1 /\ (run.at <= n => next >= run.at) /\ (next <= n => next >= run.at /\ ~ Exhausted(run, run.probes[next]))
  BY <1>1, <1>6, <1>7 DEF open
<1>9. ASSUME NEW i \in run.at..(next - 1) PROVE Exhausted(run, run.probes[i])
  <2>1. i \in run.at..n /\ i < next
    BY <1>1, <1>7, <1>8, <1>9
  <2>2. i \notin open
    BY <1>6, <1>7, <2>1
  <2>3. QED
    BY <2>1, <2>2 DEF open
<1>10. QED
  BY <1>5, <1>7, <1>8, <1>9 DEF n

------------------------------------------------------------------------------
(* The invariant.                                                          *)

ScanResults ==
    [probe : ScanProbes, result : {"success", "undefined", "denied", "timeout", "skipped"},
     phase : {0, 1, 2}, of : ScanProbes \cup {NoProbe}, data : BOOLEAN]

\* An entry of the file; what is read from it is of no phase.
FileResults ==
    [probe : ScanProbes, result : {"success", "undefined", "denied", "timeout", "skipped"},
     value : BOOLEAN]

Entries(results) == [i \in DOMAIN results |-> Entry(results[i])]

ScanRuns ==
    [pc : {"idle", "armed", "aare", "get", "delay", "release", "lastRelease", "done", "over", "killed"},
     phase : {1, 2}, probes : Seq(ScanProbes), at : Nat, results : Seq(ScanResults),
     loaded : Nat, failures : [Groups -> Nat], asked : Nat]

ScanRequests == [tag : {"aare", "get"}, probe : ScanProbes \cup {NoProbe}]

\* The results of a group and a phase at some places that were asked for are n,
\* and all undefined.
Streak(results, group, phase, places, n) ==
    /\ Cardinality(Asked(results, group, phase, places)) = n
    /\ \A k \in Asked(results, group, phase, places) : results[k].result = "undefined"

\* failures counts the results at the end of each group.
Counted(run) ==
    \A g \in Groups :
        \E first \in (run.loaded + 1)..(Len(run.results) + 1) :
            Streak(run.results, g, run.phase, first..Len(run.results), run.failures[g])

\* A probe was skipped behind enough of them.
EnoughBefore(run, i) ==
    \E first \in (run.loaded + 1)..i :
        \E n \in {Cardinality(Asked(run.results, Group(run.results[i].probe),
                                   run.results[i].phase, first..(i - 1)))} :
            /\ n >= GroupExhaustThreshold
            /\ Streak(run.results, Group(run.results[i].probe),
                      run.results[i].phase, first..(i - 1), n)

Justified(run) ==
    \A i \in (run.loaded + 1)..Len(run.results) :
        run.results[i].result = "skipped" => EnoughBefore(run, i)

InPlace(run) ==
    /\ run.at > 0
    /\ run.at <= Len(run.probes) + 1
    /\ run.loaded <= Len(run.results)

Standing(run) ==
    /\ run.pc \in {"idle", "armed"} => run = [IdleRun EXCEPT !.pc = run.pc]
    /\ run.pc \in {"over", "killed"} => run = Forgotten(run.pc)
    /\ run.pc \in {"get", "release"} => run.at <= Len(run.probes)
    /\ run.pc = "aare" => run.asked = 0 \/ run.at <= Len(run.probes)

\* The request a run waits for the answer to.
Due(run) ==
    CASE run.pc = "aare" -> Request("aare")
      [] run.pc = "get" -> [tag |-> "get", probe |-> run.probes[run.at]]
      [] OTHER -> NoRequest

Lacks(list, results) == \E j \in 1..Len(list) : Wanted(list[j], results)

Covered(list, results, probes) ==
    \A j \in 1..Len(list) : Wanted(list[j], results) =>
        \E i \in 1..Len(probes) : probes[i] = list[j]

Near(results, n) == GeneratePhase2Probes(SubSeq(results, 1, n))

Recorded(run) == \A i \in 1..(run.at - 1) : run.probes[i] \in Probed(run.results)

\* Every probe of the phase has a result, or is one of the run's.
Covers(run) ==
    /\ run.phase = 1 => /\ InTwoPhases(run, Len(run.results))
                        /\ Covered(Phase1Probes, run.results, run.probes)
    /\ run.phase = 2 => /\ ~ Lacks(Phase1Probes, run.results)
                        /\ \E n \in run.loaded..Len(run.results) :
                            /\ InTwoPhases(run, n)
                            /\ Covered(Near(run.results, n), run.results, run.probes)

\* The phase is over, and every probe of it has a result.
PhaseWhole(run) ==
    /\ ~ Lacks(Phase1Probes, run.results)
    /\ run.phase = 1 => InTwoPhases(run, Len(run.results))
    /\ run.phase = 2 => \E n \in run.loaded..Len(run.results) :
            InTwoPhases(run, n) /\ ~ Lacks(Near(run.results, n), run.results)

Whole(run) ==
    /\ ~ Lacks(Phase1Probes, run.results)
    /\ \E n \in run.loaded..Len(run.results) :
            InTwoPhases(run, n) /\ ~ Lacks(Near(run.results, n), run.results)

SoFar(run) ==
    /\ run.pc \in {"aare", "get", "delay", "release", "lastRelease"} =>
        Recorded(run) /\ Covers(run)
    /\ run.pc = "lastRelease" => run.at > Len(run.probes)
    /\ run.pc = "done" => Whole(run)

RunInv(s) ==
    /\ InPlace(scan[s])
    /\ Counted(scan[s])
    /\ Justified(scan[s])
    /\ Standing(scan[s])
    /\ late[s] = 0 => \/ inflight[s] = <<>>
                      \/ scan[s].pc \in {"aare", "get"} /\ inflight[s] = <<Due(scan[s])>>
    /\ ScanHonest(s)
    /\ s \notin cut => SoFar(scan[s])
    /\ sock[s] = "unused" => scan[s] = IdleRun

\* One run of this process at most has started.
OneRun == \A r, q \in Runs : r = q

\* No probe of phase 1 is let through.
NothingWanted == ~ resumeArg /\ ~ Lacks(Phase1Probes, <<>>)

\* The file holds the first of a run's results, and the value of each that the run
\* has not loaded.
Listed(held, results, loaded) ==
    /\ Lists(held, results)
    /\ \A i \in DOMAIN held : i > loaded => held[i].value = results[i].data

FileInv ==
    /\ file.results \in Seq(FileResults)
    /\ allResults \in Seq(ScanResults)
    /\ Runs = {} => allResults = <<>> /\ (running /\ ~ resumeArg => file.results = <<>>)
    /\ NothingWanted =>
        /\ file.results = <<>>
        /\ allResults = <<>>
        /\ \A s \in Sockets : /\ scan[s].results = <<>>
                              /\ scan[s].pc \in {"idle", "armed", "done", "over", "killed"}
    /\ OneRun =>
        /\ \A r \in Runs : scan[r].pc \notin {"done", "over"} =>
                Listed(file.results, scan[r].results, scan[r].loaded)
        /\ allResults # <<>> => /\ file.results = Entries(allResults)
                                /\ \A r \in Runs : scan[r].pc \in {"done", "over"}

ScanInv ==
    /\ ServerTypeOK
    /\ scan \in [Sockets -> ScanRuns]
    /\ inflight \in [Sockets -> Seq(ScanRequests)]
    /\ resumeArg \in BOOLEAN
    /\ \A s \in Sockets : RunInv(s)
    /\ FileInv

\* The record a run is.
------------------------------------------------------------------------------
(* Runs, field by field, and their way ahead.                              *)

Run(pc, phase, probes, at, results, loaded, failures, asked) ==
    [pc |-> pc, phase |-> phase, probes |-> probes, at |-> at, results |-> results,
     loaded |-> loaded, failures |-> failures, asked |-> asked]

Own(run) == Run(run.pc, run.phase, run.probes, run.at, run.results, run.loaded, run.failures, run.asked)

\* A run is the record of its fields.
LEMMA RunOwns == \A run \in ScanRuns : run = Own(run)
BY DEF ScanRuns, Own, Run

\* The fields of a run.
LEMMA RunParts ==
  ASSUME NEW a, NEW b, NEW c, NEW d, NEW e, NEW f, NEW g, NEW h
  PROVE  LET run == Run(a, b, c, d, e, f, g, h)
         IN  /\ run.pc = a /\ run.phase = b /\ run.probes = c /\ run.at = d
             /\ run.results = e /\ run.loaded = f /\ run.failures = g /\ run.asked = h
BY DEF Run

\* A run at another await.
LEMMA WithPc ==
  ASSUME NEW run \in ScanRuns, NEW pc
  PROVE  [run EXCEPT !.pc = pc] =
            Run(pc, run.phase, run.probes, run.at, run.results, run.loaded, run.failures, run.asked)
<1>0. run = Run(run.pc, run.phase, run.probes, run.at, run.results, run.loaded, run.failures, run.asked)
  BY RunOwns DEF Own
<1>1. [Run(run.pc, run.phase, run.probes, run.at, run.results, run.loaded, run.failures, run.asked) EXCEPT !.pc = pc] = Run(pc, run.phase, run.probes, run.at, run.results, run.loaded, run.failures, run.asked)
  BY DEF Run
<1>2. QED
  BY <1>0, <1>1

\* A run at the head of runScanPhase.
LEMMA WithPhase ==
  ASSUME NEW run \in ScanRuns, NEW phase, NEW probes, NEW failures
  PROVE  [run EXCEPT !.phase = phase, !.probes = probes, !.at = 1, !.asked = 0, !.failures = failures, !.pc = "aare"] =
            Run("aare", phase, probes, 1, run.results, run.loaded, failures, 0)
<1>0. run = Run(run.pc, run.phase, run.probes, run.at, run.results, run.loaded, run.failures, run.asked)
  BY RunOwns DEF Own
<1>1. PICK r1 : r1 = [run EXCEPT !.phase = phase]
  OBVIOUS
<1>2. r1 = Run(run.pc, phase, run.probes, run.at, run.results, run.loaded, run.failures, run.asked)
  <2>1. [Run(run.pc, run.phase, run.probes, run.at, run.results, run.loaded, run.failures, run.asked) EXCEPT !.phase = phase] = Run(run.pc, phase, run.probes, run.at, run.results, run.loaded, run.failures, run.asked)
    BY DEF Run
  <2>2. QED
    BY <1>0, <1>1, <2>1
<1>3. PICK r2 : r2 = [r1 EXCEPT !.probes = probes]
  OBVIOUS
<1>4. r2 = Run(run.pc, phase, probes, run.at, run.results, run.loaded, run.failures, run.asked)
  <2>1. [Run(run.pc, phase, run.probes, run.at, run.results, run.loaded, run.failures, run.asked) EXCEPT !.probes = probes] = Run(run.pc, phase, probes, run.at, run.results, run.loaded, run.failures, run.asked)
    BY DEF Run
  <2>2. QED
    BY <1>2, <1>3, <2>1
<1>5. PICK r3 : r3 = [r2 EXCEPT !.at = 1]
  OBVIOUS
<1>6. r3 = Run(run.pc, phase, probes, 1, run.results, run.loaded, run.failures, run.asked)
  <2>1. [Run(run.pc, phase, probes, run.at, run.results, run.loaded, run.failures, run.asked) EXCEPT !.at = 1] = Run(run.pc, phase, probes, 1, run.results, run.loaded, run.failures, run.asked)
    BY DEF Run
  <2>2. QED
    BY <1>4, <1>5, <2>1
<1>7. PICK r4 : r4 = [r3 EXCEPT !.asked = 0]
  OBVIOUS
<1>8. r4 = Run(run.pc, phase, probes, 1, run.results, run.loaded, run.failures, 0)
  <2>1. [Run(run.pc, phase, probes, 1, run.results, run.loaded, run.failures, run.asked) EXCEPT !.asked = 0] = Run(run.pc, phase, probes, 1, run.results, run.loaded, run.failures, 0)
    BY DEF Run
  <2>2. QED
    BY <1>6, <1>7, <2>1
<1>9. PICK r5 : r5 = [r4 EXCEPT !.failures = failures]
  OBVIOUS
<1>10. r5 = Run(run.pc, phase, probes, 1, run.results, run.loaded, failures, 0)
  <2>1. [Run(run.pc, phase, probes, 1, run.results, run.loaded, run.failures, 0) EXCEPT !.failures = failures] = Run(run.pc, phase, probes, 1, run.results, run.loaded, failures, 0)
    BY DEF Run
  <2>2. QED
    BY <1>8, <1>9, <2>1
<1>11. PICK r6 : r6 = [r5 EXCEPT !.pc = "aare"]
  OBVIOUS
<1>12. r6 = Run("aare", phase, probes, 1, run.results, run.loaded, failures, 0)
  <2>1. [Run(run.pc, phase, probes, 1, run.results, run.loaded, failures, 0) EXCEPT !.pc = "aare"] = Run("aare", phase, probes, 1, run.results, run.loaded, failures, 0)
    BY DEF Run
  <2>2. QED
    BY <1>10, <1>11, <2>1
<1>13. [run EXCEPT !.phase = phase, !.probes = probes, !.at = 1, !.asked = 0, !.failures = failures, !.pc = "aare"] =
        [[[[[[run EXCEPT !.phase = phase] EXCEPT !.probes = probes] EXCEPT !.at = 1] EXCEPT !.asked = 0] EXCEPT !.failures = failures] EXCEPT !.pc = "aare"]
  OBVIOUS
<1>14. [[[[[[run EXCEPT !.phase = phase] EXCEPT !.probes = probes] EXCEPT !.at = 1] EXCEPT !.asked = 0] EXCEPT !.failures = failures] EXCEPT !.pc = "aare"] = r6
  BY <1>1, <1>3, <1>5, <1>7, <1>9, <1>11
<1>15. QED
  BY <1>12, <1>13, <1>14

\* A run behind some skipped probes.
LEMMA WithSkipped ==
  ASSUME NEW run \in ScanRuns, NEW results, NEW at
  PROVE  [run EXCEPT !.results = results, !.at = at] =
            Run(run.pc, run.phase, run.probes, at, results, run.loaded, run.failures, run.asked)
<1>0. run = Run(run.pc, run.phase, run.probes, run.at, run.results, run.loaded, run.failures, run.asked)
  BY RunOwns DEF Own
<1>1. PICK r1 : r1 = [run EXCEPT !.results = results]
  OBVIOUS
<1>2. r1 = Run(run.pc, run.phase, run.probes, run.at, results, run.loaded, run.failures, run.asked)
  <2>1. [Run(run.pc, run.phase, run.probes, run.at, run.results, run.loaded, run.failures, run.asked) EXCEPT !.results = results] = Run(run.pc, run.phase, run.probes, run.at, results, run.loaded, run.failures, run.asked)
    BY DEF Run
  <2>2. QED
    BY <1>0, <1>1, <2>1
<1>3. PICK r2 : r2 = [r1 EXCEPT !.at = at]
  OBVIOUS
<1>4. r2 = Run(run.pc, run.phase, run.probes, at, results, run.loaded, run.failures, run.asked)
  <2>1. [Run(run.pc, run.phase, run.probes, run.at, results, run.loaded, run.failures, run.asked) EXCEPT !.at = at] = Run(run.pc, run.phase, run.probes, at, results, run.loaded, run.failures, run.asked)
    BY DEF Run
  <2>2. QED
    BY <1>2, <1>3, <2>1
<1>5. [run EXCEPT !.results = results, !.at = at] =
        [[run EXCEPT !.results = results] EXCEPT !.at = at]
  OBVIOUS
<1>6. [[run EXCEPT !.results = results] EXCEPT !.at = at] = r2
  BY <1>1, <1>3
<1>7. QED
  BY <1>4, <1>5, <1>6

\* A run behind a probe that has its result.
LEMMA WithResult ==
  ASSUME NEW run \in ScanRuns, NEW results, NEW failures, NEW asked, NEW at
  PROVE  [run EXCEPT !.results = results, !.failures = failures, !.asked = asked, !.at = at, !.pc = "delay"] =
            Run("delay", run.phase, run.probes, at, results, run.loaded, failures, asked)
<1>0. run = Run(run.pc, run.phase, run.probes, run.at, run.results, run.loaded, run.failures, run.asked)
  BY RunOwns DEF Own
<1>1. PICK r1 : r1 = [run EXCEPT !.results = results]
  OBVIOUS
<1>2. r1 = Run(run.pc, run.phase, run.probes, run.at, results, run.loaded, run.failures, run.asked)
  <2>1. [Run(run.pc, run.phase, run.probes, run.at, run.results, run.loaded, run.failures, run.asked) EXCEPT !.results = results] = Run(run.pc, run.phase, run.probes, run.at, results, run.loaded, run.failures, run.asked)
    BY DEF Run
  <2>2. QED
    BY <1>0, <1>1, <2>1
<1>3. PICK r2 : r2 = [r1 EXCEPT !.failures = failures]
  OBVIOUS
<1>4. r2 = Run(run.pc, run.phase, run.probes, run.at, results, run.loaded, failures, run.asked)
  <2>1. [Run(run.pc, run.phase, run.probes, run.at, results, run.loaded, run.failures, run.asked) EXCEPT !.failures = failures] = Run(run.pc, run.phase, run.probes, run.at, results, run.loaded, failures, run.asked)
    BY DEF Run
  <2>2. QED
    BY <1>2, <1>3, <2>1
<1>5. PICK r3 : r3 = [r2 EXCEPT !.asked = asked]
  OBVIOUS
<1>6. r3 = Run(run.pc, run.phase, run.probes, run.at, results, run.loaded, failures, asked)
  <2>1. [Run(run.pc, run.phase, run.probes, run.at, results, run.loaded, failures, run.asked) EXCEPT !.asked = asked] = Run(run.pc, run.phase, run.probes, run.at, results, run.loaded, failures, asked)
    BY DEF Run
  <2>2. QED
    BY <1>4, <1>5, <2>1
<1>7. PICK r4 : r4 = [r3 EXCEPT !.at = at]
  OBVIOUS
<1>8. r4 = Run(run.pc, run.phase, run.probes, at, results, run.loaded, failures, asked)
  <2>1. [Run(run.pc, run.phase, run.probes, run.at, results, run.loaded, failures, asked) EXCEPT !.at = at] = Run(run.pc, run.phase, run.probes, at, results, run.loaded, failures, asked)
    BY DEF Run
  <2>2. QED
    BY <1>6, <1>7, <2>1
<1>9. PICK r5 : r5 = [r4 EXCEPT !.pc = "delay"]
  OBVIOUS
<1>10. r5 = Run("delay", run.phase, run.probes, at, results, run.loaded, failures, asked)
  <2>1. [Run(run.pc, run.phase, run.probes, at, results, run.loaded, failures, asked) EXCEPT !.pc = "delay"] = Run("delay", run.phase, run.probes, at, results, run.loaded, failures, asked)
    BY DEF Run
  <2>2. QED
    BY <1>8, <1>9, <2>1
<1>11. [run EXCEPT !.results = results, !.failures = failures, !.asked = asked, !.at = at, !.pc = "delay"] =
        [[[[[run EXCEPT !.results = results] EXCEPT !.failures = failures] EXCEPT !.asked = asked] EXCEPT !.at = at] EXCEPT !.pc = "delay"]
  OBVIOUS
<1>12. [[[[[run EXCEPT !.results = results] EXCEPT !.failures = failures] EXCEPT !.asked = asked] EXCEPT !.at = at] EXCEPT !.pc = "delay"] = r5
  BY <1>1, <1>3, <1>5, <1>7, <1>9
<1>13. QED
  BY <1>10, <1>11, <1>12

\* A run whose session is a new one.
LEMMA WithAsked ==
  ASSUME NEW run \in ScanRuns
  PROVE  [run EXCEPT !.asked = 0] =
            Run(run.pc, run.phase, run.probes, run.at, run.results, run.loaded, run.failures, 0)
<1>0. run = Run(run.pc, run.phase, run.probes, run.at, run.results, run.loaded, run.failures, run.asked)
  BY RunOwns DEF Own
<1>1. [Run(run.pc, run.phase, run.probes, run.at, run.results, run.loaded, run.failures, run.asked) EXCEPT !.asked = 0] = Run(run.pc, run.phase, run.probes, run.at, run.results, run.loaded, run.failures, 0)
  BY DEF Run
<1>2. QED
  BY <1>0, <1>1

\* A run that has read the file.
LEMMA WithLoaded ==
  ASSUME NEW run \in ScanRuns, NEW saved, NEW loaded
  PROVE  [run EXCEPT !.results = saved, !.loaded = loaded] =
            Run(run.pc, run.phase, run.probes, run.at, saved, loaded, run.failures, run.asked)
<1>0. run = Run(run.pc, run.phase, run.probes, run.at, run.results, run.loaded, run.failures, run.asked)
  BY RunOwns DEF Own
<1>1. PICK r1 : r1 = [run EXCEPT !.results = saved]
  OBVIOUS
<1>2. r1 = Run(run.pc, run.phase, run.probes, run.at, saved, run.loaded, run.failures, run.asked)
  <2>1. [Run(run.pc, run.phase, run.probes, run.at, run.results, run.loaded, run.failures, run.asked) EXCEPT !.results = saved] = Run(run.pc, run.phase, run.probes, run.at, saved, run.loaded, run.failures, run.asked)
    BY DEF Run
  <2>2. QED
    BY <1>0, <1>1, <2>1
<1>3. PICK r2 : r2 = [r1 EXCEPT !.loaded = loaded]
  OBVIOUS
<1>4. r2 = Run(run.pc, run.phase, run.probes, run.at, saved, loaded, run.failures, run.asked)
  <2>1. [Run(run.pc, run.phase, run.probes, run.at, saved, run.loaded, run.failures, run.asked) EXCEPT !.loaded = loaded] = Run(run.pc, run.phase, run.probes, run.at, saved, loaded, run.failures, run.asked)
    BY DEF Run
  <2>2. QED
    BY <1>2, <1>3, <2>1
<1>5. [run EXCEPT !.results = saved, !.loaded = loaded] =
        [[run EXCEPT !.results = saved] EXCEPT !.loaded = loaded]
  OBVIOUS
<1>6. [[run EXCEPT !.results = saved] EXCEPT !.loaded = loaded] = r2
  BY <1>1, <1>3
<1>7. QED
  BY <1>4, <1>5, <1>6

\* Fields of the right types make a run.
LEMMA RunTyped ==
  ASSUME NEW pc \in {"idle", "armed", "aare", "get", "delay", "release", "lastRelease", "done", "over", "killed"},
         NEW phase \in {1, 2}, NEW probes \in Seq(ScanProbes), NEW at \in Nat, NEW results \in Seq(ScanResults),
         NEW loaded \in Nat, NEW failures \in [Groups -> Nat], NEW asked \in Nat
  PROVE  Run(pc, phase, probes, at, results, loaded, failures, asked) \in ScanRuns
BY DEF Run, ScanRuns

Honest(run) ==
    \A i \in (run.loaded + 1)..Len(run.results) : run.results[i].of = run.results[i].probe

Over == {"done", "over", "killed"}

Rank(pc) ==
    CASE pc = "idle" -> 0 [] pc = "armed" -> 1 [] pc = "delay" -> 2
      [] pc = "release" -> 3 [] pc = "aare" -> 4 [] pc = "get" -> 5
      [] pc = "lastRelease" -> 6

\* next is nearer to its end.
Further(run, next) ==
    \/ next.pc \in Over
    \/ next.phase > run.phase
    \/ next.phase = run.phase /\ next.at > run.at
    \/ next.phase = run.phase /\ next.at = run.at /\ Rank(next.pc) > Rank(run.pc)

Sound(run, missed) ==
    InPlace(run) /\ Counted(run) /\ Justified(run) /\ (missed = 0 => Honest(run))

Extends(run, next) ==
    next.loaded = run.loaded /\ \E more \in Seq(ScanResults) : next.results = run.results \o more

\* A run has become next, sound and further on.  gone are the runs known to be
\* cut, missed is the number of answers that came late.
Reached(s, run, next, gone, missed) ==
    /\ next \in ScanRuns
    /\ next.pc \notin {"idle", "armed", "over", "killed"}
    /\ Sound(next, missed)
    /\ Standing(next)
    /\ Extends(run, next)
    /\ s \notin gone => SoFar(next)
    /\ Further(run, next)

Labels == {NoSave, "progress", "phase1", "phase2", "phase1-interrupted", "complete"}

\* What the code from a point of a run on ends in: the run's next await.
Outcome(s, run, rest, gone, missed) ==
    \E next \in ScanRuns, save \in Labels :
        /\ Await(s, next, rest, Due(next), save)
        /\ save = "complete" <=> (next.pc = "done" /\ save # "phase1-interrupted")
        /\ Reached(s, run, next, gone, missed)

\* The lexicographic order of triples.
LEMMA BeforeThree ==
  ASSUME NEW a \in Nat, NEW b \in Nat, NEW c \in Nat, NEW d \in Nat, NEW e \in Nat, NEW f \in Nat,
         \/ a < d
         \/ a = d /\ b < e
         \/ a = d /\ b = e /\ c < f
  PROVE  Before(<<a, b, c>>, <<d, e, f>>)
<1>1. DOMAIN <<a, b, c>> = 1..3
  OBVIOUS
<1>2. CASE a < d
  BY <1>1, <1>2 DEF Before
<1>3. CASE a = d /\ b < e
  <2>1. 2 \in 1..3 /\ \A j \in 1..(2 - 1) : j = 1
    OBVIOUS
  <2>2. QED
    BY <1>1, <1>3, <2>1 DEF Before
<1>4. CASE a = d /\ b = e /\ c < f
  <2>1. 3 \in 1..3 /\ \A j \in 1..(3 - 1) : j = 1 \/ j = 2
    OBVIOUS
  <2>2. QED
    BY <1>1, <1>4, <2>1 DEF Before
<1>5. QED
  BY <1>2, <1>3, <1>4

\* Progress is the phase, the place in its list and the rank of the await, or the end.
LEMMA ProgressOf ==
  ASSUME NEW run \in ScanRuns
  PROVE  /\ run.pc \in Over => Progress(run) = <<3, 0, 0>>
         /\ run.pc \notin Over => /\ Progress(run) = <<run.phase, run.at, Rank(run.pc)>>
                                  /\ Rank(run.pc) \in Nat
         /\ run.phase \in {1, 2} /\ run.at \in Nat
<1>1. run.phase \in {1, 2} /\ run.at \in Nat
  BY DEF ScanRuns
<1>2. run.pc \in Over => Progress(run) = <<3, 0, 0>>
  BY DEF Over, Progress
<1>3. run.pc \notin Over => Progress(run) = <<run.phase, run.at, Rank(run.pc)>>
  BY DEF Over, Progress, Rank
<1>4. run.pc \notin Over => Rank(run.pc) \in Nat
  <2>1. run.pc \in {"idle", "armed", "aare", "get", "delay", "release", "lastRelease", "done", "over", "killed"}
    BY DEF ScanRuns
  <2>2. QED
    BY <2>1 DEF Over, Rank
<1>5. QED
  BY <1>1, <1>2, <1>3, <1>4

\* A run that is further on is nearer to its end.
LEMMA Ahead ==
  ASSUME NEW run \in ScanRuns, NEW next \in ScanRuns, run.pc \notin Over, Further(run, next)
  PROVE  Before(Progress(run), Progress(next))
<1>1. Progress(run) = <<run.phase, run.at, Rank(run.pc)>> /\ Rank(run.pc) \in Nat
  BY ProgressOf
<1>2. run.phase \in {1, 2} /\ next.phase \in {1, 2} /\ run.at \in Nat /\ next.at \in Nat
  BY ProgressOf
<1>3. CASE next.pc \in Over
  <2>1. Progress(next) = <<3, 0, 0>>
    BY <1>3, ProgressOf
  <2>2. run.phase \in Nat /\ run.phase < 3
    BY <1>2
  <2>3. Before(<<run.phase, run.at, Rank(run.pc)>>, <<3, 0, 0>>)
    BY <1>1, <1>2, <2>2, BeforeThree
  <2>4. QED
    BY <1>1, <2>1, <2>3
<1>4. CASE next.pc \notin Over
  <2>1. Progress(next) = <<next.phase, next.at, Rank(next.pc)>> /\ Rank(next.pc) \in Nat
    BY <1>4, ProgressOf
  <2>2. PICK a \in Nat, b \in Nat, c \in Nat, d \in Nat, e \in Nat, f \in Nat :
            /\ a = run.phase /\ b = run.at /\ c = Rank(run.pc)
            /\ d = next.phase /\ e = next.at /\ f = Rank(next.pc)
    BY <1>1, <1>2, <2>1
  <2>3. Before(<<a, b, c>>, <<d, e, f>>)
    <3>1. \/ a < d
          \/ a = d /\ b < e
          \/ a = d /\ b = e /\ c < f
      BY <1>4, <2>2 DEF Further
    <3>2. QED
      BY <3>1, BeforeThree
  <2>4. QED
    BY <1>1, <2>1, <2>2, <2>3
<1>5. QED
  BY <1>3, <1>4

\* new is old with more put behind it.
Joined(new, old, more) ==
    /\ new \in Seq(ScanResults)
    /\ Len(old) \in Nat /\ Len(more) \in Nat /\ Len(new) = Len(old) + Len(more)
    /\ \A i \in 1..Len(old) : new[i] = old[i]
    /\ \A k \in 1..Len(more) : new[Len(old) + k] = more[k]
    /\ \A i \in 1..Len(new) : i \in 1..Len(old) \/ \E k \in 1..Len(more) : i = Len(old) + k
    /\ \A n \in 0..Len(old) : SubSeq(new, 1, n) = SubSeq(old, 1, n)
    /\ Probed(old) \subseteq Probed(new)
    /\ \A k \in 1..Len(more) : more[k].probe \in Probed(new)

\* What a list of results becomes when more are put behind it.
LEMMA Behind ==
  ASSUME NEW old \in Seq(ScanResults), NEW more \in Seq(ScanResults), NEW new, new = old \o more
  PROVE  Joined(new, old, more)
<1>1. new \in Seq(ScanResults) /\ Len(old) \in Nat /\ Len(more) \in Nat /\ Len(new) = Len(old) + Len(more)
  OBVIOUS
<1>2. \A i \in 1..Len(old) : new[i] = old[i]
  OBVIOUS
<1>3. \A k \in 1..Len(more) : new[Len(old) + k] = more[k] /\ Len(old) + k \in 1..Len(new)
  OBVIOUS
<1>4. ASSUME NEW i \in 1..Len(new), i \notin 1..Len(old)
      PROVE  \E k \in 1..Len(more) : i = Len(old) + k
  <2>1. i - Len(old) \in 1..Len(more) /\ i = Len(old) + (i - Len(old))
    BY <1>1, <1>4
  <2>2. QED
    BY <2>1
<1>5. ASSUME NEW n \in 0..Len(old) PROVE SubSeq(new, 1, n) = SubSeq(old, 1, n)
  <2>1. \A i \in 1..n : new[i] = old[i]
    BY <1>1, <1>2
  <2>2. SubSeq(new, 1, n) = [i \in 1..n |-> new[i]]
    BY <1>1
  <2>3. SubSeq(old, 1, n) = [i \in 1..n |-> old[i]]
    BY <1>1
  <2>4. QED
    BY <2>1, <2>2, <2>3
<1>6. DOMAIN old = 1..Len(old) /\ DOMAIN new = 1..Len(new)
  BY <1>1
<1>7. Probed(old) \subseteq Probed(new)
  BY <1>1, <1>2, <1>6 DEF Probed
<1>8. \A k \in 1..Len(more) : more[k].probe \in Probed(new)
  BY <1>3, <1>6 DEF Probed
<1>9. QED
  BY <1>1, <1>2, <1>3, <1>4, <1>5, <1>7, <1>8 DEF Joined

------------------------------------------------------------------------------
(* Phases: what has a result, and what is still to be asked for.           *)

\* What is wanted with more results was wanted with fewer.
LEMMA LessWanted ==
  ASSUME NEW old, NEW new, Probed(old) \subseteq Probed(new)
  PROVE  /\ \A p : Wanted(p, new) => Wanted(p, old)
         /\ \A list : ~ Lacks(list, old) => ~ Lacks(list, new)
         /\ \A list, probes : Covered(list, old, probes) => Covered(list, new, probes)
<1>1. \A p : Wanted(p, new) => Wanted(p, old)
  BY DEF Wanted
<1>2. QED
  BY <1>1 DEF Lacks, Covered

\* Results of the run's phase, put behind, leave its phases in order and its lists covered.
LEMMA CoversMore ==
  ASSUME NEW run \in ScanRuns, NEW next \in ScanRuns, NEW more \in Seq(ScanResults),
         next.results = run.results \o more, next.loaded = run.loaded,
         next.phase = run.phase, next.probes = run.probes,
         \A k \in 1..Len(more) : more[k].phase = run.phase,
         run.loaded <= Len(run.results), Covers(run)
  PROVE  Covers(next)
<1>p. PICK old, new : old = run.results /\ new = next.results
  OBVIOUS
<1>0. old \in Seq(ScanResults) /\ run.loaded \in Nat /\ run.phase \in {1, 2}
  BY <1>p DEF ScanRuns
<1>1. /\ Len(old) \in Nat /\ Len(more) \in Nat /\ Len(new) = Len(old) + Len(more)
      /\ \A i \in 1..Len(old) : new[i] = old[i]
      /\ \A k \in 1..Len(more) : new[Len(old) + k] = more[k]
      /\ \A i \in 1..Len(new) : i \in 1..Len(old) \/ \E k \in 1..Len(more) : i = Len(old) + k
      /\ \A n \in 0..Len(old) : SubSeq(new, 1, n) = SubSeq(old, 1, n)
      /\ Probed(old) \subseteq Probed(new)
  <2>1. Joined(new, old, more)
    BY <1>0, <1>p, Behind
  <2>2. QED
    BY <2>1 DEF Joined
<1>2. ASSUME NEW n \in run.loaded..Len(old),
             \A i \in (run.loaded + 1)..Len(old) : old[i].phase = IF i <= n THEN 1 ELSE 2,
             NEW m \in n..Len(new),
             \A k \in 1..Len(more) : run.phase = IF Len(old) + k <= m THEN 1 ELSE 2,
             m = n \/ n = Len(old)
      PROVE  \A i \in (run.loaded + 1)..Len(new) : new[i].phase = IF i <= m THEN 1 ELSE 2
  <2> SUFFICES ASSUME NEW i \in (run.loaded + 1)..Len(new)
               PROVE  new[i].phase = IF i <= m THEN 1 ELSE 2
    OBVIOUS
  <2>1. i \in 1..Len(new) /\ i \in Nat
    BY <1>0, <1>1
  <2>2. CASE i \in 1..Len(old)
    <3>1. new[i] = old[i] /\ i \in (run.loaded + 1)..Len(old)
      BY <1>0, <1>1, <2>2
    <3>2. old[i].phase = IF i <= n THEN 1 ELSE 2
      BY <1>2, <3>1
    <3>3. i <= n <=> i <= m
      BY <1>0, <1>1, <1>2, <2>2
    <3>4. QED
      BY <3>1, <3>2, <3>3
  <2>3. CASE i \notin 1..Len(old)
    <3>1. PICK k \in 1..Len(more) : i = Len(old) + k
      BY <1>1, <2>1, <2>3
    <3>2. new[i].phase = run.phase
      BY <1>1, <3>1
    <3>3. QED
      BY <1>2, <3>1, <3>2
  <2>4. QED
    BY <2>2, <2>3
<1>3. CASE run.phase = 1
  <2>1. \A i \in (run.loaded + 1)..Len(old) : old[i].phase = IF i <= Len(old) THEN 1 ELSE 2
    BY <1>p, <1>3 DEF Covers, InTwoPhases
  <2>2. Len(old) \in run.loaded..Len(old) /\ Len(new) \in Len(old)..Len(new)
    BY <1>p, <1>0, <1>1
  <2>3. \A k \in 1..Len(more) : Len(old) + k <= Len(new)
    BY <1>1
  <2>4. \A i \in (run.loaded + 1)..Len(new) : new[i].phase = IF i <= Len(new) THEN 1 ELSE 2
    BY <1>2, <1>3, <2>1, <2>2, <2>3
  <2>5. Covered(Phase1Probes, new, next.probes)
    BY <1>p, <1>1, <1>3, LessWanted DEF Covers
  <2>6. InTwoPhases(next, Len(next.results))
    BY <1>p, <2>4 DEF InTwoPhases
  <2>7. QED
    BY <1>p, <1>3, <2>5, <2>6 DEF Covers
<1>4. CASE run.phase = 2
  <2>1. PICK n \in run.loaded..Len(old) : InTwoPhases(run, n) /\ Covered(Near(old, n), old, run.probes)
    BY <1>p, <1>4 DEF Covers
  <2>2. \A i \in (run.loaded + 1)..Len(old) : old[i].phase = IF i <= n THEN 1 ELSE 2
    BY <1>p, <2>1 DEF InTwoPhases
  <2>3. n \in n..Len(new) /\ n \in run.loaded..Len(new) /\ n \in 0..Len(old)
    BY <1>0, <1>1
  <2>4. \A k \in 1..Len(more) : ~ (Len(old) + k <= n)
    BY <1>0, <1>1, <2>1
  <2>5. \A i \in (run.loaded + 1)..Len(new) : new[i].phase = IF i <= n THEN 1 ELSE 2
    BY <1>2, <1>4, <2>2, <2>3, <2>4
  <2>6. Near(new, n) = Near(old, n)
    BY <1>1, <2>3 DEF Near
  <2>7. Covered(Near(new, n), new, next.probes)
    BY <1>1, <2>1, <2>6, LessWanted
  <2>8. ~ Lacks(Phase1Probes, new)
    BY <1>p, <1>1, <1>4, LessWanted DEF Covers
  <2>9. InTwoPhases(next, n)
    BY <1>p, <2>5 DEF InTwoPhases
  <2>10. QED
    BY <1>p, <1>4, <2>3, <2>7, <2>8, <2>9 DEF Covers
<1>5. QED
  BY <1>0, <1>3, <1>4

\* A phase whose every probe has a result is whole.
LEMMA PhaseIsWhole ==
  ASSUME NEW run \in ScanRuns, InPlace(run), Recorded(run), Covers(run), run.at > Len(run.probes)
  PROVE  PhaseWhole(run)
<1>0. run.phase \in {1, 2} /\ run.at \in Nat /\ Len(run.probes) \in Nat
  BY DEF ScanRuns
<1>1. ASSUME NEW list, Covered(list, run.results, run.probes)
      PROVE  ~ Lacks(list, run.results)
  <2> SUFFICES ASSUME NEW j \in 1..Len(list), Wanted(list[j], run.results) PROVE FALSE
    BY DEF Lacks
  <2>1. PICK i \in 1..Len(run.probes) : run.probes[i] = list[j]
    BY <1>1 DEF Covered
  <2>2. i \in 1..(run.at - 1)
    BY <1>0
  <2>3. run.probes[i] \in Probed(run.results)
    BY <2>2 DEF Recorded
  <2>4. QED
    BY <2>1, <2>3 DEF Wanted
<1>2. CASE run.phase = 1
  BY <1>1, <1>2 DEF Covers, PhaseWhole
<1>3. CASE run.phase = 2
  BY <1>1, <1>3 DEF Covers, PhaseWhole
<1>4. QED
  BY <1>0, <1>2, <1>3

------------------------------------------------------------------------------
(* Streaks: what the counters count, and what a skip rests on.             *)

\* A streak is one whatever is put behind it, and whatever is skipped meanwhile.
LEMMA StreakStays ==
  ASSUME NEW old \in Seq(ScanResults), NEW more \in Seq(ScanResults), NEW new, new = old \o more,
         NEW g, NEW phase, NEW n, NEW places, places \subseteq 1..Len(old),
         Streak(old, g, phase, places, n)
  PROVE  Streak(new, g, phase, places, n)
<1>1. \A i \in 1..Len(old) : new[i] = old[i]
  <2>1. Joined(new, old, more)
    BY Behind
  <2>2. QED
    BY <2>1 DEF Joined
<1>2. \A i \in places : new[i] = old[i]
  BY <1>1
<1>3. Asked(new, g, phase, places) = Asked(old, g, phase, places)
  BY <1>2 DEF Asked
<1>4. \A k \in Asked(old, g, phase, places) : k \in places
  BY DEF Asked
<1>5. QED
  BY <1>2, <1>3, <1>4 DEF Streak

\* Skipped results, and those of other groups and phases, do not belong to a streak.
LEMMA StreakSkips ==
  ASSUME NEW results, NEW g, NEW phase, NEW n, NEW places, NEW wider, places \subseteq wider,
         \A k \in wider : k \in places \/ Group(results[k].probe) # g \/ results[k].phase # phase
                                      \/ results[k].result = "skipped",
         Streak(results, g, phase, places, n)
  PROVE  Streak(results, g, phase, wider, n)
<1>1. Asked(results, g, phase, wider) = Asked(results, g, phase, places)
  BY DEF Asked
<1>2. QED
  BY <1>1 DEF Streak

\* A streak of GroupExhaustThreshold results is enough.
LEMMA EnoughIs ==
  ASSUME NEW run, NEW i, NEW n, n >= GroupExhaustThreshold, NEW first \in (run.loaded + 1)..i,
         Streak(run.results, Group(run.results[i].probe), run.results[i].phase, first..(i - 1), n)
  PROVE  EnoughBefore(run, i)
BY DEF EnoughBefore, Streak

\* Results put behind leave what was justified justified.
LEMMA JustifiedMore ==
  ASSUME NEW run \in ScanRuns, NEW next \in ScanRuns, NEW more \in Seq(ScanResults),
         next.results = run.results \o more, next.loaded = run.loaded, Justified(run),
         NEW i \in (run.loaded + 1)..Len(run.results), next.results[i].result = "skipped"
  PROVE  EnoughBefore(next, i)
<1>p. PICK old, new : old = run.results /\ new = next.results
  OBVIOUS
<1>0. old \in Seq(ScanResults) /\ run.loaded \in Nat /\ Len(old) \in Nat
  BY <1>p DEF ScanRuns
<1>1. i \in 1..Len(old) /\ new[i] = old[i]
  <2>1. Joined(new, old, more)
    BY <1>p, <1>0, Behind
  <2>2. QED
    BY <1>p, <1>0, <2>1 DEF Joined
<1>2. EnoughBefore(run, i)
  BY <1>p, <1>1 DEF Justified
<1>3. PICK g, phase : g = Group(old[i].probe) /\ phase = old[i].phase
  OBVIOUS
<1>4. PICK first \in (run.loaded + 1)..i :
        \E n : n >= GroupExhaustThreshold /\ Streak(old, g, phase, first..(i - 1), n)
  BY <1>p, <1>2, <1>3 DEF EnoughBefore
<1>5. PICK n : n >= GroupExhaustThreshold /\ Streak(old, g, phase, first..(i - 1), n)
  BY <1>4
<1>6. PICK places : places = first..(i - 1)
  OBVIOUS
<1>7. places \subseteq 1..Len(old)
  BY <1>0, <1>1, <1>6
<1>8. Streak(new, g, phase, places, n)
  BY <1>p, <1>0, <1>5, <1>6, <1>7, StreakStays
<1>9. Streak(next.results, Group(next.results[i].probe), next.results[i].phase, first..(i - 1), n)
  BY <1>p, <1>1, <1>3, <1>6, <1>8
<1>10. first \in (next.loaded + 1)..i
  OBVIOUS
<1>11. QED
  BY <1>5, <1>9, <1>10, EnoughIs

\* The streak of a group that what is put behind leaves as it is.
LEMMA StreakGoesOn ==
  ASSUME NEW run \in ScanRuns, NEW more \in Seq(ScanResults), NEW new, new = run.results \o more,
         run.loaded <= Len(run.results), Counted(run), NEW g \in Groups,
         \A k \in 1..Len(more) : more[k].result = "skipped" \/ Group(more[k].probe) # g,
         NEW upto \in Len(run.results)..Len(new)
  PROVE  \E first \in (run.loaded + 1)..(Len(run.results) + 1) :
            Streak(new, g, run.phase, first..upto, run.failures[g])
<1>p. PICK old, phase, n : old = run.results /\ phase = run.phase /\ n = run.failures[g]
  OBVIOUS
<1>0. old \in Seq(ScanResults) /\ run.loaded \in Nat /\ Len(old) \in Nat
  BY <1>p DEF ScanRuns
<1>1. Joined(new, old, more)
  BY <1>p, <1>0, Behind
<1>2. /\ Len(more) \in Nat /\ Len(new) = Len(old) + Len(more)
      /\ \A k \in 1..Len(more) : new[Len(old) + k] = more[k]
      /\ \A i \in 1..Len(new) : i \in 1..Len(old) \/ \E k \in 1..Len(more) : i = Len(old) + k
  BY <1>1 DEF Joined
<1>3. PICK first \in (run.loaded + 1)..(Len(old) + 1) : Streak(old, g, phase, first..Len(old), n)
  BY <1>p DEF Counted
<1>4. PICK places, wider : places = first..Len(old) /\ wider = first..upto
  OBVIOUS
<1>5. first \in Nat /\ first > 0 /\ upto \in Nat /\ upto >= Len(old) /\ upto <= Len(new)
  BY <1>p, <1>0, <1>2
<1>6. places \subseteq 1..Len(old) /\ places \subseteq wider
  BY <1>0, <1>4, <1>5
<1>7. Streak(new, g, phase, places, n)
  BY <1>p, <1>0, <1>3, <1>4, <1>6, StreakStays
<1>8. ASSUME NEW k \in wider, k \notin places
      PROVE  Group(new[k].probe) # g \/ new[k].result = "skipped"
  <2>1. k \in 1..Len(new) /\ k \notin 1..Len(old)
    BY <1>0, <1>2, <1>4, <1>5, <1>8
  <2>2. PICK j \in 1..Len(more) : k = Len(old) + j
    BY <1>2, <2>1
  <2>3. QED
    BY <1>2, <2>2
<1>9. Streak(new, g, phase, wider, n)
  <2>1. \A k \in wider : k \in places \/ Group(new[k].probe) # g \/ new[k].phase # phase
                                      \/ new[k].result = "skipped"
    BY <1>8
  <2>2. QED
    BY <1>6, <1>7, <2>1, StreakSkips
<1>10. QED
  BY <1>p, <1>3, <1>4, <1>9

\* Skipped probes of groups that are exhausted are justified, and count for nothing.
LEMMA SkippedSound ==
  ASSUME NEW run \in ScanRuns, NEW next \in ScanRuns, NEW more \in Seq(ScanResults),
         next.results = run.results \o more, next.loaded = run.loaded,
         next.phase = run.phase, next.failures = run.failures,
         \A k \in 1..Len(more) : /\ more[k].result = "skipped"
                                 /\ more[k].phase = run.phase
                                 /\ run.failures[Group(more[k].probe)] >= GroupExhaustThreshold,
         run.loaded <= Len(run.results), Counted(run), Justified(run)
  PROVE  Counted(next) /\ Justified(next)
<1>p. PICK old, new, phase : old = run.results /\ new = next.results /\ phase = run.phase
  OBVIOUS
<1>0. old \in Seq(ScanResults) /\ run.loaded \in Nat /\ Len(old) \in Nat
  BY <1>p DEF ScanRuns
<1>1. Joined(new, old, more)
  BY <1>p, <1>0, Behind
<1>2. /\ Len(more) \in Nat /\ Len(new) = Len(old) + Len(more)
      /\ \A k \in 1..Len(more) : new[Len(old) + k] = more[k]
      /\ \A i \in 1..Len(new) : i \in 1..Len(old) \/ \E k \in 1..Len(more) : i = Len(old) + k
  BY <1>1 DEF Joined
<1>3. ASSUME NEW g \in Groups, NEW upto \in Len(old)..Len(new)
      PROVE  \E first \in (run.loaded + 1)..(Len(old) + 1) :
                Streak(new, g, phase, first..upto, run.failures[g])
  <2>1. upto \in Len(run.results)..Len(new) /\ new = run.results \o more
    BY <1>p
  <2>2. \E first \in (run.loaded + 1)..(Len(run.results) + 1) :
                Streak(new, g, run.phase, first..upto, run.failures[g])
    BY <2>1, StreakGoesOn
  <2>3. QED
    BY <1>p, <2>2
<1>4. Counted(next)
  <2>1. ASSUME NEW g \in Groups
        PROVE  \E first \in (next.loaded + 1)..(Len(new) + 1) :
                  Streak(new, g, phase, first..Len(new), next.failures[g])
    <3>1. Len(new) \in Len(old)..Len(new)
      BY <1>0, <1>2
    <3>2. PICK first \in (run.loaded + 1)..(Len(old) + 1) :
                Streak(new, g, phase, first..Len(new), run.failures[g])
      BY <1>3, <3>1
    <3>3. first \in (next.loaded + 1)..(Len(new) + 1)
      BY <1>0, <1>2
    <3>4. QED
      BY <3>2, <3>3
  <2>2. QED
    BY <1>p, <2>1 DEF Counted
<1>5. Justified(next)
  <2> SUFFICES ASSUME NEW i \in (next.loaded + 1)..Len(next.results), next.results[i].result = "skipped"
               PROVE  EnoughBefore(next, i)
    BY DEF Justified
  <2>1. CASE i \in 1..Len(old)
    <3>1. i \in (run.loaded + 1)..Len(run.results)
      BY <1>p, <1>0, <2>1
    <3>2. QED
      BY <3>1, JustifiedMore
  <2>2. CASE i \notin 1..Len(old)
    <3>1. i \in 1..Len(new)
      BY <1>p, <1>0, <1>2
    <3>2. PICK j \in 1..Len(more) : i = Len(old) + j
      BY <1>2, <2>2, <3>1
    <3>3. PICK g : g = Group(more[j].probe)
      OBVIOUS
    <3>4. new[i] = more[j] /\ new[i].phase = phase /\ run.failures[g] >= GroupExhaustThreshold
      BY <1>p, <1>2, <3>2, <3>3
    <3>5. g \in Groups
      <4>1. more[j] \in ScanResults
        OBVIOUS
      <4>2. more[j].probe \in ScanProbes
        BY <4>1 DEF ScanResults
      <4>3. QED
        BY <3>3, <4>2, GroupOfProbe
    <3>6. i - 1 \in Len(old)..Len(new)
      BY <1>0, <1>2, <3>2
    <3>7. PICK first \in (run.loaded + 1)..(Len(old) + 1) :
                Streak(new, g, phase, first..(i - 1), run.failures[g])
      BY <1>3, <3>5, <3>6
    <3>8. first \in (next.loaded + 1)..i
      BY <1>0, <1>2, <3>2
    <3>9. Streak(next.results, Group(next.results[i].probe), next.results[i].phase, first..(i - 1), run.failures[g])
      BY <1>p, <3>3, <3>4, <3>7
    <3>10. QED
      BY <3>4, <3>8, <3>9, EnoughIs
  <2>3. QED
    BY <2>1, <2>2
<1>6. QED
  BY <1>4, <1>5

\* Nothing has been asked since the results end.
LEMMA NoStreak ==
  ASSUME NEW results, NEW g, NEW phase, NEW n \in Nat
  PROVE  Streak(results, g, phase, (n + 1)..n, 0)
<1>1. Asked(results, g, phase, (n + 1)..n) = {}
  <2>1. (n + 1)..n = {}
    OBVIOUS
  <2>2. QED
    BY <2>1 DEF Asked
<1>2. Cardinality({}) = 0
  BY FS_EmptySet
<1>3. QED
  BY <1>1, <1>2 DEF Streak

\* A phase begins with nothing counted.
LEMMA CountedFromZero ==
  ASSUME NEW run \in ScanRuns, run.loaded <= Len(run.results), run.failures = [g \in Groups |-> 0]
  PROVE  Counted(run)
<1>1. run.loaded \in Nat /\ Len(run.results) \in Nat
  BY DEF ScanRuns
<1>2. PICK n \in Nat : n = Len(run.results)
  BY <1>1
<1>3. ASSUME NEW g \in Groups
      PROVE  \E first \in (run.loaded + 1)..(n + 1) :
                Streak(run.results, g, run.phase, first..n, run.failures[g])
  <2>1. n + 1 \in (run.loaded + 1)..(n + 1)
    BY <1>1, <1>2
  <2>2. Streak(run.results, g, run.phase, (n + 1)..n, 0)
    BY NoStreak
  <2>3. run.failures[g] = 0
    OBVIOUS
  <2>4. QED
    BY <2>1, <2>2, <2>3
<1>4. QED
  BY <1>2, <1>3 DEF Counted

\* What is counted and justified depends on the results and the counters only.
LEMMA SameSound ==
  ASSUME NEW run, NEW next, next.results = run.results, next.loaded = run.loaded
  PROVE  /\ Justified(run) => Justified(next)
         /\ next.phase = run.phase /\ next.failures = run.failures /\ Counted(run) => Counted(next)
         /\ Honest(run) => Honest(next)
<1>1. \A i : EnoughBefore(run, i) => EnoughBefore(next, i)
  BY DEF EnoughBefore
<1>2. Justified(run) => Justified(next)
  BY <1>1 DEF Justified
<1>3. next.phase = run.phase /\ next.failures = run.failures /\ Counted(run) => Counted(next)
  BY DEF Counted
<1>4. Honest(run) => Honest(next)
  BY DEF Honest
<1>5. QED
  BY <1>2, <1>3, <1>4

\* A result that was asked for is counted, or starts the count again.
LEMMA RecordedSound ==
  ASSUME NEW run \in ScanRuns, NEW next \in ScanRuns, NEW r \in ScanResults,
         next.results = Append(run.results, r), next.loaded = run.loaded, next.phase = run.phase,
         r.phase = run.phase, r.result # "skipped",
         next.failures = [run.failures EXCEPT ![Group(r.probe)] = IF r.result = "undefined" THEN @ + 1 ELSE 0],
         run.loaded <= Len(run.results), Counted(run), Justified(run)
  PROVE  Counted(next) /\ Justified(next)
<1>p. PICK old, new, more, phase, h :
        old = run.results /\ new = next.results /\ more = <<r>> /\ phase = run.phase /\ h = Group(r.probe)
  OBVIOUS
<1>0. /\ old \in Seq(ScanResults) /\ run.loaded \in Nat /\ Len(old) \in Nat
      /\ run.failures \in [Groups -> Nat] /\ more \in Seq(ScanResults) /\ Len(more) = 1
      /\ more[1] = r /\ new = old \o more
  <2>1. old \in Seq(ScanResults) /\ run.loaded \in Nat /\ Len(old) \in Nat
      /\ run.failures \in [Groups -> Nat]
    BY <1>p DEF ScanRuns
  <2>2. more \in Seq(ScanResults) /\ Len(more) = 1 /\ more[1] = r
    BY <1>p
  <2>3. new = old \o more
    BY <1>p, <2>1
  <2>4. QED
    BY <2>1, <2>2, <2>3
<1>1. Joined(new, old, more)
  BY <1>0, Behind
<1>2. PICK n \in Nat : n = Len(old)
  BY <1>0
<1>3. /\ Len(new) = n + 1 /\ new[n + 1] = r
      /\ \A i \in 1..n : new[i] = old[i]
      /\ run.loaded <= n
  BY <1>p, <1>0, <1>1, <1>2 DEF Joined
<1>4. r.probe \in ScanProbes /\ h \in Groups
  BY <1>p, GroupOfProbe DEF ScanResults
<1>5. \A g \in Groups : next.failures[g] =
            IF g # h THEN run.failures[g] ELSE IF r.result = "undefined" THEN run.failures[h] + 1 ELSE 0
  BY <1>p, <1>0, <1>4
<1>6. ASSUME NEW g \in Groups
      PROVE  \E first \in (run.loaded + 1)..(n + 2) :
                Streak(new, g, phase, first..(n + 1), next.failures[g])
  <2>1. CASE g # h
    <3>1. new = run.results \o more /\ n + 1 \in Len(run.results)..Len(new)
      BY <1>p, <1>0, <1>2, <1>3
    <3>2. \A k \in 1..Len(more) : more[k].result = "skipped" \/ Group(more[k].probe) # g
      BY <1>p, <1>0, <2>1
    <3>3. PICK first \in (run.loaded + 1)..(Len(run.results) + 1) :
                Streak(new, g, run.phase, first..(n + 1), run.failures[g])
      BY <1>0, <3>1, <3>2, StreakGoesOn
    <3>4. first \in (run.loaded + 1)..(n + 2)
      BY <1>p, <1>0, <1>2
    <3>5. QED
      BY <1>p, <1>5, <2>1, <3>3, <3>4
  <2>2. CASE g = h /\ r.result # "undefined"
    <3>1. Streak(new, g, phase, ((n + 1) + 1)..(n + 1), 0)
      BY NoStreak
    <3>2. (n + 1) + 1 \in (run.loaded + 1)..(n + 2)
      BY <1>0, <1>3
    <3>3. QED
      BY <1>5, <2>2, <3>1, <3>2
  <2>3. CASE g = h /\ r.result = "undefined"
    <3>1. PICK first \in (run.loaded + 1)..(n + 1) : Streak(old, g, phase, first..n, run.failures[g])
      BY <1>p, <1>2 DEF Counted
    <3>2. PICK places, wider : places = first..n /\ wider = first..(n + 1)
      OBVIOUS
    <3>3. places \subseteq 1..Len(old)
      BY <1>0, <1>2, <3>2
    <3>4. Streak(new, g, phase, places, run.failures[g])
      BY <1>0, <3>1, <3>2, <3>3, StreakStays
    <3>5. PICK few, all : few = Asked(new, g, phase, places) /\ all = Asked(new, g, phase, wider)
      OBVIOUS
    <3>6. wider = places \cup {n + 1} /\ n + 1 \notin places
      BY <1>0, <3>2
    <3>7. all = few \cup {n + 1} /\ n + 1 \notin few
      BY <1>p, <1>3, <2>3, <3>5, <3>6 DEF Asked
    <3>8. IsFiniteSet(few)
      <4>1. IsFiniteSet(places)
        <5>1. first \in Int /\ n \in Int
          BY <1>0
        <5>2. QED
          BY <3>2, <5>1, FS_Interval
      <4>2. few \subseteq places
        BY <3>5 DEF Asked
      <4>3. QED
        BY <4>1, <4>2, FS_Subset
    <3>9. Cardinality(all) = Cardinality(few) + 1
      BY <3>7, <3>8, FS_AddElement
    <3>10. Cardinality(few) = run.failures[g] /\ \A k \in few : new[k].result = "undefined"
      BY <3>4, <3>5 DEF Streak
    <3>11. Streak(new, g, phase, wider, run.failures[g] + 1)
      BY <1>3, <2>3, <3>5, <3>7, <3>9, <3>10 DEF Streak
    <3>12. first \in (run.loaded + 1)..(n + 2)
      BY <1>0
    <3>13. QED
      BY <1>5, <2>3, <3>2, <3>11, <3>12
  <2>4. QED
    BY <2>1, <2>2, <2>3
<1>7. Counted(next)
  <2>1. Len(next.results) = n + 1 /\ (n + 1) + 1 = n + 2
    BY <1>p, <1>3
  <2>2. QED
    BY <1>p, <1>6, <2>1 DEF Counted
<1>8. ASSUME NEW i \in (next.loaded + 1)..Len(next.results), next.results[i].result = "skipped"
      PROVE  EnoughBefore(next, i)
  <2>1. i # n + 1
    BY <1>p, <1>3, <1>8
  <2>2. i \in (run.loaded + 1)..Len(run.results)
    BY <1>p, <1>0, <1>2, <1>3, <2>1
  <2>3. next.results = run.results \o more
    BY <1>p, <1>0
  <2>4. QED
    BY <1>0, <1>8, <2>2, <2>3, JustifiedMore
<1>9. QED
  BY <1>7, <1>8 DEF Justified

------------------------------------------------------------------------------
(* From one await to the next: what each operator of the chain makes of a run.*)

\* A run with the same results extends itself.
LEMMA ExtendsItself ==
  ASSUME NEW run \in ScanRuns, NEW next, next.loaded = run.loaded, next.results = run.results
  PROVE  Extends(run, next)
<1>1. run.results \in Seq(ScanResults)
  BY DEF ScanRuns
<1>2. <<>> \in Seq(ScanResults) /\ run.results \o <<>> = run.results
  BY <1>1
<1>3. QED
  BY <1>2 DEF Extends

\* A run that extends one that extends a run extends that run.
LEMMA ExtendsFurther ==
  ASSUME NEW run \in ScanRuns, NEW past, NEW next, Extends(run, past), Extends(past, next)
  PROVE  Extends(run, next)
<1>1. run.results \in Seq(ScanResults)
  BY DEF ScanRuns
<1>2. PICK more \in Seq(ScanResults) : past.results = run.results \o more
  BY DEF Extends
<1>3. PICK most \in Seq(ScanResults) : next.results = past.results \o most
  BY DEF Extends
<1>p. PICK old : old = run.results
  OBVIOUS
<1>4. next.results = run.results \o (more \o most)
  <2>1. (old \o more) \o most = old \o (more \o most)
    <3>1. old \in Seq(ScanResults)
      BY <1>p, <1>1
    <3>2. QED
      BY <3>1, SMT
  <2>2. QED
    BY <1>p, <1>2, <1>3, <2>1
<1>5. more \o most \in Seq(ScanResults)
  OBVIOUS
<1>6. QED
  BY <1>4, <1>5 DEF Extends

\* A run that has gone past some probes, at the same await, reaches what it reaches.
LEMMA OutcomeFromPast ==
  ASSUME NEW run \in ScanRuns, NEW past \in ScanRuns, Extends(run, past),
         past.pc = run.pc, past.phase = run.phase, past.at >= run.at,
         NEW s, NEW rest, NEW gone, NEW missed, Outcome(s, past, rest, gone, missed)
  PROVE  Outcome(s, run, rest, gone, missed)
<1>1. PICK next \in ScanRuns, save \in Labels :
        /\ Await(s, next, rest, Due(next), save)
        /\ save = "complete" <=> (next.pc = "done" /\ save # "phase1-interrupted")
        /\ Reached(s, past, next, gone, missed)
  BY DEF Outcome
<1>2. Extends(run, next)
  BY <1>1, ExtendsFurther DEF Reached
<1>3. run.at \in Nat /\ past.at \in Nat /\ next.at \in Nat
  BY DEF ScanRuns
<1>4. Further(past, next)
  BY <1>1 DEF Reached
<1>5. Further(run, next)
  BY <1>3, <1>4 DEF Further
<1>6. Reached(s, run, next, gone, missed)
  BY <1>1, <1>2, <1>5 DEF Reached
<1>7. QED
  BY <1>1, <1>6 DEF Outcome

\* The results do not change, and neither does what is counted.
LEMMA SoundAlike ==
  ASSUME NEW run \in ScanRuns, NEW next \in ScanRuns, NEW missed, Sound(run, missed),
         next.results = run.results, next.loaded = run.loaded, next.phase = run.phase,
         next.failures = run.failures, next.probes = run.probes, next.at = run.at
  PROVE  /\ Sound(next, missed) /\ Extends(run, next)
         /\ Recorded(run) => Recorded(next)
         /\ Covers(run) => Covers(next)
<1>1. InPlace(next)
  BY DEF Sound, InPlace
<1>2. Sound(next, missed)
  BY <1>1, SameSound DEF Sound
<1>3. Recorded(run) => Recorded(next)
  BY DEF Recorded
<1>4. \A n : InTwoPhases(run, n) => InTwoPhases(next, n)
  BY DEF InTwoPhases
<1>5. Covers(run) => Covers(next)
  BY <1>4 DEF Covers
<1>6. QED
  BY <1>2, <1>3, <1>5, ExtendsItself

\* A run may go to another await.
MayReach(s, run, pc, gone) ==
    /\ pc \in {"get", "release", "aare", "lastRelease", "done"}
    /\ pc = "done" \/ Rank(pc) > Rank(run.pc)
    /\ pc \notin {"lastRelease", "done"} => run.at <= Len(run.probes)
    /\ s \notin gone => /\ pc # "done" => Recorded(run) /\ Covers(run)
                        /\ pc = "lastRelease" => run.at > Len(run.probes)
                        /\ pc = "done" => Whole(run)

\* A step to another await, at the same probe.
LEMMA PcReached ==
  ASSUME NEW run \in ScanRuns, NEW missed, Sound(run, missed), run.pc \notin Over,
         NEW s, NEW gone, NEW pc, MayReach(s, run, pc, gone), NEW asked \in Nat, NEW next,
         next = Run(pc, run.phase, run.probes, run.at, run.results, run.loaded, run.failures, asked)
  PROVE  Reached(s, run, next, gone, missed) /\ next.pc = pc
<1>1. /\ run.phase \in {1, 2} /\ run.probes \in Seq(ScanProbes) /\ run.at \in Nat
      /\ run.results \in Seq(ScanResults) /\ run.loaded \in Nat /\ run.failures \in [Groups -> Nat]
  BY DEF ScanRuns
<1>0. /\ pc \in {"get", "release", "aare", "lastRelease", "done"}
      /\ pc = "done" \/ Rank(pc) > Rank(run.pc)
      /\ pc \notin {"lastRelease", "done"} => run.at <= Len(run.probes)
      /\ s \notin gone => /\ pc # "done" => Recorded(run) /\ Covers(run)
                          /\ pc = "lastRelease" => run.at > Len(run.probes)
                          /\ pc = "done" => Whole(run)
  BY DEF MayReach
<1>2. next \in ScanRuns
  BY <1>0, <1>1, RunTyped
<1>3. /\ next.pc = pc /\ next.phase = run.phase /\ next.probes = run.probes /\ next.at = run.at
      /\ next.results = run.results /\ next.loaded = run.loaded /\ next.failures = run.failures
  BY RunParts
<1>4. Sound(next, missed) /\ Extends(run, next)
  BY <1>2, <1>3, SoundAlike
<1>5. Standing(next)
  BY <1>0, <1>3 DEF Standing
<1>6. ASSUME s \notin gone PROVE SoFar(next)
  <2>1. pc # "done" => Recorded(next) /\ Covers(next)
    BY <1>0, <1>2, <1>3, <1>6, SoundAlike
  <2>2. \A n : InTwoPhases(run, n) => InTwoPhases(next, n)
    BY <1>3 DEF InTwoPhases
  <2>3. pc = "done" => Whole(next)
    BY <1>0, <1>3, <1>6, <2>2 DEF Whole
  <2>4. QED
    BY <1>0, <1>3, <1>6, <2>1, <2>3 DEF SoFar
<1>7. Further(run, next)
  BY <1>0, <1>3 DEF Further, Over
<1>8. QED
  BY <1>0, <1>2, <1>3, <1>4, <1>5, <1>6, <1>7 DEF Reached

\* The code behind an await comes to the next one by Await.
LEMMA OutcomeOf ==
  ASSUME NEW s, NEW run, NEW rest, NEW gone, NEW missed, NEW next, NEW request, NEW save \in Labels,
         Await(s, next, rest, request, save), request = Due(next),
         save = "complete" <=> (next.pc = "done" /\ save # "phase1-interrupted"),
         Reached(s, run, next, gone, missed)
  PROVE  Outcome(s, run, rest, gone, missed)
<1>1. next \in ScanRuns
  BY DEF Reached
<1>2. QED
  BY <1>1 DEF Outcome

\* The two results a filter may have.
LEMMA NothingLeft ==
  ASSUME NEW S, NEW list \in Seq(S), NEW results
  PROVE  /\ Filtered(list, results) = <<>> <=> ~ Lacks(list, results)
         /\ Covered(list, results, Filtered(list, results))
<1>0. PICK T : T = {list[j] : j \in 1..Len(list)}
  OBVIOUS
<1>1. PICK left : left = Filtered(list, results)
  OBVIOUS
<1>2. list \in Seq(T)
  BY <1>0
<1>3. /\ left \in Seq(T)
      /\ \A i \in 1..Len(left) : Wanted(left[i], results)
      /\ \A j \in 1..Len(list) : Wanted(list[j], results) => \E i \in 1..Len(left) : left[i] = list[j]
  BY <1>1, <1>2, FilteredLeaves
<1>4. Covered(list, results, left)
  BY <1>3 DEF Covered
<1>5. left = <<>> => ~ Lacks(list, results)
  <2> SUFFICES ASSUME left = <<>>, NEW j \in 1..Len(list), Wanted(list[j], results) PROVE FALSE
    BY DEF Lacks
  <2>1. PICK i \in 1..Len(left) : left[i] = list[j]
    BY <1>3
  <2>2. QED
    BY <2>1
<1>6. ASSUME ~ Lacks(list, results) PROVE left = <<>>
  <2> SUFFICES ASSUME left # <<>> PROVE FALSE
    OBVIOUS
  <2>1. 1 \in 1..Len(left) /\ left[1] \in T
    BY <1>3
  <2>2. PICK j \in 1..Len(list) : left[1] = list[j]
    BY <1>0, <2>1
  <2>3. Wanted(list[j], results)
    BY <1>3, <2>1, <2>2
  <2>4. QED
    BY <1>6, <2>3 DEF Lacks
<1>7. QED
  BY <1>1, <1>4, <1>5, <1>6

\* runBruteForceScan ends.
LEMMA Finishes ==
  ASSUME NEW s, NEW run \in ScanRuns, NEW rest, NEW gone, NEW missed,
         Sound(run, missed), run.pc \notin Over, s \notin gone => Whole(run),
         FinishScan(s, run, rest)
  PROVE  Outcome(s, run, rest, gone, missed)
<1>1. PICK next : next = [run EXCEPT !.pc = "done"]
  OBVIOUS
<1>2. next = Run("done", run.phase, run.probes, run.at, run.results, run.loaded, run.failures, run.asked)
  BY <1>1, WithPc
<1>3. run.asked \in Nat
  BY DEF ScanRuns
<1>4. Reached(s, run, next, gone, missed) /\ next.pc = "done"
  <2>1. MayReach(s, run, "done", gone)
    BY DEF MayReach
  <2>2. QED
    BY <1>2, <1>3, <2>1, PcReached
<1>5. NoRequest = Due(next)
  BY <1>4 DEF Due
<1>6. Await(s, next, rest, NoRequest, "complete")
  BY <1>1 DEF FinishScan
<1>7. QED
  BY <1>4, <1>5, <1>6, OutcomeOf DEF Labels

\* The run at the beginning of a phase.
InPhase(run, phase, probes, failures) ==
    [run EXCEPT !.phase = phase, !.probes = probes, !.at = 1, !.asked = 0,
                !.failures = failures, !.pc = "aare"]

\* The fields of a run that begins a phase.
LEMMA PhaseParts ==
  ASSUME NEW run \in ScanRuns, NEW phase, NEW probes, NEW failures
  PROVE  InPhase(run, phase, probes, failures) =
            Run("aare", phase, probes, 1, run.results, run.loaded, failures, 0)
BY WithPhase DEF InPhase

PhaseLabels == {NoSave, "phase1", "phase2"}

IsNext(run, phase) == run.phase < phase \/ (run.phase = phase /\ run.at = 1 /\ run.pc = "armed")

\* A run may begin a phase with these probes.
MayBegin(run, phase, probes) ==
    IF phase = 1 THEN /\ InTwoPhases(run, Len(run.results))
                      /\ Covered(Phase1Probes, run.results, probes)
    ELSE /\ ~ Lacks(Phase1Probes, run.results)
         /\ \E n \in run.loaded..Len(run.results) :
                InTwoPhases(run, n) /\ Covered(Near(run.results, n), run.results, probes)

\* A phase begins.
LEMMA Begins ==
  ASSUME NEW s, NEW run \in ScanRuns, NEW rest, NEW gone, NEW missed,
         Sound(run, missed), run.pc \notin Over,
         NEW phase \in {1, 2}, NEW probes \in Seq(ScanProbes), probes # <<>>,
         NEW save \in PhaseLabels, IsNext(run, phase),
         s \notin gone => MayBegin(run, phase, probes),
         BeginPhase(s, run, rest, phase, probes, save)
  PROVE  Outcome(s, run, rest, gone, missed)
<1>0. PICK none : none = [g \in Groups |-> 0]
  OBVIOUS
<1>1. PICK next : next = InPhase(run, phase, probes, none)
  OBVIOUS
<1>2. next = Run("aare", phase, probes, 1, run.results, run.loaded, none, 0)
  BY <1>1, PhaseParts
<1>3. /\ run.phase \in {1, 2} /\ run.at \in Nat /\ run.results \in Seq(ScanResults) /\ run.loaded \in Nat
      /\ none \in [Groups -> Nat] /\ Len(probes) \in Nat /\ Len(probes) > 0
  <2>1. run.phase \in {1, 2} /\ run.at \in Nat /\ run.results \in Seq(ScanResults) /\ run.loaded \in Nat
    BY DEF ScanRuns
  <2>2. none \in [Groups -> Nat]
    BY <1>0
  <2>3. Len(probes) \in Nat /\ Len(probes) > 0
    OBVIOUS
  <2>4. QED
    BY <2>1, <2>2, <2>3
<1>4. next \in ScanRuns
  BY <1>2, <1>3, RunTyped
<1>5. /\ next.pc = "aare" /\ next.phase = phase /\ next.probes = probes /\ next.at = 1
      /\ next.results = run.results /\ next.loaded = run.loaded /\ next.failures = none /\ next.asked = 0
  BY <1>2, RunParts
<1>6. run.loaded <= Len(run.results) /\ Justified(run) /\ (missed = 0 => Honest(run))
  BY DEF Sound, InPlace
<1>7. Sound(next, missed)
  <2>1. InPlace(next)
    BY <1>3, <1>5, <1>6 DEF InPlace
  <2>2. Counted(next)
    BY <1>0, <1>4, <1>5, <1>6, CountedFromZero
  <2>3. Justified(next) /\ (Honest(run) => Honest(next))
    BY <1>5, <1>6, SameSound
  <2>4. QED
    BY <1>6, <2>1, <2>2, <2>3 DEF Sound
<1>8. Standing(next) /\ Extends(run, next)
  BY <1>5, ExtendsItself DEF Standing
<1>9. ASSUME s \notin gone PROVE SoFar(next)
  <2>1. Recorded(next)
    BY <1>5 DEF Recorded
  <2>2. \A n : InTwoPhases(run, n) => InTwoPhases(next, n)
    BY <1>5 DEF InTwoPhases
  <2>3. Covers(next)
    BY <1>5, <1>9, <2>2 DEF Covers, MayBegin
  <2>4. QED
    BY <1>5, <2>1, <2>3 DEF SoFar
<1>10. Further(run, next)
  BY <1>3, <1>5 DEF Further, Rank, IsNext
<1>11. Reached(s, run, next, gone, missed)
  BY <1>4, <1>5, <1>7, <1>8, <1>9, <1>10 DEF Reached
<1>12. Await(s, next, rest, Request("aare"), save)
  BY <1>0, <1>1 DEF BeginPhase, InPhase
<1>13. Request("aare") = Due(next)
  BY <1>5 DEF Due
<1>14. QED
  BY <1>5, <1>11, <1>12, <1>13, OutcomeOf DEF Labels, NoSave, PhaseLabels

\* What phase 2 asks for, given what a run has recorded.
LEMMA PhaseTwoOf ==
  ASSUME NEW run \in ScanRuns
  PROVE  /\ Near(run.results, Len(run.results)) = GeneratePhase2Probes(run.results)
         /\ GeneratePhase2Probes(run.results) \in Seq(ScanProbes)
<1>1. PICK results : results = run.results
  OBVIOUS
<1>2. results \in Seq(ScanResults)
  BY <1>1 DEF ScanRuns
<1>3. SubSeq(results, 1, Len(results)) = results
  BY <1>2
<1>4. \A i \in 1..Len(results) : results[i].probe.c \in 0..MaxC
  <2>1. \A i \in 1..Len(results) : results[i] \in ScanResults
    BY <1>2
  <2>2. \A r \in ScanResults : r.probe.c \in 0..MaxC
    BY DEF ScanResults, ScanProbes
  <2>3. QED
    BY <2>1, <2>2
<1>5. Len(results) \in Nat
  BY <1>2
<1>6. GeneratePhase2Probes(results) \in Seq(ScanProbes)
  BY <1>4, <1>5, PhaseTwoProbes
<1>7. QED
  BY <1>1, <1>3, <1>6 DEF Near

\* runBruteForceScan behind a phase.
LEMMA GoesOnAfterPhase ==
  ASSUME NEW s, NEW run \in ScanRuns, NEW rest, NEW gone, NEW missed,
         Sound(run, missed), run.pc \notin Over,
         NEW save \in PhaseLabels,
         s \notin gone => ~ disconnected /\ PhaseWhole(run),
         AfterPhase(s, run, rest, save)
  PROVE  Outcome(s, run, rest, gone, missed)
<1>0. run.phase \in {1, 2} /\ run.loaded \in Nat /\ Len(run.results) \in Nat /\ run.loaded <= Len(run.results)
      /\ run.asked \in Nat
  BY DEF ScanRuns, Sound, InPlace
<1>1. CASE run.phase = 2 /\ FinishScan(s, run, rest)
  <2>1. s \notin gone => Whole(run)
    BY <1>1 DEF PhaseWhole, Whole
  <2>2. QED
    BY <1>1, <2>1, Finishes
<1>2. CASE run.phase = 1 /\ disconnected
           /\ Await(s, [run EXCEPT !.pc = "done"], rest, NoRequest, "phase1-interrupted")
  <2>1. PICK next : next = [run EXCEPT !.pc = "done"]
    OBVIOUS
  <2>2. next = Run("done", run.phase, run.probes, run.at, run.results, run.loaded, run.failures, run.asked)
    BY <2>1, WithPc
  <2>3. s \in gone
    BY <1>2
  <2>4. Reached(s, run, next, gone, missed) /\ next.pc = "done"
    <3>1. MayReach(s, run, "done", gone)
      BY <2>3 DEF MayReach
    <3>2. QED
      BY <1>0, <2>2, <3>1, PcReached
  <2>5. NoRequest = Due(next)
    BY <2>4 DEF Due
  <2>6. QED
    BY <1>2, <2>1, <2>4, <2>5, OutcomeOf DEF Labels
<1>3. CASE run.phase = 1 /\ ~ disconnected
           /\ \E probes \in {Filtered(GeneratePhase2Probes(run.results), run.results)} :
                \/ probes = <<>> /\ FinishScan(s, run, rest)
                \/ probes # <<>> /\ BeginPhase(s, run, rest, 2, probes, save)
  <2>1. PICK list, results, probes :
            /\ list = GeneratePhase2Probes(run.results) /\ results = run.results
            /\ probes = Filtered(list, results)
            /\ \/ probes = <<>> /\ FinishScan(s, run, rest)
               \/ probes # <<>> /\ BeginPhase(s, run, rest, 2, probes, save)
    BY <1>3
  <2>2. list \in Seq(ScanProbes) /\ list = Near(results, Len(results))
    BY <2>1, PhaseTwoOf
  <2>3. probes \in Seq(ScanProbes)
    BY <2>1, <2>2, FilteredLeaves
  <2>4. Covered(list, results, probes) /\ (probes = <<>> => ~ Lacks(list, results))
    BY <2>1, <2>2, NothingLeft
  <2>5. Len(run.results) \in run.loaded..Len(run.results)
    BY <1>0
  <2>6. CASE probes = <<>> /\ FinishScan(s, run, rest)
    <3>1. s \notin gone => Whole(run)
      BY <1>3, <2>1, <2>2, <2>4, <2>5, <2>6 DEF PhaseWhole, Whole
    <3>2. QED
      BY <2>6, <3>1, Finishes
  <2>7. CASE probes # <<>> /\ BeginPhase(s, run, rest, 2, probes, save)
    <3>1. s \notin gone => MayBegin(run, 2, probes)
      BY <1>3, <2>1, <2>2, <2>4, <2>5 DEF PhaseWhole, MayBegin
    <3>2. IsNext(run, 2)
      BY <1>3 DEF IsNext
    <3>3. QED
      BY <2>3, <2>7, <3>1, <3>2, Begins
  <2>8. QED
    BY <2>1, <2>6, <2>7
<1>4. QED
  BY <1>1, <1>2, <1>3 DEF AfterPhase

\* runScanPhase behind its loop.
LEMMA EndsPhase ==
  ASSUME NEW s, NEW run \in ScanRuns, NEW rest, NEW gone, NEW missed,
         Sound(run, missed), run.pc \in {"aare", "delay", "release"},
         s \notin gone => /\ ~ disconnected
                          /\ Recorded(run) /\ Covers(run) /\ run.at > Len(run.probes),
         EndPhase(s, run, rest)
  PROVE  Outcome(s, run, rest, gone, missed)
<1>0. run.pc \notin Over /\ Rank("lastRelease") > Rank(run.pc) /\ run.asked \in Nat
  BY DEF Over, Rank, ScanRuns
<1>1. PICK label \in PhaseLabels :
        \/ disconnected /\ AfterPhase(s, run, rest, label)
        \/ ~ disconnected /\ Await(s, [run EXCEPT !.pc = "lastRelease"], rest, NoRequest, label)
  BY DEF EndPhase, PhaseLabels
<1>2. CASE disconnected /\ AfterPhase(s, run, rest, label)
  BY <1>0, <1>2, GoesOnAfterPhase
<1>3. CASE ~ disconnected /\ Await(s, [run EXCEPT !.pc = "lastRelease"], rest, NoRequest, label)
  <2>1. PICK next : next = [run EXCEPT !.pc = "lastRelease"]
    OBVIOUS
  <2>2. next = Run("lastRelease", run.phase, run.probes, run.at, run.results, run.loaded, run.failures, run.asked)
    BY <2>1, WithPc
  <2>3. Reached(s, run, next, gone, missed) /\ next.pc = "lastRelease"
    <3>1. MayReach(s, run, "lastRelease", gone)
      BY <1>0 DEF MayReach
    <3>2. QED
      BY <1>0, <2>2, <3>1, PcReached
  <2>4. NoRequest = Due(next)
    BY <2>3 DEF Due
  <2>5. QED
    BY <1>3, <2>1, <2>3, <2>4, OutcomeOf DEF Labels, PhaseLabels, NoSave
<1>4. QED
  BY <1>1, <1>2, <1>3

\* A probe is asked for.
LEMMA Asks ==
  ASSUME NEW s, NEW run \in ScanRuns, NEW rest, NEW gone, NEW missed,
         Sound(run, missed), run.pc \in {"aare", "delay"}, run.at <= Len(run.probes),
         s \notin gone => Recorded(run) /\ Covers(run),
         Ask(s, run, rest)
  PROVE  Outcome(s, run, rest, gone, missed)
<1>0. run.pc \notin Over /\ Rank("get") > Rank(run.pc) /\ run.asked \in Nat
  BY DEF Over, Rank, ScanRuns
<1>1. PICK next : next = [run EXCEPT !.pc = "get"]
  OBVIOUS
<1>2. next = Run("get", run.phase, run.probes, run.at, run.results, run.loaded, run.failures, run.asked)
  BY <1>1, WithPc
<1>3. Reached(s, run, next, gone, missed) /\ next.pc = "get"
  <2>1. MayReach(s, run, "get", gone)
    BY <1>0 DEF MayReach
  <2>2. QED
    BY <1>0, <1>2, <2>1, PcReached
<1>4. next.probes = run.probes /\ next.at = run.at
  BY <1>2, RunParts
<1>5. [tag |-> "get", probe |-> run.probes[run.at]] = Due(next)
  BY <1>3, <1>4 DEF Due
<1>6. Await(s, next, rest, [tag |-> "get", probe |-> run.probes[run.at]], NoSave)
  BY <1>1 DEF Ask
<1>7. QED
  BY <1>3, <1>5, <1>6, OutcomeOf DEF Labels, NoSave

\* The run that has skipped the probes before next.
Past(run, next) == [run EXCEPT !.results = @ \o Skipped(run, next), !.at = next]

\* The fields of a run that has skipped the probes up to next.
LEMMA PastParts ==
  ASSUME NEW run \in ScanRuns, NEW next
  PROVE  Past(run, next) = Run(run.pc, run.phase, run.probes, next, run.results \o Skipped(run, next),
                               run.loaded, run.failures, run.asked)
<1>1. PICK results : results = run.results \o Skipped(run, next)
  OBVIOUS
<1>2. [run EXCEPT !.results = results, !.at = next] =
            Run(run.pc, run.phase, run.probes, next, results, run.loaded, run.failures, run.asked)
  BY WithSkipped
<1>3. Past(run, next) = [run EXCEPT !.results = results, !.at = next]
  BY <1>1 DEF Past
<1>4. QED
  BY <1>1, <1>2, <1>3

\* more is what is recorded for the probes of a run before next.
AreSkipped(more, run, next) ==
    /\ more \in Seq(ScanResults)
    /\ Len(more) = next - run.at
    /\ \A k \in 1..Len(more) : /\ more[k].result = "skipped" /\ more[k].phase = run.phase
                               /\ more[k].of = more[k].probe
                               /\ more[k].probe = run.probes[run.at + k - 1]

\* Skipped lists one result for each probe that is passed over.
LEMMA SkippedAre ==
  ASSUME NEW run \in ScanRuns, NEW next \in Nat, next >= run.at, next <= Len(run.probes) + 1, run.at > 0
  PROVE  AreSkipped(Skipped(run, next), run, next)
<1>1. PICK probes, at, phase, n : /\ probes = run.probes /\ at = run.at /\ phase = run.phase
                                  /\ n = next - run.at
  OBVIOUS
<1>2. probes \in Seq(ScanProbes) /\ at \in Nat /\ at > 0 /\ phase \in {1, 2} /\ n \in Nat /\ Len(probes) \in Nat
  BY <1>1 DEF ScanRuns
<1>3. \A i \in 1..n : at + i - 1 \in 1..Len(probes)
  BY <1>1, <1>2
<1>4. \A i \in 1..n : probes[at + i - 1] \in ScanProbes
  <2>1. \A j \in 1..Len(probes) : probes[j] \in ScanProbes
    BY <1>2
  <2>2. QED
    BY <1>3, <2>1
<1>5. PICK more : more = [i \in 1..n |-> [probe |-> probes[at + i - 1], result |-> "skipped", phase |-> phase,
                                         of |-> probes[at + i - 1], data |-> FALSE]]
  OBVIOUS
<1>6. \A i \in 1..n : more[i] \in ScanResults
  BY <1>2, <1>4, <1>5 DEF ScanResults
<1>7. more \in [1..n -> ScanResults]
  BY <1>5, <1>6
<1>8. more \in Seq(ScanResults) /\ Len(more) = n
  <2>1. more \in Seq(ScanResults)
    BY <1>2, <1>7, SeqDef, Zenon
  <2>2. Len(more) = n
    BY <1>2, <1>5
  <2>3. QED
    BY <2>1, <2>2
<1>9. Skipped(run, next) = more
  BY <1>1, <1>5 DEF Skipped
<1>10. \A k \in 1..n : /\ more[k].result = "skipped" /\ more[k].phase = phase
                       /\ more[k].of = more[k].probe
                       /\ more[k].probe = probes[at + k - 1]
  BY <1>5
<1>11. AreSkipped(more, run, next)
  BY <1>1, <1>8, <1>10 DEF AreSkipped
<1>12. QED
  BY <1>9, <1>11

\* A run past some exhausted probes is as sound as it was, and as complete.
LEMMA PastSound ==
  ASSUME NEW run \in ScanRuns, NEW missed, Sound(run, missed),
         NEW next \in Nat, next >= run.at, next <= Len(run.probes) + 1,
         \A i \in run.at..(next - 1) : Exhausted(run, run.probes[i]),
         NEW past, past = Past(run, next)
  PROVE  /\ past \in ScanRuns /\ Sound(past, missed) /\ Extends(run, past)
         /\ past.pc = run.pc /\ past.phase = run.phase /\ past.at = next /\ past.probes = run.probes
         /\ past.asked = run.asked
         /\ Recorded(run) => Recorded(past)
         /\ Covers(run) => Covers(past)
<1>1. PICK old, new, more : old = run.results /\ more = Skipped(run, next) /\ new = old \o more
  OBVIOUS
<1>2. /\ run.phase \in {1, 2} /\ run.probes \in Seq(ScanProbes) /\ run.at \in Nat
      /\ old \in Seq(ScanResults) /\ run.loaded \in Nat /\ run.failures \in [Groups -> Nat]
      /\ run.asked \in Nat /\ Len(run.probes) \in Nat
      /\ run.pc \in {"idle", "armed", "aare", "get", "delay", "release", "lastRelease", "done", "over", "killed"}
  BY <1>1 DEF ScanRuns
<1>3. run.at > 0 /\ run.loaded <= Len(old) /\ Counted(run) /\ Justified(run) /\ (missed = 0 => Honest(run))
  BY <1>1 DEF Sound, InPlace
<1>4. AreSkipped(more, run, next)
  BY <1>1, <1>3, SkippedAre
<1>5. /\ more \in Seq(ScanResults) /\ Len(more) = next - run.at
      /\ \A k \in 1..Len(more) : /\ more[k].result = "skipped" /\ more[k].phase = run.phase
                                 /\ more[k].of = more[k].probe
                                 /\ more[k].probe = run.probes[run.at + k - 1]
  BY <1>4 DEF AreSkipped
<1>6. Joined(new, old, more)
  BY <1>1, <1>2, <1>5, Behind
<1>7. past = Run(run.pc, run.phase, run.probes, next, new, run.loaded, run.failures, run.asked)
  BY <1>1, PastParts
<1>8. past \in ScanRuns
  <2>1. new \in Seq(ScanResults)
    BY <1>6 DEF Joined
  <2>2. QED
    BY <1>2, <1>7, <2>1 DEF Run, ScanRuns
<1>9. /\ past.pc = run.pc /\ past.phase = run.phase /\ past.probes = run.probes /\ past.at = next
      /\ past.results = run.results \o more /\ past.loaded = run.loaded /\ past.failures = run.failures
      /\ past.asked = run.asked /\ past.results = new
  BY <1>1, <1>7 DEF Run
<1>10. Extends(run, past)
  BY <1>5, <1>9 DEF Extends
<1>11. InPlace(past)
  BY <1>2, <1>3, <1>6, <1>9 DEF InPlace, Joined
<1>12. Counted(past) /\ Justified(past)
  <2>1. \A k \in 1..Len(more) : /\ more[k].result = "skipped" /\ more[k].phase = run.phase
                                /\ run.failures[Group(more[k].probe)] >= GroupExhaustThreshold
    <3> SUFFICES ASSUME NEW k \in 1..Len(more)
                 PROVE  run.failures[Group(more[k].probe)] >= GroupExhaustThreshold
      BY <1>5
    <3>1. run.at + k - 1 \in run.at..(next - 1)
      BY <1>2, <1>5
    <3>2. PICK i \in run.at..(next - 1) : more[k].probe = run.probes[i]
      BY <1>5, <3>1
    <3>3. Exhausted(run, run.probes[i])
      BY <3>2
    <3>4. QED
      BY <3>2, <3>3 DEF Exhausted
  <2>2. run.loaded <= Len(run.results)
    BY <1>1, <1>3
  <2>3. QED
    BY <1>3, <1>5, <1>8, <1>9, <2>1, <2>2, SkippedSound
<1>13. ASSUME missed = 0 PROVE Honest(past)
  <2> SUFFICES ASSUME NEW i \in (past.loaded + 1)..Len(new) PROVE new[i].of = new[i].probe
    BY <1>9 DEF Honest
  <2>1. CASE i \in 1..Len(old)
    <3>1. i \in (run.loaded + 1)..Len(run.results) /\ new[i] = old[i]
      BY <1>1, <1>2, <1>6, <1>9, <2>1 DEF Joined
    <3>2. QED
      BY <1>1, <1>3, <1>13, <3>1 DEF Honest
  <2>2. CASE i \notin 1..Len(old)
    <3>1. i \in 1..Len(new)
      BY <1>2, <1>9
    <3>2. PICK k \in 1..Len(more) : i = Len(old) + k
      BY <1>6, <2>2, <3>1 DEF Joined
    <3>3. new[i] = more[k]
      BY <1>6, <3>2 DEF Joined
    <3>4. QED
      BY <1>5, <3>3
  <2>3. QED
    BY <2>1, <2>2
<1>14. ASSUME Recorded(run) PROVE Recorded(past)
  <2> SUFFICES ASSUME NEW i \in 1..(next - 1) PROVE run.probes[i] \in Probed(new)
    BY <1>9 DEF Recorded
  <2>1. CASE i < run.at
    <3>1. i \in 1..(run.at - 1)
      BY <1>2, <2>1
    <3>2. run.probes[i] \in Probed(old)
      BY <1>1, <1>14, <3>1 DEF Recorded
    <3>3. QED
      BY <1>6, <3>2 DEF Joined
  <2>2. CASE i >= run.at
    <3>1. PICK k \in 1..Len(more) : i = run.at + k - 1
      <4>1. run.at \in Nat /\ Len(more) = next - run.at
        BY <1>2, <1>5
      <4>2. i - run.at + 1 \in 1..Len(more) /\ i = run.at + (i - run.at + 1) - 1
        BY <2>2, <4>1
      <4>3. QED
        BY <4>2
    <3>2. more[k].probe = run.probes[i]
      BY <1>5, <3>1
    <3>3. more[k].probe \in Probed(new)
      BY <1>6 DEF Joined
    <3>4. QED
      BY <3>2, <3>3
  <2>3. QED
    BY <1>2, <2>1, <2>2
<1>15. ASSUME Covers(run) PROVE Covers(past)
  <2>1. run.loaded <= Len(run.results)
    BY <1>1, <1>3
  <2>2. QED
    BY <1>5, <1>8, <1>9, <1>15, <2>1, CoversMore
<1>16. QED
  BY <1>8, <1>9, <1>10, <1>11, <1>12, <1>13, <1>14, <1>15 DEF Sound

\* The loop of runScanPhase from its head.
LEMMA GoesOn ==
  ASSUME NEW s, NEW run \in ScanRuns, NEW rest, NEW gone, NEW missed,
         Sound(run, missed), run.pc \in {"aare", "delay"}, run.pc = "aare" => run.asked = 0,
         s \notin gone => ~ disconnected /\ Recorded(run) /\ Covers(run),
         GoOn(s, run, rest)
  PROVE  Outcome(s, run, rest, gone, missed)
<1>0. /\ run.at \in Nat /\ run.at > 0 /\ run.at <= Len(run.probes) + 1 /\ Len(run.probes) \in Nat
      /\ run.probes \in Seq(ScanProbes) /\ run.asked \in Nat
      /\ MaxProbesPerSession \in Nat /\ MaxProbesPerSession > 0
  BY ScanAssumption DEF ScanRuns, Sound, InPlace
<1>1. CASE disconnected /\ EndPhase(s, run, rest)
  <2>1. s \in gone
    BY <1>1
  <2>2. run.pc \in {"aare", "delay", "release"}
    OBVIOUS
  <2>3. QED
    BY <1>1, <2>1, <2>2, EndsPhase
<1>2. CASE ~ disconnected
           /\ \E next \in {NextProbe(run)} :
              \E past \in {Past(run, next)} :
                \/ next > Len(run.probes) /\ EndPhase(s, past, rest)
                \/ /\ next <= Len(run.probes) /\ run.asked >= MaxProbesPerSession
                   /\ Await(s, [past EXCEPT !.pc = "release"], rest, NoRequest, NoSave)
                \/ /\ next <= Len(run.probes) /\ run.asked < MaxProbesPerSession
                   /\ Ask(s, past, rest)
  <2>1. PICK next, past :
            /\ next = NextProbe(run) /\ past = Past(run, next)
            /\ \/ next > Len(run.probes) /\ EndPhase(s, past, rest)
               \/ /\ next <= Len(run.probes) /\ run.asked >= MaxProbesPerSession
                  /\ Await(s, [past EXCEPT !.pc = "release"], rest, NoRequest, NoSave)
               \/ /\ next <= Len(run.probes) /\ run.asked < MaxProbesPerSession
                  /\ Ask(s, past, rest)
    BY <1>2
  <2>2. /\ next \in Nat /\ next <= Len(run.probes) + 1 /\ next >= run.at
        /\ \A i \in run.at..(next - 1) : Exhausted(run, run.probes[i])
    <3>1. /\ next \in Nat /\ (run.at <= Len(run.probes) => next >= run.at)
          /\ next <= Len(run.probes) + 1
          /\ (next <= Len(run.probes) => next >= run.at /\ ~ Exhausted(run, run.probes[next]))
          /\ \A i \in run.at..(next - 1) : Exhausted(run, run.probes[i])
      BY <1>0, <2>1, NextProbeIs
    <3>2. QED
      BY <1>0, <3>1
  <2>3. /\ past \in ScanRuns /\ Sound(past, missed) /\ Extends(run, past)
        /\ past.pc = run.pc /\ past.phase = run.phase /\ past.at = next /\ past.probes = run.probes
        /\ past.asked = run.asked
        /\ Recorded(run) => Recorded(past)
        /\ Covers(run) => Covers(past)
    BY <2>1, <2>2, PastSound
  <2>4. s \notin gone => ~ disconnected /\ Recorded(past) /\ Covers(past)
    BY <2>3
  <2>5. Outcome(s, past, rest, gone, missed)
    <3>1. CASE next > Len(run.probes) /\ EndPhase(s, past, rest)
      <4>1. past.pc \in {"aare", "delay", "release"} /\ past.at > Len(past.probes)
        BY <2>3, <3>1
      <4>2. QED
        BY <2>3, <2>4, <3>1, <4>1, EndsPhase
    <3>2. CASE /\ next <= Len(run.probes) /\ run.asked >= MaxProbesPerSession
               /\ Await(s, [past EXCEPT !.pc = "release"], rest, NoRequest, NoSave)
      <4>1. past.pc = "delay"
        BY <1>0, <2>3, <3>2
      <4>2. PICK last : last = [past EXCEPT !.pc = "release"]
        OBVIOUS
      <4>3. last = Run("release", past.phase, past.probes, past.at, past.results, past.loaded, past.failures, past.asked)
        BY <2>3, <4>2, WithPc
      <4>4. MayReach(s, past, "release", gone)
        BY <2>3, <2>4, <3>2, <4>1 DEF MayReach, Rank
      <4>5. past.asked \in Nat /\ past.pc \notin Over
        BY <1>0, <2>3, <4>1 DEF Over
      <4>6. Reached(s, past, last, gone, missed) /\ last.pc = "release"
        BY <2>3, <4>3, <4>4, <4>5, PcReached
      <4>7. NoRequest = Due(last)
        BY <4>6 DEF Due
      <4>8. QED
        BY <3>2, <4>2, <4>6, <4>7, OutcomeOf DEF Labels, NoSave
    <3>3. CASE /\ next <= Len(run.probes) /\ run.asked < MaxProbesPerSession
               /\ Ask(s, past, rest)
      <4>1. past.pc \in {"aare", "delay"} /\ past.at <= Len(past.probes)
        BY <2>3, <3>3
      <4>2. QED
        BY <2>3, <2>4, <3>3, <4>1, Asks
    <3>4. QED
      BY <2>1, <3>1, <3>2, <3>3
  <2>6. QED
    BY <2>2, <2>3, <2>5, OutcomeFromPast
<1>3. QED
  BY <1>1, <1>2 DEF GoOn, Past

\* runBruteForceScan from its start.
LEMMA BeginsScan ==
  ASSUME NEW s, NEW run \in ScanRuns, NEW rest, NEW gone, NEW missed,
         Sound(run, missed), run.pc = "armed", run.phase = 1, run.at = 1,
         Len(run.results) = run.loaded, s \notin gone => ~ disconnected,
         BeginScan(s, run, rest)
  PROVE  Outcome(s, run, rest, gone, missed)
<1>0. run.pc \notin Over /\ NoSave \in PhaseLabels /\ run.loaded \in Nat
  BY DEF Over, PhaseLabels, ScanRuns
<1>1. PICK probes : /\ probes = Filtered(Phase1Probes, run.results)
                    /\ \/ probes = <<>> /\ AfterPhase(s, run, rest, NoSave)
                       \/ probes # <<>> /\ BeginPhase(s, run, rest, 1, probes, NoSave)
  BY DEF BeginScan
<1>2. probes \in Seq(ScanProbes)
  BY <1>1, PhaseOneProbes, FilteredLeaves
<1>3. Covered(Phase1Probes, run.results, probes) /\ (probes = <<>> => ~ Lacks(Phase1Probes, run.results))
  BY <1>1, PhaseOneProbes, NothingLeft
<1>4. InTwoPhases(run, Len(run.results))
  BY <1>0 DEF InTwoPhases
<1>5. CASE probes = <<>> /\ AfterPhase(s, run, rest, NoSave)
  <2>1. PhaseWhole(run)
    BY <1>3, <1>4, <1>5 DEF PhaseWhole
  <2>2. QED
    BY <1>0, <1>5, <2>1, GoesOnAfterPhase
<1>6. CASE probes # <<>> /\ BeginPhase(s, run, rest, 1, probes, NoSave)
  <2>1. MayBegin(run, 1, probes) /\ IsNext(run, 1)
    BY <1>3, <1>4 DEF MayBegin, IsNext
  <2>2. QED
    BY <1>0, <1>2, <1>6, <2>1, Begins
<1>7. QED
  BY <1>1, <1>5, <1>6

\* The run that has recorded r.
With(run, r, failures) ==
    [run EXCEPT !.results = Append(@, r), !.failures = failures, !.asked = @ + 1, !.at = @ + 1, !.pc = "delay"]

Resulted(run, results, failures, asked, at) ==
    [run EXCEPT !.results = results, !.failures = failures, !.asked = asked, !.at = at, !.pc = "delay"]

\* The fields of a run with a result more.
LEMMA ResultedParts ==
  ASSUME NEW run \in ScanRuns, NEW results, NEW failures, NEW asked, NEW at
  PROVE  Resulted(run, results, failures, asked, at) =
            Run("delay", run.phase, run.probes, at, results, run.loaded, failures, asked)
BY WithResult DEF Resulted

\* The same with the counters Record computes.
LEMMA WithParts ==
  ASSUME NEW run \in ScanRuns, NEW r, NEW failures
  PROVE  With(run, r, failures) = Run("delay", run.phase, run.probes, run.at + 1, Append(run.results, r),
                                      run.loaded, failures, run.asked + 1)
<1>1. With(run, r, failures) = Resulted(run, Append(run.results, r), failures, run.asked + 1, run.at + 1)
  BY DEF With, Resulted
<1>2. QED
  BY <1>1, ResultedParts

\* A probe has its result.
LEMMA Records ==
  ASSUME NEW s, NEW run \in ScanRuns, NEW rest, NEW gone, NEW missed,
         Sound(run, missed), run.pc = "get", run.at <= Len(run.probes),
         NEW result \in {"success", "undefined", "denied", "timeout"},
         NEW of \in ScanProbes \cup {NoProbe},
         missed = 0 => of = run.probes[run.at],
         s \notin gone => Recorded(run) /\ Covers(run),
         Record(s, run, rest, result, of)
  PROVE  Outcome(s, run, rest, gone, missed)
<1>1. PICK p, r, old, failures, save :
        /\ p = run.probes[run.at] /\ old = run.results
        /\ r = [probe |-> p, result |-> result, phase |-> run.phase, of |-> of,
                data |-> result = "success"]
        /\ failures = Failures(run, p, result)
        /\ save = IF run.at % SaveEvery = 0 THEN "progress" ELSE NoSave
  OBVIOUS
<1>2. /\ run.phase \in {1, 2} /\ run.probes \in Seq(ScanProbes) /\ run.at \in Nat
      /\ old \in Seq(ScanResults) /\ run.loaded \in Nat /\ run.failures \in [Groups -> Nat]
      /\ run.asked \in Nat /\ Len(run.probes) \in Nat
  BY <1>1 DEF ScanRuns
<1>3. /\ run.at > 0 /\ run.loaded <= Len(old) /\ Counted(run) /\ Justified(run) /\ (missed = 0 => Honest(run))
  BY <1>1 DEF Sound, InPlace
<1>4. p \in ScanProbes
  <2>1. run.at \in 1..Len(run.probes)
    BY <1>2, <1>3
  <2>2. QED
    BY <1>1, <1>2, <2>1
<1>5. r \in ScanResults /\ r.probe = p /\ r.result = result /\ r.phase = run.phase /\ r.of = of
  BY <1>1, <1>2, <1>4 DEF ScanResults
<1>6. failures \in [Groups -> Nat]
      /\ failures = [run.failures EXCEPT ![Group(r.probe)] = IF r.result = "undefined" THEN @ + 1 ELSE 0]
  <2>1. Group(p) \in Groups
    BY <1>4, GroupOfProbe
  <2>2. failures = [run.failures EXCEPT ![Group(p)] = IF result = "undefined" THEN @ + 1 ELSE 0]
    BY <1>1 DEF Failures
  <2>3. failures \in [Groups -> Nat]
    BY <1>2, <2>1, <2>2
  <2>4. QED
    BY <1>5, <2>2, <2>3
<1>7. PICK next : next = With(run, r, failures)
  OBVIOUS
<1>8. next = Run("delay", run.phase, run.probes, run.at + 1, Append(old, r), run.loaded, failures, run.asked + 1)
  BY <1>1, <1>7, WithParts
<1>9. PICK new : new = Append(old, r)
  OBVIOUS
<1>10. new \in Seq(ScanResults) /\ Len(new) = Len(old) + 1 /\ new[Len(old) + 1] = r
       /\ \A i \in 1..Len(old) : new[i] = old[i]
  BY <1>2, <1>5, <1>9
<1>11. next \in ScanRuns
  BY <1>2, <1>6, <1>8, <1>9, <1>10 DEF Run, ScanRuns
<1>12. /\ next.pc = "delay" /\ next.phase = run.phase /\ next.probes = run.probes /\ next.at = run.at + 1
       /\ next.results = new /\ next.loaded = run.loaded /\ next.failures = failures
  BY <1>8, <1>9 DEF Run
<1>13. PICK more : more = <<r>>
  OBVIOUS
<1>14. more \in Seq(ScanResults) /\ Len(more) = 1 /\ more[1] = r /\ new = old \o more
  BY <1>2, <1>5, <1>9, <1>13
<1>15. Joined(new, old, more)
  BY <1>2, <1>14, Behind
<1>16. Extends(run, next)
  BY <1>1, <1>12, <1>14 DEF Extends
<1>17. InPlace(next)
  BY <1>2, <1>3, <1>10, <1>12 DEF InPlace
<1>18. Counted(next) /\ Justified(next)
  <2>1. /\ next.results = Append(run.results, r) /\ r.result # "skipped" /\ run.loaded <= Len(run.results)
        /\ next.failures = [run.failures EXCEPT ![Group(r.probe)] = IF r.result = "undefined" THEN @ + 1 ELSE 0]
    BY <1>1, <1>3, <1>5, <1>6, <1>9, <1>12
  <2>2. QED
    BY <1>3, <1>5, <1>11, <1>12, <2>1, RecordedSound
<1>19. ASSUME missed = 0 PROVE Honest(next)
  <2> SUFFICES ASSUME NEW i \in (run.loaded + 1)..Len(new) PROVE new[i].of = new[i].probe
    BY <1>12 DEF Honest
  <2>1. CASE i \in 1..Len(old)
    <3>1. i \in (run.loaded + 1)..Len(run.results) /\ new[i] = old[i]
      BY <1>1, <1>2, <1>10, <2>1
    <3>2. QED
      BY <1>1, <1>3, <1>19, <3>1 DEF Honest
  <2>2. CASE i = Len(old) + 1
    BY <1>1, <1>5, <1>10, <1>19, <2>2
  <2>3. QED
    BY <1>2, <1>10, <2>1, <2>2
<1>20. ASSUME s \notin gone PROVE SoFar(next)
  <2>1. Recorded(next)
    <3> SUFFICES ASSUME NEW i \in 1..run.at PROVE run.probes[i] \in Probed(new)
      BY <1>2, <1>12 DEF Recorded
    <3>1. CASE i = run.at
      <4>1. more[1].probe \in Probed(new)
        BY <1>14, <1>15 DEF Joined
      <4>2. QED
        BY <1>1, <1>5, <1>14, <3>1, <4>1
    <3>2. CASE i # run.at
      <4>1. i \in 1..(run.at - 1)
        BY <1>2, <3>2
      <4>2. run.probes[i] \in Probed(old)
        BY <1>1, <1>20, <4>1 DEF Recorded
      <4>3. QED
        BY <1>15, <4>2 DEF Joined
    <3>3. QED
      BY <3>1, <3>2
  <2>2. Covers(next)
    <3>1. \A k \in 1..Len(more) : more[k].phase = run.phase
      BY <1>5, <1>14
    <3>2. next.results = run.results \o more /\ run.loaded <= Len(run.results)
      BY <1>1, <1>3, <1>12, <1>14
    <3>3. QED
      BY <1>11, <1>12, <1>14, <1>20, <3>1, <3>2, CoversMore
  <2>3. QED
    BY <1>12, <2>1, <2>2 DEF SoFar
<1>21. Further(run, next)
  BY <1>2, <1>12 DEF Further
<1>22. Standing(next)
  BY <1>12 DEF Standing
<1>23. Reached(s, run, next, gone, missed)
  BY <1>11, <1>12, <1>16, <1>17, <1>18, <1>19, <1>20, <1>21, <1>22 DEF Reached, Sound
<1>24. Await(s, next, rest, NoRequest, save)
  BY <1>1, <1>7 DEF Record, With
<1>25. NoRequest = Due(next) /\ save \in Labels /\ save # "complete"
  BY <1>1, <1>12 DEF Due, Labels, NoSave
<1>26. QED
  BY <1>12, <1>23, <1>24, <1>25, OutcomeOf

\* A session is open.
LEMMA Opens ==
  ASSUME NEW s, NEW run \in ScanRuns, NEW rest, NEW gone, NEW missed,
         Sound(run, missed), run.pc = "aare", Standing(run),
         s \notin gone => ~ disconnected /\ Recorded(run) /\ Covers(run),
         Opened(s, run, rest)
  PROVE  Outcome(s, run, rest, gone, missed)
<1>0. run.pc \in {"aare", "delay"} /\ run.at \in Nat
  BY DEF ScanRuns
<1>1. CASE run.asked = 0 /\ GoOn(s, run, rest)
  BY <1>0, <1>1, GoesOn
<1>2. CASE run.asked # 0 /\ Ask(s, [run EXCEPT !.asked = 0], rest)
  <2>1. PICK past : past = [run EXCEPT !.asked = 0]
    OBVIOUS
  <2>2. past = Run(run.pc, run.phase, run.probes, run.at, run.results, run.loaded, run.failures, 0)
    BY <2>1, WithAsked
  <2>3. /\ past.pc = run.pc /\ past.phase = run.phase /\ past.probes = run.probes /\ past.at = run.at
        /\ past.results = run.results /\ past.loaded = run.loaded /\ past.failures = run.failures
    BY <2>2 DEF Run
  <2>4. past \in ScanRuns
    BY <2>2 DEF Run, ScanRuns
  <2>5. /\ Sound(past, missed) /\ Extends(run, past)
        /\ Recorded(run) => Recorded(past)
        /\ Covers(run) => Covers(past)
    BY <2>3, <2>4, SoundAlike
  <2>6. past.pc \in {"aare", "delay"} /\ past.at <= Len(past.probes)
    BY <1>0, <1>2, <2>3 DEF Standing
  <2>7. Ask(s, past, rest)
    BY <1>2, <2>1
  <2>8. Outcome(s, past, rest, gone, missed)
    BY <2>4, <2>5, <2>6, <2>7, Asks
  <2>9. past.at >= run.at
    BY <1>0, <2>3
  <2>10. QED
    BY <2>3, <2>4, <2>5, <2>8, <2>9, OutcomeFromPast
<1>3. QED
  BY <1>1, <1>2 DEF Opened

\* A session is refused.
LEMMA OpensNot ==
  ASSUME NEW s, NEW run \in ScanRuns, NEW rest, NEW gone, NEW missed,
         Sound(run, missed), run.pc = "aare", s \in gone, NotOpened(s, run, rest)
  PROVE  Outcome(s, run, rest, gone, missed)
<1>0. run.pc \in {"aare", "delay", "release"} /\ run.pc \notin Over /\ NoSave \in PhaseLabels
  BY DEF Over, PhaseLabels
<1>1. CASE AfterPhase(s, run, rest, NoSave)
  BY <1>0, <1>1, GoesOnAfterPhase
<1>2. CASE EndPhase(s, run, rest)
  BY <1>0, <1>2, EndsPhase
<1>3. QED
  BY <1>1, <1>2 DEF NotOpened

\* A sleep is over.
LEMMA Wakes ==
  ASSUME NEW s, NEW run \in ScanRuns, NEW rest, NEW gone, NEW missed,
         Sound(run, missed), Standing(run),
         s \notin gone => ~ disconnected /\ SoFar(run),
         Woken(s, run, rest)
  PROVE  Outcome(s, run, rest, gone, missed) /\ run.pc \in {"delay", "release", "lastRelease"}
<1>1. CASE run.pc = "delay" /\ GoOn(s, run, rest)
  <2>1. s \notin gone => ~ disconnected /\ Recorded(run) /\ Covers(run)
    BY <1>1 DEF SoFar
  <2>2. run.pc \in {"aare", "delay"}
    BY <1>1
  <2>3. QED
    BY <1>1, <2>1, <2>2, GoesOn
<1>2. CASE run.pc = "lastRelease" /\ AfterPhase(s, run, rest, NoSave)
  <2>1. run.pc \notin Over /\ NoSave \in PhaseLabels
    BY <1>2 DEF Over, PhaseLabels
  <2>2. s \notin gone => PhaseWhole(run)
    BY <1>2, PhaseIsWhole DEF SoFar, Sound
  <2>3. QED
    BY <1>2, <2>1, <2>2, GoesOnAfterPhase
<1>3. CASE run.pc = "release" /\ disconnected /\ EndPhase(s, run, rest)
  <2>1. run.pc \in {"aare", "delay", "release"}
    BY <1>3
  <2>2. QED
    BY <1>3, <2>1, EndsPhase
<1>4. CASE /\ run.pc = "release" /\ ~ disconnected
           /\ Await(s, [run EXCEPT !.pc = "aare"], rest, Request("aare"), NoSave)
  <2>1. PICK next : next = [run EXCEPT !.pc = "aare"]
    OBVIOUS
  <2>2. next = Run("aare", run.phase, run.probes, run.at, run.results, run.loaded, run.failures, run.asked)
    BY <2>1, WithPc
  <2>3. run.asked \in Nat /\ run.pc \notin Over
    BY <1>4 DEF ScanRuns, Over
  <2>4. MayReach(s, run, "aare", gone)
    BY <1>4 DEF MayReach, Rank, SoFar, Standing
  <2>5. Reached(s, run, next, gone, missed) /\ next.pc = "aare"
    BY <2>2, <2>3, <2>4, PcReached
  <2>6. Request("aare") = Due(next)
    BY <2>5 DEF Due
  <2>7. QED
    BY <1>4, <2>1, <2>5, <2>6, OutcomeOf DEF Labels, NoSave
<1>5. QED
  BY <1>1, <1>2, <1>3, <1>4 DEF Woken

------------------------------------------------------------------------------
(* What such a step does to the connection, the process and the file.      *)

\* The entries of a list of results list it.
LEMMA EntriesListed ==
  ASSUME NEW results \in Seq(ScanResults), NEW loaded
  PROVE  /\ Entries(results) \in Seq(FileResults) /\ Len(Entries(results)) = Len(results)
         /\ Listed(Entries(results), results, loaded)
<1>1. PICK n, held : n = Len(results) /\ held = Entries(results)
  OBVIOUS
<1>2. n \in Nat /\ DOMAIN results = 1..n /\ \A i \in 1..n : results[i] \in ScanResults
  BY <1>1
<1>3. held = [i \in 1..n |-> Entry(results[i])]
  BY <1>1, <1>2 DEF Entries
<1>4. \A r \in ScanResults : Entry(r) \in FileResults
  BY DEF ScanResults, FileResults, Entry
<1>5. held \in [1..n -> FileResults]
  BY <1>2, <1>3, <1>4
<1>6. held \in Seq(FileResults) /\ Len(held) = n
  <2>1. held \in Seq(FileResults)
    BY <1>2, <1>5, SeqDef, Zenon
  <2>2. Len(held) = n
    BY <1>2, <1>3
  <2>3. QED
    BY <2>1, <2>2
<1>7. \A i \in 1..n : /\ held[i].probe = results[i].probe /\ held[i].result = results[i].result
                      /\ held[i].value = results[i].data
  BY <1>3 DEF Entry
<1>8. QED
  BY <1>1, <1>2, <1>3, <1>6, <1>7 DEF Listed, Lists

\* No results have no entries.
LEMMA NoEntries == Entries(<<>>) = <<>>
<1>1. <<>> \in Seq(ScanResults) /\ Len(<<>>) = 0
  OBVIOUS
<1>2. Entries(<<>>) \in Seq(FileResults) /\ Len(Entries(<<>>)) = 0
  BY <1>1, EntriesListed
<1>3. QED
  BY <1>2

\* What the file lists of a run's results it lists when the run goes on.
LEMMA ListedOfMore ==
  ASSUME NEW held \in Seq(FileResults), NEW run \in ScanRuns, NEW next, Extends(run, next),
         Listed(held, run.results, run.loaded)
  PROVE  Listed(held, next.results, next.loaded)
<1>1. PICK old, new, n : old = run.results /\ new = next.results /\ n = Len(held)
  OBVIOUS
<1>2. old \in Seq(ScanResults) /\ n \in Nat /\ DOMAIN held = 1..n
  BY <1>1 DEF ScanRuns
<1>3. PICK more \in Seq(ScanResults) : new = old \o more
  BY <1>1 DEF Extends
<1>4. Joined(new, old, more)
  BY <1>2, <1>3, Behind
<1>5. next.loaded = run.loaded
  BY DEF Extends
<1>6. /\ n <= Len(old)
      /\ \A i \in 1..n : /\ old[i].probe = held[i].probe /\ old[i].result = held[i].result
                         /\ i > run.loaded => held[i].value = old[i].data
  BY <1>1, <1>2 DEF Listed, Lists
<1>7. n <= Len(new) /\ \A i \in 1..n : new[i] = old[i]
  BY <1>2, <1>4, <1>6 DEF Joined
<1>8. QED
  BY <1>1, <1>2, <1>5, <1>6, <1>7 DEF Listed, Lists

\* A run that a step leaves alone.
LEMMA OtherRuns ==
  ASSUME NEW r, RunInv(r), scan'[r] = scan[r], inflight'[r] = inflight[r], late'[r] = late[r],
         r \notin cut' => r \notin cut, sock'[r] = "unused" => sock[r] = "unused"
  PROVE  RunInv(r)'
BY DEF RunInv, ScanHonest

\* The file lists what it lists, and the values stay of the results that no run loaded.
Keeping ==
    /\ Lists(file.results, file'.results)
    /\ \A i \in DOMAIN file.results : file.results[i].value => file'.results[i].value \/ Resumed(i)'

\* The file keeps what it holds, unless two runs of a process save over each other.
FileKept == OneRun => Keeping

\* A step that leaves the entries alone.
LEMMA SameKept ==
  ASSUME file.results \in Seq(FileResults), file'.results = file.results
  PROVE  FileKept
<1>1. PICK held \in Seq(FileResults) : held = file.results
  OBVIOUS
<1>2. Len(held) \in Nat /\ Lists(held, held)
  BY DEF Lists
<1>3. QED
  BY <1>1, <1>2 DEF FileKept, Keeping

\* A run saves its results, the first of which the file lists.
LEMMA SaveKeeps ==
  ASSUME NEW s \in Sockets, NEW next \in ScanRuns, file.results \in Seq(FileResults),
         Listed(file.results, next.results, next.loaded),
         file'.results = Entries(next.results), scan'[s] = next, s \in Runs'
  PROVE  Keeping
<1>1. PICK held \in Seq(FileResults), results \in Seq(ScanResults), entries \in Seq(FileResults),
           loaded \in Nat :
            /\ held = file.results /\ results = next.results /\ entries = Entries(next.results)
            /\ loaded = next.loaded
  <2>1. next.results \in Seq(ScanResults) /\ next.loaded \in Nat
    BY DEF ScanRuns
  <2>2. Entries(next.results) \in Seq(FileResults)
    BY <2>1, EntriesListed
  <2>3. QED
    BY <2>1, <2>2
<1>2. /\ Len(held) \in Nat /\ DOMAIN held = 1..Len(held) /\ Len(results) \in Nat
      /\ Len(held) <= Len(results)
  BY <1>1 DEF Listed, Lists
<1>a. \A i \in 1..Len(held) : /\ results[i].probe = held[i].probe
                              /\ results[i].result = held[i].result
                              /\ i > loaded => held[i].value = results[i].data
  BY <1>1 DEF Listed, Lists
<1>3. Len(entries) = Len(results) /\ Listed(entries, results, 0)
  BY <1>1, EntriesListed
<1>4. \A i \in 1..Len(results) : /\ results[i].probe = entries[i].probe
                                 /\ results[i].result = entries[i].result
                                 /\ entries[i].value = results[i].data
  <2>1. DOMAIN entries = 1..Len(results) /\ \A i \in 1..Len(results) : i > 0
    BY <1>2, <1>3
  <2>2. QED
    BY <1>3, <2>1 DEF Listed, Lists
<1>5. ASSUME NEW i \in 1..Len(held)
      PROVE  /\ entries[i].probe = held[i].probe /\ entries[i].result = held[i].result
             /\ i > loaded => entries[i].value = held[i].value
  <2>1. i \in 1..Len(results)
    BY <1>2
  <2>2. /\ results[i].probe = held[i].probe /\ results[i].result = held[i].result
        /\ i > loaded => held[i].value = results[i].data
    BY <1>a
  <2>3. /\ results[i].probe = entries[i].probe /\ results[i].result = entries[i].result
        /\ entries[i].value = results[i].data
    BY <1>4, <2>1, Zenon
  <2>4. QED
    BY <2>2, <2>3, Zenon
<1>6. ASSUME NEW i \in 1..Len(held), ~ (i > loaded) PROVE Resumed(i)'
  <2>1. i <= loaded
    BY <1>6
  <2>2. QED
    BY <1>1, <2>1 DEF Resumed
<1>7. Lists(held, entries)
  BY <1>2, <1>3, <1>5 DEF Lists
<1>8. QED
  BY <1>1, <1>2, <1>5, <1>6, <1>7 DEF Keeping

\* What Await does to the connection and to the process.
LEMMA AwaitDoes ==
  ASSUME NEW s \in Sockets, NEW next \in ScanRuns, NEW rest, NEW save,
         scan \in [Sockets -> ScanRuns], inflight \in [Sockets -> Seq(ScanRequests)],
         Await(s, next, rest, Due(next), save)
  PROVE  /\ scan' = [scan EXCEPT ![s] = next] /\ scan'[s] = next
         /\ \A r \in Sockets : r # s => scan'[r] = scan[r] /\ inflight'[r] = inflight[r]
         /\ inflight' = [inflight EXCEPT ![s] = inflight'[s]]
         /\ \/ inflight'[s] = rest
            \/ next.pc \in {"aare", "get"} /\ inflight'[s] = Append(rest, Due(next))
         /\ UNCHANGED <<serverVars, running, starts, resumeArg>>
         /\ file'.results = IF save = NoSave THEN file.results ELSE Entries(next.results)
         /\ allResults' = IF save = "complete" THEN next.results ELSE allResults
<1>1. next.pc \notin {"aare", "get"} => Due(next) = NoRequest
  BY DEF Due
<1>2. PICK flight : flight = IF Due(next) = NoRequest THEN rest ELSE Sent(s, rest, Due(next))
  OBVIOUS
<1>3. scan' = [scan EXCEPT ![s] = next] /\ inflight' = [inflight EXCEPT ![s] = flight]
  BY <1>2 DEF Await
<1>4. flight = rest \/ (next.pc \in {"aare", "get"} /\ flight = Append(rest, Due(next)))
  BY <1>1, <1>2 DEF Sent
<1>5. inflight'[s] = flight /\ scan'[s] = next
  BY <1>3
<1>6. file'.results = IF save = NoSave THEN file.results ELSE Entries(next.results)
  BY DEF Await, Saved, Entries
<1>7. QED
  BY <1>3, <1>4, <1>5, <1>6 DEF Await

\* What misses its timer at a step of s is an answer to s.
LateGrows(s) ==
    /\ late' \in [Sockets -> 0..MaxLate]
    /\ late[s] <= late'[s]
    /\ \A r \in Sockets : r # s => late'[r] = late[r]

\* What is known of the file when the run of s saves.
FileKnown(s, run) ==
    (\A r \in Runs : r = s) =>
        Listed(file.results, run.results, run.loaded) /\ allResults = <<>>

NothingFound(s) ==
    /\ scan'[s].results = <<>> /\ scan'[s].pc = "done"
    /\ file'.results = <<>> /\ allResults' = <<>>

\* What a run waits for is the answer to a request.
LEMMA DueIs ==
  ASSUME NEW run \in ScanRuns, InPlace(run), Standing(run), run.pc \in {"aare", "get"}
  PROVE  Due(run) \in ScanRequests
<1>1. run.at \in Nat /\ run.probes \in Seq(ScanProbes) /\ Len(run.probes) \in Nat
  BY DEF ScanRuns
<1>2. CASE run.pc = "aare"
  BY <1>2 DEF Due, Request, ScanRequests
<1>3. CASE run.pc = "get"
  <2>1. run.at \in 1..Len(run.probes)
    BY <1>1, <1>3 DEF InPlace, Standing
  <2>2. PICK p \in ScanProbes : p = run.probes[run.at]
    BY <1>1, <2>1
  <2>3. Due(run) = [tag |-> "get", probe |-> p]
    BY <1>3, <2>2 DEF Due
  <2>4. QED
    BY <2>3 DEF ScanRequests
<1>4. QED
  BY <1>2, <1>3

\* Any step of the chain of awaits preserves the invariant.
LEMMA OutcomeKeepsInv ==
  ASSUME ScanInv, NEW s \in Sockets, NEW run \in ScanRuns, NEW rest \in Seq(ScanRequests),
         Outcome(s, run, rest, cut', late'[s]), cut \subseteq cut', LateGrows(s),
         late'[s] = 0 => rest = <<>>, scan[s].pc # "idle",
         FileKnown(s, run), NothingWanted => NothingFound(s)
  PROVE  ScanInv'
<1>1. PICK next \in ScanRuns, save \in Labels :
        /\ Await(s, next, rest, Due(next), save)
        /\ save = "complete" <=> (next.pc = "done" /\ save # "phase1-interrupted")
        /\ Reached(s, run, next, cut', late'[s])
  BY DEF Outcome
<1>2. /\ scan \in [Sockets -> ScanRuns] /\ inflight \in [Sockets -> Seq(ScanRequests)]
      /\ \A r \in Sockets : RunInv(r)
      /\ FileInv /\ ServerTypeOK /\ resumeArg \in BOOLEAN
  BY DEF ScanInv
<1>3. /\ scan' = [scan EXCEPT ![s] = next] /\ scan'[s] = next
      /\ \A r \in Sockets : r # s => scan'[r] = scan[r] /\ inflight'[r] = inflight[r]
      /\ inflight' = [inflight EXCEPT ![s] = inflight'[s]]
      /\ \/ inflight'[s] = rest
         \/ next.pc \in {"aare", "get"} /\ inflight'[s] = Append(rest, Due(next))
      /\ UNCHANGED <<serverVars, running, starts, resumeArg>>
      /\ file'.results = IF save = NoSave THEN file.results ELSE Entries(next.results)
      /\ allResults' = IF save = "complete" THEN next.results ELSE allResults
  BY <1>1, <1>2, AwaitDoes
<1>4. /\ next.pc \notin {"idle", "armed", "over", "killed"}
      /\ InPlace(next) /\ Counted(next) /\ Justified(next) /\ Standing(next)
      /\ (late'[s] = 0 => Honest(next)) /\ Extends(run, next) /\ (s \notin cut' => SoFar(next))
  BY <1>1 DEF Reached, Sound
<1>5. scan' \in [Sockets -> ScanRuns]
  BY <1>2, <1>3
<1>6. inflight' \in [Sockets -> Seq(ScanRequests)]
  <2>1. inflight'[s] \in Seq(ScanRequests)
    <3>1. CASE inflight'[s] = rest
      BY <3>1
    <3>2. CASE next.pc \in {"aare", "get"} /\ inflight'[s] = Append(rest, Due(next))
      <4>1. PICK due \in ScanRequests : due = Due(next)
        BY <1>4, <3>2, DueIs
      <4>2. Append(rest, due) \in Seq(ScanRequests)
        OBVIOUS
      <4>3. QED
        BY <3>2, <4>1, <4>2
    <3>3. QED
      BY <1>3, <3>1, <3>2
  <2>2. PICK flight \in Seq(ScanRequests) : flight = inflight'[s]
    BY <2>1
  <2>3. inflight' = [inflight EXCEPT ![s] = flight]
    BY <1>3, <2>2
  <2>4. QED
    BY <1>2, <2>3
<1>7. ServerTypeOK'
  BY <1>2, <1>3 DEF ServerTypeOK, serverVars, LateGrows
<1>8. ASSUME NEW r \in Sockets, r # s PROVE RunInv(r)'
  BY <1>2, <1>3, <1>8, OtherRuns DEF LateGrows, serverVars
<1>9. RunInv(s)'
  <2>1. late'[s] = 0 => \/ inflight'[s] = <<>>
                        \/ next.pc \in {"aare", "get"} /\ inflight'[s] = <<Due(next)>>
    BY <1>3
  <2>2. ScanHonest(s)'
    <3>1. late'[s] \in Nat /\ (late'[s] = 0 \/ late'[s] > 0)
      BY BoundsAssumption DEF LateGrows
    <3>2. QED
      BY <1>3, <1>4, <3>1 DEF ScanHonest, Honest
  <2>3. sock'[s] # "unused"
    <3>1. scan[s] # IdleRun
      BY DEF IdleRun
    <3>2. QED
      BY <1>2, <1>3, <3>1 DEF RunInv, serverVars
  <2>4. QED
    BY <1>3, <1>4, <2>1, <2>2, <2>3 DEF RunInv
<1>10. Runs' = Runs \cup {s}
  BY <1>3, <1>4 DEF Runs
<1>11. FileInv'
  <2>1. next.results \in Seq(ScanResults)
    BY DEF ScanRuns
  <2>2. file'.results \in Seq(FileResults) /\ allResults' \in Seq(ScanResults)
    BY <1>2, <1>3, <2>1, EntriesListed DEF FileInv
  <2>3. Runs' # {}
    BY <1>10
  <2>4. ASSUME NothingWanted'
        PROVE  /\ file'.results = <<>>
               /\ allResults' = <<>>
               /\ \A r \in Sockets : /\ scan'[r].results = <<>>
                                     /\ scan'[r].pc \in {"idle", "armed", "done", "over", "killed"}
    <3>1. NothingWanted
      BY <1>3, <2>4 DEF NothingWanted
    <3>2. NothingFound(s)
      BY <3>1
    <3>3. \A r \in Sockets : /\ scan[r].results = <<>>
                             /\ scan[r].pc \in {"idle", "armed", "done", "over", "killed"}
      BY <1>2, <3>1 DEF FileInv
    <3>4. QED
      BY <1>3, <3>2, <3>3 DEF NothingFound
  <2>5. ASSUME OneRun'
        PROVE  /\ \A r \in Runs' : scan'[r].pc \notin {"done", "over"} =>
                        Listed(file'.results, scan'[r].results, scan'[r].loaded)
               /\ allResults' # <<>> => /\ file'.results = Entries(allResults')
                                        /\ \A r \in Runs' : scan'[r].pc \in {"done", "over"}
    <3>1. Runs' = {s} /\ \A r \in Runs : r = s
      BY <1>10, <2>5 DEF OneRun
    <3>2. Listed(file.results, run.results, run.loaded) /\ allResults = <<>>
      BY <3>1 DEF FileKnown
    <3>3. Listed(file.results, next.results, next.loaded)
      BY <1>2, <1>4, <3>2, ListedOfMore DEF FileInv
    <3>4. Listed(Entries(next.results), next.results, next.loaded)
      BY <2>1, EntriesListed
    <3>5. Listed(file'.results, next.results, next.loaded)
      BY <1>3, <3>3, <3>4
    <3>6. allResults' # <<>> => /\ allResults' = next.results /\ next.pc = "done"
                                /\ save = "complete"
      BY <1>1, <1>3, <3>2
    <3>7. allResults' # <<>> => file'.results = Entries(allResults')
      BY <1>3, <3>6 DEF NoSave
    <3>8. QED
      BY <1>3, <3>1, <3>5, <3>6, <3>7
  <2>6. QED
    BY <2>2, <2>3, <2>4, <2>5 DEF FileInv
<1>12. QED
  BY <1>2, <1>3, <1>5, <1>6, <1>7, <1>8, <1>9, <1>11 DEF ScanInv

\* A run is taken from one await to the next.
Taken(s) ==
    \E run \in ScanRuns, rest \in Seq(ScanRequests) :
        /\ Outcome(s, run, rest, cut', late'[s])
        /\ run.pc = scan[s].pc /\ run.phase = scan[s].phase /\ run.at = scan[s].at
        /\ scan[s].pc \notin {"idle", "done", "over", "killed"}
        /\ cut \subseteq cut'
        /\ LateGrows(s)
        /\ late'[s] = 0 => rest = <<>>
        /\ FileKnown(s, run)
        /\ NothingWanted => NothingFound(s)
        /\ FileKept

------------------------------------------------------------------------------
(* A run's steps.                                                          *)

Going == {"aare", "get", "delay", "release", "lastRelease"}

\* What is known of a run between its awaits.
LEMMA GoingRun ==
  ASSUME ScanInv, NEW s \in Sockets, scan[s].pc \in Going, LateGrows(s)
  PROVE  /\ scan[s] \in ScanRuns /\ Sound(scan[s], late'[s]) /\ Standing(scan[s])
         /\ s \notin cut => SoFar(scan[s])
         /\ FileKnown(s, scan[s]) /\ ~ NothingWanted /\ inflight[s] \in Seq(ScanRequests)
         /\ late[s] = 0 => \/ inflight[s] = <<>>
                           \/ scan[s].pc \in {"aare", "get"} /\ inflight[s] = <<Due(scan[s])>>
<1>1. RunInv(s) /\ scan[s] \in ScanRuns /\ inflight[s] \in Seq(ScanRequests) /\ FileInv /\ ServerTypeOK
  BY DEF ScanInv
<1>2. late'[s] = 0 => Honest(scan[s])
  <2>1. late[s] \in Nat /\ late'[s] \in Nat /\ late[s] <= late'[s]
    BY <1>1, BoundsAssumption DEF ServerTypeOK, LateGrows
  <2>2. late'[s] = 0 => ~ (late[s] > 0)
    BY <2>1
  <2>3. QED
    BY <1>1, <2>2 DEF RunInv, ScanHonest, Honest
<1>3. Sound(scan[s], late'[s])
  BY <1>1, <1>2 DEF Sound, RunInv
<1>4. ~ NothingWanted
  BY <1>1 DEF FileInv, Going
<1>5. FileKnown(s, scan[s])
  <2> SUFFICES ASSUME \A r \in Runs : r = s
               PROVE  /\ Listed(file.results, scan[s].results, scan[s].loaded)
                      /\ allResults = <<>>
    BY DEF FileKnown
  <2>1. OneRun /\ s \in Runs /\ scan[s].pc \notin {"done", "over"}
    BY DEF OneRun, Runs, Going
  <2>2. QED
    BY <1>1, <2>1 DEF FileInv
<1>6. QED
  BY <1>1, <1>3, <1>4, <1>5 DEF RunInv

\* A save of a run that goes on.
LEMMA GoingKeepsFile ==
  ASSUME ScanInv, NEW s \in Sockets, scan[s].pc \in Going, NEW run \in ScanRuns, run = scan[s],
         NEW rest, Outcome(s, run, rest, cut', late'[s]), LateGrows(s)
  PROVE  FileKept
<1>1. PICK next \in ScanRuns, save \in Labels :
        /\ Await(s, next, rest, Due(next), save) /\ Extends(run, next)
        /\ next.pc \notin {"idle", "armed", "over", "killed"}
  BY DEF Outcome, Reached
<1>2. /\ file'.results = IF save = NoSave THEN file.results ELSE Entries(next.results)
      /\ scan'[s] = next
  BY <1>1, AwaitDoes DEF ScanInv
<1>3. file.results \in Seq(FileResults)
  BY DEF ScanInv, FileInv
<1>4. ASSUME OneRun PROVE Listed(file.results, next.results, next.loaded)
  <2>1. s \in Runs
    BY DEF Runs, Going
  <2>2. Listed(file.results, run.results, run.loaded)
    BY <1>4, <2>1, GoingRun DEF OneRun, FileKnown
  <2>3. QED
    BY <1>1, <1>3, <2>2, ListedOfMore
<1>5. s \in Runs'
  BY <1>1, <1>2 DEF Runs
<1>6. CASE save = NoSave
  BY <1>2, <1>3, <1>6, SameKept
<1>7. CASE save # NoSave
  BY <1>2, <1>3, <1>4, <1>5, <1>7, SaveKeeps DEF FileKept
<1>8. QED
  BY <1>6, <1>7

\* A run that goes on is taken to its next await.
LEMMA GoingTaken ==
  ASSUME ScanInv, NEW s \in Sockets, scan[s].pc \in Going, NEW rest \in Seq(ScanRequests),
         Outcome(s, scan[s], rest, cut', late'[s]), cut \subseteq cut', LateGrows(s),
         late'[s] = 0 => rest = <<>>
  PROVE  Taken(s)
<1>1. PICK run \in ScanRuns : run = scan[s]
  BY DEF ScanInv
<1>2. FileKnown(s, run) /\ ~ NothingWanted
  BY <1>1, GoingRun
<1>3. FileKept
  BY <1>1, GoingKeepsFile
<1>4. run.pc \notin {"idle", "done", "over", "killed"}
  BY <1>1 DEF Going
<1>5. QED
  BY <1>1, <1>2, <1>3, <1>4 DEF Taken

\* A step in which no timer fires counts no late answer.
LEMMA LateSame ==
  ASSUME ServerTypeOK, NEW s \in Sockets, UNCHANGED late
  PROVE  LateGrows(s) /\ late'[s] = late[s]
<1>1. late[s] \in Nat
  BY BoundsAssumption DEF ServerTypeOK
<1>2. QED
  BY <1>1 DEF ServerTypeOK, LateGrows

\* A timer fires: what is still on its way is an answer that comes late.
LEMMA MissGrows ==
  ASSUME ServerTypeOK, NEW s \in Sockets, NEW rest, MissAnswer(s, rest)
  PROVE  LateGrows(s) /\ (late'[s] = 0 => rest = <<>>)
<1>1. late \in [Sockets -> 0..MaxLate] /\ late[s] \in 0..MaxLate /\ MaxLate \in Nat
  BY BoundsAssumption DEF ServerTypeOK
<1>2. CASE rest = <<>> /\ UNCHANGED late
  BY <1>1, <1>2 DEF LateGrows
<1>3. CASE late[s] < MaxLate /\ late' = [late EXCEPT ![s] = @ + 1]
  <2>1. late[s] + 1 \in 0..MaxLate /\ late'[s] = late[s] + 1
    BY <1>1, <1>3
  <2>2. late' \in [Sockets -> 0..MaxLate]
    BY <1>1, <1>3, <2>1
  <2>3. \A r \in Sockets : r # s => late'[r] = late[r]
    BY <1>1, <1>3
  <2>4. QED
    BY <1>1, <2>1, <2>2, <2>3 DEF LateGrows
<1>4. QED
  BY <1>2, <1>3 DEF MissAnswer

\* A sleep ends.
LEMMA WakeTaken ==
  ASSUME ScanInv, NEW s \in Sockets, Wake(s)
  PROVE  Taken(s)
<1>1. /\ Woken(s, scan[s], inflight[s]) /\ cut' = Stopped(s) /\ UNCHANGED late
  BY DEF Wake
<1>2. LateGrows(s) /\ late'[s] = late[s]
  BY <1>1, LateSame DEF ScanInv
<1>3. scan[s].pc \in {"delay", "release", "lastRelease"} /\ scan[s].pc \in Going
  BY <1>1 DEF Woken, Going
<1>4. PICK run \in ScanRuns, rest \in Seq(ScanRequests) : run = scan[s] /\ rest = inflight[s]
  BY DEF ScanInv
<1>5. /\ Sound(run, late'[s]) /\ Standing(run) /\ (s \notin cut => SoFar(run))
      /\ (late'[s] = 0 => rest = <<>>)
  BY <1>2, <1>3, <1>4, GoingRun
<1>6. cut \subseteq cut' /\ (s \notin cut' => s \notin cut /\ ~ disconnected)
  BY <1>1 DEF Stopped
<1>7. Outcome(s, run, rest, cut', late'[s])
  BY <1>1, <1>4, <1>5, <1>6, Wakes
<1>8. QED
  BY <1>2, <1>3, <1>4, <1>5, <1>6, <1>7, GoingTaken

\* The answer a run waits for arrives.
LEMMA AnswerTaken ==
  ASSUME ScanInv, NEW s \in Sockets, inflight[s] # <<>>,
         Answered(s, Head(inflight[s])), UNCHANGED late
  PROVE  Taken(s)
<1>1. LateGrows(s) /\ late'[s] = late[s]
  BY LateSame DEF ScanInv
<1>2. scan[s].pc \in {"aare", "get"} /\ scan[s].pc \in Going
  BY DEF Answered, Going
<1>3. PICK run \in ScanRuns, flight \in Seq(ScanRequests) : run = scan[s] /\ flight = inflight[s]
  BY DEF ScanInv
<1>4. /\ Sound(run, late'[s]) /\ Standing(run) /\ (s \notin cut => SoFar(run))
      /\ late[s] = 0 => flight = <<>> \/ flight = <<Due(run)>>
  BY <1>1, <1>2, <1>3, GoingRun
<1>5. PICK rest, answer : rest = Tail(flight) /\ answer = Head(flight)
  OBVIOUS
<1>6. rest \in Seq(ScanRequests) /\ answer \in ScanRequests
  BY <1>3, <1>5
<1>7. late'[s] = 0 => rest = <<>> /\ answer = Due(run)
  <2>1. flight = <<Due(run)>> => Tail(flight) = <<>> /\ Head(flight) = Due(run)
    OBVIOUS
  <2>2. QED
    BY <1>1, <1>3, <1>4, <1>5, <2>1
<1>8. s \notin cut => Recorded(run) /\ Covers(run)
  BY <1>2, <1>3, <1>4 DEF SoFar
<1>9. CASE run.pc = "aare" /\ Opened(s, run, rest) /\ cut' = Stopped(s)
  <2>1. cut \subseteq cut' /\ (s \notin cut' => s \notin cut /\ ~ disconnected)
    BY <1>9 DEF Stopped
  <2>2. Outcome(s, run, rest, cut', late'[s])
    BY <1>4, <1>8, <1>9, <2>1, Opens
  <2>3. QED
    BY <1>1, <1>2, <1>3, <1>6, <1>7, <2>1, <2>2, GoingTaken
<1>10. CASE run.pc = "aare" /\ NotOpened(s, run, rest) /\ cut' = cut \cup {s}
  <2>1. cut \subseteq cut' /\ s \in cut'
    BY <1>10
  <2>2. Outcome(s, run, rest, cut', late'[s])
    BY <1>4, <1>10, <2>1, OpensNot
  <2>3. QED
    BY <1>1, <1>2, <1>3, <1>6, <1>7, <2>1, <2>2, GoingTaken
<1>11. CASE /\ run.pc = "get" /\ UNCHANGED cut
            /\ \E result \in Answers : Record(s, run, rest, result, answer.probe)
  <2>1. PICK result \in {"success", "undefined", "denied", "timeout"} :
            Record(s, run, rest, result, answer.probe)
    BY <1>11, ScanAssumption
  <2>2. PICK of \in ScanProbes \cup {NoProbe} : of = answer.probe
    BY <1>6 DEF ScanRequests
  <2>3. late'[s] = 0 => of = run.probes[run.at]
    BY <1>7, <1>11, <2>2 DEF Due
  <2>4. run.at <= Len(run.probes)
    BY <1>4, <1>11 DEF Standing
  <2>5. s \notin cut' => Recorded(run) /\ Covers(run)
    BY <1>8, <1>11
  <2>6. Outcome(s, run, rest, cut', late'[s])
    BY <1>4, <1>11, <2>1, <2>2, <2>3, <2>4, <2>5, Records
  <2>7. QED
    BY <1>1, <1>2, <1>3, <1>6, <1>7, <1>11, <2>6, GoingTaken
<1>12. QED
  BY <1>3, <1>5, <1>9, <1>10, <1>11 DEF Answered

\* The timer of a wait fires.
LEMMA TimeoutTaken ==
  ASSUME ScanInv, NEW s \in Sockets, Timeout(s)
  PROVE  Taken(s)
<1>0. PICK rest \in Outstanding(s) :
        /\ MissAnswer(s, rest)
        /\ \/ /\ scan[s].pc = "aare"
              /\ NotOpened(s, scan[s], rest)
              /\ cut' = cut \cup {s}
           \/ /\ scan[s].pc = "get"
              /\ Record(s, scan[s], rest, "timeout", scan[s].probes[scan[s].at])
              /\ UNCHANGED cut
  BY DEF Timeout
<1>1. LateGrows(s) /\ (late'[s] = 0 => rest = <<>>)
  BY <1>0, MissGrows DEF ScanInv
<1>2. scan[s].pc \in {"aare", "get"} /\ scan[s].pc \in Going
  BY <1>0 DEF Going
<1>3. PICK run \in ScanRuns : run = scan[s]
  BY DEF ScanInv
<1>4. /\ Sound(run, late'[s]) /\ Standing(run) /\ (s \notin cut => SoFar(run))
      /\ inflight[s] \in Seq(ScanRequests)
  BY <1>1, <1>2, <1>3, GoingRun
<1>5. rest \in Seq(ScanRequests)
  <2>1. rest = <<>> \/ rest = inflight[s] \/ (inflight[s] # <<>> /\ rest = Front(inflight[s]))
    BY <1>0 DEF Outstanding
  <2>2. \A f \in Seq(ScanRequests) : f # <<>> => SubSeq(f, 1, Len(f) - 1) \in Seq(ScanRequests)
    OBVIOUS
  <2>3. <<>> \in Seq(ScanRequests)
    OBVIOUS
  <2>4. QED
    BY <1>4, <2>1, <2>2, <2>3 DEF Front
<1>6. CASE run.pc = "aare" /\ NotOpened(s, run, rest) /\ cut' = cut \cup {s}
  <2>1. cut \subseteq cut' /\ s \in cut'
    BY <1>6
  <2>2. Outcome(s, run, rest, cut', late'[s])
    BY <1>4, <1>6, <2>1, OpensNot
  <2>3. QED
    BY <1>1, <1>2, <1>3, <1>5, <2>1, <2>2, GoingTaken
<1>7. CASE run.pc = "get" /\ Record(s, run, rest, "timeout", run.probes[run.at]) /\ UNCHANGED cut
  <2>1. run.at <= Len(run.probes)
    BY <1>4, <1>7 DEF Standing
  <2>2. PICK of \in ScanProbes \cup {NoProbe} : of = run.probes[run.at]
    <3>1. run.probes \in Seq(ScanProbes) /\ run.at \in 1..Len(run.probes)
      BY <1>4, <2>1 DEF ScanRuns, Sound, InPlace
    <3>2. QED
      BY <3>1
  <2>3. s \notin cut' => Recorded(run) /\ Covers(run)
    BY <1>4, <1>7 DEF SoFar
  <2>4. "timeout" \in {"success", "undefined", "denied", "timeout"}
    OBVIOUS
  <2>5. Outcome(s, run, rest, cut', late'[s])
    BY <1>4, <1>7, <2>1, <2>2, <2>3, <2>4, Records
  <2>6. QED
    BY <1>1, <1>2, <1>3, <1>5, <1>7, <2>5, GoingTaken
<1>8. QED
  BY <1>0, <1>3, <1>6, <1>7

Loaded(run, saved) == [run EXCEPT !.results = saved, !.loaded = Len(saved)]

\* The fields of a run that has read the file.
LEMMA LoadedParts ==
  ASSUME NEW run \in ScanRuns, NEW saved
  PROVE  Loaded(run, saved) = Run(run.pc, run.phase, run.probes, run.at, saved, Len(saved),
                                  run.failures, run.asked)
<1>1. PICK n : n = Len(saved)
  OBVIOUS
<1>2. [run EXCEPT !.results = saved, !.loaded = n] =
            Run(run.pc, run.phase, run.probes, run.at, saved, n, run.failures, run.asked)
  BY WithLoaded
<1>3. QED
  BY <1>1, <1>2 DEF Loaded

\* A scan that finds no probe to ask for, without a file to resume from, saves nothing.
LEMMA NothingIsFound ==
  ASSUME NEW s \in Sockets, NEW run \in ScanRuns, run.results = <<>>, run.phase = 1, NEW rest,
         scan \in [Sockets -> ScanRuns], allResults = <<>>,
         ~ Lacks(Phase1Probes, <<>>), BeginScan(s, run, rest)
  PROVE  NothingFound(s)
<1>1. Filtered(Phase1Probes, <<>>) = <<>>
  BY PhaseOneProbes, NothingLeft
<1>2. AfterPhase(s, run, rest, NoSave)
  BY <1>1 DEF BeginScan
<1>3. GeneratePhase2Probes(<<>>) = <<>>
  <2>1. Len(<<>>) = 0 /\ \A i \in 1..Len(<<>>) : <<>>[i].probe.c \in 0..MaxC
    OBVIOUS
  <2>2. QED
    BY <2>1, PhaseTwoProbes
<1>4. Filtered(<<>>, <<>>) = <<>>
  <2>1. <<>> \in Seq(ScanProbes) /\ Len(<<>>) = 0
    OBVIOUS
  <2>2. ~ Lacks(<<>>, <<>>)
    BY <2>1 DEF Lacks
  <2>3. QED
    BY <2>1, <2>2, NothingLeft
<1>5. PICK save \in {"phase1-interrupted", "complete"} :
        Await(s, [run EXCEPT !.pc = "done"], rest, NoRequest, save)
  BY <1>2, <1>3, <1>4 DEF AfterPhase, FinishScan
<1>6. PICK next : next = [run EXCEPT !.pc = "done"]
  OBVIOUS
<1>7. next.results = <<>> /\ next.pc = "done"
  <2>1. next = Run("done", run.phase, run.probes, run.at, run.results, run.loaded, run.failures, run.asked)
    BY <1>6, WithPc
  <2>2. QED
    BY <2>1 DEF Run
<1>8. /\ scan'[s] = next /\ file'.results = Entries(next.results)
      /\ allResults' = allResults \/ allResults' = next.results
  BY <1>5, <1>6 DEF Await, Saved, Entries, NoSave
<1>9. QED
  BY <1>7, <1>8, NoEntries DEF NothingFound

\* What a run loads is what the file lists.
LEMMA LoadedListed ==
  ASSUME NEW held \in Seq(FileResults), NEW saved,
         saved = [i \in DOMAIN held |-> Remembered(held[i])]
  PROVE  saved \in Seq(ScanResults) /\ Listed(held, saved, Len(saved))
<1>1. PICK n : n = Len(held)
  OBVIOUS
<1>2. n \in Nat /\ DOMAIN held = 1..n /\ \A i \in 1..n : held[i] \in FileResults
  BY <1>1
<1>3. saved = [i \in 1..n |-> Remembered(held[i])]
  BY <1>2
<1>4. \A e \in FileResults : Remembered(e) \in ScanResults
  BY DEF ScanResults, FileResults, Remembered
<1>5. saved \in [1..n -> ScanResults]
  BY <1>2, <1>3, <1>4
<1>6. saved \in Seq(ScanResults) /\ Len(saved) = n
  <2>1. saved \in Seq(ScanResults)
    BY <1>2, <1>5, SeqDef, Zenon
  <2>2. Len(saved) = n
    BY <1>2, <1>3
  <2>3. QED
    BY <2>1, <2>2
<1>7. \A i \in 1..n : saved[i].probe = held[i].probe /\ saved[i].result = held[i].result
  BY <1>3 DEF Remembered
<1>8. QED
  BY <1>1, <1>2, <1>6, <1>7 DEF Listed, Lists

\* The timer of the heartbeat starts a run.
LEMMA StartTaken ==
  ASSUME ScanInv, NEW s \in Sockets, RunBruteForceScan(s)
  PROVE  Taken(s)
<1>0. /\ running /\ scan[s].pc = "armed" /\ cut' = Stopped(s) /\ UNCHANGED late
      /\ BeginScan(s, Loaded(scan[s], LoadResumeData), inflight[s])
  BY DEF RunBruteForceScan, Loaded
<1>1. LateGrows(s) /\ late'[s] = late[s]
  BY <1>0, LateSame DEF ScanInv
<1>2. PICK old \in ScanRuns, rest \in Seq(ScanRequests) : old = scan[s] /\ rest = inflight[s]
  BY DEF ScanInv
<1>3. /\ RunInv(s) /\ FileInv /\ resumeArg \in BOOLEAN /\ scan \in [Sockets -> ScanRuns]
      /\ inflight \in [Sockets -> Seq(ScanRequests)]
  BY DEF ScanInv
<1>4. late'[s] = 0 => rest = <<>>
  BY <1>0, <1>1, <1>2, <1>3 DEF RunInv
<1>5. old = [IdleRun EXCEPT !.pc = "armed"]
  BY <1>0, <1>2, <1>3 DEF RunInv, Standing
<1>6. /\ old.pc = "armed" /\ old.phase = 1 /\ old.probes = <<>> /\ old.at = 1
      /\ old.failures = [g \in Groups |-> 0] /\ old.asked = 0
  BY <1>5 DEF IdleRun
<1>7. PICK saved \in Seq(ScanResults) : saved = LoadResumeData
  <2>1. file.results \in Seq(FileResults) /\ <<>> \in Seq(ScanResults)
    BY <1>3 DEF FileInv
  <2>2. QED
    BY <2>1, LoadedListed DEF LoadResumeData
<1>8. PICK run : run = Loaded(old, saved)
  OBVIOUS
<1>9. run = Run(old.pc, old.phase, old.probes, old.at, saved, Len(saved), old.failures, old.asked)
  BY <1>8, LoadedParts
<1>10. run \in ScanRuns
  <2>1. Len(saved) \in Nat
    OBVIOUS
  <2>2. QED
    BY <1>9, <2>1 DEF Run, ScanRuns
<1>11. /\ run.pc = "armed" /\ run.phase = 1 /\ run.probes = <<>> /\ run.at = 1 /\ run.results = saved
       /\ run.loaded = Len(saved) /\ run.failures = [g \in Groups |-> 0]
  BY <1>6, <1>9 DEF Run
<1>12. Sound(run, late'[s])
  <2>1. Len(run.results) = run.loaded /\ run.loaded \in Nat /\ Len(run.probes) = 0
    BY <1>11
  <2>2. InPlace(run)
    BY <1>11, <2>1 DEF InPlace
  <2>3. Counted(run)
    BY <1>10, <1>11, <2>1, CountedFromZero
  <2>4. Justified(run) /\ Honest(run)
    BY <2>1 DEF Justified, Honest
  <2>5. QED
    BY <2>2, <2>3, <2>4 DEF Sound
<1>13. cut \subseteq cut' /\ (s \notin cut' => s \notin cut /\ ~ disconnected)
  BY <1>0 DEF Stopped
<1>14. BeginScan(s, run, rest)
  BY <1>0, <1>2, <1>7, <1>8
<1>15. Outcome(s, run, rest, cut', late'[s])
  <2>1. Len(run.results) = run.loaded
    BY <1>11
  <2>2. QED
    BY <1>10, <1>11, <1>12, <1>13, <1>14, <2>1, BeginsScan
<1>16. NothingWanted => NothingFound(s)
  <2> SUFFICES ASSUME NothingWanted PROVE NothingFound(s)
    OBVIOUS
  <2>1. saved = <<>> /\ allResults = <<>> /\ ~ Lacks(Phase1Probes, <<>>)
    BY <1>3, <1>7 DEF NothingWanted, LoadResumeData, FileInv
  <2>2. run.results = <<>>
    BY <1>11, <2>1
  <2>3. QED
    BY <1>3, <1>10, <1>11, <1>14, <2>1, <2>2, NothingIsFound
<1>17. FileKnown(s, run)
  <2> SUFFICES ASSUME \A r \in Runs : r = s
               PROVE  Listed(file.results, saved, Len(saved)) /\ allResults = <<>>
    BY <1>11 DEF FileKnown
  <2>1. Runs = {}
    BY <1>0 DEF Runs
  <2>2. allResults = <<>> /\ (~ resumeArg => file.results = <<>>)
    BY <1>0, <1>3, <2>1 DEF FileInv
  <2>3. CASE resumeArg
    BY <1>3, <1>7, <2>2, <2>3, LoadedListed DEF LoadResumeData, FileInv
  <2>4. CASE ~ resumeArg
    <3>1. saved = <<>> /\ file.results = <<>>
      BY <1>7, <2>2, <2>4 DEF LoadResumeData
    <3>2. Listed(<<>>, <<>>, 0)
      BY DEF Listed, Lists
    <3>3. QED
      BY <2>2, <3>1, <3>2
  <2>5. QED
    BY <2>3, <2>4
<1>18. FileKept
  <2>1. PICK next \in ScanRuns, save \in Labels :
            /\ Await(s, next, rest, Due(next), save) /\ Extends(run, next)
            /\ next.pc \notin {"idle", "armed", "over", "killed"}
    BY <1>15 DEF Outcome, Reached
  <2>2. /\ file'.results = IF save = NoSave THEN file.results ELSE Entries(next.results)
        /\ scan'[s] = next
    BY <1>3, <2>1, AwaitDoes
  <2>3. file.results \in Seq(FileResults)
    BY <1>3 DEF FileInv
  <2>4. CASE resumeArg
    <3>1. Listed(file.results, run.results, run.loaded)
      BY <1>7, <1>11, <2>3, <2>4, LoadedListed DEF LoadResumeData
    <3>2. Listed(file.results, next.results, next.loaded)
      BY <1>10, <2>1, <2>3, <3>1, ListedOfMore
    <3>3. s \in Runs'
      BY <2>1, <2>2 DEF Runs
    <3>4. CASE save = NoSave
      BY <2>2, <2>3, <3>4, SameKept
    <3>5. CASE save # NoSave
      BY <2>2, <2>3, <3>2, <3>3, <3>5, SaveKeeps DEF FileKept
    <3>6. QED
      BY <3>4, <3>5
  <2>5. CASE NothingWanted
    <3>1. file.results = <<>> /\ file'.results = <<>>
      BY <1>3, <1>16, <2>5 DEF FileInv, NothingFound
    <3>2. QED
      BY <2>3, <3>1, SameKept
  <2>6. CASE ~ resumeArg /\ Lacks(Phase1Probes, <<>>)
    <3>1. saved = <<>>
      BY <1>7, <2>6 DEF LoadResumeData
    <3>2. Filtered(Phase1Probes, run.results) # <<>>
      BY <1>11, <2>6, <3>1, PhaseOneProbes, NothingLeft
    <3>3. \E probes : BeginPhase(s, run, rest, 1, probes, NoSave)
      BY <1>14, <3>2 DEF BeginScan
    <3>4. file' = file
      BY <3>3 DEF BeginPhase, Await
    <3>5. QED
      BY <2>3, <3>4, SameKept
  <2>7. QED
    BY <2>4, <2>5, <2>6 DEF NothingWanted
<1>19. run.pc = scan[s].pc /\ run.phase = scan[s].phase /\ run.at = scan[s].at
  BY <1>2, <1>6, <1>11
<1>20. QED
  BY <1>0, <1>1, <1>4, <1>10, <1>13, <1>15, <1>16, <1>17, <1>18, <1>19 DEF Taken

\* A step from one await to the next keeps the invariant and the file, and takes
\* its run on.
LEMMA TakenKeeps ==
  ASSUME ScanInv, NEW s \in Sockets, Taken(s)
  PROVE  ScanInv' /\ FileKept /\ \A r \in Sockets : ScanAdvances(r)
<1>1. PICK run \in ScanRuns, rest \in Seq(ScanRequests) :
        /\ Outcome(s, run, rest, cut', late'[s])
        /\ run.pc = scan[s].pc /\ run.phase = scan[s].phase /\ run.at = scan[s].at
        /\ scan[s].pc \notin {"idle", "done", "over", "killed"}
        /\ cut \subseteq cut'
        /\ LateGrows(s)
        /\ late'[s] = 0 => rest = <<>>
        /\ FileKnown(s, run)
        /\ NothingWanted => NothingFound(s)
        /\ FileKept
  BY DEF Taken
<1>2. ScanInv'
  BY <1>1, OutcomeKeepsInv
<1>3. PICK next \in ScanRuns, save \in Labels :
        Await(s, next, rest, Due(next), save) /\ Further(run, next)
  BY <1>1 DEF Outcome, Reached
<1>4. scan'[s] = next /\ \A r \in Sockets : r # s => scan'[r] = scan[r]
  BY <1>3, AwaitDoes DEF ScanInv
<1>5. Before(Progress(run), Progress(next))
  BY <1>1, <1>3, Ahead DEF Over
<1>6. Progress(scan[s]) = Progress(run)
  BY <1>1 DEF Progress
<1>7. ScanAdvances(s)
  BY <1>4, <1>5, <1>6 DEF ScanAdvances
<1>8. \A r \in Sockets : r # s => ScanAdvances(r)
  BY <1>4 DEF ScanAdvances
<1>9. QED
  BY <1>1, <1>2, <1>7, <1>8

------------------------------------------------------------------------------
(* The server's steps.                                                     *)

\* A run that has not started, or of which nothing is known any more.
LEMMA ForgottenSound ==
  ASSUME NEW pc \in {"idle", "armed", "over", "killed"}, NEW run, run = Forgotten(pc)
  PROVE  /\ run \in ScanRuns /\ run.pc = pc /\ run.results = <<>> /\ run.loaded = 0
         /\ InPlace(run) /\ Counted(run) /\ Justified(run) /\ Standing(run) /\ SoFar(run)
         /\ run.phase = 1 /\ run.at = 1
<1>1. run = Run(pc, 1, <<>>, 1, <<>>, 0, [g \in Groups |-> 0], 0)
  BY DEF Forgotten, IdleRun, Run
<1>2. /\ run.pc = pc /\ run.phase = 1 /\ run.probes = <<>> /\ run.at = 1 /\ run.results = <<>>
      /\ run.loaded = 0 /\ run.failures = [g \in Groups |-> 0] /\ run.asked = 0
  BY <1>1 DEF Run
<1>3. run \in ScanRuns
  <2>0. <<>> \in Seq(ScanProbes) /\ <<>> \in Seq(ScanResults)
    OBVIOUS
  <2>f. [g \in Groups |-> 0] \in [Groups -> Nat]
    OBVIOUS
  <2>1. PICK probes \in Seq(ScanProbes), results \in Seq(ScanResults), failures \in [Groups -> Nat] :
            probes = <<>> /\ results = <<>> /\ failures = [g \in Groups |-> 0]
    BY <2>0, <2>f, Zenon
  <2>2. Run(pc, 1, probes, 1, results, 0, failures, 0) \in ScanRuns
    BY RunTyped
  <2>3. QED
    BY <1>1, <2>1, <2>2
<1>4. Len(run.results) = 0 /\ Len(run.probes) = 0
  BY <1>2
<1>5. InPlace(run)
  BY <1>2, <1>4 DEF InPlace
<1>6. Counted(run)
  BY <1>2, <1>3, <1>4, CountedFromZero
<1>7. Justified(run)
  BY <1>2, <1>4 DEF Justified
<1>8. Standing(run)
  BY <1>2 DEF Standing, Forgotten
<1>9. SoFar(run)
  BY <1>2 DEF SoFar
<1>10. QED
  BY <1>2, <1>3, <1>5, <1>6, <1>7, <1>8, <1>9

\* A run of which nothing is known any more satisfies the invariant.
LEMMA ForgottenRun ==
  ASSUME NEW s \in Sockets, NEW pc \in {"idle", "armed", "over", "killed"},
         scan'[s] = Forgotten(pc), late'[s] = 0 => inflight'[s] = <<>>,
         sock'[s] = "unused" => pc = "idle"
  PROVE  RunInv(s)'
<1>1. PICK run : run = Forgotten(pc)
  OBVIOUS
<1>2. /\ run.results = <<>> /\ run.loaded = 0
      /\ InPlace(run) /\ Counted(run) /\ Justified(run) /\ Standing(run) /\ SoFar(run)
  BY <1>1, ForgottenSound
<1>3. ScanHonest(s)'
  <2>1. Len(<<>>) = 0 /\ (0 + 1)..0 = {}
    OBVIOUS
  <2>2. QED
    BY <1>1, <1>2, <2>1 DEF ScanHonest
<1>4. pc = "idle" => run = IdleRun
  BY <1>1 DEF Forgotten, IdleRun
<1>5. QED
  BY <1>1, <1>2, <1>3, <1>4 DEF RunInv

\* A run that a step of the server leaves alone.
LEMMA QuietRun ==
  ASSUME NEW r, RunInv(r), scan'[r] = scan[r], late'[r] = late[r], UNCHANGED cut,
         inflight'[r] = inflight[r] \/ (late[r] = 0 => inflight'[r] = <<>>),
         sock'[r] = "unused" => sock[r] = "unused"
  PROVE  RunInv(r)'
<1>1. ScanHonest(r)'
  BY DEF RunInv, ScanHonest
<1>2. QED
  BY <1>1 DEF RunInv

\* What CloseMeter and Ctrl+C make of the file.
LEMMA SavedByHandlers ==
  ASSUME FileInv, NEW label, file' = AllSaved(label)
  PROVE  /\ file'.results \in Seq(FileResults)
         /\ allResults = <<>> => file' = file
         /\ allResults # <<>> => file'.results = Entries(allResults)
         /\ NothingWanted => file'.results = <<>>
         /\ OneRun => file'.results = file.results
         /\ FileKept
<1>1. file.results \in Seq(FileResults) /\ allResults \in Seq(ScanResults)
  BY DEF FileInv
<1>2. /\ allResults = <<>> => file' = file
      /\ allResults # <<>> => file'.results = Entries(allResults)
  BY DEF AllSaved, Saved, Entries
<1>3. file'.results \in Seq(FileResults)
  BY <1>1, <1>2, EntriesListed
<1>4. NothingWanted => file'.results = <<>>
  BY <1>2 DEF FileInv
<1>5. OneRun => file'.results = file.results
  BY <1>2 DEF FileInv
<1>6. FileKept
  BY <1>1, <1>5, SameKept DEF FileKept
<1>7. QED
  BY <1>2, <1>3, <1>4, <1>5, <1>6

\* The file and what the handlers would save, when no run takes a step.
LEMMA FileStays ==
  ASSUME FileInv, UNCHANGED <<scan, resumeArg, allResults>>, running' = running \/ resumeArg' ,
         file' = file \/ \E label : file' = AllSaved(label)
  PROVE  FileInv' /\ FileKept
<1>1. /\ file'.results \in Seq(FileResults)
      /\ NothingWanted => file'.results = <<>>
      /\ Runs = {} => file'.results = file.results
      /\ OneRun => file'.results = file.results
      /\ FileKept
  <2>1. CASE file' = file
    <3>1. file.results \in Seq(FileResults)
      BY DEF FileInv
    <3>2. QED
      BY <2>1, <3>1, SameKept DEF FileInv
  <2>2. CASE \E label : file' = AllSaved(label)
    BY <2>2, SavedByHandlers DEF FileInv
  <2>3. QED
    BY <2>1, <2>2
<1>2. Runs' = Runs /\ (NothingWanted' <=> NothingWanted) /\ (OneRun' <=> OneRun)
  BY DEF Runs, NothingWanted, OneRun
<1>3. Runs' = {} => allResults' = <<>> /\ (running' /\ ~ resumeArg' => file'.results = <<>>)
  BY <1>1, <1>2 DEF FileInv
<1>4. ASSUME NothingWanted'
      PROVE  /\ file'.results = <<>> /\ allResults' = <<>>
             /\ \A s \in Sockets : /\ scan'[s].results = <<>>
                                   /\ scan'[s].pc \in {"idle", "armed", "done", "over", "killed"}
  BY <1>1, <1>2, <1>4 DEF FileInv
<1>5. ASSUME OneRun'
      PROVE  /\ \A r \in Runs' : scan'[r].pc \notin {"done", "over"} =>
                    Listed(file'.results, scan'[r].results, scan'[r].loaded)
             /\ allResults' # <<>> => /\ file'.results = Entries(allResults')
                                      /\ \A r \in Runs' : scan'[r].pc \in {"done", "over"}
  <2>1. /\ \A r \in Runs : scan[r].pc \notin {"done", "over"} =>
              Listed(file.results, scan[r].results, scan[r].loaded)
        /\ allResults # <<>> => /\ file.results = Entries(allResults)
                                /\ \A r \in Runs : scan[r].pc \in {"done", "over"}
    BY <1>2, <1>5 DEF FileInv
  <2>2. file'.results = file.results
    BY <1>1, <1>2, <1>5
  <2>3. QED
    BY <1>2, <2>1, <2>2
<1>6. allResults' \in Seq(ScanResults)
  BY DEF FileInv
<1>7. QED
  BY <1>1, <1>3, <1>4, <1>5, <1>6 DEF FileInv

\* A step that takes no run on.
LEMMA QuietStep ==
  ASSUME ScanInv, UNCHANGED <<scan, cut, resumeArg, allResults, late>>,
         running' = running, file' = file \/ \E label : file' = AllSaved(label),
         inflight' \in [Sockets -> Seq(ScanRequests)], ServerTypeOK',
         \A r \in Sockets : /\ inflight'[r] = inflight[r] \/ (late[r] = 0 => inflight'[r] = <<>>)
                            /\ sock'[r] = "unused" => sock[r] = "unused"
  PROVE  ScanInv' /\ FileKept /\ \A r \in Sockets : ScanAdvances(r)
<1>1. \A r \in Sockets : RunInv(r)'
  BY QuietRun DEF ScanInv
<1>2. FileInv' /\ FileKept
  BY FileStays DEF ScanInv
<1>3. QED
  BY <1>1, <1>2 DEF ScanInv, ScanAdvances

\* An answer reaches the process.
LEMMA DeliverKeeps ==
  ASSUME ScanInv, NEW s \in Sockets, Deliver(s)
  PROVE  ScanInv' /\ FileKept /\ \A r \in Sockets : ScanAdvances(r)
<1>1. CASE Answered(s, Head(inflight[s])) /\ UNCHANGED late
  <2>1. inflight[s] # <<>>
    BY DEF Deliver
  <2>2. QED
    BY <1>1, <2>1, AnswerTaken, TakenKeeps
<1>2. CASE Lose(s) /\ UNCHANGED scanVars
  <2>1. PICK flight \in Seq(ScanRequests) : flight = inflight[s]
    BY DEF ScanInv
  <2>2. flight # <<>> /\ Tail(flight) \in Seq(ScanRequests)
    BY <1>2, <2>1 DEF Lose
  <2>3. PICK rest \in Seq(ScanRequests) : rest = Tail(flight)
    BY <2>2
  <2>4. inflight' = [inflight EXCEPT ![s] = rest]
    BY <1>2, <2>1, <2>3 DEF Lose
  <2>5. late[s] = 0 => rest = <<>>
    <3>1. late[s] = 0 => flight = <<Due(scan[s])>>
      BY <2>1, <2>2 DEF ScanInv, RunInv
    <3>2. \A x : Tail(<<x>>) = <<>>
      OBVIOUS
    <3>3. QED
      BY <2>3, <3>1, <3>2
  <2>6. inflight \in [Sockets -> Seq(ScanRequests)]
    BY DEF ScanInv
  <2>7. inflight' \in [Sockets -> Seq(ScanRequests)]
    BY <2>4, <2>6
  <2>8. \A r \in Sockets : inflight'[r] = inflight[r] \/ (late[r] = 0 => inflight'[r] = <<>>)
    BY <2>4, <2>5, <2>6
  <2>9. UNCHANGED <<sock, activeSocket, disconnected, late>>
    BY <1>2 DEF Lose, serverVars
  <2>10. ServerTypeOK'
    BY <2>9 DEF ScanInv, ServerTypeOK
  <2>11. QED
    BY <1>2, <2>7, <2>8, <2>9, <2>10, QuietStep DEF scanVars
<1>3. QED
  BY <1>1, <1>2 DEF Deliver

\* The connections that come, end and fail.
LEMMA ServerTyped ==
  ASSUME ServerTypeOK, NEW s \in Sockets, Reject(s) \/ Accept(s) \/ Close(s) \/ Fail(s)
  PROVE  /\ ServerTypeOK' /\ late' = late
         /\ \A r \in Sockets : sock'[r] = "unused" => sock[r] = "unused"
         /\ inflight' = inflight \/ inflight' = [inflight EXCEPT ![s] = <<>>]
         /\ Accept(s) => inflight' = inflight
<1>1. late' = late /\ (inflight' = inflight \/ inflight' = [inflight EXCEPT ![s] = <<>>])
  BY DEF Reject, Accept, Close, Fail, wireVars
<1>2. PICK state \in SocketState : state # "unused" /\ sock' = [sock EXCEPT ![s] = state]
  BY DEF Reject, Accept, Close, Fail, SocketState
<1>3. sock \in [Sockets -> SocketState]
  BY DEF ServerTypeOK
<1>4. sock' \in [Sockets -> SocketState] /\ \A r \in Sockets : sock'[r] = "unused" => sock[r] = "unused"
  BY <1>2, <1>3
<1>5. activeSocket' \in Sockets \cup {NoSocket} /\ disconnected' \in BOOLEAN
  BY DEF Reject, Accept, Close, Fail, Forget, ServerTypeOK
<1>6. ServerTypeOK'
  BY <1>1, <1>4, <1>5 DEF ServerTypeOK
<1>7. Accept(s) => inflight' = inflight
  BY DEF Accept, wireVars
<1>8. QED
  BY <1>1, <1>4, <1>6, <1>7

\* A meter is turned away, or its connection ends.
LEMMA LeaveKeeps ==
  ASSUME ScanInv, NEW s \in Sockets, RejectMeter(s) \/ CloseMeter(s) \/ FailMeter(s)
  PROVE  ScanInv' /\ FileKept /\ \A r \in Sockets : ScanAdvances(r)
<1>1. Reject(s) \/ Close(s) \/ Fail(s)
  BY DEF RejectMeter, CloseMeter, FailMeter
<1>2. /\ ServerTypeOK' /\ late' = late
      /\ \A r \in Sockets : sock'[r] = "unused" => sock[r] = "unused"
      /\ inflight' = inflight \/ inflight' = [inflight EXCEPT ![s] = <<>>]
  BY <1>1, ServerTyped DEF ScanInv
<1>3. inflight \in [Sockets -> Seq(ScanRequests)] /\ <<>> \in Seq(ScanRequests)
  BY DEF ScanInv
<1>4. /\ inflight' \in [Sockets -> Seq(ScanRequests)]
      /\ \A r \in Sockets : inflight'[r] = inflight[r] \/ inflight'[r] = <<>>
  BY <1>2, <1>3
<1>5. /\ UNCHANGED <<scan, cut, resumeArg, allResults, running>>
      /\ file' = file \/ \E label : file' = AllSaved(label)
  BY DEF RejectMeter, CloseMeter, FailMeter, scanVars
<1>6. QED
  BY <1>2, <1>4, <1>5, QuietStep

\* The heartbeat arms the timer.
LEMMA HeartbeatKeeps ==
  ASSUME ScanInv, NEW s \in Sockets, Heartbeat(s)
  PROVE  ScanInv' /\ FileKept /\ \A r \in Sockets : ScanAdvances(r)
<1>1. /\ UNCHANGED <<serverVars, wireVars, running, starts, resumeArg, file, allResults, cut>>
      /\ scan[s].pc = "idle" /\ sock[s] = "open"
      /\ scan' = [scan EXCEPT ![s] = [scan[s] EXCEPT !.pc = "armed"]]
  BY DEF Heartbeat
<1>2. /\ scan \in [Sockets -> ScanRuns] /\ inflight \in [Sockets -> Seq(ScanRequests)]
      /\ \A r \in Sockets : RunInv(r)
      /\ FileInv /\ ServerTypeOK /\ resumeArg \in BOOLEAN
  BY DEF ScanInv
<1>3. scan[s] = IdleRun
  <2>1. scan[s] = [IdleRun EXCEPT !.pc = "idle"]
    BY <1>1, <1>2 DEF RunInv, Standing
  <2>2. QED
    BY <2>1 DEF IdleRun
<1>4. PICK armed \in ScanRuns : armed = Forgotten("armed")
  BY ForgottenSound
<1>5. scan' = [scan EXCEPT ![s] = armed]
  BY <1>1, <1>3, <1>4 DEF Forgotten
<1>6. scan'[s] = armed /\ \A r \in Sockets : r # s => scan'[r] = scan[r]
  BY <1>2, <1>5
<1>7. UNCHANGED <<sock, inflight, late, cut>>
  BY <1>1 DEF serverVars, wireVars
<1>8. RunInv(s)'
  BY <1>1, <1>2, <1>4, <1>6, <1>7, ForgottenRun DEF RunInv
<1>9. \A r \in Sockets : RunInv(r)'
  BY <1>2, <1>6, <1>7, <1>8, QuietRun
<1>10. scan' \in [Sockets -> ScanRuns] /\ inflight' \in [Sockets -> Seq(ScanRequests)] /\ ServerTypeOK'
  BY <1>1, <1>2, <1>5 DEF ServerTypeOK, serverVars, wireVars
<1>11. armed.pc = "armed" /\ armed.results = <<>> /\ armed.phase = 1 /\ armed.at = 1
  BY <1>4, ForgottenSound
<1>12. Runs' = Runs
  BY <1>1, <1>6, <1>11 DEF Runs
<1>13. FileInv'
  <2>1. \A r \in Runs : r # s
    BY <1>1 DEF Runs
  <2>2. NothingWanted' <=> NothingWanted
    BY <1>1 DEF NothingWanted
  <2>3. OneRun' <=> OneRun
    BY <1>12 DEF OneRun
  <2>4. NothingWanted =>
            \A r \in Sockets : /\ scan'[r].results = <<>>
                               /\ scan'[r].pc \in {"idle", "armed", "done", "over", "killed"}
    BY <1>2, <1>6, <1>11 DEF FileInv
  <2>5. \A r \in Runs : scan'[r] = scan[r]
    BY <1>6, <2>1 DEF Runs
  <2>6. QED
    BY <1>1, <1>2, <1>12, <2>2, <2>3, <2>4, <2>5 DEF FileInv
<1>14. FileKept
  BY <1>1, <1>2, SameKept DEF FileInv
<1>15. ScanAdvances(s)
  <2>1. Further(IdleRun, armed) /\ IdleRun.pc \notin Over
    BY <1>11 DEF Further, IdleRun, Rank, Over
  <2>2. Before(Progress(IdleRun), Progress(armed))
    BY <1>2, <1>3, <2>1, Ahead
  <2>3. QED
    BY <1>3, <1>6, <2>2 DEF ScanAdvances
<1>16. \A r \in Sockets : ScanAdvances(r)
  BY <1>6, <1>15 DEF ScanAdvances
<1>17. QED
  BY <1>1, <1>2, <1>9, <1>10, <1>13, <1>14, <1>16 DEF ScanInv

\* A meter is accepted: what is done is forgotten.
LEMMA AcceptKeeps ==
  ASSUME ScanInv, NEW s \in Sockets, AcceptMeter(s)
  PROVE  ScanInv' /\ FileKept /\ \A r \in Sockets : ScanAdvances(r)
<1>1. /\ Accept(s) /\ allResults' = <<>> /\ UNCHANGED <<running, starts, resumeArg, file, cut>>
      /\ scan' = [r \in Sockets |-> IF scan[r].pc = "done" THEN Forgotten("over") ELSE scan[r]]
  BY DEF AcceptMeter
<1>2. /\ scan \in [Sockets -> ScanRuns] /\ inflight \in [Sockets -> Seq(ScanRequests)]
      /\ \A r \in Sockets : RunInv(r)
      /\ FileInv /\ ServerTypeOK /\ resumeArg \in BOOLEAN
  BY DEF ScanInv
<1>3. PICK over \in ScanRuns : over = Forgotten("over")
  BY ForgottenSound
<1>4. over.pc = "over" /\ over.results = <<>>
  BY <1>3, ForgottenSound
<1>5. \A r \in Sockets : scan'[r] = IF scan[r].pc = "done" THEN over ELSE scan[r]
  BY <1>1, <1>3
<1>6. scan' \in [Sockets -> ScanRuns]
  <2>1. \A r \in Sockets : scan[r] \in ScanRuns
    BY <1>2
  <2>2. QED
    BY <1>1, <1>3, <2>1
<1>7. /\ ServerTypeOK' /\ late' = late /\ inflight' = inflight
      /\ \A r \in Sockets : sock'[r] = "unused" => sock[r] = "unused"
  BY <1>1, <1>2, ServerTyped
<1>8. ASSUME NEW r \in Sockets PROVE RunInv(r)'
  <2>1. CASE scan[r].pc = "done"
    <3>1. scan[r] # IdleRun
      BY <2>1 DEF IdleRun
    <3>2. sock'[r] # "unused" /\ (late'[r] = 0 => inflight'[r] = <<>>)
      BY <1>2, <1>7, <2>1, <3>1 DEF RunInv
    <3>3. scan'[r] = Forgotten("over")
      BY <1>3, <1>5, <2>1
    <3>4. QED
      BY <3>2, <3>3, ForgottenRun
  <2>2. CASE scan[r].pc # "done"
    BY <1>1, <1>2, <1>5, <1>7, <2>2, QuietRun
  <2>3. QED
    BY <2>1, <2>2
<1>9. Runs' = Runs
  BY <1>4, <1>5 DEF Runs
<1>10. FileInv'
  <2>1. (NothingWanted' <=> NothingWanted) /\ (OneRun' <=> OneRun)
    BY <1>1, <1>9 DEF NothingWanted, OneRun
  <2>2. <<>> \in Seq(ScanResults)
    OBVIOUS
  <2>3. NothingWanted =>
            \A r \in Sockets : /\ scan'[r].results = <<>>
                               /\ scan'[r].pc \in {"idle", "armed", "done", "over", "killed"}
    BY <1>2, <1>4, <1>5 DEF FileInv
  <2>4. \A r \in Sockets : scan'[r].pc \notin {"done", "over"} => scan'[r] = scan[r]
    BY <1>4, <1>5
  <2>5. OneRun => \A r \in Runs : scan'[r].pc \notin {"done", "over"} =>
                        Listed(file.results, scan'[r].results, scan'[r].loaded)
    BY <1>2, <2>4 DEF FileInv, Runs
  <2>6. file' = file
    BY <1>1
  <2>7. QED
    BY <1>1, <1>2, <1>9, <2>1, <2>2, <2>3, <2>5, <2>6 DEF FileInv
<1>11. FileKept
  BY <1>1, <1>2, SameKept DEF FileInv
<1>12. \A r \in Sockets : ScanAdvances(r)
  BY <1>4, <1>5 DEF ScanAdvances
<1>13. QED
  BY <1>1, <1>2, <1>6, <1>7, <1>8, <1>10, <1>11, <1>12 DEF ScanInv

\* Ctrl+C.
LEMMA InterruptKeeps ==
  ASSUME ScanInv, Interrupt
  PROVE  ScanInv' /\ FileKept /\ \A r \in Sockets : ScanAdvances(r)
<1>1. /\ running' = FALSE /\ file' = AllSaved("interrupted") /\ sock' = Down
      /\ scan' = [s \in Sockets |-> IF sock[s] = "unused" THEN scan[s] ELSE Forgotten("killed")]
      /\ inflight' = [s \in Sockets |-> <<>>] /\ activeSocket' = NoSocket /\ disconnected' = FALSE
      /\ allResults' = <<>> /\ late' = [s \in Sockets |-> 0] /\ cut' = {}
      /\ UNCHANGED <<starts, resumeArg>>
  BY DEF Interrupt
<1>2. /\ scan \in [Sockets -> ScanRuns] /\ inflight \in [Sockets -> Seq(ScanRequests)]
      /\ \A r \in Sockets : RunInv(r)
      /\ FileInv /\ ServerTypeOK /\ resumeArg \in BOOLEAN
  BY DEF ScanInv
<1>3. PICK killed \in ScanRuns : killed = Forgotten("killed")
  BY ForgottenSound
<1>4. killed.pc = "killed" /\ killed.results = <<>>
  BY <1>3, ForgottenSound
<1>5. \A s \in Sockets : scan'[s] = IF sock[s] = "unused" THEN IdleRun ELSE killed
  BY <1>1, <1>2, <1>3 DEF RunInv
<1>6. IdleRun = Forgotten("idle") /\ IdleRun.pc = "idle" /\ IdleRun.results = <<>>
  BY DEF IdleRun, Forgotten
<1>7. IdleRun \in ScanRuns
  BY <1>6, ForgottenSound
<1>8. scan' \in [Sockets -> ScanRuns]
  <2>1. DOMAIN scan' = Sockets /\ scan' = [s \in Sockets |-> scan'[s]]
    BY <1>1
  <2>2. QED
    BY <1>3, <1>5, <1>7, <2>1
<1>9. inflight' \in [Sockets -> Seq(ScanRequests)]
  <2>1. <<>> \in Seq(ScanRequests)
    OBVIOUS
  <2>2. QED
    BY <1>1, <2>1
<1>10. sock' \in [Sockets -> SocketState] /\ \A s \in Sockets : sock'[s] = "unused" <=> sock[s] = "unused"
  BY <1>1, <1>2 DEF Down, ServerTypeOK, SocketState
<1>11. ServerTypeOK'
  <2>1. 0 \in 0..MaxLate
    BY BoundsAssumption
  <2>2. late' \in [Sockets -> 0..MaxLate]
    BY <1>1, <2>1
  <2>3. QED
    BY <1>1, <1>10, <2>2 DEF ServerTypeOK
<1>12. ASSUME NEW s \in Sockets PROVE RunInv(s)'
  <2>1. inflight'[s] = <<>>
    BY <1>1
  <2>2. CASE sock[s] = "unused"
    BY <1>5, <1>6, <2>1, <2>2, ForgottenRun
  <2>3. CASE sock[s] # "unused"
    <3>1. scan'[s] = Forgotten("killed") /\ sock'[s] # "unused"
      BY <1>3, <1>5, <1>10, <2>3
    <3>2. QED
      BY <2>1, <3>1, ForgottenRun
  <2>4. QED
    BY <2>2, <2>3
<1>13. Runs' = {}
  BY <1>4, <1>5, <1>6 DEF Runs
<1>14. /\ file'.results \in Seq(FileResults)
       /\ NothingWanted => file'.results = <<>>
       /\ FileKept
  BY <1>1, <1>2, SavedByHandlers
<1>15. FileInv'
  <2>1. NothingWanted' <=> NothingWanted
    BY <1>1 DEF NothingWanted
  <2>2. \A s \in Sockets : scan'[s].results = <<>> /\ scan'[s].pc \in {"idle", "killed"}
    BY <1>4, <1>5, <1>6
  <2>3. <<>> \in Seq(ScanResults)
    OBVIOUS
  <2>4. QED
    BY <1>1, <1>13, <1>14, <2>1, <2>2, <2>3 DEF FileInv
<1>16. ASSUME NEW s \in Sockets PROVE ScanAdvances(s)
  <2>1. CASE sock[s] = "unused"
    BY <1>1, <2>1 DEF ScanAdvances
  <2>2. CASE sock[s] # "unused" /\ scan[s].pc \in {"done", "over"}
    BY <1>4, <1>5, <2>2 DEF ScanAdvances
  <2>3. CASE sock[s] # "unused" /\ scan[s].pc = "killed"
    <3>1. scan[s] = Forgotten("killed")
      BY <1>2, <2>3 DEF RunInv, Standing
    <3>2. QED
      BY <1>3, <1>5, <2>3, <3>1 DEF ScanAdvances
  <2>4. CASE sock[s] # "unused" /\ scan[s].pc \notin {"done", "over", "killed"}
    <3>1. Further(scan[s], killed) /\ scan[s].pc \notin Over /\ scan[s] \in ScanRuns
      BY <1>2, <1>4, <2>4 DEF Further, Over
    <3>2. Before(Progress(scan[s]), Progress(killed))
      BY <3>1, Ahead
    <3>3. QED
      BY <1>5, <2>4, <3>2 DEF ScanAdvances
  <2>5. QED
    BY <2>1, <2>2, <2>3, <2>4
<1>17. QED
  BY <1>1, <1>2, <1>8, <1>9, <1>11, <1>12, <1>14, <1>15, <1>16 DEF ScanInv

\* The tool is started once more.
LEMMA RestartKeeps ==
  ASSUME ScanInv, Restart
  PROVE  ScanInv' /\ FileKept /\ \A r \in Sockets : ScanAdvances(r)
<1>1. resumeArg' = TRUE /\ UNCHANGED <<sock, activeSocket, disconnected, inflight, late, scan, file, allResults, cut>>
  BY DEF Restart, serverVars, wireVars
<1>2. \A r \in Sockets : RunInv(r)'
  BY <1>1, QuietRun DEF ScanInv
<1>3. FileInv'
  <2>1. Runs' = Runs /\ (OneRun' <=> OneRun) /\ ~ NothingWanted'
    BY <1>1 DEF Runs, OneRun, NothingWanted
  <2>2. QED
    BY <1>1, <2>1 DEF ScanInv, FileInv
<1>4. FileKept
  BY <1>1, SameKept DEF ScanInv, FileInv
<1>5. QED
  BY <1>1, <1>2, <1>3, <1>4 DEF ScanInv, ServerTypeOK, ScanAdvances

------------------------------------------------------------------------------
(* The theorems.                                                           *)

scanSystemVars == <<serverVars, wireVars, scanVars>>

\* The invariant holds when the tool starts for the first time.
LEMMA ScanInitInv == ServerInit /\ ScanInit => ScanInv
<1> SUFFICES ASSUME ServerInit, ScanInit PROVE ScanInv
  OBVIOUS
<1>1. IdleRun \in ScanRuns /\ IdleRun = Forgotten("idle")
  BY ForgottenSound DEF IdleRun, Forgotten
<1>2. PICK idle \in ScanRuns : idle = Forgotten("idle")
  BY <1>1
<1>3. scan = [s \in Sockets |-> idle]
  BY <1>1, <1>2 DEF ScanInit
<1>4. /\ idle.pc = "idle" /\ idle.results = <<>> /\ idle.loaded = 0
      /\ InPlace(idle) /\ Counted(idle) /\ Justified(idle) /\ Standing(idle) /\ SoFar(idle)
  BY <1>2, ForgottenSound
<1>5. ServerTypeOK
  <2>1. 0 \in 0..MaxLate
    BY BoundsAssumption
  <2>2. late \in [Sockets -> 0..MaxLate]
    BY <2>1 DEF ServerInit
  <2>3. QED
    BY <2>2 DEF ServerInit, ServerTypeOK, SocketState
<1>6. <<>> \in Seq(ScanRequests) /\ <<>> \in Seq(ScanResults) /\ <<>> \in Seq(FileResults)
  OBVIOUS
<1>7. inflight \in [Sockets -> Seq(ScanRequests)]
  BY <1>6 DEF ServerInit
<1>8. ASSUME NEW s \in Sockets PROVE RunInv(s)
  <2>1. scan[s] = idle /\ inflight[s] = <<>> /\ idle = IdleRun
    BY <1>1, <1>2, <1>3 DEF ServerInit
  <2>2. ScanHonest(s)
    <3>1. Len(<<>>) = 0 /\ (0 + 1)..0 = {}
      OBVIOUS
    <3>2. QED
      BY <1>4, <2>1, <3>1 DEF ScanHonest
  <2>3. QED
    BY <1>4, <2>1, <2>2 DEF RunInv
<1>9. FileInv
  <2>1. Runs = {} /\ file.results = <<>> /\ allResults = <<>>
    BY <1>3, <1>4 DEF Runs, ScanInit, NoFile
  <2>2. \A s \in Sockets : scan[s].results = <<>> /\ scan[s].pc = "idle"
    BY <1>3, <1>4
  <2>3. QED
    BY <1>6, <2>1, <2>2 DEF FileInv
<1>10. QED
  BY <1>2, <1>3, <1>5, <1>7, <1>8, <1>9 DEF ScanInv, ScanInit

\* Every step of the tool keeps the invariant and the file, and takes no run back.
LEMMA ScanStep ==
  ASSUME ScanInv, [ScanNext]_scanSystemVars
  PROVE  ScanInv' /\ FileKept /\ \A s \in Sockets : ScanAdvances(s)
<1>1. CASE UNCHANGED scanSystemVars
  <2>1. UNCHANGED <<scan, cut, resumeArg, allResults, late, running, file, inflight, sock, activeSocket, disconnected>>
    BY <1>1 DEF scanSystemVars, serverVars, wireVars, scanVars
  <2>2. inflight' \in [Sockets -> Seq(ScanRequests)] /\ ServerTypeOK'
    BY <2>1 DEF ScanInv, ServerTypeOK
  <2>3. QED
    BY <2>1, <2>2, QuietStep
<1>2. CASE Interrupt
  BY <1>2, InterruptKeeps
<1>3. CASE Restart
  BY <1>3, RestartKeeps
<1>4. ASSUME NEW s \in Sockets,
             \/ AcceptMeter(s) \/ RejectMeter(s) \/ CloseMeter(s) \/ FailMeter(s)
             \/ Heartbeat(s) \/ RunBruteForceScan(s) \/ Deliver(s) \/ Timeout(s) \/ Wake(s)
      PROVE  ScanInv' /\ FileKept /\ \A r \in Sockets : ScanAdvances(r)
  <2>1. CASE RunBruteForceScan(s) \/ Timeout(s) \/ Wake(s)
    <3>1. Taken(s)
      BY <2>1, StartTaken, TimeoutTaken, WakeTaken
    <3>2. QED
      BY <3>1, TakenKeeps
  <2>2. QED
    BY <1>4, <2>1, AcceptKeeps, LeaveKeeps, HeartbeatKeeps, DeliverKeeps
<1>5. QED
  BY <1>1, <1>2, <1>3, <1>4 DEF ScanNext

\* Whoever keeps the invariant justifies its skips.
LEMMA InvJustifies == ScanInv => SkipsJustified
<1> SUFFICES ASSUME ScanInv, NEW s \in Sockets,
                    NEW i \in (scan[s].loaded + 1)..Len(scan[s].results),
                    scan[s].results[i].result = "skipped"
             PROVE  \E first \in (scan[s].loaded + 1)..i :
                        /\ Cardinality(Asked(scan[s].results, Group(scan[s].results[i].probe),
                                             scan[s].results[i].phase, first..(i - 1)))
                                >= GroupExhaustThreshold
                        /\ \A k \in Asked(scan[s].results, Group(scan[s].results[i].probe),
                                          scan[s].results[i].phase, first..(i - 1)) :
                                scan[s].results[k].result = "undefined"
  BY DEF SkipsJustified
<1>1. EnoughBefore(scan[s], i)
  BY DEF ScanInv, RunInv, Justified
<1>2. QED
  BY <1>1 DEF EnoughBefore, Streak

\* Whoever keeps the invariant and is done has a result for every probe it should have.
LEMMA InvCompletes == ScanInv => CompleteUnlessRefused
<1> SUFFICES ASSUME ScanInv, NEW s \in Sockets, scan[s].pc = "done", s \notin cut
             PROVE  /\ Filtered(Phase1Probes, scan[s].results) = <<>>
                    /\ \E n \in scan[s].loaded..Len(scan[s].results) :
                        /\ InTwoPhases(scan[s], n)
                        /\ Filtered(GeneratePhase2Probes(SubSeq(scan[s].results, 1, n)),
                                    scan[s].results) = <<>>
  BY DEF CompleteUnlessRefused
<1>1. PICK run \in ScanRuns : run = scan[s]
  BY DEF ScanInv
<1>2. Whole(run) /\ InPlace(run)
  BY <1>1 DEF ScanInv, RunInv, SoFar
<1>3. Filtered(Phase1Probes, run.results) = <<>>
  BY <1>2, PhaseOneProbes, NothingLeft DEF Whole
<1>4. PICK n \in run.loaded..Len(run.results) : InTwoPhases(run, n) /\ ~ Lacks(Near(run.results, n), run.results)
  BY <1>2 DEF Whole
<1>5. Filtered(Near(run.results, n), run.results) = <<>>
  <2>1. run.results \in Seq(ScanResults) /\ run.loaded \in Nat
    BY DEF ScanRuns
  <2>2. PICK results \in Seq(ScanResults) : results = run.results
    BY <2>1
  <2>3. n \in 0..Len(results)
    BY <1>4, <2>1, <2>2
  <2>4. Near(results, n) \in Seq(ScanProbes)
    <3>1. PICK some : some = SubSeq(results, 1, n)
      OBVIOUS
    <3>2. some \in Seq(ScanResults)
      BY <2>3, <3>1
    <3>3. Len(some) \in Nat /\ \A i \in 1..Len(some) : some[i].probe.c \in 0..MaxC
      <4>1. \A r \in ScanResults : r.probe.c \in 0..MaxC
        BY DEF ScanResults, ScanProbes
      <4>2. QED
        BY <3>2, <4>1
    <3>4. GeneratePhase2Probes(some) \in Seq(ScanProbes)
      BY <3>3, PhaseTwoProbes
    <3>5. QED
      BY <3>1, <3>4 DEF Near
  <2>5. QED
    BY <1>4, <2>2, <2>4, NothingLeft
<1>6. QED
  BY <1>1, <1>3, <1>4, <1>5 DEF Near

\* In every reachable state a run's counters are the streaks its results end with, nothing
\* but the answer it waits for is on its way to it unless one came late, the probes of its
\* phase have a result or are still in its list, and the file lists the first of its results.
THEOREM ScanInvariance == ScanSpec => []ScanInv
BY ScanInitInv, ScanStep, PTL DEF ScanSpec, scanSystemVars

\* runScanPhase gives a group up only after GroupExhaustThreshold undefined answers in a row.
THEOREM SkipsAlwaysJustified == ScanSpec => []SkipsJustified
BY ScanInvariance, InvJustifies, PTL

\* A scan that was never cut short leaves no probe of either phase without a result.
THEOREM CompleteAlways == ScanSpec => []CompleteUnlessRefused
BY ScanInvariance, InvCompletes, PTL

\* In a process with one run, saveResults and the handlers of 'close' and Ctrl+C only add
\* to what the file lists, over any number of resumed scans, and keep the values it has of
\* the results that the run did not load from it.
THEOREM SavedResultsAlwaysKept == ScanSpec => SavedResultsKept
<1>1. ScanInv /\ [ScanNext]_<<serverVars, wireVars, scanVars>> =>
        [ \/ /\ Lists(file.results, file'.results)
             /\ \A i \in DOMAIN file.results :
                    file.results[i].value => file'.results[i].value \/ Resumed(i)'
          \/ \E r, q \in Runs : r # q ]_<<serverVars, wireVars, scanVars>>
  <2> SUFFICES ASSUME ScanInv, [ScanNext]_scanSystemVars
               PROVE  Keeping \/ \E r, q \in Runs : r # q
    BY DEF scanSystemVars, Keeping
  <2>1. FileKept
    BY ScanStep
  <2>2. QED
    BY <2>1 DEF FileKept, OneRun
<1>2. QED
  BY <1>1, ScanInvariance, PTL DEF ScanSpec, SavedResultsKept

\* No step of the brute-force scan, session renewals included, takes a run back.
THEOREM ScanRunsAdvance ==
  ScanSpec => [][\A s \in Sockets : ScanAdvances(s)]_<<serverVars, wireVars, scanVars>>
<1>1. ScanInv /\ [ScanNext]_<<serverVars, wireVars, scanVars>> =>
        [\A s \in Sockets : ScanAdvances(s)]_<<serverVars, wireVars, scanVars>>
  BY ScanStep DEF scanSystemVars
<1>2. QED
  BY <1>1, ScanInvariance, PTL DEF ScanSpec

------------------------------------------------------------------------------
(* The three tools together.                                               *)

\* Some connection is lost.
Lost == \E r \in Sockets : sock[r] \in {"failed", "closed"}

ServerInv ==
    /\ sock \in [Sockets -> SocketState]
    /\ disconnected => Lost

ProbeRuns ==
    [pc : ProbeAwaits \cup ProbeSleeps \cup {"idle", "done", "failed"}, code : Nat, class : Nat,
     found : BOOLEAN, count : Nat, address : Nat]

\* The awaits at which a run holds no association that it knows of.
Free == {"idle", "armed", "lnRelease", "snPause", "snRelease"}

\* What a run may hold at an await, of the associations it knows of: the one that is asked
\* for is among the accepted ones as long as its AARE was not taken.
Holds(pc, held, acc) ==
    /\ \E x : held \subseteq {x}
    /\ pc \in Free => held = {}
    /\ pc \in Aarqs => held \subseteq {pc} /\ held \subseteq acc

Counting == {"lnGet", "lnClassGap", "lnGap", "lnRelease", "done", "failed"}

\* The run holds what its await says, and what it counts is what it has found.
RunSound(s, run, held, acc) ==
    /\ Holds(run.pc, held, acc)
    /\ run.pc = "done" => held = {} \/ Lost
    /\ run.pc \notin Counting => run.count = 0
    /\ run.count = 0 => ~ \E r \in lnResults : r.run = s /\ r.result = "success"

ProbeInv ==
    /\ probe \in [Sockets -> ProbeRuns]
    /\ accepted \in [Sockets -> SUBSET Aarqs]
    /\ granted \in [Sockets -> SUBSET Aarqs]
    /\ unheard \in [Sockets -> SUBSET Aarqs]
    /\ \A s \in Sockets : RunSound(s, probe[s], granted[s] \ unheard[s], accepted[s])

------------------------------------------------------------------------------
(* The server.                                                             *)

\* The server's handlers keep its invariant, and no connection that is lost comes back.
LEMMA ServerSteps ==
  ASSUME ServerInv, NEW s \in Sockets,
         UNCHANGED serverVars \/ Reject(s) \/ Accept(s) \/ Close(s) \/ Fail(s)
  PROVE  ServerInv' /\ (Lost => Lost')
<1>1. CASE UNCHANGED serverVars
  BY <1>1 DEF serverVars, ServerInv, Lost
<1>2. CASE Reject(s)
  BY <1>2 DEF Reject, ServerInv, Lost, SocketState
<1>3. CASE Accept(s)
  BY <1>3 DEF Accept, ServerInv, Lost, SocketState
<1>4. CASE Close(s)
  BY <1>4 DEF Close, Forget, ServerInv, Lost, SocketState
<1>5. CASE Fail(s)
  BY <1>5 DEF Fail, Forget, ServerInv, Lost, SocketState
<1>6. QED
  BY <1>1, <1>2, <1>3, <1>4, <1>5

\* The chain of a scan's operators ends in Await, which leaves the server's variables.
LEMMA AwaitKeepsServer ==
  ASSUME NEW s, NEW run, NEW rest
  PROVE  /\ FinishScan(s, run, rest) => UNCHANGED serverVars
         /\ \A save : AfterPhase(s, run, rest, save) => UNCHANGED serverVars
         /\ EndPhase(s, run, rest) => UNCHANGED serverVars
         /\ Ask(s, run, rest) => UNCHANGED serverVars
         /\ GoOn(s, run, rest) => UNCHANGED serverVars
         /\ BeginScan(s, run, rest) => UNCHANGED serverVars
         /\ NotOpened(s, run, rest) => UNCHANGED serverVars
         /\ \A result, of : Record(s, run, rest, result, of) => UNCHANGED serverVars
<1>1. \A r, w, request, save : Await(s, r, w, request, save) => UNCHANGED serverVars
  BY DEF Await
<1>2. \A r, w : FinishScan(s, r, w) => UNCHANGED serverVars
  BY <1>1 DEF FinishScan
<1>3. \A r, w, phase, probes, save : BeginPhase(s, r, w, phase, probes, save) => UNCHANGED serverVars
  BY <1>1 DEF BeginPhase
<1>4. \A r, w, save : AfterPhase(s, r, w, save) => UNCHANGED serverVars
  BY <1>1, <1>2, <1>3 DEF AfterPhase
<1>5. \A r, w : EndPhase(s, r, w) => UNCHANGED serverVars
  BY <1>1, <1>4 DEF EndPhase
<1>6. \A r, w : Ask(s, r, w) => UNCHANGED serverVars
  BY <1>1 DEF Ask
<1>7. \A r, w : GoOn(s, r, w) => UNCHANGED serverVars
  BY <1>1, <1>5, <1>6 DEF GoOn
<1>8. BeginScan(s, run, rest) => UNCHANGED serverVars
  BY <1>3, <1>4 DEF BeginScan
<1>9. NotOpened(s, run, rest) => UNCHANGED serverVars
  BY <1>4, <1>5 DEF NotOpened
<1>10. \A result, of : Record(s, run, rest, result, of) => UNCHANGED serverVars
  BY <1>1 DEF Record
<1>11. QED
  BY <1>2, <1>4, <1>5, <1>6, <1>7, <1>8, <1>9, <1>10

\* What a scan does to the server's variables.
LEMMA ScanKeepsServer ==
  ASSUME ServerInv, ScanNext
  PROVE  ServerInv' /\ (Lost => Lost')
<1>1. ASSUME NEW s \in Sockets, RunBruteForceScan(s) PROVE UNCHANGED serverVars
  BY <1>1, AwaitKeepsServer DEF RunBruteForceScan
<1>2. ASSUME NEW s \in Sockets, Deliver(s) PROVE UNCHANGED serverVars
  <2>1. ASSUME NEW answer, Answered(s, answer) PROVE UNCHANGED serverVars
    <3>1. \A rest : Opened(s, scan[s], rest) => UNCHANGED serverVars
      BY AwaitKeepsServer DEF Opened
    <3>2. QED
      BY <2>1, <3>1, AwaitKeepsServer DEF Answered
  <2>2. QED
    BY <1>2, <2>1 DEF Deliver, Lose
<1>3. ASSUME NEW s \in Sockets, Timeout(s) PROVE UNCHANGED serverVars
  BY <1>3, AwaitKeepsServer DEF Timeout
<1>4. ASSUME NEW s \in Sockets, Wake(s) PROVE UNCHANGED serverVars
  <2>1. \A run, request, save : Await(s, run, inflight[s], request, save) => UNCHANGED serverVars
    BY DEF Await
  <2>2. QED
    BY <1>4, <2>1, AwaitKeepsServer DEF Wake, Woken
<1>5. ASSUME NEW s \in Sockets,
             AcceptMeter(s) \/ RejectMeter(s) \/ CloseMeter(s) \/ FailMeter(s) \/ Heartbeat(s)
      PROVE  ServerInv' /\ (Lost => Lost')
  BY <1>5, ServerSteps DEF AcceptMeter, RejectMeter, CloseMeter, FailMeter, Heartbeat
<1>6. CASE Interrupt
  BY <1>6 DEF Interrupt, Down, ServerInv, Lost, SocketState
<1>7. CASE Restart
  BY <1>7 DEF Restart, serverVars, ServerInv, Lost
<1>8. UNCHANGED serverVars => ServerInv' /\ (Lost => Lost')
  BY DEF serverVars, ServerInv, Lost
<1>9. QED
  BY <1>1, <1>2, <1>3, <1>4, <1>5, <1>6, <1>7, <1>8 DEF ScanNext

------------------------------------------------------------------------------
(* The OBIS probe: the associations of a run.                              *)

\* The associations of a connection become these.
Become(s, acc, gra, unh) ==
    /\ accepted' = [accepted EXCEPT ![s] = acc]
    /\ granted' = [granted EXCEPT ![s] = gra]
    /\ unheard' = [unheard EXCEPT ![s] = unh]

\* A step that takes one run on.
LEMMA RunStep ==
  ASSUME ServerInv, ProbeInv, NEW s \in Sockets, NEW run \in ProbeRuns,
         NEW acc \in SUBSET Aarqs, NEW gra \in SUBSET Aarqs, NEW unh \in SUBSET Aarqs,
         UNCHANGED serverVars, Become(s, acc, gra, unh),
         probe' = [probe EXCEPT ![s] = run],
         \A r \in lnResults' \ lnResults : r.run = s,
         RunSound(s, run, gra \ unh, acc)'
  PROVE  ProbeInv'
<1>1. \A q \in Sockets : /\ probe'[q] = IF q = s THEN run ELSE probe[q]
                         /\ accepted'[q] = IF q = s THEN acc ELSE accepted[q]
                         /\ granted'[q] = IF q = s THEN gra ELSE granted[q]
                         /\ unheard'[q] = IF q = s THEN unh ELSE unheard[q]
  BY DEF ProbeInv, Become
<1>2. Lost' <=> Lost
  BY DEF serverVars, Lost
<1>3. \A d, held, have : \A q \in Sockets \ {s} :
            RunSound(q, d, held, have) => RunSound(q, d, held, have)'
  BY <1>2 DEF RunSound
<1>4. ASSUME NEW q \in Sockets
      PROVE  RunSound(q, probe[q], granted[q] \ unheard[q], accepted[q])'
  <2>1. CASE q = s
    BY <1>1, <2>1
  <2>2. CASE q # s
    <3>1. RunSound(q, probe[q], granted[q] \ unheard[q], accepted[q])
      BY DEF ProbeInv
    <3>2. PICK d, held, have : /\ d = probe[q] /\ held = granted[q] \ unheard[q]
                               /\ have = accepted[q]
      OBVIOUS
    <3>3. RunSound(q, d, held, have)'
      BY <1>3, <2>2, <3>1, <3>2
    <3>4. probe'[q] = d /\ granted'[q] \ unheard'[q] = held /\ accepted'[q] = have
      BY <1>1, <2>2, <3>2
    <3>5. QED
      BY <3>3, <3>4
  <2>3. QED
    BY <2>1, <2>2
<1>5. /\ probe' \in [Sockets -> ProbeRuns] /\ accepted' \in [Sockets -> SUBSET Aarqs]
      /\ granted' \in [Sockets -> SUBSET Aarqs] /\ unheard' \in [Sockets -> SUBSET Aarqs]
  BY DEF ProbeInv, Become
<1>6. QED
  BY <1>4, <1>5 DEF ProbeInv

\* The same for a step that finds nothing and counts nothing.
LEMMA PcStep ==
  ASSUME ServerInv, ProbeInv, NEW s \in Sockets, NEW run \in ProbeRuns,
         NEW pc \in ProbeAwaits \cup ProbeSleeps \cup {"done", "failed"},
         NEW acc \in SUBSET Aarqs, NEW gra \in SUBSET Aarqs, NEW unh \in SUBSET Aarqs,
         UNCHANGED <<serverVars, lnResults>>,
         run.count = probe[s].count,
         probe' = [probe EXCEPT ![s] = [run EXCEPT !.pc = pc]],
         Become(s, acc, gra, unh),
         Holds(pc, gra \ unh, acc),
         pc = "done" => gra \ unh = {} \/ disconnected,
         pc \notin Counting => probe[s].pc \notin Counting \/ probe[s].count = 0
  PROVE  ProbeInv'
<1>1. PICK d : d = [run EXCEPT !.pc = pc] /\ d \in ProbeRuns /\ d.pc = pc /\ d.count = run.count
  <2>1. [run EXCEPT !.pc = pc] \in ProbeRuns
    BY DEF ProbeRuns
  <2>2. [run EXCEPT !.pc = pc].pc = pc /\ [run EXCEPT !.pc = pc].count = run.count
    BY DEF ProbeRuns
  <2>3. QED
    BY <2>1, <2>2
<1>2. PICK held : held = gra \ unh
  OBVIOUS
<1>3. /\ probe[s].pc \notin Counting => probe[s].count = 0
      /\ probe[s].count = 0 => ~ \E r \in lnResults : r.run = s /\ r.result = "success"
  BY DEF ProbeInv, RunSound
<1>4. disconnected => Lost'
  BY DEF ServerInv, serverVars, Lost
<1>5. Holds(d.pc, held, acc)
  BY <1>1, <1>2
<1>6. d.pc = "done" => held = {} \/ Lost'
  BY <1>1, <1>2, <1>4
<1>7. d.pc \notin Counting => d.count = 0
  BY <1>1, <1>3
<1>8. d.count = 0 => ~ \E r \in lnResults' : r.run = s /\ r.result = "success"
  BY <1>1, <1>3
<1>9. RunSound(s, d, held, acc)'
  BY <1>5, <1>6, <1>7, <1>8 DEF RunSound
<1>10. QED
  BY <1>1, <1>2, <1>9, RunStep

\* The associations of a connection, which a step leaves as they are.
LEMMA Remain ==
  ASSUME ProbeInv, NEW s \in Sockets, UNCHANGED associations
  PROVE  /\ accepted[s] \in SUBSET Aarqs /\ granted[s] \in SUBSET Aarqs
         /\ unheard[s] \in SUBSET Aarqs /\ Become(s, accepted[s], granted[s], unheard[s])
BY DEF ProbeInv, associations, Become

\* A step that leaves the associations alone.
LEMMA PcKept ==
  ASSUME ServerInv, ProbeInv, NEW s \in Sockets, NEW run \in ProbeRuns,
         NEW pc \in (ProbeAwaits \ Aarqs) \cup ProbeSleeps \cup {"done", "failed"},
         UNCHANGED <<serverVars, lnResults>>, KeepGranted,
         run.count = probe[s].count,
         probe' = [probe EXCEPT ![s] = [run EXCEPT !.pc = pc]],
         pc \in Free => probe[s].pc \in Free,
         pc = "done" => probe[s].pc \in Free \/ disconnected,
         pc \notin Counting => probe[s].pc \notin Counting \/ probe[s].count = 0
  PROVE  ProbeInv'
<1>1. PICK acc \in SUBSET Aarqs, gra \in SUBSET Aarqs, unh \in SUBSET Aarqs :
            /\ acc = accepted[s] /\ gra = granted[s] /\ unh = unheard[s]
            /\ Become(s, acc, gra, unh)
  BY Remain DEF KeepGranted
<1>2. Holds(probe[s].pc, gra \ unh, acc)
  BY <1>1 DEF ProbeInv, RunSound
<1>3. Holds(pc, gra \ unh, acc) /\ (pc = "done" => gra \ unh = {} \/ disconnected)
  <2>1. pc \notin Aarqs
    BY DEF ProbeSleeps, Aarqs
  <2>2. QED
    BY <1>2, <2>1 DEF Holds
<1>4. pc \in ProbeAwaits \cup ProbeSleeps \cup {"done", "failed"}
  OBVIOUS
<1>5. QED
  BY <1>1, <1>3, <1>4, PcStep

\* A step behind which the run holds nothing it knows of.
LEMMA PcFree ==
  ASSUME ServerInv, ProbeInv, NEW s \in Sockets, NEW run \in ProbeRuns,
         NEW pc \in ProbeAwaits \cup ProbeSleeps \cup {"done", "failed"},
         NEW acc \in SUBSET Aarqs, NEW gra \in SUBSET Aarqs, NEW unh \in SUBSET Aarqs,
         UNCHANGED <<serverVars, lnResults>>,
         run.count = probe[s].count,
         probe' = [probe EXCEPT ![s] = [run EXCEPT !.pc = pc]],
         Become(s, acc, gra, unh), gra \subseteq unh,
         pc \notin Counting => probe[s].pc \notin Counting \/ probe[s].count = 0
  PROVE  ProbeInv'
<1>1. gra \ unh = {}
  OBVIOUS
<1>2. Holds(pc, gra \ unh, acc)
  BY <1>1 DEF Holds
<1>3. QED
  BY <1>1, <1>2, PcStep

\* releaseAssociation.
LEMMA ReleaseKeepsInv ==
  ASSUME ServerInv, ProbeInv, NEW s \in Sockets, NEW run \in ProbeRuns, NEW rest,
         NEW pc \in {"lnRelease", "snRelease"},
         run.count = probe[s].count, ReleaseAssociation(s, run, rest, pc), UNCHANGED lnResults,
         pc \notin Counting => probe[s].pc \notin Counting \/ probe[s].count = 0
  PROVE  ProbeInv'
<1>1. PICK acc \in SUBSET Aarqs : acc = accepted[s] /\ accepted = [accepted EXCEPT ![s] = acc]
  BY DEF ProbeInv
<1>2. Become(s, acc, {}, {})
  BY <1>1 DEF ReleaseAssociation, Become
<1>3. /\ UNCHANGED serverVars
      /\ probe' = [probe EXCEPT ![s] = [run EXCEPT !.pc = pc]]
  BY DEF ReleaseAssociation, Pause, AwaitNext
<1>4. pc \in ProbeAwaits \cup ProbeSleeps \cup {"done", "failed"} /\ {} \in SUBSET Aarqs
  BY DEF ProbeSleeps
<1>5. QED
  BY <1>2, <1>3, <1>4, PcFree

\* The same for a step that lists a result for the probe of lnGet.
LEMMA ResultStep ==
  ASSUME ServerInv, ProbeInv, NEW s \in Sockets, probe[s].pc = "lnGet",
         NEW result \in {"success", "undefined", "denied", "timeout"}, NEW of,
         LnResult(s, result, of),
         NEW d \in ProbeRuns, d.count >= probe[s].count, result = "success" => d.count > 0,
         d.pc \in {"lnClassGap", "lnGap"},
         probe' = [probe EXCEPT ![s] = d], UNCHANGED serverVars, KeepGranted
  PROVE  ProbeInv'
<1>1. PICK acc \in SUBSET Aarqs, gra \in SUBSET Aarqs, unh \in SUBSET Aarqs :
            /\ acc = accepted[s] /\ gra = granted[s] /\ unh = unheard[s]
            /\ Become(s, acc, gra, unh)
  BY Remain DEF KeepGranted
<1>2. /\ Holds(probe[s].pc, gra \ unh, acc) /\ probe[s] \in ProbeRuns
      /\ probe[s].count = 0 => ~ \E r \in lnResults : r.run = s /\ r.result = "success"
  BY <1>1 DEF ProbeInv, RunSound
<1>3. Holds(d.pc, gra \ unh, acc)
  BY <1>2 DEF Holds, Free, Aarqs
<1>4. \A r \in lnResults' \ lnResults : r.run = s /\ r.result = result
  BY DEF LnResult
<1>5. probe[s].count \in Nat /\ d.count \in Nat
  BY <1>2 DEF ProbeRuns
<1>6. d.count = 0 => probe[s].count = 0 /\ result # "success"
  BY <1>5
<1>7. d.count = 0 => ~ \E r \in lnResults' : r.run = s /\ r.result = "success"
  BY <1>2, <1>4, <1>6, Zenon
<1>8. PICK held : held = gra \ unh
  OBVIOUS
<1>9. RunSound(s, d, held, acc)'
  BY <1>3, <1>7, <1>8 DEF RunSound, Counting
<1>10. QED
  BY <1>1, <1>4, <1>8, <1>9, RunStep

\* The head of the loop over the codes.
LEMMA LnProbeKeepsInv ==
  ASSUME ServerInv, ProbeInv, NEW s \in Sockets, NEW run \in ProbeRuns, NEW rest,
         run.count = probe[s].count,
         LnProbe(s, run, rest), UNCHANGED lnResults
  PROVE  ProbeInv'
<1>1. CASE AwaitNext(s, [run EXCEPT !.pc = "lnGet"], rest, LnRequest(run)) /\ KeepGranted
  <2>1. "lnGet" \in (ProbeAwaits \ Aarqs) \cup ProbeSleeps \cup {"done", "failed"}
    BY DEF ProbeAwaits, Aarqs
  <2>2. QED
    BY <1>1, <2>1, PcKept DEF AwaitNext, Counting, Free
<1>2. CASE ReleaseAssociation(s, run, rest, "lnRelease")
  BY <1>2, ReleaseKeepsInv DEF Counting
<1>3. CASE disconnected /\ Pause(s, run, rest, "done") /\ KeepGranted
  BY <1>3, PcKept DEF Pause, AwaitNext, Counting, Free
<1>4. QED
  BY <1>1, <1>2, <1>3 DEF LnProbe

\* The head of the loop over the addresses.
LEMMA SnProbeKeepsInv ==
  ASSUME ServerInv, ProbeInv, NEW s \in Sockets, NEW run \in ProbeRuns, NEW rest,
         run.count = probe[s].count, probe[s].pc \notin Counting,
         SnProbe(s, run, rest), UNCHANGED lnResults
  PROVE  ProbeInv'
<1>1. CASE AwaitNext(s, [run EXCEPT !.pc = "snRead"], rest, SnRequest(run)) /\ KeepGranted
  <2>1. "snRead" \in (ProbeAwaits \ Aarqs) \cup ProbeSleeps \cup {"done", "failed"}
    BY DEF ProbeAwaits, Aarqs
  <2>2. QED
    BY <1>1, <2>1, PcKept DEF AwaitNext, Free
<1>2. CASE ReleaseAssociation(s, run, rest, "snRelease")
  BY <1>2, ReleaseKeepsInv
<1>3. CASE disconnected /\ Pause(s, run, rest, "done") /\ KeepGranted
  BY <1>3, PcKept DEF Pause, AwaitNext, Counting, Free
<1>4. QED
  BY <1>1, <1>2, <1>3 DEF SnProbe

\* What an AARQ does to the associations: it is accepted and granted, or neither.
LEMMA AssociateDoes ==
  ASSUME ProbeInv, NEW s \in Sockets, NEW run, NEW rest, NEW pc \in Aarqs,
         Associate(s, run, rest, pc)
  PROVE  /\ UNCHANGED serverVars /\ probe' = [probe EXCEPT ![s] = [run EXCEPT !.pc = pc]]
         /\ \E acc \in SUBSET Aarqs, gra \in SUBSET Aarqs :
              /\ accepted' = [accepted EXCEPT ![s] = acc]
              /\ granted' = [granted EXCEPT ![s] = gra]
              /\ \/ pc \in acc /\ gra = granted[s] \cup {pc}
                 \/ gra = granted[s]
<1>1. UNCHANGED serverVars /\ probe' = [probe EXCEPT ![s] = [run EXCEPT !.pc = pc]]
  BY DEF Associate, AwaitNext
<1>2. accepted[s] \in SUBSET Aarqs /\ granted[s] \in SUBSET Aarqs
  BY DEF ProbeInv
<1>3. CASE /\ accepted' = [accepted EXCEPT ![s] = @ \cup {pc}]
           /\ granted' = [granted EXCEPT ![s] = @ \cup {pc}]
  <2>1. PICK acc \in SUBSET Aarqs, gra \in SUBSET Aarqs :
            acc = accepted[s] \cup {pc} /\ gra = granted[s] \cup {pc}
    BY <1>2
  <2>2. QED
    BY <1>1, <1>3, <2>1
<1>4. CASE UNCHANGED <<accepted, granted>>
  <2>1. PICK acc \in SUBSET Aarqs, gra \in SUBSET Aarqs : acc = accepted[s] /\ gra = granted[s]
    BY <1>2
  <2>2. accepted' = [accepted EXCEPT ![s] = acc] /\ granted' = [granted EXCEPT ![s] = gra]
    BY <1>4, <2>1 DEF ProbeInv
  <2>3. QED
    BY <1>1, <2>1, <2>2
<1>5. QED
  BY <1>3, <1>4 DEF Associate

\* A run that holds nothing it knows of asks for an association.
LEMMA AssociateKeepsInv ==
  ASSUME ServerInv, ProbeInv, NEW s \in Sockets, NEW rest, NEW pc \in Aarqs,
         Associate(s, probe[s], rest, pc), UNCHANGED lnResults,
         NEW unh \in SUBSET Aarqs, unheard' = [unheard EXCEPT ![s] = unh],
         granted[s] \subseteq unh,
         probe[s].pc \notin Counting \/ probe[s].count = 0
  PROVE  ProbeInv'
<1>1. /\ UNCHANGED serverVars /\ probe' = [probe EXCEPT ![s] = [probe[s] EXCEPT !.pc = pc]]
      /\ \E acc \in SUBSET Aarqs, gra \in SUBSET Aarqs :
              /\ accepted' = [accepted EXCEPT ![s] = acc]
              /\ granted' = [granted EXCEPT ![s] = gra]
              /\ \/ pc \in acc /\ gra = granted[s] \cup {pc}
                 \/ gra = granted[s]
  BY AssociateDoes
<1>2. PICK acc \in SUBSET Aarqs, gra \in SUBSET Aarqs :
            /\ accepted' = [accepted EXCEPT ![s] = acc]
            /\ granted' = [granted EXCEPT ![s] = gra]
            /\ \/ pc \in acc /\ gra = granted[s] \cup {pc}
               \/ gra = granted[s]
  BY <1>1
<1>3. Become(s, acc, gra, unh)
  BY <1>2 DEF Become
<1>4. gra \ unh \subseteq {pc} /\ gra \ unh \subseteq acc
  BY <1>2
<1>5. pc \in ProbeAwaits \cup ProbeSleeps \cup {"done", "failed"} /\ pc \notin Free /\ pc # "done"
  BY DEF ProbeAwaits, Aarqs, Free
<1>6. Holds(pc, gra \ unh, acc)
  BY <1>4, <1>5 DEF Holds
<1>7. probe[s] \in ProbeRuns
  BY DEF ProbeInv
<1>8. QED
  BY <1>1, <1>3, <1>5, <1>6, <1>7, PcStep

\* An AARQ behind a sleep.
LEMMA AskKeepsInv ==
  ASSUME ServerInv, ProbeInv, NEW s \in Sockets, probe[s].pc \in {"armed", "snPause"},
         NEW rest, NEW pc \in Aarqs, Associate(s, probe[s], rest, pc),
         UNCHANGED <<unheard, lnResults>>
  PROVE  ProbeInv'
<1>1. RunSound(s, probe[s], granted[s] \ unheard[s], accepted[s])
  BY DEF ProbeInv
<1>2. granted[s] \subseteq unheard[s]
  BY <1>1 DEF RunSound, Holds, Free
<1>3. PICK unh \in SUBSET Aarqs : unh = unheard[s] /\ unheard' = [unheard EXCEPT ![s] = unh]
  BY DEF ProbeInv
<1>4. probe[s].pc \notin Counting \/ probe[s].count = 0
  BY DEF Counting
<1>5. granted[s] \subseteq unh /\ unheard' = [unheard EXCEPT ![s] = unh] /\ UNCHANGED lnResults
  BY <1>2, <1>3
<1>6. QED
  BY <1>4, <1>5, AssociateKeepsInv

\* The end of a sleep.
LEMMA WakeKeepsInv ==
  ASSUME ServerInv, ProbeInv, NEW s \in Sockets, WakeProbe(s)
  PROVE  ProbeInv'
<1> DEFINE run == probe[s]
           rest == inflight[s]
<1>1. /\ run \in ProbeRuns /\ RunSound(s, run, granted[s] \ unheard[s], accepted[s])
      /\ unheard[s] \in SUBSET Aarqs /\ unheard = [unheard EXCEPT ![s] = unheard[s]]
  BY DEF ProbeInv
<1>2. UNCHANGED lnResults
  BY DEF WakeProbe, NoResult
<1>3. NextCode(run) \in ProbeRuns /\ NextCode(run).count = run.count
  <2>1. \A r \in ProbeRuns : r.code + 1 \in Nat /\ 1 \in Nat
    BY DEF ProbeRuns
  <2>2. ASSUME NEW r \in ProbeRuns
        PROVE  NextCode(r) \in ProbeRuns /\ NextCode(r).count = r.count
    <3> DEFINE n == r.code + 1
    <3>1. n \in Nat
      BY <2>1
    <3>2. NextCode(r) = [r EXCEPT !.code = n, !.class = 1, !.found = FALSE]
      BY DEF NextCode
    <3> HIDE DEF n
    <3>3. [r EXCEPT !.code = n, !.class = 1, !.found = FALSE] \in ProbeRuns
      BY <2>1, <3>1 DEF ProbeRuns
    <3>4. [r EXCEPT !.code = n, !.class = 1, !.found = FALSE].count = r.count
      BY DEF ProbeRuns
    <3>5. QED
      BY <3>2, <3>3, <3>4
  <2>3. QED
    BY <1>1, <2>2
<1>4. [run EXCEPT !.address = @ + 1] \in ProbeRuns /\ [run EXCEPT !.address = @ + 1].count = run.count
  BY <1>1 DEF ProbeRuns
<1>5. ASSUME NEW pc \in Aarqs, run.pc \in {"armed", "snPause"}, Associate(s, run, rest, pc),
             UNCHANGED unheard
      PROVE  ProbeInv'
  BY <1>2, <1>5, AskKeepsInv
<1>6. CASE run.pc = "lnClassGap" /\ NextClass(s, run, rest)
  <2>1. CASE LnProbe(s, NextCode(run), rest)
    BY <1>2, <1>3, <2>1, LnProbeKeepsInv
  <2>2. CASE Pause(s, run, rest, "lnGap") /\ KeepGranted
    BY <1>1, <1>2, <2>2, PcKept DEF Pause, AwaitNext, ProbeSleeps, Counting, Free
  <2>3. ASSUME NEW next \in {[run EXCEPT !.class = @ + 1, !.pc = "lnGet"]},
               AwaitNext(s, next, rest, LnRequest(next)), KeepGranted
        PROVE  ProbeInv'
    <3>1. PICK d \in ProbeRuns : d.count = run.count /\ next = [d EXCEPT !.pc = "lnGet"]
      <4>1. PICK r \in ProbeRuns : r = run
        BY <1>1
      <4>2. PICK n \in Nat : n = r.class + 1
        BY DEF ProbeRuns
      <4>3. [r EXCEPT !.class = n] \in ProbeRuns /\ [r EXCEPT !.class = n].count = r.count
        BY DEF ProbeRuns
      <4>4. next = [r EXCEPT !.class = n, !.pc = "lnGet"]
        BY <2>3, <4>1, <4>2
      <4>5. next = [[r EXCEPT !.class = n] EXCEPT !.pc = "lnGet"]
        BY <4>4 DEF ProbeRuns
      <4>6. QED
        BY <4>1, <4>3, <4>5
    <3>2. "lnGet" \in (ProbeAwaits \ Aarqs) \cup ProbeSleeps \cup {"done", "failed"}
      BY DEF ProbeAwaits, Aarqs
    <3>3. QED
      BY <1>1, <1>2, <2>3, <3>1, <3>2, PcKept DEF AwaitNext, Counting, Free
  <2>4. QED
    BY <1>6, <2>1, <2>2, <2>3 DEF NextClass
<1>7. CASE run.pc = "lnGap" /\ LnProbe(s, NextCode(run), rest)
  BY <1>2, <1>3, <1>7, LnProbeKeepsInv
<1>8. CASE run.pc = "lnRelease" /\ LnReleased(s, run, rest) /\ KeepGranted
  <2>1. CASE run.count = 0 /\ Pause(s, run, rest, "snPause")
    BY <1>1, <1>2, <1>8, <2>1, PcKept DEF Pause, AwaitNext, ProbeSleeps, Free
  <2>2. CASE Pause(s, run, rest, "done")
    BY <1>1, <1>2, <1>8, <2>2, PcKept DEF Pause, AwaitNext, Counting, Free
  <2>3. QED
    BY <1>8, <2>1, <2>2 DEF LnReleased
<1>9. CASE run.pc = "snGap" /\ SnProbe(s, [run EXCEPT !.address = @ + 1], rest)
  BY <1>2, <1>4, <1>9, SnProbeKeepsInv DEF Counting
<1>10. CASE run.pc = "snRelease" /\ Ended(s, rest)
  BY <1>1, <1>2, <1>10, PcKept DEF Ended, Pause, AwaitNext, Counting, Free
<1>11. QED
  BY <1>5, <1>6, <1>7, <1>8, <1>9, <1>10 DEF WakeProbe, Aarqs

\* What becomes of the associations when an AARE is taken: if the run took it for that of
\* the AARQ it sent last and goes on, it holds that association, and else none it knows of.
LEMMA HearDoes ==
  ASSUME ProbeInv, NEW s \in Sockets, NEW of, Hear(s, of), probe[s].pc \in Aarqs
  PROVE  \E acc \in SUBSET Aarqs, gra \in SUBSET Aarqs, unh \in SUBSET Aarqs :
            /\ Become(s, acc, gra, unh)
            /\ \E x : gra \ unh \subseteq {x}
            /\ ~ Accepted(s, of) => gra \subseteq unh
<1>1. PICK pc \in Aarqs, had \in SUBSET Aarqs, gra \in SUBSET Aarqs, un \in SUBSET Aarqs :
            pc = probe[s].pc /\ had = accepted[s] /\ gra = granted[s] /\ un = unheard[s]
  BY DEF ProbeInv
<1>2. gra \ un \subseteq {pc} /\ gra \ un \subseteq had
  BY <1>1 DEF ProbeInv, RunSound, Holds
<1>3. PICK acc \in SUBSET Aarqs : acc = had \ {of[1]} /\ accepted' = [accepted EXCEPT ![s] = acc]
  BY <1>1 DEF Hear
<1>4. granted' = [granted EXCEPT ![s] = gra]
  BY <1>1 DEF Hear, ProbeInv
<1>5. CASE of = <<probe[s].pc>>
  <2>1. of[1] = pc
    BY <1>1, <1>5
  <2>2. unheard' = [unheard EXCEPT ![s] = un]
    BY <1>1, <1>5 DEF Hear, ProbeInv
  <2>3. ~ Accepted(s, of) => pc \notin had
    BY <1>1, <2>1 DEF Accepted
  <2>4. ~ Accepted(s, of) => gra \subseteq un
    BY <1>2, <2>3
  <2>5. QED
    BY <1>2, <1>3, <1>4, <2>2, <2>4 DEF Become
<1>6. CASE of # <<probe[s].pc>>
  <2>1. MissAare(s)
    BY <1>6 DEF Hear
  <2>2. PICK unh \in SUBSET Aarqs :
            unh = un \cup ({pc} \cap gra) /\ unheard' = [unheard EXCEPT ![s] = unh]
    BY <1>1, <2>1 DEF MissAare
  <2>3. gra \subseteq unh
    BY <1>2, <2>2
  <2>4. \E x : gra \ unh \subseteq {x}
    BY <2>3
  <2>5. QED
    BY <1>3, <1>4, <2>2, <2>3, <2>4 DEF Become
<1>7. QED
  BY <1>5, <1>6

\* An AARE is taken.
LEMMA HearKeepsInv ==
  ASSUME ServerInv, ProbeInv, NEW s \in Sockets, NEW of, Hear(s, of), probe[s].pc \in Aarqs,
         UNCHANGED <<serverVars, lnResults>>,
         NEW pc \in {"lnGet", "snRead", "snPause", "done"},
         probe' = [probe EXCEPT ![s] = [probe[s] EXCEPT !.pc = pc]],
         pc = "done" => ~ Accepted(s, of) \/ disconnected,
         pc = "snPause" => ~ Accepted(s, of)
  PROVE  ProbeInv'
<1>1. PICK acc \in SUBSET Aarqs, gra \in SUBSET Aarqs, unh \in SUBSET Aarqs :
            /\ Become(s, acc, gra, unh)
            /\ \E x : gra \ unh \subseteq {x}
            /\ ~ Accepted(s, of) => gra \subseteq unh
  BY HearDoes
<1>2. /\ pc \in ProbeAwaits \cup ProbeSleeps \cup {"done", "failed"} /\ pc \notin Aarqs
      /\ pc \in Free => pc = "snPause"
  BY DEF ProbeAwaits, ProbeSleeps, Aarqs, Free
<1>3. Holds(pc, gra \ unh, acc)
  BY <1>1, <1>2 DEF Holds
<1>4. pc = "done" => gra \ unh = {} \/ disconnected
  BY <1>1
<1>5. probe[s] \in ProbeRuns /\ probe[s].pc \notin Counting
  BY DEF ProbeInv, Aarqs, Counting
<1>6. QED
  BY <1>1, <1>2, <1>3, <1>4, <1>5, PcStep

\* An answer that is waited for.
LEMMA DeliverKeepsInv ==
  ASSUME ServerInv, ProbeInv, NEW s \in Sockets, DeliverToProbe(s)
  PROVE  ProbeInv'
<1> DEFINE run == probe[s]
<1>1. run \in ProbeRuns
  BY DEF ProbeInv
<1>2. ASSUME NEW rest, NEW of, AareReceived(s, rest, of) PROVE ProbeInv'
  <2>1. run.pc \in Aarqs /\ UNCHANGED lnResults /\ Hear(s, of)
    BY <1>2 DEF AareReceived, NoResult, Aarqs
  <2>2. CASE AwaitNext(s, [run EXCEPT !.pc = "lnGet"], rest, LnRequest(run))
    BY <2>1, <2>2, HearKeepsInv DEF AwaitNext
  <2>3. CASE disconnected /\ Pause(s, run, rest, "done")
    BY <2>1, <2>3, HearKeepsInv DEF Pause, AwaitNext
  <2>4. CASE ~ Accepted(s, of) /\ Pause(s, run, rest, "snPause")
    BY <2>1, <2>4, HearKeepsInv DEF Pause, AwaitNext
  <2>5. QED
    BY <1>2, <2>2, <2>3, <2>4 DEF AareReceived
<1>3. ASSUME NEW rest, NEW of, GetReceived(s, rest, of) PROVE ProbeInv'
  <2>1. run.pc = "lnGet" /\ KeepGranted
    BY <1>3 DEF GetReceived
  <2>2. run.count \in Nat
    BY <1>1 DEF ProbeRuns
  <2>3. CASE LnResult(s, "success", of)
             /\ Pause(s, [run EXCEPT !.found = TRUE, !.count = @ + 1], rest, "lnClassGap")
    <3> DEFINE n == run.count + 1
               d == [run EXCEPT !.found = TRUE, !.count = n, !.pc = "lnClassGap"]
    <3>1. probe' = [probe EXCEPT ![s] = d] /\ UNCHANGED serverVars
      BY <2>3 DEF Pause, AwaitNext
    <3>2. n \in Nat /\ n > 0 /\ n >= run.count
      BY <2>2
    <3> HIDE DEF n
    <3>3. d \in ProbeRuns /\ d.count = n /\ d.pc = "lnClassGap"
      BY <1>1, <3>2 DEF ProbeRuns, ProbeSleeps
    <3> HIDE DEF d
    <3>4. QED
      BY <2>1, <2>2, <2>3, <3>1, <3>2, <3>3, ResultStep
  <2>4. ASSUME NEW result \in {"undefined", "denied"}, LnResult(s, result, of),
               NEW pc \in {"lnClassGap", "lnGap"}, Pause(s, run, rest, pc)
        PROVE  ProbeInv'
    <3> DEFINE d == [run EXCEPT !.pc = pc]
    <3>1. probe' = [probe EXCEPT ![s] = d] /\ UNCHANGED serverVars
      BY <2>4 DEF Pause, AwaitNext
    <3>2. d \in ProbeRuns /\ d.count = run.count /\ d.pc = pc
      BY <1>1 DEF ProbeRuns, ProbeSleeps
    <3> HIDE DEF d
    <3>3. d.count >= run.count /\ d.pc \in {"lnClassGap", "lnGap"}
      BY <2>2, <3>2
    <3>4. result \in {"success", "undefined", "denied", "timeout"} /\ result # "success"
      OBVIOUS
    <3>5. QED
      BY <2>1, <2>2, <2>4, <3>1, <3>2, <3>3, <3>4, ResultStep
  <2>5. CASE UNCHANGED lnResults /\ Pause(s, run, rest, "failed")
    BY <1>1, <2>1, <2>5, PcKept DEF Pause, AwaitNext, Counting, Free
  <2>6. QED
    BY <1>3, <2>3, <2>4, <2>5 DEF GetReceived
<1>4. ASSUME NEW rest, NEW of, SnAareReceived(s, rest, of) PROVE ProbeInv'
  <2>1. run.pc \in Aarqs /\ UNCHANGED lnResults /\ Hear(s, of)
    BY <1>4 DEF SnAareReceived, NoResult, Aarqs
  <2>2. CASE AwaitNext(s, [run EXCEPT !.pc = "snRead"], rest, SnRequest(run))
    BY <2>1, <2>2, HearKeepsInv DEF AwaitNext
  <2>3. CASE (~ Accepted(s, of) \/ disconnected) /\ Pause(s, run, rest, "done")
    BY <2>1, <2>3, HearKeepsInv DEF Pause, AwaitNext
  <2>4. QED
    BY <1>4, <2>2, <2>3 DEF SnAareReceived
<1>5. ASSUME NEW rest, NEW of, ReadReceived(s, rest, of) PROVE ProbeInv'
  <2>1. run.pc = "snRead" /\ UNCHANGED lnResults /\ Pause(s, run, rest, "snGap") /\ KeepGranted
    BY <1>5 DEF ReadReceived
  <2>2. QED
    BY <1>1, <2>1, PcKept DEF Pause, AwaitNext, ProbeSleeps, Counting, Free
<1>6. ASSUME UNCHANGED probeVars, UNCHANGED serverVars PROVE ProbeInv'
  BY <1>6 DEF probeVars, associations, serverVars, ProbeInv, RunSound, Lost
<1>7. QED
  BY <1>2, <1>3, <1>4, <1>5, <1>6 DEF DeliverToProbe, Lose

\* The associations of a run that waits no more for an AARE.
LEMMA MissDoes ==
  ASSUME ProbeInv, NEW s \in Sockets, probe[s].pc \in Aarqs, MissAare(s)
  PROVE  \E unh \in SUBSET Aarqs : unheard' = [unheard EXCEPT ![s] = unh] /\ granted[s] \subseteq unh
<1>1. PICK pc \in Aarqs, gra \in SUBSET Aarqs, un \in SUBSET Aarqs :
            pc = probe[s].pc /\ gra = granted[s] /\ un = unheard[s]
  BY DEF ProbeInv
<1>2. gra \ un \subseteq {pc}
  BY <1>1 DEF ProbeInv, RunSound, Holds
<1>3. PICK unh \in SUBSET Aarqs :
            unh = un \cup ({pc} \cap gra) /\ unheard' = [unheard EXCEPT ![s] = unh]
  BY <1>1 DEF MissAare
<1>4. QED
  BY <1>1, <1>2, <1>3

\* A timer.
LEMMA ProbeTimeoutKeepsInv ==
  ASSUME ServerInv, ProbeInv, NEW s \in Sockets, ProbeTimeout(s)
  PROVE  ProbeInv'
<1> DEFINE run == probe[s]
<1>1. run \in ProbeRuns
  BY DEF ProbeInv
<1>2. PICK rest \in Outstanding(s) :
        \/ /\ run.pc = "lnAare"
           /\ Associate(s, run, rest, "lnAareRaw")
           /\ NoResult
        \/ /\ run.pc = "lnAareRaw"
           /\ Pause(s, run, rest, "snPause")
           /\ UNCHANGED <<accepted, granted>>
           /\ NoResult
        \/ /\ run.pc = "lnGet"
           /\ LnResult(s, "timeout", LnRequest(run).of)
           /\ Pause(s, run, rest, "lnGap")
           /\ UNCHANGED <<accepted, granted>>
        \/ /\ run.pc = "snAare"
           /\ Pause(s, run, rest, "done")
           /\ UNCHANGED <<accepted, granted>>
           /\ NoResult
        \/ /\ run.pc = "snRead"
           /\ Pause(s, run, rest, "snGap")
           /\ UNCHANGED <<accepted, granted, lnResults>>
  BY DEF ProbeTimeout
<1>3. IF run.pc \in Aarqs THEN MissAare(s) ELSE UNCHANGED unheard
  BY DEF ProbeTimeout
<1>4. CASE run.pc = "lnAare" /\ Associate(s, run, rest, "lnAareRaw") /\ NoResult
  <2>1. run.pc \in Aarqs /\ "lnAareRaw" \in Aarqs /\ run.pc \notin Counting /\ UNCHANGED lnResults
    BY <1>4 DEF Aarqs, Counting, NoResult
  <2>2. PICK unh \in SUBSET Aarqs :
            unheard' = [unheard EXCEPT ![s] = unh] /\ granted[s] \subseteq unh
    BY <1>3, <2>1, MissDoes
  <2>3. QED
    BY <1>4, <2>1, <2>2, AssociateKeepsInv
<1>5. ASSUME NEW pc \in {"snPause", "done"}, run.pc \in {"lnAareRaw", "snAare"},
             Pause(s, run, rest, pc), UNCHANGED <<accepted, granted>>, NoResult
      PROVE  ProbeInv'
  <2>1. run.pc \in Aarqs /\ run.pc \notin Counting /\ UNCHANGED lnResults
    BY <1>5 DEF Aarqs, Counting, NoResult
  <2>2. PICK unh \in SUBSET Aarqs :
            unheard' = [unheard EXCEPT ![s] = unh] /\ granted[s] \subseteq unh
    BY <1>3, <2>1, MissDoes
  <2>3. PICK acc \in SUBSET Aarqs, gra \in SUBSET Aarqs :
            /\ acc = accepted[s] /\ gra = granted[s]
            /\ accepted' = [accepted EXCEPT ![s] = acc] /\ granted' = [granted EXCEPT ![s] = gra]
    BY <1>5 DEF ProbeInv
  <2>4. Become(s, acc, gra, unh) /\ gra \subseteq unh
    BY <2>2, <2>3 DEF Become
  <2>5. /\ UNCHANGED serverVars
        /\ probe' = [probe EXCEPT ![s] = [run EXCEPT !.pc = pc]]
    BY <1>5 DEF Pause, AwaitNext
  <2>6. pc \in ProbeAwaits \cup ProbeSleeps \cup {"done", "failed"}
    BY DEF ProbeSleeps
  <2>7. QED
    BY <1>1, <2>1, <2>4, <2>5, <2>6, PcFree
<1>6. CASE /\ run.pc = "lnGet" /\ LnResult(s, "timeout", LnRequest(run).of)
           /\ Pause(s, run, rest, "lnGap") /\ UNCHANGED <<accepted, granted>>
  <2> DEFINE d == [run EXCEPT !.pc = "lnGap"]
  <2>1. probe' = [probe EXCEPT ![s] = d] /\ UNCHANGED serverVars
    BY <1>6 DEF Pause, AwaitNext
  <2>2. d \in ProbeRuns /\ d.count = run.count /\ d.pc = "lnGap"
    BY <1>1 DEF ProbeRuns, ProbeSleeps
  <2> HIDE DEF d
  <2>3. run.count \in Nat
    BY <1>1 DEF ProbeRuns
  <2>4. d.count >= run.count /\ d.pc \in {"lnClassGap", "lnGap"}
    BY <2>2, <2>3
  <2>5. "timeout" \in {"success", "undefined", "denied", "timeout"} /\ "timeout" # "success"
    OBVIOUS
  <2>6. KeepGranted
    BY <1>3, <1>6 DEF KeepGranted, associations, Aarqs
  <2>7. QED
    BY <1>6, <2>1, <2>2, <2>4, <2>5, <2>6, ResultStep
<1>7. CASE run.pc = "snRead" /\ Pause(s, run, rest, "snGap") /\ UNCHANGED <<accepted, granted, lnResults>>
  <2>1. KeepGranted
    BY <1>3, <1>7 DEF KeepGranted, associations, Aarqs
  <2>2. QED
    BY <1>1, <1>7, <2>1, PcKept DEF Pause, AwaitNext, ProbeSleeps, Counting, Free
<1>8. QED
  BY <1>2, <1>4, <1>5, <1>6, <1>7

\* A step of the server, which empties the results at most.
LEMMA ServerStepKeepsProbe ==
  ASSUME ProbeInv, Lost => Lost', UNCHANGED <<probe, associations>>, lnResults' \subseteq lnResults
  PROVE  ProbeInv'
<1>1. \A d, held, have : \A s \in Sockets : RunSound(s, d, held, have) => RunSound(s, d, held, have)'
  BY DEF RunSound
<1>2. ASSUME NEW s \in Sockets
      PROVE  RunSound(s, probe[s], granted[s] \ unheard[s], accepted[s])'
  <2>1. PICK d, held, have : /\ d = probe[s] /\ held = granted[s] \ unheard[s]
                             /\ have = accepted[s]
    OBVIOUS
  <2>2. RunSound(s, d, held, have)
    BY <2>1 DEF ProbeInv
  <2>3. d = probe'[s] /\ held = granted'[s] \ unheard'[s] /\ have = accepted'[s]
    BY <2>1 DEF associations
  <2>4. QED
    BY <1>1, <2>2, <2>3
<1>3. QED
  BY <1>2 DEF ProbeInv, associations

\* A connection ends, and its associations with it.
LEMMA DissociateKeepsProbe ==
  ASSUME ProbeInv, NEW s \in Sockets, Dissociate(s), Lost => Lost'
  PROVE  ProbeInv'
<1>1. UNCHANGED <<probe, lnResults>> /\ Become(s, {}, {}, {})
  BY DEF Dissociate, Become
<1>2. \A q \in Sockets : /\ accepted'[q] = IF q = s THEN {} ELSE accepted[q]
                         /\ granted'[q] = IF q = s THEN {} ELSE granted[q]
                         /\ unheard'[q] = IF q = s THEN {} ELSE unheard[q]
  BY <1>1 DEF ProbeInv, Become
<1>3. ASSUME NEW q \in Sockets
      PROVE  RunSound(q, probe[q], granted[q] \ unheard[q], accepted[q])'
  <2>1. PICK d, held, have, held2, have2 :
            /\ d = probe[q] /\ held = granted[q] \ unheard[q] /\ have = accepted[q]
            /\ held2 = granted'[q] \ unheard'[q] /\ have2 = accepted'[q]
    OBVIOUS
  <2>2. RunSound(q, d, held, have)
    BY <2>1 DEF ProbeInv
  <2>3. held2 = {} \/ (held2 = held /\ have2 = have)
    BY <1>2, <2>1
  <2>4. Holds(d.pc, held2, have2) /\ (d.pc = "done" => held2 = {} \/ Lost')
    BY <2>2, <2>3 DEF RunSound, Holds
  <2>5. RunSound(q, d, held2, have2)'
    BY <1>1, <2>2, <2>4 DEF RunSound
  <2>6. probe'[q] = d
    BY <1>1, <2>1
  <2>7. QED
    BY <2>1, <2>5, <2>6
<1>4. /\ accepted' \in [Sockets -> SUBSET Aarqs] /\ granted' \in [Sockets -> SUBSET Aarqs]
      /\ unheard' \in [Sockets -> SUBSET Aarqs] /\ probe' \in [Sockets -> ProbeRuns]
  BY <1>1 DEF ProbeInv, Become
<1>5. QED
  BY <1>3, <1>4 DEF ProbeInv

\* Every step of the OBIS probe keeps count of its associations.
LEMMA ProbeKeepsInv ==
  ASSUME ServerInv, ProbeInv, ProbeNext
  PROVE  ServerInv' /\ ProbeInv'
<1> SUFFICES ASSUME NEW s \in Sockets,
                    \/ AcceptForProbe(s) \/ RejectForProbe(s) \/ CloseForProbe(s) \/ FailForProbe(s)
                    \/ ProbeHeartbeat(s) \/ DeliverToProbe(s) \/ ProbeTimeout(s) \/ WakeProbe(s)
             PROVE  ServerInv' /\ ProbeInv'
  BY DEF ProbeNext
<1>1. CASE AcceptForProbe(s)
  BY <1>1, ServerSteps, ServerStepKeepsProbe DEF AcceptForProbe
<1>2. CASE RejectForProbe(s)
  BY <1>2, ServerSteps, ServerStepKeepsProbe DEF RejectForProbe, probeVars
<1>c. CASE CloseForProbe(s) \/ FailForProbe(s)
  BY <1>c, ServerSteps, DissociateKeepsProbe DEF CloseForProbe, FailForProbe
<1>3. CASE ProbeHeartbeat(s)
  <2>1. /\ UNCHANGED serverVars /\ UNCHANGED lnResults /\ KeepGranted
        /\ probe[s].pc = "idle" /\ probe' = [probe EXCEPT ![s] = [probe[s] EXCEPT !.pc = "armed"]]
    BY <1>3 DEF ProbeHeartbeat, KeepGranted
  <2>2. probe[s] \in ProbeRuns
    BY DEF ProbeInv
  <2>3. "armed" \in (ProbeAwaits \ Aarqs) \cup ProbeSleeps \cup {"done", "failed"}
    BY DEF ProbeSleeps
  <2>4. ProbeInv'
    BY <2>1, <2>2, <2>3, PcKept DEF Free, Counting
  <2>5. QED
    BY <2>1, <2>4, ServerSteps
<1>4. CASE DeliverToProbe(s)
  <2>1. UNCHANGED serverVars
    BY <1>4 DEF DeliverToProbe, Lose, AareReceived, GetReceived, SnAareReceived, ReadReceived,
                Ended, Pause, AwaitNext
  <2>2. QED
    BY <1>4, <2>1, ServerSteps, DeliverKeepsInv
<1>5. CASE ProbeTimeout(s)
  <2>1. UNCHANGED serverVars
    BY <1>5 DEF ProbeTimeout, Associate, Pause, AwaitNext
  <2>2. QED
    BY <1>5, <2>1, ServerSteps, ProbeTimeoutKeepsInv
<1>6. CASE WakeProbe(s)
  <2>1. ASSUME NEW run, NEW rest, LnProbe(s, run, rest) \/ SnProbe(s, run, rest)
        PROVE  UNCHANGED serverVars
    BY <2>1 DEF LnProbe, SnProbe, ReleaseAssociation, Pause, AwaitNext
  <2>2. ASSUME NEW run, NEW rest, NextClass(s, run, rest) PROVE UNCHANGED serverVars
    BY <2>1, <2>2 DEF NextClass, Pause, AwaitNext
  <2>3. ASSUME NEW run, NEW rest, LnReleased(s, run, rest) PROVE UNCHANGED serverVars
    BY <2>3 DEF LnReleased, Pause, AwaitNext
  <2>4. ASSUME NEW run, NEW rest, NEW pc, Associate(s, run, rest, pc) PROVE UNCHANGED serverVars
    BY <2>4 DEF Associate, AwaitNext
  <2>5. ASSUME NEW rest, Ended(s, rest) PROVE UNCHANGED serverVars
    BY <2>5 DEF Ended, Pause, AwaitNext
  <2>6. UNCHANGED serverVars
    BY <1>6, <2>1, <2>2, <2>3, <2>4, <2>5 DEF WakeProbe
  <2>7. QED
    BY <1>6, <2>6, ServerSteps, WakeKeepsInv
<1>7. QED
  BY <1>1, <1>2, <1>c, <1>3, <1>4, <1>5, <1>6

------------------------------------------------------------------------------
(* The DLT645 destination probe: its server, and the fields of its runs.   *)

\* What the DLT645 probe does to the server's variables.
LEMMA DestKeepsServer ==
  ASSUME ServerInv, DestNext
  PROVE  ServerInv' /\ (Lost => Lost')
<1>1. PICK s \in Sockets :
        \/ AcceptForDest(s) \/ RejectForDest(s) \/ CloseForDest(s) \/ FailForDest(s)
        \/ DestHeartbeat(s) \/ DeliverToDest(s) \/ WindowEnds(s) \/ WakeDest(s)
  BY DEF DestNext
<1>2. \A run, rest, results : SendProbe(s, run, rest, results) => UNCHANGED serverVars
  BY DEF SendProbe
<1>3. CASE DestHeartbeat(s) \/ DeliverToDest(s) \/ WindowEnds(s) \/ WakeDest(s)
  <2>1. UNCHANGED serverVars
    BY <1>2, <1>3 DEF DestHeartbeat, DeliverToDest, Lose, WindowEnds, WakeDest
  <2>2. QED
    BY <2>1, ServerSteps
<1>4. CASE AcceptForDest(s) \/ RejectForDest(s) \/ CloseForDest(s) \/ FailForDest(s)
  BY <1>4, ServerSteps DEF AcceptForDest, RejectForDest, CloseForDest, FailForDest
<1>5. QED
  BY <1>1, <1>3, <1>4

IsRun(d) ==
    d = [pc |-> d.pc, phase |-> d.phase, at |-> d.at, working |-> d.working,
         of |-> d.of, got |-> d.got]

\* A run of the destination probe with one field changed.
LEMMA RunFields ==
  ASSUME NEW d, IsRun(d), NEW x
  PROVE  /\ [d EXCEPT !.pc = x] =
              [pc |-> x, phase |-> d.phase, at |-> d.at, working |-> d.working, of |-> d.of, got |-> d.got]
         /\ [d EXCEPT !.at = x] =
              [pc |-> d.pc, phase |-> d.phase, at |-> x, working |-> d.working, of |-> d.of, got |-> d.got]
         /\ [d EXCEPT !.got = x] =
              [pc |-> d.pc, phase |-> d.phase, at |-> d.at, working |-> d.working, of |-> d.of, got |-> x]
<1> USE DEF IsRun
<1>1. [d EXCEPT !.pc = x] =
        [pc |-> x, phase |-> d.phase, at |-> d.at, working |-> d.working, of |-> d.of, got |-> d.got]
  OBVIOUS
<1>2. [d EXCEPT !.at = x] =
        [pc |-> d.pc, phase |-> d.phase, at |-> x, working |-> d.working, of |-> d.of, got |-> d.got]
  OBVIOUS
<1>3. [d EXCEPT !.got = x] =
        [pc |-> d.pc, phase |-> d.phase, at |-> d.at, working |-> d.working, of |-> d.of, got |-> x]
  OBVIOUS
<1>4. QED
  BY <1>1, <1>2, <1>3

\* The same for the two fields that a phase sets.
LEMMA RunPhaseAt ==
  ASSUME NEW d, IsRun(d), NEW x, NEW y
  PROVE  [d EXCEPT !.phase = x, !.at = y] =
           [pc |-> d.pc, phase |-> x, at |-> y, working |-> d.working, of |-> d.of, got |-> d.got]
<1> DEFINE e == [pc |-> d.pc, phase |-> x, at |-> d.at, working |-> d.working, of |-> d.of, got |-> d.got]
<1>1. [d EXCEPT !.phase = x] = e
  BY DEF IsRun
<1>2. [d EXCEPT !.phase = x, !.at = y] = [[d EXCEPT !.phase = x] EXCEPT !.at = y]
  OBVIOUS
<1>3. [e EXCEPT !.at = y] =
        [pc |-> d.pc, phase |-> x, at |-> y, working |-> d.working, of |-> d.of, got |-> d.got]
  OBVIOUS
<1>4. QED
  BY <1>1, <1>2, <1>3

\* The same for the two fields that a window sets.
LEMMA RunPcGot ==
  ASSUME NEW d, IsRun(d), NEW x, NEW y
  PROVE  [d EXCEPT !.pc = x, !.got = y] =
           [pc |-> x, phase |-> d.phase, at |-> d.at, working |-> d.working, of |-> d.of, got |-> y]
<1> DEFINE e == [pc |-> x, phase |-> d.phase, at |-> d.at, working |-> d.working, of |-> d.of, got |-> d.got]
<1>1. [d EXCEPT !.pc = x] = e
  BY DEF IsRun
<1>2. [d EXCEPT !.pc = x, !.got = y] = [[d EXCEPT !.pc = x] EXCEPT !.got = y]
  OBVIOUS
<1>3. [e EXCEPT !.got = y] =
        [pc |-> x, phase |-> d.phase, at |-> d.at, working |-> d.working, of |-> d.of, got |-> y]
  OBVIOUS
<1>4. QED
  BY <1>1, <1>2, <1>3

\* The same for the two fields that an answer sets.
LEMMA RunWorkingOf ==
  ASSUME NEW d, IsRun(d), NEW x, NEW y
  PROVE  [d EXCEPT !.working = x, !.of = y] =
           [pc |-> d.pc, phase |-> d.phase, at |-> d.at, working |-> x, of |-> y, got |-> d.got]
<1> DEFINE e == [pc |-> d.pc, phase |-> d.phase, at |-> d.at, working |-> x, of |-> d.of, got |-> d.got]
<1>1. [d EXCEPT !.working = x] = e
  BY DEF IsRun
<1>2. [d EXCEPT !.working = x, !.of = y] = [[d EXCEPT !.working = x] EXCEPT !.of = y]
  OBVIOUS
<1>3. [e EXCEPT !.of = y] =
        [pc |-> d.pc, phase |-> d.phase, at |-> d.at, working |-> x, of |-> y, got |-> d.got]
  OBVIOUS
<1>4. QED
  BY <1>1, <1>2, <1>3

------------------------------------------------------------------------------
(* The tools.                                                              *)

ToolsInv == ServerInv /\ ProbeInv

\* Nothing is open or associated when a tool is started.
LEMMA ToolsInitInv == ToolsInit => ToolsInv
<1> SUFFICES ASSUME ToolsInit PROVE ToolsInv
  OBVIOUS
<1>1. ServerInv
  BY DEF ToolsInit, ServerInit, ServerInv, SocketState
<1>2. ProbeInv
  <2>1. IdleProbe \in ProbeRuns /\ IdleProbe.pc = "idle" /\ IdleProbe.count = 0
    BY DEF IdleProbe, ProbeRuns
  <2>2. ASSUME NEW s \in Sockets PROVE RunSound(s, probe[s], granted[s] \ unheard[s], accepted[s])
    <3>1. probe[s] = IdleProbe /\ granted[s] \ unheard[s] = {} /\ lnResults = {}
      BY DEF ToolsInit, ProbeInit
    <3>2. Holds(probe[s].pc, granted[s] \ unheard[s], accepted[s])
      BY <3>1 DEF Holds
    <3>3. QED
      BY <2>1, <3>1, <3>2 DEF RunSound
  <2>3. QED
    BY <2>1, <2>2 DEF ToolsInit, ProbeInit, ProbeInv
<1>3. QED
  BY <1>1, <1>2 DEF ToolsInv

\* A step of the tool that was started keeps it so.
LEMMA ToolsStepInv == ToolsInv /\ [ToolsNext]_toolsVars => ToolsInv'
<1> SUFFICES ASSUME ServerInv, ProbeInv, [ToolsNext]_toolsVars PROVE ToolsInv'
  BY DEF ToolsInv
<1>1. CASE ScanNext /\ UNCHANGED probeVars
  BY <1>1, ScanKeepsServer, ServerStepKeepsProbe DEF probeVars, ToolsInv
<1>2. CASE ProbeNext
  BY <1>2, ProbeKeepsInv DEF ToolsInv
<1>3. CASE DestNext /\ UNCHANGED probeVars
  BY <1>3, DestKeepsServer, ServerStepKeepsProbe DEF probeVars, ToolsInv
<1>4. CASE UNCHANGED toolsVars
  <2>1. UNCHANGED serverVars /\ UNCHANGED probeVars
    BY <1>4 DEF toolsVars
  <2>2. ServerInv' /\ (Lost => Lost')
    BY <2>1 DEF serverVars, ServerInv, Lost
  <2>3. QED
    BY <2>1, <2>2, ServerStepKeepsProbe DEF probeVars, ToolsInv
<1>5. QED
  BY <1>1, <1>2, <1>3, <1>4 DEF ToolsNext

\* In every reachable state a run knows of no association but the one its await says,
\* and of none when it is done, unless a connection was lost.
THEOREM Invariance == ToolsSpec => []ToolsInv
BY ToolsInitInv, ToolsStepInv, PTL DEF ToolsSpec

\* Of the associations of the OBIS probe whose AARE was taken for what it is, or may still
\* be, a meter holds one at a time, and none when the run is over, unless a connection was
\* lost; and short names are read only if no code answered.
THEOREM AssociationsAlwaysReleased == ToolsSpec => []AssociationsReleased
<1>1. ToolsInv => AssociationsReleased
  <2> SUFFICES ASSUME ProbeInv, NEW s \in Sockets
               PROVE  /\ Cardinality(granted[s] \ unheard[s]) <= 1
                      /\ probe[s].pc = "done" => granted[s] \subseteq unheard[s] \/ Lost
                      /\ probe[s].pc \in SnMode =>
                            ~ \E r \in lnResults : r.run = s /\ r.result = "success"
    BY DEF ToolsInv, AssociationsReleased, Lost
  <2>1. PICK held : held = granted[s] \ unheard[s] /\ RunSound(s, probe[s], held, accepted[s])
    BY DEF ProbeInv
  <2>2. PICK x : held \subseteq {x}
    BY <2>1 DEF RunSound, Holds
  <2>3. Cardinality(held) <= 1
    <3>1. CASE held = {}
      BY <3>1, FS_EmptySet
    <3>2. CASE held # {}
      <4>1. held = {x}
        BY <2>2, <3>2
      <4>2. Cardinality(held) = 1
        BY <4>1, FS_Singleton
      <4>3. QED
        BY <4>2
    <3>3. QED
      BY <3>1, <3>2
  <2>4. probe[s].pc = "done" => granted[s] \subseteq unheard[s] \/ Lost
    BY <2>1 DEF RunSound
  <2>5. probe[s].pc \in SnMode => ~ \E r \in lnResults : r.run = s /\ r.result = "success"
    BY <2>1 DEF RunSound, Counting, SnMode
  <2>6. QED
    BY <2>1, <2>3, <2>4, <2>5
<1>2. QED
  BY <1>1, Invariance, PTL

\* The lexicographic order of quadruples.
LEMMA BeforeFour ==
  ASSUME NEW a \in Nat, NEW b \in Nat, NEW c \in Nat, NEW d \in Nat,
         NEW e \in Nat, NEW f \in Nat, NEW g \in Nat, NEW h \in Nat,
         \/ a < e
         \/ a = e /\ b < f
         \/ a = e /\ b = f /\ c < g
         \/ a = e /\ b = f /\ c = g /\ d < h
  PROVE  Before(<<a, b, c, d>>, <<e, f, g, h>>)
<1>1. DOMAIN <<a, b, c, d>> = 1..4
  OBVIOUS
<1>2. CASE a < e
  BY <1>1, <1>2 DEF Before
<1>3. CASE a = e /\ b < f
  <2>1. 2 \in 1..4 /\ \A j \in 1..(2 - 1) : j = 1
    OBVIOUS
  <2>2. QED
    BY <1>1, <1>3, <2>1 DEF Before
<1>4. CASE a = e /\ b = f /\ c < g
  <2>1. 3 \in 1..4 /\ \A j \in 1..(3 - 1) : j = 1 \/ j = 2
    OBVIOUS
  <2>2. QED
    BY <1>1, <1>4, <2>1 DEF Before
<1>5. CASE a = e /\ b = f /\ c = g /\ d < h
  <2>1. 4 \in 1..4 /\ \A j \in 1..(4 - 1) : j = 1 \/ j = 2 \/ j = 3
    OBVIOUS
  <2>2. QED
    BY <1>1, <1>5, <2>1 DEF Before
<1>6. QED
  BY <1>2, <1>3, <1>4, <1>5

------------------------------------------------------------------------------
(* The OBIS probe: its answers and its way ahead.                          *)

\* The request an await waits for the answer to.
ProbeDue(run) ==
    CASE run.pc \in {"lnAare", "lnAareRaw", "snAare"} -> [tag |-> "aare", of |-> <<run.pc>>]
      [] run.pc = "lnGet" -> LnRequest(run)
      [] run.pc = "snRead" -> SnRequest(run)
      [] OTHER -> NothingAsked

\* Unless an answer came late, nothing is on its way but the answer that is due.
ProbeWire(s) ==
    /\ late[s] = 0 => \/ inflight[s] = <<>>
                      \/ probe[s].pc \in ProbeAwaits /\ inflight[s] = <<ProbeDue(probe[s])>>
    /\ ProbeHonest(s)

ProbeWireInv ==
    /\ ServerTypeOK
    /\ inflight = [s \in Sockets |-> inflight[s]]
    /\ \A s \in Sockets : ProbeWire(s)

Stage(pc) ==
    CASE pc = "idle" -> 0 [] pc = "armed" -> 1 [] pc = "lnAare" -> 2 [] pc = "lnAareRaw" -> 3
      [] pc \in {"lnGet", "lnClassGap", "lnGap"} -> 4
      [] pc = "lnRelease" -> 5 [] pc = "snPause" -> 6 [] pc = "snAare" -> 7
      [] pc \in {"snRead", "snGap"} -> 8
      [] pc = "snRelease" -> 9 [] pc \in {"done", "failed"} -> 10

Within(pc) ==
    CASE pc = "lnClassGap" -> 1 [] pc = "lnGap" -> 2 [] pc = "snGap" -> 1 [] OTHER -> 0

\* next is nearer to its end.
ProbeFurther(run, next) ==
    \/ Stage(next.pc) > Stage(run.pc)
    \/ /\ Stage(run.pc) = 4 /\ Stage(next.pc) = 4
       /\ \/ next.code > run.code
          \/ next.code = run.code /\ next.class > run.class
          \/ next.code = run.code /\ next.class = run.class /\ Within(next.pc) > Within(run.pc)
    \/ /\ Stage(run.pc) = 8 /\ Stage(next.pc) = 8
       /\ \/ next.address > run.address
          \/ next.address = run.address /\ Within(next.pc) > Within(run.pc)

\* The stages of runProbes are numbers.
LEMMA StageTyped ==
  ASSUME NEW run \in ProbeRuns
  PROVE  /\ Stage(run.pc) \in 0..10 /\ Within(run.pc) \in 0..2
         /\ run.code \in Nat /\ run.class \in Nat /\ run.address \in Nat
BY DEF ProbeRuns, ProbeAwaits, ProbeSleeps, Stage, Within

\* Progress is the stage, and the place in the stages that are loops.
LEMMA ProbeProgressIs ==
  ASSUME NEW run \in ProbeRuns
  PROVE  /\ Stage(run.pc) = 4 => ProbeProgress(run) = <<4, run.code, run.class, Within(run.pc)>>
         /\ Stage(run.pc) = 8 => ProbeProgress(run) = <<8, run.address, Within(run.pc), 0>>
         /\ Stage(run.pc) \notin {4, 8} => ProbeProgress(run) = <<Stage(run.pc), 0, 0, 0>>
<1>1. run.pc \in {"idle", "armed", "lnAare", "lnAareRaw", "lnGet", "lnClassGap", "lnGap", "lnRelease",
                  "snPause", "snAare", "snRead", "snGap", "snRelease", "done", "failed"}
  BY DEF ProbeRuns, ProbeAwaits, ProbeSleeps
<1>2. CASE run.pc = "idle"
  BY <1>2 DEF ProbeProgress, Stage, Within
<1>3. CASE run.pc = "armed"
  BY <1>3 DEF ProbeProgress, Stage, Within
<1>4. CASE run.pc = "lnAare"
  BY <1>4 DEF ProbeProgress, Stage, Within
<1>5. CASE run.pc = "lnAareRaw"
  BY <1>5 DEF ProbeProgress, Stage, Within
<1>6. CASE run.pc = "lnGet"
  BY <1>6 DEF ProbeProgress, Stage, Within
<1>7. CASE run.pc = "lnClassGap"
  BY <1>7 DEF ProbeProgress, Stage, Within
<1>8. CASE run.pc = "lnGap"
  BY <1>8 DEF ProbeProgress, Stage, Within
<1>9. CASE run.pc = "lnRelease"
  BY <1>9 DEF ProbeProgress, Stage, Within
<1>10. CASE run.pc = "snPause"
  BY <1>10 DEF ProbeProgress, Stage, Within
<1>11. CASE run.pc = "snAare"
  BY <1>11 DEF ProbeProgress, Stage, Within
<1>12. CASE run.pc = "snRead"
  BY <1>12 DEF ProbeProgress, Stage, Within
<1>13. CASE run.pc = "snGap"
  BY <1>13 DEF ProbeProgress, Stage, Within
<1>14. CASE run.pc = "snRelease"
  BY <1>14 DEF ProbeProgress, Stage, Within
<1>15. CASE run.pc \in {"done", "failed"}
  BY <1>15 DEF ProbeProgress, Stage, Within
<1>16. QED
  BY <1>1, <1>2, <1>3, <1>4, <1>5, <1>6, <1>7, <1>8, <1>9, <1>10, <1>11, <1>12, <1>13, <1>14, <1>15

\* A run of the OBIS probe that is further on is nearer to its end.
LEMMA ProbeAhead ==
  ASSUME NEW run \in ProbeRuns, NEW next \in ProbeRuns, ProbeFurther(run, next)
  PROVE  Before(ProbeProgress(run), ProbeProgress(next))
<1>1. PICK a \in Nat, b \in Nat, c \in Nat, d \in Nat :
        /\ a = Stage(run.pc) /\ ProbeProgress(run) = <<a, b, c, d>>
        /\ a = 4 => b = run.code /\ c = run.class /\ d = Within(run.pc)
        /\ a = 8 => b = run.address /\ c = Within(run.pc) /\ d = 0
  BY StageTyped, ProbeProgressIs
<1>2. PICK e \in Nat, f \in Nat, g \in Nat, h \in Nat :
        /\ e = Stage(next.pc) /\ ProbeProgress(next) = <<e, f, g, h>>
        /\ e = 4 => f = next.code /\ g = next.class /\ h = Within(next.pc)
        /\ e = 8 => f = next.address /\ g = Within(next.pc) /\ h = 0
  BY StageTyped, ProbeProgressIs
<1>3. \/ a < e
      \/ a = e /\ b < f
      \/ a = e /\ b = f /\ c < g
      \/ a = e /\ b = f /\ c = g /\ d < h
  <2>1. CASE Stage(next.pc) > Stage(run.pc)
    BY <1>1, <1>2, <2>1
  <2>2. CASE /\ Stage(run.pc) = 4 /\ Stage(next.pc) = 4
             /\ \/ next.code > run.code
                \/ next.code = run.code /\ next.class > run.class
                \/ next.code = run.code /\ next.class = run.class /\ Within(next.pc) > Within(run.pc)
    BY <1>1, <1>2, <2>2
  <2>3. CASE /\ Stage(run.pc) = 8 /\ Stage(next.pc) = 8
             /\ \/ next.address > run.address
                \/ next.address = run.address /\ Within(next.pc) > Within(run.pc)
    BY <1>1, <1>2, <2>3
  <2>4. QED
    BY <2>1, <2>2, <2>3 DEF ProbeFurther
<1>4. Before(<<a, b, c, d>>, <<e, f, g, h>>)
  BY <1>3, BeforeFour
<1>5. QED
  BY <1>1, <1>2, <1>4

\* A step may go on with what is on its way.
Ready(s, rest) == LateGrows(s) /\ (late'[s] = 0 => rest = <<>>)

\* A run is taken to its next await, and sends the request of that await.
ProbeMoves(s) ==
    \E run \in ProbeRuns : \E rest :
        /\ AwaitNext(s, run, rest, ProbeDue(run))
        /\ Ready(s, rest)
        /\ ProbeFurther(probe[s], run)

\* The results a step lists are honest ones of its run.
ListsHonestly(s) ==
    /\ \A r \in lnResults' \ lnResults : r.run = s /\ (r.of = <<r.code, r.class>> \/ late'[s] > 0)
    /\ \A r \in snResults' \ snResults : r.run = s /\ (r.of = <<r.address>> \/ late'[s] > 0)

\* A connection a step leaves alone: the results may be emptied.
LEMMA QuietProbe ==
  ASSUME NEW s, NEW r, r # s, ProbeWire(r), ListsHonestly(s),
         probe'[r] = probe[r], late'[r] = late[r],
         inflight'[r] = inflight[r] \/ inflight'[r] = <<>>
  PROVE  ProbeWire(r)'
<1>1. ProbeHonest(r)'
  BY DEF ProbeWire, ProbeHonest, ListsHonestly
<1>2. QED
  BY <1>1 DEF ProbeWire

\* A step that takes one run on, and lists what is honest, keeps the invariant.
LEMMA MoveKeepsWire ==
  ASSUME ProbeInv, ProbeWireInv, NEW s \in Sockets, ProbeMoves(s), ListsHonestly(s)
  PROVE  ProbeWireInv' /\ \A r \in Sockets : ProbeAdvances(r)
<1>1. PICK run, rest :
        /\ run \in ProbeRuns
        /\ AwaitNext(s, run, rest, ProbeDue(run))
        /\ LateGrows(s) /\ (late'[s] = 0 => rest = <<>>)
        /\ ProbeFurther(probe[s], run)
  BY DEF ProbeMoves, Ready
<1>2. PICK flight : flight = IF ProbeDue(run) = NothingAsked THEN rest ELSE Sent(s, rest, ProbeDue(run))
  OBVIOUS
<1>3. probe' = [probe EXCEPT ![s] = run] /\ inflight' = [inflight EXCEPT ![s] = flight] /\ UNCHANGED serverVars
  BY <1>1, <1>2 DEF AwaitNext
<1>4. probe \in [Sockets -> ProbeRuns] /\ probe[s] \in ProbeRuns
  BY DEF ProbeInv
<1>5. probe'[s] = run /\ \A r \in Sockets : r # s => probe'[r] = probe[r]
  BY <1>3, <1>4
<1>6. /\ inflight' = [r \in Sockets |-> inflight'[r]] /\ inflight'[s] = flight
      /\ \A r \in Sockets : r # s => inflight'[r] = inflight[r]
  BY <1>3 DEF ProbeWireInv
<1>7. ServerTypeOK'
  BY <1>1, <1>3 DEF ProbeWireInv, ServerTypeOK, serverVars, LateGrows
<1>8. \A r \in Sockets : r # s => ProbeWire(r)'
  BY <1>1, <1>5, <1>6, QuietProbe DEF LateGrows, ProbeWireInv
<1>9. ProbeWire(s)'
  <2>1. late'[s] = 0 => \/ flight = <<>>
                        \/ run.pc \in ProbeAwaits /\ flight = <<ProbeDue(run)>>
    <3>1. ProbeDue(run) # NothingAsked => run.pc \in ProbeAwaits
      BY DEF ProbeDue, ProbeAwaits
    <3>2. rest = <<>> => Append(rest, ProbeDue(run)) = <<ProbeDue(run)>>
      OBVIOUS
    <3>3. QED
      BY <1>1, <1>2, <3>1, <3>2 DEF Sent
  <2>2. late[s] \in Nat /\ late'[s] \in Nat /\ late[s] <= late'[s]
    BY <1>1, BoundsAssumption DEF ProbeWireInv, ServerTypeOK, LateGrows
  <2>3. late[s] > 0 => late'[s] > 0
    BY <2>2
  <2>4. ProbeHonest(s)'
    BY <2>3 DEF ProbeWireInv, ProbeWire, ProbeHonest, ListsHonestly
  <2>5. QED
    BY <1>5, <1>6, <2>1, <2>4 DEF ProbeWire
<1>10. \A r \in Sockets : ProbeAdvances(r)
  <2>1. Before(ProbeProgress(probe[s]), ProbeProgress(run))
    BY <1>1, <1>4, ProbeAhead
  <2>2. QED
    BY <1>5, <2>1 DEF ProbeAdvances
<1>11. QED
  BY <1>6, <1>7, <1>8, <1>9, <1>10 DEF ProbeWireInv

\* A run at another await.
LEMMA AtStage ==
  ASSUME NEW run \in ProbeRuns, NEW pc \in ProbeAwaits \cup ProbeSleeps \cup {"idle", "done", "failed"}
  PROVE  /\ [run EXCEPT !.pc = pc] \in ProbeRuns /\ [run EXCEPT !.pc = pc].pc = pc
         /\ [run EXCEPT !.pc = pc].code = run.code /\ [run EXCEPT !.pc = pc].class = run.class
         /\ [run EXCEPT !.pc = pc].address = run.address
BY DEF ProbeRuns

\* What makes run, taken to an await, further on than the run of s.
NearerPause(s, run, pc) ==
    \/ Stage(pc) > Stage(probe[s].pc)
    \/ /\ Stage(probe[s].pc) \in {4, 8} /\ Stage(pc) = Stage(probe[s].pc)
       /\ run.code = probe[s].code /\ run.class = probe[s].class /\ run.address = probe[s].address
       /\ Within(pc) > Within(probe[s].pc)

NearerCode(s, run) ==
    \/ Stage(probe[s].pc) < 4
    \/ /\ Stage(probe[s].pc) = 4
       /\ \/ run.code > probe[s].code
          \/ run.code = probe[s].code /\ run.class > probe[s].class

NearerAddress(s, run) ==
    \/ Stage(probe[s].pc) < 8
    \/ Stage(probe[s].pc) = 8 /\ run.address > probe[s].address

\* A run comes to a sleep, or is over.
LEMMA PauseMoves ==
  ASSUME NEW s \in Sockets, NEW run \in ProbeRuns, NEW pc \in ProbeSleeps \cup {"done", "failed"}, NEW rest,
         Ready(s, rest), Pause(s, run, rest, pc), NearerPause(s, run, pc)
  PROVE  ProbeMoves(s)
<1>1. PICK next \in ProbeRuns :
        /\ next = [run EXCEPT !.pc = pc] /\ next.pc = pc
        /\ next.code = run.code /\ next.class = run.class /\ next.address = run.address
  BY AtStage
<1>2. ProbeDue(next) = NothingAsked
  BY <1>1 DEF ProbeDue, ProbeSleeps
<1>3. AwaitNext(s, next, rest, ProbeDue(next))
  BY <1>1, <1>2 DEF Pause
<1>4. ProbeFurther(probe[s], next)
  BY <1>1 DEF ProbeFurther, NearerPause
<1>5. QED
  BY <1>3, <1>4 DEF ProbeMoves

\* A run sends an AARQ.
LEMMA AssociateMoves ==
  ASSUME NEW s \in Sockets, probe[s] \in ProbeRuns, NEW pc \in {"lnAare", "lnAareRaw", "snAare"}, NEW rest,
         Ready(s, rest), Associate(s, probe[s], rest, pc), Stage(pc) > Stage(probe[s].pc)
  PROVE  ProbeMoves(s)
<1>1. pc \in ProbeAwaits
  BY DEF ProbeAwaits
<1>2. PICK next \in ProbeRuns : next = [probe[s] EXCEPT !.pc = pc] /\ next.pc = pc
  BY <1>1, AtStage
<1>3. ProbeDue(next) = [tag |-> "aare", of |-> <<pc>>]
  BY <1>2 DEF ProbeDue
<1>4. AwaitNext(s, next, rest, ProbeDue(next))
  BY <1>2, <1>3 DEF Associate
<1>5. ProbeFurther(probe[s], next)
  BY <1>2 DEF ProbeFurther
<1>6. QED
  BY <1>4, <1>5 DEF ProbeMoves

\* A run asks for a code, under a class.
LEMMA LnGetMoves ==
  ASSUME NEW s \in Sockets, NEW run \in ProbeRuns, NEW rest, Ready(s, rest), NEW next,
         next = [run EXCEPT !.pc = "lnGet"], AwaitNext(s, next, rest, LnRequest(run)),
         NearerCode(s, run)
  PROVE  ProbeMoves(s)
<1>1. /\ next \in ProbeRuns /\ next.pc = "lnGet"
      /\ next.code = run.code /\ next.class = run.class
  BY AtStage DEF ProbeAwaits
<1>2. ProbeDue(next) = LnRequest(run)
  BY <1>1 DEF ProbeDue, LnRequest
<1>3. ProbeFurther(probe[s], next)
  <2>1. Stage(next.pc) = 4
    BY <1>1 DEF Stage
  <2>2. CASE Stage(probe[s].pc) < 4
    BY <2>1, <2>2 DEF ProbeFurther
  <2>3. QED
    BY <1>1, <2>1, <2>2 DEF ProbeFurther, NearerCode
<1>4. QED
  BY <1>1, <1>2, <1>3 DEF ProbeMoves

\* A run reads an address.
LEMMA SnReadMoves ==
  ASSUME NEW s \in Sockets, NEW run \in ProbeRuns, NEW rest, Ready(s, rest), NEW next,
         next = [run EXCEPT !.pc = "snRead"], AwaitNext(s, next, rest, SnRequest(run)),
         NearerAddress(s, run)
  PROVE  ProbeMoves(s)
<1>1. /\ next \in ProbeRuns /\ next.pc = "snRead" /\ next.address = run.address
  BY AtStage DEF ProbeAwaits
<1>2. ProbeDue(next) = SnRequest(run)
  BY <1>1 DEF ProbeDue, SnRequest
<1>3. ProbeFurther(probe[s], next)
  <2>1. Stage(next.pc) = 8
    BY <1>1 DEF Stage
  <2>2. CASE Stage(probe[s].pc) < 8
    BY <2>1, <2>2 DEF ProbeFurther
  <2>3. QED
    BY <1>1, <2>1, <2>2 DEF ProbeFurther, NearerAddress
<1>4. QED
  BY <1>1, <1>2, <1>3 DEF ProbeMoves

\* The head of the loop over the codes.
LEMMA LnProbeMoves ==
  ASSUME NEW s \in Sockets, NEW run \in ProbeRuns, NEW rest, Ready(s, rest), LnProbe(s, run, rest),
         Stage(probe[s].pc) = 4, run.code > probe[s].code
  PROVE  ProbeMoves(s)
<1>1. CASE AwaitNext(s, [run EXCEPT !.pc = "lnGet"], rest, LnRequest(run))
  BY <1>1, LnGetMoves DEF NearerCode
<1>2. ASSUME NEW pc \in {"lnRelease", "done"}, Pause(s, run, rest, pc) PROVE ProbeMoves(s)
  <2>0. Stage(pc) \in {5, 10}
    BY DEF Stage
  <2>1. NearerPause(s, run, pc) /\ pc \in ProbeSleeps \cup {"done", "failed"}
    BY <2>0 DEF ProbeSleeps, NearerPause
  <2>2. QED
    BY <1>2, <2>1, PauseMoves
<1>3. QED
  BY <1>1, <1>2 DEF LnProbe, ReleaseAssociation

\* The head of the loop over the addresses.
LEMMA SnProbeMoves ==
  ASSUME NEW s \in Sockets, NEW run \in ProbeRuns, NEW rest, Ready(s, rest), SnProbe(s, run, rest),
         Stage(probe[s].pc) = 8, run.address > probe[s].address
  PROVE  ProbeMoves(s)
<1>1. CASE AwaitNext(s, [run EXCEPT !.pc = "snRead"], rest, SnRequest(run))
  BY <1>1, SnReadMoves DEF NearerAddress
<1>2. ASSUME NEW pc \in {"snRelease", "done"}, Pause(s, run, rest, pc) PROVE ProbeMoves(s)
  <2>0. Stage(pc) \in {9, 10}
    BY DEF Stage
  <2>1. NearerPause(s, run, pc) /\ pc \in ProbeSleeps \cup {"done", "failed"}
    BY <2>0 DEF ProbeSleeps, NearerPause
  <2>2. QED
    BY <1>2, <2>1, PauseMoves
<1>3. QED
  BY <1>1, <1>2 DEF SnProbe, ReleaseAssociation

\* The next code of OBIS_PROBE_LIST, under its first class.
LEMMA NextCodeIs ==
  ASSUME NEW run \in ProbeRuns
  PROVE  NextCode(run) \in ProbeRuns /\ NextCode(run).code > run.code
<1>1. run.code \in Nat
  BY DEF ProbeRuns
<1>2. PICK n \in Nat : n = run.code + 1 /\ n > run.code
  BY <1>1
<1>3. NextCode(run) = [run EXCEPT !.code = n, !.class = 1, !.found = FALSE]
  BY <1>2 DEF NextCode
<1>4. [run EXCEPT !.code = n, !.class = 1, !.found = FALSE] \in ProbeRuns
  BY DEF ProbeRuns
<1>5. [run EXCEPT !.code = n, !.class = 1, !.found = FALSE].code = n
  BY DEF ProbeRuns
<1>6. QED
  BY <1>2, <1>3, <1>4, <1>5

\* A sleep ends.
LEMMA WakeProbeMoves ==
  ASSUME ProbeInv, ProbeWireInv, NEW s \in Sockets, WakeProbe(s)
  PROVE  ProbeMoves(s) /\ ListsHonestly(s)
<1>1. PICK run \in ProbeRuns : run = probe[s]
  BY DEF ProbeInv
<1>2. PICK rest : rest = inflight[s]
  OBVIOUS
<1>3. UNCHANGED <<lnResults, snResults, late>>
  BY DEF WakeProbe, NoResult
<1>4. ListsHonestly(s)
  BY <1>3 DEF ListsHonestly
<1>5. run.pc \in {"armed", "lnClassGap", "lnGap", "lnRelease", "snPause", "snGap", "snRelease"}
  BY <1>1 DEF WakeProbe
<1>6. Ready(s, rest)
  <2>1. LateGrows(s) /\ late'[s] = late[s]
    BY <1>3, LateSame DEF ProbeWireInv
  <2>2. late[s] = 0 => rest = <<>>
    BY <1>1, <1>2, <1>5 DEF ProbeWireInv, ProbeWire, ProbeAwaits
  <2>3. QED
    BY <2>1, <2>2 DEF Ready
<1>7. CASE run.pc = "armed" /\ Associate(s, run, rest, "lnAare")
  BY <1>1, <1>4, <1>6, <1>7, AssociateMoves DEF Stage
<1>8. CASE run.pc = "lnClassGap" /\ NextClass(s, run, rest)
  <2>0. Stage(run.pc) = 4 /\ Within(run.pc) = 1 /\ Stage("lnGap") = 4 /\ Within("lnGap") = 2
    BY <1>8 DEF Stage, Within
  <2>1. CASE LnProbe(s, NextCode(run), rest)
    BY <1>1, <1>4, <1>6, <2>0, <2>1, NextCodeIs, LnProbeMoves
  <2>2. CASE Pause(s, run, rest, "lnGap")
    <3>1. NearerPause(s, run, "lnGap") /\ "lnGap" \in ProbeSleeps \cup {"done", "failed"}
      BY <1>1, <2>0 DEF NearerPause, ProbeSleeps
    <3>2. QED
      BY <1>4, <1>6, <2>2, <3>1, PauseMoves
  <2>3. ASSUME NEW next, next = [run EXCEPT !.class = @ + 1, !.pc = "lnGet"],
               AwaitNext(s, next, rest, LnRequest(next))
        PROVE  ProbeMoves(s)
    <3>1. run.class \in Nat
      BY DEF ProbeRuns
    <3>2. PICK n \in Nat : n = run.class + 1 /\ n > run.class
      BY <3>1
    <3>3. PICK d : d = [run EXCEPT !.class = n]
      OBVIOUS
    <3>4. d \in ProbeRuns /\ d.class = n /\ d.code = run.code
      BY <3>3 DEF ProbeRuns
    <3>5. next = [d EXCEPT !.pc = "lnGet"]
      BY <2>3, <3>2, <3>3
    <3>6. next.code = d.code /\ next.class = d.class
      BY <3>4, <3>5, AtStage DEF ProbeAwaits
    <3>7. LnRequest(next) = LnRequest(d)
      BY <3>6 DEF LnRequest
    <3>8. NearerCode(s, d)
      BY <1>1, <2>0, <3>2, <3>4 DEF NearerCode
    <3>9. QED
      BY <1>6, <2>3, <3>4, <3>5, <3>7, <3>8, LnGetMoves
  <2>4. QED
    BY <1>4, <1>8, <2>1, <2>2, <2>3 DEF NextClass
<1>9. CASE run.pc = "lnGap" /\ LnProbe(s, NextCode(run), rest)
  <2>1. Stage(run.pc) = 4
    BY <1>9 DEF Stage
  <2>2. QED
    BY <1>1, <1>4, <1>6, <1>9, <2>1, NextCodeIs, LnProbeMoves
<1>10. CASE run.pc = "lnRelease" /\ LnReleased(s, run, rest)
  <2>1. PICK pc \in {"snPause", "done"} : Pause(s, run, rest, pc)
    BY <1>10 DEF LnReleased
  <2>2. NearerPause(s, run, pc) /\ pc \in ProbeSleeps \cup {"done", "failed"}
    BY <1>1, <1>10 DEF Stage, ProbeSleeps, NearerPause
  <2>3. QED
    BY <1>4, <1>6, <2>1, <2>2, PauseMoves
<1>11. CASE run.pc = "snPause" /\ Associate(s, run, rest, "snAare")
  BY <1>1, <1>4, <1>6, <1>11, AssociateMoves DEF Stage
<1>12. CASE run.pc = "snGap" /\ SnProbe(s, [run EXCEPT !.address = @ + 1], rest)
  <2>1. run.address \in Nat
    BY DEF ProbeRuns
  <2>2. PICK n \in Nat : n = run.address + 1 /\ n > run.address
    BY <2>1
  <2>3. PICK d : d = [run EXCEPT !.address = n]
    OBVIOUS
  <2>4. d \in ProbeRuns /\ d.address = n
    BY <2>3 DEF ProbeRuns
  <2>5. SnProbe(s, d, rest)
    BY <1>12, <2>2, <2>3
  <2>6. Stage(run.pc) = 8
    BY <1>12 DEF Stage
  <2>7. QED
    BY <1>1, <1>4, <1>6, <2>2, <2>4, <2>5, <2>6, SnProbeMoves
<1>13. CASE run.pc = "snRelease" /\ Ended(s, rest)
  <2>1. Pause(s, run, rest, "done")
    BY <1>1, <1>13 DEF Ended
  <2>2. NearerPause(s, run, "done")
    BY <1>1, <1>13 DEF Stage, NearerPause
  <2>3. QED
    BY <1>4, <1>6, <2>1, <2>2, PauseMoves
<1>14. QED
  BY <1>1, <1>2, <1>4, <1>7, <1>8, <1>9, <1>10, <1>11, <1>12, <1>13 DEF WakeProbe

\* The answer that is due is the answer to what was asked, unless one came late.
LEMMA DueAnswered ==
  ASSUME ProbeWireInv, NEW s \in Sockets, inflight[s] # <<>>, late[s] = 0
  PROVE  Tail(inflight[s]) = <<>> /\ Head(inflight[s]) = ProbeDue(probe[s])
<1>1. inflight[s] = <<ProbeDue(probe[s])>>
  BY DEF ProbeWireInv, ProbeWire
<1>2. \A x : Tail(<<x>>) = <<>> /\ Head(<<x>>) = x
  OBVIOUS
<1>3. QED
  BY <1>1, <1>2

\* A result that a run lists.
LEMMA ResultListed ==
  ASSUME ServerTypeOK, NEW s \in Sockets, LateGrows(s), NEW result, NEW of,
         \/ /\ LnResult(s, result, of) /\ UNCHANGED snResults
            /\ late'[s] = 0 => of = <<probe[s].code, probe[s].class>>
         \/ /\ SnResult(s, result, of) /\ UNCHANGED lnResults
            /\ late'[s] = 0 => of = <<probe[s].address>>
  PROVE  ListsHonestly(s)
<1>1. late'[s] \in Nat
  BY BoundsAssumption DEF LateGrows
<1>2. late'[s] = 0 \/ late'[s] > 0
  BY <1>1
<1>3. CASE /\ LnResult(s, result, of) /\ UNCHANGED snResults
           /\ late'[s] = 0 => of = <<probe[s].code, probe[s].class>>
  BY <1>2, <1>3 DEF ListsHonestly, LnResult
<1>4. CASE /\ SnResult(s, result, of) /\ UNCHANGED lnResults
           /\ late'[s] = 0 => of = <<probe[s].address>>
  BY <1>2, <1>4 DEF ListsHonestly, SnResult
<1>5. QED
  BY <1>3, <1>4

\* The answer a run waits for arrives.
LEMMA DeliverMoves ==
  ASSUME ProbeInv, ProbeWireInv, NEW s \in Sockets, inflight[s] # <<>>, UNCHANGED late,
         NEW rest, rest = Tail(inflight[s]), NEW of, of = Head(inflight[s]).of,
         \/ AareReceived(s, rest, of) \/ GetReceived(s, rest, of)
         \/ SnAareReceived(s, rest, of) \/ ReadReceived(s, rest, of)
  PROVE  ProbeMoves(s) /\ ListsHonestly(s)
<1>1. PICK run \in ProbeRuns : run = probe[s]
  BY DEF ProbeInv
<1>2. LateGrows(s) /\ late'[s] = late[s] /\ ServerTypeOK
  BY LateSame DEF ProbeWireInv
<1>3. Ready(s, rest) /\ (late'[s] = 0 => of = ProbeDue(run).of)
  BY <1>1, <1>2, DueAnswered DEF Ready
<1>4. NoResult => ListsHonestly(s)
  BY DEF NoResult, ListsHonestly
<1>5. CASE AareReceived(s, rest, of)
  <2>1. Stage(run.pc) \in {2, 3} /\ ListsHonestly(s)
    BY <1>1, <1>4, <1>5 DEF AareReceived, Stage
  <2>2. CASE AwaitNext(s, [run EXCEPT !.pc = "lnGet"], rest, LnRequest(run))
    <3>1. NearerCode(s, run)
      BY <1>1, <2>1 DEF NearerCode
    <3>2. QED
      BY <1>3, <2>1, <2>2, <3>1, LnGetMoves
  <2>3. ASSUME NEW pc \in {"snPause", "done"}, Pause(s, run, rest, pc)
        PROVE  ProbeMoves(s) /\ ListsHonestly(s)
    <3>1. Stage(pc) \in {6, 10} /\ pc \in ProbeSleeps \cup {"done", "failed"}
      BY DEF Stage, ProbeSleeps
    <3>2. NearerPause(s, run, pc)
      BY <1>1, <2>1, <3>1 DEF NearerPause
    <3>3. QED
      BY <1>3, <2>1, <2>3, <3>1, <3>2, PauseMoves
  <2>4. QED
    BY <1>1, <1>5, <2>2, <2>3 DEF AareReceived
<1>6. CASE GetReceived(s, rest, of)
  <2>1. run.pc = "lnGet" /\ UNCHANGED snResults
    BY <1>1, <1>6 DEF GetReceived
  <2>2. Stage(run.pc) = 4 /\ Within(run.pc) = 0
    BY <2>1 DEF Stage, Within
  <2>3. late'[s] = 0 => of = <<probe[s].code, probe[s].class>>
    BY <1>1, <1>3, <2>1 DEF ProbeDue, LnRequest
  <2>4. ListsHonestly(s)
    <3>1. CASE \E result : LnResult(s, result, of)
      BY <1>2, <2>1, <2>3, <3>1, ResultListed
    <3>2. CASE UNCHANGED lnResults
      BY <2>1, <3>2 DEF ListsHonestly
    <3>3. QED
      BY <1>6, <3>1, <3>2 DEF GetReceived
  <2>5. ASSUME NEW found \in ProbeRuns, found.code = run.code, found.class = run.class,
               found.address = run.address,
               NEW pc \in {"lnClassGap", "lnGap"}, Pause(s, found, rest, pc)
        PROVE  ProbeMoves(s)
    <3>1. Stage(pc) = 4 /\ Within(pc) \in {1, 2} /\ pc \in ProbeSleeps \cup {"done", "failed"}
      BY DEF Stage, Within, ProbeSleeps
    <3>2. NearerPause(s, found, pc)
      BY <1>1, <2>2, <2>5, <3>1 DEF NearerPause
    <3>3. QED
      BY <1>3, <2>5, <3>1, <3>2, PauseMoves
  <2>6. CASE Pause(s, [run EXCEPT !.found = TRUE, !.count = @ + 1], rest, "lnClassGap")
    <3>1. run.count \in Nat
      BY DEF ProbeRuns
    <3>2. PICK n \in Nat : n = run.count + 1
      BY <3>1
    <3>3. PICK found : found = [run EXCEPT !.found = TRUE, !.count = n]
      OBVIOUS
    <3>4. found \in ProbeRuns /\ found.code = run.code /\ found.class = run.class /\ found.address = run.address
      BY <3>3 DEF ProbeRuns
    <3>5. Pause(s, found, rest, "lnClassGap")
      BY <2>6, <3>2, <3>3
    <3>6. QED
      BY <2>4, <2>5, <3>4, <3>5
  <2>7. ASSUME NEW pc \in {"lnClassGap", "lnGap"}, Pause(s, run, rest, pc)
        PROVE  ProbeMoves(s) /\ ListsHonestly(s)
    BY <2>4, <2>5, <2>7
  <2>8. CASE UNCHANGED lnResults /\ Pause(s, run, rest, "failed")
    <3>1. Stage("failed") = 10
      BY DEF Stage
    <3>2. NearerPause(s, run, "failed")
      BY <1>1, <2>2, <3>1 DEF NearerPause
    <3>3. QED
      BY <1>3, <2>4, <2>8, <3>2, PauseMoves
  <2>9. QED
    BY <1>1, <1>6, <2>6, <2>7, <2>8 DEF GetReceived
<1>7. CASE SnAareReceived(s, rest, of)
  <2>1. Stage(run.pc) = 7 /\ ListsHonestly(s)
    BY <1>1, <1>4, <1>7 DEF SnAareReceived, Stage
  <2>2. CASE AwaitNext(s, [run EXCEPT !.pc = "snRead"], rest, SnRequest(run))
    <3>1. NearerAddress(s, run)
      BY <1>1, <2>1 DEF NearerAddress
    <3>2. QED
      BY <1>3, <2>1, <2>2, <3>1, SnReadMoves
  <2>3. CASE Pause(s, run, rest, "done")
    <3>0. Stage("done") = 10
      BY DEF Stage
    <3>1. NearerPause(s, run, "done")
      BY <1>1, <2>1, <3>0 DEF NearerPause
    <3>2. QED
      BY <1>3, <2>1, <2>3, <3>1, PauseMoves
  <2>4. QED
    BY <1>1, <1>7, <2>2, <2>3 DEF SnAareReceived, Ended
<1>8. CASE ReadReceived(s, rest, of)
  <2>1. run.pc = "snRead" /\ Pause(s, run, rest, "snGap") /\ SnResult(s, "answered", of) /\ UNCHANGED lnResults
    BY <1>1, <1>8 DEF ReadReceived
  <2>2. Stage(run.pc) = 8 /\ Within(run.pc) = 0 /\ Stage("snGap") = 8 /\ Within("snGap") = 1
        /\ "snGap" \in ProbeSleeps \cup {"done", "failed"}
    BY <2>1 DEF Stage, Within, ProbeSleeps
  <2>3. late'[s] = 0 => of = <<probe[s].address>>
    BY <1>1, <1>3, <2>1 DEF ProbeDue, SnRequest
  <2>4. ListsHonestly(s)
    BY <1>2, <2>1, <2>3, ResultListed
  <2>5. NearerPause(s, run, "snGap")
    BY <1>1, <2>2 DEF NearerPause
  <2>6. QED
    BY <1>3, <2>1, <2>2, <2>4, <2>5, PauseMoves
<1>9. QED
  BY <1>5, <1>6, <1>7, <1>8

\* The timer of a wait fires.
LEMMA ProbeTimeoutMoves ==
  ASSUME ProbeInv, ProbeWireInv, NEW s \in Sockets, ProbeTimeout(s)
  PROVE  ProbeMoves(s) /\ ListsHonestly(s)
<1>1. PICK run \in ProbeRuns : run = probe[s]
  BY DEF ProbeInv
<1>2. PICK rest \in Outstanding(s) :
        /\ MissAnswer(s, rest)
        /\ \/ /\ run.pc = "lnAare"
              /\ Associate(s, run, rest, "lnAareRaw")
              /\ NoResult
           \/ /\ run.pc = "lnAareRaw"
              /\ Pause(s, run, rest, "snPause")
              /\ NoResult
           \/ /\ run.pc = "lnGet"
              /\ LnResult(s, "timeout", LnRequest(run).of)
              /\ Pause(s, run, rest, "lnGap")
              /\ UNCHANGED snResults
           \/ /\ run.pc = "snAare"
              /\ Pause(s, run, rest, "done")
              /\ NoResult
           \/ /\ run.pc = "snRead"
              /\ SnResult(s, "timeout", SnRequest(run).of)
              /\ Pause(s, run, rest, "snGap")
              /\ UNCHANGED lnResults
  BY <1>1 DEF ProbeTimeout
<1>3. Ready(s, rest) /\ ServerTypeOK /\ LateGrows(s)
  BY <1>2, MissGrows DEF Ready, ProbeWireInv
<1>4. NoResult => ListsHonestly(s)
  BY DEF NoResult, ListsHonestly
<1>5. ASSUME NEW pc, Pause(s, run, rest, pc),
             \/ run.pc = "lnAareRaw" /\ pc = "snPause"
             \/ run.pc = "lnGet" /\ pc = "lnGap"
             \/ run.pc = "snAare" /\ pc = "done"
             \/ run.pc = "snRead" /\ pc = "snGap"
      PROVE  ProbeMoves(s)
  <2>1. NearerPause(s, run, pc)
    BY <1>1, <1>5 DEF NearerPause, Stage, Within
  <2>2. pc \in ProbeSleeps \cup {"done", "failed"}
    BY <1>5 DEF ProbeSleeps
  <2>3. QED
    BY <1>3, <1>5, <2>1, <2>2, PauseMoves
<1>6. CASE run.pc = "lnAare" /\ Associate(s, run, rest, "lnAareRaw") /\ NoResult
  <2>1. Stage("lnAareRaw") > Stage(run.pc)
    BY <1>6 DEF Stage
  <2>2. QED
    BY <1>1, <1>3, <1>4, <1>6, <2>1, AssociateMoves
<1>7. CASE \/ run.pc = "lnAareRaw" /\ Pause(s, run, rest, "snPause") /\ NoResult
           \/ run.pc = "snAare" /\ Pause(s, run, rest, "done") /\ NoResult
  BY <1>4, <1>5, <1>7
<1>8. CASE /\ run.pc = "lnGet"
           /\ LnResult(s, "timeout", LnRequest(run).of)
           /\ Pause(s, run, rest, "lnGap")
           /\ UNCHANGED snResults
  <2>1. LnRequest(run).of = <<probe[s].code, probe[s].class>>
    BY <1>1 DEF LnRequest
  <2>2. ListsHonestly(s)
    BY <1>3, <1>8, <2>1, ResultListed
  <2>3. QED
    BY <1>5, <1>8, <2>2
<1>9. CASE /\ run.pc = "snRead"
           /\ SnResult(s, "timeout", SnRequest(run).of)
           /\ Pause(s, run, rest, "snGap")
           /\ UNCHANGED lnResults
  <2>1. SnRequest(run).of = <<probe[s].address>>
    BY <1>1 DEF SnRequest
  <2>2. ListsHonestly(s)
    BY <1>3, <1>9, <2>1, ResultListed
  <2>3. QED
    BY <1>5, <1>9, <2>2
<1>10. QED
  BY <1>2, <1>6, <1>7, <1>8, <1>9

\* A step that takes no run on, and may empty the results.
LEMMA QuietProbeStep ==
  ASSUME ProbeWireInv, ServerTypeOK', UNCHANGED <<probe, late>>,
         lnResults' \subseteq lnResults, snResults' \subseteq snResults,
         inflight' = [s \in Sockets |-> inflight'[s]],
         \A s \in Sockets : inflight'[s] = inflight[s] \/ (late[s] = 0 => inflight'[s] = <<>>)
  PROVE  ProbeWireInv' /\ \A s \in Sockets : ProbeAdvances(s)
<1>1. ASSUME NEW s \in Sockets PROVE ProbeWire(s)'
  <2>1. ProbeWire(s)
    BY DEF ProbeWireInv
  <2>2. ProbeHonest(s)'
    BY <2>1 DEF ProbeWire, ProbeHonest
  <2>3. QED
    BY <2>1, <2>2 DEF ProbeWire
<1>2. QED
  BY <1>1 DEF ProbeWireInv, ProbeAdvances

\* Every step of the OBIS probe keeps its results honest, and takes no run back.
LEMMA ProbeSteps ==
  ASSUME ProbeInv, ProbeWireInv, ProbeNext
  PROVE  ProbeWireInv' /\ \A s \in Sockets : ProbeAdvances(s)
<1> SUFFICES ASSUME NEW s \in Sockets,
                    \/ AcceptForProbe(s) \/ RejectForProbe(s) \/ CloseForProbe(s) \/ FailForProbe(s)
                    \/ ProbeHeartbeat(s) \/ DeliverToProbe(s) \/ ProbeTimeout(s) \/ WakeProbe(s)
             PROVE  ProbeWireInv' /\ \A r \in Sockets : ProbeAdvances(r)
  BY DEF ProbeNext
<1>1. CASE AcceptForProbe(s) \/ RejectForProbe(s) \/ CloseForProbe(s) \/ FailForProbe(s)
  <2>1. Reject(s) \/ Accept(s) \/ Close(s) \/ Fail(s)
    BY <1>1 DEF AcceptForProbe, RejectForProbe, CloseForProbe, FailForProbe
  <2>2. /\ ServerTypeOK' /\ late' = late
        /\ inflight' = inflight \/ inflight' = [inflight EXCEPT ![s] = <<>>]
    BY <2>1, ServerTyped DEF ProbeWireInv
  <2>3. /\ inflight' = [r \in Sockets |-> inflight'[r]]
        /\ \A r \in Sockets : inflight'[r] = inflight[r] \/ inflight'[r] = <<>>
    BY <2>2 DEF ProbeWireInv
  <2>4. probe' = probe /\ lnResults' \subseteq lnResults /\ snResults' \subseteq snResults
    BY <1>1 DEF AcceptForProbe, RejectForProbe, CloseForProbe, FailForProbe, Dissociate, probeVars
  <2>5. QED
    BY <2>2, <2>3, <2>4, QuietProbeStep
<1>2. CASE ProbeHeartbeat(s)
  <2>1. PICK run \in ProbeRuns : run = probe[s] /\ run.pc = "idle"
    BY <1>2 DEF ProbeHeartbeat, ProbeInv
  <2>2. PICK armed \in ProbeRuns : armed = [run EXCEPT !.pc = "armed"] /\ armed.pc = "armed"
    BY AtStage DEF ProbeSleeps
  <2>3. /\ probe' = [probe EXCEPT ![s] = armed]
        /\ UNCHANGED <<sock, activeSocket, disconnected, inflight, late, lnResults, snResults>>
    BY <1>2, <2>1, <2>2 DEF ProbeHeartbeat, serverVars, wireVars
  <2>4. probe'[s] = armed /\ \A r \in Sockets : r # s => probe'[r] = probe[r]
    BY <2>3 DEF ProbeInv
  <2>5. ServerTypeOK'
    BY <2>3 DEF ProbeWireInv, ServerTypeOK
  <2>6. ASSUME NEW r \in Sockets PROVE ProbeWire(r)'
    <3>1. ProbeWire(r)
      BY DEF ProbeWireInv
    <3>2. ProbeHonest(r)'
      BY <2>3, <3>1 DEF ProbeWire, ProbeHonest
    <3>3. probe[s].pc \notin ProbeAwaits
      BY <2>1 DEF ProbeAwaits
    <3>4. QED
      BY <2>3, <2>4, <3>1, <3>2, <3>3 DEF ProbeWire
  <2>7. ProbeFurther(run, armed)
    BY <2>1, <2>2 DEF ProbeFurther, Stage
  <2>8. \A r \in Sockets : ProbeAdvances(r)
    BY <2>1, <2>4, <2>7, ProbeAhead DEF ProbeAdvances
  <2>9. QED
    BY <2>3, <2>5, <2>6, <2>8 DEF ProbeWireInv
<1>3. CASE DeliverToProbe(s)
  <2>1. inflight[s] # <<>>
    BY <1>3 DEF DeliverToProbe
  <2>2. CASE \E answer \in {Head(inflight[s])}, rest \in {Tail(inflight[s])} :
                /\ \/ AareReceived(s, rest, answer.of) \/ GetReceived(s, rest, answer.of)
                   \/ SnAareReceived(s, rest, answer.of) \/ ReadReceived(s, rest, answer.of)
                /\ UNCHANGED late
    <3>1. ProbeMoves(s) /\ ListsHonestly(s)
      BY <2>1, <2>2, DeliverMoves
    <3>2. QED
      BY <3>1, MoveKeepsWire
  <2>3. CASE Lose(s) /\ UNCHANGED probeVars
    <3>1. /\ inflight' = [inflight EXCEPT ![s] = Tail(inflight[s])]
          /\ UNCHANGED <<sock, activeSocket, disconnected, late, probe, lnResults, snResults>>
      BY <2>3 DEF Lose, serverVars, probeVars
    <3>2. late[s] = 0 => Tail(inflight[s]) = <<>>
      BY <2>1, DueAnswered
    <3>3. /\ inflight' = [r \in Sockets |-> inflight'[r]]
          /\ \A r \in Sockets : inflight'[r] = inflight[r] \/ (late[r] = 0 => inflight'[r] = <<>>)
      BY <3>1, <3>2 DEF ProbeWireInv
    <3>4. ServerTypeOK'
      BY <3>1 DEF ProbeWireInv, ServerTypeOK
    <3>5. QED
      BY <3>1, <3>3, <3>4, QuietProbeStep
  <2>4. QED
    BY <1>3, <2>2, <2>3 DEF DeliverToProbe
<1>4. CASE ProbeTimeout(s)
  BY <1>4, ProbeTimeoutMoves, MoveKeepsWire
<1>5. CASE WakeProbe(s)
  BY <1>5, WakeProbeMoves, MoveKeepsWire
<1>6. QED
  BY <1>1, <1>2, <1>3, <1>4, <1>5

------------------------------------------------------------------------------
(* The DLT645 destination probe: its working destination and its way ahead. *)

DestRun(d) ==
    /\ IsRun(d)
    /\ d.pc \in {"idle", "armed", "window", "gap", "done", "failed"}
    /\ d.phase \in {"read", "tripAll", "test"}
    /\ d.at \in Nat

WorkingAnswered(d) == d.working = Nowhere \/ d.working \in d.of

\* What is on its way to a run that no answer was late for.
InWindow(d, flight) ==
    /\ d.pc = "window" => /\ flight = <<>> \/ flight = <<Pending(Frame(d))>>
                          /\ d.got \subseteq {Frame(d).to}
    /\ d.pc # "window" => flight = <<>>

DestWire(s) ==
    /\ DestRun(dest[s])
    /\ late[s] = 0 => InWindow(dest[s], inflight[s]) /\ WorkingAnswered(dest[s])

DestWireInv ==
    /\ ServerTypeOK
    /\ inflight = [s \in Sockets |-> inflight[s]]
    /\ dest = [s \in Sockets |-> dest[s]]
    /\ \A s \in Sockets : DestWire(s)

\* A run is taken on.
DestMoves(s) ==
    \E d, flight :
        /\ dest' = [dest EXCEPT ![s] = d]
        /\ inflight' = [inflight EXCEPT ![s] = flight]
        /\ UNCHANGED serverVars
        /\ LateGrows(s)
        /\ DestRun(d)
        /\ late'[s] = 0 => InWindow(d, flight) /\ WorkingAnswered(d)
        /\ \/ Before(DestProgress(dest[s]), DestProgress(d))
           \/ dest[s].pc = "window" /\ d = [dest[s] EXCEPT !.got = d.got]

\* A step that takes one run of the destination probe on keeps the invariant.
LEMMA DestMoveKeeps ==
  ASSUME DestWireInv, NEW s \in Sockets, DestMoves(s)
  PROVE  DestWireInv' /\ \A r \in Sockets : DestAdvances(r)
<1>1. PICK d, flight :
        /\ dest' = [dest EXCEPT ![s] = d]
        /\ inflight' = [inflight EXCEPT ![s] = flight]
        /\ UNCHANGED serverVars
        /\ LateGrows(s)
        /\ DestRun(d)
        /\ late'[s] = 0 => InWindow(d, flight) /\ WorkingAnswered(d)
        /\ \/ Before(DestProgress(dest[s]), DestProgress(d))
           \/ dest[s].pc = "window" /\ d = [dest[s] EXCEPT !.got = d.got]
  BY DEF DestMoves
<1>2. /\ dest' = [r \in Sockets |-> dest'[r]] /\ dest'[s] = d
      /\ \A r \in Sockets : r # s => dest'[r] = dest[r]
  BY <1>1 DEF DestWireInv
<1>3. /\ inflight' = [r \in Sockets |-> inflight'[r]] /\ inflight'[s] = flight
      /\ \A r \in Sockets : r # s => inflight'[r] = inflight[r]
  BY <1>1 DEF DestWireInv
<1>4. ServerTypeOK'
  BY <1>1 DEF DestWireInv, ServerTypeOK, serverVars, LateGrows
<1>5. ASSUME NEW r \in Sockets, r # s PROVE DestWire(r)'
  <2>1. DestWire(r) /\ dest'[r] = dest[r] /\ inflight'[r] = inflight[r] /\ late'[r] = late[r]
    BY <1>1, <1>2, <1>3, <1>5 DEF DestWireInv, LateGrows
  <2>2. PICK e, f : e = dest[r] /\ f = inflight[r]
    OBVIOUS
  <2>3. DestRun(e) /\ (late[r] = 0 => InWindow(e, f) /\ WorkingAnswered(e))
    BY <2>1, <2>2 DEF DestWire
  <2>4. QED
    BY <2>1, <2>2, <2>3 DEF DestWire
<1>6. DestWire(s)'
  BY <1>1, <1>2, <1>3 DEF DestWire
<1>7. \A r \in Sockets : DestAdvances(r)
  BY <1>1, <1>2 DEF DestAdvances
<1>8. QED
  BY <1>2, <1>3, <1>4, <1>5, <1>6, <1>7 DEF DestWireInv

PhaseNumber(d) == IF d.phase = "read" THEN 2 ELSE 3

\* next, taken to its window, is further on than d.
DestFurther(d, next) ==
    \/ d.pc = "armed"
    \/ /\ d.pc \in {"window", "gap"}
       /\ \/ PhaseNumber(next) > PhaseNumber(d)
          \/ PhaseNumber(next) = PhaseNumber(d) /\ next.at > d.at

\* A run of the destination probe that is further on is nearer to its end.
LEMMA DestAhead ==
  ASSUME NEW d, DestRun(d), NEW next, DestRun(next),
         \/ d.pc \in {"armed", "window", "gap"} /\ next.pc \in {"done", "failed"}
         \/ DestFurther(d, next) /\ next.pc = "window"
         \/ d.pc = "window" /\ next.pc = "gap" /\ next.phase = d.phase /\ next.at = d.at
         \/ d.pc = "idle" /\ next.pc = "armed"
  PROVE  Before(DestProgress(d), DestProgress(next))
<1>1. /\ d.at \in Nat /\ next.at \in Nat
      /\ PhaseNumber(d) \in {2, 3} /\ PhaseNumber(next) \in {2, 3}
  BY DEF DestRun, PhaseNumber
<1>2. ASSUME NEW e, DestRun(e)
      PROVE  /\ e.pc = "idle" => DestProgress(e) = <<0, 0, 0>>
             /\ e.pc = "armed" => DestProgress(e) = <<1, 0, 0>>
             /\ e.pc = "window" => DestProgress(e) = <<PhaseNumber(e), e.at, 0>>
             /\ e.pc = "gap" => DestProgress(e) = <<PhaseNumber(e), e.at, 1>>
             /\ e.pc \in {"done", "failed"} => DestProgress(e) = <<4, 0, 0>>
  BY <1>2 DEF DestProgress, PhaseNumber
<1>3. PICK p \in Nat, q \in Nat, a \in Nat, b \in Nat :
        /\ p = PhaseNumber(d) /\ q = PhaseNumber(next) /\ a = d.at /\ b = next.at
        /\ p \in {2, 3} /\ q \in {2, 3}
  BY <1>1
<1>4. CASE d.pc \in {"armed", "window", "gap"} /\ next.pc \in {"done", "failed"}
  <2>1. DestProgress(next) = <<4, 0, 0>>
    BY <1>2, <1>4
  <2>2. PICK x \in Nat, y \in Nat, z \in Nat : DestProgress(d) = <<x, y, z>> /\ x < 4
    BY <1>2, <1>3, <1>4
  <2>3. Before(<<x, y, z>>, <<4, 0, 0>>)
    BY <2>2, BeforeThree
  <2>4. QED
    BY <2>1, <2>2, <2>3
<1>5. CASE DestFurther(d, next) /\ next.pc = "window"
  <2>1. DestProgress(next) = <<q, b, 0>>
    BY <1>2, <1>3, <1>5
  <2>2. PICK x \in Nat, y \in Nat, z \in Nat :
            /\ DestProgress(d) = <<x, y, z>>
            /\ x < q \/ (x = q /\ y < b)
    BY <1>2, <1>3, <1>5 DEF DestFurther
  <2>3. Before(<<x, y, z>>, <<q, b, 0>>)
    BY <2>2, BeforeThree
  <2>4. QED
    BY <2>1, <2>2, <2>3
<1>6. CASE d.pc = "window" /\ next.pc = "gap" /\ next.phase = d.phase /\ next.at = d.at
  <2>1. DestProgress(d) = <<p, a, 0>> /\ DestProgress(next) = <<p, a, 1>>
    BY <1>2, <1>3, <1>6 DEF PhaseNumber
  <2>2. Before(<<p, a, 0>>, <<p, a, 1>>)
    BY BeforeThree
  <2>3. QED
    BY <2>1, <2>2
<1>7. CASE d.pc = "idle" /\ next.pc = "armed"
  <2>1. Before(<<0, 0, 0>>, <<1, 0, 0>>)
    BY BeforeThree
  <2>2. QED
    BY <1>2, <1>7, <2>1
<1>8. QED
  BY <1>4, <1>5, <1>6, <1>7

\* A probe is sent, or the run ends because PROBE_LIST has no such number.
LEMMA SendMoves ==
  ASSUME DestWireInv, NEW s \in Sockets, NEW run, DestRun(run), NEW rest, NEW results,
         SendProbe(s, run, rest, results), LateGrows(s), late'[s] = 0 => rest = <<>>,
         late'[s] = 0 => WorkingAnswered(run), DestFurther(dest[s], run)
  PROVE  DestMoves(s)
<1>1. DestRun(dest[s]) /\ IsRun(run)
  BY DEF DestWireInv, DestWire, DestRun
<1>2. CASE ~Numbered(ProbeIndex(run, results))
  <2>1. PICK d : d = [run EXCEPT !.pc = "failed"]
    OBVIOUS
  <2>2. d = [pc |-> "failed", phase |-> run.phase, at |-> run.at, working |-> run.working,
             of |-> run.of, got |-> run.got]
    BY <1>1, <2>1, RunFields
  <2>3. DestRun(d) /\ d.pc = "failed" /\ d.working = run.working /\ d.of = run.of
    BY <2>2 DEF DestRun, IsRun
  <2>4. dest' = [dest EXCEPT ![s] = d] /\ inflight' = [inflight EXCEPT ![s] = rest] /\ UNCHANGED serverVars
    BY <1>2, <2>1 DEF SendProbe
  <2>5. late'[s] = 0 => InWindow(d, rest) /\ WorkingAnswered(d)
    BY <2>3 DEF InWindow, WorkingAnswered
  <2>6. Before(DestProgress(dest[s]), DestProgress(d))
    BY <1>1, <2>3, DestAhead DEF DestFurther
  <2>7. QED
    BY <2>3, <2>4, <2>5, <2>6 DEF DestMoves
<1>3. CASE Numbered(ProbeIndex(run, results))
  <2>1. PICK d : d = [run EXCEPT !.pc = "window", !.got = {}]
    OBVIOUS
  <2>2. d = [pc |-> "window", phase |-> run.phase, at |-> run.at, working |-> run.working,
             of |-> run.of, got |-> {}]
    BY <1>1, <2>1, RunPcGot
  <2>3. /\ DestRun(d) /\ d.pc = "window" /\ d.working = run.working /\ d.of = run.of
        /\ d.phase = run.phase /\ d.at = run.at /\ d.got = {}
    BY <2>2 DEF DestRun, IsRun
  <2>4. PICK flight : flight = Sent(s, rest, Pending(Frame(run)))
    OBVIOUS
  <2>5. dest' = [dest EXCEPT ![s] = d] /\ inflight' = [inflight EXCEPT ![s] = flight] /\ UNCHANGED serverVars
    BY <1>3, <2>1, <2>4 DEF SendProbe
  <2>6. Frame(d) = Frame(run)
    BY <2>3 DEF Frame
  <2>7. late'[s] = 0 => flight = <<>> \/ flight = <<Pending(Frame(d))>>
    <3>1. \A x : Append(<<>>, x) = <<x>>
      OBVIOUS
    <3>2. QED
      BY <2>4, <2>6, <3>1 DEF Sent
  <2>8. late'[s] = 0 => InWindow(d, flight) /\ WorkingAnswered(d)
    BY <2>3, <2>7 DEF InWindow, WorkingAnswered
  <2>9. DestFurther(dest[s], d)
    BY <2>3 DEF DestFurther, PhaseNumber
  <2>10. Before(DestProgress(dest[s]), DestProgress(d))
    BY <1>1, <2>3, <2>9, DestAhead
  <2>11. QED
    BY <2>3, <2>5, <2>8, <2>10 DEF DestMoves
<1>4. QED
  BY <1>2, <1>3

\* The end of a window leaves the run where it is, and stores what answered in it.
LEMMA WorkingIs ==
  ASSUME NEW d, DestRun(d), d.pc = "window"
  PROVE  /\ DestRun(Working(d)) /\ Working(d).pc = "window"
         /\ Working(d).phase = d.phase /\ Working(d).at = d.at
         /\ d.got \subseteq {Frame(d).to} /\ WorkingAnswered(d) => WorkingAnswered(Working(d))
<1>1. PICK run : run = Working(d)
  OBVIOUS
<1>2. CASE run = d
  BY <1>1, <1>2
<1>3. CASE /\ d.phase = "read" /\ d.got # {}
           /\ run = [d EXCEPT !.working = Destinations[d.at], !.of = d.got]
  <2>1. run = [pc |-> d.pc, phase |-> d.phase, at |-> d.at, working |-> Destinations[d.at],
               of |-> d.got, got |-> d.got]
    BY <1>3, RunWorkingOf DEF DestRun
  <2>2. /\ DestRun(run) /\ run.pc = "window" /\ run.phase = d.phase /\ run.at = d.at
        /\ run.working = Destinations[d.at] /\ run.of = d.got
    BY <2>1 DEF DestRun, IsRun
  <2>3. Frame(d).to = Destinations[d.at]
    BY <1>3 DEF Frame
  <2>4. d.got \subseteq {Frame(d).to} => run.working \in run.of
    BY <1>3, <2>2, <2>3
  <2>5. QED
    BY <1>1, <2>2, <2>4 DEF WorkingAnswered
<1>4. QED
  BY <1>1, <1>2, <1>3 DEF Working

\* The window of a probe ends.
LEMMA WindowMoves ==
  ASSUME DestWireInv, NEW s \in Sockets, WindowEnds(s)
  PROVE  DestMoves(s)
<1>1. PICK old, run : old = dest[s] /\ run = Working(old)
  OBVIOUS
<1>2. PICK rest \in Outstanding(s) :
        /\ old.pc = "window" /\ MissAnswer(s, rest)
        /\ \/ /\ dest' = [dest EXCEPT ![s] = [run EXCEPT !.pc = "gap"]]
              /\ inflight' = [inflight EXCEPT ![s] = rest]
              /\ UNCHANGED serverVars
           \/ /\ run.phase = "read"
              /\ SendProbe(s, Relays(run), rest, probeResults + 1)
           \/ /\ dest' = [dest EXCEPT ![s] = [run EXCEPT !.pc = "done"]]
              /\ inflight' = [inflight EXCEPT ![s] = rest]
              /\ UNCHANGED serverVars
  BY <1>1 DEF WindowEnds
<1>3. DestRun(old) /\ (late[s] = 0 => InWindow(old, inflight[s]) /\ WorkingAnswered(old))
  BY <1>1 DEF DestWireInv, DestWire
<1>4. LateGrows(s) /\ (late'[s] = 0 => rest = <<>>)
  BY <1>2, MissGrows DEF DestWireInv
<1>5. late'[s] = 0 => late[s] = 0
  BY <1>4, BoundsAssumption DEF LateGrows, DestWireInv, ServerTypeOK
<1>6. /\ DestRun(run) /\ run.pc = "window" /\ run.phase = old.phase /\ run.at = old.at
      /\ late'[s] = 0 => WorkingAnswered(run)
  <2>1. late[s] = 0 => old.got \subseteq {Frame(old).to} /\ WorkingAnswered(old)
    BY <1>2, <1>3 DEF InWindow
  <2>2. QED
    BY <1>1, <1>2, <1>3, <1>5, <2>1, WorkingIs
<1>7. ASSUME NEW pc \in {"gap", "done"}, dest' = [dest EXCEPT ![s] = [run EXCEPT !.pc = pc]],
             inflight' = [inflight EXCEPT ![s] = rest], UNCHANGED serverVars
      PROVE  DestMoves(s)
  <2>1. PICK d : d = [run EXCEPT !.pc = pc]
    OBVIOUS
  <2>2. d = [pc |-> pc, phase |-> run.phase, at |-> run.at, working |-> run.working,
             of |-> run.of, got |-> run.got]
    BY <1>6, <2>1, RunFields DEF DestRun
  <2>3. /\ DestRun(d) /\ d.pc = pc /\ d.phase = run.phase /\ d.at = run.at
        /\ d.working = run.working /\ d.of = run.of
    BY <1>6, <2>2 DEF DestRun, IsRun
  <2>4. late'[s] = 0 => InWindow(d, rest) /\ WorkingAnswered(d)
    BY <1>4, <1>6, <2>3 DEF InWindow, WorkingAnswered
  <2>5. Before(DestProgress(old), DestProgress(d))
    BY <1>2, <1>3, <1>6, <2>3, DestAhead
  <2>6. QED
    BY <1>1, <1>4, <1>7, <2>1, <2>3, <2>4, <2>5 DEF DestMoves
<1>8. CASE run.phase = "read" /\ SendProbe(s, Relays(run), rest, probeResults + 1)
  <2>1. PICK phase \in {"test", "tripAll"} : Relays(run) = [run EXCEPT !.phase = phase, !.at = 1]
    BY DEF Relays
  <2>2. PICK next : next = Relays(run)
    OBVIOUS
  <2>3. next = [pc |-> run.pc, phase |-> phase, at |-> 1, working |-> run.working,
                of |-> run.of, got |-> run.got]
    BY <1>6, <2>1, <2>2, RunPhaseAt DEF DestRun
  <2>4. DestRun(next) /\ next.phase = phase /\ next.working = run.working /\ next.of = run.of
    BY <1>6, <2>3 DEF DestRun, IsRun
  <2>5. late'[s] = 0 => WorkingAnswered(next)
    BY <1>6, <2>4 DEF WorkingAnswered
  <2>6. DestFurther(dest[s], next)
    BY <1>1, <1>2, <1>6, <1>8, <2>4 DEF DestFurther, PhaseNumber
  <2>7. PICK results : SendProbe(s, next, rest, results)
    BY <1>8, <2>2
  <2>8. QED
    BY <1>4, <2>4, <2>5, <2>6, <2>7, SendMoves
<1>9. QED
  BY <1>2, <1>7, <1>8

\* A sleep ends.
LEMMA WakeDestMoves ==
  ASSUME DestWireInv, NEW s \in Sockets, WakeDest(s)
  PROVE  DestMoves(s)
<1>1. PICK old : old = dest[s]
  OBVIOUS
<1>2. /\ DestRun(old) /\ (late[s] = 0 => InWindow(old, inflight[s]) /\ WorkingAnswered(old))
      /\ old.pc \in {"armed", "gap"} /\ UNCHANGED late
  BY <1>1 DEF DestWireInv, DestWire, WakeDest
<1>3. LateGrows(s) /\ late'[s] = late[s]
  BY <1>2, LateSame DEF DestWireInv
<1>4. late'[s] = 0 => inflight[s] = <<>> /\ WorkingAnswered(old)
  BY <1>2, <1>3 DEF InWindow
<1>5. CASE old.pc = "armed" /\ SendProbe(s, old, inflight[s], probeResults)
  <2>1. DestFurther(dest[s], old)
    BY <1>1, <1>5 DEF DestFurther
  <2>2. QED
    BY <1>2, <1>3, <1>4, <1>5, <2>1, SendMoves
<1>6. CASE old.pc = "gap" /\ SendProbe(s, [old EXCEPT !.at = @ + 1], inflight[s], probeResults)
  <2>1. PICK n \in Nat : n = old.at + 1 /\ n > old.at
    BY <1>2 DEF DestRun
  <2>2. PICK next : next = [old EXCEPT !.at = n]
    OBVIOUS
  <2>3. next = [pc |-> old.pc, phase |-> old.phase, at |-> n, working |-> old.working,
                of |-> old.of, got |-> old.got]
    BY <1>2, <2>2, RunFields DEF DestRun
  <2>4. /\ DestRun(next) /\ next.phase = old.phase /\ next.at = n
        /\ next.working = old.working /\ next.of = old.of
    BY <1>2, <2>3 DEF DestRun, IsRun
  <2>5. late'[s] = 0 => WorkingAnswered(next)
    BY <1>4, <2>4 DEF WorkingAnswered
  <2>6. DestFurther(dest[s], next)
    BY <1>1, <1>6, <2>1, <2>4 DEF DestFurther, PhaseNumber
  <2>7. SendProbe(s, next, inflight[s], probeResults)
    BY <1>6, <2>1, <2>2
  <2>8. QED
    BY <1>3, <1>4, <2>4, <2>5, <2>6, <2>7, SendMoves
<1>7. QED
  BY <1>1, <1>5, <1>6 DEF WakeDest

\* Data arrives in a window.
LEMMA DataMoves ==
  ASSUME DestWireInv, NEW s \in Sockets, dest[s].pc = "window", inflight[s] # <<>>,
         dest' = [dest EXCEPT ![s].got = @ \cup {Head(inflight[s]).of}],
         inflight' = [inflight EXCEPT ![s] = Tail(@)],
         UNCHANGED <<serverVars, late>>
  PROVE  DestMoves(s)
<1>1. PICK old : old = dest[s]
  OBVIOUS
<1>2. DestRun(old) /\ (late[s] = 0 => InWindow(old, inflight[s]) /\ WorkingAnswered(old))
  BY <1>1 DEF DestWireInv, DestWire
<1>3. PICK got, d, flight : /\ got = old.got \cup {Head(inflight[s]).of} /\ d = [old EXCEPT !.got = got]
                            /\ flight = Tail(inflight[s])
  OBVIOUS
<1>4. dest' = [dest EXCEPT ![s] = d] /\ inflight' = [inflight EXCEPT ![s] = flight]
  BY <1>1, <1>3
<1>5. d = [pc |-> old.pc, phase |-> old.phase, at |-> old.at, working |-> old.working,
           of |-> old.of, got |-> got]
  BY <1>2, <1>3, RunFields DEF DestRun
<1>6. /\ DestRun(d) /\ d.pc = old.pc /\ d.phase = old.phase /\ d.at = old.at
      /\ d.working = old.working /\ d.of = old.of /\ d.got = got
  BY <1>2, <1>5 DEF DestRun, IsRun
<1>7. LateGrows(s) /\ late'[s] = late[s]
  BY LateSame DEF DestWireInv
<1>8. late[s] = 0 => InWindow(d, flight) /\ WorkingAnswered(d)
  <2> SUFFICES ASSUME late[s] = 0 PROVE InWindow(d, flight) /\ WorkingAnswered(d)
    OBVIOUS
  <2>1. inflight[s] = <<Pending(Frame(old))>> /\ old.got \subseteq {Frame(old).to} /\ WorkingAnswered(old)
    BY <1>1, <1>2 DEF InWindow
  <2>2. \A x : Tail(<<x>>) = <<>> /\ Head(<<x>>) = x
    OBVIOUS
  <2>3. flight = <<>> /\ Head(inflight[s]) = Pending(Frame(old))
    BY <1>3, <2>1, <2>2
  <2>4. Head(inflight[s]).of = Frame(old).to
    BY <2>3 DEF Pending
  <2>5. got \subseteq {Frame(old).to}
    BY <1>3, <2>1, <2>4
  <2>6. Frame(d) = Frame(old)
    BY <1>6 DEF Frame
  <2>7. QED
    BY <1>1, <1>6, <2>1, <2>3, <2>5, <2>6 DEF InWindow, WorkingAnswered
<1>9. d = [dest[s] EXCEPT !.got = d.got]
  BY <1>1, <1>3, <1>6
<1>10. QED
  BY <1>4, <1>6, <1>7, <1>8, <1>9 DEF DestMoves

\* A step that takes no run on.
LEMMA QuietDestStep ==
  ASSUME DestWireInv, ServerTypeOK', UNCHANGED <<dest, late>>,
         inflight' = [s \in Sockets |-> inflight'[s]],
         \A s \in Sockets : inflight'[s] = inflight[s] \/ inflight'[s] = <<>> \/ late[s] # 0
  PROVE  DestWireInv' /\ \A s \in Sockets : DestAdvances(s)
<1>1. ASSUME NEW s \in Sockets PROVE DestWire(s)'
  <2>1. PICK d, f, g : d = dest[s] /\ f = inflight[s] /\ g = inflight'[s]
    OBVIOUS
  <2>2. DestRun(d) /\ (late[s] = 0 => InWindow(d, f) /\ WorkingAnswered(d))
    BY <2>1 DEF DestWireInv, DestWire
  <2>3. late[s] = 0 => InWindow(d, g)
    BY <2>1, <2>2 DEF InWindow
  <2>4. QED
    BY <2>1, <2>2, <2>3 DEF DestWire
<1>2. QED
  BY <1>1 DEF DestWireInv, DestAdvances

\* Every step of the destination probe keeps its destination an answered one, and
\* takes no run back.
LEMMA DestSteps ==
  ASSUME DestWireInv, DestNext
  PROVE  DestWireInv' /\ \A s \in Sockets : DestAdvances(s)
<1> SUFFICES ASSUME NEW s \in Sockets,
                    \/ AcceptForDest(s) \/ RejectForDest(s) \/ CloseForDest(s) \/ FailForDest(s)
                    \/ DestHeartbeat(s) \/ DeliverToDest(s) \/ WindowEnds(s) \/ WakeDest(s)
             PROVE  DestWireInv' /\ \A r \in Sockets : DestAdvances(r)
  BY DEF DestNext
<1>1. CASE AcceptForDest(s) \/ RejectForDest(s) \/ CloseForDest(s) \/ FailForDest(s)
  <2>1. Reject(s) \/ Accept(s) \/ Close(s) \/ Fail(s)
    BY <1>1 DEF AcceptForDest, RejectForDest, CloseForDest, FailForDest
  <2>2. /\ ServerTypeOK' /\ late' = late
        /\ inflight' = inflight \/ inflight' = [inflight EXCEPT ![s] = <<>>]
    BY <2>1, ServerTyped DEF DestWireInv
  <2>3. /\ inflight' = [r \in Sockets |-> inflight'[r]]
        /\ \A r \in Sockets : inflight'[r] = inflight[r] \/ inflight'[r] = <<>>
    BY <2>2 DEF DestWireInv
  <2>4. dest' = dest
    BY <1>1 DEF AcceptForDest, RejectForDest, CloseForDest, FailForDest, destVars
  <2>5. QED
    BY <2>2, <2>3, <2>4, QuietDestStep
<1>2. CASE DestHeartbeat(s)
  <2>1. PICK old : old = dest[s] /\ old.pc = "idle"
    BY <1>2 DEF DestHeartbeat
  <2>2. DestRun(old) /\ (late[s] = 0 => InWindow(old, inflight[s]) /\ WorkingAnswered(old))
    BY <2>1 DEF DestWireInv, DestWire
  <2>3. PICK d : d = [old EXCEPT !.pc = "armed"]
    OBVIOUS
  <2>4. d = [pc |-> "armed", phase |-> old.phase, at |-> old.at, working |-> old.working,
             of |-> old.of, got |-> old.got]
    BY <2>2, <2>3, RunFields DEF DestRun
  <2>5. DestRun(d) /\ d.pc = "armed" /\ d.working = old.working /\ d.of = old.of
    BY <2>2, <2>4 DEF DestRun, IsRun
  <2>6. dest' = [dest EXCEPT ![s] = d] /\ UNCHANGED serverVars /\ UNCHANGED <<inflight, late>>
    BY <1>2, <2>1, <2>3 DEF DestHeartbeat, wireVars
  <2>7. inflight' = [inflight EXCEPT ![s] = inflight[s]]
    BY <2>6 DEF DestWireInv
  <2>8. LateGrows(s) /\ late'[s] = late[s]
    BY <2>6, LateSame DEF DestWireInv
  <2>9. late[s] = 0 => InWindow(d, inflight[s]) /\ WorkingAnswered(d)
    BY <2>1, <2>2, <2>5 DEF InWindow, WorkingAnswered
  <2>10. Before(DestProgress(dest[s]), DestProgress(d))
    BY <2>1, <2>2, <2>5, DestAhead
  <2>11. DestMoves(s)
    BY <2>5, <2>6, <2>7, <2>8, <2>9, <2>10 DEF DestMoves
  <2>12. QED
    BY <2>11, DestMoveKeeps
<1>3. CASE DeliverToDest(s)
  <2>1. CASE dest[s].pc = "window"
    <3>1. DestMoves(s)
      BY <1>3, <2>1, DataMoves DEF DeliverToDest
    <3>2. QED
      BY <3>1, DestMoveKeeps
  <2>2. CASE dest[s].pc # "window" /\ Lose(s) /\ UNCHANGED destVars
    <3>1. /\ inflight' = [inflight EXCEPT ![s] = Tail(inflight[s])] /\ inflight[s] # <<>>
          /\ UNCHANGED <<sock, activeSocket, disconnected, late, dest>>
      BY <2>2 DEF Lose, serverVars, destVars
    <3>2. late[s] # 0
      BY <2>2, <3>1 DEF DestWireInv, DestWire, InWindow
    <3>3. /\ inflight' = [r \in Sockets |-> inflight'[r]]
          /\ \A r \in Sockets : inflight'[r] = inflight[r] \/ inflight'[r] = <<>> \/ late[r] # 0
      BY <3>1, <3>2 DEF DestWireInv
    <3>4. ServerTypeOK'
      BY <3>1 DEF DestWireInv, ServerTypeOK
    <3>5. QED
      BY <3>1, <3>3, <3>4, QuietDestStep
  <2>3. QED
    BY <1>3, <2>1, <2>2 DEF DeliverToDest
<1>4. CASE WindowEnds(s)
  BY <1>4, WindowMoves, DestMoveKeeps
<1>5. CASE WakeDest(s)
  BY <1>5, WakeDestMoves, DestMoveKeeps
<1>6. QED
  BY <1>1, <1>2, <1>3, <1>4, <1>5

------------------------------------------------------------------------------
(* The tools: what they record, and their way ahead.                       *)

\* What the tool that was started keeps, and the other two leave as it was.
ToolsWireInv ==
    /\ ServerTypeOK
    /\ tool \in {"scan", "probe", "dlt645"}
    /\ IF tool = "scan" THEN ScanInv
       ELSE scan = [s \in Sockets |-> IdleRun] /\ file = NoFile
    /\ IF tool = "probe" THEN ProbeWireInv ELSE lnResults = {} /\ snResults = {}
    /\ IF tool = "dlt645" THEN DestWireInv ELSE dest = [s \in Sockets |-> IdleDest]

\* Nothing is recorded or on its way when a tool is started.
LEMMA WireInit == ToolsInit => ToolsWireInv
<1> SUFFICES ASSUME ToolsInit PROVE ToolsWireInv
  OBVIOUS
<1>1. ServerInit /\ ScanInit /\ ProbeInit /\ DestInit /\ tool \in {"scan", "probe", "dlt645"}
  BY DEF ToolsInit
<1>2. ScanInv
  BY <1>1, ScanInitInv
<1>3. ServerTypeOK
  BY <1>2 DEF ScanInv
<1>4. inflight = [s \in Sockets |-> inflight[s]] /\ \A s \in Sockets : inflight[s] = <<>>
  BY <1>1 DEF ServerInit
<1>5. ProbeWireInv
  BY <1>1, <1>3, <1>4 DEF ProbeInit, ProbeWireInv, ProbeWire, ProbeHonest
<1>6. DestWireInv
  <2>1. DestRun(IdleDest) /\ InWindow(IdleDest, <<>>) /\ WorkingAnswered(IdleDest)
    BY DEF IdleDest, DestRun, IsRun, InWindow, WorkingAnswered
  <2>2. PICK idle : idle = IdleDest
    OBVIOUS
  <2>3. dest = [s \in Sockets |-> idle]
    BY <1>1, <2>2 DEF DestInit
  <2>4. \A s \in Sockets : DestWire(s)
    BY <1>4, <2>1, <2>2, <2>3 DEF DestWire
  <2>5. QED
    BY <1>3, <1>4, <2>3, <2>4 DEF DestWireInv
<1>7. QED
  BY <1>1, <1>2, <1>3, <1>5, <1>6 DEF ToolsWireInv, ScanInit, ProbeInit, DestInit

\* What a step of the tools does to the runs and to the file.
AllAdvance == \A s \in Sockets : ScanAdvances(s) /\ ProbeAdvances(s) /\ DestAdvances(s)

\* A step of the tool that was started keeps its invariant, adds to the file, and takes no run
\* back; the other tools stay as they were.
LEMMA WireStep ==
  ASSUME ProbeInv, ToolsWireInv, [ToolsNext]_toolsVars
  PROVE  ToolsWireInv' /\ FileKept /\ AllAdvance
<1>1. file = NoFile => file.results = <<>>
  BY DEF NoFile
<1>2. UNCHANGED file /\ file = NoFile => FileKept
  <2>1. <<>> \in Seq(FileResults)
    OBVIOUS
  <2>2. QED
    BY <1>1, <2>1, SameKept
<1>3. UNCHANGED scan => \A s \in Sockets : ScanAdvances(s)
  BY DEF ScanAdvances
<1>4. UNCHANGED probe => \A s \in Sockets : ProbeAdvances(s)
  BY DEF ProbeAdvances
<1>5. UNCHANGED dest => \A s \in Sockets : DestAdvances(s)
  BY DEF DestAdvances
<1>6. CASE tool = "scan" /\ [ScanNext]_scanSystemVars /\ UNCHANGED <<probeVars, destVars, tool>>
  <2>1. ScanInv /\ lnResults = {} /\ snResults = {} /\ dest = [s \in Sockets |-> IdleDest]
    BY <1>6 DEF ToolsWireInv
  <2>2. ScanInv' /\ FileKept /\ \A s \in Sockets : ScanAdvances(s)
    BY <1>6, <2>1, ScanStep
  <2>3. ServerTypeOK'
    BY <2>2 DEF ScanInv
  <2>4. UNCHANGED <<probe, lnResults, snResults, dest, tool>>
    BY <1>6 DEF probeVars, destVars
  <2>5. QED
    BY <1>4, <1>5, <1>6, <2>1, <2>2, <2>3, <2>4 DEF ToolsWireInv, AllAdvance
<1>7. CASE tool = "probe" /\ ProbeNext /\ UNCHANGED <<scanVars, destVars, tool>>
  <2>1. /\ ProbeWireInv /\ scan = [s \in Sockets |-> IdleRun] /\ file = NoFile
        /\ dest = [s \in Sockets |-> IdleDest]
    BY <1>7 DEF ToolsWireInv
  <2>2. ProbeWireInv' /\ \A s \in Sockets : ProbeAdvances(s)
    BY <1>7, <2>1, ProbeSteps
  <2>3. ServerTypeOK'
    BY <2>2 DEF ProbeWireInv
  <2>4. UNCHANGED <<scan, file, dest, tool>>
    BY <1>7 DEF scanVars, destVars
  <2>5. QED
    BY <1>2, <1>3, <1>5, <1>7, <2>1, <2>2, <2>3, <2>4 DEF ToolsWireInv, AllAdvance
<1>8. CASE tool = "dlt645" /\ DestNext /\ UNCHANGED <<scanVars, probeVars, tool>>
  <2>1. /\ DestWireInv /\ scan = [s \in Sockets |-> IdleRun] /\ file = NoFile
        /\ lnResults = {} /\ snResults = {}
    BY <1>8 DEF ToolsWireInv
  <2>2. DestWireInv' /\ \A s \in Sockets : DestAdvances(s)
    BY <1>8, <2>1, DestSteps
  <2>3. ServerTypeOK'
    BY <2>2 DEF DestWireInv
  <2>4. UNCHANGED <<scan, file, probe, lnResults, snResults, tool>>
    BY <1>8 DEF scanVars, probeVars
  <2>5. QED
    BY <1>2, <1>3, <1>4, <1>8, <2>1, <2>2, <2>3, <2>4 DEF ToolsWireInv, AllAdvance
<1>9. CASE UNCHANGED toolsVars
  <2>1. UNCHANGED <<sock, activeSocket, disconnected, inflight, late, scan, file, probe, lnResults,
                    snResults, dest, tool>>
    BY <1>9 DEF toolsVars, serverVars, wireVars, scanVars, probeVars, destVars
  <2>2. ServerTypeOK'
    BY <2>1 DEF ToolsWireInv, ServerTypeOK
  <2>3. CASE tool = "scan"
    <3>1. UNCHANGED scanSystemVars /\ UNCHANGED <<probeVars, destVars, tool>>
      BY <1>9 DEF toolsVars, scanSystemVars
    <3>2. QED
      BY <1>6, <2>3, <3>1
  <2>4. CASE tool = "probe"
    <3>1. ProbeWireInv /\ inflight' = [s \in Sockets |-> inflight'[s]]
      BY <2>1, <2>4 DEF ToolsWireInv, ProbeWireInv
    <3>2. ProbeWireInv'
      BY <2>1, <2>2, <3>1, QuietProbeStep
    <3>3. QED
      BY <1>2, <1>3, <1>4, <1>5, <2>1, <2>2, <2>4, <3>2 DEF ToolsWireInv, AllAdvance
  <2>5. CASE tool = "dlt645"
    <3>1. DestWireInv /\ inflight' = [s \in Sockets |-> inflight'[s]]
      BY <2>1, <2>5 DEF ToolsWireInv, DestWireInv
    <3>2. DestWireInv'
      BY <2>1, <2>2, <3>1, QuietDestStep
    <3>3. QED
      BY <1>2, <1>3, <1>4, <1>5, <2>1, <2>2, <2>5, <3>2 DEF ToolsWireInv, AllAdvance
  <2>6. QED
    BY <2>3, <2>4, <2>5 DEF ToolsWireInv
<1>10. QED
  BY <1>6, <1>7, <1>8, <1>9 DEF ToolsNext

\* In every reachable state nothing but the answer that is due is on its way to a
\* run that no answer was late for, whichever tool it is of.
THEOREM WireInvariance == ToolsSpec => []ToolsWireInv
<1>1. ToolsInv /\ ToolsWireInv /\ [ToolsNext]_toolsVars => ToolsWireInv'
  BY WireStep DEF ToolsInv
<1>2. QED
  BY <1>1, WireInit, Invariance, PTL DEF ToolsSpec

\* The runs of the tools that were not started have recorded nothing.
LEMMA IdleScanHonest ==
  ASSUME scan = [s \in Sockets |-> IdleRun]
  PROVE  /\ \A s \in Sockets : ScanHonest(s)
         /\ SkipsJustified
         /\ CompleteUnlessRefused
<1>1. PICK idle : idle = IdleRun
  OBVIOUS
<1>2. idle.results = <<>> /\ idle.loaded = 0 /\ idle.pc = "idle"
  BY <1>1 DEF IdleRun
<1>3. \A s \in Sockets : scan[s] = idle
  BY <1>1
<1>4. \A i \in (0 + 1)..Len(<<>>) : FALSE
  OBVIOUS
<1>5. \A s \in Sockets : ScanHonest(s)
  BY <1>2, <1>3, <1>4 DEF ScanHonest
<1>6. SkipsJustified
  BY <1>2, <1>3, <1>4 DEF SkipsJustified
<1>7. CompleteUnlessRefused
  BY <1>2, <1>3 DEF CompleteUnlessRefused
<1>8. QED
  BY <1>5, <1>6, <1>7

\* What the invariant says of each tool makes its results honest.
LEMMA WireHonest == ToolsWireInv => HonestUnlessLate
<1> SUFFICES ASSUME ToolsWireInv PROVE HonestUnlessLate
  OBVIOUS
<1>1. \A s \in Sockets : ScanHonest(s)
  BY IdleScanHonest DEF ToolsWireInv, ScanInv, RunInv
<1>2. \A s \in Sockets : ProbeHonest(s)
  BY DEF ToolsWireInv, ProbeWireInv, ProbeWire, ProbeHonest
<1>3. ASSUME NEW s \in Sockets PROVE DestHonest(s)
  <2>1. CASE tool = "dlt645"
    <3>1. late[s] \in Nat /\ DestWire(s)
      BY <2>1 DEF ToolsWireInv, ServerTypeOK, DestWireInv
    <3>2. QED
      BY <3>1 DEF DestWire, WorkingAnswered, DestHonest
  <2>2. CASE tool # "dlt645"
    BY <2>2 DEF ToolsWireInv, IdleDest, DestHonest
  <2>3. QED
    BY <2>1, <2>2
<1>4. QED
  BY <1>1, <1>2, <1>3 DEF ToolsWireInv, HonestUnlessLate

\* Whichever tool runs, what it records for a request is the meter's answer to that
\* request, as long as no answer misses its timer.
THEOREM AlwaysHonestUnlessLate == ToolsSpec => []HonestUnlessLate
BY WireInvariance, WireHonest, PTL

\* Every step of a run of any tool brings it nearer to its end.
THEOREM RunsAlwaysAdvance == ToolsSpec => RunsAdvance
<1>1. ToolsInv /\ ToolsWireInv /\ [ToolsNext]_toolsVars =>
        [\A s \in Sockets : ScanAdvances(s) /\ ProbeAdvances(s) /\ DestAdvances(s)]_toolsVars
  BY WireStep DEF ToolsInv, AllAdvance
<1>2. QED
  BY <1>1, WireInvariance, Invariance, PTL DEF ToolsSpec, RunsAdvance

\* The same as SkipsAlwaysJustified, whichever tool the operator starts.
THEOREM SkipsJustifiedInTools == ToolsSpec => []SkipsJustified
<1>1. ToolsWireInv => SkipsJustified
  BY IdleScanHonest, InvJustifies DEF ToolsWireInv
<1>2. QED
  BY <1>1, WireInvariance, PTL

\* The same as CompleteAlways, whichever tool the operator starts.
THEOREM CompleteInTools == ToolsSpec => []CompleteUnlessRefused
<1>1. ToolsWireInv => CompleteUnlessRefused
  BY IdleScanHonest, InvCompletes DEF ToolsWireInv
<1>2. QED
  BY <1>1, WireInvariance, PTL

\* The same as SavedResultsAlwaysKept, whichever tool the operator starts.
THEOREM SavedResultsKeptInTools == ToolsSpec => SavedResultsKept
<1>1. ToolsInv /\ ToolsWireInv /\ [ToolsNext]_toolsVars =>
        [ \/ /\ Lists(file.results, file'.results)
             /\ \A i \in DOMAIN file.results :
                    file.results[i].value => file'.results[i].value \/ Resumed(i)'
          \/ \E r, q \in Runs : r # q ]_<<serverVars, wireVars, scanVars>>
  <2> SUFFICES ASSUME ToolsInv, ToolsWireInv, [ToolsNext]_toolsVars
               PROVE  Keeping \/ \E r, q \in Runs : r # q
    BY DEF Keeping
  <2>1. FileKept
    BY WireStep DEF ToolsInv
  <2>2. QED
    BY <2>1 DEF FileKept, OneRun
<1>2. QED
  BY <1>1, WireInvariance, Invariance, PTL DEF ToolsSpec, SavedResultsKept
=============================================================================
