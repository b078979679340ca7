------------------------ MODULE ProtocolRouter_proofs ------------------------
(***************************************************************************)
(* What the stream parsers may never do, proved for traffic of any length,  *)
(* any bytes and any chunks: let the cuts change what a DLT645 meter said,  *)
(* buffer more than the largest IVY packet, or lose, alter, reorder or      *)
(* invent a packet when no chunk ended at a bad place.                      *)
(*                                                                         *)
(* The parsers' loops are recursive functions on buffers.  That such a      *)
(* function exists, and so obeys its definition, follows from each turn     *)
(* leaving less than it found (RecursionByRank); what it returns, from      *)
(* induction over the length of the buffer.  The last theorems count the    *)
(* items that arrived whole and say what the parser keeps of the next one.  *)
(***************************************************************************)
EXTENDS ProtocolRouter, TLAPS, WellFoundedInduction, NaturalsInduction, SequenceTheorems,
        FiniteSetTheorems

------------------------------------------------------------------------------
(* Induction and recursion along a rank, in a form the provers can use.    *)

\* A set of natural numbers that is not empty has a least member.
LEMMA LeastNatural ==
  ASSUME NEW T, T \subseteq Nat, T # {}
  PROVE  \E x \in T : \A y \in T : x <= y
<1> DEFINE R == {p \in Nat \X Nat : p[1] < p[2]}
<1>1. IsWellFoundedOn(R, Nat)
  BY NatLessThanWellFounded DEF OpToRel
<1>2. \A x, y \in Nat : <<y, x>> \in R <=> y < x
  OBVIOUS
<1> HIDE DEF R
<1>3. \E x \in T : \A y \in T : ~ (<<y, x>> \in R)
  BY <1>1, WFMin
<1>4. \A x, y \in T : ~ (y < x) => x <= y
  OBVIOUS
<1>5. QED
  BY <1>2, <1>3, <1>4

\* Induction along a rank, for a property given as a set.
LEMMA RankInduction ==
  ASSUME NEW D, NEW rank \in [D -> Nat], NEW P,
         \A x \in D : (\A y \in D : rank[y] < rank[x] => y \in P) => x \in P
  PROVE  \A x \in D : x \in P
<1> SUFFICES ASSUME NEW z \in D, z \notin P PROVE FALSE
  OBVIOUS
<1> DEFINE T == {rank[x] : x \in {y \in D : y \notin P}}
<1>1. T \subseteq Nat /\ T # {}
  OBVIOUS
<1>2. PICK n \in T : \A k \in T : n <= k
  <2> HIDE DEF T
  <2>1. QED
    BY <1>1, LeastNatural
<1>3. PICK x \in D : x \notin P /\ rank[x] = n
  BY <1>2
<1>4. \A y \in D : rank[y] < rank[x] => y \in P
  <2>1. \A y \in D : y \notin P => rank[x] <= rank[y]
    BY <1>2, <1>3
  <2>2. \A y \in D : rank[y] \in Nat /\ rank[x] \in Nat
    OBVIOUS
  <2>3. QED
    BY <2>1, <2>2
<1>5. QED
  BY <1>3, <1>4

\* step defines the values of a function on D in terms of its values at a lower
\* rank; T tells the values possible at each argument, and G are the functions
\* that have such values.
WellFounded(D, R, T, G, rank, step) ==
  /\ T \in [D -> SUBSET R] /\ \A x \in D : T[x] # {}
  /\ rank \in [D -> Nat]
  /\ G = {g \in [D -> R] : \A x \in D : g[x] \in T[x]}
  /\ step \in [D -> [G -> R]] /\ \A x \in D : \A g \in G : step[x][g] \in T[x]
  /\ \A x \in D : \A g, h \in G :
        (\A y \in D : rank[y] < rank[x] => g[y] = h[y]) => step[x][g] = step[x][h]

\* Such a function exists.
LEMMA RecursionByRank ==
  ASSUME NEW D, NEW R, NEW T, NEW G, NEW rank, NEW step, WellFounded(D, R, T, G, rank, step)
  PROVE  \E g \in G : \A x \in D : g[x] = step[x][g]
<1>a. /\ T \in [D -> SUBSET R] /\ \A x \in D : T[x] # {}
      /\ rank \in [D -> Nat]
      /\ G = {g \in [D -> R] : \A x \in D : g[x] \in T[x]}
      /\ step \in [D -> [G -> R]] /\ \A x \in D : \A g \in G : step[x][g] \in T[x]
  BY DEF WellFounded
<1>b. \A x \in D : \A g, h \in G :
        (\A y \in D : rank[y] < rank[x] => g[y] = h[y]) => step[x][g] = step[x][h]
  BY DEF WellFounded
<1> USE <1>a
<1> DEFINE Fits == [n \in Nat |-> {g \in G : \A x \in D : rank[x] < n => g[x] = step[x][g]}]
           P == {n \in Nat : Fits[n] # {}}
<1>0. \A n \in Nat : \A g \in G : g \in Fits[n] <=> \A x \in D : rank[x] < n => g[x] = step[x][g]
  OBVIOUS
<1>1. \A n \in Nat : n \in P
  <2> DEFINE id == [n \in Nat |-> n]
  <2>1. ASSUME NEW n \in Nat, \A k \in Nat : k < n => k \in P PROVE n \in P
    <3>1. CASE n = 0
      <4> DEFINE g == [x \in D |-> CHOOSE t \in T[x] : TRUE]
      <4>1. \A x \in D : g[x] \in T[x] /\ g[x] \in R
        OBVIOUS
      <4>2. g \in G
        BY <4>1
      <4>3. \A x \in D : ~ (rank[x] < n)
        <5>1. \A x \in D : rank[x] \in Nat
          OBVIOUS
        <5>2. QED
          BY <3>1, <5>1
      <4> HIDE DEF g
      <4>4. g \in Fits[n]
        BY <4>2, <4>3
      <4>5. QED
        BY <4>4
    <3>2. CASE n # 0
      <4>1. n - 1 \in Nat /\ n - 1 < n
        BY <3>2
      <4>0. n - 1 \in P
        BY <2>1, <4>1
      <4>2. PICK g \in G : g \in Fits[n - 1]
        <5> HIDE DEF Fits
        <5>1. Fits[n - 1] # {}
          BY <4>0
        <5>2. Fits[n - 1] \subseteq G
          BY <4>1 DEF Fits
        <5>3. QED
          BY <5>1, <5>2
      <4> DEFINE h == [x \in D |-> step[x][g]]
      <4>3. \A x \in D : h[x] = step[x][g] /\ h[x] \in T[x] /\ h[x] \in R
        OBVIOUS
      <4>4. h \in G
        BY <4>3
      <4> HIDE DEF h
      <4>5. ASSUME NEW x \in D, rank[x] < n PROVE h[x] = step[x][h]
        <5>1. \A y \in D : rank[y] < rank[x] => g[y] = h[y]
          <6>1. ASSUME NEW y \in D, rank[y] < rank[x] PROVE rank[y] < n - 1
            <7>1. rank[y] \in Nat /\ rank[x] \in Nat
              OBVIOUS
            <7>2. QED
              BY <4>5, <6>1, <7>1
          <6> HIDE DEF Fits
          <6>2. QED
            BY <1>0, <4>1, <4>2, <4>3, <6>1
        <5>2. QED
          BY <1>b, <4>3, <4>4, <5>1
      <4> HIDE DEF Fits
      <4>6. h \in Fits[n]
        BY <1>0, <4>4, <4>5
      <4>7. QED
        BY <4>6 DEF P
    <3>3. QED
      BY <3>1, <3>2
  <2> HIDE DEF P
  <2>2. id \in [Nat -> Nat] /\ \A n \in Nat : id[n] = n
    OBVIOUS
  <2> HIDE DEF id
  <2>3. \A x \in Nat : (\A y \in Nat : id[y] < id[x] => y \in P) => x \in P
    BY <2>1, <2>2
  <2>4. QED
    BY <2>2, <2>3, RankInduction
<1> HIDE DEF Fits
<1>2. ASSUME NEW n \in Nat, NEW g \in G, NEW m \in Nat, NEW h \in G, g \in Fits[n], h \in Fits[m]
      PROVE  \A x \in D : rank[x] < n /\ rank[x] < m => g[x] = h[x]
  <2> DEFINE Q == {x \in D : rank[x] < n /\ rank[x] < m => g[x] = h[x]}
  <2>1. ASSUME NEW x \in D, \A y \in D : rank[y] < rank[x] => y \in Q PROVE x \in Q
    <3> SUFFICES ASSUME rank[x] < n, rank[x] < m PROVE g[x] = h[x]
      OBVIOUS
    <3>1. \A y \in D : rank[y] < rank[x] => g[y] = h[y]
      <4>1. ASSUME NEW y \in D, rank[y] < rank[x] PROVE rank[y] < n /\ rank[y] < m
        <5>1. rank[y] \in Nat /\ rank[x] \in Nat
          OBVIOUS
        <5>2. QED
          BY <4>1, <5>1
      <4>2. QED
        BY <2>1, <4>1
    <3>2. g[x] = step[x][g] /\ h[x] = step[x][h]
      BY <1>0, <1>2
    <3>3. QED
      BY <1>b, <3>1, <3>2
  <2> HIDE DEF Q
  <2>2. \A x \in D : x \in Q
    BY <2>1, RankInduction
  <2>3. QED
    BY <2>2 DEF Q
<1> DEFINE c == [x \in D |-> CHOOSE g \in G : g \in Fits[rank[x] + 1]]
<1>3. ASSUME NEW x \in D
      PROVE  /\ c[x] \in G /\ c[x] \in Fits[rank[x] + 1]
             /\ rank[x] + 1 \in Nat /\ rank[x] < rank[x] + 1
  <2>1. rank[x] + 1 \in Nat /\ rank[x] < rank[x] + 1
    OBVIOUS
  <2>2. \E g \in G : g \in Fits[rank[x] + 1]
    <3>1. Fits[rank[x] + 1] # {}
      BY <1>1, <2>1
    <3>2. Fits[rank[x] + 1] \subseteq G
      BY <2>1 DEF Fits
    <3>3. QED
      BY <3>1, <3>2
  <2>3. QED
    BY <2>1, <2>2
<1> HIDE DEF c, P
<1> DEFINE f == [x \in D |-> c[x][x]]
<1>4. f \in G
  <2>1. \A x \in D : c[x][x] \in T[x] /\ c[x][x] \in R
    BY <1>3
  <2>2. QED
    BY <2>1
<1>5. ASSUME NEW x \in D PROVE f[x] = step[x][f]
  <2>1. ASSUME NEW y \in D, rank[y] < rank[x] PROVE c[x][y] = f[y]
    <3>1. rank[y] < rank[x] + 1 /\ rank[y] < rank[y] + 1
      <4>1. rank[y] \in Nat /\ rank[x] \in Nat
        OBVIOUS
      <4>2. QED
        BY <2>1, <4>1
    <3>2. c[x][y] = c[y][y]
      <4>1. PICK n \in Nat, m \in Nat : n = rank[x] + 1 /\ m = rank[y] + 1
        BY <1>3
      <4>2. PICK g \in G, h \in G : g = c[x] /\ h = c[y]
        BY <1>3
      <4>3. g \in Fits[n] /\ h \in Fits[m] /\ rank[y] < n /\ rank[y] < m
        BY <1>3, <3>1, <4>1, <4>2
      <4>6. \A z \in D : rank[z] < n /\ rank[z] < m => g[z] = h[z]
        BY ONLY <1>2, <4>3, n \in Nat, m \in Nat, g \in G, h \in G
      <4>4. g[y] = h[y]
        BY <4>6, <4>3
      <4>5. QED
        BY <4>2, <4>4
    <3>3. QED
      BY <3>2
  <2>2. c[x][x] = step[x][c[x]]
    <3>1. PICK n \in Nat, g \in G : n = rank[x] + 1 /\ g = c[x]
      BY <1>3
    <3>2. g \in Fits[n] /\ rank[x] < n
      BY <1>3, <3>1
    <3>3. g[x] = step[x][g]
      BY <1>0, <3>2
    <3>4. QED
      BY <3>1, <3>3
  <2>3. step[x][c[x]] = step[x][f]
    <3> HIDE DEF f
    <3>1. QED
      BY <1>b, <1>3, <1>4, <2>1
  <2>4. QED
    BY <2>2, <2>3
<1>6. QED
  BY <1>4, <1>5

------------------------------------------------------------------------------
(* DLT645: the beginning of a frame.                                       *)

Bytes == Seq(0 .. 255)

\* A part of a buffer.
LEMMA PartOfBuffer ==
  ASSUME NEW s \in Bytes, NEW m \in Nat \ {0}, NEW n \in 0 .. Len(s)
  PROVE  /\ SubSeq(s, m, n) \in Bytes
         /\ Len(SubSeq(s, m, n)) = IF m <= n THEN n - m + 1 ELSE 0
         /\ \A i \in 1 .. n - m + 1 : SubSeq(s, m, n)[i] = s[m + i - 1]
<1>1. m \in Int /\ n \in Int /\ Len(s) \in Nat
  BY DEF Bytes
<1>2. \A i \in m .. n : i \in 1 .. Len(s)
  BY <1>1
<1>5. \A i \in 1 .. Len(s) : s[i] \in 0 .. 255
  BY ElementOfSeq DEF Bytes
<1>3. \A i \in m .. n : s[i] \in 0 .. 255
  BY <1>2, <1>5
<1>4. QED
  BY <1>1, <1>3, SubSeqProperties DEF Bytes

\* Buffers joined, and what is cut off them again.
LEMMA JoinedBuffers ==
  ASSUME NEW s \in Bytes, NEW d \in Bytes
  PROVE  /\ s \o d \in Bytes /\ Len(s \o d) = Len(s) + Len(d)
         /\ \A i \in 1 .. Len(s) : (s \o d)[i] = s[i]
         /\ \A i \in 1 .. Len(d) : (s \o d)[Len(s) + i] = d[i]
         /\ Len(s) \in Nat /\ Len(d) \in Nat
  BY DEF Bytes

\* A buffer without its first m bytes.
LEMMA RestOfBuffer ==
  ASSUME NEW s \in Bytes, NEW m \in Nat, m <= Len(s)
  PROVE  /\ SubSeq(s, m + 1, Len(s)) \in Bytes
         /\ Len(SubSeq(s, m + 1, Len(s))) = Len(s) - m
         /\ \A i \in 1 .. Len(s) - m : SubSeq(s, m + 1, Len(s))[i] = s[m + i]
<1>1. PICK n \in Nat : n = Len(s)
  BY DEF Bytes
<1>2. PICK k \in Nat \ {0} : k = m + 1
  OBVIOUS
<1>3. n \in 0 .. Len(s) /\ n - k + 1 = n - m /\ (~ (k <= n) => n - m = 0)
  BY <1>1, <1>2
<1>4. PICK r : r = SubSeq(s, k, n)
  OBVIOUS
<1>5. /\ r \in Bytes /\ Len(r) = IF k <= n THEN n - k + 1 ELSE 0
      /\ \A i \in 1 .. n - k + 1 : r[i] = s[k + i - 1]
  BY <1>3, <1>4, PartOfBuffer
<1>6. \A i \in 1 .. n - m : k + i - 1 = m + i
  BY <1>2
<1>7. r \in Bytes /\ Len(r) = n - m /\ \A i \in 1 .. n - m : r[i] = s[m + i]
  BY <1>3, <1>5, <1>6
<1>8. QED
  BY <1>1, <1>2, <1>4, <1>7

\* Cutting inside the first of two joined buffers.
LEMMA JoinedParts ==
  ASSUME NEW s \in Bytes, NEW d \in Bytes, NEW m \in Nat, m <= Len(s)
  PROVE  /\ SubSeq(s \o d, m + 1, Len(s \o d)) = SubSeq(s, m + 1, Len(s)) \o d
         /\ SubSeq(s \o d, 1, m) = SubSeq(s, 1, m)
<1>1. PICK t \in Bytes : t = s \o d
  BY JoinedBuffers
<1>2. /\ Len(t) = Len(s) + Len(d) /\ Len(s) \in Nat /\ Len(d) \in Nat
      /\ \A i \in 1 .. Len(s) : t[i] = s[i]
      /\ \A i \in 1 .. Len(d) : t[Len(s) + i] = d[i]
  BY <1>1, JoinedBuffers
<1>3. SubSeq(t, 1, m) = SubSeq(s, 1, m)
  BY <1>2 DEF Bytes
<1>4. SubSeq(t, m + 1, Len(t)) = SubSeq(s, m + 1, Len(s)) \o d
  <2>0. m <= Len(t)
    BY <1>2
  <2>1. PICK a \in Bytes : /\ a = SubSeq(t, m + 1, Len(t)) /\ Len(a) = Len(t) - m
                           /\ \A i \in 1 .. Len(t) - m : a[i] = t[m + i]
    BY <2>0, RestOfBuffer
  <2>2. PICK r \in Bytes : /\ r = SubSeq(s, m + 1, Len(s)) /\ Len(r) = Len(s) - m
                           /\ \A i \in 1 .. Len(s) - m : r[i] = s[m + i]
    BY RestOfBuffer
  <2>3. PICK c \in Bytes : /\ c = r \o d /\ Len(c) = Len(r) + Len(d)
                           /\ \A i \in 1 .. Len(r) : c[i] = r[i]
                           /\ \A i \in 1 .. Len(d) : c[Len(r) + i] = d[i]
    BY JoinedBuffers
  <2>4. ASSUME NEW i \in 1 .. Len(a) PROVE a[i] = c[i]
    <3>0. i \in Nat /\ a[i] = t[m + i] /\ m + i \in 1 .. Len(t)
      BY <1>2, <2>1
    <3>1. CASE i <= Len(s) - m
      <4>1. i \in 1 .. Len(r) /\ m + i \in 1 .. Len(s)
        BY <1>2, <2>2, <3>0, <3>1
      <4>2. c[i] = s[m + i]
        BY <2>2, <2>3, <4>1
      <4>3. QED
        BY <1>2, <3>0, <4>1, <4>2
    <3>2. CASE ~ (i <= Len(s) - m)
      <4>0. PICK n \in Nat, o \in Nat : n = Len(s) /\ o = Len(d)
        BY <1>2
      <4>5. i \in 1 .. (n + o) - m
        BY <1>2, <2>1, <4>0
      <4>6. i - (n - m) \in 1 .. o /\ i = (n - m) + (i - (n - m)) /\ m + i = n + (i - (n - m))
        BY <3>0, <3>2, <4>0, <4>5
      <4>1. PICK j \in 1 .. Len(d) : j = i - (n - m)
        BY <4>0, <4>6
      <4>2. i = Len(r) + j /\ m + i = Len(s) + j
        BY <2>2, <4>0, <4>1, <4>6
      <4>3. c[i] = d[j] /\ t[m + i] = d[j]
        BY <1>2, <2>3, <4>2
      <4>4. QED
        BY <3>0, <4>3
    <3>3. QED
      BY <3>1, <3>2
  <2>5. Len(a) = Len(c)
    BY <1>2, <2>1, <2>2, <2>3
  <2>6. a = c
    BY <2>4, <2>5, SeqEqual DEF Bytes
  <2>7. QED
    BY <2>1, <2>2, <2>3, <2>6
<1>5. QED
  BY <1>1, <1>3, <1>4

\* s begins a frame at its k-th byte, and not before.
LEMMA FrameStartIs ==
  ASSUME NEW s \in Bytes, NEW k \in 1 .. Len(s), s[k] = START_DELIMITER,
         \A i \in 1 .. k - 1 : s[i] # START_DELIMITER
  PROVE  FromFrameStart(s) = SubSeq(s, k, Len(s))
<1> DEFINE starts == {i \in 1 .. Len(s) : s[i] = START_DELIMITER}
<1>0. k \in Nat /\ Len(s) \in Nat
  BY DEF Bytes
<1>1. k \in starts /\ \A i \in starts : k <= i
  <2>1. \A i \in starts : ~ (i \in 1 .. k - 1)
    OBVIOUS
  <2>2. QED
    BY <1>0, <2>1
<1>2. \A j \in starts : (\A i \in starts : j <= i) => j = k
  BY <1>0, <1>1
<1> HIDE DEF starts
<1>3. Min(starts) = k
  BY <1>1, <1>2 DEF Min
<1>4. QED
  BY <1>1, <1>3 DEF FromFrameStart, starts

\* A buffer without a start delimiter is dropped whole.
LEMMA NoFrameStart ==
  ASSUME NEW s \in Bytes, \A i \in 1 .. Len(s) : s[i] # START_DELIMITER
  PROVE  FromFrameStart(s) = <<>>
BY DEF FromFrameStart

\* Where it begins one, if it does.
LEMMA FirstStart ==
  ASSUME NEW s \in Bytes
  PROVE  \/ \A i \in 1 .. Len(s) : s[i] # START_DELIMITER
         \/ \E k \in 1 .. Len(s) : /\ s[k] = START_DELIMITER
                                   /\ \A i \in 1 .. k - 1 : s[i] # START_DELIMITER
<1> SUFFICES ASSUME \E i \in 1 .. Len(s) : s[i] = START_DELIMITER
             PROVE  \E k \in 1 .. Len(s) : /\ s[k] = START_DELIMITER
                                   /\ \A i \in 1 .. k - 1 : s[i] # START_DELIMITER
  OBVIOUS
<1> DEFINE T == {i \in 1 .. Len(s) : s[i] = START_DELIMITER}
<1>0. Len(s) \in Nat
  BY DEF Bytes
<1>1. T \subseteq Nat /\ T # {}
  BY <1>0
<1>2. PICK k \in T : \A i \in T : k <= i
  <2> HIDE DEF T
  <2>1. QED
    BY <1>1, LeastNatural
<1>3. k \in 1 .. Len(s) /\ s[k] = START_DELIMITER
  OBVIOUS
<1>4. ASSUME NEW i \in 1 .. k - 1 PROVE s[i] # START_DELIMITER
  <2>1. i \in 1 .. Len(s) /\ ~ (k <= i)
    BY <1>0, <1>3
  <2>2. QED
    BY <1>2, <2>1
<1>5. QED
  BY <1>3, <1>4

\* What is found is what was buffered, without noise before the frame.
LEMMA FrameStartFound ==
  ASSUME NEW s \in Bytes
  PROVE  /\ FromFrameStart(s) \in Bytes
         /\ Len(FromFrameStart(s)) <= Len(s)
         /\ FromFrameStart(s) # <<>> => FromFrameStart(s)[1] = START_DELIMITER
         /\ FromFrameStart(FromFrameStart(s)) = FromFrameStart(s)
<1>0. Len(s) \in Nat
  BY DEF Bytes
<1>1. CASE \A i \in 1 .. Len(s) : s[i] # START_DELIMITER
  <2>1. FromFrameStart(s) = <<>> /\ <<>> \in Bytes /\ Len(<<>>) = 0
    BY <1>1, NoFrameStart DEF Bytes
  <2>2. FromFrameStart(<<>>) = <<>>
    BY <2>1, NoFrameStart
  <2>3. QED
    BY <1>0, <2>1, <2>2
<1>2. CASE \E k \in 1 .. Len(s) : /\ s[k] = START_DELIMITER
                                   /\ \A i \in 1 .. k - 1 : s[i] # START_DELIMITER
  <2>1. PICK k \in 1 .. Len(s) : /\ s[k] = START_DELIMITER
                                   /\ \A i \in 1 .. k - 1 : s[i] # START_DELIMITER
    BY <1>2
  <2>2. PICK f : f = SubSeq(s, k, Len(s))
    OBVIOUS
  <2>3. FromFrameStart(s) = f
    BY <2>1, <2>2, FrameStartIs
  <2>4. f \in Bytes /\ Len(f) = Len(s) - k + 1 /\ f[1] = s[k]
    <3>1. k \in Nat \ {0} /\ Len(s) \in 0 .. Len(s)
      BY <1>0
    <3>2. f \in Bytes
      BY <2>2, <3>1, PartOfBuffer
    <3>3. Len(f) = Len(s) - k + 1
      BY <1>0, <2>2 DEF Bytes
    <3>4. f[1] = s[k]
      BY <1>0, <2>2 DEF Bytes
    <3>5. QED
      BY <3>2, <3>3, <3>4
  <2>5. PICK one \in 1 .. Len(f) : one = 1 /\ Len(f) <= Len(s)
    BY <1>0, <2>4
  <2>9. f[one] = START_DELIMITER /\ \A i \in 1 .. one - 1 : f[i] # START_DELIMITER
    BY <2>1, <2>4, <2>5
  <2>6. FromFrameStart(f) = SubSeq(f, 1, Len(f))
    BY <2>4, <2>5, <2>9, FrameStartIs
  <2>7. SubSeq(f, 1, Len(f)) = f
    BY <2>4 DEF Bytes
  <2>8. QED
    BY <2>1, <2>3, <2>4, <2>5, <2>6, <2>7
<1>3. QED
  BY <1>1, <1>2, FirstStart

\* More bytes change nothing about a frame that has begun.
LEMMA FrameStartExtended ==
  ASSUME NEW s \in Bytes, NEW d \in Bytes
  PROVE  FromFrameStart(s \o d) = IF FromFrameStart(s) = <<>> THEN FromFrameStart(d)
                                  ELSE FromFrameStart(s) \o d
<1>0. Len(s) \in Nat /\ Len(d) \in Nat
  BY DEF Bytes
<1>a. PICK t : t = s \o d
  OBVIOUS
<1>b. /\ t \in Bytes /\ Len(t) = Len(s) + Len(d)
      /\ \A i \in 1 .. Len(s) : t[i] = s[i]
      /\ \A i \in 1 .. Len(d) : t[Len(s) + i] = d[i]
  BY <1>a DEF Bytes
<1>1. CASE \A i \in 1 .. Len(s) : s[i] # START_DELIMITER
  <2>1. FromFrameStart(s) = <<>>
    BY <1>1, NoFrameStart
  <2>2. CASE \A i \in 1 .. Len(d) : d[i] # START_DELIMITER
    <3>1. FromFrameStart(d) = <<>>
      BY <2>2, NoFrameStart
    <3>2. ASSUME NEW i \in 1 .. Len(t) PROVE t[i] # START_DELIMITER
      <4>1. CASE i \in 1 .. Len(s)
        BY <1>1, <1>b, <4>1
      <4>2. CASE i - Len(s) \in 1 .. Len(d)
        <5>1. i = Len(s) + (i - Len(s))
          BY <1>0
        <5>2. t[i] = d[i - Len(s)]
          BY <1>b, <4>2, <5>1
        <5>3. QED
          BY <2>2, <4>2, <5>2
      <4>3. QED
        BY <1>0, <1>b, <4>1, <4>2
    <3>3. FromFrameStart(t) = <<>>
      BY <1>b, <3>2, NoFrameStart
    <3>4. QED
      BY <1>a, <2>1, <3>1, <3>3
  <2>3. CASE \E k \in 1 .. Len(d) : /\ d[k] = START_DELIMITER
                                   /\ \A i \in 1 .. k - 1 : d[i] # START_DELIMITER
    <3>1. PICK k \in 1 .. Len(d) : /\ d[k] = START_DELIMITER
                                   /\ \A i \in 1 .. k - 1 : d[i] # START_DELIMITER
      BY <2>3
    <3>2. FromFrameStart(d) = SubSeq(d, k, Len(d))
      BY <3>1, FrameStartIs
    <3>3. PICK n : n = Len(s) + k
      OBVIOUS
    <3>4. n \in 1 .. Len(t) /\ t[n] = START_DELIMITER
      BY <1>0, <1>b, <3>1, <3>3
    <3>5. ASSUME NEW i \in 1 .. n - 1 PROVE t[i] # START_DELIMITER
      <4>1. CASE i \in 1 .. Len(s)
        BY <1>1, <1>b, <4>1
      <4>2. CASE i - Len(s) \in 1 .. k - 1
        <5>1. i = Len(s) + (i - Len(s)) /\ i - Len(s) \in 1 .. Len(d)
          BY <1>0, <4>2
        <5>2. t[i] = d[i - Len(s)]
          BY <1>b, <5>1
        <5>3. QED
          BY <3>1, <4>2, <5>2
      <4>3. QED
        BY <1>0, <3>3, <4>1, <4>2
    <3>6. FromFrameStart(t) = SubSeq(t, n, Len(t))
      BY <1>b, <3>4, <3>5, FrameStartIs
    <3>7. SubSeq(t, n, Len(t)) = SubSeq(d, k, Len(d))
      <4>1. PICK m \in Nat, j \in Nat : m = n - 1 /\ j = k - 1 /\ m = Len(s) + j
                                       /\ m <= Len(t) /\ j <= Len(d) /\ m + 1 = n /\ j + 1 = k
        BY <1>0, <1>b, <3>3
      <4>2. PICK x \in Bytes : /\ x = SubSeq(t, m + 1, Len(t)) /\ Len(x) = Len(t) - m
                               /\ \A i \in 1 .. Len(t) - m : x[i] = t[m + i]
        BY <1>b, <4>1, RestOfBuffer
      <4>3. PICK y \in Bytes : /\ y = SubSeq(d, j + 1, Len(d)) /\ Len(y) = Len(d) - j
                               /\ \A i \in 1 .. Len(d) - j : y[i] = d[j + i]
        BY <4>1, RestOfBuffer
      <4>4. Len(x) = Len(y)
        BY <1>0, <1>b, <4>1, <4>2, <4>3
      <4>5. ASSUME NEW i \in 1 .. Len(x) PROVE x[i] = y[i]
        <5>0. PICK ls \in Nat, ld \in Nat : ls = Len(s) /\ ld = Len(d) /\ Len(t) = ls + ld
                                           /\ m = ls + j /\ Len(x) = ld - j
          BY <1>0, <1>b, <4>1, <4>3, <4>4
        <5>4. i \in 1 .. ld - j
          BY <5>0
        <5>5. i \in 1 .. (ls + ld) - m /\ j + i \in 1 .. ld /\ m + i = ls + (j + i)
          BY <5>0, <5>4
        <5>1. i \in 1 .. Len(d) - j /\ i \in 1 .. Len(t) - m /\ j + i \in 1 .. Len(d)
              /\ m + i = Len(s) + (j + i)
          BY <5>0, <5>4, <5>5
        <5>2. t[m + i] = d[j + i]
          BY <1>b, <5>1
        <5>3. QED
          BY <4>2, <4>3, <5>1, <5>2
      <4>6. x = y
        BY <4>4, <4>5, SeqEqual DEF Bytes
      <4>7. QED
        BY <4>1, <4>2, <4>3, <4>6
    <3>8. QED
      BY <1>a, <2>1, <3>2, <3>6, <3>7
  <2>4. QED
    BY <2>2, <2>3, FirstStart
<1>2. CASE \E k \in 1 .. Len(s) : /\ s[k] = START_DELIMITER
                                   /\ \A i \in 1 .. k - 1 : s[i] # START_DELIMITER
  <2>1. PICK k \in 1 .. Len(s) : /\ s[k] = START_DELIMITER
                                   /\ \A i \in 1 .. k - 1 : s[i] # START_DELIMITER
    BY <1>2
  <2>2. FromFrameStart(s) = SubSeq(s, k, Len(s))
    BY <2>1, FrameStartIs
  <2>3. k \in 1 .. Len(t) /\ t[k] = START_DELIMITER /\ \A i \in 1 .. k - 1 : t[i] # START_DELIMITER
    BY <1>0, <1>b, <2>1
  <2>4. FromFrameStart(t) = SubSeq(t, k, Len(t))
    BY <1>b, <2>3, FrameStartIs
  <2>5. SubSeq(s, k, Len(s)) # <<>>
    <3>1. Len(SubSeq(s, k, Len(s))) = Len(s) - k + 1
      BY <1>0 DEF Bytes
    <3>2. Len(<<>>) = 0 /\ Len(s) - k + 1 # 0
      BY <1>0
    <3>3. QED
      BY <3>1, <3>2
  <2>6. SubSeq(t, k, Len(t)) = SubSeq(s, k, Len(s)) \o d
    <3>1. PICK m \in Nat : m + 1 = k /\ m <= Len(s)
      BY <1>0
    <3>2. SubSeq(s \o d, m + 1, Len(s \o d)) = SubSeq(s, m + 1, Len(s)) \o d
      BY <3>1, JoinedParts
    <3>3. QED
      BY <1>a, <3>1, <3>2
  <2>7. QED
    BY <1>a, <2>2, <2>4, <2>5, <2>6
<1>3. QED
  BY <1>1, <1>2, FirstStart

\* Buffers alike but for noise stay alike when more bytes come.
LEMMA SameStartExtended ==
  ASSUME NEW s \in Bytes, NEW t \in Bytes, NEW d \in Bytes, FromFrameStart(s) = FromFrameStart(t)
  PROVE  FromFrameStart(s \o d) = FromFrameStart(t \o d)
<1>1. FromFrameStart(s \o d) = IF FromFrameStart(s) = <<>> THEN FromFrameStart(d)
                               ELSE FromFrameStart(s) \o d
  BY FrameStartExtended
<1>2. FromFrameStart(t \o d) = IF FromFrameStart(t) = <<>> THEN FromFrameStart(d)
                               ELSE FromFrameStart(t) \o d
  BY FrameStartExtended
<1>3. QED
  BY <1>1, <1>2

------------------------------------------------------------------------------
(* One turn of the loop of push().                                         *)

\* What a push leaves and emits.
FrameEvents == Seq([kind : {"frame", "error"}, bytes : Bytes])
FramesResults == [buffer : Bytes, emitted : FrameEvents]

\* A start delimiter with too little behind it, or the bytes of a frame.
LEMMA CompleteFrameIs ==
  ASSUME NEW s \in Bytes
  PROVE  /\ Len(s) < MIN_FRAME_LENGTH => CompleteFrame(s) = INCOMPLETE
         /\ \/ CompleteFrame(s) \in {INVALID, INCOMPLETE}
            \/ /\ CompleteFrame(s) \in Nat
               /\ CompleteFrame(s) >= MIN_FRAME_LENGTH
               /\ CompleteFrame(s) <= Len(s)
<1>1. CASE Len(s) < MIN_FRAME_LENGTH
  BY <1>1 DEF CompleteFrame
<1>2. CASE ~ (Len(s) < MIN_FRAME_LENGTH)
  <2>1. Len(s) \in Nat /\ 10 \in 1 .. Len(s)
    BY <1>2 DEF Bytes, MIN_FRAME_LENGTH
  <2>2. s[10] \in 0 .. 255
    BY <2>1, ElementOfSeq DEF Bytes
  <2>3. PICK n \in 0 .. 255 : n = s[10]
    BY <2>2
  <2>4. HEADER_LENGTH + n + 2 \in Nat /\ HEADER_LENGTH + n + 2 >= MIN_FRAME_LENGTH
    BY DEF MIN_FRAME_LENGTH, HEADER_LENGTH
  <2>5. \/ CompleteFrame(s) \in {INVALID, INCOMPLETE}
        \/ CompleteFrame(s) = HEADER_LENGTH + n + 2 /\ ~ (Len(s) < HEADER_LENGTH + n + 2)
    BY <2>3 DEF CompleteFrame
  <2>6. QED
    BY <1>2, <2>1, <2>4, <2>5
<1>3. QED
  BY <1>1, <1>2

\* One turn of the loop, given what is made of what it leaves.
Turn(b, f) ==
    LET found == FromFrameStart(b)
        length == CompleteFrame(found)
        Rest(n) == SubSeq(found, n + 1, Len(found))
    IN  IF Len(b) < MIN_FRAME_LENGTH THEN [buffer |-> b, emitted |-> <<>>]
        ELSE IF found = <<>> \/ length = INCOMPLETE THEN [buffer |-> found, emitted |-> <<>>]
        ELSE IF length = INVALID THEN f[Rest(1)]
        ELSE [f[Rest(length)] EXCEPT
                !.emitted = <<FrameEmission(SubSeq(found, 1, length))>> \o @]

\* What a turn that goes on leaves is shorter.
LEMMA RestIsShorter ==
  ASSUME NEW b \in Bytes, FromFrameStart(b) # <<>>,
         NEW n \in Nat, 1 <= n, n <= Len(FromFrameStart(b))
  PROVE  /\ SubSeq(FromFrameStart(b), n + 1, Len(FromFrameStart(b))) \in Bytes
         /\ Len(SubSeq(FromFrameStart(b), n + 1, Len(FromFrameStart(b)))) < Len(b)
         /\ SubSeq(FromFrameStart(b), 1, n) \in Bytes
<1>1. PICK f \in Bytes : f = FromFrameStart(b) /\ Len(f) <= Len(b)
  BY FrameStartFound
<1>2. Len(f) \in Nat /\ Len(b) \in Nat /\ Len(f) \in 0 .. Len(f) /\ n \in 0 .. Len(f)
      /\ n + 1 \in Nat \ {0} /\ 1 \in Nat \ {0}
  BY <1>1 DEF Bytes
<1>3. SubSeq(f, n + 1, Len(f)) \in Bytes /\ SubSeq(f, 1, n) \in Bytes
      /\ Len(SubSeq(f, n + 1, Len(f))) = IF n + 1 <= Len(f) THEN Len(f) - (n + 1) + 1 ELSE 0
  BY <1>2, PartOfBuffer
<1>4. QED
  BY <1>1, <1>2, <1>3

\* Which turn it is.
LEMMA Turns ==
  ASSUME NEW b \in Bytes, NEW f
  PROVE  \/ Len(b) < MIN_FRAME_LENGTH /\ Turn(b, f) = [buffer |-> b, emitted |-> <<>>]
         \/ /\ Len(b) >= MIN_FRAME_LENGTH
            /\ FromFrameStart(b) = <<>> \/ CompleteFrame(FromFrameStart(b)) = INCOMPLETE
            /\ Turn(b, f) = [buffer |-> FromFrameStart(b), emitted |-> <<>>]
         \/ /\ Len(b) >= MIN_FRAME_LENGTH
            /\ FromFrameStart(b) # <<>> /\ CompleteFrame(FromFrameStart(b)) = INVALID
            /\ \E rest \in Bytes : /\ rest = SubSeq(FromFrameStart(b), 2, Len(FromFrameStart(b)))
                                   /\ Len(rest) < Len(b)
                                   /\ Turn(b, f) = f[rest]
         \/ /\ Len(b) >= MIN_FRAME_LENGTH
            /\ FromFrameStart(b) # <<>> /\ CompleteFrame(FromFrameStart(b)) \notin {INVALID, INCOMPLETE}
            /\ \E rest \in Bytes, frame \in Bytes :
                 LET n == CompleteFrame(FromFrameStart(b)) IN
                 /\ rest = SubSeq(FromFrameStart(b), n + 1, Len(FromFrameStart(b)))
                 /\ frame = SubSeq(FromFrameStart(b), 1, n)
                 /\ Len(rest) < Len(b)
                 /\ Turn(b, f) = [f[rest] EXCEPT !.emitted = <<FrameEmission(frame)>> \o @]
<1> DEFINE found == FromFrameStart(b)
           length == CompleteFrame(found)
<1>0. Len(b) \in Nat /\ MIN_FRAME_LENGTH \in Nat
  BY DEF Bytes, MIN_FRAME_LENGTH
<1>1. CASE Len(b) < MIN_FRAME_LENGTH
  BY <1>1 DEF Turn
<1>2. CASE ~ (Len(b) < MIN_FRAME_LENGTH) /\ (found = <<>> \/ length = INCOMPLETE)
  BY <1>0, <1>2 DEF Turn
<1>3. CASE ~ (Len(b) < MIN_FRAME_LENGTH) /\ found # <<>> /\ length = INVALID
  <2>1. found \in Bytes /\ Len(found) >= MIN_FRAME_LENGTH /\ Len(found) \in Nat
    <3>1. found \in Bytes
      BY FrameStartFound
    <3>2. ~ (Len(found) < MIN_FRAME_LENGTH)
      BY <1>3, <3>1, CompleteFrameIs DEF INVALID, INCOMPLETE
    <3>3. Len(found) \in Nat
      BY <3>1 DEF Bytes
    <3>4. QED
      BY <1>0, <3>1, <3>2, <3>3
  <2>2. 1 \in Nat /\ 1 <= 1 /\ 1 <= Len(found) /\ 1 + 1 = 2
    BY <2>1 DEF MIN_FRAME_LENGTH
  <2>3. PICK rest \in Bytes : rest = SubSeq(found, 2, Len(found)) /\ Len(rest) < Len(b)
    <3>1. SubSeq(found, 1 + 1, Len(found)) \in Bytes /\ Len(SubSeq(found, 1 + 1, Len(found))) < Len(b)
      BY <1>3, <2>2, RestIsShorter
    <3>2. QED
      BY <2>2, <3>1
  <2>4. Turn(b, f) = f[rest]
    <3>1. Turn(b, f) = f[SubSeq(found, 1 + 1, Len(found))]
      BY <1>3 DEF Turn, INVALID, INCOMPLETE
    <3>2. QED
      BY <2>2, <2>3, <3>1
  <2>5. \E r \in Bytes : /\ r = SubSeq(found, 2, Len(found)) /\ Len(r) < Len(b)
                         /\ Turn(b, f) = f[r]
    BY <2>3, <2>4
  <2>6. Len(b) >= MIN_FRAME_LENGTH
    BY <1>0, <1>3
  <2>7. QED
    BY <1>3, <2>5, <2>6
<1>4. CASE ~ (Len(b) < MIN_FRAME_LENGTH) /\ found # <<>> /\ length \notin {INVALID, INCOMPLETE}
  <2>1. found \in Bytes /\ length \in Nat /\ length >= 1 /\ length <= Len(found)
    <3>1. found \in Bytes
      BY FrameStartFound
    <3>2. QED
      BY <1>4, <3>1, CompleteFrameIs DEF MIN_FRAME_LENGTH
  <2>2. PICK rest \in Bytes, frame \in Bytes :
            rest = SubSeq(found, length + 1, Len(found)) /\ frame = SubSeq(found, 1, length) /\ Len(rest) < Len(b)
    BY <1>4, <2>1, RestIsShorter
  <2>3. Turn(b, f) = [f[rest] EXCEPT !.emitted = <<FrameEmission(frame)>> \o @]
    BY <1>4, <2>2 DEF Turn
  <2>4. \E r \in Bytes, g \in Bytes :
          /\ r = SubSeq(found, length + 1, Len(found))
          /\ g = SubSeq(found, 1, length)
          /\ Len(r) < Len(b)
          /\ Turn(b, f) = [f[r] EXCEPT !.emitted = <<FrameEmission(g)>> \o @]
    BY <2>2, <2>3
  <2>5. Len(b) >= MIN_FRAME_LENGTH
    BY <1>0, <1>4
  <2>6. QED
    BY <1>4, <2>4, <2>5
<1>5. QED
  BY <1>1, <1>2, <1>3, <1>4

------------------------------------------------------------------------------
(* The loop as a recursion over ever shorter buffers.                      *)

\* An emission is a frame or an error.
LEMMA EmissionTyped ==
  ASSUME NEW frame \in Bytes
  PROVE  FrameEmission(frame) \in [kind : {"frame", "error"}, bytes : Bytes]
<1>1. (IF FrameParses(frame) THEN "frame" ELSE "error") \in {"frame", "error"}
  OBVIOUS
<1>2. QED
  BY <1>1 DEF FrameEmission

\* An emission put in front.
LEMMA EmissionInFront ==
  ASSUME NEW r \in FramesResults, NEW frame \in Bytes
  PROVE  /\ [r EXCEPT !.emitted = <<FrameEmission(frame)>> \o @] \in FramesResults
         /\ [r EXCEPT !.emitted = <<FrameEmission(frame)>> \o @].buffer = r.buffer
         /\ [r EXCEPT !.emitted = <<FrameEmission(frame)>> \o @].emitted
              = <<FrameEmission(frame)>> \o r.emitted
<1> DEFINE E == [kind : {"frame", "error"}, bytes : Bytes]
<1>1. PICK e \in E : e = FrameEmission(frame)
  BY EmissionTyped
<1>2. r.emitted \in Seq(E) /\ r.buffer \in Bytes
  BY DEF FramesResults, FrameEvents
<1> HIDE DEF E
<1>3. <<e>> \o r.emitted \in Seq(E)
  <2>1. <<e>> \in Seq(E)
    OBVIOUS
  <2>2. QED
    BY <1>2, <2>1, ConcatProperties
<1>4. PICK m \in Seq(E) : m = <<e>> \o r.emitted
  BY <1>3
<1>5. r \in [buffer : Bytes, emitted : Seq(E)]
  BY DEF FramesResults, FrameEvents, E
<1>6. [r EXCEPT !.emitted = m] \in [buffer : Bytes, emitted : Seq(E)]
      /\ [r EXCEPT !.emitted = m].buffer = r.buffer /\ [r EXCEPT !.emitted = m].emitted = m
  BY <1>5
<1>7. [r EXCEPT !.emitted = <<FrameEmission(frame)>> \o @] = [r EXCEPT !.emitted = m]
  BY <1>1, <1>4, <1>5
<1>8. FramesResults = [buffer : Bytes, emitted : Seq(E)]
  BY DEF FramesResults, FrameEvents, E
<1>9. QED
  BY <1>1, <1>4, <1>6, <1>7, <1>8

\* A push that only waits.
LEMMA NothingEmitted ==
  ASSUME NEW b \in Bytes
  PROVE  [buffer |-> b, emitted |-> <<>>] \in FramesResults
<1>1. <<>> \in FrameEvents
  BY DEF FrameEvents
<1>2. QED
  BY <1>1 DEF FramesResults

\* A turn results in what a push may leave and emit.
LEMMA TurnTyped ==
  ASSUME NEW b \in Bytes, NEW f,
         \A r \in Bytes : Len(r) < Len(b) => f[r] \in FramesResults
  PROVE  Turn(b, f) \in FramesResults
<1>1. CASE Turn(b, f) = [buffer |-> b, emitted |-> <<>>]
  BY <1>1, NothingEmitted
<1>2. CASE Turn(b, f) = [buffer |-> FromFrameStart(b), emitted |-> <<>>]
  BY <1>2, NothingEmitted, FrameStartFound
<1>3. CASE \E rest \in Bytes : Len(rest) < Len(b) /\ Turn(b, f) = f[rest]
  BY <1>3
<1>4. CASE \E rest \in Bytes, frame \in Bytes :
              /\ Len(rest) < Len(b)
              /\ Turn(b, f) = [f[rest] EXCEPT !.emitted = <<FrameEmission(frame)>> \o @]
  <2>1. PICK rest \in Bytes, frame \in Bytes :
              /\ Len(rest) < Len(b)
              /\ Turn(b, f) = [f[rest] EXCEPT !.emitted = <<FrameEmission(frame)>> \o @]
    BY <1>4
  <2>2. PICK r \in FramesResults : r = f[rest]
    BY <2>1
  <2>3. QED
    BY <2>1, <2>2, EmissionInFront
<1>5. \/ Turn(b, f) = [buffer |-> b, emitted |-> <<>>]
      \/ Turn(b, f) = [buffer |-> FromFrameStart(b), emitted |-> <<>>]
      \/ \E rest \in Bytes : Len(rest) < Len(b) /\ Turn(b, f) = f[rest]
      \/ \E rest \in Bytes, frame \in Bytes :
              /\ Len(rest) < Len(b)
              /\ Turn(b, f) = [f[rest] EXCEPT !.emitted = <<FrameEmission(frame)>> \o @]
  <2> HIDE DEF Turn
  <2>1. QED
    BY Turns
<1>6. QED
  BY <1>1, <1>2, <1>3, <1>4, <1>5

\* A turn looks only at what is made of shorter buffers.
LEMMA TurnLocal ==
  ASSUME NEW b \in Bytes, NEW f, NEW g, \A r \in Bytes : Len(r) < Len(b) => f[r] = g[r]
  PROVE  Turn(b, f) = Turn(b, g)
<1> DEFINE found == FromFrameStart(b)
           length == CompleteFrame(found)
           rest(n) == SubSeq(found, n + 1, Len(found))
<1>1. CASE Len(b) < MIN_FRAME_LENGTH \/ found = <<>> \/ length = INCOMPLETE
  BY <1>1 DEF Turn
<1>2. CASE ~ (Len(b) < MIN_FRAME_LENGTH) /\ found # <<>> /\ length # INCOMPLETE
  <2>0. found \in Bytes /\ Len(found) \in Nat
    BY FrameStartFound DEF Bytes
  <2>1. CASE length = INVALID
    <3>1. 1 \in Nat /\ 1 <= 1 /\ 1 <= Len(found)
      BY <1>2, <2>0, CompleteFrameIs DEF MIN_FRAME_LENGTH
    <3>2. rest(1) \in Bytes /\ Len(rest(1)) < Len(b)
      BY <1>2, <3>1, RestIsShorter
    <3>3. f[rest(1)] = g[rest(1)]
      BY <3>2
    <3>4. QED
      BY <1>2, <2>1, <3>3 DEF Turn
  <2>2. CASE length # INVALID
    <3>1. length \in Nat /\ 1 <= length /\ length <= Len(found)
      BY <1>2, <2>0, <2>2, CompleteFrameIs DEF MIN_FRAME_LENGTH
    <3>2. rest(length) \in Bytes /\ Len(rest(length)) < Len(b)
      BY <1>2, <3>1, RestIsShorter
    <3>3. f[rest(length)] = g[rest(length)]
      BY <3>2
    <3>4. QED
      BY <1>2, <2>2, <3>3 DEF Turn
  <2>3. QED
    BY <2>1, <2>2
<1>3. QED
  BY <1>1, <1>2

\* The loop ends on every buffer, since each turn that goes on leaves less.
LEMMA FramesExists ==
  \E g : g = [b \in Seq(0 .. 255) |-> Turn(b, g)]
<1> DEFINE R == FramesResults
           T == [b \in Bytes |-> R]
           rank == [b \in Bytes |-> Len(b)]
           G == {g \in [Bytes -> R] : \A x \in Bytes : g[x] \in T[x]}
           step == [b \in Bytes |-> [g \in G |-> Turn(b, g)]]
<1>1. T \in [Bytes -> SUBSET R] /\ \A x \in Bytes : T[x] = R
  OBVIOUS
<1>2. R # {}
  <2>1. <<>> \in Bytes
    BY DEF Bytes
  <2>2. QED
    BY <2>1, NothingEmitted
<1>3. rank \in [Bytes -> Nat] /\ \A x \in Bytes : rank[x] = Len(x)
  BY DEF Bytes
<1>4. \A x \in Bytes : \A g \in G : Turn(x, g) \in R
  <2>1. ASSUME NEW x \in Bytes, NEW g \in G PROVE Turn(x, g) \in R
    <3>1. \A r \in Bytes : g[r] \in FramesResults
      BY <1>1
    <3>2. QED
      BY <3>1, TurnTyped
  <2>2. QED
    BY <2>1
<1>5. \A x \in Bytes : \A g, h \in G :
        (\A y \in Bytes : rank[y] < rank[x] => g[y] = h[y]) => Turn(x, g) = Turn(x, h)
  <2> HIDE DEF rank, G
  <2>1. QED
    BY <1>3, TurnLocal
<1>6. step \in [Bytes -> [G -> R]] /\ \A x \in Bytes : \A g \in G : step[x][g] = Turn(x, g)
  <2> HIDE DEF G, R
  <2>1. QED
    BY <1>4
<1>7. PICK st, gs, rk, t, d, rs : st = step /\ gs = G /\ rk = rank /\ t = T /\ d = Bytes /\ rs = R
  OBVIOUS
<1>8. gs = {g \in [d -> rs] : \A x \in d : g[x] \in t[x]}
  BY <1>7
<1> HIDE DEF step, G, rank, T, R
<1>9. \E g \in gs : \A x \in d : g[x] = st[x][g]
  <2>1. t \in [d -> SUBSET rs] /\ rk \in [d -> Nat] /\ st \in [d -> [gs -> rs]]
        /\ (\A x \in d : t[x] # {})
    BY <1>1, <1>2, <1>3, <1>6, <1>7
  <2>2. \A x \in d : \A g \in gs : st[x][g] \in t[x]
    BY <1>1, <1>4, <1>6, <1>7
  <2>3. \A x \in d : \A g, h \in gs :
          (\A y \in d : rk[y] < rk[x] => g[y] = h[y]) => st[x][g] = st[x][h]
    BY <1>5, <1>6, <1>7
  <2>4. WellFounded(d, rs, t, gs, rk, st)
    BY <1>8, <2>1, <2>2, <2>3 DEF WellFounded
  <2>5. QED
    BY <2>4, RecursionByRank
<1>10. PICK g \in gs : \A x \in Bytes : g[x] = Turn(x, g)
  BY <1>6, <1>7, <1>9
<1>11. g \in [Bytes -> R]
  BY <1>7, <1>8
<1>12. g = [b \in Bytes |-> Turn(b, g)]
  BY <1>10, <1>11
<1>13. QED
  BY <1>12 DEF Bytes

\* The loop is its first turn, and the loop on what that leaves.
LEMMA FramesUnfolds ==
  ASSUME NEW b \in Bytes PROVE Frames[b] = Turn(b, Frames)
<1> DEFINE of(f) == [s \in Seq(0 .. 255) |-> Turn(s, f)]
<1>1. Frames = CHOOSE f : f = of(f)
  BY DEF Frames, Turn
<1>2. \E f : f = of(f)
  BY FramesExists
<1> HIDE DEF of
<1>3. Frames = of(Frames)
  BY <1>1, <1>2
<1>4. QED
  BY <1>3 DEF of, Bytes

------------------------------------------------------------------------------
(* Pushes of parts do what one push does.                                  *)

\* Emissions joined.
LEMMA JoinedEvents ==
  ASSUME NEW E, NEW e \in E, NEW x \in Seq(E), NEW y \in Seq(E)
  PROVE  /\ <<>> \o x = x
         /\ (<<e>> \o x) \o y = <<e>> \o (x \o y)
<1>1. <<e>> \in Seq(E)
  OBVIOUS
<1>2. QED
  BY <1>1, ConcatAssociative, ConcatEmptySeq

\* Induction over the length of a buffer, for a property given as a set.
LEMMA BufferInduction ==
  ASSUME NEW P, \A b \in Bytes : (\A r \in Bytes : Len(r) < Len(b) => r \in P) => b \in P
  PROVE  \A b \in Bytes : b \in P
<1> DEFINE length == [b \in Bytes |-> Len(b)]
<1>1. PICK rank \in [Bytes -> Nat] : \A b \in Bytes : rank[b] = Len(b)
  <2>1. length \in [Bytes -> Nat] /\ \A b \in Bytes : length[b] = Len(b)
    BY DEF Bytes
  <2>2. QED
    BY <2>1
<1>2. PICK D : D = Bytes
  OBVIOUS
<1>3. \A x \in D : (\A y \in D : rank[y] < rank[x] => y \in P) => x \in P
  BY <1>1, <1>2
<1>4. rank \in [D -> Nat]
  BY <1>2
<1>5. \A x \in D : x \in P
  BY <1>3, <1>4, RankInduction
<1>6. QED
  BY <1>2, <1>5

\* Whatever the bytes, a push leaves a buffer and emits events.
LEMMA FramesTyped ==
  ASSUME NEW b \in Bytes PROVE Frames[b] \in FramesResults
<1> DEFINE P == {s \in Bytes : Frames[s] \in FramesResults}
<1>1. ASSUME NEW s \in Bytes, \A r \in Bytes : Len(r) < Len(s) => r \in P PROVE s \in P
  <2>1. \A r \in Bytes : Len(r) < Len(s) => Frames[r] \in FramesResults
    BY <1>1
  <2>2. Turn(s, Frames) \in FramesResults
    BY <2>1, TurnTyped
  <2>3. QED
    BY <2>2, FramesUnfolds
<1> HIDE DEF P
<1>2. \A s \in Bytes : s \in P
  BY <1>1, BufferInduction
<1>3. QED
  BY <1>2 DEF P

\* Two results that differ at most in the noise before a frame that has begun.
Alike(r, q) == r.emitted = q.emitted /\ FromFrameStart(r.buffer) = FromFrameStart(q.buffer)

\* Noise before a frame makes no difference.
LEMMA NoiseIrrelevant ==
  ASSUME NEW s \in Bytes, NEW t \in Bytes, FromFrameStart(s) = FromFrameStart(t)
  PROVE  Alike(Frames[s], Frames[t])
<1> DEFINE f == FromFrameStart(s)
<1>0. /\ f \in Bytes /\ Len(f) <= Len(s) /\ Len(f) <= Len(t) /\ FromFrameStart(f) = f
      /\ Len(f) \in Nat /\ Len(s) \in Nat /\ Len(t) \in Nat /\ MIN_FRAME_LENGTH \in Nat
  BY FrameStartFound DEF Bytes, MIN_FRAME_LENGTH
<1>1. Frames[s] = Turn(s, Frames) /\ Frames[t] = Turn(t, Frames)
  BY FramesUnfolds
<1>2. CASE f = <<>> \/ CompleteFrame(f) = INCOMPLETE
  <2>1. Turn(s, Frames) \in {[buffer |-> s, emitted |-> <<>>], [buffer |-> f, emitted |-> <<>>]}
    BY <1>2 DEF Turn
  <2>2. Turn(t, Frames) \in {[buffer |-> t, emitted |-> <<>>], [buffer |-> f, emitted |-> <<>>]}
    BY <1>2 DEF Turn
  <2>3. QED
    BY <1>0, <1>1, <2>1, <2>2 DEF Alike
<1>3. CASE f # <<>> /\ CompleteFrame(f) # INCOMPLETE
  <2>1. ~ (Len(f) < MIN_FRAME_LENGTH)
    BY <1>0, <1>3, CompleteFrameIs
  <2>2. ~ (Len(s) < MIN_FRAME_LENGTH) /\ ~ (Len(t) < MIN_FRAME_LENGTH)
    BY <1>0, <2>1
  <2>3. Turn(s, Frames) = Turn(t, Frames)
    BY <1>3, <2>2 DEF Turn
  <2>4. QED
    BY <1>1, <2>3 DEF Alike
<1>4. QED
  BY <1>2, <1>3

\* More bytes do not change what CompleteFrame has decided.
LEMMA CompleteFrameExtended ==
  ASSUME NEW s \in Bytes, NEW d \in Bytes, CompleteFrame(s) # INCOMPLETE
  PROVE  CompleteFrame(s \o d) = CompleteFrame(s)
<1>1. ~ (Len(s) < MIN_FRAME_LENGTH)
  BY CompleteFrameIs
<1>2. Len(s) \in Nat /\ Len(d) \in Nat /\ 10 \in 1 .. Len(s) /\ 1 \in 1 .. Len(s) /\ 8 \in 1 .. Len(s)
  BY <1>1 DEF Bytes, MIN_FRAME_LENGTH
<1>3. PICK t \in Bytes : /\ t = s \o d /\ Len(t) = Len(s) + Len(d)
                         /\ \A i \in 1 .. Len(s) : t[i] = s[i]
  BY JoinedBuffers
<1>4. t[10] = s[10] /\ t[1] = s[1] /\ t[8] = s[8]
  BY <1>2, <1>3
<1>5. PICK n \in 0 .. 255 : n = s[10]
  BY <1>2, ElementOfSeq DEF Bytes
<1>6. ~ (Len(t) < MIN_FRAME_LENGTH)
  BY <1>1, <1>2, <1>3 DEF MIN_FRAME_LENGTH
<1>7. PICK e \in Nat : e = HEADER_LENGTH + n + 2 /\ e >= 1
  BY DEF HEADER_LENGTH
<1>8. CASE s[1] # START_DELIMITER \/ s[8] # START_DELIMITER
  BY <1>1, <1>4, <1>6, <1>3, <1>8 DEF CompleteFrame
<1>9. CASE ~ (s[1] # START_DELIMITER \/ s[8] # START_DELIMITER)
  <2>1. ~ (Len(s) < e)
    BY <1>1, <1>5, <1>7, <1>9 DEF CompleteFrame, INCOMPLETE
  <2>2. ~ (Len(t) < e) /\ t[e] = s[e]
    BY <1>2, <1>3, <1>7, <2>1
  <2>3. CompleteFrame(s) = IF s[e] # END_DELIMITER THEN INVALID ELSE e
    BY <1>1, <1>5, <1>7, <1>9, <2>1 DEF CompleteFrame
  <2>4. CompleteFrame(t) = IF t[e] # END_DELIMITER THEN INVALID ELSE e
    BY <1>4, <1>5, <1>6, <1>7, <1>9, <2>2 DEF CompleteFrame
  <2>5. QED
    BY <1>3, <2>2, <2>3, <2>4
<1>10. QED
  BY <1>8, <1>9

\* A push of s and one of d do what one of both does, but for the noise.
Continued(s, d) ==
  Alike(Frames[s \o d],
        [buffer |-> Frames[Frames[s].buffer \o d].buffer,
         emitted |-> Frames[s].emitted \o Frames[Frames[s].buffer \o d].emitted])

\* However a buffer is cut in two, two pushes do what one does.
LEMMA PushesJoin ==
  ASSUME NEW b \in Bytes, NEW d \in Bytes PROVE Continued(b, d)
<1> DEFINE P == {s \in Bytes : Continued(s, d)}
<1>1. ASSUME NEW s \in Bytes, \A r \in Bytes : Len(r) < Len(s) => r \in P PROVE s \in P
  <2> DEFINE f == FromFrameStart(s)
             n == CompleteFrame(f)
  <2>0. f \in Bytes /\ Len(f) \in Nat /\ Len(s) \in Nat /\ Len(d) \in Nat /\ Len(f) <= Len(s)
        /\ FromFrameStart(f) = f
    BY FrameStartFound DEF Bytes
  <2>a. /\ s \o d \in Bytes /\ Len(s \o d) = Len(s) + Len(d)
        /\ f \o d \in Bytes /\ Len(f \o d) = Len(f) + Len(d)
    BY <2>0 DEF Bytes
  <2>b. Frames[s] = Turn(s, Frames) /\ Frames[s \o d] = Turn(s \o d, Frames)
    BY <2>a, FramesUnfolds
  \* The first push only waits: what it keeps is s but for noise.
  <2>1. CASE \/ Frames[s] = [buffer |-> s, emitted |-> <<>>]
             \/ Frames[s] = [buffer |-> f, emitted |-> <<>>]
    <3>1. PICK k \in Bytes : k \in {s, f} /\ Frames[s] = [buffer |-> k, emitted |-> <<>>]
      BY <2>0, <2>1
    <3>2. k \o d \in Bytes /\ FromFrameStart(k \o d) = FromFrameStart(s \o d)
      <4>1. k \o d \in Bytes /\ s \o d \in Bytes
        BY JoinedBuffers
      <4>2. FromFrameStart(k) = FromFrameStart(s)
        BY <2>0, <3>1
      <4>3. FromFrameStart(k \o d) = FromFrameStart(s \o d)
        BY <3>1, <4>1, <4>2, SameStartExtended
      <4>4. QED
        BY <4>1, <4>3
    <3>3. Alike(Frames[s \o d], Frames[k \o d])
      BY <2>a, <3>2, NoiseIrrelevant
    <3>4. Frames[k \o d].emitted \in FrameEvents
      BY <3>2, FramesTyped DEF FramesResults
    <3>5. <<>> \o Frames[k \o d].emitted = Frames[k \o d].emitted
      BY <3>4 DEF FrameEvents
    <3>8. Frames[s].buffer = k /\ Frames[s].emitted = <<>>
      BY <3>1
    <3>6. Continued(s, d)
      BY <3>8, <3>3, <3>5 DEF Continued, Alike
    <3>7. QED
      BY <3>6
  \* It takes something off, and so does the joint push.
  <2>2. CASE Len(s) >= MIN_FRAME_LENGTH /\ f # <<>> /\ n # INCOMPLETE
    <3>1. FromFrameStart(s \o d) = f \o d /\ f \o d # <<>>
      <4>1. FromFrameStart(s \o d) = f \o d
        BY <2>2, FrameStartExtended
      <4>2. Len(f) # 0 /\ Len(<<>>) = 0
        BY <2>0, <2>2 DEF Bytes
      <4>3. QED
        BY <2>0, <2>a, <4>1, <4>2
    <3>2. CompleteFrame(f \o d) = n
      BY <2>0, <2>2, CompleteFrameExtended
    <3>3. ~ (Len(s) < MIN_FRAME_LENGTH) /\ ~ (Len(s \o d) < MIN_FRAME_LENGTH)
      BY <2>0, <2>2, <2>a DEF MIN_FRAME_LENGTH
    <3>4. PICK m \in Nat : /\ 1 <= m /\ m <= Len(f)
                           /\ m = IF n = INVALID THEN 1 ELSE n
      BY <2>0, <2>2, CompleteFrameIs DEF MIN_FRAME_LENGTH
    <3>5. PICK r \in Bytes, g \in Bytes :
             r = SubSeq(f, m + 1, Len(f)) /\ g = SubSeq(f, 1, m) /\ Len(r) < Len(s)
      BY <2>2, <3>4, RestIsShorter
    <3>6. SubSeq(f \o d, m + 1, Len(f \o d)) = r \o d /\ SubSeq(f \o d, 1, m) = g
      <4>1. PICK h \in Bytes : h = f /\ m <= Len(h)
        BY <2>0, <3>4
      <4>2. SubSeq(h \o d, m + 1, Len(h \o d)) = SubSeq(h, m + 1, Len(h)) \o d
            /\ SubSeq(h \o d, 1, m) = SubSeq(h, 1, m)
        BY <4>1, JoinedParts
      <4>3. QED
        BY <3>5, <4>1, <4>2
    <3>7. Continued(r, d)
      BY <1>1, <3>5
    <3>8. Frames[r] \in FramesResults /\ r \o d \in Bytes
      BY <3>5, FramesTyped, JoinedBuffers
    <3>9. Frames[r].buffer \in Bytes /\ Frames[r].buffer \o d \in Bytes
      BY <3>8, JoinedBuffers DEF FramesResults
    <3>10. Frames[r \o d] \in FramesResults /\ Frames[Frames[r].buffer \o d] \in FramesResults
      BY <3>8, <3>9, FramesTyped
    <3>11. CASE n = INVALID
      <4>1. Frames[s] = Frames[r]
        BY <2>2, <2>b, <3>3, <3>4, <3>5, <3>11 DEF Turn
      <4>2. Frames[s \o d] = Frames[r \o d]
        BY <2>2, <2>b, <3>1, <3>2, <3>3, <3>4, <3>6, <3>11 DEF Turn, INVALID, INCOMPLETE
      <4>3. QED
        BY <3>7, <4>1, <4>2 DEF Continued
    <3>12. CASE n # INVALID
      <4>1. Frames[s] = [Frames[r] EXCEPT !.emitted = <<FrameEmission(g)>> \o @]
        BY <2>2, <2>b, <3>3, <3>4, <3>5, <3>12 DEF Turn
      <4>2. Frames[s \o d] = [Frames[r \o d] EXCEPT !.emitted = <<FrameEmission(g)>> \o @]
        BY <2>2, <2>b, <3>1, <3>2, <3>3, <3>4, <3>6, <3>12 DEF Turn
      <4>3. Frames[s].buffer = Frames[r].buffer
            /\ Frames[s].emitted = <<FrameEmission(g)>> \o Frames[r].emitted
        <5>1. PICK x \in FramesResults : x = Frames[r]
          BY <3>8
        <5>2. /\ [x EXCEPT !.emitted = <<FrameEmission(g)>> \o @].buffer = x.buffer
              /\ [x EXCEPT !.emitted = <<FrameEmission(g)>> \o @].emitted
                   = <<FrameEmission(g)>> \o x.emitted
          BY <3>5, EmissionInFront
        <5>3. QED
          BY <4>1, <5>1, <5>2
      <4>4. Frames[s \o d].buffer = Frames[r \o d].buffer
            /\ Frames[s \o d].emitted = <<FrameEmission(g)>> \o Frames[r \o d].emitted
        <5>1. PICK x \in FramesResults : x = Frames[r \o d]
          BY <3>10
        <5>2. /\ [x EXCEPT !.emitted = <<FrameEmission(g)>> \o @].buffer = x.buffer
              /\ [x EXCEPT !.emitted = <<FrameEmission(g)>> \o @].emitted
                   = <<FrameEmission(g)>> \o x.emitted
          BY <3>5, EmissionInFront
        <5>3. QED
          BY <4>2, <5>1, <5>2
      <4>5. PICK E, e, x, y : /\ E = [kind : {"frame", "error"}, bytes : Bytes]
                              /\ e = FrameEmission(g) /\ e \in E
                              /\ x = Frames[r].emitted /\ x \in Seq(E)
                              /\ y = Frames[Frames[r].buffer \o d].emitted /\ y \in Seq(E)
        BY <3>5, <3>8, <3>10, EmissionTyped DEF FramesResults, FrameEvents
      <4>6. (<<e>> \o x) \o y = <<e>> \o (x \o y)
        <5>1. e \in E /\ x \in Seq(E) /\ y \in Seq(E)
          BY <4>5
        <5>2. QED
          BY <5>1, JoinedEvents
      <4>7. Frames[r \o d].emitted = x \o y
            /\ FromFrameStart(Frames[r \o d].buffer) = FromFrameStart(Frames[Frames[r].buffer \o d].buffer)
        BY <3>7, <4>5 DEF Continued, Alike
      <4>8. Frames[s \o d].emitted = Frames[s].emitted \o y
        BY <4>3, <4>4, <4>5, <4>6, <4>7
      <4>9. Continued(s, d)
        BY <4>3, <4>4, <4>5, <4>7, <4>8 DEF Continued, Alike
      <4>10. QED
        BY <4>9
    <3>13. QED
      BY <3>11, <3>12
  <2>3. \/ Frames[s] = [buffer |-> s, emitted |-> <<>>]
        \/ Frames[s] = [buffer |-> f, emitted |-> <<>>]
        \/ Len(s) >= MIN_FRAME_LENGTH /\ f # <<>> /\ n # INCOMPLETE
    <3>1. Len(s) \in Nat /\ MIN_FRAME_LENGTH \in Nat
      BY <2>0 DEF MIN_FRAME_LENGTH
    <3>2. QED
      BY <2>b, <3>1 DEF Turn
  <2>4. QED
    BY <2>1, <2>2, <2>3
<1> HIDE DEF P
<1>2. \A s \in Bytes : s \in P
  BY <1>1, BufferInduction
<1>3. QED
  BY <1>2 DEF P

------------------------------------------------------------------------------
(* Sequences of sequences.                                                 *)

\* Sequences joined one after the other.
Joined(q, x, f) == IF x = 1 THEN q[x] ELSE f[x - 1] \o q[x]

\* Joining one more sequence.
LEMMA JoinedTyped ==
  ASSUME NEW S, NEW n \in Nat, NEW q \in [1 .. n -> Seq(S)], NEW x \in 1 .. n, NEW f,
         x # 1 => f[x - 1] \in Seq(S)
  PROVE  Joined(q, x, f) \in Seq(S)
<1>1. q[x] \in Seq(S)
  OBVIOUS
<1>2. QED
  BY <1>1, ConcatProperties DEF Joined

\* The recursion behind FlattenSeq ends.
LEMMA JoinedExists ==
  ASSUME NEW S, NEW n \in Nat, NEW q \in [1 .. n -> Seq(S)]
  PROVE  \E g : g = [x \in 1 .. n |-> Joined(q, x, g)]
<1> DEFINE D == 1 .. n
           R == Seq(S)
           T == [x \in D |-> R]
           rank == [x \in D |-> x]
           G == {g \in [D -> R] : \A x \in D : g[x] \in T[x]}
           step == [x \in D |-> [g \in G |-> Joined(q, x, g)]]
<1>1. T \in [D -> SUBSET R] /\ (\A x \in D : T[x] = R) /\ R # {}
  <2>1. <<>> \in R
    OBVIOUS
  <2> HIDE DEF D, R
  <2>2. T \in [D -> SUBSET R] /\ \A x \in D : T[x] = R
    OBVIOUS
  <2>3. QED
    BY <2>1, <2>2
<1>2. rank \in [D -> Nat] /\ \A x \in D : rank[x] = x
  OBVIOUS
<1>3. \A x \in D : x # 1 => x - 1 \in D /\ x - 1 < x
  OBVIOUS
<1>4. \A x \in D : \A g \in G : Joined(q, x, g) \in R
  <2>1. ASSUME NEW x \in D, NEW g \in G PROVE Joined(q, x, g) \in R
    <3>1. x # 1 => g[x - 1] \in Seq(S)
      BY <1>1, <1>3
    <3>2. QED
      BY <3>1, JoinedTyped
  <2>2. QED
    BY <2>1
<1>5. \A x \in D : \A g, h \in G :
        (\A y \in D : rank[y] < rank[x] => g[y] = h[y]) => Joined(q, x, g) = Joined(q, x, h)
  <2>1. ASSUME NEW x \in D, NEW g \in G, NEW h \in G,
               \A y \in D : rank[y] < rank[x] => g[y] = h[y]
        PROVE  Joined(q, x, g) = Joined(q, x, h)
    <3>1. x # 1 => rank[x - 1] < rank[x]
      BY <1>2, <1>3
    <3>2. x # 1 => g[x - 1] = h[x - 1]
      BY <1>3, <2>1, <3>1
    <3>3. QED
      BY <3>2 DEF Joined
  <2>2. QED
    BY <2>1
<1>6. step \in [D -> [G -> R]] /\ \A x \in D : \A g \in G : step[x][g] = Joined(q, x, g)
  <2> HIDE DEF G, R, D
  <2>1. QED
    BY <1>4
<1>7. PICK st, gs, rk, t, d, rs : st = step /\ gs = G /\ rk = rank /\ t = T /\ d = D /\ rs = R
  OBVIOUS
<1>8. gs = {g \in [d -> rs] : \A x \in d : g[x] \in t[x]}
  BY <1>7
<1> HIDE DEF step, G, rank, T, R, D
<1>9. \E g \in gs : \A x \in d : g[x] = st[x][g]
  <2>1. t \in [d -> SUBSET rs] /\ rk \in [d -> Nat] /\ st \in [d -> [gs -> rs]]
        /\ (\A x \in d : t[x] # {})
    BY <1>1, <1>2, <1>6, <1>7
  <2>2. \A x \in d : \A g \in gs : st[x][g] \in t[x]
    BY <1>1, <1>4, <1>6, <1>7
  <2>3. \A x \in d : \A g, h \in gs :
          (\A y \in d : rk[y] < rk[x] => g[y] = h[y]) => st[x][g] = st[x][h]
    BY <1>5, <1>6, <1>7
  <2>4. WellFounded(d, rs, t, gs, rk, st)
    BY <1>8, <2>1, <2>2, <2>3 DEF WellFounded
  <2>5. QED
    BY <2>4, RecursionByRank
<1>10. PICK g \in gs : \A x \in D : g[x] = Joined(q, x, g)
  BY <1>6, <1>7, <1>9
<1>11. g \in [D -> R]
  BY <1>7, <1>8
<1>12. g = [x \in D |-> Joined(q, x, g)]
  BY <1>10, <1>11
<1>13. QED
  BY <1>12 DEF D

\* FlattenSeq of sequences over S is one.
LEMMA FlattenTyped ==
  ASSUME NEW S, NEW n \in Nat, NEW q \in [1 .. n -> Seq(S)]
  PROVE  FlattenSeq(q) \in Seq(S)
<1>0. q \in Seq(Seq(S)) /\ Len(q) = n
  OBVIOUS
<1>1. CASE n = 0
  <2>1. q \in Seq(S)
    BY <1>1
  <2>2. QED
    BY <1>0, <1>1, <2>1 DEF FlattenSeq
<1>2. CASE n # 0
  <2> DEFINE of(f) == [x \in 1 .. n |-> Joined(q, x, f)]
  <2>1. PICK g : g = CHOOSE f : f = of(f)
    OBVIOUS
  <2>2. FlattenSeq(q) = g[n]
    BY <1>0, <1>2, <2>1 DEF FlattenSeq, Joined
  <2>3. \E f : f = of(f)
    BY JoinedExists
  <2> HIDE DEF of
  <2>4. g = of(g)
    BY <2>1, <2>3
  <2>5. \A x \in 1 .. n : g[x] = Joined(q, x, g)
    BY <2>4 DEF of
  <2> DEFINE P == {x \in 1 .. n : g[x] \in Seq(S)}
             rank == [x \in 1 .. n |-> x]
  <2>6. ASSUME NEW x \in 1 .. n, \A y \in 1 .. n : y < x => y \in P PROVE x \in P
    <3>1. x # 1 => x - 1 \in 1 .. n /\ x - 1 < x
      OBVIOUS
    <3>2. x # 1 => g[x - 1] \in Seq(S)
      BY <2>6, <3>1
    <3>3. Joined(q, x, g) \in Seq(S)
      BY <3>2, JoinedTyped
    <3>4. QED
      BY <2>5, <3>3
  <2>7. rank \in [1 .. n -> Nat] /\ \A x \in 1 .. n : rank[x] = x
    OBVIOUS
  <2>8. PICK D, p, rk : D = 1 .. n /\ p = P /\ rk = rank
    OBVIOUS
  <2> HIDE DEF P, rank
  <2>9. rk \in [D -> Nat] /\ \A x \in D : (\A y \in D : rk[y] < rk[x] => y \in p) => x \in p
    BY <2>6, <2>7, <2>8
  <2>10. \A x \in D : x \in p
    BY <2>9, RankInduction
  <2>11. n \in 1 .. n
    BY <1>2
  <2>12. g[n] \in Seq(S)
    BY <2>8, <2>10, <2>11 DEF P
  <2>13. QED
    BY <2>2, <2>12
<1>3. QED
  BY <1>1, <1>2

------------------------------------------------------------------------------
(* IVY: DLMS values, and where they end.                                   *)

\* A byte, or nothing behind the end.
LEMMA AtIs ==
  ASSUME NEW b \in Bytes, NEW o \in Nat
  PROVE  /\ At(b, o) \in -1 .. 255
         /\ At(b, o) = -1 <=> ~ (o < Len(b))
<1>1. Len(b) \in Nat
  BY DEF Bytes
<1>2. CASE o < Len(b)
  <2>1. o + 1 \in 1 .. Len(b)
    BY <1>1, <1>2
  <2>2. PICK v \in 0 .. 255 : v = b[o + 1]
    BY <2>1, ElementOfSeq DEF Bytes
  <2>3. At(b, o) = v
    BY <1>2, <2>2 DEF At
  <2>4. v \in -1 .. 255 /\ v # -1
    OBVIOUS
  <2>5. QED
    BY <1>2, <2>3, <2>4
<1>3. CASE ~ (o < Len(b))
  BY <1>3 DEF At
<1>4. QED
  BY <1>2, <1>3

\* A byte within the buffer.
LEMMA ByteAt ==
  ASSUME NEW b \in Bytes, NEW o \in Nat, o < Len(b)
  PROVE  At(b, o) \in 0 .. 255
<1>1. o + 1 \in 1 .. Len(b)
  BY DEF Bytes
<1>2. b[o + 1] \in 0 .. 255
  BY <1>1, ElementOfSeq DEF Bytes
<1>3. QED
  BY <1>2 DEF At

\* No fixed size is longer than a date-time, and no tag is undefined.
LEMMA SizesAreFixed ==
  /\ \A tag \in DOMAIN FixedSizes : FixedSizes[tag][1] \in 0 .. 12 /\ FixedSizes[tag][2] \in 0 .. 12
  /\ -1 \notin DOMAIN FixedSizes
<1>1. DOMAIN FixedSizes = {0, 3, 5, 6} \cup 15 .. 18 \cup 20 .. 27
  BY DEF FixedSizes
<1>2. ASSUME NEW tag \in {0, 3, 5, 6} \cup 15 .. 18 \cup 20 .. 27
      PROVE  FixedSizes[tag][1] \in 0 .. 12 /\ FixedSizes[tag][2] \in 0 .. 12
  <2>1. FixedSizes[tag] \in {<<0, 0>>, <<0, 1>>, <<1, 1>>, <<2, 2>>, <<4, 4>>, <<8, 8>>, <<12, 12>>,
                             <<2, 5>>, <<0, 4>>}
    BY DEF FixedSizes
  <2>2. QED
    BY <2>1
<1>3. QED
  BY <1>1, <1>2

\* Where values may end that begin at p[1], as many as p[2]: not before.
MayEnd(p) == {THROWS, NAN} \cup {e \in Nat : e >= p[1] /\ (p[2] # 0 => e > p[1])}

\* The end of the first value, and of all, given the ends of those that follow.
FirstEnd(b, p, f) ==
    LET tag == At(b, p[1])
        size == At(b, p[1] + 1)
        body == p[1] + 1
    IN  CASE tag \in DOMAIN FixedSizes ->
               IF body + FixedSizes[tag][1] > Len(b)
               THEN THROWS ELSE body + FixedSizes[tag][2]
          [] tag \in STRINGS -> IF size = -1 THEN NAN ELSE body + 1 + size
          [] tag = BIT_STRING -> IF size = -1 THEN NAN ELSE body + 1 + CeilDiv8(size)
          [] tag \in {ARRAY, STRUCTURE} ->
               f[<<body + 1, IF size = -1 THEN 0 ELSE size>>]
          [] OTHER -> THROWS
EndFrom(b, p, f) ==
    IF p[2] = 0 THEN p[1]
    ELSE IF p[2] = 1 THEN FirstEnd(b, p, f)
    ELSE IF FirstEnd(b, p, f) \in {THROWS, NAN} THEN THROWS
    ELSE f[<<FirstEnd(b, p, f), p[2] - 1>>]

\* Where values begin, and how many are to be read there.
Places == Nat \X Nat
\* The bytes from an offset on: what bounds every walk over a buffer.
BytesLeft(b, o) == IF o < Len(b) THEN Len(b) - o ELSE 0

\* Where the elements of an array or a structure begin, and how many there are.
Inner(b, p) ==
    <<p[1] + 2, IF At(b, p[1] + 1) = -1 THEN 0 ELSE At(b, p[1] + 1)>>

\* The elements begin further on.
LEMMA InnerIs ==
  ASSUME NEW b \in Bytes, NEW p \in Places
  PROVE  /\ Inner(b, p) \in Places
         /\ Inner(b, p)[1] = p[1] + 2
         /\ p[1] \in Nat /\ p[2] \in Nat
<1>1. p[1] \in Nat /\ p[2] \in Nat /\ p[1] + 1 \in Nat /\ p[1] + 2 \in Nat
  BY DEF Places
<1>2. PICK size \in -1 .. 255 : size = At(b, p[1] + 1)
  BY <1>1, AtIs
<1>3. PICK n \in Nat : n = IF size = -1 THEN 0 ELSE size
  OBVIOUS
<1>4. Inner(b, p) = <<p[1] + 2, n>>
  BY <1>2, <1>3 DEF Inner
<1>5. QED
  BY <1>1, <1>4 DEF Places

\* The end of a value, case by case.
LEMMA FirstEndIs ==
  ASSUME NEW b \in Bytes, NEW p \in Places, NEW f, NEW g
  PROVE  \/ FirstEnd(b, p, f) = FirstEnd(b, p, g) /\ FirstEnd(b, p, f) \in {THROWS, NAN}
         \/ /\ p[1] < Len(b) /\ FirstEnd(b, p, f) = FirstEnd(b, p, g)
            /\ FirstEnd(b, p, f) \in Nat /\ FirstEnd(b, p, f) > p[1]
         \/ /\ p[1] < Len(b)
            /\ FirstEnd(b, p, f) = f[Inner(b, p)] /\ FirstEnd(b, p, g) = g[Inner(b, p)]
<1>1. PICK o \in Nat : o = p[1] /\ o + 1 \in Nat
  BY DEF Places
<1>2. PICK tag \in -1 .. 255, size \in -1 .. 255 :
         /\ tag = At(b, p[1]) /\ size = At(b, p[1] + 1)
         /\ tag # -1 => p[1] < Len(b)
  <2>1. p[1] \in Nat /\ p[1] + 1 \in Nat
    BY <1>1
  <2>2. At(b, p[1]) \in -1 .. 255 /\ (At(b, p[1]) = -1 <=> ~ (p[1] < Len(b)))
    BY <2>1, AtIs
  <2>3. At(b, p[1] + 1) \in -1 .. 255
    BY <2>1, AtIs
  <2>4. QED
    BY <2>2, <2>3
<1>a. (p[1] + 1) + 1 = p[1] + 2 /\ p[1] = o
  BY <1>1
<1>b. PICK FS : FS = FixedSizes
  OBVIOUS
<1>c. DOMAIN FS = {0, 3, 5, 6} \cup 15 .. 18 \cup 20 .. 27
  BY <1>b DEF FixedSizes
<1>3. CASE tag \in DOMAIN FS
  <2>1. tag \notin STRINGS /\ tag # BIT_STRING /\ tag \notin {ARRAY, STRUCTURE} /\ tag # -1
    BY <1>3, <1>c DEF STRINGS, BIT_STRING, ARRAY, STRUCTURE
  <2>2. PICK u \in 0 .. 12, w \in 0 .. 12 : u = FS[tag][1] /\ w = FS[tag][2]
    BY <1>3, <1>b, SizesAreFixed
  <2>3. \A h : FirstEnd(b, p, h) = IF p[1] + 1 + u > Len(b) THEN THROWS ELSE p[1] + 1 + w
    BY <1>2, <1>3, <1>b, <2>1, <2>2 DEF FirstEnd
  <2>4. p[1] + 1 + w \in Nat /\ p[1] + 1 + w > p[1]
    BY <1>1, <2>2
  <2>5. QED
    BY <1>2, <2>1, <2>3, <2>4
<1>4. CASE tag \in STRINGS
  <2>1. tag \notin DOMAIN FS /\ tag # BIT_STRING /\ tag \notin {ARRAY, STRUCTURE} /\ tag # -1
    BY <1>4, <1>c DEF STRINGS, BIT_STRING, ARRAY, STRUCTURE
  <2>2. \A h : FirstEnd(b, p, h) = IF size = -1 THEN NAN ELSE p[1] + 1 + 1 + size
    BY <1>2, <1>4, <1>b, <2>1 DEF FirstEnd
  <2>3. size # -1 => p[1] + 1 + 1 + size \in Nat /\ p[1] + 1 + 1 + size > p[1]
    BY <1>1
  <2>4. QED
    BY <1>2, <2>1, <2>2, <2>3
<1>5. CASE tag = BIT_STRING
  <2>1. tag \notin DOMAIN FS /\ tag \notin STRINGS /\ tag \notin {ARRAY, STRUCTURE} /\ tag # -1
    BY <1>5, <1>c DEF STRINGS, BIT_STRING, ARRAY, STRUCTURE
  <2>2. \A h : FirstEnd(b, p, h) = IF size = -1 THEN NAN ELSE p[1] + 1 + 1 + CeilDiv8(size)
    BY <1>2, <1>5, <1>b, <2>1 DEF FirstEnd
  <2>3. size # -1 => CeilDiv8(size) \in Nat
    <3>1. size # -1 => size + 7 \in Nat
      OBVIOUS
    <3>2. \A n \in Nat : n \div 8 \in Nat
      OBVIOUS
    <3>3. QED
      BY <3>1, <3>2 DEF CeilDiv8
  <2>4. size # -1 => p[1] + 1 + 1 + CeilDiv8(size) \in Nat /\ p[1] + 1 + 1 + CeilDiv8(size) > p[1]
    <3> HIDE DEF CeilDiv8
    <3>1. QED
      BY <1>1, <2>3
  <2>5. QED
    BY <1>2, <2>1, <2>2, <2>4
<1>6. CASE tag \in {ARRAY, STRUCTURE}
  <2>1. tag \notin DOMAIN FS /\ tag \notin STRINGS /\ tag # BIT_STRING /\ tag # -1
    BY <1>6, <1>c DEF STRINGS, BIT_STRING, ARRAY, STRUCTURE
  <2>2. \A h : FirstEnd(b, p, h) = h[<<(p[1] + 1) + 1, IF size = -1 THEN 0 ELSE size>>]
    BY <1>2, <1>6, <1>b, <2>1 DEF FirstEnd
  <2>3. \A h : FirstEnd(b, p, h) = h[Inner(b, p)]
    BY <1>2, <1>a, <2>2 DEF Inner
  <2>4. QED
    BY <1>2, <2>1, <2>3
<1>7. CASE tag \notin DOMAIN FS /\ tag \notin STRINGS /\ tag # BIT_STRING
           /\ tag \notin {ARRAY, STRUCTURE}
  <2>1. \A h : FirstEnd(b, p, h) = THROWS
    BY <1>2, <1>b, <1>7 DEF FirstEnd
  <2>2. QED
    BY <2>1
<1>8. QED
  BY <1>3, <1>4, <1>5, <1>6, <1>7

\* Further on, within the buffer, there is less left.
LEMMA BytesLeftIs ==
  ASSUME NEW b \in Bytes, NEW o \in Nat, NEW e \in Nat
  PROVE  /\ BytesLeft(b, o) \in Nat
         /\ o < Len(b) /\ e > o => BytesLeft(b, e) < BytesLeft(b, o)
<1>1. Len(b) \in Nat
  BY DEF Bytes
<1>2. QED
  BY <1>1 DEF BytesLeft

\* A place, taken apart.
LEMMA PlaceIs ==
  ASSUME NEW e \in Nat, NEW m \in Nat
  PROVE  <<e, m>> \in Places /\ <<e, m>>[1] = e /\ <<e, m>>[2] = m
  BY DEF Places

\* Values never end before they begin, whatever the bytes.
LEMMA EndFromIs ==
  ASSUME NEW b \in Bytes, NEW p \in Places, NEW f,
         \A q \in Places : BytesLeft(b, q[1]) < BytesLeft(b, p[1]) => f[q] \in MayEnd(q)
  PROVE  EndFrom(b, p, f) \in MayEnd(p)
<1>1. PICK o \in Nat, n \in Nat : p[1] = o /\ p[2] = n
  BY InnerIs
<1>2. MayEnd(p) = {THROWS, NAN} \cup {e \in Nat : e >= o /\ (n # 0 => e > o)}
  BY <1>1 DEF MayEnd
<1>3. CASE n = 0
  BY <1>1, <1>2, <1>3 DEF EndFrom
<1>4. CASE n # 0
  <2>1. \/ FirstEnd(b, p, f) \in {THROWS, NAN}
        \/ o < Len(b) /\ FirstEnd(b, p, f) \in Nat /\ FirstEnd(b, p, f) > o
    <3>1. CASE o < Len(b) /\ FirstEnd(b, p, f) = f[Inner(b, p)]
      <4>1. PICK q \in Places : q = Inner(b, p) /\ q[1] = o + 2 /\ q[1] \in Nat
        BY <1>1, InnerIs
      <4>2. BytesLeft(b, q[1]) < BytesLeft(b, p[1])
        BY <1>1, <3>1, <4>1, BytesLeftIs
      <4>3. f[q] \in MayEnd(q)
        BY <4>2
      <4>4. f[q] \in {THROWS, NAN} \/ (f[q] \in Nat /\ f[q] > o)
        BY <4>1, <4>3 DEF MayEnd
      <4>5. QED
        BY <3>1, <4>1, <4>4
    <3>2. QED
      BY <1>1, <3>1, FirstEndIs
  <2>2. PICK e : e = FirstEnd(b, p, f)
    OBVIOUS
  <2>3. CASE n = 1
    BY <1>1, <1>2, <2>1, <2>3 DEF EndFrom
  <2>4. CASE n # 1 /\ e \in {THROWS, NAN}
    BY <1>1, <1>2, <1>4, <2>2, <2>4 DEF EndFrom
  <2>5. CASE n # 1 /\ e \notin {THROWS, NAN}
    <3>1. e \in Nat /\ e > o /\ o < Len(b) /\ n - 1 \in Nat
      BY <1>4, <2>1, <2>2, <2>5
    <3>0. <<e, n - 1>> \in Places /\ <<e, n - 1>>[1] = e
      BY <3>1, PlaceIs
    <3>2. PICK q \in Places : q = <<e, n - 1>> /\ q[1] = e
      BY <3>0
    <3>3. EndFrom(b, p, f) = f[q]
      BY <1>1, <1>4, <2>2, <2>5, <3>2 DEF EndFrom
    <3>4. BytesLeft(b, q[1]) < BytesLeft(b, p[1])
      BY <1>1, <3>1, <3>2, BytesLeftIs
    <3>5. f[q] \in MayEnd(q)
      BY <3>4
    <3>6. f[q] \in {THROWS, NAN} \/ (f[q] \in Nat /\ f[q] > o)
      BY <3>1, <3>2, <3>5 DEF MayEnd
    <3>7. QED
      BY <1>2, <3>3, <3>6
  <2>6. QED
    BY <2>3, <2>4, <2>5
<1>5. QED
  BY <1>3, <1>4

\* An end depends only on the ends further on.
LEMMA EndFromLocal ==
  ASSUME NEW b \in Bytes, NEW p \in Places, NEW f, NEW g,
         \A q \in Places : BytesLeft(b, q[1]) < BytesLeft(b, p[1]) => f[q] = g[q],
         \A q \in Places : BytesLeft(b, q[1]) < BytesLeft(b, p[1]) => f[q] \in MayEnd(q)
  PROVE  EndFrom(b, p, f) = EndFrom(b, p, g)
<1>1. PICK o \in Nat, n \in Nat : p[1] = o /\ p[2] = n
  BY InnerIs
<1>2. PICK inner \in Places : inner = Inner(b, p) /\ inner[1] = o + 2 /\ inner[1] \in Nat
  BY <1>1, InnerIs
<1>3. o < Len(b) => BytesLeft(b, inner[1]) < BytesLeft(b, p[1])
  BY <1>1, <1>2, BytesLeftIs
<1>4. o < Len(b) => f[inner] = g[inner] /\ f[inner] \in MayEnd(inner)
  BY <1>3
<1>5. FirstEnd(b, p, f) = FirstEnd(b, p, g)
  <2>1. \/ FirstEnd(b, p, f) = FirstEnd(b, p, g)
        \/ /\ o < Len(b)
           /\ FirstEnd(b, p, f) = f[inner] /\ FirstEnd(b, p, g) = g[inner]
    <3>1. \/ FirstEnd(b, p, f) = FirstEnd(b, p, g)
          \/ /\ p[1] < Len(b)
             /\ FirstEnd(b, p, f) = f[Inner(b, p)] /\ FirstEnd(b, p, g) = g[Inner(b, p)]
      BY FirstEndIs
    <3>2. QED
      BY <1>1, <1>2, <3>1
  <2>2. QED
    BY <1>4, <2>1
<1>6. PICK e : e = FirstEnd(b, p, f)
  OBVIOUS
<1>7. CASE n \in {0, 1} \/ e \in {THROWS, NAN}
  BY <1>1, <1>5, <1>6, <1>7 DEF EndFrom
<1>8. CASE n \notin {0, 1} /\ e \notin {THROWS, NAN}
  <2>1. o < Len(b) /\ e \in Nat /\ e > o
    <3>1. o < Len(b) => f[inner] \in {THROWS, NAN} \/ (f[inner] \in Nat /\ f[inner] > o)
      BY <1>2, <1>4 DEF MayEnd
    <3>2. QED
      BY <1>1, <1>2, <1>6, <1>8, <3>1, FirstEndIs
  <2>2. n - 1 \in Nat
    BY <1>8
  <2>3. PICK q \in Places : q = <<e, n - 1>> /\ q[1] = e
    BY <2>1, <2>2, PlaceIs
  <2>4. f[q] = g[q]
    <3>1. BytesLeft(b, q[1]) < BytesLeft(b, p[1])
      BY <1>1, <2>1, <2>3, BytesLeftIs
    <3>2. QED
      BY <3>1
  <2>5. EndFrom(b, p, f) = f[q] /\ EndFrom(b, p, g) = g[q]
    BY <1>1, <1>5, <1>6, <1>8, <2>3 DEF EndFrom
  <2>6. QED
    BY <2>4, <2>5
<1>9. QED
  BY <1>7, <1>8

\* Reading values ends on every buffer.
LEMMA EndsExist ==
  ASSUME NEW b \in Bytes
  PROVE  \E g : g = [p \in Nat \X Nat |-> EndFrom(b, p, g)]
<1> DEFINE R == {THROWS, NAN} \cup Nat
           T == [p \in Places |-> MayEnd(p)]
           rank == [p \in Places |-> BytesLeft(b, p[1])]
           G == {g \in [Places -> R] : \A p \in Places : g[p] \in T[p]}
           step == [p \in Places |-> [g \in G |-> EndFrom(b, p, g)]]
<1>1. /\ T \in [Places -> SUBSET R] /\ \A p \in Places : T[p] = MayEnd(p)
      /\ \A p \in Places : MayEnd(p) # {} /\ MayEnd(p) \subseteq R
  BY DEF MayEnd
<1>2. rank \in [Places -> Nat] /\ \A p \in Places : rank[p] = BytesLeft(b, p[1])
  BY InnerIs, BytesLeftIs
<1>3. \A g \in G : \A p \in Places : g[p] \in MayEnd(p)
  BY <1>1
<1>4. \A p \in Places : \A g \in G : EndFrom(b, p, g) \in MayEnd(p)
  BY <1>3, EndFromIs
<1>5. \A p \in Places : \A g, h \in G :
        (\A q \in Places : rank[q] < rank[p] => g[q] = h[q]) => EndFrom(b, p, g) = EndFrom(b, p, h)
  <2> HIDE DEF rank, G
  <2>1. ASSUME NEW p \in Places, NEW g \in G, NEW h \in G,
               \A q \in Places : rank[q] < rank[p] => g[q] = h[q]
        PROVE  EndFrom(b, p, g) = EndFrom(b, p, h)
    <3>1. \A q \in Places : BytesLeft(b, q[1]) < BytesLeft(b, p[1]) => g[q] = h[q]
      BY <1>2, <2>1
    <3>2. QED
      BY <1>3, <3>1, EndFromLocal
  <2>2. QED
    BY <2>1
<1>6. /\ step \in [Places -> [G -> R]]
      /\ \A p \in Places : \A g \in G : step[p][g] = EndFrom(b, p, g)
  <2>1. \A p \in Places : \A g \in G : EndFrom(b, p, g) \in R
    BY <1>1, <1>4
  <2> HIDE DEF G, R
  <2>2. QED
    BY <2>1
<1>7. PICK st, gs, rk, t, d, rs : st = step /\ gs = G /\ rk = rank /\ t = T /\ d = Places /\ rs = R
  OBVIOUS
<1>8. gs = {g \in [d -> rs] : \A x \in d : g[x] \in t[x]}
  BY <1>7
<1> HIDE DEF step, G, rank, T, R
<1>9. \E g \in gs : \A x \in d : g[x] = st[x][g]
  <2>1. t \in [d -> SUBSET rs] /\ rk \in [d -> Nat] /\ st \in [d -> [gs -> rs]]
        /\ (\A x \in d : t[x] # {})
    BY <1>1, <1>2, <1>6, <1>7
  <2>2. \A x \in d : \A g \in gs : st[x][g] \in t[x]
    BY <1>1, <1>4, <1>6, <1>7
  <2>3. \A x \in d : \A g, h \in gs :
          (\A y \in d : rk[y] < rk[x] => g[y] = h[y]) => st[x][g] = st[x][h]
    BY <1>5, <1>6, <1>7
  <2>4. WellFounded(d, rs, t, gs, rk, st)
    BY <1>8, <2>1, <2>2, <2>3 DEF WellFounded
  <2>5. QED
    BY <2>4, RecursionByRank
<1>10. PICK g \in gs : \A p \in Places : g[p] = EndFrom(b, p, g)
  BY <1>6, <1>7, <1>9
<1>11. g \in [Places -> R]
  BY <1>7, <1>8
<1>12. g = [p \in Places |-> EndFrom(b, p, g)]
  BY <1>10, <1>11
<1>13. QED
  BY <1>12 DEF Places

\* Values end where they begin or further on, throw, or end nowhere.
LEMMA ValuesEndIs ==
  ASSUME NEW b \in Bytes, NEW o \in Nat, NEW c \in Nat
  PROVE  ValuesEnd(b, o, c) \in MayEnd(<<o, c>>)
<1> DEFINE of(f) == [p \in Nat \X Nat |-> EndFrom(b, p, f)]
<1>1. PICK g : g = CHOOSE f : f = of(f)
  OBVIOUS
<1>2. ValuesEnd(b, o, c) = g[<<o, c>>]
  BY <1>1 DEF ValuesEnd, EndFrom, FirstEnd
<1>3. \E f : f = of(f)
  BY EndsExist
<1> HIDE DEF of
<1>4. g = of(g)
  BY <1>1, <1>3
<1>5. \A p \in Places : g[p] = EndFrom(b, p, g)
  BY <1>4 DEF of, Places
<1> DEFINE P == {p \in Places : g[p] \in MayEnd(p)}
           rank == [p \in Places |-> BytesLeft(b, p[1])]
<1>6. ASSUME NEW p \in Places,
             \A q \in Places : BytesLeft(b, q[1]) < BytesLeft(b, p[1]) => q \in P
      PROVE  p \in P
  <2>1. \A q \in Places : BytesLeft(b, q[1]) < BytesLeft(b, p[1]) => g[q] \in MayEnd(q)
    BY <1>6
  <2>2. EndFrom(b, p, g) \in MayEnd(p)
    BY <2>1, EndFromIs
  <2>3. QED
    BY <1>5, <2>2
<1>7. rank \in [Places -> Nat] /\ \A p \in Places : rank[p] = BytesLeft(b, p[1])
  BY InnerIs, BytesLeftIs
<1>8. PICK D, s, rk : D = Places /\ s = P /\ rk = rank
  OBVIOUS
<1> HIDE DEF P, rank
<1>9. rk \in [D -> Nat] /\ \A x \in D : (\A y \in D : rk[y] < rk[x] => y \in s) => x \in s
  BY <1>6, <1>7, <1>8
<1>10. \A x \in D : x \in s
  BY <1>9, RankInduction
<1>11. <<o, c>> \in Places
  BY DEF Places
<1>12. QED
  BY <1>2, <1>8, <1>10, <1>11 DEF P

\* No length, a length that is not a number, or where the value behind pos ends.
LEMMA AfterValueIs ==
  ASSUME NEW b \in Bytes, NEW o \in Nat
  PROVE  AfterValue(b, o) \in {UNKNOWN_LENGTH, NAN} \cup {e \in Nat : e > o}
<1>1. PICK e : e = ValuesEnd(b, o, 1) /\ e \in {THROWS, NAN} \cup {x \in Nat : x > o}
  <2>1. ValuesEnd(b, o, 1) \in MayEnd(<<o, 1>>)
    BY ValuesEndIs
  <2>2. QED
    BY <2>1 DEF MayEnd
<1>2. QED
  BY <1>1 DEF AfterValue, Past, UNKNOWN_LENGTH, THROWS

------------------------------------------------------------------------------
(* Trailing values.                                                        *)

\* Trailing values end where they begin, further on, or nowhere.
MayTrail(o) == {NAN} \cup {e \in Nat : e >= o}

\* One step of the walk over trailing values.
Trail(b, pos, f) ==
    LET next == AfterValue(b, pos)
    IN  IF At(b, pos) \notin 1 .. 27 \/ next = UNKNOWN_LENGTH THEN pos
        ELSE IF next = NAN THEN NAN ELSE f[next]

\* One step: it ends the walk, or goes further within the buffer.
LEMMA TrailIs ==
  ASSUME NEW b \in Bytes, NEW o \in Nat
  PROVE  \/ \A f : Trail(b, o, f) = o
         \/ \A f : Trail(b, o, f) = NAN
         \/ \E e \in Nat : e > o /\ o < Len(b) /\ \A f : Trail(b, o, f) = f[e]
<1>1. PICK v, e : /\ v = At(b, o) /\ e = AfterValue(b, o)
                  /\ v \in -1 .. 255 /\ (v = -1 <=> ~ (o < Len(b)))
                  /\ e \in {UNKNOWN_LENGTH, NAN} \/ (e \in Nat /\ e > o)
  BY AtIs, AfterValueIs
<1>2. CASE v \notin 1 .. 27 \/ e = UNKNOWN_LENGTH
  BY <1>1, <1>2 DEF Trail
<1>3. CASE v \in 1 .. 27 /\ e = NAN
  BY <1>1, <1>3 DEF Trail, NAN, UNKNOWN_LENGTH
<1>4. CASE v \in 1 .. 27 /\ e \notin {UNKNOWN_LENGTH, NAN}
  <2>0. e \in Nat /\ e > o
    BY <1>1, <1>4
  <2>1. e \in Nat /\ e > o /\ v # -1
    BY <1>4, <2>0
  <2>2. \A f : Trail(b, o, f) = f[e]
    BY <1>1, <1>4 DEF Trail
  <2>3. QED
    BY <1>1, <2>1, <2>2
<1>5. QED
  BY <1>2, <1>3, <1>4

\* A step ends no earlier than it begins.
LEMMA TrailTyped ==
  ASSUME NEW b \in Bytes, NEW o \in Nat, NEW f,
         \A e \in Nat : BytesLeft(b, e) < BytesLeft(b, o) => f[e] \in MayTrail(e)
  PROVE  Trail(b, o, f) \in MayTrail(o)
<1>1. CASE Trail(b, o, f) \in {o, NAN}
  BY <1>1 DEF MayTrail
<1>2. ASSUME NEW e \in Nat, e > o, o < Len(b), Trail(b, o, f) = f[e]
      PROVE  Trail(b, o, f) \in MayTrail(o)
  <2>1. f[e] \in MayTrail(e)
    BY <1>2, BytesLeftIs
  <2>2. \A x \in Nat : x >= e => x >= o
    BY <1>2
  <2>3. QED
    BY <1>2, <2>1, <2>2 DEF MayTrail
<1>3. QED
  BY <1>1, <1>2, TrailIs

\* A step looks only at what follows.
LEMMA TrailLocal ==
  ASSUME NEW b \in Bytes, NEW o \in Nat, NEW f, NEW g,
         \A e \in Nat : BytesLeft(b, e) < BytesLeft(b, o) => f[e] = g[e]
  PROVE  Trail(b, o, f) = Trail(b, o, g)
<1>1. \A e \in Nat : e > o /\ o < Len(b) => f[e] = g[e]
  BY BytesLeftIs
<1>2. QED
  BY <1>1, TrailIs

\* The walk over the trailing values ends on every buffer.
LEMMA TrailsExist ==
  ASSUME NEW b \in Bytes
  PROVE  \E g : g = [o \in Nat |-> Trail(b, o, g)]
<1> DEFINE R == {NAN} \cup Nat
           T == [o \in Nat |-> MayTrail(o)]
           rank == [o \in Nat |-> BytesLeft(b, o)]
           G == {g \in [Nat -> R] : \A o \in Nat : g[o] \in T[o]}
           step == [o \in Nat |-> [g \in G |-> Trail(b, o, g)]]
<1>1. /\ T \in [Nat -> SUBSET R] /\ \A o \in Nat : T[o] = MayTrail(o)
      /\ \A o \in Nat : MayTrail(o) # {} /\ MayTrail(o) \subseteq R
  BY DEF MayTrail
<1>2. rank \in [Nat -> Nat] /\ \A o \in Nat : rank[o] = BytesLeft(b, o)
  BY BytesLeftIs
<1>3. \A g \in G : \A o \in Nat : g[o] \in MayTrail(o)
  BY <1>1
<1>4. \A o \in Nat : \A g \in G : Trail(b, o, g) \in MayTrail(o)
  BY <1>3, TrailTyped
<1>5. \A o \in Nat : \A g, h \in G :
        (\A e \in Nat : rank[e] < rank[o] => g[e] = h[e]) => Trail(b, o, g) = Trail(b, o, h)
  <2> HIDE DEF rank, G
  <2>1. QED
    BY <1>2, TrailLocal
<1>6. /\ step \in [Nat -> [G -> R]]
      /\ \A o \in Nat : \A g \in G : step[o][g] = Trail(b, o, g)
  <2>1. \A o \in Nat : \A g \in G : Trail(b, o, g) \in R
    BY <1>1, <1>4
  <2> HIDE DEF G, R
  <2>2. QED
    BY <2>1
<1>7. PICK st, gs, rk, t, d, rs : st = step /\ gs = G /\ rk = rank /\ t = T /\ d = Nat /\ rs = R
  OBVIOUS
<1>8. gs = {g \in [d -> rs] : \A x \in d : g[x] \in t[x]}
  BY <1>7
<1> HIDE DEF step, G, rank, T, R
<1>9. \E g \in gs : \A x \in d : g[x] = st[x][g]
  <2>1. t \in [d -> SUBSET rs] /\ rk \in [d -> Nat] /\ st \in [d -> [gs -> rs]]
        /\ (\A x \in d : t[x] # {})
    BY <1>1, <1>2, <1>6, <1>7
  <2>2. \A x \in d : \A g \in gs : st[x][g] \in t[x]
    BY <1>1, <1>4, <1>6, <1>7
  <2>3. \A x \in d : \A g, h \in gs :
          (\A y \in d : rk[y] < rk[x] => g[y] = h[y]) => st[x][g] = st[x][h]
    BY <1>5, <1>6, <1>7
  <2>4. WellFounded(d, rs, t, gs, rk, st)
    BY <1>8, <2>1, <2>2, <2>3 DEF WellFounded
  <2>5. QED
    BY <2>4, RecursionByRank
<1>10. PICK g \in gs : \A o \in Nat : g[o] = Trail(b, o, g)
  BY <1>6, <1>7, <1>9
<1>11. g \in [Nat -> R]
  BY <1>7, <1>8
<1>12. g = [o \in Nat |-> Trail(b, o, g)]
  BY <1>10, <1>11
<1>13. QED
  BY <1>12

\* Trailing values end no earlier than they begin.
LEMMA TrailingValuesIs ==
  ASSUME NEW b \in Bytes, NEW o \in Nat
  PROVE  TrailingValues(b, o) \in MayTrail(o)
<1> DEFINE of(f) == [pos \in Nat |-> Trail(b, pos, f)]
<1>1. PICK g : g = CHOOSE f : f = of(f)
  OBVIOUS
<1>2. TrailingValues(b, o) = g[o]
  BY <1>1 DEF TrailingValues, Trail
<1>3. \E f : f = of(f)
  BY TrailsExist
<1> HIDE DEF of
<1>4. g = of(g)
  BY <1>1, <1>3
<1>5. \A pos \in Nat : g[pos] = Trail(b, pos, g)
  BY <1>4 DEF of
<1> DEFINE P == {pos \in Nat : g[pos] \in MayTrail(pos)}
           rank == [pos \in Nat |-> BytesLeft(b, pos)]
<1>6. ASSUME NEW pos \in Nat, \A e \in Nat : BytesLeft(b, e) < BytesLeft(b, pos) => e \in P
      PROVE  pos \in P
  <2>1. \A e \in Nat : BytesLeft(b, e) < BytesLeft(b, pos) => g[e] \in MayTrail(e)
    BY <1>6
  <2>2. Trail(b, pos, g) \in MayTrail(pos)
    BY <2>1, TrailTyped
  <2>3. QED
    BY <1>5, <2>2
<1>7. rank \in [Nat -> Nat] /\ \A pos \in Nat : rank[pos] = BytesLeft(b, pos)
  BY BytesLeftIs
<1>8. PICK D, s, rk : D = Nat /\ s = P /\ rk = rank
  OBVIOUS
<1> HIDE DEF P, rank
<1>9. rk \in [D -> Nat] /\ \A x \in D : (\A y \in D : rk[y] < rk[x] => y \in s) => x \in s
  BY <1>6, <1>7, <1>8
<1>10. \A x \in D : x \in s
  BY <1>9, RankInduction
<1>11. QED
  BY <1>2, <1>8, <1>10 DEF P

------------------------------------------------------------------------------
(* Lengths of APDUs.                                                       *)

\* A length field of several bytes, read up to the i-th.
UpTo(b, i, f) == IF i = 0 THEN 0 ELSE f[i - 1] * 256 + At(b, 1 + i)

\* One more byte of a length field.
LEMMA UpToTyped ==
  ASSUME NEW b \in Bytes, NEW i \in Nat, 1 + i < Len(b), NEW f, i # 0 => f[i - 1] \in Nat
  PROVE  UpTo(b, i, f) \in Nat
<1>1. PICK v \in 0 .. 255 : v = At(b, 1 + i)
  <2>1. 1 + i \in Nat
    OBVIOUS
  <2>2. QED
    BY <2>1, ByteAt
<1>2. CASE i = 0
  BY <1>2 DEF UpTo
<1>3. CASE i # 0
  <2>1. PICK u \in Nat : u = f[i - 1]
    BY <1>3
  <2>2. u * 256 + v \in Nat
    OBVIOUS
  <2>3. QED
    BY <1>1, <1>3, <2>1, <2>2 DEF UpTo
<1>4. QED
  BY <1>2, <1>3

\* The recursion over a length field ends.
LEMMA UpTosExist ==
  ASSUME NEW b \in Bytes, NEW n \in Nat, 1 + n < Len(b)
  PROVE  \E g : g = [i \in 0 .. n |-> UpTo(b, i, g)]
<1> DEFINE D == 0 .. n
           T == [i \in D |-> Nat]
           rank == [i \in D |-> i]
           G == {g \in [D -> Nat] : \A i \in D : g[i] \in T[i]}
           step == [i \in D |-> [g \in G |-> UpTo(b, i, g)]]
<1>0. Len(b) \in Nat
  BY DEF Bytes
<1>1. T \in [D -> SUBSET Nat] /\ (\A i \in D : T[i] = Nat) /\ Nat # {}
  OBVIOUS
<1>2. rank \in [D -> Nat] /\ \A i \in D : rank[i] = i
  OBVIOUS
<1>3. \A i \in D : i \in Nat /\ 1 + i < Len(b) /\ (i # 0 => i - 1 \in D /\ i - 1 < i)
  BY <1>0
<1>4. \A i \in D : \A g \in G : UpTo(b, i, g) \in Nat
  <2>1. ASSUME NEW i \in D, NEW g \in G PROVE UpTo(b, i, g) \in Nat
    <3>1. i # 0 => g[i - 1] \in Nat
      BY <1>1, <1>3
    <3>2. QED
      BY <1>3, <3>1, UpToTyped
  <2>2. QED
    BY <2>1
<1>5. \A i \in D : \A g, h \in G :
        (\A j \in D : rank[j] < rank[i] => g[j] = h[j]) => UpTo(b, i, g) = UpTo(b, i, h)
  <2>1. ASSUME NEW i \in D, NEW g \in G, NEW h \in G,
               \A j \in D : rank[j] < rank[i] => g[j] = h[j]
        PROVE  UpTo(b, i, g) = UpTo(b, i, h)
    <3>1. i # 0 => rank[i - 1] < rank[i]
      BY <1>2, <1>3
    <3>2. i # 0 => g[i - 1] = h[i - 1]
      BY <1>3, <2>1, <3>1
    <3>3. QED
      BY <3>2 DEF UpTo
  <2>2. QED
    BY <2>1
<1>6. step \in [D -> [G -> Nat]] /\ \A i \in D : \A g \in G : step[i][g] = UpTo(b, i, g)
  <2> HIDE DEF G, D
  <2>1. QED
    BY <1>4
<1>7. PICK st, gs, rk, t, d, rs : st = step /\ gs = G /\ rk = rank /\ t = T /\ d = D /\ rs = Nat
  OBVIOUS
<1>8. gs = {g \in [d -> rs] : \A x \in d : g[x] \in t[x]}
  BY <1>7
<1> HIDE DEF step, G, rank, T, D
<1>9. \E g \in gs : \A x \in d : g[x] = st[x][g]
  <2>1. t \in [d -> SUBSET rs] /\ rk \in [d -> Nat] /\ st \in [d -> [gs -> rs]]
        /\ (\A x \in d : t[x] # {})
    BY <1>1, <1>2, <1>6, <1>7
  <2>2. \A x \in d : \A g \in gs : st[x][g] \in t[x]
    BY <1>1, <1>4, <1>6, <1>7
  <2>3. \A x \in d : \A g, h \in gs :
          (\A y \in d : rk[y] < rk[x] => g[y] = h[y]) => st[x][g] = st[x][h]
    BY <1>5, <1>6, <1>7
  <2>4. WellFounded(d, rs, t, gs, rk, st)
    BY <1>8, <2>1, <2>2, <2>3 DEF WellFounded
  <2>5. QED
    BY <2>4, RecursionByRank
<1>10. PICK g \in gs : \A i \in D : g[i] = UpTo(b, i, g)
  BY <1>6, <1>7, <1>9
<1>11. g \in [D -> Nat]
  BY <1>7, <1>8
<1>12. g = [i \in D |-> UpTo(b, i, g)]
  BY <1>10, <1>11
<1>13. QED
  BY <1>12 DEF D

\* What a length computed from the buffer may be.
Lengths == {UNKNOWN_LENGTH, NAN} \cup (Nat \ {0})

\* A length that the buffer may not reach.
LEMMA IfBufferedIs ==
  ASSUME NEW b \in Bytes, NEW n \in Nat \ {0} PROVE IfBuffered(b, n) \in Lengths
  BY DEF IfBuffered, Lengths

\* A length field holds a natural number.
LEMMA ContentLengthIs ==
  ASSUME NEW b \in Bytes, NEW n \in Nat, 1 + n < Len(b), NEW g,
         g = CHOOSE f : f = [i \in 0 .. n |-> UpTo(b, i, f)]
  PROVE  g[n] \in Nat
<1> DEFINE of(f) == [i \in 0 .. n |-> UpTo(b, i, f)]
<1>1. \E f : f = of(f)
  BY UpTosExist
<1>2. g = CHOOSE f : f = of(f)
  OBVIOUS
<1> HIDE DEF of
<1>3. g = of(g)
  BY <1>1, <1>2
<1>4. \A i \in 0 .. n : g[i] = UpTo(b, i, g)
  BY <1>3 DEF of
<1> DEFINE P == {i \in 0 .. n : g[i] \in Nat}
           rank == [i \in 0 .. n |-> i]
<1>5. ASSUME NEW i \in 0 .. n, \A j \in 0 .. n : j < i => j \in P PROVE i \in P
  <2>0. Len(b) \in Nat
    BY DEF Bytes
  <2>1. i \in Nat /\ 1 + i < Len(b) /\ (i # 0 => i - 1 \in 0 .. n /\ i - 1 < i)
    BY <2>0
  <2>2. i # 0 => g[i - 1] \in Nat
    BY <1>5, <2>1
  <2>3. UpTo(b, i, g) \in Nat
    BY <2>1, <2>2, UpToTyped
  <2>4. QED
    BY <1>4, <2>3
<1>6. rank \in [0 .. n -> Nat] /\ \A i \in 0 .. n : rank[i] = i
  OBVIOUS
<1>7. PICK D, s, rk : D = 0 .. n /\ s = P /\ rk = rank
  OBVIOUS
<1> HIDE DEF P, rank
<1>8. rk \in [D -> Nat] /\ \A x \in D : (\A y \in D : rk[y] < rk[x] => y \in s) => x \in s
  BY <1>5, <1>6, <1>7
<1>9. \A x \in D : x \in s
  BY <1>8, RankInduction
<1>10. n \in 0 .. n
  OBVIOUS
<1>11. QED
  BY <1>7, <1>9, <1>10 DEF P

\* The length of a TLV is unknown or positive.
LEMMA BerTlvLengthIs ==
  ASSUME NEW b \in Bytes PROVE BerTlvLength(b) \in Lengths
<1>0. Len(b) \in Nat
  BY DEF Bytes
<1>1. CASE Len(b) < 2
  BY <1>1 DEF BerTlvLength, Lengths
<1>2. CASE ~ (Len(b) < 2)
  <2>1. PICK size \in 0 .. 255 : size = At(b, 1)
    <3>1. 1 < Len(b)
      BY <1>0, <1>2
    <3>2. QED
      BY <3>1, ByteAt
  <2>2. CASE size < 128
    <3>1. 2 + size \in Nat \ {0}
      OBVIOUS
    <3>2. QED
      BY <1>2, <2>1, <2>2, <3>1, IfBufferedIs DEF BerTlvLength
  <2>3. CASE ~ (size < 128)
    <3>1. PICK n \in Nat : n = size % 128
      OBVIOUS
    <3>2. CASE n \notin 1 .. 4 \/ Len(b) < 2 + n
      BY <1>2, <2>1, <2>3, <3>1, <3>2 DEF BerTlvLength, Lengths
    <3>3. CASE n \in 1 .. 4 /\ ~ (Len(b) < 2 + n)
      <4>1. PICK g : g = CHOOSE f : f = [i \in 0 .. n |-> UpTo(b, i, f)]
        OBVIOUS
      <4>2. BerTlvLength(b) = IfBuffered(b, 2 + n + g[n])
        BY <1>2, <2>1, <2>3, <3>1, <3>3, <4>1 DEF BerTlvLength, UpTo
      <4>3. 1 + n < Len(b)
        BY <1>0, <3>3
      <4>4. g[n] \in Nat
        BY <4>1, <4>3, ContentLengthIs
      <4>5. 2 + n + g[n] \in Nat \ {0}
        BY <4>4
      <4>6. QED
        BY <4>2, <4>5, IfBufferedIs
    <3>4. QED
      BY <3>2, <3>3
  <2>4. QED
    BY <2>2, <2>3
<1>3. QED
  BY <1>1, <1>2

\* A value ends behind the first byte, or its length is not known.
LEMMA AfterValueLength ==
  ASSUME NEW b \in Bytes, NEW o \in Nat
  PROVE  AfterValue(b, o) \in Lengths
<1>1. \A e \in Nat : e > o => e \in Nat \ {0}
  OBVIOUS
<1>2. QED
  BY <1>1, AfterValueIs DEF Lengths

\* So does the body of an event.
LEMMA EventBodyEndIs ==
  ASSUME NEW b \in Bytes, NEW o \in Nat PROVE EventBodyEnd(b, o) \in Lengths
<1>1. PICK v \in Nat : v = o + 9 + (IF At(b, o + 2) = 6 THEN 1 ELSE 0)
  OBVIOUS
<1>2. CASE v >= Len(b)
  BY <1>1, <1>2 DEF EventBodyEnd, Lengths
<1>3. CASE ~ (v >= Len(b))
  <2>1. PICK e \in Lengths : e = AfterValue(b, v)
    BY AfterValueLength
  <2>2. EventBodyEnd(b, o) = EventValuesEnd(b, e)
    BY <1>1, <1>3, <2>1 DEF EventBodyEnd
  <2>3. CASE e \in {UNKNOWN_LENGTH, NAN}
    BY <2>2, <2>3 DEF EventValuesEnd, Lengths
  <2>4. CASE e \notin {UNKNOWN_LENGTH, NAN}
    <3>1. e \in Nat /\ e # 0
      BY <2>4 DEF Lengths
    <3>2. EventValuesEnd(b, e) = TrailingValues(b, e)
      BY <2>4 DEF EventValuesEnd
    <3>3. TrailingValues(b, e) \in MayTrail(e)
      BY <3>1, TrailingValuesIs
    <3>4. \A x \in Nat : x >= e => x # 0
      BY <3>1
    <3>5. QED
      BY <2>2, <3>2, <3>3, <3>4 DEF MayTrail, Lengths
  <2>5. QED
    BY <2>3, <2>4
<1>4. QED
  BY <1>2, <1>3

\* Either reading of an event has a length, unknown or positive.
LEMMA EventNotificationLengthIs ==
  ASSUME NEW b \in Bytes PROVE EventNotificationLength(b) \in Lengths
<1>1. UNKNOWN_LENGTH \in Lengths
  BY DEF Lengths
<1>2. PICK u \in Lengths : u = EventBodyEnd(b, 1)
  BY EventBodyEndIs
<1>3. PICK w \in Lengths : w = IF LooksLikeCosemDateTime(b, 1) THEN EventBodyEnd(b, 13)
                                                               ELSE UNKNOWN_LENGTH
  BY <1>1, EventBodyEndIs
<1>4. BestReading(b, u, w) \in Lengths
  BY DEF BestReading
<1>5. QED
  BY <1>1, <1>2, <1>3, <1>4 DEF EventNotificationLength

\* The length of a data notification is unknown, not a number, or positive.
LEMMA DataNotificationLengthIs ==
  ASSUME NEW b \in Bytes PROVE DataNotificationLength(b) \in Lengths
<1>0. Len(b) \in Nat
  BY DEF Bytes
<1>1. UNKNOWN_LENGTH \in Lengths
  BY DEF Lengths
<1>2. CASE Len(b) < 7 \/ 6 + At(b, 5) >= Len(b)
  BY <1>1, <1>2 DEF DataNotificationLength
<1>3. CASE ~ (Len(b) < 7 \/ 6 + At(b, 5) >= Len(b))
  <2>1. 5 < Len(b)
    BY <1>0, <1>3
  <2>2. PICK v \in 0 .. 255 : v = At(b, 5)
    BY <2>1, ByteAt
  <2>3. 6 + v \in Nat
    OBVIOUS
  <2>4. DataNotificationLength(b) = AfterValue(b, 6 + v)
    BY <1>3, <2>2 DEF DataNotificationLength
  <2>5. QED
    BY <2>3, <2>4, AfterValueLength
<1>4. QED
  BY <1>2, <1>3

\* The length of a response is unknown, not a number, or positive.
LEMMA ResponseLengthIs ==
  ASSUME NEW b \in Bytes, At(b, 0) \in {\hC4, \hC5, \hC7} PROVE ResponseLength(b) \in Lengths
<1>1. UNKNOWN_LENGTH \in Lengths /\ 4 \in Lengths /\ 5 \in Lengths /\ IfBuffered(b, 5) \in Lengths
  BY IfBufferedIs DEF Lengths
<1>2. AfterValue(b, 4) \in Lengths /\ AfterValue(b, 5) \in Lengths
  BY AfterValueLength
<1>3. CASE Len(b) < 4 \/ At(b, 1) # 1
  BY <1>1, <1>3 DEF ResponseLength
<1>4. CASE ~ (Len(b) < 4 \/ At(b, 1) # 1)
  <2>1. PICK tag, result : tag = At(b, 0) /\ result = At(b, 3) /\ tag \in {\hC4, \hC5, \hC7}
    OBVIOUS
  <2>2. CASE tag = \hC4
    BY <1>1, <1>2, <1>4, <2>1, <2>2 DEF ResponseLength
  <2>3. CASE tag = \hC5
    BY <1>1, <1>2, <1>4, <2>1, <2>3 DEF ResponseLength
  <2>4. CASE tag = \hC7
    BY <1>1, <1>2, <1>4, <2>1, <2>4 DEF ResponseLength
  <2>5. QED
    BY <2>1, <2>2, <2>3, <2>4
<1>5. QED
  BY <1>3, <1>4

\* The length of an APDU is positive when it is known.
LEMMA RawDlmsLengthIs ==
  ASSUME NEW b \in Bytes PROVE RawDlmsLength(b) \in Lengths
<1>1. UNKNOWN_LENGTH \in Lengths /\ IfBuffered(b, 3) \in Lengths /\ IfBuffered(b, 13) \in Lengths
  BY IfBufferedIs DEF Lengths
<1>2. PICK tag : tag = At(b, 0)
  OBVIOUS
<1>3. CASE tag \in {\hC4, \hC5, \hC7}
  <2>1. RawDlmsLength(b) = ResponseLength(b)
    BY <1>2, <1>3 DEF RawDlmsLength
  <2>2. QED
    BY <1>2, <1>3, <2>1, ResponseLengthIs
<1>4. CASE tag \notin {\hC4, \hC5, \hC7}
  BY <1>1, <1>2, <1>4, BerTlvLengthIs, EventNotificationLengthIs, DataNotificationLengthIs
     DEF RawDlmsLength
<1>5. QED
  BY <1>3, <1>4

\* The length of a packet with a header, once it is there.
LEMMA IvyLengthIs ==
  ASSUME NEW b \in Bytes, HasSignature(b), ~ AwaitsIvy(b), Len(b) # 0
  PROVE  IvyLength(b) \in Lengths
<1>0. Len(b) \in Nat /\ 0 < Len(b)
  BY DEF Bytes
<1>1. PICK t : t = Taken(b, 4) /\ t = IVY_SIGNATURE /\ t \in Bytes /\ t[1] = b[1]
  <2>1. PICK n \in Nat : n = (IF 4 < Len(b) THEN 4 ELSE Len(b)) /\ 1 <= n /\ n <= Len(b)
    BY <1>0
  <2>2. SubSeq(b, 1, n) \in Bytes /\ SubSeq(b, 1, n)[1] = b[1]
    <3>1. 1 \in Nat \ {0} /\ n \in 0 .. Len(b) /\ 1 \in 1 .. n - 1 + 1 /\ 1 + 1 - 1 = 1
      BY <1>0, <2>1
    <3>2. QED
      BY <3>1, PartOfBuffer
  <2>3. QED
    BY <2>1, <2>2 DEF Taken, HasSignature
<1>2. At(b, 0) = 0
  <2>1. t[1] = 0
    BY <1>1 DEF IVY_SIGNATURE
  <2>2. At(b, 0) = b[0 + 1] /\ 0 + 1 = 1
    BY <1>0 DEF At
  <2>3. QED
    BY <1>1, <2>1, <2>2
<1>3. ~ (Len(b) < IVY_HEADER_LENGTH)
  BY <1>2 DEF AwaitsIvy
<1>4. 6 < Len(b) /\ 7 < Len(b) /\ 6 + 1 = 7
  BY <1>0, <1>3 DEF IVY_HEADER_LENGTH
<1>5. PICK u \in 0 .. 255, v \in 0 .. 255 : u = At(b, 6) /\ v = At(b, 7)
  BY <1>4, ByteAt
<1>6. PICK d \in Nat : d = DeclaredLength(b)
  <2>1. u * 256 + v \in Nat
    OBVIOUS
  <2>2. QED
    BY <1>4, <1>5, <2>1 DEF DeclaredLength, UInt16
<1>7. IVY_HEADER_LENGTH + d \in Nat \ {0}
  BY DEF IVY_HEADER_LENGTH
<1>8. QED
  BY <1>6, <1>7 DEF IvyLength, Lengths

\* Waiting keeps the buffer below the largest packet.
LEMMA WaitingIsBounded ==
  ASSUME NEW b \in Bytes,
         \/ b = <<>>
         \/ AwaitsIvy(b)
         \/ AwaitsRaw(b, RawDlmsLength(b))
  PROVE  Len(b) < IVY_HEADER_LENGTH + MAX_PAYLOAD_LENGTH
<1>0. Len(b) \in Nat /\ MAX_PAYLOAD_LENGTH \in Nat
  BY MaxPayloadAssumption DEF Bytes
<1>1. CASE b = <<>>
  BY <1>0, <1>1 DEF IVY_HEADER_LENGTH
<1>2. CASE AwaitsRaw(b, RawDlmsLength(b))
  BY <1>0, <1>2 DEF AwaitsRaw, IVY_HEADER_LENGTH
<1>3. CASE AwaitsIvy(b)
  <2>1. CASE Len(b) < 4 \/ Len(b) < IVY_HEADER_LENGTH
    BY <1>0, <2>1 DEF IVY_HEADER_LENGTH
  <2>2. CASE ~ (Len(b) < 4 \/ Len(b) < IVY_HEADER_LENGTH)
    <3>1. DeclaredLength(b) <= MAX_PAYLOAD_LENGTH
          /\ Len(b) < IVY_HEADER_LENGTH + DeclaredLength(b)
      BY <1>3, <2>2 DEF AwaitsIvy
    <3>2. 6 < Len(b) /\ 7 < Len(b) /\ 6 + 1 = 7
      BY <1>0, <2>2 DEF IVY_HEADER_LENGTH
    <3>3. PICK u \in 0 .. 255, v \in 0 .. 255 : u = At(b, 6) /\ v = At(b, 7)
      BY <3>2, ByteAt
    <3>4. PICK d \in Nat : d = DeclaredLength(b)
      <4>1. u * 256 + v \in Nat
        OBVIOUS
      <4>2. QED
        BY <3>2, <3>3, <4>1 DEF DeclaredLength, UInt16
    <3>5. QED
      BY <1>0, <3>1, <3>4 DEF IVY_HEADER_LENGTH
  <2>3. QED
    BY <2>1, <2>2
<1>4. QED
  BY <1>1, <1>2, <1>3

------------------------------------------------------------------------------
(* Packets.                                                                *)

\* A buffer without its first bytes is shorter, if there are any.
LEMMA DroppedIs ==
  ASSUME NEW b \in Bytes, NEW n \in Nat
  PROVE  /\ Dropped(b, n) \in Bytes
         /\ n # 0 /\ b # <<>> => Len(Dropped(b, n)) < Len(b)
<1>0. Len(b) \in Nat /\ Len(b) \in 0 .. Len(b) /\ (b # <<>> => Len(b) # 0)
  BY DEF Bytes
<1>1. n + 1 \in Nat \ {0}
  OBVIOUS
<1>2. SubSeq(b, n + 1, Len(b)) \in Bytes
      /\ Len(SubSeq(b, n + 1, Len(b))) = IF n + 1 <= Len(b) THEN Len(b) - (n + 1) + 1 ELSE 0
  BY <1>0, <1>1, PartOfBuffer
<1>3. QED
  BY <1>0, <1>2 DEF Dropped

\* The first bytes of a buffer.
LEMMA TakenIs ==
  ASSUME NEW b \in Bytes, NEW n \in Nat PROVE Taken(b, n) \in Bytes
<1>1. PICK k \in 0 .. Len(b) : k = IF n < Len(b) THEN n ELSE Len(b)
  BY DEF Bytes
<1>2. 1 \in Nat \ {0}
  OBVIOUS
<1>3. SubSeq(b, 1, k) \in Bytes
  BY <1>2, PartOfBuffer
<1>4. QED
  BY <1>1, <1>3 DEF Taken

\* The search for the next start leaves the first byte behind.
LEMMA NextStartIs ==
  ASSUME NEW b \in Bytes, b # <<>> PROVE NextStart(b) \in Nat \ {0}
<1> DEFINE S == {Len(b)} \cup
        {i \in 1 .. Len(b) - 1 :
            \/ b[i + 1] \in RAW_DLMS_TAGS
            \/ Taken(Dropped(b, i), 4) = IVY_SIGNATURE}
<1>1. Len(b) \in Nat /\ Len(b) # 0
  BY DEF Bytes
<1>2. S \subseteq Nat /\ S # {} /\ \A x \in S : x # 0
  BY <1>1
<1>3. NextStart(b) = Min(S)
  BY DEF NextStart
<1> HIDE DEF S
<1>4. \E x \in S : \A y \in S : x <= y
  BY <1>2, LeastNatural
<1>5. Min(S) \in S
  BY <1>4 DEF Min
<1>6. QED
  BY <1>2, <1>3, <1>5

\* A packet, and what a push leaves and emits: too much only if it spins.
PacketType == [raw : BOOLEAN, destination : Int, bytes : Bytes, payload : Bytes]
PacketsResults ==
  {r \in [buffer : Bytes, emitted : Seq(PacketType), spins : BOOLEAN] :
     ~ r.spins => Len(r.buffer) < IVY_HEADER_LENGTH + MAX_PAYLOAD_LENGTH}

\* Two bytes, or one, or none, are an integer.
LEMMA UInt16Is ==
  ASSUME NEW b \in Bytes, NEW o \in Nat PROVE UInt16(b, o) \in Int
<1>1. PICK u \in -1 .. 255 : u = At(b, o)
  BY AtIs
<1>2. o + 1 \in Nat
  OBVIOUS
<1>3. PICK v \in -1 .. 255 : v = At(b, o + 1)
  BY <1>2, AtIs
<1>4. u * 256 + v \in Int
  OBVIOUS
<1>5. QED
  BY <1>1, <1>3, <1>4 DEF UInt16

\* A packet with a header, and one without.
LEMMA PacketTyped ==
  ASSUME NEW b \in Bytes, NEW n \in Nat
  PROVE  IvyPacket(b, n) \in PacketType /\ RawPacket(b, n) \in PacketType
<1>1. PICK t \in Bytes : t = Taken(b, n)
  BY TakenIs
<1>2. Dropped(t, IVY_HEADER_LENGTH) \in Bytes
  BY DroppedIs DEF IVY_HEADER_LENGTH
<1>3. UInt16(b, 4) \in Int /\ DLMS_PUBLIC_CLIENT \in Int
  BY UInt16Is DEF DLMS_PUBLIC_CLIENT
<1>4. QED
  BY <1>1, <1>2, <1>3 DEF IvyPacket, RawPacket, PacketType

\* A packet put in front.
LEMMA PacketInFront ==
  ASSUME NEW r \in PacketsResults, NEW e \in PacketType
  PROVE  [r EXCEPT !.emitted = <<e>> \o @] \in PacketsResults
<1>1. r.emitted \in Seq(PacketType) /\ r.buffer \in Bytes /\ r.spins \in BOOLEAN
  BY DEF PacketsResults
<1>2. <<e>> \o r.emitted \in Seq(PacketType)
  <2>1. <<e>> \in Seq(PacketType)
    OBVIOUS
  <2>2. QED
    BY <1>1, <2>1, ConcatProperties
<1>3. PICK m \in Seq(PacketType) : m = <<e>> \o r.emitted
  BY <1>2
<1>4. r \in [buffer : Bytes, emitted : Seq(PacketType), spins : BOOLEAN]
  BY DEF PacketsResults
<1>5. [r EXCEPT !.emitted = m] \in [buffer : Bytes, emitted : Seq(PacketType), spins : BOOLEAN]
      /\ [r EXCEPT !.emitted = m].buffer = r.buffer /\ [r EXCEPT !.emitted = m].spins = r.spins
  BY <1>4
<1>6. [r EXCEPT !.emitted = <<e>> \o @] = [r EXCEPT !.emitted = m]
  BY <1>3, <1>4
<1>7. ~ r.spins => Len(r.buffer) < IVY_HEADER_LENGTH + MAX_PAYLOAD_LENGTH
  BY DEF PacketsResults
<1>8. QED
  BY <1>5, <1>6, <1>7 DEF PacketsResults

\* A push that waits, or spins.
LEMMA NothingTaken ==
  ASSUME NEW b \in Bytes, NEW s \in BOOLEAN,
         ~ s => Len(b) < IVY_HEADER_LENGTH + MAX_PAYLOAD_LENGTH
  PROVE  [buffer |-> b, emitted |-> <<>>, spins |-> s] \in PacketsResults
<1>1. <<>> \in Seq(PacketType)
  OBVIOUS
<1>2. PICK r : r = [buffer |-> b, emitted |-> <<>>, spins |-> s]
  OBVIOUS
<1>3. r \in [buffer : Bytes, emitted : Seq(PacketType), spins : BOOLEAN]
      /\ r.buffer = b /\ r.spins = s
  BY <1>1, <1>2
<1>4. r \in PacketsResults
  BY <1>3 DEF PacketsResults
<1>5. QED
  BY <1>2, <1>4

------------------------------------------------------------------------------
(* The loop of push(), a recursion over ever shorter buffers.              *)

\* One round of the loop, given what is made of what it leaves.
Round(b, f) ==
    LET signed == HasSignature(b)
        raw == ~signed /\ b[1] \in RAW_DLMS_TAGS
        length == IF signed THEN IvyLength(b) ELSE RawDlmsLength(b)
        packet == IF signed THEN IvyPacket(b, length) ELSE RawPacket(b, length)
        Ends(spins) == [buffer |-> b, emitted |-> <<>>, spins |-> spins]
    IN  IF b = <<>> \/ AwaitsIvy(b) \/ (raw /\ AwaitsRaw(b, length)) THEN Ends(FALSE)
        ELSE IF ~signed /\ ~raw THEN f[Dropped(b, NextStart(b))]
        ELSE IF length = UNKNOWN_LENGTH THEN f[Dropped(b, 1)]
        ELSE IF length = NAN THEN Ends(TRUE)
        ELSE [f[Dropped(b, length)] EXCEPT !.emitted = <<packet>> \o @]

\* It waits, spins, or goes on with less, a packet taken or not.
LEMMA Rounds ==
  ASSUME NEW b \in Bytes
  PROVE  \/ \E r \in PacketsResults : \A f : Round(b, f) = r
         \/ \E rest \in Bytes : Len(rest) < Len(b) /\ \A f : Round(b, f) = f[rest]
         \/ \E rest \in Bytes, packet \in PacketType :
              /\ Len(rest) < Len(b)
              /\ \A f : Round(b, f) = [f[rest] EXCEPT !.emitted = <<packet>> \o @]
<1> DEFINE signed == HasSignature(b)
           raw == ~signed /\ b[1] \in RAW_DLMS_TAGS
           length == IF signed THEN IvyLength(b) ELSE RawDlmsLength(b)
           packet == IF signed THEN IvyPacket(b, length) ELSE RawPacket(b, length)
           waits == b = <<>> \/ AwaitsIvy(b) \/ (raw /\ AwaitsRaw(b, length))
           Ends(spins) == [buffer |-> b, emitted |-> <<>>, spins |-> spins]
<1>1. CASE waits
  <2>1. Len(b) < IVY_HEADER_LENGTH + MAX_PAYLOAD_LENGTH
    BY <1>1, WaitingIsBounded
  <2>2. Ends(FALSE) \in PacketsResults
    BY <2>1, NothingTaken
  <2>3. \A f : Round(b, f) = Ends(FALSE)
    BY <1>1 DEF Round
  <2>4. QED
    BY <2>2, <2>3
<1>2. CASE ~ waits /\ ~ signed /\ ~ raw
  <2>1. NextStart(b) \in Nat \ {0}
    BY <1>2, NextStartIs
  <2>2. Dropped(b, NextStart(b)) \in Bytes /\ Len(Dropped(b, NextStart(b))) < Len(b)
    BY <1>2, <2>1, DroppedIs
  <2>3. \A f : Round(b, f) = f[Dropped(b, NextStart(b))]
    BY <1>2 DEF Round
  <2>4. QED
    BY <2>2, <2>3
<1>3. CASE ~ waits /\ (signed \/ raw)
  <2>1. length \in Lengths
    <3>1. Len(b) # 0
      BY <1>3 DEF Bytes
    <3>2. QED
      BY <1>3, <3>1, IvyLengthIs, RawDlmsLengthIs
  <2>2. CASE length = UNKNOWN_LENGTH
    <3>1. Dropped(b, 1) \in Bytes /\ Len(Dropped(b, 1)) < Len(b)
      BY <1>3, DroppedIs
    <3>2. \A f : Round(b, f) = f[Dropped(b, 1)]
      BY <1>3, <2>2 DEF Round
    <3>3. QED
      BY <3>1, <3>2
  <2>3. CASE length = NAN
    <3>1. Ends(TRUE) \in PacketsResults
      BY NothingTaken
    <3>2. \A f : Round(b, f) = Ends(TRUE)
      BY <1>3, <2>3 DEF Round, NAN, UNKNOWN_LENGTH
    <3>3. QED
      BY <3>1, <3>2
  <2>4. CASE length \notin {UNKNOWN_LENGTH, NAN}
    <3>1. PICK n \in Nat : n = length /\ n # 0
      BY <2>1, <2>4 DEF Lengths
    <3>2. packet \in PacketType
      BY <3>1, PacketTyped
    <3>3. Dropped(b, n) \in Bytes /\ Len(Dropped(b, n)) < Len(b)
      BY <1>3, <3>1, DroppedIs
    <3>4. \A f : Round(b, f) = [f[Dropped(b, n)] EXCEPT !.emitted = <<packet>> \o @]
      BY <1>3, <2>4, <3>1 DEF Round
    <3>5. QED
      BY <3>2, <3>3, <3>4
  <2>5. QED
    BY <2>2, <2>3, <2>4
<1>4. QED
  BY <1>1, <1>2, <1>3

\* A round results in what a push may leave and emit.
LEMMA RoundTyped ==
  ASSUME NEW b \in Bytes, NEW f,
         \A r \in Bytes : Len(r) < Len(b) => f[r] \in PacketsResults
  PROVE  Round(b, f) \in PacketsResults
<1>1. CASE \E r \in PacketsResults : \A h : Round(b, h) = r
  BY <1>1
<1>2. CASE \E rest \in Bytes : Len(rest) < Len(b) /\ \A h : Round(b, h) = h[rest]
  BY <1>2
<1>3. CASE \E rest \in Bytes, packet \in PacketType :
              /\ Len(rest) < Len(b)
              /\ \A h : Round(b, h) = [h[rest] EXCEPT !.emitted = <<packet>> \o @]
  <2>1. PICK rest \in Bytes, packet \in PacketType :
              /\ Len(rest) < Len(b)
              /\ \A h : Round(b, h) = [h[rest] EXCEPT !.emitted = <<packet>> \o @]
    BY <1>3
  <2>2. PICK r \in PacketsResults : r = f[rest]
    BY <2>1
  <2>3. Round(b, f) = [r EXCEPT !.emitted = <<packet>> \o @]
    BY <2>1, <2>2
  <2>4. QED
    BY <2>3, PacketInFront
<1>4. QED
  BY <1>1, <1>2, <1>3, Rounds

\* A round looks only at what is made of shorter buffers.
LEMMA RoundLocal ==
  ASSUME NEW b \in Bytes, NEW f, NEW g, \A r \in Bytes : Len(r) < Len(b) => f[r] = g[r]
  PROVE  Round(b, f) = Round(b, g)
<1>1. CASE \E r \in PacketsResults : \A h : Round(b, h) = r
  BY <1>1
<1>2. CASE \E rest \in Bytes : Len(rest) < Len(b) /\ \A h : Round(b, h) = h[rest]
  BY <1>2
<1>3. CASE \E rest \in Bytes, packet \in PacketType :
              /\ Len(rest) < Len(b)
              /\ \A h : Round(b, h) = [h[rest] EXCEPT !.emitted = <<packet>> \o @]
  <2>1. PICK rest \in Bytes, packet \in PacketType :
              /\ Len(rest) < Len(b)
              /\ \A h : Round(b, h) = [h[rest] EXCEPT !.emitted = <<packet>> \o @]
    BY <1>3
  <2>2. f[rest] = g[rest]
    BY <2>1
  <2>3. QED
    BY <2>1, <2>2
<1>4. QED
  BY <1>1, <1>2, <1>3, Rounds

\* The loop ends on every buffer, or spins on one it does not shorten.
LEMMA PacketsExist ==
  \E g : g = [b \in Seq(0 .. 255) |-> Round(b, g)]
<1> DEFINE R == PacketsResults
           T == [b \in Bytes |-> R]
           rank == [b \in Bytes |-> Len(b)]
           G == {g \in [Bytes -> R] : \A x \in Bytes : g[x] \in T[x]}
           step == [b \in Bytes |-> [g \in G |-> Round(b, g)]]
<1>1. T \in [Bytes -> SUBSET R] /\ \A x \in Bytes : T[x] = R
  OBVIOUS
<1>2. R # {}
  <2>1. <<>> \in Bytes
    BY DEF Bytes
  <2>2. QED
    BY <2>1, NothingTaken
<1>3. rank \in [Bytes -> Nat] /\ \A x \in Bytes : rank[x] = Len(x)
  BY DEF Bytes
<1>4. \A x \in Bytes : \A g \in G : Round(x, g) \in R
  <2>1. ASSUME NEW x \in Bytes, NEW g \in G PROVE Round(x, g) \in R
    <3>1. \A r \in Bytes : g[r] \in PacketsResults
      BY <1>1
    <3>2. QED
      BY <3>1, RoundTyped
  <2>2. QED
    BY <2>1
<1>5. \A x \in Bytes : \A g, h \in G :
        (\A y \in Bytes : rank[y] < rank[x] => g[y] = h[y]) => Round(x, g) = Round(x, h)
  <2> HIDE DEF rank, G
  <2>1. QED
    BY <1>3, RoundLocal
<1>6. step \in [Bytes -> [G -> R]] /\ \A x \in Bytes : \A g \in G : step[x][g] = Round(x, g)
  <2> HIDE DEF G, R
  <2>1. QED
    BY <1>4
<1>7. PICK st, gs, rk, t, d, rs : st = step /\ gs = G /\ rk = rank /\ t = T /\ d = Bytes /\ rs = R
  OBVIOUS
<1>8. gs = {g \in [d -> rs] : \A x \in d : g[x] \in t[x]}
  BY <1>7
<1> HIDE DEF step, G, rank, T, R
<1>9. \E g \in gs : \A x \in d : g[x] = st[x][g]
  <2>1. t \in [d -> SUBSET rs] /\ rk \in [d -> Nat] /\ st \in [d -> [gs -> rs]]
        /\ (\A x \in d : t[x] # {})
    BY <1>1, <1>2, <1>3, <1>6, <1>7
  <2>2. \A x \in d : \A g \in gs : st[x][g] \in t[x]
    BY <1>1, <1>4, <1>6, <1>7
  <2>3. \A x \in d : \A g, h \in gs :
          (\A y \in d : rk[y] < rk[x] => g[y] = h[y]) => st[x][g] = st[x][h]
    BY <1>5, <1>6, <1>7
  <2>4. WellFounded(d, rs, t, gs, rk, st)
    BY <1>8, <2>1, <2>2, <2>3 DEF WellFounded
  <2>5. QED
    BY <2>4, RecursionByRank
<1>10. PICK g \in gs : \A x \in Bytes : g[x] = Round(x, g)
  BY <1>6, <1>7, <1>9
<1>11. g \in [Bytes -> R]
  BY <1>7, <1>8
<1>12. g = [b \in Bytes |-> Round(b, g)]
  BY <1>10, <1>11
<1>13. QED
  BY <1>12 DEF Bytes

\* The loop is its first round, and the loop on what that leaves.
LEMMA PacketsUnfold ==
  ASSUME NEW b \in Bytes PROVE Packets[b] = Round(b, Packets)
<1> DEFINE of(f) == [s \in Seq(0 .. 255) |-> Round(s, f)]
<1>1. Packets = CHOOSE f : f = of(f)
  BY DEF Packets, Round, Byte
<1>2. \E f : f = of(f)
  BY PacketsExist
<1> HIDE DEF of
<1>3. Packets = of(Packets)
  BY <1>1, <1>2
<1>4. QED
  BY <1>3 DEF of, Bytes

\* Whatever the bytes, the parser stops with a short buffer, unless it spins.
LEMMA PacketsTyped ==
  ASSUME NEW b \in Bytes PROVE Packets[b] \in PacketsResults
<1> DEFINE P == {s \in Bytes : Packets[s] \in PacketsResults}
<1>1. ASSUME NEW s \in Bytes, \A r \in Bytes : Len(r) < Len(s) => r \in P PROVE s \in P
  <2>1. \A r \in Bytes : Len(r) < Len(s) => Packets[r] \in PacketsResults
    BY <1>1
  <2>2. Round(s, Packets) \in PacketsResults
    BY <2>1, RoundTyped
  <2>3. QED
    BY <2>2, PacketsUnfold
<1> HIDE DEF P
<1>2. \A s \in Bytes : s \in P
  BY <1>1, BufferInduction
<1>3. QED
  BY <1>2 DEF P

------------------------------------------------------------------------------
(* The router.                                                             *)

\* What the callbacks receive.
EventType == [kind : {"heartbeat", "dlms", "frame", "error"}, bytes : Bytes]

\* A sequence over a set is one over a larger set.
LEMMA LargerSeq ==
  ASSUME NEW S, NEW T, S \subseteq T, NEW s \in Seq(S) PROVE s \in Seq(T)
<1>1. Len(s) \in Nat /\ s = [i \in 1 .. Len(s) |-> s[i]] /\ \A i \in 1 .. Len(s) : s[i] \in S
  OBVIOUS
<1>2. \A i \in 1 .. Len(s) : s[i] \in T
  BY <1>1
<1>3. QED
  BY <1>1, <1>2

\* The DLT645 parser's events are the router's.
LEMMA FrameEventsAreEvents ==
  ASSUME NEW e \in FrameEvents PROVE e \in Seq(EventType)
<1> DEFINE F == [kind : {"frame", "error"}, bytes : Bytes]
<1>1. F \subseteq EventType
  BY DEF EventType
<1>2. e \in Seq(F)
  BY DEF FrameEvents
<1> HIDE DEF F
<1>3. QED
  BY <1>1, <1>2, LargerSeq

\* What is made of a packet.
LEMMA HandleIvyPacketTyped ==
  ASSUME NEW p \in PacketType PROVE HandleIvyPacket(p) \in Seq(EventType)
<1>1. p.bytes \in Bytes /\ p.payload \in Bytes
  BY DEF PacketType
<1>2. PICK apdu : apdu = [kind |-> "dlms", bytes |-> p.payload]
  OBVIOUS
<1>3. apdu \in EventType
  BY <1>1, <1>2 DEF EventType
<1>4. <<apdu>> \in Seq(EventType) /\ <<>> \in Seq(EventType)
  BY <1>3
<1>5. ASSUME IsHeartbeatPacket(p.bytes)
      PROVE  <<[kind |-> "heartbeat", bytes |-> MeterAddress(p.bytes)]>> \in Seq(EventType)
  <2>1. Len(p.bytes) \in Nat /\ Len(p.bytes) >= 26
    BY <1>1, <1>5 DEF IsHeartbeatPacket, HEARTBEAT_PACKET_LENGTH, Bytes
  <2>2. 12 \in Nat \ {0} /\ 23 \in 0 .. Len(p.bytes)
    BY <2>1
  <2>3. MeterAddress(p.bytes) \in Bytes
    BY <1>1, <2>2, PartOfBuffer DEF MeterAddress
  <2>4. PICK e : e = [kind |-> "heartbeat", bytes |-> MeterAddress(p.bytes)]
    OBVIOUS
  <2>5. e \in EventType
    BY <2>3, <2>4 DEF EventType
  <2>6. QED
    BY <2>4, <2>5
<1>6. CASE p.destination = 1 /\ IsHeartbeatPacket(p.bytes)
  <2>1. HandleIvyPacket(p) = <<[kind |-> "heartbeat", bytes |-> MeterAddress(p.bytes)]>>
    BY <1>6 DEF HandleIvyPacket
  <2>2. QED
    BY <1>5, <1>6, <2>1
<1>7. CASE ~ (p.destination = 1 /\ IsHeartbeatPacket(p.bytes))
  <2>1. HandleIvyPacket(p) \in {<<apdu>>, <<>>}
    BY <1>2, <1>7 DEF HandleIvyPacket
  <2>2. QED
    BY <1>4, <2>1
<1>8. QED
  BY <1>6, <1>7

\* The events of all packets of a push.
LEMMA PacketEventsTyped ==
  ASSUME NEW q \in Seq(PacketType)
  PROVE  FlattenSeq([i \in DOMAIN q |-> HandleIvyPacket(q[i])]) \in Seq(EventType)
<1>1. PICK n \in Nat : n = Len(q) /\ DOMAIN q = 1 .. n
  OBVIOUS
<1>2. \A i \in 1 .. n : q[i] \in PacketType
  BY <1>1
<1>3. [i \in 1 .. n |-> HandleIvyPacket(q[i])] \in [1 .. n -> Seq(EventType)]
  BY <1>2, HandleIvyPacketTyped
<1>4. QED
  BY <1>1, <1>3, FlattenTyped

\* The bytes of the traffic are bytes.
LEMMA WireTyped ==
  ASSUME Init PROVE Wire \in Bytes
<1>1. PICK items \in MeterKinds : traffic \in SeqOf(items, MaxItems)
  BY DEF Init
<1>2. PICK m \in Nat : traffic \in [1 .. m -> items]
  <2>1. MaxItems \in Nat
    BY TrafficAssumption
  <2>2. QED
    BY <1>1, <2>1 DEF SeqOf
<1>3. \A i \in 1 .. m : traffic[i].bytes \in Bytes
  BY <1>2, TrafficAssumption DEF Bytes, Byte
<1>4. DOMAIN traffic = 1 .. m
  BY <1>2
<1>5. [i \in 1 .. m |-> traffic[i].bytes] \in [1 .. m -> Bytes]
  BY <1>3
<1>6. FlattenSeq([i \in 1 .. m |-> traffic[i].bytes]) \in Bytes
  <2>1. PICK q : q = [i \in 1 .. m |-> traffic[i].bytes]
    OBVIOUS
  <2>2. q \in [1 .. m -> Seq(0 .. 255)]
    BY <1>5, <2>1 DEF Bytes
  <2>3. FlattenSeq(q) \in Seq(0 .. 255)
    BY <2>2, FlattenTyped
  <2>4. QED
    BY <2>1, <2>3 DEF Bytes
<1>7. QED
  BY <1>4, <1>6 DEF Wire, WireOf

\* The protocol is decided by the first chunk, which is there: never "none" again.
LEMMA DetectProtocolIs ==
  ASSUME NEW data PROVE DetectProtocol(data) \in {"dlt645", "ivy_dlms", "unknown"}
  BY DEF DetectProtocol

\* What the bytes so far would have given in one push.
Prefix == SubSeq(Wire, 1, delivered)
\* The parser has done what that push would have, but for noise.
AsOnce == Alike(Frames[Prefix], [buffer |-> buffer, emitted |-> emitted])

\* The inductive invariant: the types, the DLT645 parser has done what one push
\* of all bytes would have, and the IVY parser's buffer is below its limit.
RouterInv ==
  /\ Wire \in Bytes
  /\ delivered \in 0 .. Len(Wire)
  /\ detectedProtocol \in {"none", "dlt645", "ivy_dlms", "unknown"}
  /\ detectedProtocol = "none" <=> delivered = 0
  /\ delivered = 0 => buffer = <<>> /\ emitted = <<>>
  /\ buffer \in Bytes
  /\ emitted \in Seq(EventType)
  /\ spinning \in BOOLEAN
  /\ torn \in BOOLEAN
  /\ detectedProtocol = "dlt645" => AsOnce
  /\ (detectedProtocol = "ivy_dlms" /\ ~spinning) =>
        Len(buffer) < IVY_HEADER_LENGTH + MAX_PAYLOAD_LENGTH

\* A router without bytes has its invariant.
LEMMA RouterInit == Init => RouterInv
<1> SUFFICES ASSUME Init PROVE RouterInv
  OBVIOUS
<1>1. Wire \in Bytes
  BY WireTyped
<1>2. Len(Wire) \in Nat
  BY <1>1 DEF Bytes
<1>3. <<>> \in Bytes /\ <<>> \in Seq(EventType)
  BY DEF Bytes
<1>4. /\ delivered = 0 /\ detectedProtocol = "none" /\ buffer = <<>> /\ emitted = <<>>
      /\ spinning = FALSE /\ torn = FALSE
  BY DEF Init
<1>5. delivered \in 0 .. Len(Wire)
  BY <1>2, <1>4
<1>6. QED
  BY <1>1, <1>3, <1>4, <1>5 DEF RouterInv

\* The chunk joins the bytes before it.
LEMMA PrefixGrows ==
  ASSUME NEW w \in Bytes, NEW d \in Nat, NEW n \in Nat, d + n <= Len(w)
  PROVE  /\ SubSeq(w, 1, d) \in Bytes
         /\ SubSeq(w, d + 1, d + n) \in Bytes
         /\ SubSeq(w, 1, d + n) = SubSeq(w, 1, d) \o SubSeq(w, d + 1, d + n)
<1>0. PICK l \in Nat : l = Len(w)
  BY DEF Bytes
<1>1. /\ d \in 0 .. Len(w) /\ d + n \in 0 .. Len(w) /\ d + 1 \in Nat \ {0} /\ 1 \in Nat \ {0}
  BY <1>0
<1>2. SubSeq(w, 1, d) \in Bytes /\ SubSeq(w, d + 1, d + n) \in Bytes
  BY <1>1, PartOfBuffer
<1>3. 1 \in 1 .. Len(w) + 1 /\ d \in 1 - 1 .. Len(w) /\ d + n \in d .. Len(w)
  BY <1>0
<1>4. SubSeq(w, 1, d) \o SubSeq(w, d + 1, d + n) = SubSeq(w, 1, d + n)
  BY <1>3, ConcatAdjacentSubSeq DEF Bytes
<1>5. QED
  BY <1>2, <1>4

\* A chunk for the DLT645 parser.
LEMMA PushDlt645Keeps ==
  ASSUME RouterInv, NEW n \in 1 .. Len(Wire) - delivered, Push(n),
         PushDlt645(SubSeq(Wire, delivered + 1, delivered + n))
  PROVE  /\ buffer' \in Bytes /\ emitted' \in Seq(EventType)
         /\ spinning' \in BOOLEAN
         /\ detectedProtocol' = "dlt645"
         /\ AsOnce'
<1> DEFINE data == SubSeq(Wire, delivered + 1, delivered + n)
<1>1. /\ Wire \in Bytes /\ buffer \in Bytes /\ emitted \in Seq(EventType)
      /\ delivered \in Nat /\ n \in Nat /\ delivered + n \in Nat /\ delivered + n <= Len(Wire)
      /\ Len(Wire) \in Nat
  BY DEF RouterInv, Bytes
<1>2. Wire' = Wire /\ delivered' = delivered + n
  BY DEF Push, Wire
<1>3. PICK d \in Bytes : d = data
  BY <1>1, PrefixGrows
<1>4. PICK p \in Bytes : p = SubSeq(Wire, 1, delivered) /\ SubSeq(Wire, 1, delivered + n) = p \o d
  BY <1>1, <1>3, PrefixGrows
<1>5. Prefix = p /\ Prefix' = p \o d
  BY <1>2, <1>4 DEF Prefix
<1>6. buffer \o d \in Bytes
  BY <1>1, JoinedBuffers
<1>7. PICK r \in FramesResults : r = Frames[buffer \o d]
  BY <1>6, FramesTyped
<1>8. buffer' = r.buffer /\ emitted' = emitted \o r.emitted /\ spinning' = spinning
  BY <1>3, <1>7 DEF PushDlt645, PushFrames
<1>9. r.buffer \in Bytes /\ r.emitted \in FrameEvents
  BY DEF FramesResults
<1>10. r.emitted \in Seq(EventType)
  BY <1>9, FrameEventsAreEvents
<1>11. emitted' \in Seq(EventType)
  BY <1>1, <1>8, <1>10, ConcatProperties
<1>12. detectedProtocol' = "dlt645"
  BY DEF Push, PushDlt645
<1>13. AsOnce'
  <2>1. CASE detectedProtocol = "none"
    <3>1. delivered = 0 /\ buffer = <<>> /\ emitted = <<>>
      BY <2>1 DEF RouterInv
    <3>2. p = <<>>
      <4>1. 0 < 1 /\ 1 \in Int /\ 0 \in Int
        OBVIOUS
      <4>2. QED
        BY <1>4, <3>1, <4>1, SubSeqEmpty
    <3>3. Prefix' = d /\ buffer \o d = d
      <4>1. <<>> \o d = d
        BY ConcatEmptySeq DEF Bytes
      <4>2. QED
        BY <1>5, <3>1, <3>2, <4>1
    <3>4. emitted' = r.emitted
      <4>1. <<>> \o r.emitted = r.emitted
        BY <1>10, ConcatEmptySeq
      <4>2. QED
        BY <1>8, <3>1, <4>1
    <3>5. Frames[Prefix'] = r
      BY <1>7, <3>3
    <3>6. QED
      BY <1>8, <3>4, <3>5 DEF AsOnce, Alike
  <2>2. CASE detectedProtocol # "none"
    <3>1. detectedProtocol = "dlt645"
      BY <2>2 DEF PushDlt645, Detected
    <3>2. Alike(Frames[p], [buffer |-> buffer, emitted |-> emitted])
      BY <1>5, <3>1 DEF RouterInv, AsOnce
    <3>3. PICK q \in FramesResults : q = Frames[p] /\ q.buffer \in Bytes /\ q.buffer \o d \in Bytes
      <4>1. Frames[p] \in FramesResults
        BY FramesTyped
      <4>2. Frames[p].buffer \in Bytes
        BY <4>1 DEF FramesResults
      <4>3. QED
        BY <4>1, <4>2, JoinedBuffers
    <3>4. q.emitted = emitted /\ FromFrameStart(q.buffer) = FromFrameStart(buffer)
      BY <3>2, <3>3 DEF Alike
    <3>5. FromFrameStart(q.buffer \o d) = FromFrameStart(buffer \o d)
      <4>1. PICK u \in Bytes, v \in Bytes : u = q.buffer /\ v = buffer
        BY <1>1, <3>3
      <4>2. FromFrameStart(u) = FromFrameStart(v)
        BY <3>4, <4>1
      <4>3. FromFrameStart(u \o d) = FromFrameStart(v \o d)
        BY <4>2, SameStartExtended
      <4>4. QED
        BY <4>1, <4>3
    <3>6. Alike(Frames[q.buffer \o d], r)
      BY <1>6, <1>7, <3>3, <3>5, NoiseIrrelevant
    <3>7. Continued(p, d)
      BY PushesJoin
    <3>8. /\ Frames[p \o d].emitted = q.emitted \o Frames[q.buffer \o d].emitted
          /\ FromFrameStart(Frames[p \o d].buffer) = FromFrameStart(Frames[q.buffer \o d].buffer)
      BY <3>3, <3>7 DEF Continued, Alike
    <3>9. /\ Frames[p \o d].emitted = emitted'
          /\ FromFrameStart(Frames[p \o d].buffer) = FromFrameStart(buffer')
      BY <1>8, <3>4, <3>6, <3>8 DEF Alike
    <3>10. QED
      BY <1>5, <3>9 DEF AsOnce, Alike
  <2>3. QED
    BY <2>1, <2>2
<1>14. spinning' \in BOOLEAN
  BY <1>8 DEF RouterInv
<1>15. QED
  BY <1>8, <1>9, <1>11, <1>12, <1>13, <1>14

\* A chunk for the IVY parser.
LEMMA PushIvyKeeps ==
  ASSUME RouterInv, NEW n \in 1 .. Len(Wire) - delivered, Push(n),
         PushIvyDlms(SubSeq(Wire, delivered + 1, delivered + n))
  PROVE  /\ buffer' \in Bytes /\ emitted' \in Seq(EventType)
         /\ spinning' \in BOOLEAN
         /\ detectedProtocol' = "ivy_dlms"
         /\ ~spinning' => Len(buffer') < IVY_HEADER_LENGTH + MAX_PAYLOAD_LENGTH
<1> DEFINE data == SubSeq(Wire, delivered + 1, delivered + n)
<1>1. /\ Wire \in Bytes /\ buffer \in Bytes /\ emitted \in Seq(EventType)
      /\ delivered \in Nat /\ n \in Nat /\ delivered + n <= Len(Wire)
      /\ Len(Wire) \in Nat
  BY DEF RouterInv, Bytes
<1>3. PICK d \in Bytes : d = data
  BY <1>1, PrefixGrows
<1>6. buffer \o d \in Bytes
  BY <1>1, JoinedBuffers
<1>7. PICK r \in PacketsResults : r = Packets[buffer \o d]
  BY <1>6, PacketsTyped
<1>8. /\ buffer' = r.buffer /\ spinning' = r.spins
      /\ emitted' = emitted \o FlattenSeq([i \in DOMAIN r.emitted |-> HandleIvyPacket(r.emitted[i])])
  BY <1>3, <1>7 DEF PushIvyDlms, PushIvy
<1>9. /\ r.buffer \in Bytes /\ r.emitted \in Seq(PacketType) /\ r.spins \in BOOLEAN
      /\ ~ r.spins => Len(r.buffer) < IVY_HEADER_LENGTH + MAX_PAYLOAD_LENGTH
  BY DEF PacketsResults
<1>10. PICK e \in Seq(EventType) :
          e = FlattenSeq([i \in DOMAIN r.emitted |-> HandleIvyPacket(r.emitted[i])])
  BY <1>9, PacketEventsTyped
<1>11. emitted' \in Seq(EventType)
  BY <1>1, <1>8, <1>10, ConcatProperties
<1>12. detectedProtocol' = "ivy_dlms"
  BY DEF Push, PushIvyDlms
<1>13. QED
  BY <1>8, <1>9, <1>11, <1>12

\* A push keeps the invariant, whichever parser it is for.
LEMMA PushKeeps ==
  ASSUME RouterInv, NEW n \in 1 .. Len(Wire) - delivered, Push(n) PROVE RouterInv'
<1> DEFINE data == SubSeq(Wire, delivered + 1, delivered + n)
<1>1. Wire' = Wire /\ delivered' = delivered + n
  BY DEF Push, Wire
<1>2. delivered' \in 0 .. Len(Wire) /\ delivered' # 0 /\ Wire \in Bytes
  <2>1. Wire \in Bytes /\ Len(Wire) \in Nat /\ delivered \in 0 .. Len(Wire)
    BY DEF RouterInv, Bytes
  <2>2. QED
    BY <1>1, <2>1
<1>3. torn' \in BOOLEAN
  <2>1. torn' = (torn \/ Tears(n))
    BY DEF Push
  <2>2. QED
    BY <2>1
<1>4. CASE PushDlt645(data)
  <2>1. /\ buffer' \in Bytes /\ emitted' \in Seq(EventType)
        /\ spinning' \in BOOLEAN
        /\ detectedProtocol' = "dlt645"
        /\ AsOnce'
    BY <1>4, PushDlt645Keeps
  <2>2. QED
    BY <1>1, <1>2, <1>3, <2>1 DEF RouterInv
<1>5. CASE PushIvyDlms(data)
  <2>1. /\ buffer' \in Bytes /\ emitted' \in Seq(EventType)
        /\ spinning' \in BOOLEAN
        /\ detectedProtocol' = "ivy_dlms"
        /\ ~spinning' => Len(buffer') < IVY_HEADER_LENGTH + MAX_PAYLOAD_LENGTH
    BY <1>5, PushIvyKeeps
  <2>2. QED
    BY <1>1, <1>2, <1>3, <2>1 DEF RouterInv
<1>6. CASE Discard(data)
  <2>1. detectedProtocol' = "unknown" /\ buffer' = buffer /\ emitted' = emitted
        /\ spinning' = spinning
    BY <1>6 DEF Push, Discard
  <2>2. buffer \in Bytes /\ emitted \in Seq(EventType) /\ spinning \in BOOLEAN
    BY DEF RouterInv
  <2>3. QED
    BY <1>1, <1>2, <1>3, <2>1, <2>2 DEF RouterInv
<1>7. QED
  BY <1>4, <1>5, <1>6 DEF Push

\* So does every step.
LEMMA RouterStep == RouterInv /\ [Next]_vars => RouterInv'
<1> SUFFICES ASSUME RouterInv, [Next]_vars PROVE RouterInv'
  OBVIOUS
<1>1. CASE Next
  BY <1>1, PushKeeps DEF Next
<1>2. CASE UNCHANGED vars
  BY <1>2 DEF vars, RouterInv, AsOnce, Prefix, Wire
<1>3. QED
  BY <1>1, <1>2

\* So it always holds.
LEMMA RouterAlways == Spec => []RouterInv
  BY RouterInit, RouterStep, PTL DEF Spec

\* The router's state, and every event it passes on, is well formed, whatever the
\* meter sends and in whatever chunks (protocol-router.js).
THEOREM StreamTypeAlwaysOK == Spec => []StreamTypeOK
<1>1. RouterInv => StreamTypeOK
  <2> SUFFICES ASSUME RouterInv PROVE StreamTypeOK
    OBVIOUS
  <2>1. \A i \in DOMAIN emitted : emitted[i] \in EventType
    BY DEF RouterInv
  <2>2. \A i \in DOMAIN emitted :
          /\ emitted[i].kind \in {"heartbeat", "dlms", "frame", "error"}
          /\ emitted[i].bytes \in Seq(Byte)
    BY <2>1 DEF EventType, Bytes, Byte
  <2>3. QED
    BY <2>2 DEF RouterInv, StreamTypeOK, Bytes, Byte
<1>2. QED
  BY <1>1, RouterAlways, PTL

\* For traffic of any length and any cuts, noise and false starts included, the
\* DLT645 parser has emitted what one push of all bytes would have
\* (createStreamParser of frame-parser.js).
THEOREM ChunksAlwaysIrrelevant == Spec => []ChunksIrrelevant
<1>1. RouterInv => ChunksIrrelevant
  <2> SUFFICES ASSUME RouterInv, detectedProtocol = "dlt645" PROVE ChunksIrrelevant
    BY DEF ChunksIrrelevant
  <2>1. AsOnce
    BY DEF RouterInv
  <2>2. PICK p \in Bytes : p = SubSeq(Wire, 1, delivered)
    <3>1. Wire \in Bytes /\ 1 \in Nat \ {0} /\ delivered \in 0 .. Len(Wire)
      BY DEF RouterInv
    <3>2. QED
      BY <3>1, PartOfBuffer
  <2>3. PushFrames(<<>>, p) = Frames[p]
    <3>1. <<>> \o p = p
      BY ConcatEmptySeq DEF Bytes
    <3>2. QED
      BY <3>1 DEF PushFrames
  <2>4. QED
    BY <2>1, <2>2, <2>3 DEF ChunksIrrelevant, AsOnce, Prefix, Alike
<1>2. QED
  BY <1>1, RouterAlways, PTL

\* Whatever the bytes and the chunks, the IVY parser keeps less than the largest
\* packet it waits for, or its loop does not end (createIvyStreamParser).
THEOREM BufferAlwaysBounded == Spec => []BufferBounded
<1>1. RouterInv /\ StreamTypeOK => BufferBounded
  BY DEF RouterInv, BufferBounded
<1>2. QED
  BY <1>1, RouterAlways, StreamTypeAlwaysOK, PTL

------------------------------------------------------------------------------
(* Traffic that is not torn.                                              *)

\* Induction over the natural numbers, for a property given as a set.
LEMMA NaturalsFrom ==
  ASSUME NEW P, 0 \in P, \A n \in Nat : n \in P => n + 1 \in P
  PROVE  \A n \in Nat : n \in P
<1> SUFFICES ASSUME NEW n \in Nat, n \notin P PROVE FALSE
  OBVIOUS
<1> DEFINE T == {k \in Nat : k \notin P}
<1>1. T \subseteq Nat /\ T # {}
  OBVIOUS
<1> HIDE DEF T
<1>2. PICK x \in T : \A y \in T : x <= y
  BY <1>1, LeastNatural
<1>3. x # 0 /\ x - 1 \in Nat /\ x - 1 \notin T
  BY <1>2 DEF T
<1>4. QED
  BY <1>2, <1>3 DEF T

\* The first n of some sequences, joined.
Upto(q, n) == FlattenSeq([i \in 1 .. n |-> q[i]])

\* The recursion behind FlattenSeq.
LEMMA FlattenIs ==
  ASSUME NEW S, NEW n \in Nat, NEW q \in [1 .. n -> Seq(S)]
  PROVE  /\ n = 0 => FlattenSeq(q) = <<>>
         /\ n # 0 => \E g : /\ FlattenSeq(q) = g[n]
                            /\ \A x \in 1 .. n : g[x] = Joined(q, x, g) /\ g[x] \in Seq(S)
<1>0. q \in Seq(Seq(S)) /\ Len(q) = n
  OBVIOUS
<1>1. CASE n = 0
  <2>1. q = <<>>
    BY <1>0, <1>1
  <2>2. QED
    BY <1>0, <1>1, <2>1 DEF FlattenSeq
<1>2. CASE n # 0
  <2> DEFINE of(f) == [x \in 1 .. n |-> Joined(q, x, f)]
  <2>1. PICK g : g = CHOOSE f : f = of(f)
    OBVIOUS
  <2>2. FlattenSeq(q) = g[n]
    BY <1>0, <1>2, <2>1 DEF FlattenSeq, Joined
  <2>3. \E f : f = of(f)
    BY JoinedExists
  <2> HIDE DEF of
  <2>4. g = of(g)
    BY <2>1, <2>3
  <2>5. \A x \in 1 .. n : g[x] = Joined(q, x, g)
    BY <2>4 DEF of
  <2> DEFINE P == {x \in Nat : x \in 1 .. n => g[x] \in Seq(S)}
  <2>6. \A x \in Nat : x \in P
    <3>1. 0 \in P
      OBVIOUS
    <3>2. ASSUME NEW x \in Nat, x \in P PROVE x + 1 \in P
      <4>1. SUFFICES ASSUME x + 1 \in 1 .. n PROVE g[x + 1] \in Seq(S)
        OBVIOUS
      <4>2. x + 1 # 1 => x \in 1 .. n /\ x = (x + 1) - 1
        BY <4>1
      <4>3. x + 1 # 1 => g[(x + 1) - 1] \in Seq(S)
        BY <3>2, <4>2
      <4>4. Joined(q, x + 1, g) \in Seq(S)
        BY <4>1, <4>3, JoinedTyped
      <4>5. QED
        BY <2>5, <4>1, <4>4
    <3> HIDE DEF P
    <3>3. QED
      BY <3>1, <3>2, NaturalsFrom
  <2>7. \A x \in 1 .. n : g[x] \in Seq(S)
    BY <2>6
  <2>8. QED
    BY <1>2, <2>2, <2>5, <2>7
<1>3. QED
  BY <1>1, <1>2

\* One sequence more.
LEMMA UptoGrows ==
  ASSUME NEW S, NEW n \in Nat, NEW q, \A i \in 1 .. n + 1 : q[i] \in Seq(S)
  PROVE  /\ Upto(q, 0) = <<>>
         /\ Upto(q, n) \in Seq(S)
         /\ Upto(q, n + 1) = Upto(q, n) \o q[n + 1]
<1> DEFINE a == [i \in 1 .. n |-> q[i]]
           b == [i \in 1 .. n + 1 |-> q[i]]
           z == [i \in 1 .. 0 |-> q[i]]
<1>0. n + 1 \in Nat /\ n + 1 # 0 /\ n + 1 \in 1 .. n + 1 /\ \A i \in 1 .. n : i \in 1 .. n + 1
  OBVIOUS
<1>1. a \in [1 .. n -> Seq(S)] /\ b \in [1 .. n + 1 -> Seq(S)] /\ z \in [1 .. 0 -> Seq(S)]
  BY <1>0
<1>2. FlattenSeq(z) = <<>>
  BY <1>1, FlattenIs
<1>3. FlattenSeq(a) \in Seq(S)
  BY <1>1, FlattenTyped
<1>4. PICK g : /\ FlattenSeq(b) = g[n + 1]
               /\ \A x \in 1 .. n + 1 : g[x] = Joined(b, x, g) /\ g[x] \in Seq(S)
  <2> HIDE DEF b
  <2>1. QED
    BY <1>0, <1>1, FlattenIs
<1>5. FlattenSeq(b) = FlattenSeq(a) \o q[n + 1]
  <2>1. CASE n = 0
    <3>1. g[1] = b[1] /\ b[1] = q[1] /\ q[1] \in Seq(S)
      BY <1>0, <1>4, <2>1 DEF Joined
    <3>2. <<>> \o q[1] = q[1]
      BY <3>1, ConcatEmptySeq
    <3>3. FlattenSeq(a) = <<>>
      BY <1>2, <2>1
    <3>4. QED
      BY <1>4, <2>1, <3>1, <3>2, <3>3
  <2>2. CASE n # 0
    <3>1. PICK h : /\ FlattenSeq(a) = h[n]
                   /\ \A x \in 1 .. n : h[x] = Joined(a, x, h) /\ h[x] \in Seq(S)
      <4> HIDE DEF a
      <4>1. QED
        BY <1>1, <2>2, FlattenIs
    <3> DEFINE P == {x \in Nat : x \in 1 .. n => g[x] = h[x]}
    <3>2. 0 \in P
      OBVIOUS
    <3>3. ASSUME NEW x \in Nat, x \in P PROVE x + 1 \in P
      <4>1. SUFFICES ASSUME x + 1 \in 1 .. n PROVE g[x + 1] = h[x + 1]
        OBVIOUS
      <4>2. x + 1 \in 1 .. n + 1 /\ a[x + 1] = b[x + 1] /\ (x + 1) - 1 = x
        BY <4>1
      <4>3. x + 1 # 1 => g[x] = h[x]
        BY <3>3, <4>1
      <4>4. Joined(b, x + 1, g) = Joined(a, x + 1, h)
        BY <4>2, <4>3 DEF Joined
      <4>5. QED
        BY <1>4, <3>1, <4>1, <4>2, <4>4
    <3> HIDE DEF P
    <3>4. \A x \in Nat : x \in P
      BY <3>2, <3>3, NaturalsFrom
    <3>5. g[n] = h[n]
      BY <2>2, <3>4 DEF P
    <3>6. g[n + 1] = g[n] \o q[n + 1]
      <4>1. n + 1 # 1 /\ (n + 1) - 1 = n /\ b[n + 1] = q[n + 1]
        BY <1>0, <2>2
      <4>2. Joined(b, n + 1, g) = g[n] \o q[n + 1]
        BY <4>1 DEF Joined
      <4>3. QED
        BY <1>0, <1>4, <4>2
    <3>7. QED
      BY <1>4, <3>1, <3>5, <3>6
  <2>3. QED
    BY <2>1, <2>2
<1>6. QED
  BY <1>2, <1>3, <1>5 DEF Upto
\* What is joined is a sequence; it is empty before the first.
LEMMA UptoTyped ==
  ASSUME NEW S, NEW n \in Nat, NEW q, \A i \in 1 .. n : q[i] \in Seq(S)
  PROVE  Upto(q, n) \in Seq(S) /\ Upto(q, 0) = <<>>
<1>1. Upto(q, 0) = <<>>
  <2>1. PICK z : z = [i \in 1 .. 0 |-> q[i]]
    OBVIOUS
  <2>2. z \in [1 .. 0 -> Seq(S)] /\ 0 \in Nat
    BY <2>1
  <2>3. QED
    BY <2>1, <2>2, FlattenIs DEF Upto
<1>2. Upto(q, n) \in Seq(S)
  <2>1. PICK z : z = [i \in 1 .. n |-> q[i]]
    OBVIOUS
  <2>2. z \in [1 .. n -> Seq(S)]
    BY <2>1
  <2>3. QED
    BY <2>1, <2>2, FlattenTyped DEF Upto
<1>3. QED
  BY <1>1, <1>2
------------------------------------------------------------------------------
(* The bytes on the wire, item by item.                                    *)

\* The bytes behind the first a, up to the b-th.
Between(w, a, b) == SubSeq(w, a + 1, b)

\* They are bytes of w.
LEMMA BetweenIs ==
  ASSUME NEW w \in Bytes, NEW a \in Nat, NEW b \in Nat, a <= b, b <= Len(w)
  PROVE  /\ Between(w, a, b) \in Bytes
         /\ Len(Between(w, a, b)) = b - a
         /\ \A i \in 1 .. b - a : Between(w, a, b)[i] = w[a + i]
         /\ a = b => Between(w, a, b) = <<>>
<1>1. PICK k \in Nat \ {0} : k = a + 1
  OBVIOUS
<1>2. b \in 0 .. Len(w) /\ b - k + 1 = b - a /\ (~ (k <= b) => b - a = 0)
  BY <1>1 DEF Bytes
<1>3. PICK r : r = SubSeq(w, k, b)
  OBVIOUS
<1>4. /\ r \in Bytes /\ Len(r) = IF k <= b THEN b - k + 1 ELSE 0
      /\ \A i \in 1 .. b - k + 1 : r[i] = w[k + i - 1]
  BY <1>2, <1>3, PartOfBuffer
<1>5. \A i \in 1 .. b - a : k + i - 1 = a + i
  BY <1>1
<1>6. r \in Bytes /\ Len(r) = b - a /\ \A i \in 1 .. b - a : r[i] = w[a + i]
  BY <1>2, <1>4, <1>5
<1>7. a = b => r = <<>>
  BY <1>6 DEF Bytes
<1>8. QED
  BY <1>1, <1>3, <1>6, <1>7 DEF Between

\* What lies between, in two parts.
LEMMA BetweenJoins ==
  ASSUME NEW w \in Bytes, NEW a \in Nat, NEW b \in Nat, NEW c \in Nat,
         a <= b, b <= c, c <= Len(w)
  PROVE  Between(w, a, b) \o Between(w, b, c) = Between(w, a, c)
<1>1. PICK m \in 1 .. Len(w) + 1 : m = a + 1
  BY DEF Bytes
<1>2. b \in m - 1 .. Len(w) /\ c \in b .. Len(w)
  BY <1>1 DEF Bytes
<1>3. SubSeq(w, m, b) \o SubSeq(w, b + 1, c) = SubSeq(w, m, c)
  BY <1>2, ConcatAdjacentSubSeq DEF Bytes
<1>4. QED
  BY <1>1, <1>3 DEF Between

\* The first part of what lies between.
LEMMA BetweenPart ==
  ASSUME NEW w \in Bytes, NEW a \in Nat, NEW b \in Nat, NEW c \in Nat,
         a <= b, b <= c, c <= Len(w)
  PROVE  SubSeq(Between(w, a, c), 1, b - a) = Between(w, a, b)
<1>0. a <= c /\ b <= Len(w)
  BY DEF Bytes
<1>1. PICK x \in Bytes : /\ x = Between(w, a, c) /\ Len(x) = c - a
                         /\ \A i \in 1 .. c - a : x[i] = w[a + i]
  <2>1. /\ Between(w, a, c) \in Bytes /\ Len(Between(w, a, c)) = c - a
        /\ \A i \in 1 .. c - a : Between(w, a, c)[i] = w[a + i]
    BY <1>0, BetweenIs
  <2>2. QED
    BY <2>1
<1>2. PICK y \in Bytes : /\ y = Between(w, a, b) /\ Len(y) = b - a
                         /\ \A i \in 1 .. b - a : y[i] = w[a + i]
  <2>1. /\ Between(w, a, b) \in Bytes /\ Len(Between(w, a, b)) = b - a
        /\ \A i \in 1 .. b - a : Between(w, a, b)[i] = w[a + i]
    BY <1>0, BetweenIs
  <2>2. QED
    BY <2>1
<1>3. PICK k \in Nat : k = b - a /\ k <= Len(x) /\ k \in 0 .. Len(x)
  BY <1>1
<1>4. PICK z : z = SubSeq(x, 1, k)
  OBVIOUS
<1>5. z \in Bytes /\ Len(z) = k /\ \A i \in 1 .. k : z[i] = x[i]
  <2>1. /\ z \in Bytes /\ Len(z) = IF 1 <= k THEN k - 1 + 1 ELSE 0
        /\ \A i \in 1 .. k - 1 + 1 : z[i] = x[1 + i - 1]
    <3>1. 1 \in Nat \ {0}
      OBVIOUS
    <3>2. QED
      BY <1>3, <1>4, <3>1, PartOfBuffer
  <2>2. k - 1 + 1 = k /\ (~ (1 <= k) => k = 0) /\ \A i \in 1 .. k : 1 + i - 1 = i
    OBVIOUS
  <2>3. QED
    BY <2>1, <2>2
<1>6. z = y
  <2>1. ASSUME NEW i \in 1 .. Len(z) PROVE z[i] = y[i]
    BY <1>1, <1>2, <1>3, <1>5
  <2>2. Len(z) = Len(y)
    BY <1>2, <1>3, <1>5
  <2>3. QED
    BY <1>2, <1>5, <2>1, <2>2, SeqEqual DEF Bytes
<1>7. QED
  BY <1>1, <1>2, <1>3, <1>4, <1>6

\* More bytes behind change nothing.
LEMMA BetweenOfJoined ==
  ASSUME NEW s \in Bytes, NEW d \in Bytes, NEW a \in Nat, NEW b \in Nat, a <= b, b <= Len(s)
  PROVE  Between(s \o d, a, b) = Between(s, a, b)
<1>1. PICK t \in Bytes : t = s \o d
  BY JoinedBuffers
<1>2. /\ Len(t) = Len(s) + Len(d) /\ Len(s) \in Nat /\ Len(d) \in Nat
      /\ \A i \in 1 .. Len(s) : t[i] = s[i]
  BY <1>1, JoinedBuffers
<1>3. b <= Len(t)
  BY <1>2
<1>4. /\ Between(t, a, b) \in Bytes /\ Len(Between(t, a, b)) = b - a
      /\ \A i \in 1 .. b - a : Between(t, a, b)[i] = t[a + i]
  BY <1>3, BetweenIs
<1>5. /\ Between(s, a, b) \in Bytes /\ Len(Between(s, a, b)) = b - a
      /\ \A i \in 1 .. b - a : Between(s, a, b)[i] = s[a + i]
  BY BetweenIs
<1>6. \A i \in 1 .. b - a : a + i \in 1 .. Len(s)
  BY <1>2
<1>7. \A i \in 1 .. b - a : Between(t, a, b)[i] = Between(s, a, b)[i]
  BY <1>2, <1>4, <1>5, <1>6
<1>8. Between(t, a, b) = Between(s, a, b)
  BY <1>4, <1>5, <1>7, SeqEqual DEF Bytes
<1>9. QED
  BY <1>1, <1>8

\* Where the n-th of some byte strings ends when they are joined.
EndOf(q, n) == Len(Upto(q, n))

\* The strings lie one behind the other.
LEMMA LaidOut ==
  ASSUME NEW n \in Nat, NEW q, \A i \in 1 .. n : q[i] \in Bytes
  PROVE  /\ Upto(q, n) \in Bytes /\ EndOf(q, 0) = 0
         /\ \A i \in 0 .. n : EndOf(q, i) \in Nat /\ EndOf(q, i) <= Len(Upto(q, n))
         /\ \A i \in 1 .. n : /\ EndOf(q, i) = EndOf(q, i - 1) + Len(q[i])
                              /\ Between(Upto(q, n), EndOf(q, i - 1), EndOf(q, i)) = q[i]
<1> DEFINE Laid(k) ==
             /\ Upto(q, k) \in Bytes
             /\ \A i \in 0 .. k : EndOf(q, i) \in Nat /\ EndOf(q, i) <= Len(Upto(q, k))
             /\ \A i \in 1 .. k : /\ EndOf(q, i) = EndOf(q, i - 1) + Len(q[i])
                                  /\ Between(Upto(q, k), EndOf(q, i - 1), EndOf(q, i)) = q[i]
           P == {k \in Nat : k \in 0 .. n => Laid(k)}
<1>0. Upto(q, 0) = <<>> /\ EndOf(q, 0) = 0 /\ <<>> \in Bytes /\ Len(<<>>) = 0
  <2>1. FlattenSeq([i \in 1 .. 0 |-> q[i]]) = <<>>
    <3>1. PICK z : z = [i \in 1 .. 0 |-> q[i]]
      OBVIOUS
    <3>2. z \in [1 .. 0 -> Seq(Nat)] /\ 0 \in Nat
      BY <3>1
    <3>3. QED
      BY <3>1, <3>2, FlattenIs
  <2>2. QED
    BY <2>1 DEF Upto, EndOf, Bytes
<1>1. 0 \in P
  BY <1>0
<1>2. ASSUME NEW k \in Nat, k \in P PROVE k + 1 \in P
  <2> SUFFICES ASSUME k + 1 \in 0 .. n PROVE Laid(k + 1)
    OBVIOUS
  <2>1. Laid(k)
    BY <1>2
  <2>2. \A i \in 1 .. k + 1 : q[i] \in Bytes
    OBVIOUS
  <2>3. PICK d \in Bytes : d = q[k + 1]
    BY <2>2
  <2>4. PICK s \in Bytes : s = Upto(q, k)
    BY <2>1
  <2>5. PICK t \in Bytes : t = s \o d /\ t = Upto(q, k + 1)
    <3>1. Upto(q, k + 1) = s \o d
      BY <2>2, <2>3, <2>4, UptoGrows DEF Bytes
    <3>2. QED
      BY <3>1, JoinedBuffers
  <2>6. Len(t) = Len(s) + Len(d) /\ Len(s) \in Nat /\ Len(d) \in Nat /\ Len(t) \in Nat
    BY <2>5, JoinedBuffers
  <2>7. EndOf(q, k) = Len(s) /\ EndOf(q, k + 1) = Len(t)
    BY <2>4, <2>5 DEF EndOf
  <2>8. ASSUME NEW i \in 0 .. k + 1 PROVE EndOf(q, i) \in Nat /\ EndOf(q, i) <= Len(t)
    <3>1. CASE i \in 0 .. k
      BY <2>1, <2>4, <2>6, <3>1
    <3>2. CASE i = k + 1
      BY <2>6, <2>7, <3>2
    <3>3. QED
      BY <3>1, <3>2
  <2>9. ASSUME NEW i \in 1 .. k + 1
        PROVE  /\ EndOf(q, i) = EndOf(q, i - 1) + Len(q[i])
               /\ Between(t, EndOf(q, i - 1), EndOf(q, i)) = q[i]
    <3>1. CASE i \in 1 .. k
      <4>1. PICK a \in Nat, b \in Nat : a = EndOf(q, i - 1) /\ b = EndOf(q, i) /\ b <= Len(s)
                                        /\ b = a + Len(q[i]) /\ Between(s, a, b) = q[i]
                                        /\ Len(q[i]) \in Nat
        <5>1. i \in 0 .. k /\ i - 1 \in 0 .. k /\ Len(q[i]) \in Nat
          BY <2>2, <3>1 DEF Bytes
        <5>2. QED
          BY <2>1, <2>4, <3>1, <5>1
      <4>2. a <= b /\ EndOf(q, i - 1) = a
        BY <4>1
      <4>5. Between(s \o d, a, b) = Between(s, a, b)
        BY <4>1, <4>2, BetweenOfJoined
      <4>6. Between(t, a, b) = Between(s, a, b)
        BY <2>5, <4>5
      <4>7. QED
        BY <4>1, <4>6
    <3>2. CASE i = k + 1
      <4>1. i - 1 = k
        BY <3>2
      <4>2. EndOf(q, i) = EndOf(q, i - 1) + Len(q[i])
        BY <2>3, <2>6, <2>7, <3>2, <4>1
      <4>3. Between(t, Len(s), Len(t)) = d
        <5>1. SubSeq(s \o d, Len(s) + 1, Len(s \o d)) = SubSeq(s, Len(s) + 1, Len(s)) \o d
          BY <2>6, JoinedParts
        <5>2. SubSeq(s, Len(s) + 1, Len(s)) = <<>>
          BY <2>6, SubSeqEmpty
        <5>3. <<>> \o d = d
          BY ConcatEmptySeq DEF Bytes
        <5>4. QED
          BY <2>5, <5>1, <5>2, <5>3 DEF Between
      <4>4. QED
        BY <2>3, <2>7, <3>2, <4>1, <4>2, <4>3
    <3>3. QED
      BY <3>1, <3>2
  <2>10. QED
    BY <2>5, <2>8, <2>9
<1> HIDE DEF P
<1>3. \A k \in Nat : k \in P
  BY <1>1, <1>2, NaturalsFrom
<1>4. Laid(n)
  BY <1>3 DEF P
<1>5. QED
  BY <1>0, <1>4

\* How many strings have arrived whole with the first p bytes.
LEMMA Position ==
  ASSUME NEW n \in Nat, NEW q, \A i \in 1 .. n : q[i] \in Bytes,
         NEW p \in Nat, p <= Len(Upto(q, n))
  PROVE  \E d \in 0 .. n : /\ EndOf(q, d) <= p
                           /\ d < n => p < EndOf(q, d + 1)
                           /\ {i \in 1 .. n : EndOf(q, i) <= p} = 1 .. d
<1>1. \A j \in 0 .. n : \A i \in 0 .. j : EndOf(q, i) \in Nat /\ EndOf(q, i) <= EndOf(q, j)
  <2>1. ASSUME NEW j \in 0 .. n PROVE \A i \in 0 .. j : EndOf(q, i) \in Nat /\ EndOf(q, i) <= EndOf(q, j)
    <3>1. j \in Nat /\ \A i \in 1 .. j : q[i] \in Bytes
      OBVIOUS
    <3>2. QED
      BY <3>1, LaidOut DEF EndOf
  <2>2. QED
    BY <2>1
<1> DEFINE T == {i \in 0 .. n : p < EndOf(q, i)} \cup {n + 1}
<1>2. T \subseteq Nat /\ T # {}
  OBVIOUS
<1>3. PICK x \in T : \A y \in T : x <= y
  <2> HIDE DEF T
  <2>1. QED
    BY <1>2, LeastNatural
<1>4. EndOf(q, 0) = 0
  BY LaidOut
<1>5. x \in Nat /\ x # 0 /\ x <= n + 1
  BY <1>3, <1>4
<1>6. PICK d \in 0 .. n : x = d + 1
  BY <1>5
<1>7. \A i \in 0 .. n : i <= d => EndOf(q, i) <= p
  <2>1. ASSUME NEW i \in 0 .. n, i <= d PROVE EndOf(q, i) <= p
    <3>1. ~ (x <= i)
      BY <1>6, <2>1
    <3>2. i \notin T
      BY <1>3, <3>1
    <3>3. EndOf(q, i) \in Nat /\ ~ (p < EndOf(q, i))
      BY <1>1, <3>2
    <3>4. QED
      BY <3>3
  <2>2. QED
    BY <2>1
<1>8. d < n => p < EndOf(q, d + 1)
  BY <1>3, <1>6
<1>9. \A i \in 1 .. n : d < i => ~ (EndOf(q, i) <= p)
  <2>1. ASSUME NEW i \in 1 .. n, d < i PROVE ~ (EndOf(q, i) <= p)
    <3>1. d < n /\ d + 1 \in 0 .. i /\ i \in 0 .. n
      BY <2>1
    <3>2. EndOf(q, d + 1) \in Nat /\ EndOf(q, d + 1) <= EndOf(q, i) /\ EndOf(q, i) \in Nat
      BY <1>1, <3>1
    <3>3. QED
      BY <1>8, <3>1, <3>2
  <2>2. QED
    BY <2>1
<1>10. {i \in 1 .. n : EndOf(q, i) <= p} = 1 .. d
  BY <1>7, <1>9
<1>11. QED
  BY <1>7, <1>8, <1>10

\* Joining three sequences, in either order.
LEMMA Associate ==
  ASSUME NEW E, NEW x \in Seq(E), NEW y \in Seq(E), NEW z \in Seq(E)
  PROVE  (x \o y) \o z = x \o (y \o z)
  BY ConcatAssociative

\* A parser takes each of the strings i + 1 to d off the front of whatever follows, if
\* it begins with one of leads: it makes e of it, and goes on with the rest.
TakesOff(q, e, out, kept, leads, j, d) ==
  \A i \in 1 .. d : j < i => \A r \in Bytes : r = <<>> \/ r[1] \in leads =>
     out[q[i] \o r] = e[i] \o out[r] /\ kept[q[i] \o r] = kept[r]

\* Every string of which there is something before p begins so.
LedBy(q, leads, j, n, p) ==
  \A i \in 1 .. n : j < i /\ EndOf(q, i - 1) < p => q[i][1] \in leads

\* The strings, what they say, and what a parser makes of any bytes.
Strings(E, q, e, out, n) ==
  /\ \A i \in 1 .. n : q[i] \in Bytes /\ q[i] # <<>> /\ e[i] \in Seq(E)
  /\ \A b \in Bytes : out[b] \in Seq(E)

\* Such a parser goes on after the first j strings with all bytes up to the p-th,
\* the strings up to the d-th among them.
GoesOn(E, q, e, out, kept, leads, n, j, d, p) ==
  /\ n \in Nat /\ j \in 0 .. n /\ d \in j .. n /\ p \in Nat
  /\ EndOf(q, d) <= p /\ p <= Len(Upto(q, n))
  /\ Strings(E, q, e, out, n)
  /\ LedBy(q, leads, j, n, p) /\ TakesOff(q, e, out, kept, leads, j, d)

\* It makes of these strings what they say, and is left with the beginning of the next.
LEMMA Chopped ==
  ASSUME NEW E, NEW q, NEW e, NEW out, NEW kept, NEW leads, NEW n, NEW j, NEW d, NEW p,
         GoesOn(E, q, e, out, kept, leads, n, j, d, p)
  PROVE  /\ Upto(e, j) \o out[Between(Upto(q, n), EndOf(q, j), p)]
              = Upto(e, d) \o out[Between(Upto(q, n), EndOf(q, d), p)]
         /\ kept[Between(Upto(q, n), EndOf(q, j), p)]
              = kept[Between(Upto(q, n), EndOf(q, d), p)]
<1>b. /\ n \in Nat /\ j \in 0 .. n /\ d \in j .. n /\ p \in Nat
      /\ EndOf(q, d) <= p /\ p <= Len(Upto(q, n)) /\ Strings(E, q, e, out, n)
      /\ LedBy(q, leads, j, n, p) /\ TakesOff(q, e, out, kept, leads, j, d)
  BY DEF GoesOn
<1> USE <1>b
<1>0. /\ \A i \in 1 .. n : q[i] \in Bytes /\ q[i] # <<>> /\ e[i] \in Seq(E)
      /\ \A b \in Bytes : out[b] \in Seq(E)
  BY DEF Strings
<1>1. PICK w \in Bytes : /\ w = Upto(q, n) /\ p <= Len(w) /\ Len(w) \in Nat
                         /\ \A i \in 0 .. n : EndOf(q, i) \in Nat /\ EndOf(q, i) <= Len(w)
                         /\ \A i \in 1 .. n :
                              /\ EndOf(q, i) = EndOf(q, i - 1) + Len(q[i])
                              /\ Between(w, EndOf(q, i - 1), EndOf(q, i)) = q[i]
  <2>1. \A i \in 1 .. n : q[i] \in Bytes
    BY <1>0
  <2>2. /\ Upto(q, n) \in Bytes
        /\ \A i \in 0 .. n : EndOf(q, i) \in Nat /\ EndOf(q, i) <= Len(Upto(q, n))
        /\ \A i \in 1 .. n : /\ EndOf(q, i) = EndOf(q, i - 1) + Len(q[i])
                             /\ Between(Upto(q, n), EndOf(q, i - 1), EndOf(q, i)) = q[i]
    BY <2>1, LaidOut
  <2>3. QED
    BY <2>2 DEF Bytes
<1>a. p <= Len(w) /\ Len(w) \in Nat
  BY <1>1
<1> DEFINE Rest(i) == Between(w, EndOf(q, i), p)
           Claim(i) == /\ EndOf(q, i) <= p
                       /\ Upto(e, i) \o out[Rest(i)] = Upto(e, d) \o out[Rest(d)]
                       /\ kept[Rest(i)] = kept[Rest(d)]
           P == {m \in Nat : m <= d - j => Claim(d - m)}
<1>2. 0 \in P
  <2>1. d - 0 = d
    OBVIOUS
  <2>2. QED
    BY <2>1
<1>3. ASSUME NEW m \in Nat, m \in P PROVE m + 1 \in P
  <2> SUFFICES ASSUME m + 1 <= d - j PROVE Claim(d - (m + 1))
    <3> HIDE DEF Claim
    <3>1. QED
      OBVIOUS
  <2>0. m <= d - j
    OBVIOUS
  <2>a. Claim(d - m)
    BY <1>3, <2>0
  <2> HIDE DEF P, Claim, Rest
  <2>b. j \in Nat /\ d \in Nat /\ j <= d /\ d <= n /\ m + 1 <= d - j
    OBVIOUS
  <2>1. PICK i \in 1 .. n : i = d - m /\ i - 1 = d - (m + 1) /\ j < i /\ i \in 1 .. d
                            /\ i - 1 \in 0 .. n /\ i \in 0 .. n
    <3>1. PICK i : i = d - m
      OBVIOUS
    <3>2. i \in 1 .. n /\ i - 1 = d - (m + 1) /\ j < i /\ i \in 1 .. d /\ i - 1 \in 0 .. n /\ i \in 0 .. n
      BY <2>b, <3>1
    <3>3. QED
      BY <3>1, <3>2
  <2>2. /\ EndOf(q, i) <= p
        /\ Upto(e, i) \o out[Rest(i)] = Upto(e, d) \o out[Rest(d)]
        /\ kept[Rest(i)] = kept[Rest(d)]
    BY <2>a, <2>1 DEF Claim
  <2>3. PICK a \in Nat, b \in Nat :
           /\ a = EndOf(q, i - 1) /\ b = EndOf(q, i) /\ a <= b /\ b <= p
           /\ Between(w, a, b) = q[i]
    <3>1. q[i] \in Bytes /\ Len(q[i]) \in Nat
      BY <1>0 DEF Bytes
    <3>2. EndOf(q, i - 1) \in Nat /\ EndOf(q, i) = EndOf(q, i - 1) + Len(q[i])
          /\ Between(w, EndOf(q, i - 1), EndOf(q, i)) = q[i]
      BY <1>1, <2>1
    <3>3. EndOf(q, i) \in Nat /\ EndOf(q, i - 1) <= EndOf(q, i)
      BY <3>1, <3>2
    <3>4. QED
      BY <2>2, <3>2, <3>3
  <2>4. Rest(i - 1) = q[i] \o Rest(i) /\ Rest(i) \in Bytes
    <3>1. Between(w, a, b) \o Between(w, b, p) = Between(w, a, p)
      <4>1. a <= b /\ b <= p /\ p <= Len(w)
        BY <1>a, <2>3
      <4>2. QED
        BY ONLY <4>1, w \in Bytes, a \in Nat, b \in Nat, p \in Nat, BetweenJoins
    <3>2. Between(w, b, p) \in Bytes
      BY <1>a, <2>3, BetweenIs
    <3>3. QED
      BY <2>3, <3>1, <3>2 DEF Rest
  <2>5. Rest(i) = <<>> \/ Rest(i)[1] \in leads
    <3>1. CASE b = p
      BY <1>1, <2>3, <3>1, BetweenIs DEF Rest
    <3>2. CASE b # p
      <4>1. b < p /\ 1 \in 1 .. p - b
        BY <2>3, <3>2
      <4>2. Rest(i)[1] = w[b + 1]
        <5>1. \A k \in 1 .. p - b : Between(w, b, p)[k] = w[b + k]
          BY <1>a, <2>3, BetweenIs
        <5>2. QED
          BY <2>3, <4>1, <5>1 DEF Rest
      <4>3. i # n
        BY <1>1, <2>3, <4>1 DEF EndOf
      <4>4. PICK h \in 1 .. n : h = i + 1 /\ h - 1 = i /\ j < h
        BY <2>1, <4>3
      <4>5. PICK c \in Nat : /\ c = EndOf(q, h) /\ b <= c /\ c <= Len(w) /\ 1 \in 1 .. c - b
                             /\ Between(w, b, c) = q[h]
        <5>1. q[h] \in Bytes /\ Len(q[h]) \in Nat /\ Len(q[h]) # 0
          BY <1>0 DEF Bytes
        <5>2. h \in 0 .. n
          OBVIOUS
        <5>3. EndOf(q, h) = b + Len(q[h]) /\ EndOf(q, h) \in Nat /\ EndOf(q, h) <= Len(w)
          BY <1>1, <2>3, <4>4, <5>2
        <5>4. b <= EndOf(q, h) /\ 1 \in 1 .. EndOf(q, h) - b
          BY <5>1, <5>3
        <5>5. Between(w, b, EndOf(q, h)) = q[h]
          BY <1>1, <2>3, <4>4
        <5>6. QED
          BY <5>3, <5>4, <5>5
      <4>6. q[h][1] = w[b + 1]
        <5>1. \A k \in 1 .. c - b : Between(w, b, c)[k] = w[b + k]
          BY <4>5, BetweenIs
        <5>2. QED
          BY <4>5, <5>1
      <4>7. q[h][1] \in leads
        BY <2>3, <4>1, <4>4 DEF LedBy
      <4>8. QED
        BY <4>2, <4>6, <4>7
    <3>3. QED
      BY <3>1, <3>2
  <2>6. out[q[i] \o Rest(i)] = e[i] \o out[Rest(i)] /\ kept[q[i] \o Rest(i)] = kept[Rest(i)]
    <3>1. PICK r \in Bytes : r = Rest(i)
      BY <2>4
    <3>2. r = <<>> \/ r[1] \in leads
      BY <2>5, <3>1
    <3>3. out[q[i] \o r] = e[i] \o out[r] /\ kept[q[i] \o r] = kept[r]
      BY <2>1, <3>2 DEF TakesOff
    <3>4. QED
      BY <3>1, <3>3
  <2>7. Upto(e, i - 1) \o out[Rest(i - 1)] = Upto(e, i) \o out[Rest(i)]
    <3>1. PICK k \in Nat : k = i - 1 /\ k + 1 = i /\ \A x \in 1 .. k + 1 : e[x] \in Seq(E)
      <4>1. i - 1 \in Nat /\ (i - 1) + 1 = i /\ \A x \in 1 .. i : x \in 1 .. n
        BY <2>1
      <4>2. QED
        BY <1>0, <4>1
    <3>2. Upto(e, k) \in Seq(E) /\ Upto(e, k + 1) = Upto(e, k) \o e[k + 1]
      BY <3>1, UptoGrows
    <3>3. PICK x \in Seq(E), y \in Seq(E), z \in Seq(E) : x = Upto(e, k) /\ y = e[i] /\ z = out[Rest(i)]
      BY <1>0, <2>4, <3>1, <3>2
    <3>4. (x \o y) \o z = x \o (y \o z)
      BY ONLY x \in Seq(E), y \in Seq(E), z \in Seq(E), Associate
    <3>5. QED
      BY <2>4, <2>6, <3>1, <3>2, <3>3, <3>4
  <2>8. EndOf(q, i - 1) <= p
    BY <2>3
  <2>9. Claim(i - 1)
    BY <2>2, <2>4, <2>6, <2>7, <2>8 DEF Claim
  <2>10. QED
    BY <2>1, <2>9
<1> HIDE DEF P
<1>4. d - j \in P
  <2>1. \A m \in Nat : m \in P
    BY <1>2, <1>3, NaturalsFrom
  <2>2. QED
    BY <2>1
<1>5. Claim(j)
  <2>1. d - (d - j) = j /\ d - j <= d - j
    OBVIOUS
  <2>2. QED
    BY <1>4, <2>1 DEF P
<1>6. QED
  BY <1>1, <1>5
------------------------------------------------------------------------------
(* The traffic, item by item.                                              *)

BytesSent == [i \in DOMAIN traffic |-> traffic[i].bytes]
EventsSent == [i \in DOMAIN traffic |-> traffic[i].events]

\* There is traffic, of one kind of meter.
TrafficTyped == traffic # <<>> /\ \E items \in MeterKinds : traffic \in Seq(items)

\* Traffic is typed from the start.
LEMMA TrafficAtStart == Init => TrafficTyped
<1> SUFFICES ASSUME Init PROVE TrafficTyped
  OBVIOUS
<1>1. PICK items \in MeterKinds : traffic \in SeqOf(items, MaxItems) /\ traffic # <<>>
  BY DEF Init
<1>2. PICK m \in Nat : traffic \in [1 .. m -> items]
  <2>1. MaxItems \in Nat
    BY TrafficAssumption
  <2>2. QED
    BY <1>1, <2>1 DEF SeqOf
<1>3. traffic \in Seq(items)
  BY <1>2
<1>4. QED
  BY <1>1, <1>3 DEF TrafficTyped

\* The items lie on the wire one behind the other.
LEMMA WireIs ==
  ASSUME TrafficTyped
  PROVE  /\ Len(traffic) \in Nat \ {0} /\ DOMAIN traffic = 1 .. Len(traffic)
         /\ \A i \in 1 .. Len(traffic) : /\ BytesSent[i] = traffic[i].bytes
                                         /\ EventsSent[i] = traffic[i].events
                                         /\ BytesSent[i] \in Bytes
         /\ Wire = Upto(BytesSent, Len(traffic))
         /\ \A i \in 0 .. Len(traffic) : WireLength(i) = EndOf(BytesSent, i)
<1>1. PICK items \in MeterKinds : traffic \in Seq(items) /\ traffic # <<>>
  BY DEF TrafficTyped
<1>2. PICK n \in Nat \ {0} : n = Len(traffic) /\ DOMAIN traffic = 1 .. n
  BY <1>1
<1>3. \A i \in 1 .. n : BytesSent[i] = traffic[i].bytes /\ EventsSent[i] = traffic[i].events
  BY <1>2 DEF BytesSent, EventsSent
<1>4. \A i \in 1 .. n : BytesSent[i] \in Bytes
  <2>1. \A i \in 1 .. n : traffic[i] \in items
    BY <1>1, <1>2
  <2>2. \A item \in items : item.bytes \in Seq(Byte)
    BY TrafficAssumption
  <2>3. QED
    BY <1>3, <2>1, <2>2 DEF Bytes, Byte
<1>5. Wire = Upto(BytesSent, n)
  <2>1. [i \in DOMAIN traffic |-> traffic[i].bytes] = [i \in 1 .. n |-> BytesSent[i]]
    BY <1>2, <1>3
  <2>2. QED
    BY <2>1 DEF Wire, WireOf, Upto
<1>6. ASSUME NEW i \in 0 .. n PROVE WireLength(i) = EndOf(BytesSent, i)
  <2>1. PICK t : t = SubSeq(traffic, 1, i)
    OBVIOUS
  <2>2. t \in Seq(items) /\ Len(t) = i /\ \A x \in 1 .. i : t[x] = traffic[x]
    BY <1>1, <1>2, <2>1
  <2>3. DOMAIN t = 1 .. i
    BY <2>2
  <2>4. \A x \in 1 .. i : t[x].bytes = BytesSent[x]
    BY <1>3, <2>2
  <2>5. [x \in DOMAIN t |-> t[x].bytes] = [x \in 1 .. i |-> BytesSent[x]]
    BY <2>3, <2>4
  <2>6. QED
    BY <2>1, <2>5 DEF WireLength, WireOf, EndOf, Upto
<1>7. QED
  BY <1>2, <1>3, <1>4, <1>5, <1>6

\* The first d items have arrived, and no other.
Arrived(d) ==
  /\ d \in 0 .. Len(traffic)
  /\ EndOf(BytesSent, d) <= delivered
  /\ d < Len(traffic) => delivered < EndOf(BytesSent, d + 1)
  /\ {i \in 1 .. Len(traffic) : EndOf(BytesSent, i) <= delivered} = 1 .. d

\* Some number of items has.
LEMMA ArrivedExists ==
  ASSUME TrafficTyped, NEW p \in Nat, p <= Len(Wire)
  PROVE  \E d \in 0 .. Len(traffic) :
            /\ EndOf(BytesSent, d) <= p
            /\ d < Len(traffic) => p < EndOf(BytesSent, d + 1)
            /\ {i \in 1 .. Len(traffic) : EndOf(BytesSent, i) <= p} = 1 .. d
<1>1. PICK n, q : /\ n \in Nat /\ n = Len(traffic) /\ q = BytesSent /\ Wire = Upto(q, n)
                  /\ \A i \in 1 .. n : q[i] \in Bytes
  BY WireIs
<1>2. p <= Len(Upto(q, n))
  BY <1>1
<1>3. \E d \in 0 .. n : /\ EndOf(q, d) <= p
                        /\ d < n => p < EndOf(q, d + 1)
                        /\ {i \in 1 .. n : EndOf(q, i) <= p} = 1 .. d
  BY <1>1, <1>2, Position
<1>4. QED
  BY <1>1, <1>3

\* What is due then.
LEMMA DueIs ==
  ASSUME TrafficTyped, NEW d, Arrived(d)
  PROVE  DueEvents = Upto(EventsSent, d)
<1>1. PICK n \in Nat : n = Len(traffic) /\ DOMAIN traffic = 1 .. n /\ d \in 0 .. n
  BY WireIs DEF Arrived
<1>2. \A i \in 1 .. n : WireLength(i) = EndOf(BytesSent, i)
  BY <1>1, WireIs
<1>3. Due = {i \in 1 .. n : EndOf(BytesSent, i) <= delivered}
  BY <1>1, <1>2 DEF Due
<1>4. Due = 1 .. d
  BY <1>1, <1>3 DEF Arrived
<1>5. Cardinality(1 .. d) = d
  <2>1. 1 \in Int /\ d \in Int /\ (1 > d => d = 0) /\ d - 1 + 1 = d
    BY <1>1
  <2>2. QED
    BY <2>1, FS_Interval
<1>6. \A i \in 1 .. d : traffic[i].events = EventsSent[i]
  BY <1>1, WireIs
<1>7. [i \in 1 .. d |-> traffic[i].events] = [i \in 1 .. d |-> EventsSent[i]]
  BY <1>6
<1>8. QED
  BY <1>4, <1>5, <1>7 DEF DueEvents, Upto

\* After the first d items comes the beginning of the next one, if anything.
LEMMA Beginning ==
  ASSUME TrafficTyped, NEW d \in 0 .. Len(traffic), NEW p \in Nat, p <= Len(Wire),
         EndOf(BytesSent, d) <= p, d < Len(traffic) => p < EndOf(BytesSent, d + 1)
  PROVE  LET rest == Between(Wire, EndOf(BytesSent, d), p)
         IN  /\ rest \in Bytes
             /\ \/ rest = <<>> /\ p = EndOf(BytesSent, d)
                \/ /\ d + 1 \in 1 .. Len(traffic)
                   /\ p - EndOf(BytesSent, d) \in 1 .. Len(BytesSent[d + 1]) - 1
                   /\ rest = SubSeq(BytesSent[d + 1], 1, p - EndOf(BytesSent, d))
<1>1. PICK n, q : /\ n \in Nat /\ n = Len(traffic) /\ q = BytesSent /\ Wire = Upto(q, n)
                  /\ \A i \in 1 .. n : q[i] \in Bytes
  BY WireIs
<1>2. PICK w \in Bytes : /\ w = Wire /\ Len(w) \in Nat /\ p <= Len(w) /\ Len(w) = EndOf(q, n)
                         /\ \A i \in 0 .. n : EndOf(q, i) \in Nat /\ EndOf(q, i) <= Len(w)
                         /\ \A i \in 1 .. n :
                              /\ EndOf(q, i) = EndOf(q, i - 1) + Len(q[i])
                              /\ Between(w, EndOf(q, i - 1), EndOf(q, i)) = q[i]
  <2>1. /\ Upto(q, n) \in Bytes
        /\ \A i \in 0 .. n : EndOf(q, i) \in Nat /\ EndOf(q, i) <= Len(Upto(q, n))
        /\ \A i \in 1 .. n : /\ EndOf(q, i) = EndOf(q, i - 1) + Len(q[i])
                             /\ Between(Upto(q, n), EndOf(q, i - 1), EndOf(q, i)) = q[i]
    BY <1>1, LaidOut
  <2>2. Len(Upto(q, n)) = EndOf(q, n) /\ Len(Upto(q, n)) \in Nat
    BY <2>1 DEF EndOf, Bytes
  <2>3. QED
    BY <1>1, <2>1, <2>2
<1>3. PICK a \in Nat : a = EndOf(q, d) /\ a <= p /\ a <= Len(w)
  BY <1>1, <1>2
<1>4. PICK rest : rest = Between(w, a, p)
  OBVIOUS
<1>5. rest \in Bytes /\ (a = p => rest = <<>>)
  BY <1>2, <1>3, <1>4, BetweenIs
<1>6. CASE a # p
  <2>1. d < n
    BY <1>1, <1>2, <1>3, <1>6
  <2>2. PICK h \in 1 .. n : h = d + 1 /\ h - 1 = d
    BY <1>1, <2>1
  <2>3. PICK c \in Nat : /\ c = EndOf(q, h) /\ c <= Len(w) /\ p < c /\ p <= c
                         /\ Len(q[h]) = c - a /\ Between(w, a, c) = q[h]
    <3>1. EndOf(q, h) \in Nat /\ EndOf(q, h) <= Len(w) /\ EndOf(q, h) = a + Len(q[h])
          /\ Between(w, a, EndOf(q, h)) = q[h]
      BY <1>2, <1>3, <2>2
    <3>2. p < EndOf(q, h)
      BY <1>1, <2>1, <2>2
    <3>3. Len(q[h]) \in Nat
      BY <1>1 DEF Bytes
    <3>4. QED
      BY <3>1, <3>2, <3>3
  <2>4. SubSeq(q[h], 1, p - a) = rest
    <3>1. SubSeq(Between(w, a, c), 1, p - a) = Between(w, a, p)
      BY ONLY <1>3, <2>3, w \in Bytes, a \in Nat, p \in Nat, c \in Nat, BetweenPart
    <3>2. QED
      BY <1>4, <2>3, <3>1
  <2>5. p - a \in 1 .. Len(q[h]) - 1
    <3>1. a < p /\ p < c
      <4>1. a <= p /\ a # p
        BY <1>3, <1>6
      <4>2. p < c
        BY <2>3
      <4>3. QED
        BY <4>1, <4>2
    <3>2. \A x, y, z \in Nat : x < y /\ y < z => y - x \in 1 .. (z - x) - 1
      OBVIOUS
    <3>3. p - a \in 1 .. (c - a) - 1
      BY <3>1, <3>2
    <3>4. QED
      BY <2>3, <3>3
  <2>6. QED
    BY <1>1, <1>2, <1>3, <1>4, <1>5, <2>2, <2>4, <2>5
<1>7. QED
  BY <1>1, <1>2, <1>3, <1>4, <1>5, <1>6

------------------------------------------------------------------------------
(* DLT645 traffic.                                                         *)

\* What the DLT645 parser makes of an item, whatever comes behind it: its events,
\* none before its last byte.
DltUnderstood(item) ==
  /\ item.bytes # <<>> /\ item.events \in Seq(EventType)
  /\ \A r \in Bytes : Frames[item.bytes \o r].emitted = item.events \o Frames[r].emitted
  /\ \A k \in 1 .. Len(item.bytes) - 1 : Frames[SubSeq(item.bytes, 1, k)].emitted = <<>>

\* The meter begins with a frame, and sends nothing that misleads the parser.
DltTraffic ==
  /\ Wire[1] = START_DELIMITER
  /\ \A i \in DOMAIN traffic : DltUnderstood(traffic[i])

\* A buffer without a byte holds no frame.
LEMMA NoFrames == Frames[<<>>].emitted = <<>>
<1>1. <<>> \in Bytes /\ Len(<<>>) < MIN_FRAME_LENGTH
  BY DEF Bytes, MIN_FRAME_LENGTH
<1>2. Frames[<<>>] = Turn(<<>>, Frames)
  BY <1>1, FramesUnfolds
<1>3. Turn(<<>>, Frames) = [buffer |-> <<>>, emitted |-> <<>>]
  BY <1>1 DEF Turn
<1>4. QED
  BY <1>2, <1>3

\* One push of the first p bytes gives the events of what has arrived.
LEMMA FramesOfTraffic ==
  ASSUME TrafficTyped, DltTraffic, NEW p \in Nat, p <= Len(Wire),
         NEW d \in 0 .. Len(traffic), EndOf(BytesSent, d) <= p,
         d < Len(traffic) => p < EndOf(BytesSent, d + 1)
  PROVE  Frames[SubSeq(Wire, 1, p)].emitted = Upto(EventsSent, d)
<1>a. PICK n, q, e : n = Len(traffic) /\ q = BytesSent /\ e = EventsSent
  OBVIOUS
<1>1. /\ n \in Nat /\ n = Len(traffic) /\ q = BytesSent /\ e = EventsSent
      /\ Wire = Upto(q, n) /\ DOMAIN traffic = 1 .. n
      /\ \A i \in 1 .. n : /\ q[i] = traffic[i].bytes /\ q[i] \in Bytes
                           /\ e[i] = traffic[i].events
  <2>1. /\ Len(traffic) \in Nat /\ DOMAIN traffic = 1 .. Len(traffic)
        /\ Wire = Upto(BytesSent, Len(traffic))
        /\ \A i \in 1 .. Len(traffic) :
             /\ BytesSent[i] = traffic[i].bytes /\ BytesSent[i] \in Bytes
             /\ EventsSent[i] = traffic[i].events
    BY WireIs
  <2>2. QED
    BY <1>a, <2>1
<1>2. \A i \in 1 .. n :
        /\ q[i] # <<>> /\ e[i] \in Seq(EventType)
        /\ \A r \in Bytes : Frames[q[i] \o r].emitted = e[i] \o Frames[r].emitted
        /\ \A k \in 1 .. Len(q[i]) - 1 : Frames[SubSeq(q[i], 1, k)].emitted = <<>>
  <2>1. ASSUME NEW i \in 1 .. n
        PROVE  /\ q[i] # <<>> /\ e[i] \in Seq(EventType)
               /\ \A r \in Bytes : Frames[q[i] \o r].emitted = e[i] \o Frames[r].emitted
               /\ \A k \in 1 .. Len(q[i]) - 1 : Frames[SubSeq(q[i], 1, k)].emitted = <<>>
    <3>1. PICK item : item = traffic[i] /\ q[i] = item.bytes /\ e[i] = item.events
      BY <1>1
    <3>2. DltUnderstood(item)
      BY <1>1, <3>1 DEF DltTraffic
    <3>3. QED
      BY <3>1, <3>2 DEF DltUnderstood
  <2>2. QED
    BY <2>1
<1> DEFINE out == [b \in Bytes |-> Frames[b].emitted]
           kept == [b \in Bytes |-> 0]
           leads == 0 .. 255
<1>3. \A b \in Bytes : out[b] = Frames[b].emitted /\ out[b] \in Seq(EventType)
  <2>1. ASSUME NEW b \in Bytes PROVE Frames[b].emitted \in Seq(EventType)
    <3>1. Frames[b] \in FramesResults
      BY FramesTyped
    <3>2. Frames[b].emitted \in FrameEvents
      BY <3>1 DEF FramesResults
    <3>3. QED
      BY <3>2, FrameEventsAreEvents
  <2>2. QED
    BY <2>1
<1>4. Strings(EventType, q, e, out, n)
  <2> HIDE DEF out
  <2>1. QED
    BY <1>1, <1>2, <1>3 DEF Strings
<1>5. LedBy(q, leads, 0, n, p)
  <2>1. \A i \in 1 .. n : q[i][1] \in 0 .. 255
    <3>1. ASSUME NEW i \in 1 .. n PROVE q[i][1] \in 0 .. 255
      <4>1. PICK b \in Seq(0 .. 255) : b = q[i] /\ b # <<>>
        BY <1>1, <1>2 DEF Bytes
      <4>2. Len(b) \in Nat /\ Len(b) # 0
        BY <4>1
      <4>4. 1 \in 1 .. Len(b)
        BY <4>2
      <4>5. b[1] \in 0 .. 255
        BY <4>4, ElementOfSeq
      <4>3. QED
        BY <4>1, <4>5
    <3>2. QED
      BY <3>1
  <2>2. QED
    BY <2>1 DEF LedBy
<1>6. \A r \in Bytes : \A i \in 1 .. n : q[i] \o r \in Bytes
  BY <1>1, JoinedBuffers
<1>7. TakesOff(q, e, out, kept, leads, 0, d)
  <2>1. \A i \in 1 .. d : i \in 1 .. n
    BY <1>1
  <2>2. ASSUME NEW i \in 1 .. n, NEW r \in Bytes
        PROVE  out[q[i] \o r] = e[i] \o out[r] /\ kept[q[i] \o r] = kept[r]
    <3>1. kept[q[i] \o r] = kept[r]
      BY <1>6
    <3>2. out[q[i] \o r] = Frames[q[i] \o r].emitted /\ out[r] = Frames[r].emitted
      BY <1>3, <1>6
    <3>3. QED
      BY <1>2, <3>1, <3>2
  <2> HIDE DEF out, kept
  <2>3. QED
    BY <2>1, <2>2 DEF TakesOff
<1> HIDE DEF out, kept, leads
<1>8. PICK w \in Bytes : w = Wire /\ Len(w) \in Nat /\ EndOf(q, 0) = 0
  <2>1. Upto(q, n) \in Bytes /\ EndOf(q, 0) = 0
    BY <1>1, LaidOut
  <2>2. QED
    BY <1>1, <2>1 DEF Bytes
<1>9. Upto(e, 0) \o out[Between(w, 0, p)] = Upto(e, d) \o out[Between(w, EndOf(q, d), p)]
  <2>1. GoesOn(EventType, q, e, out, kept, leads, n, 0, d, p)
    <3>1. 0 \in 0 .. n /\ d \in 0 .. n /\ EndOf(q, d) <= p /\ p <= Len(Upto(q, n)) /\ n \in Nat
      BY <1>1
    <3>2. QED
      BY <1>4, <1>5, <1>7, <3>1 DEF GoesOn
  <2>2. Upto(e, 0) \o out[Between(Upto(q, n), EndOf(q, 0), p)]
          = Upto(e, d) \o out[Between(Upto(q, n), EndOf(q, d), p)]
    <3>1. PICK o, k, l : o = out /\ k = kept /\ l = leads
      OBVIOUS
    <3>2. PICK E, z : E = EventType /\ z = 0
      OBVIOUS
    <3>3. GoesOn(E, q, e, o, k, l, n, z, d, p)
      BY <2>1, <3>1, <3>2
    <3>4. Upto(e, z) \o o[Between(Upto(q, n), EndOf(q, z), p)]
            = Upto(e, d) \o o[Between(Upto(q, n), EndOf(q, d), p)]
      BY ONLY <3>3, Chopped
    <3>5. QED
      BY <3>1, <3>2, <3>4
  <2>3. Wire = w /\ Upto(q, n) = w /\ EndOf(q, 0) = 0
    BY <1>1, <1>8
  <2>4. QED
    BY <2>2, <2>3
<1>10. PICK rest \in Bytes : /\ rest = Between(w, EndOf(q, d), p)
                             /\ out[rest] = <<>>
  <2>1. PICK rest : rest = Between(w, EndOf(q, d), p)
    OBVIOUS
  <2>2. /\ rest \in Bytes
        /\ \/ rest = <<>>
           \/ \E i \in 1 .. n : \E k \in 1 .. Len(q[i]) - 1 : rest = SubSeq(q[i], 1, k)
    BY <1>1, <1>8, <2>1, Beginning
  <2>3. Frames[rest].emitted = <<>>
    BY <1>2, <2>2, NoFrames
  <2>4. QED
    BY <1>3, <2>1, <2>2, <2>3
<1>11. PICK x \in Bytes : x = SubSeq(w, 1, p) /\ x = Between(w, 0, p)
  <2>1. Between(w, 0, p) \in Bytes
    <3>1. 0 \in Nat /\ 0 <= p /\ p <= Len(w)
      BY <1>8
    <3>2. QED
      BY <3>1, BetweenIs
  <2>2. 0 + 1 = 1
    OBVIOUS
  <2>3. QED
    BY <2>1, <2>2 DEF Between
<1>12. Upto(e, 0) = <<>> /\ Upto(e, d) \in Seq(EventType)
  <2>1. d \in Nat /\ \A i \in 1 .. d : i \in 1 .. n
    BY <1>1
  <2>2. \A i \in 1 .. d : e[i] \in Seq(EventType)
    BY <1>2, <2>1
  <2>3. QED
    BY <2>1, <2>2, UptoTyped
<1>13. QED
  <2>1. <<>> \o out[x] = Upto(e, d) \o <<>>
    BY <1>9, <1>10, <1>11, <1>12
  <2>2. <<>> \o out[x] = out[x] /\ Upto(e, d) \o <<>> = Upto(e, d)
    BY <1>3, <1>12, ConcatEmptySeq
  <2>3. QED
    BY <1>1, <1>3, <1>8, <1>11, <2>1, <2>2

------------------------------------------------------------------------------
(* IVY traffic.                                                            *)

\* What the callbacks receive of a push, and what it leaves.
Said(b) == FlattenSeq([i \in DOMAIN Packets[b].emitted |-> HandleIvyPacket(Packets[b].emitted[i])])
Left(b) == <<Packets[b].buffer, Packets[b].spins>>

\* The IVY parser takes an item for what it is: in a chunk of its own; or whatever
\* comes behind it, beginning with one of leads, and it waits for the rest of one
\* that has arrived in part.
IvyUnderstood(item, leads) ==
  /\ item.bytes # <<>> /\ item.events \in Seq(EventType)
  /\ item.lone => Said(item.bytes) = item.events /\ Left(item.bytes) = <<<<>>, FALSE>>
  /\ ~ item.lone =>
        /\ \A r \in Bytes : r = <<>> \/ r[1] \in leads =>
              Said(item.bytes \o r) = item.events \o Said(r) /\ Left(item.bytes \o r) = Left(r)
        /\ \A k \in 1 .. Len(item.bytes) - 1 : k \notin item.fragile =>
              LET part == SubSeq(item.bytes, 1, k)
              IN  Said(part) = <<>> /\ Left(part) = <<part, FALSE>>

\* The first bytes of the items that may be joined with others.
Leads == {traffic[i].bytes[1] : i \in {x \in DOMAIN traffic : ~ traffic[x].lone}}

\* The meter begins with an IVY header or an APDU, and sends nothing that misleads
\* the parser.
IvyTraffic ==
  /\ HasSignature(Wire) \/ Wire[1] \in RAW_DLMS_TAGS
  /\ \A i \in DOMAIN traffic : IvyUnderstood(traffic[i], Leads)

\* What is said of any bytes are events.
LEMMA SaidTyped ==
  ASSUME NEW b \in Bytes
  PROVE  Said(b) \in Seq(EventType) /\ Packets[b].buffer \in Bytes /\ Packets[b].spins \in BOOLEAN
<1>1. PICK r \in PacketsResults : r = Packets[b]
  BY PacketsTyped
<1>2. r.emitted \in Seq(PacketType) /\ r.buffer \in Bytes /\ r.spins \in BOOLEAN
  BY DEF PacketsResults
<1>3. FlattenSeq([i \in DOMAIN r.emitted |-> HandleIvyPacket(r.emitted[i])]) \in Seq(EventType)
  BY <1>2, PacketEventsTyped
<1>4. QED
  BY <1>1, <1>2, <1>3 DEF Said

\* A push that emits no packet says nothing.
LEMMA NothingSaid ==
  ASSUME NEW b, Packets[b].emitted = <<>> PROVE Said(b) = <<>>
<1>1. PICK z : z = [i \in DOMAIN Packets[b].emitted |-> HandleIvyPacket(Packets[b].emitted[i])]
  OBVIOUS
<1>2. z \in [1 .. 0 -> Seq(EventType)] /\ 0 \in Nat
  BY <1>1
<1>3. FlattenSeq(z) = <<>>
  BY <1>2, FlattenIs
<1>4. QED
  BY <1>1, <1>3 DEF Said

\* Of no bytes it says nothing.
LEMMA NoPackets == Said(<<>>) = <<>> /\ Left(<<>>) = <<<<>>, FALSE>>
<1>1. <<>> \in Bytes
  BY DEF Bytes
<1>2. Packets[<<>>] = [buffer |-> <<>>, emitted |-> <<>>, spins |-> FALSE]
  <2>1. Packets[<<>>] = Round(<<>>, Packets)
    BY <1>1, PacketsUnfold
  <2>2. QED
    BY <2>1 DEF Round
<1>3. QED
  BY <1>2, NothingSaid DEF Left

\* The same item by item, for a chunk from p0 to p that cuts nothing it must not.
Smooth(p0, p) ==
  \A i \in 1 .. Len(traffic) :
     /\ p - EndOf(BytesSent, i - 1) \notin traffic[i].fragile
     /\ (traffic[i].lone /\ p0 < EndOf(BytesSent, i) /\ p > EndOf(BytesSent, i - 1)) =>
           p0 = EndOf(BytesSent, i - 1) /\ p = EndOf(BytesSent, i)

\* A chunk that tears nothing.
LEMMA SmoothIs ==
  ASSUME TrafficTyped, delivered \in Nat, NEW n \in Nat, ~ Tears(n)
  PROVE  /\ Smooth(delivered, delivered + n)
         /\ delivered = 0 /\ n < 4 => Wire[1] # 0
<1>1. PICK m \in Nat \ {0} : m = Len(traffic) /\ DOMAIN traffic = 1 .. m
  BY WireIs
<1>2. \A i \in 0 .. m : WireLength(i) = EndOf(BytesSent, i)
  BY <1>1, WireIs
<1>3. \A i \in 0 .. m : EndOf(BytesSent, i) \in Nat
  <2>1. \A i \in 1 .. m : BytesSent[i] \in Bytes
    BY <1>1, WireIs
  <2>2. PICK q : q = BytesSent
    OBVIOUS
  <2>3. \A i \in 0 .. m : EndOf(q, i) \in Nat
    BY <2>1, <2>2, LaidOut
  <2>4. QED
    BY <2>2, <2>3
<1>4. PICK p \in Nat, from \in Nat : p = delivered + n /\ from = delivered
  OBVIOUS
<1>5. ASSUME NEW i \in 1 .. m
      PROVE  /\ p - EndOf(BytesSent, i - 1) \notin traffic[i].fragile
             /\ (traffic[i].lone /\ from < EndOf(BytesSent, i)
                 /\ p > EndOf(BytesSent, i - 1)) =>
                   from = EndOf(BytesSent, i - 1) /\ p = EndOf(BytesSent, i)
  <2>1. i \in 0 .. m /\ i - 1 \in 0 .. m
    OBVIOUS
  <2>2. PICK x \in Nat, y \in Nat : /\ x = WireLength(i - 1) /\ y = WireLength(i)
                                   /\ x = EndOf(BytesSent, i - 1) /\ y = EndOf(BytesSent, i)
    BY <1>2, <1>3, <2>1
  <2>4. delivered + n - x \notin traffic[i].fragile
    BY <1>1, <2>2 DEF Tears
  <2>5. ~ (/\ traffic[i].lone /\ delivered < y /\ delivered + n > x
           /\ ~ (delivered = x /\ delivered + n = y))
    BY <1>1, <2>2, Zenon DEF Tears
  <2>6. p - x \notin traffic[i].fragile
    BY <1>4, <2>4
  <2>7. ASSUME traffic[i].lone, from < y, p > x PROVE from = x /\ p = y
    <3>1. delivered < y /\ delivered + n > x
      BY <1>4, <2>7
    <3>2. delivered = x /\ delivered + n = y
      BY <2>5, <2>7, <3>1, Zenon
    <3>3. QED
      BY <1>4, <3>2
  <2>8. QED
    BY <2>2, <2>6, <2>7, Zenon
<1>6. delivered = 0 /\ n < 4 => Wire[1] # 0
  BY DEF Tears
<1>7. Smooth(from, p)
  BY <1>1, <1>5, Zenon DEF Smooth
<1>8. QED
  BY <1>4, <1>6, <1>7

\* The items end one behind the other.
LEMMA EndsGrow ==
  ASSUME TrafficTyped, \A i \in 1 .. Len(traffic) : BytesSent[i] # <<>>
  PROVE  /\ \A i \in 0 .. Len(traffic) : EndOf(BytesSent, i) \in Nat
         /\ \A i \in 1 .. Len(traffic) :
               /\ EndOf(BytesSent, i - 1) < EndOf(BytesSent, i)
               /\ Between(Wire, EndOf(BytesSent, i - 1), EndOf(BytesSent, i)) = BytesSent[i]
               /\ EndOf(BytesSent, i) <= Len(Wire)
         /\ \A j \in 0 .. Len(traffic) : \A i \in 0 .. j : EndOf(BytesSent, i) <= EndOf(BytesSent, j)
<1>1. PICK n, q : n = Len(traffic) /\ q = BytesSent
  OBVIOUS
<1>2. n \in Nat /\ Wire = Upto(q, n) /\ \A i \in 1 .. n : q[i] \in Bytes /\ q[i] # <<>>
  BY <1>1, WireIs
<1>3. /\ \A i \in 0 .. n : EndOf(q, i) \in Nat /\ EndOf(q, i) <= Len(Upto(q, n))
      /\ \A i \in 1 .. n : /\ EndOf(q, i) = EndOf(q, i - 1) + Len(q[i])
                           /\ Between(Upto(q, n), EndOf(q, i - 1), EndOf(q, i)) = q[i]
  BY <1>2, LaidOut
<1>4. ASSUME NEW i \in 1 .. n PROVE EndOf(q, i - 1) < EndOf(q, i)
  <2>1. PICK l \in Nat : l = Len(q[i]) /\ l # 0
    BY <1>2 DEF Bytes
  <2>2. i \in 0 .. n /\ i - 1 \in 0 .. n
    BY <1>2
  <2>3. EndOf(q, i) = EndOf(q, i - 1) + l /\ EndOf(q, i - 1) \in Nat
    BY <1>3, <2>1, <2>2
  <2>4. QED
    BY <2>1, <2>3
<1>5. ASSUME NEW j \in 0 .. n PROVE \A i \in 0 .. j : EndOf(q, i) <= EndOf(q, j)
  <2>1. j \in Nat /\ \A i \in 1 .. j : q[i] \in Bytes
    BY <1>2
  <2>2. QED
    BY <2>1, LaidOut DEF EndOf
<1>6. QED
  BY <1>1, <1>2, <1>3, <1>4, <1>5

\* What is on the wire, item by item.
Sent(n, q, e, w) ==
  /\ n \in Nat /\ n = Len(traffic) /\ DOMAIN traffic = 1 .. n
  /\ q = BytesSent /\ e = EventsSent /\ w = Wire /\ w \in Bytes /\ w = Upto(q, n)
  /\ \A i \in 1 .. n : /\ q[i] = traffic[i].bytes /\ e[i] = traffic[i].events
                       /\ q[i] \in Bytes /\ q[i] # <<>> /\ e[i] \in Seq(EventType)
                       /\ EndOf(q, i - 1) < EndOf(q, i)
                       /\ Between(w, EndOf(q, i - 1), EndOf(q, i)) = q[i]
                       /\ EndOf(q, i) <= Len(w)
  /\ \A i \in 0 .. n : EndOf(q, i) \in Nat
  /\ \A j \in 0 .. n : \A i \in 0 .. j : EndOf(q, i) <= EndOf(q, j)

\* It is, for a meter that sends nothing misleading.
LEMMA SentIs ==
  ASSUME TrafficTyped, IvyTraffic PROVE \E n, q, e, w : Sent(n, q, e, w)
<1>1. PICK n, q, e, w : n = Len(traffic) /\ q = BytesSent /\ e = EventsSent /\ w = Wire
  OBVIOUS
<1>2. /\ n \in Nat /\ DOMAIN traffic = 1 .. n /\ w = Upto(q, n)
      /\ \A i \in 1 .. n : q[i] = traffic[i].bytes /\ e[i] = traffic[i].events /\ q[i] \in Bytes
  BY <1>1, WireIs
<1>3. ASSUME NEW i \in 1 .. n PROVE q[i] # <<>> /\ e[i] \in Seq(EventType)
  <2>1. IvyUnderstood(traffic[i], Leads)
    BY <1>2 DEF IvyTraffic
  <2>2. traffic[i].bytes # <<>> /\ traffic[i].events \in Seq(EventType)
    BY <2>1 DEF IvyUnderstood
  <2>3. QED
    BY <1>2, <2>2
<1>4. w \in Bytes
  <2>1. Upto(q, n) \in Bytes
    BY <1>2, LaidOut
  <2>2. QED
    BY <1>2, <2>1
<1>5. /\ \A i \in 0 .. n : EndOf(q, i) \in Nat
      /\ \A i \in 1 .. n : /\ EndOf(q, i - 1) < EndOf(q, i)
                           /\ Between(w, EndOf(q, i - 1), EndOf(q, i)) = q[i]
                           /\ EndOf(q, i) <= Len(w)
      /\ \A j \in 0 .. n : \A i \in 0 .. j : EndOf(q, i) <= EndOf(q, j)
  BY <1>1, <1>2, <1>3, EndsGrow
<1>6. Sent(n, q, e, w)
  BY <1>1, <1>2, <1>3, <1>4, <1>5 DEF Sent
<1>7. QED
  BY <1>6

\* Bytes from p0 to p, with the first d items before p0 and the first d2 before p.
Cut(n, q, w, p0, p, d, d2) ==
  /\ p0 \in Nat /\ p \in Nat /\ p0 < p /\ p <= Len(w)
  /\ d \in 0 .. n /\ EndOf(q, d) <= p0 /\ (d < n => p0 < EndOf(q, d + 1))
  /\ d2 \in 0 .. n /\ EndOf(q, d2) <= p /\ (d2 < n => p < EndOf(q, d2 + 1))

\* The parser makes of them the items that end there.
Advances(q, e, w, p, d, d2) ==
  /\ Upto(e, d) \o Said(Between(w, EndOf(q, d), p)) = Upto(e, d2)
  /\ Left(Between(w, EndOf(q, d), p)) = <<Between(w, EndOf(q, d2), p), FALSE>>

\* A chunk that is an item which has to be alone.
LEMMA AloneAdvances ==
  ASSUME IvyTraffic, NEW n, NEW q, NEW e, NEW w, Sent(n, q, e, w),
         NEW p0, NEW p, NEW d, NEW d2, Cut(n, q, w, p0, p, d, d2),
         NEW i \in 1 .. n, traffic[i].lone, p0 = EndOf(q, i - 1), p = EndOf(q, i)
  PROVE  Advances(q, e, w, p, d, d2)
<1>1. /\ n \in Nat /\ DOMAIN traffic = 1 .. n /\ w \in Bytes
      /\ \A x \in 1 .. n : /\ q[x] = traffic[x].bytes /\ e[x] = traffic[x].events
                           /\ q[x] \in Bytes /\ e[x] \in Seq(EventType)
                           /\ EndOf(q, x - 1) < EndOf(q, x)
                           /\ Between(w, EndOf(q, x - 1), EndOf(q, x)) = q[x]
                           /\ EndOf(q, x) <= Len(w)
      /\ \A x \in 0 .. n : EndOf(q, x) \in Nat
      /\ \A j \in 0 .. n : \A x \in 0 .. j : EndOf(q, x) <= EndOf(q, j)
  BY DEF Sent
<1>2. /\ p0 \in Nat /\ p \in Nat /\ p0 < p /\ p <= Len(w)
      /\ d \in 0 .. n /\ EndOf(q, d) <= p0 /\ (d < n => p0 < EndOf(q, d + 1))
      /\ d2 \in 0 .. n /\ EndOf(q, d2) <= p /\ (d2 < n => p < EndOf(q, d2 + 1))
  BY DEF Cut
<1>3. d = i - 1
  <2>1. CASE d >= i
    <3>1. i \in 0 .. d /\ d \in 0 .. n
      BY <1>1, <1>2, <2>1
    <3>2. EndOf(q, i) <= EndOf(q, d) /\ EndOf(q, d) \in Nat /\ EndOf(q, i) \in Nat
      BY <1>1, <3>1
    <3>3. QED
      BY <1>2, <3>2
  <2>2. CASE d < i - 1
    <3>1. d + 1 \in 0 .. i - 1 /\ i - 1 \in 0 .. n /\ d + 1 \in 0 .. n /\ d < n
      BY <1>1, <1>2, <2>2
    <3>2. EndOf(q, d + 1) <= EndOf(q, i - 1) /\ EndOf(q, d + 1) \in Nat
      BY <1>1, <3>1
    <3>3. QED
      BY <1>2, <3>1, <3>2
  <2>3. QED
    BY <1>1, <1>2, <2>1, <2>2
<1>4. d2 = i
  <2>1. CASE d2 > i
    <3>1. i + 1 \in 0 .. d2 /\ i + 1 \in 1 .. n /\ i + 1 \in 0 .. n /\ d2 \in 0 .. n /\ (i + 1) - 1 = i
      BY <1>1, <1>2, <2>1
    <3>2. PICK h \in 1 .. n : h = i + 1 /\ h - 1 = i /\ h \in 0 .. d2 /\ h \in 0 .. n
      BY <3>1
    <3>3. EndOf(q, i) < EndOf(q, h) /\ EndOf(q, h) <= EndOf(q, d2) /\ EndOf(q, d2) \in Nat
          /\ EndOf(q, h) \in Nat
      BY <1>1, <1>2, <3>2
    <3>4. QED
      BY <1>2, <3>3
  <2>2. CASE d2 < i
    <3>1. d2 + 1 \in 0 .. i /\ i \in 0 .. n /\ d2 + 1 \in 0 .. n /\ d2 < n
      BY <1>1, <1>2, <2>2
    <3>2. EndOf(q, d2 + 1) <= EndOf(q, i) /\ EndOf(q, d2 + 1) \in Nat
      BY <1>1, <3>1
    <3>3. QED
      BY <1>2, <3>1, <3>2
  <2>3. QED
    BY <1>1, <1>2, <2>1, <2>2
<1>5. Between(w, EndOf(q, d), p) = q[i]
  BY <1>1, <1>3
<1>6. Said(q[i]) = e[i] /\ Left(q[i]) = <<<<>>, FALSE>>
  <2>1. IvyUnderstood(traffic[i], Leads)
    BY <1>1 DEF IvyTraffic
  <2>2. Said(traffic[i].bytes) = traffic[i].events /\ Left(traffic[i].bytes) = <<<<>>, FALSE>>
    BY <2>1, Zenon DEF IvyUnderstood
  <2>3. QED
    BY <1>1, <2>2
<1>7. Upto(e, d) \o e[i] = Upto(e, d2)
  <2>1. PICK k \in Nat : k = i - 1 /\ k + 1 = i /\ \A x \in 1 .. k + 1 : e[x] \in Seq(EventType)
    BY <1>1
  <2>2. Upto(e, k + 1) = Upto(e, k) \o e[k + 1]
    BY <2>1, UptoGrows
  <2>3. QED
    BY <1>3, <1>4, <2>1, <2>2
<1>8. Between(w, EndOf(q, d2), p) = <<>>
  <2>1. p <= Len(w) /\ p <= p /\ EndOf(q, d2) = p
    BY <1>2, <1>4
  <2>2. Between(w, p, p) = <<>>
    BY <1>1, <1>2, <2>1, BetweenIs
  <2>3. QED
    BY <2>1, <2>2
<1>9. QED
  BY <1>5, <1>6, <1>7, <1>8 DEF Advances

\* A chunk with no byte of an item that has to be alone.
LEMMA JoinedAdvance ==
  ASSUME TrafficTyped, IvyTraffic, NEW n, NEW q, NEW e, NEW w, Sent(n, q, e, w),
         NEW p0, NEW p, NEW d, NEW d2, Cut(n, q, w, p0, p, d, d2), Smooth(p0, p),
         \A i \in 1 .. n : p0 < EndOf(q, i) /\ EndOf(q, i - 1) < p => ~ traffic[i].lone
  PROVE  Advances(q, e, w, p, d, d2)
<1>1. /\ n \in Nat /\ n = Len(traffic) /\ DOMAIN traffic = 1 .. n /\ w \in Bytes
      /\ q = BytesSent /\ w = Upto(q, n) /\ w = Wire
      /\ \A x \in 1 .. n : /\ q[x] = traffic[x].bytes /\ e[x] = traffic[x].events
                           /\ q[x] \in Bytes /\ q[x] # <<>> /\ e[x] \in Seq(EventType)
                           /\ EndOf(q, x - 1) < EndOf(q, x)
      /\ \A x \in 0 .. n : EndOf(q, x) \in Nat
      /\ \A j \in 0 .. n : \A x \in 0 .. j : EndOf(q, x) <= EndOf(q, j)
  BY DEF Sent
<1>2. /\ p0 \in Nat /\ p \in Nat /\ p0 < p /\ p <= Len(w)
      /\ d \in 0 .. n /\ EndOf(q, d) <= p0 /\ (d < n => p0 < EndOf(q, d + 1))
      /\ d2 \in 0 .. n /\ EndOf(q, d2) <= p /\ (d2 < n => p < EndOf(q, d2 + 1))
  BY DEF Cut
<1>3. d2 \in d .. n
  <2>1. CASE d2 < d
    <3>1. d2 < n /\ d2 + 1 \in 0 .. d /\ d2 + 1 \in 0 .. n
      BY <1>1, <1>2, <2>1
    <3>2. EndOf(q, d2 + 1) <= EndOf(q, d) /\ EndOf(q, d2 + 1) \in Nat /\ EndOf(q, d) \in Nat
      BY <1>1, <1>2, <3>1
    <3>3. QED
      BY <1>2, <3>1, <3>2
  <2>2. QED
    BY <1>1, <1>2, <2>1
\* No item behind the first d has to be alone, if there is something of it.
<1>4. ASSUME NEW i \in 1 .. n, d < i, EndOf(q, i - 1) < p PROVE ~ traffic[i].lone
  <2>1. d + 1 \in 0 .. i /\ d + 1 \in 0 .. n /\ i \in 0 .. n /\ d < n
    BY <1>1, <1>2, <1>4
  <2>2. EndOf(q, d + 1) <= EndOf(q, i) /\ EndOf(q, d + 1) \in Nat /\ EndOf(q, i) \in Nat
    BY <1>1, <2>1
  <2>3. p0 < EndOf(q, i)
    BY <1>2, <2>1, <2>2
  <2>4. QED
    BY <1>4, <2>3
<1>5. PICK L : L = Leads
  OBVIOUS
<1>6. ASSUME NEW i \in 1 .. n, ~ traffic[i].lone
      PROVE  /\ q[i][1] \in L
             /\ \A r \in Bytes : r = <<>> \/ r[1] \in L =>
                  Said(q[i] \o r) = e[i] \o Said(r) /\ Left(q[i] \o r) = Left(r)
             /\ \A k \in 1 .. Len(q[i]) - 1 : k \notin traffic[i].fragile =>
                  /\ Said(SubSeq(q[i], 1, k)) = <<>>
                  /\ Left(SubSeq(q[i], 1, k)) = <<SubSeq(q[i], 1, k), FALSE>>
  <2>1. PICK item : item = traffic[i] /\ item.bytes = q[i] /\ item.events = e[i]
    BY <1>1
  <2>2. IvyUnderstood(item, L) /\ ~ item.lone
    BY <1>1, <1>5, <1>6, <2>1 DEF IvyTraffic
  <2>3. /\ \A r \in Bytes : r = <<>> \/ r[1] \in L =>
              Said(item.bytes \o r) = item.events \o Said(r) /\ Left(item.bytes \o r) = Left(r)
        /\ \A k \in 1 .. Len(item.bytes) - 1 : k \notin item.fragile =>
              LET part == SubSeq(item.bytes, 1, k)
              IN  Said(part) = <<>> /\ Left(part) = <<part, FALSE>>
    BY <2>2, Zenon DEF IvyUnderstood
  <2>4. q[i][1] \in L
    BY <1>1, <1>5, <1>6 DEF Leads
  <2>5. QED
    BY <2>1, <2>3, <2>4
<1>7. PICK out, kept : /\ out = [b \in Bytes |-> Said(b)] /\ kept = [b \in Bytes |-> Left(b)]
  OBVIOUS
<1>8. \A b \in Bytes : out[b] = Said(b) /\ kept[b] = Left(b) /\ out[b] \in Seq(EventType)
  BY <1>7, SaidTyped
<1>9. Strings(EventType, q, e, out, n)
  BY <1>1, <1>8 DEF Strings
<1>10. LedBy(q, L, d, n, p)
  BY <1>4, <1>6 DEF LedBy
<1>11. TakesOff(q, e, out, kept, L, d, d2)
  <2>1. ASSUME NEW i \in 1 .. d2, d < i, NEW r \in Bytes, r = <<>> \/ r[1] \in L
        PROVE  out[q[i] \o r] = e[i] \o out[r] /\ kept[q[i] \o r] = kept[r]
    <3>1. i \in 1 .. n /\ i \in 0 .. d2 /\ i \in 0 .. n /\ i - 1 \in 0 .. n
      BY <1>1, <1>2
    <3>2. EndOf(q, i - 1) < EndOf(q, i) /\ EndOf(q, i) <= EndOf(q, d2)
          /\ EndOf(q, i) \in Nat /\ EndOf(q, i - 1) \in Nat /\ EndOf(q, d2) \in Nat
      BY <1>1, <1>2, <3>1
    <3>3. EndOf(q, i - 1) < p
      BY <1>2, <3>2
    <3>4. ~ traffic[i].lone
      BY <1>4, <2>1, <3>1, <3>3
    <3>5. Said(q[i] \o r) = e[i] \o Said(r) /\ Left(q[i] \o r) = Left(r)
      BY <1>6, <2>1, <3>1, <3>4
    <3>6. q[i] \o r \in Bytes
      BY <1>1, <3>1, JoinedBuffers
    <3>7. QED
      BY <1>8, <3>5, <3>6
  <2>2. QED
    BY <2>1 DEF TakesOff
<1>12. PICK E : E = EventType
  OBVIOUS
<1>13. GoesOn(E, q, e, out, kept, L, n, d, d2, p)
  <2>1. p <= Len(Upto(q, n))
    BY <1>1, <1>2
  <2>2. QED
    BY <1>1, <1>2, <1>3, <1>9, <1>10, <1>11, <1>12, <2>1 DEF GoesOn
<1>14. PICK whole, rest : whole = Between(w, EndOf(q, d), p) /\ rest = Between(w, EndOf(q, d2), p)
  OBVIOUS
<1>15. /\ Upto(e, d) \o out[whole] = Upto(e, d2) \o out[rest]
       /\ kept[whole] = kept[rest]
  <2>1. /\ Upto(e, d) \o out[Between(Upto(q, n), EndOf(q, d), p)]
             = Upto(e, d2) \o out[Between(Upto(q, n), EndOf(q, d2), p)]
        /\ kept[Between(Upto(q, n), EndOf(q, d), p)]
             = kept[Between(Upto(q, n), EndOf(q, d2), p)]
    BY ONLY <1>13, Chopped
  <2>2. QED
    BY <1>1, <1>14, <2>1
<1>16. whole \in Bytes
  <2>1. EndOf(q, d) \in Nat /\ EndOf(q, d) <= p
    BY <1>1, <1>2
  <2>2. QED
    BY <1>1, <1>2, <1>14, <2>1, BetweenIs
<1>17. rest \in Bytes /\ Said(rest) = <<>> /\ Left(rest) = <<rest, FALSE>>
  <2>1. /\ rest \in Bytes
        /\ \/ rest = <<>>
           \/ /\ d2 + 1 \in 1 .. n
              /\ p - EndOf(q, d2) \in 1 .. Len(q[d2 + 1]) - 1
              /\ rest = SubSeq(q[d2 + 1], 1, p - EndOf(q, d2))
    BY <1>1, <1>2, <1>14, Beginning
  <2>2. CASE rest = <<>>
    BY <2>1, <2>2, NoPackets
  <2>3. CASE rest # <<>>
    <3>1. PICK i, k : /\ i \in 1 .. n /\ i = d2 + 1 /\ i - 1 = d2 /\ k = p - EndOf(q, d2)
                      /\ k \in 1 .. Len(q[i]) - 1 /\ rest = SubSeq(q[i], 1, k)
      <4>1. PICK i, k : i = d2 + 1 /\ k = p - EndOf(q, d2)
        OBVIOUS
      <4>2. i \in 1 .. n /\ k \in 1 .. Len(q[i]) - 1 /\ rest = SubSeq(q[i], 1, k)
        BY <2>1, <2>3, <4>1
      <4>3. i - 1 = d2
        BY <1>1, <1>2, <4>1
      <4>4. QED
        BY <4>1, <4>2, <4>3
    <3>2. EndOf(q, i - 1) \in Nat /\ EndOf(q, i - 1) < p
      <4>1. EndOf(q, d2) \in Nat /\ p - EndOf(q, d2) \in Nat \ {0}
        <5>1. Len(q[i]) \in Nat
          BY <1>1 DEF Bytes
        <5>2. k \in Nat \ {0}
          BY <3>1, <5>1
        <5>3. QED
          BY <1>1, <1>2, <3>1, <5>2
      <4>2. EndOf(q, d2) < p
        BY <1>2, <4>1
      <4>3. QED
        BY <3>1, <4>1, <4>2
    <3>3. d < i
      BY <1>1, <1>2, <1>3, <3>1
    <3>0. i \in 1 .. n
      BY <3>1
    <3>4. ~ traffic[i].lone
      BY <1>4, <3>0, <3>2, <3>3
    <3>5. k \notin traffic[i].fragile
      BY <1>1, <3>1 DEF Smooth
    <3>6. Said(SubSeq(q[i], 1, k)) = <<>> /\ Left(SubSeq(q[i], 1, k)) = <<SubSeq(q[i], 1, k), FALSE>>
      BY <1>6, <3>1, <3>4, <3>5
    <3>7. QED
      BY <2>1, <3>1, <3>6
  <2>4. QED
    BY <2>2, <2>3
<1>18. Upto(e, d) \o Said(whole) = Upto(e, d2)
  <2>1. d2 \in Nat /\ \A i \in 1 .. d2 : e[i] \in Seq(EventType)
    BY <1>1, <1>2
  <2>2. Upto(e, d2) \in Seq(EventType)
    BY <2>1, UptoTyped
  <2>3. Upto(e, d2) \o <<>> = Upto(e, d2)
    BY <2>2, ConcatEmptySeq
  <2>4. QED
    BY <1>8, <1>15, <1>16, <1>17, <2>3
<1>19. Left(whole) = <<rest, FALSE>>
  BY <1>8, <1>15, <1>16, <1>17
<1>20. QED
  BY <1>14, <1>18, <1>19 DEF Advances

\* So every chunk that tears nothing advances the parser.
LEMMA ChunkAdvances ==
  ASSUME TrafficTyped, IvyTraffic, NEW n, NEW q, NEW e, NEW w, Sent(n, q, e, w),
         NEW p0, NEW p, NEW d, NEW d2, Cut(n, q, w, p0, p, d, d2), Smooth(p0, p)
  PROVE  Advances(q, e, w, p, d, d2)
<1>1. CASE \E i \in 1 .. n : traffic[i].lone /\ p0 < EndOf(q, i) /\ EndOf(q, i - 1) < p
  <2>1. PICK i \in 1 .. n : traffic[i].lone /\ p0 < EndOf(q, i) /\ EndOf(q, i - 1) < p
    BY <1>1
  <2>2. i \in 1 .. Len(traffic) /\ q = BytesSent
    BY DEF Sent
  <2>3. EndOf(q, i - 1) \in Nat /\ p \in Nat
    <3>1. n \in Nat /\ \A x \in 0 .. n : EndOf(q, x) \in Nat
      BY DEF Sent
    <3>2. QED
      BY <3>1 DEF Cut
  <2>4. p > EndOf(q, i - 1)
    BY <2>1, <2>3
  <2>5. p0 = EndOf(q, i - 1) /\ p = EndOf(q, i)
    BY <2>1, <2>2, <2>4, Zenon DEF Smooth
  <2>6. QED
    BY <2>1, <2>5, AloneAdvances
<1>2. CASE \A i \in 1 .. n : p0 < EndOf(q, i) /\ EndOf(q, i - 1) < p => ~ traffic[i].lone
  BY <1>2, JoinedAdvance
<1>3. QED
  BY <1>1, <1>2

------------------------------------------------------------------------------
(* The router, for such traffic.                                           *)

\* The first chunk begins like the wire.
LEMMA FirstChunk ==
  ASSUME NEW w \in Bytes, NEW n \in 1 .. Len(w)
  PROVE  /\ SubSeq(w, 1, n) \in Bytes /\ Len(SubSeq(w, 1, n)) = n
         /\ \A i \in 1 .. n : SubSeq(w, 1, n)[i] = w[i]
<1>1. n \in 0 .. Len(w) /\ n \in Nat /\ 1 <= n /\ n - 1 + 1 = n /\ 1 \in Nat \ {0}
  BY DEF Bytes
<1>2. \A i \in 1 .. n : 1 + i - 1 = i
  BY <1>1
<1>3. PICK x : x = SubSeq(w, 1, n)
  OBVIOUS
<1>4. x \in Bytes /\ Len(x) = n - 1 + 1 /\ \A i \in 1 .. n - 1 + 1 : x[i] = w[1 + i - 1]
  BY <1>1, <1>3, PartOfBuffer
<1>5. x \in Bytes /\ Len(x) = n /\ \A i \in 1 .. n : x[i] = w[i]
  BY <1>1, <1>2, <1>4
<1>6. QED
  BY <1>3, <1>5

\* A signature is four bytes, the first of them zero.
LEMMA SignatureIs ==
  ASSUME NEW w \in Bytes, w # <<>>, HasSignature(w)
  PROVE  Len(w) >= 4 /\ w[1] = 0 /\ SubSeq(w, 1, 4) = <<0, 1, 0, 1>>
<1>1. PICK l \in Nat : l = Len(w) /\ l # 0
  BY DEF Bytes
<1>2. PICK m \in 1 .. l : m = IF 4 < l THEN 4 ELSE l
  BY <1>1
<1>3. PICK t \in Bytes : /\ t = SubSeq(w, 1, m) /\ Len(t) = m /\ \A i \in 1 .. m : t[i] = w[i]
  BY <1>1, <1>2, FirstChunk
<1>4. Taken(w, 4) = t
  BY <1>1, <1>2, <1>3 DEF Taken
<1>5. t = <<0, 1, 0, 1>>
  BY <1>4 DEF HasSignature, IVY_SIGNATURE
<1>6. m = 4
  BY <1>3, <1>5
<1>7. w[1] = 0
  BY <1>3, <1>5, <1>6
<1>8. l >= 4
  BY <1>2, <1>6
<1>9. QED
  BY <1>1, <1>3, <1>5, <1>6, <1>7, <1>8

\* The signature, seen in the first chunk.
LEMMA SignatureInChunk ==
  ASSUME NEW w \in Bytes, NEW n \in 1 .. Len(w), HasSignature(w), w[1] = 0 => n >= 4
  PROVE  HasSignature(SubSeq(w, 1, n)) /\ w[1] = 0
<1>1. PICK l \in Nat : l = Len(w) /\ l # 0 /\ w # <<>>
  BY DEF Bytes
<1>2. l >= 4 /\ w[1] = 0 /\ SubSeq(w, 1, 4) = <<0, 1, 0, 1>>
  BY <1>1, SignatureIs
<1>3. 4 \in 1 .. Len(w)
  BY <1>1, <1>2
<1>4. PICK t \in Bytes : /\ t = SubSeq(w, 1, 4) /\ Len(t) = 4 /\ \A i \in 1 .. 4 : t[i] = w[i]
  BY <1>3, FirstChunk
<1>5. t = <<0, 1, 0, 1>>
  BY <1>2, <1>4
<1>8. PICK x \in Bytes : x = SubSeq(w, 1, n) /\ Len(x) = n /\ \A i \in 1 .. n : x[i] = w[i]
  BY FirstChunk
<1>9. n >= 4 /\ n \in Nat
  BY <1>1, <1>2
<1>10. 4 \in 1 .. Len(x)
  BY <1>8, <1>9
<1>11. PICK y \in Bytes : y = SubSeq(x, 1, 4) /\ Len(y) = 4 /\ \A i \in 1 .. 4 : y[i] = x[i]
  BY <1>10, FirstChunk
<1>12. Taken(x, 4) = y
  <2>1. (IF 4 < n THEN 4 ELSE n) = 4
    BY <1>9
  <2>2. QED
    BY <1>8, <1>11, <2>1 DEF Taken
<1>13. y = t
  <2>1. \A i \in 1 .. 4 : y[i] = t[i]
    BY <1>4, <1>8, <1>9, <1>11
  <2>2. QED
    BY <1>4, <1>11, <2>1, SeqEqual DEF Bytes
<1>14. HasSignature(x)
  BY <1>5, <1>12, <1>13 DEF HasSignature, IVY_SIGNATURE
<1>15. QED
  BY <1>2, <1>8, <1>14

\* From the first chunk the router knows which meter it is.
LEMMA DetectedRightly ==
  ASSUME NEW w \in Bytes, w = Wire, NEW n \in 1 .. Len(w)
  PROVE  /\ DltTraffic => DetectProtocol(SubSeq(w, 1, n)) = "dlt645"
         /\ IvyTraffic /\ (n < 4 => w[1] # 0) => DetectProtocol(SubSeq(w, 1, n)) = "ivy_dlms"
<1>1. PICK x \in Bytes : x = SubSeq(w, 1, n) /\ \A i \in 1 .. n : x[i] = w[i]
  BY FirstChunk
<1>2. x[1] = w[1] /\ n \in Nat
  BY <1>1 DEF Bytes
<1>3. ASSUME DltTraffic PROVE DetectProtocol(x) = "dlt645"
  <2>1. x[1] = START_DELIMITER
    BY <1>2, <1>3 DEF DltTraffic
  <2>2. x # <<>>
    <3>1. Len(x) = n /\ n # 0
      BY <1>1, <1>2, FirstChunk
    <3>2. QED
      BY <3>1
  <2>3. ~ HasSignature(x)
    BY <2>1, <2>2, SignatureIs DEF START_DELIMITER
  <2>4. x[1] \notin RAW_DLMS_TAGS
    BY <2>1 DEF START_DELIMITER, RAW_DLMS_TAGS
  <2>5. QED
    BY <2>1, <2>3, <2>4 DEF DetectProtocol
<1>4. ASSUME IvyTraffic, n < 4 => w[1] # 0 PROVE DetectProtocol(x) = "ivy_dlms"
  <2>1. HasSignature(w) \/ w[1] \in RAW_DLMS_TAGS
    BY <1>4 DEF IvyTraffic
  <2>2. ASSUME HasSignature(w) PROVE HasSignature(x) /\ w[1] = 0
    <3>1. w[1] = 0 => n >= 4
      BY <1>2, <1>4
    <3>2. QED
      BY <1>1, <2>2, <3>1, SignatureInChunk
  <2>3. w[1] # START_DELIMITER /\ (HasSignature(x) \/ x[1] \in RAW_DLMS_TAGS)
    BY <1>2, <2>1, <2>2 DEF START_DELIMITER, RAW_DLMS_TAGS
  <2>4. QED
    BY <1>2, <2>3 DEF DetectProtocol
<1>5. QED
  BY <1>1, <1>3, <1>4

\* The IVY parser has emitted the events of what has arrived, and keeps the beginning
\* of the next item.
IvyIntact ==
  /\ ~ spinning
  /\ delivered # 0 => detectedProtocol = "ivy_dlms"
  /\ \E d : /\ Arrived(d)
            /\ emitted = Upto(EventsSent, d)
            /\ buffer = Between(Wire, EndOf(BytesSent, d), delivered)

\* The inductive invariant: that, for an IVY meter; for a DLT645 meter, that its
\* parser is in use, which RouterInv says enough of.
IntactInv ==
  /\ RouterInv
  /\ TrafficTyped
  /\ DltTraffic => ~ spinning /\ (delivered # 0 => detectedProtocol = "dlt645")
  /\ (IvyTraffic /\ ~ torn) => IvyIntact

\* Nothing has arrived at the start.
LEMMA IntactInit == Init => IntactInv
<1> SUFFICES ASSUME Init PROVE IntactInv
  OBVIOUS
<1>1. RouterInv /\ TrafficTyped
  BY RouterInit, TrafficAtStart
<1>2. spinning = FALSE /\ delivered = 0 /\ emitted = <<>> /\ buffer = <<>>
  BY DEF Init
<1>3. ASSUME IvyTraffic PROVE IvyIntact
  <2>1. PICK n, q, e, w : Sent(n, q, e, w)
    BY <1>1, <1>3, SentIs
  <2>2. /\ n \in Nat /\ n = Len(traffic) /\ q = BytesSent /\ e = EventsSent /\ w = Wire
        /\ w \in Bytes
        /\ \A i \in 1 .. n : EndOf(q, i - 1) < EndOf(q, i)
        /\ \A i \in 0 .. n : EndOf(q, i) \in Nat
        /\ \A i \in 1 .. n : e[i] \in Seq(EventType)
    BY <2>1 DEF Sent
  <2>3. 0 \in Nat /\ 0 <= Len(w) /\ Len(w) \in Nat
    BY <2>2 DEF Bytes
  <2>4. PICK d \in 0 .. n : /\ EndOf(q, d) <= 0
                            /\ d < n => 0 < EndOf(q, d + 1)
                            /\ {i \in 1 .. n : EndOf(q, i) <= 0} = 1 .. d
    BY <1>1, <2>2, <2>3, ArrivedExists
  <2>5. d = 0
    <3>1. CASE d # 0
      <4>1. d \in 1 .. n /\ d - 1 \in 0 .. n /\ d \in 0 .. n
        BY <2>2, <3>1
      <4>2. EndOf(q, d - 1) < EndOf(q, d) /\ EndOf(q, d - 1) \in Nat /\ EndOf(q, d) \in Nat
        BY <2>2, <4>1
      <4>3. QED
        BY <2>4, <4>2
    <3>2. QED
      BY <3>1
  <2>6. Arrived(d)
    BY <1>2, <2>2, <2>4 DEF Arrived
  <2>7. EndOf(q, d) = 0
    BY <2>2, <2>4
  <2>8. Between(w, EndOf(q, d), 0) = <<>>
    BY <2>2, <2>3, <2>7, BetweenIs
  <2>9. Upto(e, d) = <<>>
    BY <2>2, <2>5, UptoTyped
  <2>10. QED
    BY <1>2, <2>2, <2>6, <2>8, <2>9 DEF IvyIntact
<1>4. QED
  BY <1>1, <1>2, <1>3 DEF IntactInv

\* A chunk for the IVY parser that tears nothing.
LEMMA IvyIntactKept ==
  ASSUME RouterInv, TrafficTyped, IvyTraffic, IvyIntact,
         NEW n \in 1 .. Len(Wire) - delivered, Push(n), ~ Tears(n)
  PROVE  IvyIntact'
<1> DEFINE data == SubSeq(Wire, delivered + 1, delivered + n)
<1>1. PICK m, q, e, w : Sent(m, q, e, w)
  BY SentIs
<1>2. /\ m \in Nat /\ m = Len(traffic) /\ q = BytesSent /\ e = EventsSent /\ w = Wire
      /\ w \in Bytes /\ Len(w) \in Nat
      /\ \A i \in 0 .. m : EndOf(q, i) \in Nat
      /\ \A i \in 1 .. m : e[i] \in Seq(EventType)
  BY <1>1 DEF Sent, Bytes
<1>3. PICK p0 \in Nat, p \in Nat : /\ p0 = delivered /\ p = delivered + n
                                   /\ p0 < p /\ p0 <= p /\ p <= Len(w) /\ p0 <= Len(w)
  BY <1>2 DEF RouterInv
<1>4. PICK d : /\ Arrived(d) /\ emitted = Upto(e, d)
               /\ buffer = Between(w, EndOf(q, d), p0)
  BY <1>2, <1>3 DEF IvyIntact
<1>5. d \in 0 .. m /\ EndOf(q, d) <= p0 /\ (d < m => p0 < EndOf(q, d + 1)) /\ EndOf(q, d) \in Nat
  BY <1>2, <1>3, <1>4 DEF Arrived
<1>6. PICK d2 \in 0 .. m : /\ EndOf(q, d2) <= p
                           /\ d2 < m => p < EndOf(q, d2 + 1)
                           /\ {i \in 1 .. m : EndOf(q, i) <= p} = 1 .. d2
  BY <1>2, <1>3, ArrivedExists
<1>7. Cut(m, q, w, p0, p, d, d2)
  BY <1>3, <1>5, <1>6 DEF Cut
<1>8. n \in Nat /\ delivered \in Nat
  BY <1>2 DEF RouterInv
<1>9. Smooth(p0, p) /\ (p0 = 0 /\ n < 4 => w[1] # 0)
  BY <1>2, <1>3, <1>8, SmoothIs
<1>10. Advances(q, e, w, p, d, d2)
  BY <1>1, <1>7, <1>9, ChunkAdvances
<1>11. data = Between(w, p0, p)
  BY <1>2, <1>3 DEF Between
<1>12. buffer \o data = Between(w, EndOf(q, d), p)
  <2>1. PICK a \in Nat : a = EndOf(q, d) /\ a <= p0
    BY <1>5
  <2>a. w \in Bytes /\ a <= p0 /\ p0 <= p /\ p <= Len(w)
    BY <1>2, <1>3, <2>1
  <2>2. Between(w, a, p0) \o Between(w, p0, p) = Between(w, a, p)
    BY ONLY <2>a, a \in Nat, p0 \in Nat, p \in Nat, BetweenJoins
  <2>3. QED
    BY <1>4, <1>11, <2>1, <2>2
<1>13. Detected(data) = "ivy_dlms"
  <2>1. CASE delivered = 0
    <3>1. detectedProtocol = "none"
      BY <2>1 DEF RouterInv
    <3>2. delivered + 1 = 1 /\ delivered + n = n /\ n \in 1 .. Len(w)
      BY <1>2, <1>8, <2>1
    <3>3. n < 4 => w[1] # 0
      BY <1>3, <1>9, <2>1
    <3>4. DetectProtocol(SubSeq(w, 1, n)) = "ivy_dlms"
      BY <1>2, <3>2, <3>3, DetectedRightly
    <3>5. QED
      BY <1>2, <3>1, <3>2, <3>4 DEF Detected
  <2>2. CASE delivered # 0
    <3>1. detectedProtocol = "ivy_dlms"
      BY <2>2 DEF IvyIntact
    <3>2. QED
      BY <3>1 DEF Detected
  <2>3. QED
    BY <2>1, <2>2
<1>14. PushIvyDlms(data) /\ delivered' = delivered + n /\ traffic' = traffic
       /\ detectedProtocol' = "ivy_dlms"
  <2>1. PushDlt645(data) \/ PushIvyDlms(data) \/ Discard(data)
    BY DEF Push
  <2>2. ~ PushDlt645(data) /\ ~ Discard(data)
    BY <1>13 DEF PushDlt645, Discard
  <2>3. detectedProtocol' = Detected(data) /\ delivered' = delivered + n /\ traffic' = traffic
    BY DEF Push
  <2>4. QED
    BY <1>13, <2>1, <2>2, <2>3
<1>15. PICK b : b = Between(w, EndOf(q, d), p)
  OBVIOUS
<1>16. buffer' = Packets[b].buffer /\ emitted' = emitted \o Said(b) /\ spinning' = Packets[b].spins
  BY <1>12, <1>14, <1>15 DEF PushIvyDlms, PushIvy, Said
<1>17. /\ Upto(e, d) \o Said(b) = Upto(e, d2)
       /\ Packets[b].buffer = Between(w, EndOf(q, d2), p) /\ Packets[b].spins = FALSE
  BY <1>10, <1>15 DEF Advances, Left
<1>18. Wire' = Wire /\ BytesSent' = BytesSent /\ EventsSent' = EventsSent
  BY <1>14 DEF Wire, BytesSent, EventsSent
<1>19. Arrived(d2)'
  <2>1. /\ d2 \in 0 .. Len(traffic)
        /\ EndOf(BytesSent, d2) <= delivered'
        /\ d2 < Len(traffic) => delivered' < EndOf(BytesSent, d2 + 1)
        /\ {i \in 1 .. Len(traffic) : EndOf(BytesSent, i) <= delivered'} = 1 .. d2
    BY <1>2, <1>3, <1>6, <1>14
  <2>2. QED
    BY <1>14, <1>18, <2>1 DEF Arrived
<1>20. emitted' = Upto(EventsSent', d2)
  BY <1>2, <1>4, <1>16, <1>17, <1>18
<1>21. buffer' = Between(Wire', EndOf(BytesSent', d2), delivered')
  BY <1>2, <1>3, <1>14, <1>16, <1>17, <1>18
<1>22. ~ spinning'
  BY <1>16, <1>17
<1>23. QED
  BY <1>14, <1>19, <1>20, <1>21, <1>22 DEF IvyIntact

\* Every step keeps the invariant.
LEMMA IntactStep == IntactInv /\ [Next]_vars => IntactInv'
<1> SUFFICES ASSUME IntactInv, [Next]_vars PROVE IntactInv'
  OBVIOUS
<1>1. RouterInv /\ TrafficTyped /\ RouterInv'
  BY RouterStep DEF IntactInv
<1>2. CASE UNCHANGED vars
  <2>1. /\ traffic' = traffic /\ delivered' = delivered /\ detectedProtocol' = detectedProtocol
        /\ buffer' = buffer /\ emitted' = emitted /\ spinning' = spinning /\ torn' = torn
    BY <1>2 DEF vars
  <2>2. /\ Wire' = Wire /\ BytesSent' = BytesSent /\ EventsSent' = EventsSent /\ Leads' = Leads
        /\ TrafficTyped' = TrafficTyped
    BY <2>1 DEF Wire, BytesSent, EventsSent, Leads, TrafficTyped
  <2>3. DltTraffic' <=> DltTraffic
    BY <2>1, <2>2 DEF DltTraffic
  <2>4. IvyTraffic' <=> IvyTraffic
    BY <2>1, <2>2 DEF IvyTraffic
  <2>5. \A d : Arrived(d)' <=> Arrived(d)
    BY <2>1, <2>2 DEF Arrived
  <2>6. IvyIntact' <=> IvyIntact
    BY <2>1, <2>2, <2>5 DEF IvyIntact
  <2>7. QED
    BY <1>1, <2>1, <2>2, <2>3, <2>4, <2>6 DEF IntactInv
<1>3. CASE Next
  <2>1. PICK n \in 1 .. Len(Wire) - delivered : Push(n)
    BY <1>3 DEF Next
  <2>2. traffic' = traffic /\ torn' = (torn \/ Tears(n)) /\ ~ spinning
        /\ delivered' = delivered + n
        /\ detectedProtocol' = Detected(SubSeq(Wire, delivered + 1, delivered + n))
    BY <2>1 DEF Push
  <2>3. Wire' = Wire /\ Leads' = Leads /\ TrafficTyped'
    BY <1>1, <2>2 DEF Wire, Leads, TrafficTyped
  <2>4. ASSUME DltTraffic' PROVE ~ spinning' /\ detectedProtocol' = "dlt645"
    <3>1. DltTraffic
      BY <2>2, <2>3, <2>4 DEF DltTraffic
    <3>2. Detected(SubSeq(Wire, delivered + 1, delivered + n)) = "dlt645"
      <4>1. CASE delivered = 0
        <5>1. detectedProtocol = "none" /\ Wire \in Bytes
          BY <1>1, <4>1 DEF RouterInv
        <5>2. PICK w \in Bytes : w = Wire /\ Len(w) \in Nat
          BY <5>1 DEF Bytes
        <5>3. n \in 1 .. Len(w) /\ delivered + 1 = 1 /\ delivered + n = n
          BY <4>1, <5>2
        <5>4. DetectProtocol(SubSeq(w, 1, n)) = "dlt645"
          BY <3>1, <5>2, <5>3, DetectedRightly
        <5>5. QED
          BY <5>1, <5>2, <5>3, <5>4 DEF Detected
      <4>2. CASE delivered # 0
        <5>1. detectedProtocol = "dlt645"
          BY <3>1, <4>2 DEF IntactInv
        <5>2. QED
          BY <5>1 DEF Detected
      <4>3. QED
        BY <4>1, <4>2
    <3>3. PushDlt645(SubSeq(Wire, delivered + 1, delivered + n))
      <4>1. \/ PushDlt645(SubSeq(Wire, delivered + 1, delivered + n))
            \/ PushIvyDlms(SubSeq(Wire, delivered + 1, delivered + n))
            \/ Discard(SubSeq(Wire, delivered + 1, delivered + n))
        BY <2>1 DEF Push
      <4>2. QED
        BY <3>2, <4>1 DEF PushIvyDlms, Discard
    <3>4. spinning' = spinning
      BY <3>3 DEF PushDlt645
    <3>5. QED
      BY <2>2, <3>2, <3>4
  <2>5. ASSUME IvyTraffic', ~ torn' PROVE IvyIntact'
    <3>1. IvyTraffic
      BY <2>2, <2>3, <2>5 DEF IvyTraffic
    <3>2. ~ torn /\ ~ Tears(n)
      BY <2>2, <2>5
    <3>3. IvyIntact
      BY <3>1, <3>2 DEF IntactInv
    <3>4. QED
      BY <1>1, <2>1, <3>1, <3>2, <3>3, IvyIntactKept
  <2>6. QED
    BY <1>1, <2>3, <2>4, <2>5 DEF IntactInv
<1>4. QED
  BY <1>2, <1>3

\* What arrived whole has been said, and nothing else.
LEMMA IntactIsIntact == IntactInv => (DltTraffic \/ IvyTraffic => IntactUnlessTorn)
<1> SUFFICES ASSUME IntactInv, DltTraffic \/ IvyTraffic, ~ torn
             PROVE  emitted = DueEvents /\ ~ spinning
  BY DEF IntactUnlessTorn
<1>1. RouterInv /\ TrafficTyped
  BY DEF IntactInv
<1>2. CASE IvyTraffic
  <2>1. IvyIntact
    BY <1>2 DEF IntactInv
  <2>2. PICK d : Arrived(d) /\ emitted = Upto(EventsSent, d)
    BY <2>1 DEF IvyIntact
  <2>3. emitted = DueEvents
    BY <1>1, <2>2, DueIs
  <2>4. QED
    BY <2>1, <2>3 DEF IvyIntact
<1>3. CASE DltTraffic
  <2>1. ~ spinning /\ (delivered # 0 => detectedProtocol = "dlt645")
    BY <1>3 DEF IntactInv
  <2>2. Wire \in Bytes /\ delivered \in Nat /\ delivered <= Len(Wire)
    BY <1>1 DEF RouterInv, Bytes
  <2>3. PICK d \in 0 .. Len(traffic) :
           /\ EndOf(BytesSent, d) <= delivered
           /\ d < Len(traffic) => delivered < EndOf(BytesSent, d + 1)
           /\ {i \in 1 .. Len(traffic) : EndOf(BytesSent, i) <= delivered} = 1 .. d
    BY <1>1, <2>2, ArrivedExists
  <2>4. Arrived(d)
    BY <2>3 DEF Arrived
  <2>5. PICK p \in Nat : p = delivered
    BY <2>2
  <2>6. Frames[SubSeq(Wire, 1, p)].emitted = Upto(EventsSent, d)
    BY <1>1, <1>3, <2>2, <2>3, <2>5, FramesOfTraffic
  <2>7. emitted = Frames[SubSeq(Wire, 1, p)].emitted
    <3>1. CASE delivered = 0
      <4>1. emitted = <<>>
        BY <1>1, <3>1 DEF RouterInv
      <4>2. SubSeq(Wire, 1, p) = <<>>
        <5>1. 1 \in Int /\ p \in Int /\ 1 > p
          BY <2>5, <3>1
        <5>2. QED
          BY <5>1, SubSeqEmpty
      <4>3. QED
        BY <4>1, <4>2, NoFrames
    <3>2. CASE delivered # 0
      <4>1. AsOnce
        BY <1>1, <2>1, <3>2 DEF RouterInv
      <4>2. QED
        BY <2>5, <4>1 DEF AsOnce, Alike, Prefix
    <3>3. QED
      BY <3>1, <3>2
  <2>8. QED
    BY <1>1, <2>1, <2>4, <2>6, <2>7, DueIs
<1>4. QED
  BY <1>2, <1>3

\* Whatever the chunks, if none of them tears the traffic: every packet of a meter
\* whose items the parser understands reaches its callback with its last byte, in
\* order and unaltered, and nothing else does (protocol-router.js).
THEOREM AlwaysIntact == Spec => []((DltTraffic \/ IvyTraffic) => IntactUnlessTorn)
<1>1. Spec => []IntactInv
  BY IntactInit, IntactStep, PTL DEF Spec
<1>2. QED
  BY <1>1, IntactIsIntact, PTL

------------------------------------------------------------------------------
(* What the DLT645 parser understands.                                     *)

\* The part of a buffer up to its k-th byte.
LEMMA PartIs ==
  ASSUME NEW b \in Bytes, NEW k \in 1 .. Len(b) - 1
  PROVE  /\ SubSeq(b, 1, k) \in Bytes /\ Len(SubSeq(b, 1, k)) = k /\ k \in Nat \ {0} /\ k < Len(b)
         /\ \A i \in 1 .. k : SubSeq(b, 1, k)[i] = b[i]
         /\ SubSeq(b, 1, k) # <<>>
<1>1. Len(b) \in Nat /\ k \in Nat \ {0} /\ k < Len(b) /\ k \in 1 .. Len(b)
  BY DEF Bytes
<1>2. PICK x \in Bytes : x = SubSeq(b, 1, k) /\ Len(x) = k /\ \A i \in 1 .. k : x[i] = b[i]
  BY <1>1, FirstChunk
<1>3. x # <<>>
  BY <1>1, <1>2
<1>4. QED
  BY <1>1, <1>2, <1>3

\* A buffer behind another, and what is left when the first is cut off again.
LEMMA CutOff ==
  ASSUME NEW b \in Bytes, NEW r \in Bytes
  PROVE  /\ SubSeq(b \o r, Len(b) + 1, Len(b \o r)) = r
         /\ SubSeq(b \o r, 1, Len(b)) = b
<1>1. PICK n \in Nat : n = Len(b)
  BY DEF Bytes
<1>2. /\ SubSeq(b \o r, n + 1, Len(b \o r)) = SubSeq(b, n + 1, Len(b)) \o r
      /\ SubSeq(b \o r, 1, n) = SubSeq(b, 1, n)
  <2>1. n <= Len(b)
    BY <1>1
  <2>2. QED
    BY <2>1, JoinedParts
<1>3. SubSeq(b, n + 1, Len(b)) = <<>>
  <2>1. n + 1 \in Int /\ n \in Int /\ n + 1 > n
    OBVIOUS
  <2>2. SubSeq(b, n + 1, n) = <<>>
    BY <2>1, SubSeqEmpty
  <2>3. QED
    BY <1>1, <2>2
<1>4. <<>> \o r = r
  BY ConcatEmptySeq DEF Bytes
<1>5. SubSeq(b, 1, n) = b
  <2>1. CASE n = 0
    <3>1. b = <<>>
      <4>1. b \in Seq(0 .. 255) /\ Len(b) = 0
        BY <1>1, <2>1 DEF Bytes
      <4>2. QED
        BY ONLY <4>1
    <3>2. 1 \in Int /\ n \in Int /\ 1 > n
      BY <2>1
    <3>3. QED
      BY <3>1, <3>2, SubSeqEmpty
  <2>2. CASE n # 0
    <3>1. n \in 1 .. Len(b)
      BY <1>1, <2>2
    <3>2. PICK x \in Bytes : x = SubSeq(b, 1, n) /\ Len(x) = n /\ \A i \in 1 .. n : x[i] = b[i]
      BY <3>1, FirstChunk
    <3>3. x = b
      BY <1>1, <3>2, SeqEqual DEF Bytes
    <3>4. QED
      BY <3>2, <3>3
  <2>3. QED
    BY <2>1, <2>2
<1>6. QED
  BY <1>1, <1>2, <1>3, <1>4, <1>5

\* Bytes that are a whole frame, good or bad, are understood.
LEMMA FramesUnderstood ==
  ASSUME NEW item, item.bytes \in Bytes, item.bytes # <<>>,
         item.bytes[1] = START_DELIMITER,
         CompleteFrame(item.bytes) = Len(item.bytes),
         item.events = <<FrameEmission(item.bytes)>>
  PROVE  DltUnderstood(item)
<1>1. PICK f \in Bytes, n \in Nat \ {0} : f = item.bytes /\ n = Len(f) /\ f # <<>>
  BY DEF Bytes
<1>2. CompleteFrame(f) = n /\ n >= MIN_FRAME_LENGTH
  BY <1>1, CompleteFrameIs DEF INVALID, INCOMPLETE, MIN_FRAME_LENGTH
<1>3. FromFrameStart(f) = f
  <2>1. 1 \in 1 .. Len(f) /\ f[1] = START_DELIMITER /\ \A i \in 1 .. 1 - 1 : f[i] # START_DELIMITER
    BY <1>1
  <2>2. FromFrameStart(f) = SubSeq(f, 1, Len(f))
    BY <2>1, FrameStartIs
  <2>3. <<>> \in Bytes
    BY DEF Bytes
  <2>4. SubSeq(f \o <<>>, 1, Len(f)) = f /\ f \o <<>> = f
    BY <2>3, CutOff, ConcatEmptySeq DEF Bytes
  <2>5. QED
    BY <2>2, <2>4
<1>4. PICK e : e = FrameEmission(f)
  OBVIOUS
<1>5. e \in EventType /\ <<e>> \in Seq(EventType)
  BY <1>1, <1>4 DEF FrameEmission, EventType
<1>6. ASSUME NEW r \in Bytes PROVE Frames[f \o r].emitted = <<e>> \o Frames[r].emitted
  <2>1. PICK t \in Bytes : t = f \o r /\ Len(t) = n + Len(r) /\ Len(r) \in Nat
    BY <1>1, JoinedBuffers
  <2>2. FromFrameStart(t) = t
    BY <1>1, <1>3, <2>1, FrameStartExtended
  <2>3. CompleteFrame(t) = n
    BY <1>1, <1>2, <2>1, CompleteFrameExtended DEF INCOMPLETE
  <2>4. SubSeq(t, n + 1, Len(t)) = r /\ SubSeq(t, 1, n) = f
    BY <1>1, <2>1, CutOff
  <2>5. ~ (Len(t) < MIN_FRAME_LENGTH) /\ t # <<>> /\ n # INVALID /\ n # INCOMPLETE
    BY <1>1, <1>2, <2>1 DEF MIN_FRAME_LENGTH, INVALID, INCOMPLETE
  <2>6. Turn(t, Frames) = [Frames[r] EXCEPT !.emitted = <<e>> \o @]
    BY <1>4, <2>2, <2>3, <2>4, <2>5 DEF Turn
  <2>7. Frames[t] = [Frames[r] EXCEPT !.emitted = <<e>> \o @]
    BY <2>6, FramesUnfolds
  <2>8. Frames[r] \in [buffer : Bytes, emitted : FrameEvents]
    <3>1. Frames[r] \in FramesResults
      BY FramesTyped
    <3>2. QED
      BY <3>1 DEF FramesResults
  <2>9. QED
    BY <2>1, <2>7, <2>8
<1>7. ASSUME NEW k \in 1 .. Len(f) - 1 PROVE Frames[SubSeq(f, 1, k)].emitted = <<>>
  <2>1. PICK x \in Bytes : /\ x = SubSeq(f, 1, k) /\ Len(x) = k /\ k < n /\ k \in Nat \ {0}
                           /\ x # <<>> /\ \A i \in 1 .. k : x[i] = f[i]
    BY <1>1, PartIs
  <2>2. Frames[x] = Turn(x, Frames)
    BY FramesUnfolds
  <2>3. CASE k < MIN_FRAME_LENGTH
    BY <2>1, <2>2, <2>3 DEF Turn
  <2>4. CASE ~ (k < MIN_FRAME_LENGTH)
    <3>1. k >= 12
      BY <2>1, <2>4 DEF MIN_FRAME_LENGTH
    <3>2. x[1] = f[1] /\ x[8] = f[8] /\ x[10] = f[10]
      BY <2>1, <3>1
    <3>3. f[8] = START_DELIMITER /\ f[1] = START_DELIMITER /\ n = HEADER_LENGTH + f[10] + 2
      BY <1>1, <1>2 DEF CompleteFrame, INVALID, INCOMPLETE
    <3>4. CompleteFrame(x) = INCOMPLETE
      BY <2>1, <3>2, <3>3 DEF CompleteFrame
    <3>5. FromFrameStart(x) = x
      <4>1. 1 \in 1 .. Len(x) /\ x[1] = START_DELIMITER
            /\ \A i \in 1 .. 1 - 1 : x[i] # START_DELIMITER
        BY <2>1, <3>2, <3>3
      <4>2. FromFrameStart(x) = SubSeq(x, 1, Len(x))
        BY <4>1, FrameStartIs
      <4>3. <<>> \in Bytes
        BY DEF Bytes
      <4>4. SubSeq(x \o <<>>, 1, Len(x)) = x /\ x \o <<>> = x
        BY <4>3, CutOff, ConcatEmptySeq DEF Bytes
      <4>5. QED
        BY <4>2, <4>4
    <3>6. Turn(x, Frames) = [buffer |-> x, emitted |-> <<>>]
      BY <2>1, <2>4, <3>4, <3>5 DEF Turn
    <3>7. QED
      BY <2>1, <2>2, <3>6
  <2>5. QED
    BY <2>3, <2>4
<1>8. QED
  BY <1>1, <1>4, <1>5, <1>6, <1>7 DEF DltUnderstood

\* So is noise without a start delimiter.
LEMMA NoiseUnderstood ==
  ASSUME NEW item, item.bytes \in Bytes, item.bytes # <<>>, item.events = <<>>,
         \A i \in 1 .. Len(item.bytes) : item.bytes[i] # START_DELIMITER
  PROVE  DltUnderstood(item)
<1>1. PICK f \in Bytes : f = item.bytes /\ f # <<>> /\ \A i \in 1 .. Len(f) : f[i] # START_DELIMITER
  OBVIOUS
<1>2. <<>> \in Seq(EventType)
  OBVIOUS
<1>3. ASSUME NEW r \in Bytes PROVE Frames[f \o r].emitted = <<>> \o Frames[r].emitted
  <2>1. PICK t \in Bytes : t = f \o r
    BY JoinedBuffers
  <2>2. FromFrameStart(f) = <<>>
    BY <1>1, NoFrameStart
  <2>3. FromFrameStart(t) = FromFrameStart(r)
    BY <2>1, <2>2, FrameStartExtended
  <2>4. Frames[t].emitted = Frames[r].emitted
    BY <2>3, NoiseIrrelevant DEF Alike
  <2>5. Frames[r].emitted \in Seq(EventType)
    <3>1. Frames[r] \in FramesResults
      BY FramesTyped
    <3>2. Frames[r].emitted \in FrameEvents
      BY <3>1 DEF FramesResults
    <3>3. QED
      BY <3>2, FrameEventsAreEvents
  <2>6. <<>> \o Frames[r].emitted = Frames[r].emitted
    BY <2>5, ConcatEmptySeq
  <2>7. QED
    BY <2>1, <2>4, <2>6
<1>4. ASSUME NEW k \in 1 .. Len(f) - 1 PROVE Frames[SubSeq(f, 1, k)].emitted = <<>>
  <2>1. PICK x \in Bytes : /\ x = SubSeq(f, 1, k) /\ Len(x) = k /\ k < Len(f) /\ k \in Nat \ {0}
                           /\ \A i \in 1 .. k : x[i] = f[i]
    BY PartIs
  <2>2. \A i \in 1 .. Len(x) : x[i] # START_DELIMITER
    <3>1. Len(f) \in Nat
      BY DEF Bytes
    <3>2. \A i \in 1 .. k : i \in 1 .. Len(f)
      BY <2>1, <3>1
    <3>3. QED
      BY <1>1, <2>1, <3>2
  <2>3. FromFrameStart(x) = <<>>
    BY <2>2, NoFrameStart
  <2>4. Turn(x, Frames).emitted = <<>>
    BY <2>3 DEF Turn
  <2>5. QED
    BY <2>1, <2>4, FramesUnfolds
<1>5. QED
  BY <1>1, <1>2, <1>3, <1>4 DEF DltUnderstood

------------------------------------------------------------------------------
(* What the IVY parser understands.                                        *)

\* The first of some sequences, put in front of the others.
LEMMA UptoFromSecond ==
  ASSUME NEW S, NEW n \in Nat, NEW q, \A i \in 1 .. n + 1 : q[i] \in Seq(S)
  PROVE  Upto(q, n + 1) = q[1] \o Upto([i \in 1 .. n |-> q[i + 1]], n)
<1> DEFINE tail == [i \in 1 .. n |-> q[i + 1]]
           Claim(m) == Upto(q, m + 1) = q[1] \o Upto(tail, m)
           P == {m \in Nat : m <= n => Claim(m)}
<1>c. PICK t : t = tail
  OBVIOUS
<1>0. t = tail /\ \A i \in 1 .. n : t[i] = q[i + 1]
  BY <1>c
<1>a. \A i \in 1 .. n : t[i] \in Seq(S)
  <2>1. \A i \in 1 .. n : i + 1 \in 1 .. n + 1
    OBVIOUS
  <2>2. QED
    BY <1>0, <2>1
<1> HIDE DEF tail
<1>b. 1 \in 1 .. n + 1 /\ q[1] \in Seq(S)
  OBVIOUS
<1>1. 0 \in P
  <2>1. PICK z \in Nat : z = 0 /\ z + 1 = 1
    OBVIOUS
  <2>2. \A i \in 1 .. z + 1 : q[i] \in Seq(S)
    BY <1>b, <2>1
  <2>3. Upto(q, z + 1) = Upto(q, z) \o q[z + 1] /\ Upto(q, 0) = <<>>
    BY <2>2, UptoGrows
  <2>4. Upto(t, 0) = <<>>
    BY <1>a, UptoTyped
  <2>5. <<>> \o q[1] = q[1] /\ q[1] \o <<>> = q[1]
    BY <1>b, ConcatEmptySeq
  <2>6. Claim(z)
    BY <1>0, <2>1, <2>3, <2>4, <2>5
  <2> HIDE DEF Claim
  <2>7. QED
    BY <2>1, <2>6
<1>2. ASSUME NEW m \in Nat, m \in P PROVE m + 1 \in P
  <2>a. SUFFICES ASSUME m + 1 <= n PROVE Claim(m + 1)
    <3> HIDE DEF Claim
    <3>1. m + 1 \in Nat
      OBVIOUS
    <3>2. QED
      BY <3>1
  <2> HIDE DEF P
  <2>b. m + 1 <= n /\ (m <= n => Claim(m))
    <3> HIDE DEF Claim
    <3>1. QED
      BY <1>2, <2>a DEF P
  <2>1. m <= n /\ Upto(q, m + 1) = q[1] \o Upto(t, m)
    <3>1. m <= n
      BY <2>b
    <3>2. QED
      BY <1>0, <2>b, <3>1
  <2>2. PICK k \in Nat : k = m + 1 /\ k <= n /\ k \in 1 .. n
    BY <2>b
  <2>3. Upto(q, k + 1) = Upto(q, k) \o q[k + 1] /\ q[k + 1] \in Seq(S)
    <3>1. \A i \in 1 .. k + 1 : i \in 1 .. n + 1
      BY <2>2
    <3>2. \A i \in 1 .. k + 1 : q[i] \in Seq(S)
      BY <3>1
    <3>3. k + 1 \in 1 .. k + 1
      OBVIOUS
    <3>4. QED
      BY <3>2, <3>3, UptoGrows
  <2>4. Upto(t, m + 1) = Upto(t, m) \o t[m + 1] /\ Upto(t, m) \in Seq(S)
    <3>1. \A i \in 1 .. m + 1 : i \in 1 .. n
      BY <2>b
    <3>2. \A i \in 1 .. m + 1 : t[i] \in Seq(S)
      BY <1>a, <3>1
    <3>3. QED
      BY <3>2, UptoGrows
  <2>5. t[m + 1] = q[k + 1] /\ t[k] = q[k + 1]
    BY <1>0, <2>2
  <2>6. PICK x \in Seq(S), y \in Seq(S), z \in Seq(S) : x = q[1] /\ y = Upto(t, m) /\ z = q[k + 1]
    BY <1>b, <2>3, <2>4
  <2>7. (x \o y) \o z = x \o (y \o z)
    BY ONLY x \in Seq(S), y \in Seq(S), z \in Seq(S), Associate
  <2>8. QED
    BY <1>0, <2>1, <2>2, <2>3, <2>4, <2>5, <2>6, <2>7
<1> HIDE DEF P
<1>3. n \in P
  BY <1>1, <1>2, NaturalsFrom
<1>4. QED
  BY <1>3 DEF P, tail

\* A packet taken off the front is handled before the others.
LEMMA PacketTaken ==
  ASSUME NEW t \in Bytes, NEW r \in Bytes, NEW p \in PacketType,
         Packets[t] = [Packets[r] EXCEPT !.emitted = <<p>> \o @]
  PROVE  Said(t) = HandleIvyPacket(p) \o Said(r) /\ Left(t) = Left(r)
<1>1. PICK a \in PacketsResults : a = Packets[r]
  BY PacketsTyped
<1>2. /\ a \in [buffer : Bytes, emitted : Seq(PacketType), spins : BOOLEAN]
  BY DEF PacketsResults
<1>3. PICK s \in Seq(PacketType), n \in Nat : s = a.emitted /\ n = Len(s)
  BY <1>2
<1>4. PICK u \in Seq(PacketType) : u = <<p>> \o s /\ Len(u) = n + 1 /\ u[1] = p
                                   /\ \A i \in 1 .. n : u[i + 1] = s[i]
  <2>1. <<p>> \in Seq(PacketType) /\ Len(<<p>>) = 1
    OBVIOUS
  <2>2. <<p>> \o s \in Seq(PacketType)
    BY <2>1, ConcatProperties
  <2>3. Len(<<p>> \o s) = n + 1 /\ (<<p>> \o s)[1] = p /\ \A i \in 1 .. n : (<<p>> \o s)[i + 1] = s[i]
    BY <1>3
  <2>4. QED
    BY <2>2, <2>3
<1>5. /\ Packets[t].emitted = u /\ Packets[t].buffer = a.buffer /\ Packets[t].spins = a.spins
  BY <1>1, <1>2, <1>3, <1>4
<1>6. Left(t) = Left(r)
  BY <1>1, <1>5 DEF Left
<1>7. PICK q, v : /\ q = [i \in 1 .. n + 1 |-> HandleIvyPacket(u[i])]
                  /\ v = [i \in 1 .. n |-> q[i + 1]]
  OBVIOUS
<1>8. \A i \in 1 .. n + 1 : q[i] = HandleIvyPacket(u[i]) /\ q[i] \in Seq(EventType)
  <2>1. \A i \in 1 .. n + 1 : u[i] \in PacketType
    BY <1>4
  <2>2. QED
    BY <1>7, <2>1, HandleIvyPacketTyped
<1>9. Upto(q, n + 1) = q[1] \o Upto(v, n)
  <2>1. Upto(q, n + 1) = q[1] \o Upto([i \in 1 .. n |-> q[i + 1]], n)
    BY <1>8, UptoFromSecond
  <2>2. QED
    BY <1>7, <2>1
<1>10. Said(t) = Upto(q, n + 1)
  <2>1. DOMAIN u = 1 .. n + 1
    BY <1>4
  <2>2. [i \in DOMAIN u |-> HandleIvyPacket(u[i])] = [i \in 1 .. n + 1 |-> q[i]]
    BY <1>7, <2>1
  <2>3. QED
    BY <1>5, <2>2 DEF Said, Upto
<1>11. Said(r) = Upto(v, n)
  <2>1. DOMAIN s = 1 .. n /\ \A i \in 1 .. n : i + 1 \in 1 .. n + 1
    BY <1>3
  <2>2. \A i \in 1 .. n : v[i] = HandleIvyPacket(s[i])
    BY <1>4, <1>7, <1>8, <2>1
  <2>3. [i \in DOMAIN s |-> HandleIvyPacket(s[i])] = [i \in 1 .. n |-> v[i]]
    BY <2>1, <2>2
  <2>4. QED
    BY <1>1, <1>3, <2>3 DEF Said, Upto
<1>12. q[1] = HandleIvyPacket(p)
  <2>1. 1 \in 1 .. n + 1
    OBVIOUS
  <2>2. QED
    BY <1>4, <1>8, <2>1
<1>13. QED
  BY <1>6, <1>9, <1>10, <1>11, <1>12

\* A packet in front of what follows it, taken off again.
LEMMA WholeAndRest ==
  ASSUME NEW b \in Bytes, b # <<>>, NEW r \in Bytes
  PROVE  /\ Taken(b \o r, Len(b)) = b /\ Dropped(b \o r, Len(b)) = r /\ Taken(b, Len(b)) = b
         /\ (b \o r)[1] = b[1] /\ b \o r # <<>> /\ Len(b) \in Nat \ {0}
<1>0. PICK n \in Nat \ {0} : n = Len(b)
  BY DEF Bytes
<1>1. PICK t \in Bytes : /\ t = b \o r /\ n = Len(b) /\ Len(t) = n + Len(r)
                         /\ Len(r) \in Nat /\ \A i \in 1 .. n : t[i] = b[i]
  BY <1>0, JoinedBuffers
<1>2. SubSeq(t, n + 1, Len(t)) = r /\ SubSeq(t, 1, n) = b
  BY <1>1, CutOff
<1>3. SubSeq(b, 1, n) = b
  <2>1. <<>> \in Bytes
    BY DEF Bytes
  <2>2. SubSeq(b \o <<>>, 1, Len(b)) = b /\ b \o <<>> = b
    BY <2>1, CutOff, ConcatEmptySeq DEF Bytes
  <2>3. QED
    BY <1>1, <2>2
<1>4. Taken(t, n) = b /\ Taken(b, n) = b
  <2>1. (IF n < Len(t) THEN n ELSE Len(t)) = n /\ (IF n < Len(b) THEN n ELSE Len(b)) = n
    BY <1>1
  <2>2. QED
    BY <1>2, <1>3, <2>1 DEF Taken
<1>5. Dropped(t, n) = r
  BY <1>2 DEF Dropped
<1>6. t[1] = b[1] /\ t # <<>>
  <2>1. 1 \in 1 .. n /\ Len(t) # 0
    BY <1>1
  <2>2. QED
    BY <1>1, <2>1
<1>7. QED
  BY <1>1, <1>4, <1>5, <1>6

\* The signature and the first bytes are those of the packet in front.
LEMMA HeaderInFront ==
  ASSUME NEW b \in Bytes, Len(b) >= 8, NEW r \in Bytes
  PROVE  /\ HasSignature(b \o r) <=> HasSignature(b)
         /\ \A o \in 0 .. 7 : At(b \o r, o) = At(b, o)
<1>0. PICK n \in Nat : n = Len(b) /\ n >= 8
  BY DEF Bytes
<1>1. PICK t \in Bytes : /\ t = b \o r /\ n = Len(b) /\ Len(t) = n + Len(r) /\ n >= 8
                         /\ Len(r) \in Nat /\ \A i \in 1 .. n : t[i] = b[i]
  BY <1>0, JoinedBuffers
<1>2. SubSeq(t, 1, 4) = SubSeq(b, 1, 4)
  <2>1. 4 \in Nat /\ 4 <= Len(b)
    BY <1>1
  <2>2. QED
    BY <1>1, <2>1, JoinedParts
<1>3. (IF 4 < Len(t) THEN 4 ELSE Len(t)) = 4 /\ (IF 4 < Len(b) THEN 4 ELSE Len(b)) = 4
  BY <1>1
<1>4. Taken(t, 4) = Taken(b, 4)
  BY <1>2, <1>3 DEF Taken
<1>5. ASSUME NEW o \in 0 .. 7 PROVE At(t, o) = At(b, o)
  <2>1. o + 1 \in 1 .. n /\ o < Len(t) /\ o < Len(b)
    BY <1>1
  <2>2. QED
    BY <1>1, <2>1 DEF At
<1>6. QED
  BY <1>1, <1>4, <1>5 DEF HasSignature

\* A packet with an IVY header is understood: it is emitted with its last byte,
\* whatever follows it, and until then the parser waits.
LEMMA HeadersUnderstood ==
  ASSUME NEW item, NEW leads, item.bytes \in Bytes, Len(item.bytes) >= IVY_HEADER_LENGTH,
         HasSignature(item.bytes), DeclaredLength(item.bytes) <= MAX_PAYLOAD_LENGTH,
         Len(item.bytes) = IVY_HEADER_LENGTH + DeclaredLength(item.bytes),
         item.events = HandleIvyPacket(IvyPacket(item.bytes, Len(item.bytes)))
  PROVE  IvyUnderstood(item, leads)
<1>1. PICK b \in Bytes, n \in Nat \ {0} : b = item.bytes /\ n = Len(b) /\ b # <<>> /\ n >= 8
  BY DEF Bytes, IVY_HEADER_LENGTH
<1>2. PICK p \in PacketType : p = IvyPacket(b, n)
  BY PacketTyped
<1>3. HandleIvyPacket(p) = item.events /\ item.events \in Seq(EventType)
  BY <1>1, <1>2, HandleIvyPacketTyped
<1>4. HasSignature(b) /\ DeclaredLength(b) <= MAX_PAYLOAD_LENGTH /\ n = 8 + DeclaredLength(b)
  BY <1>1 DEF IVY_HEADER_LENGTH
<1>5. PICK d \in Nat : d = DeclaredLength(b)
  <2>1. 6 \in Nat /\ 7 \in Nat /\ 6 < Len(b) /\ 7 < Len(b) /\ 6 + 1 = 7
    BY <1>1
  <2>2. PICK u \in 0 .. 255, v \in 0 .. 255 : u = At(b, 6) /\ v = At(b, 7)
    BY <2>1, ByteAt
  <2>3. u * 256 + v \in Nat
    OBVIOUS
  <2>4. QED
    BY <2>1, <2>2, <2>3 DEF DeclaredLength, UInt16
<1>6. d <= MAX_PAYLOAD_LENGTH /\ n = 8 + d
  BY <1>4, <1>5
<1>7. b[1] = 0 /\ MAX_PAYLOAD_LENGTH \in Nat
  BY <1>1, <1>4, SignatureIs, MaxPayloadAssumption
<1>8. ASSUME NEW r \in Bytes PROVE Said(b \o r) = item.events \o Said(r) /\ Left(b \o r) = Left(r)
  <2>1. PICK t \in Bytes : t = b \o r /\ Len(t) = n + Len(r) /\ Len(r) \in Nat
    BY <1>1, JoinedBuffers
  <2>2. /\ Taken(t, n) = b /\ Taken(b, n) = b /\ Dropped(t, n) = r /\ t # <<>>
    BY <1>1, <2>1, WholeAndRest
  <2>3. /\ HasSignature(t) /\ \A o \in 0 .. 7 : At(t, o) = At(b, o)
    BY <1>1, <1>4, <2>1, HeaderInFront
  <2>4. DeclaredLength(t) = d /\ UInt16(t, 4) = UInt16(b, 4)
    <3>1. At(t, 4) = At(b, 4) /\ At(t, 4 + 1) = At(b, 4 + 1) /\ At(t, 6) = At(b, 6)
          /\ At(t, 6 + 1) = At(b, 6 + 1)
      BY <2>3
    <3>2. UInt16(t, 4) = UInt16(b, 4) /\ UInt16(t, 6) = UInt16(b, 6)
      BY <3>1 DEF UInt16
    <3>3. QED
      BY <1>5, <3>2 DEF DeclaredLength
  <2>5. IvyLength(t) = n
    BY <1>6, <1>7, <2>4 DEF IvyLength, IVY_HEADER_LENGTH
  <2>6. IvyPacket(t, n) = p
    BY <1>2, <2>2, <2>4 DEF IvyPacket
  <2>7. ~ AwaitsIvy(t)
    <3>1. ~ (Len(t) < 4) /\ ~ (Len(t) < 8) /\ ~ (Len(t) < 8 + d)
      BY <1>1, <1>6, <2>1
    <3>2. QED
      BY <2>4, <3>1 DEF AwaitsIvy, IVY_HEADER_LENGTH
  <2>8. n # UNKNOWN_LENGTH /\ n # NAN
    BY DEF UNKNOWN_LENGTH, NAN
  <2>9. Round(t, Packets) = [Packets[r] EXCEPT !.emitted = <<p>> \o @]
    BY <2>2, <2>3, <2>5, <2>6, <2>7, <2>8 DEF Round
  <2>10. Packets[t] = [Packets[r] EXCEPT !.emitted = <<p>> \o @]
    BY <2>9, PacketsUnfold
  <2>11. Said(t) = HandleIvyPacket(p) \o Said(r) /\ Left(t) = Left(r)
    BY <2>10, PacketTaken
  <2>12. QED
    BY <1>3, <2>1, <2>11
<1>9. Said(b) = item.events /\ Left(b) = <<<<>>, FALSE>>
  <2>0. <<>> \in Bytes
    BY DEF Bytes
  <2>1. PICK z \in Bytes : z = <<>>
    BY <2>0
  <2>2. Said(b \o z) = item.events \o Said(z) /\ Left(b \o z) = Left(z)
    BY <1>8
  <2>3. b \o z = b /\ item.events \o <<>> = item.events
    BY <1>3, <2>1, ConcatEmptySeq DEF Bytes
  <2>4. Said(z) = <<>> /\ Left(z) = <<<<>>, FALSE>>
    BY <2>1, NoPackets
  <2>5. QED
    BY <2>2, <2>3, <2>4
<1>10. ASSUME NEW k \in 1 .. Len(b) - 1
       PROVE  Said(SubSeq(b, 1, k)) = <<>> /\ Left(SubSeq(b, 1, k)) = <<SubSeq(b, 1, k), FALSE>>
  <2>0. PICK x \in Bytes : /\ x = SubSeq(b, 1, k) /\ Len(x) = k /\ k < Len(b) /\ k \in Nat \ {0}
                           /\ x # <<>> /\ \A i \in 1 .. k : x[i] = b[i]
    BY PartIs
  <2>1. /\ x = SubSeq(b, 1, k) /\ Len(x) = k /\ k < n /\ k \in Nat \ {0}
        /\ x # <<>> /\ \A i \in 1 .. k : x[i] = b[i]
    BY <1>1, <2>0
  <2>2. At(x, 0) = 0
    <3>1. 1 \in 1 .. k /\ 0 < Len(x) /\ 0 + 1 = 1
      BY <2>1
    <3>2. QED
      BY <1>7, <2>1, <3>1 DEF At
  <2>3. AwaitsIvy(x)
    <3>1. CASE k < 4
      BY <2>1, <2>2, <3>1 DEF AwaitsIvy
    <3>2. CASE ~ (k < 4)
      <4>1. HasSignature(x)
        <5>1. k \in 1 .. Len(b) /\ k >= 4
          BY <1>1, <2>1, <3>2
        <5>2. QED
          BY <1>4, <2>1, <5>1, SignatureInChunk
      <4>2. CASE k < 8
        BY <2>1, <2>2, <4>1, <4>2 DEF AwaitsIvy, IVY_HEADER_LENGTH
      <4>3. CASE ~ (k < 8)
        <5>1. At(x, 6) = At(b, 6) /\ At(x, 6 + 1) = At(b, 6 + 1)
          <6>1. /\ 6 + 1 \in 1 .. k /\ 6 + 1 + 1 \in 1 .. k /\ 6 < Len(x) /\ 6 + 1 < Len(x)
                /\ 6 < Len(b) /\ 6 + 1 < Len(b)
            BY <1>1, <2>1, <4>3
          <6>2. QED
            BY <2>1, <6>1 DEF At
        <5>2. DeclaredLength(x) = d
          BY <1>5, <5>1 DEF DeclaredLength, UInt16
        <5>3. DeclaredLength(x) <= MAX_PAYLOAD_LENGTH /\ Len(x) < 8 + DeclaredLength(x)
          BY <1>6, <2>1, <5>2
        <5>4. QED
          BY <2>2, <4>1, <5>3 DEF AwaitsIvy, IVY_HEADER_LENGTH
      <4>4. QED
        BY <4>2, <4>3
    <3>3. QED
      BY <3>1, <3>2
  <2>4. Packets[x] = [buffer |-> x, emitted |-> <<>>, spins |-> FALSE]
    <3>1. Round(x, Packets) = [buffer |-> x, emitted |-> <<>>, spins |-> FALSE]
      BY <2>3, Zenon DEF Round
    <3>2. QED
      BY <3>1, PacketsUnfold
  <2>5. Packets[x].emitted = <<>> /\ Left(x) = <<x, FALSE>>
    BY <2>4 DEF Left
  <2>6. QED
    BY <2>1, <2>5, NothingSaid
<1>11. QED
  BY <1>1, <1>3, <1>8, <1>9, <1>10, Zenon DEF IvyUnderstood

\* A raw APDU is understood when its length is that of its bytes, whatever of the
\* meter follows it, and is not known yet at the cuts that are not fragile.
LEMMA RawUnderstood ==
  ASSUME NEW item, NEW leads, item.bytes \in Bytes, item.bytes # <<>>,
         item.bytes[1] \in RAW_DLMS_TAGS,
         \A r \in Bytes : r = <<>> \/ (~ item.lone /\ r[1] \in leads) =>
             RawDlmsLength(item.bytes \o r) = Len(item.bytes),
         \A k \in 1 .. Len(item.bytes) - 1 : ~ item.lone /\ k \notin item.fragile =>
             /\ RawDlmsLength(SubSeq(item.bytes, 1, k)) = UNKNOWN_LENGTH
             /\ k <= MAX_PAYLOAD_LENGTH,
         item.events = HandleIvyPacket(RawPacket(item.bytes, Len(item.bytes)))
  PROVE  IvyUnderstood(item, leads)
<1>1. PICK b \in Bytes, n \in Nat \ {0} : b = item.bytes /\ n = Len(b) /\ b # <<>>
  BY DEF Bytes
<1>2. PICK p \in PacketType : p = RawPacket(b, n)
  BY PacketTyped
<1>3. HandleIvyPacket(p) = item.events /\ item.events \in Seq(EventType)
  BY <1>1, <1>2, HandleIvyPacketTyped
<1>4. b[1] # 0 /\ b[1] \in RAW_DLMS_TAGS
  BY <1>1 DEF RAW_DLMS_TAGS
<1>5. ASSUME NEW x \in Bytes, x # <<>>, x[1] = b[1]
      PROVE  ~ HasSignature(x) /\ ~ AwaitsIvy(x) /\ x[1] \in RAW_DLMS_TAGS
  <2>1. ~ HasSignature(x)
    BY <1>4, <1>5, SignatureIs
  <2>2. Len(x) \in Nat /\ 0 < Len(x) /\ 0 + 1 = 1
    BY <1>5 DEF Bytes
  <2>3. At(x, 0) = x[1]
    BY <2>2 DEF At
  <2>4. QED
    BY <1>4, <1>5, <2>1, <2>3 DEF AwaitsIvy
<1>6. ASSUME NEW r \in Bytes, r = <<>> \/ (~ item.lone /\ r[1] \in leads)
      PROVE  Said(b \o r) = item.events \o Said(r) /\ Left(b \o r) = Left(r)
  <2>1. PICK t \in Bytes : t = b \o r
    BY JoinedBuffers
  <2>2. /\ Taken(t, n) = b /\ Taken(b, n) = b /\ Dropped(t, n) = r /\ t # <<>> /\ t[1] = b[1]
    BY <1>1, <2>1, WholeAndRest
  <2>3. ~ HasSignature(t) /\ ~ AwaitsIvy(t) /\ t[1] \in RAW_DLMS_TAGS
    BY <1>5, <2>2
  <2>4. RawDlmsLength(t) = n
    BY <1>1, <1>6, <2>1
  <2>5. RawPacket(t, n) = p
    BY <1>2, <2>2 DEF RawPacket
  <2>6. n # UNKNOWN_LENGTH /\ n # NAN
    BY DEF UNKNOWN_LENGTH, NAN
  <2>7. ~ AwaitsRaw(t, n)
    BY <2>6 DEF AwaitsRaw
  <2>8. Round(t, Packets) = [Packets[r] EXCEPT !.emitted = <<p>> \o @]
    BY <2>2, <2>3, <2>4, <2>5, <2>6, <2>7 DEF Round
  <2>9. Packets[t] = [Packets[r] EXCEPT !.emitted = <<p>> \o @]
    BY <2>8, PacketsUnfold
  <2>10. Said(t) = HandleIvyPacket(p) \o Said(r) /\ Left(t) = Left(r)
    BY <2>9, PacketTaken
  <2>11. QED
    BY <1>3, <2>1, <2>10
<1>7. Said(b) = item.events /\ Left(b) = <<<<>>, FALSE>>
  <2>0. <<>> \in Bytes
    BY DEF Bytes
  <2>1. PICK z \in Bytes : z = <<>>
    BY <2>0
  <2>2. Said(b \o z) = item.events \o Said(z) /\ Left(b \o z) = Left(z)
    BY <1>6, <2>1
  <2>3. b \o z = b /\ item.events \o <<>> = item.events
    BY <1>3, <2>1, ConcatEmptySeq DEF Bytes
  <2>4. Said(z) = <<>> /\ Left(z) = <<<<>>, FALSE>>
    BY <2>1, NoPackets
  <2>5. QED
    BY <2>2, <2>3, <2>4
<1>8. ASSUME NEW k \in 1 .. Len(b) - 1, ~ item.lone, k \notin item.fragile
      PROVE  Said(SubSeq(b, 1, k)) = <<>> /\ Left(SubSeq(b, 1, k)) = <<SubSeq(b, 1, k), FALSE>>
  <2>1. PICK x \in Bytes : /\ x = SubSeq(b, 1, k) /\ Len(x) = k /\ k < Len(b) /\ k \in Nat \ {0}
                           /\ x # <<>> /\ \A i \in 1 .. k : x[i] = b[i]
    BY PartIs
  <2>2. x[1] = b[1]
    BY <2>1
  <2>3. ~ HasSignature(x) /\ ~ AwaitsIvy(x) /\ x[1] \in RAW_DLMS_TAGS
    BY <1>5, <2>1, <2>2
  <2>4. RawDlmsLength(x) = UNKNOWN_LENGTH /\ k <= MAX_PAYLOAD_LENGTH
    BY <1>1, <1>8, <2>1
  <2>5. AwaitsRaw(x, RawDlmsLength(x))
    BY <2>1, <2>4 DEF AwaitsRaw
  <2>6. Round(x, Packets) = [buffer |-> x, emitted |-> <<>>, spins |-> FALSE]
    BY <2>3, <2>5, Zenon DEF Round
  <2>7. Packets[x] = [buffer |-> x, emitted |-> <<>>, spins |-> FALSE]
    BY <2>6, PacketsUnfold
  <2>8. Packets[x].emitted = <<>> /\ Left(x) = <<x, FALSE>>
    BY <2>7 DEF Left
  <2>9. QED
    BY <2>1, <2>8, NothingSaid
<1>9. item.bytes # <<>> /\ item.events \in Seq(EventType)
  BY <1>1, <1>3
<1>10. item.lone => Said(item.bytes) = item.events /\ Left(item.bytes) = <<<<>>, FALSE>>
  BY <1>1, <1>7
<1>11. ASSUME ~ item.lone
       PROVE  /\ \A r \in Bytes : r = <<>> \/ r[1] \in leads =>
                   /\ Said(item.bytes \o r) = item.events \o Said(r)
                   /\ Left(item.bytes \o r) = Left(r)
              /\ \A k \in 1 .. Len(item.bytes) - 1 : k \notin item.fragile =>
                   /\ Said(SubSeq(item.bytes, 1, k)) = <<>>
                   /\ Left(SubSeq(item.bytes, 1, k)) = <<SubSeq(item.bytes, 1, k), FALSE>>
  BY <1>1, <1>6, <1>8, <1>11, Zenon
<1>12. QED
  BY <1>9, <1>10, <1>11, Zenon DEF IvyUnderstood

\* An APDU whose own bytes tell its length: whatever begins with them has it.
LEMMA LengthUnderstood ==
  ASSUME NEW item, NEW leads, item.bytes \in Bytes, item.bytes # <<>>,
         item.bytes[1] \in RAW_DLMS_TAGS, Len(item.bytes) <= MAX_PAYLOAD_LENGTH + 1,
         \A x \in Bytes :
            (x # <<>> /\ \A i \in 1 .. Len(item.bytes) : i <= Len(x) => x[i] = item.bytes[i]) =>
               RawDlmsLength(x) = IfBuffered(x, Len(item.bytes)),
         item.events = HandleIvyPacket(RawPacket(item.bytes, Len(item.bytes)))
  PROVE  IvyUnderstood(item, leads)
<1>0. PICK b \in Bytes : b = item.bytes
  OBVIOUS
<1>1. PICK n \in Nat \ {0} : n = Len(b) /\ b # <<>>
  BY <1>0 DEF Bytes
<1>2. ASSUME NEW x \in Bytes, x # <<>>, \A i \in 1 .. n : i <= Len(x) => x[i] = b[i]
      PROVE  RawDlmsLength(x) = IF Len(x) >= n THEN n ELSE UNKNOWN_LENGTH
  BY <1>0, <1>1, <1>2 DEF IfBuffered
<1>3. ASSUME NEW r \in Bytes PROVE RawDlmsLength(b \o r) = n
  <2>0. PICK t : t = b \o r
    OBVIOUS
  <2>1. t \in Bytes /\ Len(t) = n + Len(r) /\ Len(r) \in Nat /\ \A i \in 1 .. n : t[i] = b[i]
    BY <1>1, <2>0, JoinedBuffers
  <2>2. t # <<>>
    BY <1>1, <2>0, WholeAndRest
  <2>3. Len(t) >= n
    BY <2>1
  <2>4. QED
    BY <1>2, <2>0, <2>1, <2>2, <2>3
<1>4. ASSUME NEW k \in 1 .. Len(b) - 1
      PROVE  RawDlmsLength(SubSeq(b, 1, k)) = UNKNOWN_LENGTH /\ k <= MAX_PAYLOAD_LENGTH
  <2>0. PICK x : x = SubSeq(b, 1, k)
    OBVIOUS
  <2>1. /\ x \in Bytes /\ Len(x) = k /\ k < Len(b) /\ k \in Nat \ {0}
        /\ x # <<>> /\ \A i \in 1 .. k : x[i] = b[i]
    BY <2>0, PartIs
  <2>2. ~ (Len(x) >= n) /\ \A i \in 1 .. n : i <= Len(x) => x[i] = b[i]
    BY <1>1, <2>1
  <2>3. k <= MAX_PAYLOAD_LENGTH
    BY <1>0, <1>1, <2>1, MaxPayloadAssumption
  <2>4. QED
    BY <1>2, <2>0, <2>1, <2>2, <2>3
<1>5. b[1] \in RAW_DLMS_TAGS
  BY <1>0
<1>6. \A r \in Bytes : r = <<>> \/ (~ item.lone /\ r[1] \in leads) =>
         RawDlmsLength(item.bytes \o r) = Len(item.bytes)
  BY <1>0, <1>1, <1>3
<1>7. \A k \in 1 .. Len(item.bytes) - 1 : ~ item.lone /\ k \notin item.fragile =>
         RawDlmsLength(SubSeq(item.bytes, 1, k)) = UNKNOWN_LENGTH /\ k <= MAX_PAYLOAD_LENGTH
  BY <1>0, <1>4
<1>8. QED
  BY <1>6, <1>7, RawUnderstood

\* An exception of a meter is three bytes.
LEMMA ExceptionUnderstood ==
  ASSUME NEW item, NEW leads, item.bytes \in Bytes, Len(item.bytes) = 3,
         item.bytes[1] = \hD8, 3 <= MAX_PAYLOAD_LENGTH + 1,
         item.events = HandleIvyPacket(RawPacket(item.bytes, Len(item.bytes)))
  PROVE  IvyUnderstood(item, leads)
<1>1. item.bytes # <<>> /\ item.bytes[1] \in RAW_DLMS_TAGS
  BY DEF RAW_DLMS_TAGS
<1>2. ASSUME NEW x \in Bytes, x # <<>>, \A i \in 1 .. 3 : i <= Len(x) => x[i] = item.bytes[i]
      PROVE  RawDlmsLength(x) = IfBuffered(x, 3)
  <2>1. Len(x) \in Nat /\ 0 < Len(x) /\ 0 + 1 = 1 /\ 1 \in 1 .. 3 /\ 1 <= Len(x)
    BY <1>2 DEF Bytes
  <2>2. At(x, 0) = \hD8
    BY <1>2, <2>1 DEF At
  <2>3. QED
    BY <2>2 DEF RawDlmsLength
<1>3. \A x \in Bytes :
         (x # <<>> /\ \A i \in 1 .. Len(item.bytes) : i <= Len(x) => x[i] = item.bytes[i]) =>
            RawDlmsLength(x) = IfBuffered(x, Len(item.bytes))
  <2>1. Len(item.bytes) = 3
    OBVIOUS
  <2>2. QED
    BY <1>2, <2>1
<1>4. Len(item.bytes) <= MAX_PAYLOAD_LENGTH + 1
  OBVIOUS
<1>5. QED
  BY <1>1, <1>3, <1>4, LengthUnderstood, Zenon

\* A read that fails is a GET.response with an error: five bytes.
LEMMA ReadErrorUnderstood ==
  ASSUME NEW item, NEW leads, item.bytes \in Bytes, Len(item.bytes) = 5,
         item.bytes[1] = \hC4, item.bytes[2] = 1, item.bytes[4] = 1,
         5 <= MAX_PAYLOAD_LENGTH + 1,
         item.events = HandleIvyPacket(RawPacket(item.bytes, Len(item.bytes)))
  PROVE  IvyUnderstood(item, leads)
<1>1. item.bytes # <<>> /\ item.bytes[1] \in RAW_DLMS_TAGS
  BY DEF RAW_DLMS_TAGS
<1>2. ASSUME NEW x \in Bytes, x # <<>>, \A i \in 1 .. 5 : i <= Len(x) => x[i] = item.bytes[i]
      PROVE  RawDlmsLength(x) = IfBuffered(x, 5)
  <2>1. PICK l \in Nat : l = Len(x) /\ l # 0
    BY <1>2 DEF Bytes
  <2>2. At(x, 0) = \hC4
    <3>1. 0 < l /\ 0 + 1 = 1 /\ 1 \in 1 .. 5 /\ 1 <= l
      BY <2>1
    <3>2. QED
      BY <1>2, <2>1, <3>1 DEF At
  <2>3. RawDlmsLength(x) = ResponseLength(x)
    BY <2>2 DEF RawDlmsLength
  <2>4. CASE l < 4
    <3>1. ~ (l >= 5)
      BY <2>4
    <3>2. QED
      BY <2>1, <2>3, <2>4, <3>1 DEF ResponseLength, IfBuffered
  <2>5. CASE ~ (l < 4)
    <3>1. At(x, 1) = 1 /\ At(x, 3) = 1
      <4>1. /\ 1 < l /\ 3 < l /\ 1 + 1 = 2 /\ 3 + 1 = 4 /\ 2 <= l /\ 4 <= l
            /\ 2 \in 1 .. 5 /\ 4 \in 1 .. 5
        BY <2>1, <2>5
      <4>2. QED
        BY <1>2, <2>1, <4>1 DEF At
    <3>2. QED
      BY <2>1, <2>2, <2>3, <2>5, <3>1 DEF ResponseLength
  <2>6. QED
    BY <2>4, <2>5
<1>3. \A x \in Bytes :
         (x # <<>> /\ \A i \in 1 .. Len(item.bytes) : i <= Len(x) => x[i] = item.bytes[i]) =>
            RawDlmsLength(x) = IfBuffered(x, Len(item.bytes))
  <2>1. Len(item.bytes) = 5
    OBVIOUS
  <2>2. QED
    BY <1>2, <2>1
<1>4. Len(item.bytes) <= MAX_PAYLOAD_LENGTH + 1
  OBVIOUS
<1>5. QED
  BY <1>1, <1>3, <1>4, LengthUnderstood, Zenon

\* An association answer, or another APDU in BER, with a length of one byte.
LEMMA TlvUnderstood ==
  ASSUME NEW item, NEW leads, item.bytes \in Bytes, Len(item.bytes) >= 2,
         item.bytes[1] \in {\h60, \h61, \h62, \h63}, item.bytes[2] < 128,
         Len(item.bytes) = 2 + item.bytes[2], Len(item.bytes) <= MAX_PAYLOAD_LENGTH + 1,
         item.events = HandleIvyPacket(RawPacket(item.bytes, Len(item.bytes)))
  PROVE  IvyUnderstood(item, leads)
<1>1. item.bytes # <<>> /\ item.bytes[1] \in RAW_DLMS_TAGS
  BY DEF RAW_DLMS_TAGS
<1>2. PICK n \in Nat, size \in 0 .. 255 : n = Len(item.bytes) /\ size = item.bytes[2]
                                          /\ n >= 2 /\ n = 2 + size /\ size < 128
  <2>0. PICK b \in Seq(0 .. 255) : b = item.bytes
    BY DEF Bytes
  <2>1. Len(item.bytes) \in Nat /\ 2 \in 1 .. Len(b)
    BY <2>0
  <2>2. item.bytes[2] \in 0 .. 255
    <3>1. b[2] \in 0 .. 255
      BY <2>1, ElementOfSeq
    <3>2. QED
      BY <2>0, <3>1
  <2>3. QED
    BY <2>1, <2>2
<1>3. ASSUME NEW x \in Bytes, x # <<>>, \A i \in 1 .. n : i <= Len(x) => x[i] = item.bytes[i]
      PROVE  RawDlmsLength(x) = IfBuffered(x, n)
  <2>1. PICK l \in Nat : l = Len(x) /\ l # 0
    BY <1>3 DEF Bytes
  <2>2. At(x, 0) \in {\h60, \h61, \h62, \h63}
    <3>1. 0 < l /\ 0 + 1 = 1 /\ 1 \in 1 .. n /\ 1 <= l
      BY <1>2, <2>1
    <3>2. QED
      BY <1>3, <2>1, <3>1 DEF At
  <2>3. RawDlmsLength(x) = BerTlvLength(x)
    BY <2>2 DEF RawDlmsLength
  <2>4. CASE l < 2
    <3>1. ~ (l >= n)
      BY <1>2, <2>4
    <3>2. QED
      BY <2>1, <2>3, <2>4, <3>1 DEF BerTlvLength, IfBuffered
  <2>5. CASE ~ (l < 2)
    <3>1. At(x, 1) = size
      <4>1. 1 < l /\ 1 + 1 = 2 /\ 2 <= l /\ 2 \in 1 .. n
        BY <1>2, <2>1, <2>5
      <4>2. QED
        BY <1>2, <1>3, <2>1, <4>1 DEF At
    <3>2. BerTlvLength(x) = IfBuffered(x, 2 + size)
      BY <1>2, <2>1, <2>5, <3>1 DEF BerTlvLength
    <3>3. QED
      BY <1>2, <2>3, <3>2
  <2>6. QED
    BY <2>4, <2>5
<1>4. QED
  BY <1>1, <1>2, <1>3, LengthUnderstood

\* One value ends where its first byte, and those behind it, tell.
LEMMA ValueEnds ==
  ASSUME NEW b \in Bytes, NEW o \in Nat
  PROVE  \E g : ValuesEnd(b, o, 1) = FirstEnd(b, <<o, 1>>, g)
<1> DEFINE of(f) == [p \in Nat \X Nat |-> EndFrom(b, p, f)]
<1>1. PICK g : g = CHOOSE f : f = of(f)
  OBVIOUS
<1>2. ValuesEnd(b, o, 1) = g[<<o, 1>>]
  BY <1>1 DEF ValuesEnd, EndFrom, FirstEnd
<1>3. \E f : f = of(f)
  BY EndsExist
<1> HIDE DEF of
<1>4. g = of(g)
  BY <1>1, <1>3
<1>5. PICK p \in Places : p = <<o, 1>> /\ p[2] = 1
  BY PlaceIs
<1>6. g[p] = EndFrom(b, p, g)
  BY <1>4 DEF of, Places
<1>7. EndFrom(b, p, g) = FirstEnd(b, p, g)
  BY <1>5 DEF EndFrom
<1>8. QED
  BY <1>2, <1>5, <1>6, <1>7

\* Where a number or a string ends, and what is made of nothing.
LEMMA AfterOneValue ==
  ASSUME NEW b \in Bytes, NEW o \in Nat
  PROVE  /\ At(b, o) = -1 => AfterValue(b, o) = UNKNOWN_LENGTH
         /\ At(b, o) \in DOMAIN FixedSizes =>
               AfterValue(b, o) = IF o + 1 + FixedSizes[At(b, o)][1] > Len(b)
                                  THEN UNKNOWN_LENGTH ELSE o + 1 + FixedSizes[At(b, o)][2]
         /\ At(b, o) \in STRINGS /\ At(b, o + 1) # -1 =>
               AfterValue(b, o) = o + 1 + 1 + At(b, o + 1)
<1>1. PICK g : ValuesEnd(b, o, 1) = FirstEnd(b, <<o, 1>>, g)
  BY ValueEnds
<1>0. PICK p : p = <<o, 1>>
  OBVIOUS
<1>2. p = <<o, 1>> /\ p[1] = o
  BY <1>0
<1>3. PICK tag, size : tag = At(b, o) /\ size = At(b, o + 1)
  OBVIOUS
<1>4. PICK FS : FS = FixedSizes
  OBVIOUS
<1>5. DOMAIN FS = {0, 3, 5, 6} \cup 15 .. 18 \cup 20 .. 27
  BY <1>4 DEF FixedSizes
<1>6. CASE tag = -1
  <2>1. tag \notin DOMAIN FS /\ tag \notin STRINGS /\ tag # BIT_STRING /\ tag \notin {ARRAY, STRUCTURE}
    BY <1>5, <1>6 DEF STRINGS, BIT_STRING, ARRAY, STRUCTURE
  <2>2. FirstEnd(b, p, g) = THROWS
    BY <1>2, <1>3, <1>4, <2>1 DEF FirstEnd
  <2>3. AfterValue(b, o) = UNKNOWN_LENGTH
    BY <1>1, <1>2, <2>2 DEF AfterValue, Past
  <2>4. QED
    BY <1>3, <1>4, <2>1, <2>3
<1>7. CASE tag \in DOMAIN FS
  <2>1. tag \notin STRINGS /\ tag # BIT_STRING /\ tag \notin {ARRAY, STRUCTURE} /\ tag # -1
    BY <1>5, <1>7 DEF STRINGS, BIT_STRING, ARRAY, STRUCTURE
  <2>2. PICK u \in 0 .. 12, w \in 0 .. 12 : u = FS[tag][1] /\ w = FS[tag][2]
    BY <1>4, <1>7, SizesAreFixed
  <2>3. FirstEnd(b, p, g) = IF o + 1 + u > Len(b) THEN THROWS ELSE o + 1 + w
    BY <1>2, <1>3, <1>4, <1>7, <2>1, <2>2 DEF FirstEnd
  <2>4. o + 1 + w # THROWS
    BY <2>2 DEF THROWS
  <2>5. AfterValue(b, o) = IF o + 1 + u > Len(b) THEN UNKNOWN_LENGTH ELSE o + 1 + w
    BY <1>1, <1>2, <2>3, <2>4 DEF AfterValue, Past
  <2>6. QED
    BY <1>3, <1>4, <2>1, <2>2, <2>5
<1>8. CASE tag \in STRINGS /\ size # -1
  <2>1. tag \notin DOMAIN FS /\ tag # BIT_STRING /\ tag \notin {ARRAY, STRUCTURE} /\ tag # -1
    BY <1>5, <1>8 DEF STRINGS, BIT_STRING, ARRAY, STRUCTURE
  <2>2. o + 1 \in Nat
    OBVIOUS
  <2>3. size \in 0 .. 255
    <3>1. size \in -1 .. 255
      BY <1>3, <2>2, AtIs
    <3>2. QED
      BY <1>8, <3>1
  <2>4. FirstEnd(b, p, g) = o + 1 + 1 + size
    BY <1>2, <1>3, <1>4, <1>8, <2>1 DEF FirstEnd
  <2>5. o + 1 + 1 + size # THROWS
    BY <2>3 DEF THROWS
  <2>6. AfterValue(b, o) = o + 1 + 1 + size
    BY <1>1, <1>2, <2>4, <2>5 DEF AfterValue, Past
  <2>7. QED
    BY <1>3, <1>4, <2>1, <2>6
<1>9. QED
  BY <1>3, <1>4, <1>6, <1>7, <1>8

\* The length of a GET.response that begins with a normal result.
LEMMA ReadLength ==
  ASSUME NEW x \in Bytes, x # <<>>, NEW b,
         b[1] = \hC4, b[2] = 1, b[4] = 0, \A i \in 1 .. 4 : i <= Len(x) => x[i] = b[i]
  PROVE  RawDlmsLength(x) = IF Len(x) < 4 THEN UNKNOWN_LENGTH ELSE AfterValue(x, 4)
<1>1. PICK l \in Nat : l = Len(x) /\ l # 0
  BY DEF Bytes
<1>2. At(x, 0) = \hC4
  <2>1. 0 < l /\ 0 + 1 = 1 /\ 1 \in 1 .. 4 /\ 1 <= l
    BY <1>1
  <2>2. QED
    BY <1>1, <2>1 DEF At
<1>3. RawDlmsLength(x) = ResponseLength(x)
  BY <1>2 DEF RawDlmsLength
<1>4. CASE l < 4
  BY <1>1, <1>3, <1>4 DEF ResponseLength
<1>5. CASE ~ (l < 4)
  <2>1. At(x, 1) = 1 /\ At(x, 3) = 0
    <3>1. /\ 1 < l /\ 3 < l /\ 1 + 1 = 2 /\ 3 + 1 = 4 /\ 2 <= l /\ 4 <= l
          /\ 2 \in 1 .. 4 /\ 4 \in 1 .. 4
      BY <1>1, <1>5
    <3>2. QED
      BY <1>1, <3>1 DEF At
  <2>2. QED
    BY <1>1, <1>2, <1>3, <1>5, <2>1 DEF ResponseLength
<1>6. QED
  BY <1>1, <1>4, <1>5

\* A GET.response with a value of fixed size: a number, an enumeration, a date-time.
LEMMA ReadNumberUnderstood ==
  ASSUME NEW item, NEW leads, item.bytes \in Bytes, NEW s \in Nat,
         item.bytes[1] = \hC4, item.bytes[2] = 1, item.bytes[4] = 0,
         item.bytes[5] \in DOMAIN FixedSizes, FixedSizes[item.bytes[5]] = <<s, s>>,
         Len(item.bytes) = 5 + s, Len(item.bytes) <= MAX_PAYLOAD_LENGTH + 1,
         item.events = HandleIvyPacket(RawPacket(item.bytes, Len(item.bytes)))
  PROVE  IvyUnderstood(item, leads)
<1>1. item.bytes # <<>> /\ item.bytes[1] \in RAW_DLMS_TAGS
  BY DEF RAW_DLMS_TAGS
<1>2. PICK n \in Nat : n = Len(item.bytes) /\ n = 5 + s
  OBVIOUS
<1>3. ASSUME NEW x \in Bytes, x # <<>>, \A i \in 1 .. n : i <= Len(x) => x[i] = item.bytes[i]
      PROVE  RawDlmsLength(x) = IfBuffered(x, n)
  <2>1. PICK l \in Nat : l = Len(x) /\ l # 0
    BY <1>3 DEF Bytes
  <2>2. \A i \in 1 .. 4 : i <= Len(x) => x[i] = item.bytes[i]
    <3>1. \A i \in 1 .. 4 : i \in 1 .. n
      BY <1>2
    <3>2. QED
      BY <1>3, <3>1
  <2>3. RawDlmsLength(x) = IF l < 4 THEN UNKNOWN_LENGTH ELSE AfterValue(x, 4)
    BY <1>3, <2>1, <2>2, ReadLength
  <2>4. CASE l < 5
    <3>1. At(x, 4) = -1
      BY <2>1, <2>4 DEF At
    <3>2. AfterValue(x, 4) = UNKNOWN_LENGTH
      BY <3>1, AfterOneValue
    <3>3. ~ (l >= n)
      BY <1>2, <2>4
    <3>4. QED
      BY <2>1, <2>3, <3>2, <3>3 DEF IfBuffered
  <2>5. CASE ~ (l < 5)
    <3>1. PICK tag : tag = item.bytes[5] /\ tag \in DOMAIN FixedSizes
      OBVIOUS
    <3>2. At(x, 4) = tag
      <4>1. 4 < l /\ 4 + 1 = 5 /\ 5 <= l /\ 5 \in 1 .. n
        BY <1>2, <2>5
      <4>2. QED
        BY <1>3, <2>1, <3>1, <4>1 DEF At
    <3>3. PICK u : u = FixedSizes[tag] /\ u = <<s, s>>
      BY <3>1
    <3>4. AfterValue(x, 4) = IF 4 + 1 + u[1] > Len(x) THEN UNKNOWN_LENGTH ELSE 4 + 1 + u[2]
      BY <3>1, <3>2, <3>3, AfterOneValue
    <3>5. AfterValue(x, 4) = IF n > l THEN UNKNOWN_LENGTH ELSE n
      BY <1>2, <2>1, <3>3, <3>4
    <3>6. (n > l <=> ~ (l >= n)) /\ ~ (l < 4)
      BY <2>5
    <3>7. QED
      BY <2>1, <2>3, <3>5, <3>6 DEF IfBuffered
  <2>6. QED
    BY <2>4, <2>5
<1>4. QED
  BY <1>1, <1>2, <1>3, LengthUnderstood

\* The answer to a read with a string, inside which no chunk ends.
ReadString(item) ==
  /\ item.bytes[1] = \hC4 /\ item.bytes[2] = 1 /\ item.bytes[4] = 0
  /\ item.bytes[5] \in STRINGS /\ Len(item.bytes) = 6 + item.bytes[6]
  /\ item.bytes[6] \in Nat /\ 5 .. Len(item.bytes) - 1 \subseteq item.fragile

\* A GET.response with a string, where no chunk ends inside the string.
LEMMA ReadStringUnderstood ==
  ASSUME NEW item, NEW leads, item.bytes \in Bytes, ReadString(item),
         Len(item.bytes) <= MAX_PAYLOAD_LENGTH + 1,
         item.events = HandleIvyPacket(RawPacket(item.bytes, Len(item.bytes)))
  PROVE  IvyUnderstood(item, leads)
<1>a. PICK size \in Nat :
        /\ item.bytes[1] = \hC4 /\ item.bytes[2] = 1 /\ item.bytes[4] = 0
        /\ item.bytes[5] \in STRINGS /\ item.bytes[6] = size /\ Len(item.bytes) = 6 + size
        /\ 5 .. Len(item.bytes) - 1 \subseteq item.fragile
  BY DEF ReadString
<1> USE <1>a
<1>1. item.bytes # <<>> /\ item.bytes[1] \in RAW_DLMS_TAGS
  BY DEF RAW_DLMS_TAGS
<1>2. PICK b \in Bytes : b = item.bytes
  OBVIOUS
<1>3. PICK n \in Nat : n = Len(b) /\ n = 6 + size
  BY <1>2
<1>4. ASSUME NEW r \in Bytes PROVE RawDlmsLength(b \o r) = n
  <2>1. PICK x : x = b \o r
    OBVIOUS
  <2>a. b # <<>>
    BY <1>1, <1>2
  <2>b. /\ b \o r \in Bytes /\ Len(b \o r) = Len(b) + Len(r) /\ Len(r) \in Nat
        /\ \A i \in 1 .. Len(b) : (b \o r)[i] = b[i]
    BY ONLY b \in Bytes, r \in Bytes, JoinedBuffers
  <2>c. b \o r # <<>>
    BY ONLY b \in Bytes, r \in Bytes, <2>a, WholeAndRest
  <2>2. /\ x \in Bytes /\ Len(x) = n + Len(r) /\ Len(r) \in Nat /\ x # <<>>
        /\ \A i \in 1 .. n : x[i] = b[i]
    BY <1>3, <2>1, <2>b, <2>c
  <2>3. \A i \in 1 .. 4 : i <= Len(x) => x[i] = item.bytes[i]
    BY <1>2, <1>3, <2>2
  <2>4. ~ (Len(x) < 4)
    BY <1>3, <2>2
  <2>5. RawDlmsLength(x) = AfterValue(x, 4)
    BY <2>2, <2>3, <2>4, ReadLength
  <2>6. At(x, 4) \in STRINGS /\ At(x, 4 + 1) = size /\ size # -1
    <3>1. /\ 4 < Len(x) /\ 4 + 1 < Len(x) /\ 4 + 1 = 5 /\ (4 + 1) + 1 = 6
          /\ 5 \in 1 .. n /\ 6 \in 1 .. n
      BY <1>3, <2>2
    <3>2. QED
      BY <1>2, <2>2, <3>1 DEF At
  <2>7. AfterValue(x, 4) = 4 + 1 + 1 + size
    BY <2>2, <2>6, AfterOneValue
  <2>8. QED
    BY <1>3, <2>1, <2>5, <2>7
<1>5. ASSUME NEW k \in 1 .. Len(b) - 1, k \notin item.fragile
      PROVE  RawDlmsLength(SubSeq(b, 1, k)) = UNKNOWN_LENGTH /\ k <= MAX_PAYLOAD_LENGTH
  <2>1. PICK x : x = SubSeq(b, 1, k)
    OBVIOUS
  <2>2. /\ x \in Bytes /\ Len(x) = k /\ k < Len(b) /\ k \in Nat \ {0}
        /\ x # <<>> /\ \A i \in 1 .. k : x[i] = b[i]
    BY ONLY b \in Bytes, k \in 1 .. Len(b) - 1, <2>1, PartIs
  <2>3. k <= 4
    <3>1. k \notin 5 .. n - 1
      BY <1>2, <1>3, <1>5
    <3>2. QED
      BY <1>3, <2>2, <3>1
  <2>4. \A i \in 1 .. 4 : i <= Len(x) => x[i] = item.bytes[i]
    BY <1>2, <2>2
  <2>5. RawDlmsLength(x) = IF Len(x) < 4 THEN UNKNOWN_LENGTH ELSE AfterValue(x, 4)
    BY <2>2, <2>4, ReadLength
  <2>6. At(x, 4) = -1
    BY <2>2, <2>3 DEF At
  <2>7. AfterValue(x, 4) = UNKNOWN_LENGTH
    BY <2>2, <2>6, AfterOneValue
  <2>8. RawDlmsLength(x) = UNKNOWN_LENGTH
    BY <2>5, <2>7
  <2>9. k <= MAX_PAYLOAD_LENGTH
    BY <1>2, <1>3, <2>2, <2>3, MaxPayloadAssumption
  <2>10. QED
    BY <2>1, <2>8, <2>9
<1>6. \A r \in Bytes : r = <<>> \/ (~ item.lone /\ r[1] \in leads) =>
         RawDlmsLength(item.bytes \o r) = Len(item.bytes)
  BY <1>2, <1>3, <1>4
<1>7. \A k \in 1 .. Len(item.bytes) - 1 : ~ item.lone /\ k \notin item.fragile =>
         RawDlmsLength(SubSeq(item.bytes, 1, k)) = UNKNOWN_LENGTH /\ k <= MAX_PAYLOAD_LENGTH
  BY <1>2, <1>5
<1>8. QED
  BY <1>1, <1>6, <1>7, RawUnderstood

------------------------------------------------------------------------------
(* Traffic described by its bytes alone.                                   *)

\* DLT645: a whole frame, good or bad, or noise without a start delimiter.
WholeFrame(item) ==
  /\ item.bytes # <<>> /\ item.bytes[1] = START_DELIMITER
  /\ CompleteFrame(item.bytes) = Len(item.bytes)
  /\ item.events = <<FrameEmission(item.bytes)>>
Noise(item) ==
  /\ item.bytes # <<>> /\ item.events = <<>>
  /\ \A i \in 1 .. Len(item.bytes) : item.bytes[i] # START_DELIMITER

\* IVY: a packet with the header that announces its length.
WholePacket(item) ==
  /\ Len(item.bytes) >= IVY_HEADER_LENGTH /\ HasSignature(item.bytes)
  /\ DeclaredLength(item.bytes) <= MAX_PAYLOAD_LENGTH
  /\ Len(item.bytes) = IVY_HEADER_LENGTH + DeclaredLength(item.bytes)
  /\ item.events = HandleIvyPacket(IvyPacket(item.bytes, Len(item.bytes)))

\* An APDU without one: an exception, a BER APDU of less than 128 bytes of content,
\* or the answer to a read: an error, a value of fixed size, or a string, inside which
\* no chunk may end.
Exception(bytes) == Len(bytes) = 3 /\ bytes[1] = \hD8
ReadError(bytes) == Len(bytes) = 5 /\ bytes[1] = \hC4 /\ bytes[2] = 1 /\ bytes[4] = 1
ShortTlv(bytes) ==
  /\ Len(bytes) >= 2 /\ bytes[1] \in {\h60, \h61, \h62, \h63}
  /\ bytes[2] < 128 /\ Len(bytes) = 2 + bytes[2]
ReadNumber(bytes) ==
  /\ bytes[1] = \hC4 /\ bytes[2] = 1 /\ bytes[4] = 0 /\ bytes[5] \in DOMAIN FixedSizes
  /\ \E s \in Nat : FixedSizes[bytes[5]] = <<s, s>> /\ Len(bytes) = 5 + s
PlainApdu(item) ==
  /\ \/ Exception(item.bytes) \/ ReadError(item.bytes) \/ ShortTlv(item.bytes)
     \/ ReadNumber(item.bytes) \/ ReadString(item)
  /\ Len(item.bytes) <= MAX_PAYLOAD_LENGTH + 1
  /\ item.events = HandleIvyPacket(RawPacket(item.bytes, Len(item.bytes)))

\* A meter that sends only these.
PlainTraffic ==
  \/ /\ Wire[1] = START_DELIMITER
     /\ \A i \in DOMAIN traffic : WholeFrame(traffic[i]) \/ Noise(traffic[i])
  \/ /\ HasSignature(Wire) \/ Wire[1] \in RAW_DLMS_TAGS
     /\ \A i \in DOMAIN traffic : WholePacket(traffic[i]) \/ PlainApdu(traffic[i])

\* It is understood.
LEMMA PlainUnderstood ==
  ASSUME TrafficTyped, PlainTraffic PROVE DltTraffic \/ IvyTraffic
<1>1. \A i \in DOMAIN traffic : traffic[i].bytes \in Bytes
  BY WireIs
<1>2. ASSUME NEW item, item.bytes \in Bytes, WholeFrame(item) \/ Noise(item)
      PROVE  DltUnderstood(item)
  <2>1. CASE WholeFrame(item)
    BY <1>2, <2>1, FramesUnderstood DEF WholeFrame
  <2>2. CASE Noise(item)
    BY <1>2, <2>2, NoiseUnderstood DEF Noise
  <2>3. QED
    BY <1>2, <2>1, <2>2
<1>3. ASSUME NEW item, NEW leads, item.bytes \in Bytes, WholePacket(item) \/ PlainApdu(item)
      PROVE  IvyUnderstood(item, leads)
  <2>1. CASE WholePacket(item)
    BY <1>3, <2>1, HeadersUnderstood DEF WholePacket
  <2>2. CASE PlainApdu(item)
    <3>1. /\ Len(item.bytes) <= MAX_PAYLOAD_LENGTH + 1
          /\ item.events = HandleIvyPacket(RawPacket(item.bytes, Len(item.bytes)))
      BY <2>2 DEF PlainApdu
    <3>2. CASE Exception(item.bytes)
      <4>1. Len(item.bytes) = 3 /\ item.bytes[1] = \hD8 /\ 3 <= MAX_PAYLOAD_LENGTH + 1
        BY <3>1, <3>2 DEF Exception
      <4>2. QED
        BY <1>3, <3>1, <4>1, ExceptionUnderstood, Zenon
    <3>3. CASE ReadError(item.bytes)
      <4>1. /\ Len(item.bytes) = 5 /\ item.bytes[1] = \hC4 /\ item.bytes[2] = 1
            /\ item.bytes[4] = 1 /\ 5 <= MAX_PAYLOAD_LENGTH + 1
        BY <3>1, <3>3 DEF ReadError
      <4>2. QED
        BY <1>3, <3>1, <4>1, ReadErrorUnderstood, Zenon
    <3>4. CASE ShortTlv(item.bytes)
      BY <1>3, <3>1, <3>4, TlvUnderstood, Zenon DEF ShortTlv
    <3>5. CASE ReadNumber(item.bytes)
      <4>1. PICK s \in Nat : FixedSizes[item.bytes[5]] = <<s, s>> /\ Len(item.bytes) = 5 + s
        BY <3>5 DEF ReadNumber
      <4>2. /\ item.bytes[1] = \hC4 /\ item.bytes[2] = 1 /\ item.bytes[4] = 0
            /\ item.bytes[5] \in DOMAIN FixedSizes
        BY <3>5 DEF ReadNumber
      <4>3. item.bytes \in Bytes
        BY <1>3
      <4>4. QED
        BY <3>1, <4>1, <4>2, <4>3, ReadNumberUnderstood
    <3>6. CASE ReadString(item)
      BY <1>3, <3>1, <3>6, ReadStringUnderstood, Zenon
    <3>7. QED
      BY <2>2, <3>2, <3>3, <3>4, <3>5, <3>6, Zenon DEF PlainApdu
  <2>3. QED
    BY <1>3, <2>1, <2>2
<1>4. QED
  BY <1>1, <1>2, <1>3 DEF PlainTraffic, DltTraffic, IvyTraffic

\* So whatever the chunks that tear nothing, a meter that sends frames and noise, or
\* IVY packets, association answers, errors and values, has each of them handed to its
\* callback with its last byte, in order and unaltered, and nothing else
\* (protocol-router.js).
THEOREM PlainAlwaysIntact == Spec => [](PlainTraffic => IntactUnlessTorn)
<1>1. Spec => []IntactInv
  BY IntactInit, IntactStep, PTL DEF Spec
<1>2. IntactInv /\ PlainTraffic => DltTraffic \/ IvyTraffic
  BY PlainUnderstood DEF IntactInv
<1>3. IntactInv => (PlainTraffic => IntactUnlessTorn)
  BY <1>2, IntactIsIntact
<1>4. QED
  BY <1>1, <1>3, PTL
=============================================================================
