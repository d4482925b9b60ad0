--------------------------- MODULE PostgresLine_proofs ---------------------------
(***************************************************************************)
(* RefusedForItsText and SqlDenotesChange of PostgresLine, for rows of any *)
(* number of columns and for any names and values: what the parser makes   *)
(* of a printed line is followed symbol by symbol.                         *)
(***************************************************************************)
EXTENDS PostgresLine, SequenceTheorems, WellFoundedInduction, TLAPS

----------------------------------------------------------------------------------
(* Induction over a range, and the least and greatest of some numbers.     *)
LEMMA UpTo ==
  ASSUME NEW n \in Nat, NEW P, 0 \in P, \A i \in 1..n : i - 1 \in P => i \in P
  PROVE  0..n \subseteq P
  <1>. DEFINE T == {i \in 0..n : i \notin P}
  <1>. SUFFICES ASSUME T # {} PROVE FALSE
    OBVIOUS
  <1>1. PICK x \in T : \A y \in T : ~(<<y, x>> \in OpToRel(<, Nat))
    <2>1. T \subseteq Nat
      OBVIOUS
    <2>. QED BY <2>1, NatLessThanWellFounded, WFMin
  <1>2. x \in 1..n /\ x - 1 \in 0..n
    OBVIOUS
  <1>3. x - 1 \in T
    BY <1>2
  <1>4. x - 1 \in Nat /\ x \in Nat /\ x - 1 < x
    BY <1>2
  <1>. QED BY <1>1, <1>3, <1>4 DEF OpToRel

(* The least of some numbers is one of them.                               *)
LEMMA MinLemma ==
  ASSUME NEW S, S \subseteq Nat, S # {}
  PROVE  Min(S) \in S /\ \A x \in S : Min(S) <= x
  <1>1. PICK x \in S : \A y \in S : ~(<<y, x>> \in OpToRel(<, Nat))
    BY NatLessThanWellFounded, WFMin
  <1>2. \A y \in S : x <= y
    <2>. SUFFICES ASSUME NEW y \in S PROVE x <= y
      OBVIOUS
    <2>1. x \in Nat /\ y \in Nat
      OBVIOUS
    <2>2. ~(<<y, x>> \in OpToRel(<, Nat))
      BY <1>1
    <2>3. ~(y < x)
      BY <2>1, <2>2 DEF OpToRel
    <2>. QED BY <2>1, <2>3
  <1>3. \E z \in S : \A y \in S : z <= y
    BY <1>1, <1>2
  <1>. QED BY <1>3 DEF Min

(* So is the greatest, if they have a bound.                               *)
LEMMA MaxLemma ==
  ASSUME NEW S, NEW b \in Nat, S \subseteq 0..b, S # {}
  PROVE  Max(S) \in S /\ \A x \in S : x <= Max(S)
  <1>. DEFINE R == {b - x : x \in S}
  <1>1. R \subseteq Nat /\ R # {}
    <2>1. \A x \in S : b - x \in Nat
      OBVIOUS
    <2>. QED BY <2>1
  <1>2. Min(R) \in R /\ \A y \in R : Min(R) <= y
    BY <1>1, MinLemma
  <1>3. PICK m \in S : Min(R) = b - m
    BY <1>2
  <1>4. \A x \in S : m >= x
    <2>. SUFFICES ASSUME NEW x \in S PROVE m >= x
      OBVIOUS
    <2>1. b - x \in R
      OBVIOUS
    <2>2. Min(R) <= b - x
      BY <1>2, <2>1
    <2>. HIDE DEF R
    <2>. QED BY <1>3, <2>2
  <1>. HIDE DEF R
  <1>. QED BY <1>4 DEF Max

----------------------------------------------------------------------------------
(* A concatenation: part i lies behind place at[i - 1].                    *)
Ends(parts, n, at) ==
  /\ at \in [0..n -> Nat]
  /\ at[0] = 0
  /\ \A i \in 1..n : at[i] = at[i - 1] + Len(parts[i])

(* The parts of a text stand one behind another.                           *)
Laid(s, parts, n, at) ==
  \A i \in 1..n : \A p \in 1..Len(parts[i]) : s[at[i - 1] + p] = parts[i][p]

(* Places that do not fall from one step to the next do not fall at all.   *)
LEMMA RisingLemma ==
  ASSUME NEW n \in Nat, NEW at \in [0..n -> Nat], \A i \in 1..n : at[i - 1] <= at[i]
  PROVE  \A i, j \in 0..n : i <= j => at[i] <= at[j]
  <1>. DEFINE P == {j \in 0..n : \A i \in 0..n : i <= j => at[i] <= at[j]}
  <1>1. 0 \in P
    OBVIOUS
  <1>2. ASSUME NEW j \in 1..n, j - 1 \in P PROVE j \in P
    <2>. SUFFICES ASSUME NEW i \in 0..n, i <= j PROVE at[i] <= at[j]
      OBVIOUS
    <2>1. CASE i = j
      BY <2>1
    <2>2. CASE i # j
      <3>1. i <= j - 1 /\ j - 1 \in 0..n
        BY <2>2
      <3>2. at[i] <= at[j - 1] /\ at[j - 1] <= at[j]
        BY <1>2, <3>1
      <3>. QED BY <3>1, <3>2
    <2>. QED BY <2>1, <2>2
  <1>3. 0..n \subseteq P
    <2>. HIDE DEF P
    <2>. QED BY <1>1, <1>2, UpTo
  <1>. QED BY <1>3

(* Every place up to the last end lies in one of the parts.                *)
LEMMA LocateLemma ==
  ASSUME NEW n \in Nat, NEW at \in [0..n -> Nat], at[0] = 0, NEW x \in 1..at[n]
  PROVE  \E i \in 1..n : at[i - 1] < x /\ x <= at[i]
  <1>. SUFFICES ASSUME \A i \in 1..n : at[i - 1] < x => at[i] < x PROVE FALSE
    OBVIOUS
  <1>. DEFINE P == {i \in 0..n : at[i] < x}
  <1>1. 0 \in P
    OBVIOUS
  <1>2. \A i \in 1..n : i - 1 \in P => i \in P
    OBVIOUS
  <1>3. 0..n \subseteq P
    <2>. HIDE DEF P
    <2>. QED BY <1>1, <1>2, UpTo
  <1>. QED BY <1>3

(* The concatenations of the first parts, each by one part longer.         *)
Joins(parts, m, f) ==
  /\ f = [i \in 1..m |-> f[i]]
  /\ \A i \in 1..m : f[i] = IF i = 1 THEN parts[i] ELSE f[i - 1] \o parts[i]

(* FlattenSeq                                                              *)
LEMMA JoinsLemma ==
  ASSUME NEW n \in Nat \ {0}, NEW parts, Len(parts) = n
  PROVE  \E f : Joins(parts, n, f) /\ FlattenSeq(parts) = f[n]
  <1>. DEFINE P == {m \in 0..n : \E f : Joins(parts, m, f)}
  <1>1. 0 \in P
    <2>. DEFINE f == [i \in 1..0 |-> 0]
    <2>1. f = [i \in 1..0 |-> f[i]]
      OBVIOUS
    <2>2. \A i \in 1..0 : f[i] = IF i = 1 THEN parts[i] ELSE f[i - 1] \o parts[i]
      OBVIOUS
    <2>. HIDE DEF f
    <2>3. Joins(parts, 0, f)
      BY <2>1, <2>2 DEF Joins
    <2>. QED BY <2>3
  <1>2. ASSUME NEW m \in 1..n, m - 1 \in P PROVE m \in P
    <2>1. PICK g : Joins(parts, m - 1, g)
      BY <1>2
    <2>. DEFINE f == [i \in 1..m |-> IF i = m THEN (IF m = 1 THEN parts[m] ELSE g[m - 1] \o parts[m]) ELSE g[i]]
    <2>2. /\ f = [i \in 1..m |-> f[i]]
          /\ f[m] = (IF m = 1 THEN parts[m] ELSE g[m - 1] \o parts[m])
          /\ \A i \in 1..(m - 1) : f[i] = g[i]
      OBVIOUS
    <2>. HIDE DEF f
    <2>3. ASSUME NEW i \in 1..m
          PROVE  f[i] = IF i = 1 THEN parts[i] ELSE f[i - 1] \o parts[i]
      <3>1. CASE i = m
        <4>1. CASE m = 1
          BY <2>2, <3>1, <4>1
        <4>2. CASE m # 1
          <5>1. m - 1 \in 1..(m - 1)
            BY <4>2
          <5>2. f[m - 1] = g[m - 1]
            BY <2>2, <5>1
          <5>. QED BY <2>2, <3>1, <4>2, <5>2
        <4>. QED BY <4>1, <4>2
      <3>2. CASE i # m
        <4>1. i \in 1..(m - 1) /\ (i # 1 => i - 1 \in 1..(m - 1))
          BY <3>2
        <4>2. g[i] = IF i = 1 THEN parts[i] ELSE g[i - 1] \o parts[i]
          BY <2>1, <4>1 DEF Joins
        <4>3. CASE i = 1
          BY <2>2, <4>1, <4>2, <4>3
        <4>4. CASE i # 1
          BY <2>2, <4>1, <4>2, <4>4
        <4>. QED BY <4>3, <4>4
      <3>. QED BY <3>1, <3>2
    <2>4. Joins(parts, m, f)
      BY <2>2, <2>3 DEF Joins
    <2>. QED BY <2>4
  <1>3. n \in P
    <2>. HIDE DEF P
    <2>1. 0..n \subseteq P
      BY <1>1, <1>2, UpTo
    <2>. QED BY <2>1
  <1>4. PICK g : Joins(parts, n, g)
    BY <1>3
  <1>. DEFINE f == CHOOSE f : f = [i \in 1..n |-> IF i = 1 THEN parts[i] ELSE f[i - 1] \o parts[i]]
  <1>5. g = [i \in 1..n |-> IF i = 1 THEN parts[i] ELSE g[i - 1] \o parts[i]]
    <2>. DEFINE h == [i \in 1..n |-> IF i = 1 THEN parts[i] ELSE g[i - 1] \o parts[i]]
    <2>1. \A i \in 1..n : g[i] = h[i]
      BY <1>4 DEF Joins
    <2>2. g = [i \in 1..n |-> g[i]]
      BY <1>4 DEF Joins
    <2>. QED BY <2>1, <2>2
  <1>6. f = [i \in 1..n |-> IF i = 1 THEN parts[i] ELSE f[i - 1] \o parts[i]]
    BY <1>5, Zenon
  <1>7. FlattenSeq(parts) = f[n]
    BY Zenon DEF FlattenSeq
  <1>. HIDE DEF f
  <1>8. Joins(parts, n, f)
    <2>. DEFINE h == [i \in 1..n |-> IF i = 1 THEN parts[i] ELSE f[i - 1] \o parts[i]]
    <2>1. f = h
      BY <1>6
    <2>2. h = [i \in 1..n |-> h[i]]
      OBVIOUS
    <2>3. \A i \in 1..n : h[i] = IF i = 1 THEN parts[i] ELSE f[i - 1] \o parts[i]
      OBVIOUS
    <2>4. f = [i \in 1..n |-> f[i]]
      BY <2>1, <2>2
    <2>. HIDE DEF h
    <2>5. \A i \in 1..n : f[i] = IF i = 1 THEN parts[i] ELSE f[i - 1] \o parts[i]
      BY <2>1, <2>3
    <2>. QED BY <2>4, <2>5 DEF Joins
  <1>. QED BY <1>7, <1>8

(* A concatenation and the places of its parts.                            *)
Flat(s, S, parts, n, at) ==
  /\ Ends(parts, n, at)
  /\ s \in Seq(S)
  /\ Len(s) = at[n]
  /\ Laid(s, parts, n, at)

(* FlattenSeq, a fold, lays its parts end to end.                          *)
LEMMA FlattenLemma ==
  ASSUME NEW S, NEW n \in Nat, NEW parts \in [1..n -> Seq(S)]
  PROVE  \E at : Flat(FlattenSeq(parts), S, parts, n, at)
  <1>1. parts \in Seq(Seq(S)) /\ Len(parts) = n
    OBVIOUS
  <1>2. CASE n = 0
    <2>. DEFINE at == [i \in 0..0 |-> 0]
    <2>1. parts = <<>> /\ FlattenSeq(parts) = <<>>
      BY <1>1, <1>2 DEF FlattenSeq
    <2>2. at \in [0..0 -> Nat] /\ at[0] = 0
      OBVIOUS
    <2>. HIDE DEF at
    <2>3. Flat(<<>>, S, parts, n, at)
      BY <1>2, <2>2 DEF Flat, Ends, Laid
    <2>. QED BY <2>1, <2>3
  <1>3. CASE n # 0
    <2>1. PICK f : Joins(parts, n, f) /\ FlattenSeq(parts) = f[n]
      BY <1>1, <1>3, JoinsLemma
    <2>. DEFINE P == {m \in 0..n : m # 0 => \E at : Flat(f[m], S, parts, m, at)}
    <2>2. 0 \in P
      OBVIOUS
    <2>3. ASSUME NEW m \in 1..n, m - 1 \in P PROVE m \in P
      <3>1. CASE m = 1
        <4>. DEFINE at == [i \in 0..1 |-> IF i = 0 THEN 0 ELSE Len(parts[1])]
        <4>0. 1 \in 1..n /\ parts[1] \in Seq(S) /\ Len(parts[1]) \in Nat
          BY <1>3
        <4>1. at \in [0..1 -> Nat] /\ at[0] = 0 /\ at[1] = Len(parts[1])
          BY <4>0
        <4>2. f[1] = parts[1]
          BY <2>1, <4>0 DEF Joins
        <4>. HIDE DEF at
        <4>3. Ends(parts, 1, at)
          BY <4>1 DEF Ends
        <4>4. Laid(f[1], parts, 1, at)
          BY <4>0, <4>1, <4>2 DEF Laid
        <4>5. Flat(f[1], S, parts, 1, at)
          BY <4>0, <4>1, <4>2, <4>3, <4>4 DEF Flat
        <4>. QED BY <3>1, <4>5
      <3>2. CASE m # 1
        <4>1. PICK b : Flat(f[m - 1], S, parts, m - 1, b)
          BY <2>3, <3>2
        <4>2. parts[m] \in Seq(S) /\ f[m] = f[m - 1] \o parts[m]
          BY <2>1, <3>2 DEF Joins
        <4>3. f[m - 1] \in Seq(S) /\ Len(f[m - 1]) = b[m - 1] /\ b \in [0..(m - 1) -> Nat] /\ b[0] = 0
          BY <4>1 DEF Flat, Ends
        <4>. DEFINE at == [i \in 0..m |-> IF i = m THEN b[m - 1] + Len(parts[m]) ELSE b[i]]
        <4>4. /\ at \in [0..m -> Nat]
              /\ at[m] = b[m - 1] + Len(parts[m])
              /\ \A i \in 0..(m - 1) : at[i] = b[i]
          <5>1. Len(parts[m]) \in Nat /\ b[m - 1] \in Nat
            BY <4>2, <4>3
          <5>. QED BY <4>3, <5>1
        <4>. HIDE DEF at
        <4>5. at[0] = 0 /\ at[m - 1] = b[m - 1]
          BY <4>3, <4>4
        <4>6. Ends(parts, m, at)
          <5>1. ASSUME NEW i \in 1..m PROVE at[i] = at[i - 1] + Len(parts[i])
            <6>1. CASE i = m
              BY <4>4, <4>5, <6>1
            <6>2. CASE i # m
              <7>1. i \in 1..(m - 1) /\ i \in 0..(m - 1) /\ i - 1 \in 0..(m - 1)
                BY <6>2
              <7>2. b[i] = b[i - 1] + Len(parts[i])
                BY <4>1, <7>1 DEF Flat, Ends
              <7>. QED BY <4>4, <7>1, <7>2
            <6>. QED BY <6>1, <6>2
          <5>. QED BY <4>4, <4>5, <5>1 DEF Ends
        <4>7. /\ f[m] \in Seq(S)
              /\ Len(f[m]) = at[m]
              /\ \A x \in 1..at[m] : f[m][x] = IF x <= b[m - 1] THEN f[m - 1][x] ELSE parts[m][x - b[m - 1]]
          BY <4>2, <4>3, <4>4, ConcatProperties
        <4>8. Laid(f[m], parts, m, at)
          <5>. SUFFICES ASSUME NEW i \in 1..m, NEW p \in 1..Len(parts[i])
                        PROVE  f[m][at[i - 1] + p] = parts[i][p]
            BY DEF Laid
          <5>0. Len(parts[m]) \in Nat /\ b[m - 1] \in Nat
            BY <4>2, <4>3
          <5>1. CASE i = m
            <6>1. PICK x : x = at[i - 1] + p
              OBVIOUS
            <6>2. x \in 1..at[m] /\ ~(x <= b[m - 1]) /\ x - b[m - 1] = p
              BY <4>4, <4>5, <5>0, <5>1, <6>1
            <6>3. f[m][x] = parts[m][x - b[m - 1]]
              BY <4>7, <6>2
            <6>. QED BY <5>1, <6>1, <6>2, <6>3
          <5>2. CASE i # m
            <6>1. i \in 1..(m - 1) /\ i \in 0..(m - 1) /\ i - 1 \in 0..(m - 1) /\ m - 1 \in 0..(m - 1)
              BY <5>2
            <6>2. b[i] = b[i - 1] + Len(parts[i]) /\ parts[i] \in Seq(S)
              BY <4>1, <6>1 DEF Flat, Ends
            <6>3. \A j \in 1..(m - 1) : b[j - 1] <= b[j]
              <7>. SUFFICES ASSUME NEW j \in 1..(m - 1) PROVE b[j - 1] <= b[j]
                OBVIOUS
              <7>1. b[j] = b[j - 1] + Len(parts[j]) /\ parts[j] \in Seq(S) /\ b[j - 1] \in Nat
                BY <4>1, <4>3 DEF Flat, Ends
              <7>. QED BY <7>1
            <6>4. b[i] <= b[m - 1]
              <7>1. m - 1 \in Nat /\ i <= m - 1
                BY <6>1
              <7>2. \A j, k \in 0..(m - 1) : j <= k => b[j] <= b[k]
                BY <4>3, <6>3, <7>1, RisingLemma
              <7>. QED BY <6>1, <7>1, <7>2
            <6>5. b[i - 1] \in Nat /\ Len(parts[i]) \in Nat
              BY <4>3, <6>1, <6>2
            <6>6. b[i - 1] + p <= b[m - 1] /\ b[i - 1] + p \in 1..at[m]
              <7>1. b[i - 1] + p <= b[i - 1] + Len(parts[i]) /\ b[i - 1] + p >= 1
                BY <6>5
              <7>2. at[m] = b[m - 1] + Len(parts[m])
                BY <4>4
              <7>. QED BY <5>0, <6>2, <6>4, <6>5, <7>1, <7>2
            <6>7. f[m][b[i - 1] + p] = f[m - 1][b[i - 1] + p]
              BY <4>7, <6>6
            <6>8. f[m - 1][b[i - 1] + p] = parts[i][p]
              BY <4>1, <6>1 DEF Flat, Laid
            <6>. QED BY <4>4, <6>1, <6>7, <6>8
          <5>. QED BY <5>1, <5>2
        <4>9. Flat(f[m], S, parts, m, at)
          BY <4>6, <4>7, <4>8 DEF Flat
        <4>. QED BY <4>9
      <3>. QED BY <3>1, <3>2
    <2>4. 0..n \subseteq P
      <3>. HIDE DEF P
      <3>. QED BY <2>2, <2>3, UpTo
    <2>. QED BY <1>3, <2>1, <2>4
  <1>. QED BY <1>2, <1>3

(* The places of a concatenation, one after the other.                     *)
Placed(s, S, parts, n, at) ==
  /\ at \in [0..n -> Nat] /\ at[0] = 0 /\ s \in Seq(S) /\ Len(s) = at[n]
  /\ \A i \in 1..n : at[i] = at[i - 1] + Len(parts[i]) /\ Len(parts[i]) \in Nat
  /\ \A i, j \in 0..n : i <= j => at[i] <= at[j]
  /\ \A i \in 1..n : \A p \in 1..Len(parts[i]) : s[at[i - 1] + p] = parts[i][p]
  /\ \A x \in 1..Len(s) : \E i \in 1..n : \E p \in 1..Len(parts[i]) : x = at[i - 1] + p

(* The same, symbol by symbol.                                             *)
LEMMA PlacedLemma ==
  ASSUME NEW S, NEW n \in Nat, NEW parts \in [1..n -> Seq(S)]
  PROVE  \E at : Placed(FlattenSeq(parts), S, parts, n, at)
  <1>. DEFINE s == FlattenSeq(parts)
  <1>0. PICK at : Flat(s, S, parts, n, at)
    BY FlattenLemma
  <1>. HIDE DEF s
  <1>1. at \in [0..n -> Nat] /\ at[0] = 0 /\ s \in Seq(S) /\ Len(s) = at[n]
    BY <1>0 DEF Flat, Ends
  <1>2. \A i \in 1..n : at[i] = at[i - 1] + Len(parts[i]) /\ Len(parts[i]) \in Nat
    BY <1>0 DEF Flat, Ends
  <1>3. \A i \in 1..n : at[i - 1] <= at[i]
    <2>. SUFFICES ASSUME NEW i \in 1..n PROVE at[i - 1] <= at[i]
      OBVIOUS
    <2>1. at[i - 1] \in Nat /\ at[i] = at[i - 1] + Len(parts[i]) /\ Len(parts[i]) \in Nat
      BY <1>1, <1>2
    <2>. QED BY <2>1
  <1>4. \A i, j \in 0..n : i <= j => at[i] <= at[j]
    BY <1>1, <1>3, RisingLemma
  <1>5. \A i \in 1..n : \A p \in 1..Len(parts[i]) : s[at[i - 1] + p] = parts[i][p]
    BY <1>0 DEF Flat, Laid
  <1>6. ASSUME NEW x \in 1..Len(s) PROVE \E i \in 1..n : \E p \in 1..Len(parts[i]) : x = at[i - 1] + p
    <2>1. PICK i \in 1..n : at[i - 1] < x /\ x <= at[i]
      BY <1>1, LocateLemma
    <2>2. at[i - 1] \in Nat /\ at[i] = at[i - 1] + Len(parts[i]) /\ Len(parts[i]) \in Nat
      BY <1>1, <1>2
    <2>3. x - at[i - 1] \in 1..Len(parts[i]) /\ x = at[i - 1] + (x - at[i - 1])
      BY <2>1, <2>2
    <2>. QED BY <2>3
  <1>7. Placed(s, S, parts, n, at)
    BY <1>1, <1>2, <1>4, <1>5, <1>6 DEF Placed
  <1>. QED BY <1>7 DEF s

----------------------------------------------------------------------------------
(* A text with its quotes doubled: symbol i lies behind place at[i - 1].   *)
Doubles(s, q, at) ==
  /\ at \in [0..Len(s) -> Nat] /\ at[0] = 0
  /\ \A i \in 1..Len(s) : at[i] = at[i - 1] + (IF s[i] = q THEN 2 ELSE 1)
  /\ \A i, j \in 0..Len(s) : i <= j => at[i] <= at[j]
  /\ Double(s, q) \in Text /\ Len(Double(s, q)) = at[Len(s)]
  /\ \A i \in 1..Len(s) :
       /\ Double(s, q)[at[i - 1] + 1] = s[i]
       /\ s[i] = q => Double(s, q)[at[i - 1] + 2] = q
  /\ \A x \in 1..at[Len(s)] : \E i \in 1..Len(s) :
       x = at[i - 1] + 1 \/ (s[i] = q /\ x = at[i - 1] + 2)

(* Texts of one and of two symbols.                                        *)
LEMMA TupleLemma ==
  ASSUME NEW x, NEW y
  PROVE  /\ Len(<<x>>) = 1 /\ <<x>>[1] = x
         /\ Len(<<x, y>>) = 2 /\ <<x, y>>[1] = x /\ <<x, y>>[2] = y
  OBVIOUS

(* Where the symbols of a text stand once its quotes are doubled.          *)
LEMMA DoubleLemma ==
  ASSUME NEW s \in Text, NEW q \in Symbols
  PROVE  \E at : Doubles(s, q, at)
  <1>. DEFINE n == Len(s)
              parts == [i \in 1..n |-> IF s[i] = q THEN <<q, q>> ELSE <<s[i]>>]
  <1>1. n \in Nat /\ DOMAIN s = 1..n /\ \A i \in 1..n : s[i] \in Symbols
    BY DEF Text
  <1>2. parts \in [1..n -> Text]
    <2>. SUFFICES ASSUME NEW i \in 1..n PROVE (IF s[i] = q THEN <<q, q>> ELSE <<s[i]>>) \in Text
      OBVIOUS
    <2>1. s[i] \in Symbols
      BY <1>1
    <2>2. <<q, q>> \in Text /\ <<s[i]>> \in Text
      BY <2>1 DEF Text
    <2>. QED BY <2>2
  <1>3. \A i \in 1..n : parts[i] = IF s[i] = q THEN <<q, q>> ELSE <<s[i]>>
    OBVIOUS
  <1>4. Double(s, q) = FlattenSeq(parts)
    BY <1>1 DEF Double
  <1>. HIDE DEF parts
  <1>5. PICK at : Placed(Double(s, q), Symbols, parts, n, at)
    BY <1>1, <1>2, <1>4, PlacedLemma DEF Text
  <1>. HIDE DEF n
  <1>6. /\ at \in [0..n -> Nat] /\ at[0] = 0 /\ Double(s, q) \in Seq(Symbols) /\ Len(Double(s, q)) = at[n]
        /\ \A i \in 1..n : at[i] = at[i - 1] + Len(parts[i]) /\ Len(parts[i]) \in Nat
        /\ \A i, j \in 0..n : i <= j => at[i] <= at[j]
        /\ \A i \in 1..n : \A p \in 1..Len(parts[i]) : Double(s, q)[at[i - 1] + p] = parts[i][p]
        /\ \A x \in 1..Len(Double(s, q)) : \E i \in 1..n : \E p \in 1..Len(parts[i]) : x = at[i - 1] + p
    BY <1>5 DEF Placed
  <1>7. ASSUME NEW i \in 1..n
        PROVE  /\ at[i] = at[i - 1] + (IF s[i] = q THEN 2 ELSE 1)
               /\ Double(s, q)[at[i - 1] + 1] = s[i]
               /\ s[i] = q => Double(s, q)[at[i - 1] + 2] = q
    <2>1. CASE s[i] = q
      <3>1. parts[i] = <<q, q>>
        BY <1>3, <2>1
      <3>a. Len(parts[i]) = 2 /\ parts[i][1] = q /\ parts[i][2] = q
        BY <3>1, TupleLemma
      <3>2. Double(s, q)[at[i - 1] + 1] = parts[i][1] /\ Double(s, q)[at[i - 1] + 2] = parts[i][2]
        BY <1>6, <3>a
      <3>3. at[i] = at[i - 1] + 2
        BY <1>6, <3>a
      <3>. QED BY <2>1, <3>a, <3>2, <3>3
    <2>2. CASE s[i] # q
      <3>1. parts[i] = <<s[i]>>
        BY <1>3, <2>2
      <3>a. Len(parts[i]) = 1 /\ parts[i][1] = s[i]
        BY <3>1, TupleLemma
      <3>2. Double(s, q)[at[i - 1] + 1] = parts[i][1]
        BY <1>6, <3>a
      <3>3. at[i] = at[i - 1] + 1
        BY <1>6, <3>a
      <3>. QED BY <2>2, <3>a, <3>2, <3>3
    <2>. QED BY <2>1, <2>2
  <1>8. ASSUME NEW x \in 1..at[n]
        PROVE  \E i \in 1..n : x = at[i - 1] + 1 \/ (s[i] = q /\ x = at[i - 1] + 2)
    <2>1. PICK i \in 1..n : \E p \in 1..Len(parts[i]) : x = at[i - 1] + p
      BY <1>6
    <2>2. PICK p \in 1..Len(parts[i]) : x = at[i - 1] + p
      BY <2>1
    <2>3. CASE s[i] = q
      <3>1. Len(parts[i]) = 2
        BY <1>3, <2>3, TupleLemma
      <3>2. p = 1 \/ p = 2
        BY <3>1
      <3>. QED BY <2>2, <2>3, <3>2
    <2>4. CASE s[i] # q
      <3>1. Len(parts[i]) = 1
        BY <1>3, <2>4, TupleLemma
      <3>2. p = 1
        BY <3>1
      <3>. QED BY <2>2, <3>2
    <2>. QED BY <2>3, <2>4
  <1>. QED BY <1>6, <1>7, <1>8 DEF Doubles, Text, n

(* What is not a quote stands for itself, and doubling shortens nothing.   *)
LEMMA SymbolLemma ==
  ASSUME NEW s \in Text, NEW q \in Symbols, NEW at, Doubles(s, q, at),
         NEW x \in 1..at[Len(s)], Double(s, q)[x] # q
  PROVE  \E k \in 1..Len(s) : x = at[k - 1] + 1 /\ at[k] = x /\ s[k] = Double(s, q)[x]
  <1>1. PICK k \in 1..Len(s) : x = at[k - 1] + 1 \/ (s[k] = q /\ x = at[k - 1] + 2)
    BY DEF Doubles
  <1>2. /\ Double(s, q)[at[k - 1] + 1] = s[k]
        /\ s[k] = q => Double(s, q)[at[k - 1] + 2] = q
        /\ at[k] = at[k - 1] + (IF s[k] = q THEN 2 ELSE 1)
    BY DEF Doubles
  <1>3. x = at[k - 1] + 1
    BY <1>1, <1>2
  <1>4. s[k] # q
    BY <1>2, <1>3
  <1>. QED BY <1>2, <1>3, <1>4

(* Doubling quotes makes no text shorter.                                  *)
LEMMA LongerLemma ==
  ASSUME NEW s \in Text, NEW q \in Symbols
  PROVE  Double(s, q) \in Text /\ Len(Double(s, q)) \in Nat /\ Len(Double(s, q)) >= Len(s)
  <1>1. PICK at : Doubles(s, q, at)
    BY DoubleLemma
  <1>. DEFINE n == Len(s)
              P == {i \in 0..n : at[i] >= i}
  <1>2. n \in Nat
    BY DEF Text
  <1>3. at \in [0..n -> Nat] /\ at[0] = 0
    BY <1>1 DEF Doubles
  <1>4. ASSUME NEW i \in 1..n, i - 1 \in P PROVE i \in P
    <2>1. at[i] = at[i - 1] + (IF s[i] = q THEN 2 ELSE 1) /\ at[i - 1] \in Nat /\ at[i - 1] >= i - 1
      BY <1>1, <1>3, <1>4 DEF Doubles
    <2>2. at[i] >= i
      BY <2>1
    <2>. QED BY <2>2
  <1>5. 0 \in P
    BY <1>2, <1>3
  <1>6. 0..n \subseteq P
    <2>. HIDE DEF P
    <2>. QED BY <1>2, <1>4, <1>5, UpTo
  <1>7. at[n] >= n
    BY <1>2, <1>6
  <1>8. Double(s, q) \in Text /\ Len(Double(s, q)) = at[n]
    BY <1>1 DEF Doubles
  <1>. QED BY <1>2, <1>3, <1>7, <1>8

(* A quoted text, symbol by symbol.                                        *)
LEMMA QuotedLemma ==
  ASSUME NEW s \in Text, NEW q \in Symbols
  PROVE  LET d == Double(s, q)
         IN  /\ Quoted(s, q) \in Text
             /\ Len(Quoted(s, q)) = Len(d) + 2
             /\ Quoted(s, q)[1] = q
             /\ \A p \in 1..Len(d) : Quoted(s, q)[1 + p] = d[p]
             /\ Quoted(s, q)[Len(d) + 2] = q
  <1>. DEFINE d == Double(s, q)
              a == <<q>> \o d
  <1>1. d \in Text /\ Len(d) \in Nat
    BY LongerLemma
  <1>2. <<q>> \in Text /\ Len(<<q>>) = 1 /\ <<q>>[1] = q
    BY DEF Text
  <1>3. a \in Text /\ Len(a) = 1 + Len(d) /\ \A i \in 1..(1 + Len(d)) : a[i] = IF i <= 1 THEN <<q>>[i] ELSE d[i - 1]
    BY <1>1, <1>2, ConcatProperties DEF Text
  <1>4. Quoted(s, q) = a \o <<q>>
    BY DEF Quoted
  <1>. HIDE DEF a, d
  <1>5. /\ Quoted(s, q) \in Text
        /\ Len(Quoted(s, q)) = Len(a) + 1
        /\ \A i \in 1..(Len(a) + 1) : Quoted(s, q)[i] = IF i <= Len(a) THEN a[i] ELSE <<q>>[i - Len(a)]
    BY <1>2, <1>3, <1>4, ConcatProperties DEF Text
  <1>6. Quoted(s, q)[1] = q
    BY <1>1, <1>2, <1>3, <1>5
  <1>7. ASSUME NEW p \in 1..Len(d) PROVE Quoted(s, q)[1 + p] = d[p]
    BY <1>1, <1>3, <1>5
  <1>8. Quoted(s, q)[Len(d) + 2] = q
    BY <1>1, <1>2, <1>3, <1>5
  <1>. QED BY <1>1, <1>3, <1>5, <1>6, <1>7, <1>8 DEF d

----------------------------------------------------------------------------------
(* parseQuotedValue: what its loop does from one place on, where f is what *)
(* it does from later ones.                                                *)
Prepend(a, results) == {[r EXCEPT !.text = <<a>> \o @] : r \in results}

QuotedAt(s, f, i) ==
  IF i > Len(s) THEN {}
  ELSE IF s[i] # "'" THEN Prepend(s[i], f[i + 1])
  ELSE IF i < Len(s) /\ s[i + 1] = "'" THEN Prepend("'", f[i + 2])
  ELSE {[text |-> <<>>, next |-> i + 1]}

LoopsFrom(s, first, f) ==
  /\ f = [i \in first..(Len(s) + 2) |-> f[i]]
  /\ \A i \in first..(Len(s) + 2) : f[i] = QuotedAt(s, f, i)

(* What parseQuotedValue does at a place depends on what it does one and   *)
(* two places further on.                                                  *)
LEMMA QuotedAtLemma ==
  ASSUME NEW s, NEW f, NEW g, NEW i, i <= Len(s) => f[i + 1] = g[i + 1] /\ f[i + 2] = g[i + 2],
         ~(i > Len(s)) => i <= Len(s)
  PROVE  QuotedAt(s, f, i) = QuotedAt(s, g, i)
  <1>1. CASE i > Len(s)
    BY <1>1 DEF QuotedAt
  <1>2. CASE ~(i > Len(s))
    BY <1>2 DEF QuotedAt
  <1>. QED BY <1>1, <1>2

(* The function of QuotedFrom satisfies its definition: the recursion goes *)
(* towards the end of the text.                                            *)
LEMMA QuotedFromLemma ==
  ASSUME NEW s \in Text, NEW first \in 1..(Len(s) + 2)
  PROVE  \A i \in first..(Len(s) + 2) :
           QuotedFrom(s, first)[i] = QuotedAt(s, QuotedFrom(s, first), i)
  <1>. DEFINE n == Len(s)
              top == n + 2
              size == top - first
              P == {m \in 0..size : \E f : LoopsFrom(s, top - m, f)}
  <1>1. n \in Nat /\ first \in Nat /\ size \in Nat /\ first <= top
    BY DEF Text
  <1>2. 0 \in P
    <2>. DEFINE f == [i \in top..top |-> {}]
    <2>1. f = [i \in top..top |-> f[i]] /\ \A i \in top..top : f[i] = {}
      OBVIOUS
    <2>. HIDE DEF f
    <2>2. ASSUME NEW i \in top..top PROVE f[i] = QuotedAt(s, f, i)
      <3>1. i > Len(s)
        BY <1>1
      <3>. QED BY <2>1, <3>1 DEF QuotedAt
    <2>3. top - 0 = Len(s) + 2
      BY <1>1
    <2>4. LoopsFrom(s, top - 0, f)
      BY <2>1, <2>2, <2>3 DEF LoopsFrom
    <2>. QED BY <1>1, <2>4
  <1>3. ASSUME NEW m \in 1..size, m - 1 \in P PROVE m \in P
    <2>. DEFINE k == top - m
    <2>1. PICK g : LoopsFrom(s, top - (m - 1), g)
      BY <1>3
    <2>2. top - (m - 1) = k + 1 /\ k \in first..top /\ k <= n + 1 /\ k \in Nat
      BY <1>1
    <2>. DEFINE f == [i \in k..top |-> IF i = k THEN QuotedAt(s, g, k) ELSE g[i]]
    <2>3. f = [i \in k..top |-> f[i]] /\ f[k] = QuotedAt(s, g, k) /\ \A i \in (k + 1)..top : f[i] = g[i]
      BY <1>1, <2>2
    <2>. HIDE DEF f
    <2>4. ASSUME NEW i \in k..top PROVE f[i] = QuotedAt(s, f, i)
      <3>1. i <= n => i + 1 \in (k + 1)..top /\ i + 2 \in (k + 1)..top
        BY <1>1, <2>2
      <3>2. i \in Nat /\ (~(i > n) => i <= n)
        BY <1>1, <2>2
      <3>3. i <= n => f[i + 1] = g[i + 1] /\ f[i + 2] = g[i + 2]
        BY <2>3, <3>1
      <3>4. QuotedAt(s, f, i) = QuotedAt(s, g, i)
        BY <3>2, <3>3, QuotedAtLemma
      <3>5. CASE i = k
        BY <2>3, <3>4, <3>5
      <3>6. CASE i # k
        <4>1. i \in (k + 1)..top
          BY <2>2, <3>6
        <4>2. g[i] = QuotedAt(s, g, i)
          BY <2>1, <2>2, <4>1 DEF LoopsFrom
        <4>. QED BY <2>3, <3>4, <4>1, <4>2
      <3>. QED BY <3>5, <3>6
    <2>5. LoopsFrom(s, k, f)
      BY <2>3, <2>4 DEF LoopsFrom
    <2>. QED BY <2>5
  <1>4. size \in P
    <2>. HIDE DEF P, size
    <2>1. 0..size \subseteq P
      BY <1>1, <1>2, <1>3, UpTo
    <2>. QED BY <1>1, <2>1
  <1>5. PICK g : LoopsFrom(s, first, g)
    <2>1. top - size = first
      BY <1>1
    <2>. QED BY <1>4, <2>1
  <1>. DEFINE f == CHOOSE f : f = [i \in first..(Len(s) + 2) |-> QuotedAt(s, f, i)]
  <1>6. g = [i \in first..(Len(s) + 2) |-> QuotedAt(s, g, i)]
    <2>. DEFINE h == [i \in first..(Len(s) + 2) |-> QuotedAt(s, g, i)]
    <2>1. \A i \in first..(Len(s) + 2) : g[i] = h[i]
      BY <1>5 DEF LoopsFrom
    <2>2. g = [i \in first..(Len(s) + 2) |-> g[i]]
      BY <1>5 DEF LoopsFrom
    <2>. HIDE DEF top
    <2>. QED BY <2>1, <2>2
  <1>7. f = [i \in first..(Len(s) + 2) |-> QuotedAt(s, f, i)]
    BY <1>6, Zenon
  <1>8. QuotedFrom(s, first) = f
    BY Zenon DEF QuotedFrom, QuotedAt, Prepend
  <1>. HIDE DEF f
  <1>. QED BY <1>7, <1>8

(* One symbol in front of what the loop of parseQuotedValue found.         *)
LEMMA PrependLemma ==
  ASSUME NEW x, NEW y, NEW a
  PROVE  /\ Prepend(a, {[text |-> x, next |-> y]}) = {[text |-> <<a>> \o x, next |-> y]}
         /\ Prepend(a, {}) = {}
  BY DEF Prepend

(* Where the loop is at a symbol that x symbols of the value precede.      *)
LEMMA PlaceLemma ==
  ASSUME NEW o \in Nat, NEW x \in Nat, NEW y \in Nat, NEW e \in Nat, NEW l \in Nat,
         x + 1 <= y, y <= e, o + e <= l, NEW i, i = o + 1 + x
  PROVE  /\ i \in (o + 1)..(l + 2) /\ i <= l /\ ~(i > l) /\ i \in Nat
         /\ x + 1 \in 1..e /\ i = o + (x + 1)
         /\ y = x + 1 => i + 1 = o + 1 + y
         /\ y = x + 2 => /\ i < l /\ x + 2 \in 1..e
                        /\ i + 1 = o + (x + 2) /\ i + 2 = o + 1 + y
  OBVIOUS

(* The first l symbols of a part stand behind place o of a text.           *)
Shows(s, o, part, l) == \A p \in 1..l : s[o + p] = part[p]

(* A printed value is read back, whatever quotes are in it: place o is its *)
(* first quote and what follows it is no third one.                        *)
LEMMA QuotedRead ==
  ASSUME NEW s \in Text, NEW o \in 1..Len(s), NEW t \in Text, NEW at, Doubles(t, "'", at),
         o + at[Len(t)] + 1 <= Len(s),
         Shows(s, o, Double(t, "'"), at[Len(t)]),
         s[o + at[Len(t)] + 1] = "'",
         o + at[Len(t)] + 1 < Len(s) => s[o + at[Len(t)] + 2] # "'"
  PROVE  ParseQuoted(s, o) = {[value |-> [go |-> "string", text |-> t], next |-> o + at[Len(t)] + 2]}
  <1>. DEFINE n == Len(t)
              f == QuotedFrom(s, o + 1)
              end == o + at[n] + 2
              P == {j \in 0..n : f[o + 1 + at[n - j]] = {[text |-> SubSeq(t, n - j + 1, n), next |-> end]}}
  <1>1. n \in Nat /\ Len(s) \in Nat /\ o \in Nat /\ o <= Len(s) /\ \A i \in 1..n : t[i] \in Symbols
    BY DEF Text
  <1>b. o + at[n] + 1 <= Len(s)
    OBVIOUS
  <1>c. s[o + at[n] + 1] = "'" /\ (o + at[n] + 1 < Len(s) => s[o + at[n] + 2] # "'")
    OBVIOUS
  <1>2. /\ at \in [0..n -> Nat] /\ at[0] = 0
        /\ \A i, j \in 0..n : i <= j => at[i] <= at[j]
    BY DEF Doubles
  <1>a. ASSUME NEW k \in 1..n
        PROVE  /\ at[k - 1] \in Nat /\ at[k] \in Nat /\ at[k - 1] + 1 <= at[k]
               /\ t[k] # "'" => at[k] = at[k - 1] + 1
               /\ t[k] = "'" => at[k] = at[k - 1] + 2
               /\ Double(t, "'")[at[k - 1] + 1] = t[k]
               /\ t[k] = "'" => Double(t, "'")[at[k - 1] + 2] = "'"
    <2>1. k - 1 \in 0..n /\ k \in 0..n
      BY <1>1
    <2>2. at[k - 1] \in Nat /\ at[k] \in Nat
      BY <1>2, <2>1
    <2>3. /\ at[k] = at[k - 1] + (IF t[k] = "'" THEN 2 ELSE 1)
          /\ Double(t, "'")[at[k - 1] + 1] = t[k]
          /\ t[k] = "'" => Double(t, "'")[at[k - 1] + 2] = "'"
      BY DEF Doubles, n
    <2>4. CASE t[k] = "'"
      <3>1. at[k] = at[k - 1] + 2
        BY <2>3, <2>4
      <3>. QED BY <2>2, <2>3, <2>4, <3>1
    <2>5. CASE t[k] # "'"
      <3>1. at[k] = at[k - 1] + 1
        BY <2>3, <2>5
      <3>. QED BY <2>2, <2>3, <2>5, <3>1
    <2>. QED BY <2>4, <2>5
  <1>3. \A i \in (o + 1)..(Len(s) + 2) : f[i] = QuotedAt(s, f, i)
    <2>1. o + 1 \in 1..(Len(s) + 2)
      BY <1>1
    <2>. QED BY <2>1, QuotedFromLemma
  <1>. HIDE DEF f, P, n, end
  <1>4. 0 \in P
    <2>1. o + 1 + at[n] \in (o + 1)..(Len(s) + 2) /\ at[n] \in Nat
      BY <1>1, <1>2, <1>b
    <2>2. PICK i : i = o + 1 + at[n]
      OBVIOUS
    <2>a. i \in Nat /\ i = o + at[n] + 1 /\ i + 1 = o + at[n] + 2
      <3>1. o \in Nat /\ at[n] \in Nat
        BY <1>1, <2>1
      <3>2. o + 1 + at[n] = o + at[n] + 1 /\ o + 1 + at[n] \in Nat /\ o + 1 + at[n] + 1 = o + at[n] + 2
        BY <3>1
      <3>. QED BY <2>2, <3>2
    <2>b. i <= Len(s)
      BY <1>b, <2>a
    <2>3. i <= Len(s) /\ s[i] = "'" /\ (i < Len(s) => s[i + 1] # "'") /\ i \in Nat
      BY <1>c, <2>a, <2>b
    <2>4. QuotedAt(s, f, i) = {[text |-> <<>>, next |-> i + 1]}
      BY <1>1, <2>3 DEF QuotedAt
    <2>5. f[i] = {[text |-> <<>>, next |-> i + 1]}
      BY <1>3, <2>1, <2>2, <2>4
    <2>6. SubSeq(t, n - 0 + 1, n) = <<>>
      BY <1>1, SubSeqEmpty
    <2>7. i + 1 = end /\ n - 0 = n /\ 0 \in 0..n
      BY <1>1, <2>a DEF end
    <2>8. f[o + 1 + at[n - 0]] = {[text |-> SubSeq(t, n - 0 + 1, n), next |-> end]}
      BY <2>2, <2>5, <2>6, <2>7
    <2>. QED BY <2>7, <2>8 DEF P
  <1>5. ASSUME NEW j \in 1..n, j - 1 \in P PROVE j \in P
    <2>1. PICK k : k = n - j + 1
      OBVIOUS
    <2>2. k \in 1..n /\ n - j = k - 1 /\ n - (j - 1) = k /\ k - 1 \in 0..n /\ k \in 0..n /\ n \in 0..n
      BY <1>1, <2>1
    <2>3. at[k - 1] \in Nat /\ at[k] \in Nat /\ at[n] \in Nat /\ at[k] <= at[n] /\ at[k - 1] + 1 <= at[k]
      BY <1>2, <1>a, <2>2
    <2>4. /\ Double(t, "'")[at[k - 1] + 1] = t[k]
          /\ t[k] = "'" => Double(t, "'")[at[k - 1] + 2] = "'" /\ at[k] = at[k - 1] + 2
          /\ t[k] # "'" => at[k] = at[k - 1] + 1
      BY <1>a, <2>2
    <2>5. f[o + 1 + at[k]] = {[text |-> SubSeq(t, k + 1, n), next |-> end]}
      BY <1>5, <2>2 DEF P, end
    <2>6. PICK i : i = o + 1 + at[k - 1]
      OBVIOUS
    <2>7. /\ i \in (o + 1)..(Len(s) + 2) /\ i <= Len(s) /\ ~(i > Len(s)) /\ i \in Nat
          /\ at[k - 1] + 1 \in 1..at[n] /\ i = o + (at[k - 1] + 1)
          /\ at[k] = at[k - 1] + 1 => i + 1 = o + 1 + at[k]
          /\ at[k] = at[k - 1] + 2 =>
               /\ i < Len(s) /\ at[k - 1] + 2 \in 1..at[n]
               /\ i + 1 = o + (at[k - 1] + 2) /\ i + 2 = o + 1 + at[k]
      <3>1. o + at[n] <= Len(s)
        BY <1>1, <1>b, <2>3
      <3>2. PICK x, y, e, l : x = at[k - 1] /\ y = at[k] /\ e = at[n] /\ l = Len(s)
        OBVIOUS
      <3>3. /\ x \in Nat /\ y \in Nat /\ e \in Nat /\ l \in Nat
            /\ x + 1 <= y /\ y <= e /\ o + e <= l /\ i = o + 1 + x
        BY <1>1, <2>3, <2>6, <3>1, <3>2
      <3>4. /\ i \in (o + 1)..(l + 2) /\ i <= l /\ ~(i > l) /\ i \in Nat
            /\ x + 1 \in 1..e /\ i = o + (x + 1)
            /\ y = x + 1 => i + 1 = o + 1 + y
            /\ y = x + 2 => /\ i < l /\ x + 2 \in 1..e
                           /\ i + 1 = o + (x + 2) /\ i + 2 = o + 1 + y
        BY <1>1, <3>3, PlaceLemma
      <3>. QED BY <3>2, <3>4
    <2>8. s[i] = t[k]
      <3>2. s[o + (at[k - 1] + 1)] = Double(t, "'")[at[k - 1] + 1]
        BY <2>7 DEF Shows, n
      <3>. QED BY <2>4, <2>7, <3>2
    <2>9. SubSeq(t, k, n) = <<t[k]>> \o SubSeq(t, k + 1, n)
      BY <1>1, <2>2, SubSeqRecursiveFirst DEF Text, n
    <2>10. f[i] = {[text |-> SubSeq(t, k, n), next |-> end]}
      <3>1. CASE t[k] # "'"
        <4>a. QuotedAt(s, f, i) = Prepend(t[k], f[i + 1])
          BY <2>7, <2>8, <3>1 DEF QuotedAt
        <4>b. at[k] = at[k - 1] + 1
          BY <2>4, <3>1
        <4>2. i + 1 = o + 1 + at[k]
          BY <2>7, <4>b
        <4>1. f[i] = Prepend(t[k], f[o + 1 + at[k]])
          BY <1>3, <2>7, <4>a, <4>2
        <4>3. Prepend(t[k], {[text |-> SubSeq(t, k + 1, n), next |-> end]}) =
                {[text |-> <<t[k]>> \o SubSeq(t, k + 1, n), next |-> end]}
          BY PrependLemma
        <4>. QED BY <2>5, <2>9, <4>1, <4>3
      <3>2. CASE t[k] = "'"
        <4>1. i < Len(s) /\ s[i + 1] = "'"
          <5>1. at[k - 1] + 2 \in 1..at[n] /\ i + 1 = o + (at[k - 1] + 2) /\ i < Len(s)
            BY <2>4, <2>7, <3>2
          <5>2. s[o + (at[k - 1] + 2)] = Double(t, "'")[at[k - 1] + 2]
            BY <5>1 DEF Shows, n
          <5>. QED BY <2>4, <3>2, <5>1, <5>2
        <4>a. QuotedAt(s, f, i) = Prepend("'", f[i + 2])
          BY <2>7, <2>8, <3>2, <4>1 DEF QuotedAt
        <4>b. at[k] = at[k - 1] + 2
          BY <2>4, <3>2
        <4>3. i + 2 = o + 1 + at[k]
          BY <2>7, <4>b
        <4>2. f[i] = Prepend("'", f[o + 1 + at[k]])
          BY <1>3, <2>7, <4>a, <4>3
        <4>4. Prepend("'", {[text |-> SubSeq(t, k + 1, n), next |-> end]}) =
                {[text |-> <<"'">> \o SubSeq(t, k + 1, n), next |-> end]}
          BY PrependLemma
        <4>. QED BY <2>5, <2>9, <3>2, <4>2, <4>4
      <3>. QED BY <3>1, <3>2
    <2>11. n - j + 1 = k
      BY <1>1, <2>1
    <2>12. f[o + 1 + at[n - j]] = {[text |-> SubSeq(t, n - j + 1, n), next |-> end]}
      BY <2>2, <2>6, <2>10, <2>11
    <2>. QED BY <1>1, <2>12 DEF P
  <1>6. n \in P
    <2>1. 0..n \subseteq P
      BY <1>1, <1>4, <1>5, UpTo
    <2>. QED BY <1>1, <2>1
  <1>7. f[o + 1] = {[text |-> t, next |-> end]}
    <2>1. n - n = 0 /\ n - n + 1 = 1 /\ o + 1 + 0 = o + 1
      BY <1>1
    <2>2. SubSeq(t, 1, n) = t
      BY SubSeqFull DEF Text, n
    <2>. QED BY <1>2, <1>6, <2>1, <2>2 DEF P, end
  <1>. HIDE DEF end
  <1>8. ParseQuoted(s, o) = {[value |-> [go |-> "string", text |-> r.text], next |-> r.next] : r \in f[o + 1]}
    BY DEF ParseQuoted, f
  <1>. QED BY <1>7, <1>8 DEF end, n

(* A value that is cut off between two of its symbols is refused.          *)
LEMMA QuotedCut ==
  ASSUME NEW s \in Text, NEW o \in 1..Len(s), NEW t \in Text, NEW at, Doubles(t, "'", at),
         NEW c \in 0..Len(t), Len(s) = o + at[c],
         Shows(s, o, Double(t, "'"), at[c])
  PROVE  ParseQuoted(s, o) = {}
  <1>. DEFINE n == Len(t)
              f == QuotedFrom(s, o + 1)
              P == {j \in 0..c : f[o + 1 + at[c - j]] = {}}
  <1>1. n \in Nat /\ Len(s) \in Nat /\ o \in Nat /\ o <= Len(s) /\ c \in Nat /\ c <= n
    BY DEF Text
  <1>2. /\ at \in [0..n -> Nat] /\ at[0] = 0
        /\ \A i, j \in 0..n : i <= j => at[i] <= at[j]
    BY DEF Doubles
  <1>a. ASSUME NEW k \in 1..n
        PROVE  /\ at[k - 1] \in Nat /\ at[k] \in Nat /\ at[k - 1] + 1 <= at[k]
               /\ t[k] # "'" => at[k] = at[k - 1] + 1
               /\ t[k] = "'" => at[k] = at[k - 1] + 2
               /\ Double(t, "'")[at[k - 1] + 1] = t[k]
               /\ t[k] = "'" => Double(t, "'")[at[k - 1] + 2] = "'"
    <2>1. k - 1 \in 0..n /\ k \in 0..n
      BY <1>1
    <2>2. at[k - 1] \in Nat /\ at[k] \in Nat
      BY <1>2, <2>1
    <2>3. /\ at[k] = at[k - 1] + (IF t[k] = "'" THEN 2 ELSE 1)
          /\ Double(t, "'")[at[k - 1] + 1] = t[k]
          /\ t[k] = "'" => Double(t, "'")[at[k - 1] + 2] = "'"
      BY DEF Doubles
    <2>4. CASE t[k] = "'"
      <3>1. at[k] = at[k - 1] + 2
        BY <2>3, <2>4
      <3>. QED BY <2>2, <2>3, <2>4, <3>1
    <2>5. CASE t[k] # "'"
      <3>1. at[k] = at[k - 1] + 1
        BY <2>3, <2>5
      <3>. QED BY <2>2, <2>3, <2>5, <3>1
    <2>. QED BY <2>4, <2>5
  <1>3. \A i \in (o + 1)..(Len(s) + 2) : f[i] = QuotedAt(s, f, i)
    <2>1. o + 1 \in 1..(Len(s) + 2)
      BY <1>1
    <2>. QED BY <2>1, QuotedFromLemma
  <1>. HIDE DEF f, P, n
  <1>4. 0 \in P
    <2>1. o + 1 + at[c] \in (o + 1)..(Len(s) + 2) /\ at[c] \in Nat /\ o + 1 + at[c] > Len(s)
      BY <1>1, <1>2
    <2>2. QuotedAt(s, f, o + 1 + at[c]) = {}
      BY <2>1 DEF QuotedAt
    <2>3. c - 0 = c
      BY <1>1
    <2>. QED BY <1>1, <1>3, <2>1, <2>2, <2>3 DEF P
  <1>5. ASSUME NEW j \in 1..c, j - 1 \in P PROVE j \in P
    <2>1. PICK k : k = c - j + 1
      OBVIOUS
    <2>2. k \in 1..n /\ c - j = k - 1 /\ c - (j - 1) = k /\ k - 1 \in 0..n /\ k \in 0..n /\ c \in 0..n /\ k <= c
      BY <1>1, <2>1
    <2>3. at[k - 1] \in Nat /\ at[k] \in Nat /\ at[c] \in Nat /\ at[k] <= at[c] /\ at[k - 1] + 1 <= at[k]
      BY <1>2, <1>a, <2>2
    <2>4. /\ Double(t, "'")[at[k - 1] + 1] = t[k]
          /\ t[k] = "'" => Double(t, "'")[at[k - 1] + 2] = "'" /\ at[k] = at[k - 1] + 2
          /\ t[k] # "'" => at[k] = at[k - 1] + 1
      BY <1>a, <2>2
    <2>5. f[o + 1 + at[k]] = {}
      BY <1>5, <2>2 DEF P
    <2>6. PICK i : i = o + 1 + at[k - 1]
      OBVIOUS
    <2>7. /\ i \in (o + 1)..(Len(s) + 2) /\ i <= Len(s) /\ ~(i > Len(s)) /\ i \in Nat
          /\ at[k - 1] + 1 \in 1..at[c] /\ i = o + (at[k - 1] + 1)
          /\ at[k] = at[k - 1] + 1 => i + 1 = o + 1 + at[k]
          /\ at[k] = at[k - 1] + 2 =>
               /\ i < Len(s) /\ at[k - 1] + 2 \in 1..at[c]
               /\ i + 1 = o + (at[k - 1] + 2) /\ i + 2 = o + 1 + at[k]
      <3>1. o + at[c] <= Len(s)
        BY <1>1, <2>3
      <3>2. PICK x, y, e, l : x = at[k - 1] /\ y = at[k] /\ e = at[c] /\ l = Len(s)
        OBVIOUS
      <3>3. /\ x \in Nat /\ y \in Nat /\ e \in Nat /\ l \in Nat
            /\ x + 1 <= y /\ y <= e /\ o + e <= l /\ i = o + 1 + x
        BY <1>1, <2>3, <2>6, <3>1, <3>2
      <3>4. /\ i \in (o + 1)..(l + 2) /\ i <= l /\ ~(i > l) /\ i \in Nat
            /\ x + 1 \in 1..e /\ i = o + (x + 1)
            /\ y = x + 1 => i + 1 = o + 1 + y
            /\ y = x + 2 => /\ i < l /\ x + 2 \in 1..e
                           /\ i + 1 = o + (x + 2) /\ i + 2 = o + 1 + y
        BY <1>1, <3>3, PlaceLemma
      <3>. QED BY <3>2, <3>4
    <2>8. s[i] = t[k]
      <3>2. s[o + (at[k - 1] + 1)] = Double(t, "'")[at[k - 1] + 1]
        BY <2>7 DEF Shows, n
      <3>. QED BY <2>4, <2>7, <3>2
    <2>9. f[i] = {}
      <3>1. CASE t[k] # "'"
        <4>a. QuotedAt(s, f, i) = Prepend(t[k], f[i + 1])
          BY <2>7, <2>8, <3>1 DEF QuotedAt
        <4>b. at[k] = at[k - 1] + 1
          BY <2>4, <3>1
        <4>2. i + 1 = o + 1 + at[k]
          BY <2>7, <4>b
        <4>1. f[i] = Prepend(t[k], f[o + 1 + at[k]])
          BY <1>3, <2>7, <4>a, <4>2
        <4>. QED BY <2>5, <4>1, PrependLemma
      <3>2. CASE t[k] = "'"
        <4>1. i < Len(s) /\ s[i + 1] = "'"
          <5>1. at[k - 1] + 2 \in 1..at[c] /\ i + 1 = o + (at[k - 1] + 2) /\ i < Len(s)
            BY <2>4, <2>7, <3>2
          <5>2. s[o + (at[k - 1] + 2)] = Double(t, "'")[at[k - 1] + 2]
            BY <5>1 DEF Shows, n
          <5>. QED BY <2>4, <3>2, <5>1, <5>2
        <4>a. QuotedAt(s, f, i) = Prepend("'", f[i + 2])
          BY <2>7, <2>8, <3>2, <4>1 DEF QuotedAt
        <4>b. at[k] = at[k - 1] + 2
          BY <2>4, <3>2
        <4>3. i + 2 = o + 1 + at[k]
          BY <2>7, <4>b
        <4>2. f[i] = Prepend("'", f[o + 1 + at[k]])
          BY <1>3, <2>7, <4>a, <4>3
        <4>. QED BY <2>5, <4>2, PrependLemma
      <3>. QED BY <3>1, <3>2
    <2>10. f[o + 1 + at[c - j]] = {}
      BY <2>2, <2>6, <2>9
    <2>. QED BY <1>1, <2>10 DEF P
  <1>6. c \in P
    <2>1. 0..c \subseteq P
      BY <1>1, <1>4, <1>5, UpTo
    <2>. QED BY <1>1, <2>1
  <1>7. f[o + 1] = {}
    <2>1. c - c = 0 /\ o + 1 + 0 = o + 1
      BY <1>1
    <2>. QED BY <1>2, <1>6, <2>1 DEF P
  <1>. QED BY <1>7 DEF ParseQuoted, f

----------------------------------------------------------------------------------
(* strings.Index: the first place where a part stands.                     *)
Stands(s, part, i) == \A p \in 1..Len(part) : s[i + p - 1] = part[p]

(* What is behind a place of a text and what is before it.                 *)
LEMMA FromLemma ==
  ASSUME NEW s \in Text, NEW i \in 1..(Len(s) + 1)
  PROVE  /\ From(s, i) \in Text /\ Len(From(s, i)) = Len(s) - i + 1
         /\ \A x \in 1..(Len(s) - i + 1) : From(s, i)[x] = s[i + x - 1]
         /\ Before(s, i) \in Text /\ Len(Before(s, i)) = i - 1
         /\ \A x \in 1..(i - 1) : Before(s, i)[x] = s[x]
  <1>1. Len(s) \in Nat /\ i \in Nat /\ i <= Len(s) + 1 /\ i >= 1 /\ \A x \in 1..Len(s) : s[x] \in Symbols
    BY DEF Text
  <1>2. \A x \in i..Len(s) : s[x] \in Symbols
    BY <1>1
  <1>3. /\ From(s, i) \in Text
        /\ Len(From(s, i)) = IF i <= Len(s) THEN Len(s) - i + 1 ELSE 0
        /\ \A x \in 1..(Len(s) - i + 1) : From(s, i)[x] = s[i + x - 1]
    BY <1>1, <1>2, SubSeqProperties DEF From, Text
  <1>4. \A x \in 1..(i - 1) : s[x] \in Symbols
    BY <1>1
  <1>5. /\ Before(s, i) \in Text
        /\ Len(Before(s, i)) = IF 1 <= i - 1 THEN i - 1 - 1 + 1 ELSE 0
        /\ \A x \in 1..(i - 1 - 1 + 1) : Before(s, i)[x] = s[1 + x - 1]
    <2>1. i - 1 \in Int /\ 1 \in Int
      BY <1>1
    <2>. QED BY <1>4, <2>1, SubSeqProperties DEF Before, Text
  <1>6. \A x \in 1..(i - 1) : Before(s, i)[x] = s[x]
    <2>. SUFFICES ASSUME NEW x \in 1..(i - 1) PROVE Before(s, i)[x] = s[x]
      OBVIOUS
    <2>1. x \in 1..(i - 1 - 1 + 1) /\ 1 + x - 1 = x
      BY <1>1
    <2>. QED BY <1>5, <2>1
  <1>7. (IF i <= Len(s) THEN Len(s) - i + 1 ELSE 0) = Len(s) - i + 1
    BY <1>1
  <1>8. (IF 1 <= i - 1 THEN i - 1 - 1 + 1 ELSE 0) = i - 1
    BY <1>1
  <1>. QED BY <1>3, <1>5, <1>6, <1>7, <1>8

(* strings.Index compares symbol by symbol.                                *)
LEMMA PartLemma ==
  ASSUME NEW s \in Text, NEW part \in Text, NEW i \in 1..(Len(s) - Len(part) + 1)
  PROVE  SubSeq(s, i, i + Len(part) - 1) = part <=> Stands(s, part, i)
  <1>. DEFINE l == Len(part)
              sub == SubSeq(s, i, i + l - 1)
  <1>1. l \in Nat /\ Len(s) \in Nat /\ i \in Nat /\ i >= 1 /\ i + l - 1 <= Len(s) /\ \A x \in 1..Len(s) : s[x] \in Symbols
    BY DEF Text
  <1>2. \A x \in i..(i + l - 1) : s[x] \in Symbols
    BY <1>1
  <1>3. /\ sub \in Text
        /\ Len(sub) = IF i <= i + l - 1 THEN i + l - 1 - i + 1 ELSE 0
        /\ \A x \in 1..(i + l - 1 - i + 1) : sub[x] = s[i + x - 1]
    <2>1. i \in Int /\ i + l - 1 \in Int
      BY <1>1
    <2>. QED BY <1>2, <2>1, SubSeqProperties DEF Text
  <1>4. i + l - 1 - i + 1 = l /\ (i <= i + l - 1 <=> l # 0)
    BY <1>1
  <1>5. Len(sub) = l /\ \A x \in 1..l : sub[x] = s[i + x - 1]
    BY <1>1, <1>3, <1>4
  <1>. HIDE DEF sub
  <1>6. sub = part => Stands(s, part, i)
    BY <1>5 DEF Stands
  <1>7. ASSUME Stands(s, part, i) PROVE sub = part
    <2>1. \A x \in 1..Len(sub) : sub[x] = part[x]
      BY <1>5, <1>7 DEF Stands
    <2>. QED BY <1>3, <1>5, <2>1, SeqEqual DEF Text
  <1>. QED BY <1>6, <1>7 DEF sub

(* IndexFrom finds the first place a part stands at, or there is none.     *)
LEMMA FindLemma ==
  ASSUME NEW s \in Text, NEW part \in Text, NEW first \in Nat \ {0}
  PROVE  LET last == Len(s) - Len(part) + 1
         IN  \/ /\ IndexFrom(s, part, first) = {}
                /\ \A i \in first..last : ~Stands(s, part, i)
             \/ \E k \in first..last :
                  /\ IndexFrom(s, part, first) = {k}
                  /\ Stands(s, part, k)
                  /\ \A i \in first..(k - 1) : ~Stands(s, part, i)
  <1>. DEFINE last == Len(s) - Len(part) + 1
              at == {i \in first..last : SubSeq(s, i, i + Len(part) - 1) = part}
  <1>1. last \in Int /\ first \in Nat /\ first >= 1
    BY DEF Text
  <1>2. \A i \in first..last : i \in at <=> Stands(s, part, i)
    <2>. SUFFICES ASSUME NEW i \in first..last PROVE i \in at <=> Stands(s, part, i)
      OBVIOUS
    <2>1. i \in 1..(Len(s) - Len(part) + 1)
      BY <1>1
    <2>. QED BY <2>1, PartLemma
  <1>3. IndexFrom(s, part, first) = IF at = {} THEN {} ELSE {Min(at)}
    BY DEF IndexFrom
  <1>4. at \subseteq first..last
    OBVIOUS
  <1>. HIDE DEF at, last
  <1>5. CASE at = {}
    BY <1>2, <1>3, <1>5 DEF last
  <1>6. CASE at # {}
    <2>1. at \subseteq Nat
      BY <1>1, <1>4
    <2>2. Min(at) \in at /\ \A x \in at : Min(at) <= x
      BY <1>6, <2>1, MinLemma
    <2>3. PICK k \in first..last : k = Min(at)
      BY <1>4, <2>2
    <2>4. \A i \in first..(k - 1) : ~Stands(s, part, i)
      BY <1>1, <1>2, <2>2, <2>3
    <2>5. IndexFrom(s, part, first) = {k}
      BY <1>3, <1>6, <2>3
    <2>6. Stands(s, part, k)
      BY <1>2, <2>2, <2>3
    <2>. QED BY <2>4, <2>5, <2>6 DEF last
  <1>. QED BY <1>5, <1>6

(* One symbol.                                                             *)
LEMMA SymbolFound ==
  ASSUME NEW s \in Text, NEW x \in Symbols, NEW first \in Nat \ {0}, NEW k \in first..Len(s),
         s[k] = x, \A i \in first..(k - 1) : s[i] # x
  PROVE  IndexFrom(s, <<x>>, first) = {k}
  <1>1. <<x>> \in Text /\ Len(<<x>>) = 1 /\ <<x>>[1] = x
    BY DEF Text
  <1>2. Len(s) \in Nat /\ Len(s) - Len(<<x>>) + 1 = Len(s) /\ first \in Nat /\ k \in Nat
    BY <1>1 DEF Text
  <1>3. \A i \in first..Len(s) : Stands(s, <<x>>, i) <=> s[i] = x
    <2>. SUFFICES ASSUME NEW i \in first..Len(s) PROVE Stands(s, <<x>>, i) <=> s[i] = x
      OBVIOUS
    <2>1. i + 1 - 1 = i /\ \A p \in 1..1 : p = 1
      BY <1>2
    <2>. QED BY <1>1, <2>1 DEF Stands
  <1>4. CASE \A i \in first..Len(s) : ~Stands(s, <<x>>, i)
    BY <1>3, <1>4
  <1>5. ASSUME NEW j \in first..Len(s), IndexFrom(s, <<x>>, first) = {j}, Stands(s, <<x>>, j),
               \A i \in first..(j - 1) : ~Stands(s, <<x>>, i)
        PROVE  j = k
    <2>1. s[j] = x
      BY <1>3, <1>5
    <2>2. ~(j \in first..(k - 1))
      BY <2>1
    <2>3. ~(k \in first..(j - 1))
      BY <1>3, <1>5
    <2>. QED BY <1>2, <2>2, <2>3
  <1>. HIDE DEF Stands
  <1>. QED BY <1>1, <1>2, <1>4, <1>5, FindLemma

(* A symbol the text does not have is not found.                           *)
LEMMA SymbolMissing ==
  ASSUME NEW s \in Text, NEW x \in Symbols, NEW first \in Nat \ {0},
         \A i \in first..Len(s) : s[i] # x
  PROVE  IndexFrom(s, <<x>>, first) = {}
  <1>1. <<x>> \in Text /\ Len(<<x>>) = 1 /\ <<x>>[1] = x
    BY DEF Text
  <1>2. Len(s) \in Nat /\ Len(s) - Len(<<x>>) + 1 = Len(s) /\ first \in Nat
    BY <1>1 DEF Text
  <1>3. ASSUME NEW i \in first..Len(s) PROVE ~Stands(s, <<x>>, i)
    <2>1. i + 1 - 1 = i /\ 1 \in 1..1
      BY <1>2
    <2>. QED BY <1>1, <2>1 DEF Stands
  <1>. QED BY <1>1, <1>2, <1>3, FindLemma

----------------------------------------------------------------------------------
(* The symbols between quotes, and what follows each.                      *)
LEMMA Literals ==
  /\ {" ", "\n", "[", "]", ":", ".", "'", "\"", "B", "0", "1", "null", "unchanged-toast-datum"} \subseteq Symbols
  /\ {"new-tuple:", "old-key:", "table ", "(no-flags)", "(no-tuple-data)"} \subseteq Symbols
  /\ {"7", "huge", "NaN", "true", "false"} \subseteq Symbols
  /\ Bare \cup {"bit", "text", "integer"} \cup Safe \subseteq Symbols
  BY SymbolsAssumption DEF Format, Bare, Safe

(* A text of one symbol.                                                   *)
LEMMA OneSymbol ==
  ASSUME NEW x \in Symbols
  PROVE  /\ <<x>> \in Text /\ Len(<<x>>) = 1 /\ <<x>>[1] = x
         /\ Len(<<x>>) \in Nat /\ Len(<<x>>) >= 1
         /\ \A i \in 1..Len(<<x>>) : <<x>>[i] = x
  <1>1. <<x>> \in Text /\ Len(<<x>>) = 1 /\ <<x>>[1] = x
    BY DEF Text
  <1>2. \A i \in 1..1 : i = 1
    OBVIOUS
  <1>. QED BY <1>1, <1>2

(* A symbol that is not a quote stands once in the quoted text, next to    *)
(* what follows it.                                                        *)
LEMMA OutQuotes ==
  ASSUME NEW t \in Text, NEW q \in Symbols, NEW at, Doubles(t, q, at),
         NEW k \in 1..Len(t), t[k] # q
  PROVE  /\ at[k - 1] \in Nat /\ at[k] = at[k - 1] + 1
         /\ at[k - 1] + 3 <= Len(Quoted(t, q))
         /\ Quoted(t, q)[at[k - 1] + 2] = t[k]
         /\ Quoted(t, q)[at[k - 1] + 3] = IF k < Len(t) THEN t[k + 1] ELSE q
  <1>. DEFINE n == Len(t)
              d == Double(t, q)
  <1>1. n \in Nat /\ k - 1 \in 0..n /\ k \in 0..n /\ n \in 0..n /\ k \in Nat /\ k <= n
    BY DEF Text
  <1>2. /\ at \in [0..n -> Nat]
        /\ at[k] = at[k - 1] + (IF t[k] = q THEN 2 ELSE 1)
        /\ at[k] <= at[n]
        /\ d[at[k - 1] + 1] = t[k]
        /\ k < n => d[at[k] + 1] = t[k + 1] /\ at[k + 1] <= at[n] /\ at[k] + 1 <= at[k + 1]
    <2>1. k < n => k + 1 \in 1..n /\ k + 1 \in 0..n /\ k + 1 - 1 = k
      BY <1>1
    <2>a. /\ at \in [0..n -> Nat]
          /\ \A i \in 1..n : at[i] = at[i - 1] + (IF t[i] = q THEN 2 ELSE 1)
          /\ \A i, j \in 0..n : i <= j => at[i] <= at[j]
          /\ \A i \in 1..n : d[at[i - 1] + 1] = t[i]
      BY DEF Doubles
    <2>2. k < n => at[k + 1] = at[k] + (IF t[k + 1] = q THEN 2 ELSE 1) /\ d[at[k] + 1] = t[k + 1]
      BY <2>1, <2>a
    <2>3. k < n => at[k + 1] <= at[n]
      BY <1>1, <2>1, <2>a
    <2>4. at[k] <= at[n]
      BY <1>1, <2>a
    <2>5. at[k] \in Nat
      BY <1>1, <2>a
    <2>6. k < n => at[k] + 1 <= at[k + 1]
      BY <2>2, <2>5
    <2>. QED BY <2>2, <2>3, <2>4, <2>6, <2>a
  <1>3. at[k - 1] \in Nat /\ at[n] \in Nat /\ at[k] = at[k - 1] + 1
    BY <1>1, <1>2
  <1>4. /\ Len(Quoted(t, q)) = at[n] + 2
        /\ \A p \in 1..at[n] : Quoted(t, q)[1 + p] = d[p]
        /\ Quoted(t, q)[at[n] + 2] = q
    <2>1. Len(d) = at[n]
      BY DEF Doubles
    <2>. QED BY <2>1, QuotedLemma
  <1>. HIDE DEF n, d
  <1>5. at[k - 1] + 1 \in 1..at[n] /\ 1 + (at[k - 1] + 1) = at[k - 1] + 2 /\ at[k - 1] + 3 <= at[n] + 2
    BY <1>2, <1>3
  <1>6. Quoted(t, q)[at[k - 1] + 2] = t[k]
    BY <1>2, <1>4, <1>5
  <1>7. CASE k < n
    <2>a. at[k] \in Nat /\ at[k] + 1 <= at[n]
      <3>1. at[k] \in Nat /\ at[k + 1] \in Nat
        BY <1>1, <1>2, <1>7
      <3>. QED BY <1>2, <1>3, <1>7, <3>1
    <2>1. at[k] + 1 \in 1..at[n] /\ 1 + (at[k] + 1) = at[k - 1] + 3
      BY <1>3, <2>a
    <2>2. Quoted(t, q)[at[k - 1] + 3] = t[k + 1]
      BY <1>2, <1>4, <1>7, <2>1
    <2>. QED BY <1>3, <1>4, <1>5, <1>6, <1>7, <2>2 DEF n
  <1>8. CASE ~(k < n)
    <2>1. k = n
      BY <1>1, <1>8
    <2>2. at[n] + 2 = at[k - 1] + 3
      BY <1>3, <2>1
    <2>. QED BY <1>3, <1>4, <1>5, <1>6, <1>8, <2>2 DEF n
  <1>. QED BY <1>7, <1>8

(* And what is no quote in a quoted text is a symbol of the text.          *)
LEMMA InQuotes ==
  ASSUME NEW t \in Text, NEW q \in Symbols, NEW at, Doubles(t, q, at),
         NEW x \in 1..Len(Quoted(t, q)), Quoted(t, q)[x] # q
  PROVE  \E k \in 1..Len(t) : x = at[k - 1] + 2 /\ t[k] = Quoted(t, q)[x]
  <1>. DEFINE n == Len(t)
              d == Double(t, q)
  <1>1. n \in Nat /\ n \in 0..n /\ at[n] \in Nat /\ Len(d) = at[n]
    BY DEF Text, Doubles
  <1>2. /\ Len(Quoted(t, q)) = at[n] + 2
        /\ Quoted(t, q)[1] = q
        /\ \A p \in 1..at[n] : Quoted(t, q)[1 + p] = d[p]
        /\ Quoted(t, q)[at[n] + 2] = q
    BY <1>1, QuotedLemma
  <1>. HIDE DEF n, d
  <1>3. x \in 2..(at[n] + 1)
    BY <1>1, <1>2
  <1>4. PICK y : y = x - 1
    OBVIOUS
  <1>5. y \in 1..at[n] /\ x = 1 + y
    BY <1>1, <1>3, <1>4
  <1>6. Quoted(t, q)[x] = d[y]
    BY <1>2, <1>5
  <1>7. PICK k \in 1..Len(t) : y = at[k - 1] + 1 /\ t[k] = d[y]
    BY <1>5, <1>6, SymbolLemma DEF n, d
  <1>8. at[k - 1] \in Nat
    <2>1. k - 1 \in 0..Len(t) /\ at \in [0..Len(t) -> Nat]
      BY <1>1 DEF Doubles, n
    <2>. QED BY <2>1
  <1>9. x = at[k - 1] + 2
    BY <1>5, <1>7, <1>8
  <1>. QED BY <1>6, <1>7, <1>9

(* What a text has is between its quotes too, and nothing else is.         *)
LEMMA QuotedHas ==
  ASSUME NEW t \in Text, NEW q \in Symbols, NEW y \in Symbols, y # q
  PROVE  (\E i \in 1..Len(t) : t[i] = y) <=> \E x \in 1..Len(Quoted(t, q)) : Quoted(t, q)[x] = y
  <1>1. PICK at : Doubles(t, q, at)
    BY DoubleLemma
  <1>2. ASSUME NEW i \in 1..Len(t), t[i] = y
        PROVE  \E x \in 1..Len(Quoted(t, q)) : Quoted(t, q)[x] = y
    <2>1. at[i - 1] \in Nat /\ at[i - 1] + 3 <= Len(Quoted(t, q)) /\ Quoted(t, q)[at[i - 1] + 2] = y
      BY <1>1, <1>2, OutQuotes
    <2>2. Len(Quoted(t, q)) \in Nat
      BY QuotedLemma, LongerLemma
    <2>3. at[i - 1] + 2 \in 1..Len(Quoted(t, q))
      BY <2>1, <2>2
    <2>. QED BY <2>1, <2>3
  <1>3. ASSUME NEW x \in 1..Len(Quoted(t, q)), Quoted(t, q)[x] = y
        PROVE  \E i \in 1..Len(t) : t[i] = y
    BY <1>1, <1>3, InQuotes
  <1>. QED BY <1>2, <1>3

(* A quoted text has two quotes more at least.                             *)
LEMMA QuotedLonger ==
  ASSUME NEW t \in Text, NEW q \in Symbols
  PROVE  Quoted(t, q) \in Text /\ Len(Quoted(t, q)) \in Nat /\ Len(Quoted(t, q)) >= Len(t) + 2
  <1>1. Len(t) \in Nat /\ Double(t, q) \in Text /\ Len(Double(t, q)) \in Nat /\ Len(Double(t, q)) >= Len(t)
    BY LongerLemma DEF Text
  <1>2. Quoted(t, q) \in Text /\ Len(Quoted(t, q)) = Len(Double(t, q)) + 2
    BY QuotedLemma
  <1>. QED BY <1>1, <1>2

----------------------------------------------------------------------------------
(* Names, values and what is printed of a column.                          *)
Column == [name : Names, datum : Datums]

(* The names of columns and tables, with that of a table of its own.       *)
Idents == Names \cup Tables \cup {<<"t">>}

(* The assumptions on names.                                               *)
LEMMA NameFacts ==
  ASSUME NEW n \in Idents
  PROVE  n \in Text /\ Len(n) \in Nat /\ Len(n) >= 1 /\ DOMAIN n = 1..Len(n)
  <1>1. n \in Text /\ n # <<>>
    <2>1. "t" \in Symbols
      BY Literals DEF Safe
    <2>2. <<"t">> \in Text /\ <<"t">> # <<>>
      BY <2>1 DEF Text
    <2>. QED BY <2>2, NamesAssumption DEF Idents
  <1>. QED BY <1>1, EmptySeq, LenProperties DEF Text

(* A printed name, with or without quotes.                                 *)
LEMMA PrintNameLemma ==
  ASSUME NEW n \in Idents
  PROVE  /\ PrintName(n) \in Text /\ Len(PrintName(n)) \in Nat /\ Len(PrintName(n)) >= 1
         /\ Plain(n) => PrintName(n) = n
         /\ ~Plain(n) => PrintName(n) = Quoted(n, "\"")
         /\ ~Plain(n) => Quoted(n, "\"")[1] = "\""
         /\ PrintName(n)[1] \in Safe \cup {"\""}
  <1>1. n \in Text /\ Len(n) \in Nat /\ Len(n) >= 1 /\ DOMAIN n = 1..Len(n)
    BY NameFacts
  <1>2. CASE Plain(n)
    <2>1. PrintName(n) = n
      BY <1>2 DEF PrintName
    <2>2. n[1] \in Safe
      BY <1>1, <1>2 DEF Plain
    <2>. QED BY <1>1, <1>2, <2>1, <2>2
  <1>3. CASE ~Plain(n)
    <2>1. PrintName(n) = Quoted(n, "\"")
      BY <1>3 DEF PrintName
    <2>2. "\"" \in Symbols
      BY Literals
    <2>3. Quoted(n, "\"") \in Text /\ Len(Quoted(n, "\"")) \in Nat /\ Len(Quoted(n, "\"")) >= Len(n) + 2
      BY <1>1, <2>2, QuotedLonger
    <2>4. Quoted(n, "\"")[1] = "\""
      BY <1>1, <2>2, QuotedLemma
    <2>a. PICK l, k : l = Len(Quoted(n, "\"")) /\ k = Len(n)
      OBVIOUS
    <2>b. l \in Nat /\ k \in Nat /\ l >= k + 2
      BY <1>1, <2>3, <2>a
    <2>c. l >= 1
      BY <2>b
    <2>5. Len(Quoted(n, "\"")) >= 1
      BY <2>a, <2>c, Zenon
    <2>6. PrintName(n)[1] = "\""
      BY <2>1, <2>4
    <2>. QED BY <1>3, <2>1, <2>3, <2>4, <2>5, <2>6, Zenon
  <1>. QED BY <1>2, <1>3

(* The assumptions on values.                                              *)
LEMMA DatumFacts ==
  ASSUME NEW d \in Datums
  PROVE  /\ d.type \in Bare \cup {"bit", "integer[]", "text"}
         /\ d.kind \in {"datum", "null", "toast"} /\ d.text \in Text
         /\ d.kind # "datum" => d.text = <<>>
         /\ d.kind = "datum" /\ d.type \in Bare => d.text \in Scalars
         /\ d.type = "bit" => d.text \in Seq({"0", "1"})
  BY DatumsAssumption

(* Only the printed type of an array has brackets.                         *)
LEMMA PrintTypeLemma ==
  ASSUME NEW d \in Datums
  PROVE  /\ PrintType(d) \in Text
         /\ d.type = "integer[]" =>
              /\ Len(PrintType(d)) = 3 /\ PrintType(d)[1] = "integer"
              /\ PrintType(d)[2] = "[" /\ PrintType(d)[3] = "]"
         /\ d.type # "integer[]" =>
              Len(PrintType(d)) = 1 /\ PrintType(d)[1] \in Bare \cup {"bit", "text"}
  <1>1. "integer" \in Symbols /\ "[" \in Symbols /\ "]" \in Symbols
    BY Literals
  <1>2. d.type # "integer[]" => d.type \in Symbols /\ d.type \in Bare \cup {"bit", "text"}
    BY DatumFacts, Literals
  <1>3. CASE d.type = "integer[]"
    <2>1. PrintType(d) = <<"integer", "[", "]">>
      BY <1>3 DEF PrintType
    <2>2. PrintType(d) \in Text
      BY <1>1, <2>1 DEF Text
    <2>. QED BY <1>3, <2>1, <2>2
  <1>4. CASE d.type # "integer[]"
    <2>1. PrintType(d) = <<d.type>>
      BY <1>4 DEF PrintType
    <2>2. PrintType(d) \in Text
      BY <1>2, <1>4, <2>1 DEF Text
    <2>. QED BY <1>2, <1>4, <2>1, <2>2
  <1>. QED BY <1>3, <1>4

(* A value that is not quoted, with what it shows; or one in quotes.       *)
Unquoted(d) == d.kind # "datum" \/ d.type \in Bare \cup {"bit"}

(* Printed without quotes: no blank or line break, and no quote in front.  *)
Raw(p) ==
  /\ p \in Text /\ Len(p) \in Nat /\ Len(p) >= 1
  /\ p[1] # "'"
  /\ \A i \in 1..Len(p) : p[i] \notin {" ", "\n"}

(* Values that are printed without quotes: one symbol, or the bits.        *)
LEMMA RawSymbol ==
  ASSUME NEW x \in Symbols, x \notin {"'", " ", "\n"}
  PROVE  Raw(<<x>>)
  <1>1. x # "'" /\ x # " " /\ x # "\n"
    OBVIOUS
  <1>2. <<x>>[1] # "'" /\ \A i \in 1..Len(<<x>>) : <<x>>[i] \notin {" ", "\n"}
    BY <1>1, OneSymbol
  <1>. QED BY <1>2, OneSymbol, Zenon DEF Raw

(* Bits are printed without blanks, and no quote comes first.              *)
LEMMA RawBits ==
  ASSUME NEW t \in Text, t \in Seq({"0", "1"})
  PROVE  Raw(<<"B">> \o Quoted(t, "'"))
  <1>. DEFINE q == Quoted(t, "'")
              p == <<"B">> \o q
  <1>0. "'" \in Symbols /\ "B" \in Symbols /\ " " \in Symbols /\ "\n" \in Symbols
    BY Literals
  <1>1. q \in Text /\ Len(q) \in Nat
    BY <1>0, QuotedLonger
  <1>2. <<"B">> \in Text /\ Len(<<"B">>) = 1 /\ <<"B">>[1] = "B"
    BY <1>0, OneSymbol, Zenon
  <1>3. /\ p \in Text /\ Len(p) = 1 + Len(q)
        /\ \A i \in 1..(1 + Len(q)) : p[i] = IF i <= 1 THEN <<"B">>[i] ELSE q[i - 1]
    BY <1>1, <1>2, ConcatProperties DEF Text
  <1>4. \A i \in 1..Len(t) : t[i] \in {"0", "1"}
    BY ElementOfSeq
  <1>5. ASSUME NEW y \in {" ", "\n"} PROVE ~\E i \in 1..Len(q) : q[i] = y
    <2>1. ~\E i \in 1..Len(t) : t[i] = y
      BY <1>4
    <2>2. y \in Symbols /\ y # "'"
      BY <1>0
    <2>. QED BY <1>0, <2>1, <2>2, QuotedHas
  <1>. HIDE DEF p, q
  <1>6. p[1] = "B"
    BY <1>1, <1>2, <1>3
  <1>7. ASSUME NEW i \in 1..Len(p) PROVE p[i] \notin {" ", "\n"}
    <2>1. CASE i = 1
      BY <1>6, <2>1
    <2>2. CASE i # 1
      <3>1. i - 1 \in 1..Len(q) /\ ~(i <= 1) /\ i \in 1..(1 + Len(q))
        BY <1>1, <1>3, <2>2
      <3>2. p[i] = q[i - 1]
        BY <1>3, <3>1
      <3>. QED BY <1>5, <3>1, <3>2
    <2>. QED BY <2>1, <2>2
  <1>8. Len(p) \in Nat /\ Len(p) >= 1
    BY <1>1, <1>3
  <1>9. p[1] # "'"
    BY <1>6
  <1>10. Raw(p)
    BY <1>3, <1>7, <1>8, <1>9 DEF Raw
  <1>. QED BY <1>10 DEF p, q

(* A printed value is quoted, or has neither quotes at its ends nor blanks *)
(* nor line breaks.                                                        *)
LEMMA PrintDatumLemma ==
  ASSUME NEW d \in Datums
  PROVE  /\ PrintDatum(d) \in Text /\ Len(PrintDatum(d)) \in Nat /\ Len(PrintDatum(d)) >= 1
         /\ ~Unquoted(d) => PrintDatum(d) = Quoted(d.text, "'")
         /\ Unquoted(d) => Raw(PrintDatum(d))
  <1>1. d.text \in Text /\ d.kind \in {"datum", "null", "toast"}
    BY DatumFacts
  <1>2. CASE Unquoted(d)
    <2>1. ASSUME d.kind = "null" PROVE Raw(PrintDatum(d))
      <3>1. PrintDatum(d) = <<"null">>
        BY <2>1 DEF PrintDatum
      <3>2. "null" \in Symbols /\ "null" \notin {"'", " ", "\n"}
        BY Literals
      <3>3. Raw(<<"null">>)
        BY <3>2, RawSymbol
      <3>. QED BY <3>1, <3>3
    <2>2. ASSUME d.kind = "toast" PROVE Raw(PrintDatum(d))
      <3>1. PrintDatum(d) = <<"unchanged-toast-datum">>
        BY <2>2 DEF PrintDatum
      <3>2. "unchanged-toast-datum" \in Symbols /\ "unchanged-toast-datum" \notin {"'", " ", "\n"}
        BY Literals
      <3>3. Raw(<<"unchanged-toast-datum">>)
        BY <3>2, RawSymbol
      <3>. QED BY <3>1, <3>3
    <2>3. ASSUME d.kind = "datum" /\ d.type \in Bare PROVE Raw(PrintDatum(d))
      <3>1. PrintDatum(d) = d.text /\ d.text \in Scalars
        <4>1. d.kind # "null" /\ d.kind # "toast"
          BY <2>3
        <4>2. PrintDatum(d) = PrintText(d)
          BY <4>1, Zenon DEF PrintDatum
        <4>3. PrintText(d) = d.text
          BY <2>3 DEF PrintText, Bare
        <4>. QED BY <2>3, <4>2, <4>3, DatumFacts
      <3>2. PICK x \in {"7", "huge", "NaN", "true", "false"} : d.text = <<x>>
        BY <3>1 DEF Scalars
      <3>3. x \in Symbols
        BY Literals
      <3>4. x \notin {"'", " ", "\n"}
        OBVIOUS
      <3>5. Raw(<<x>>)
        BY <3>3, <3>4, RawSymbol
      <3>. QED BY <3>1, <3>2, <3>5
    <2>4. ASSUME d.kind = "datum" /\ d.type = "bit" PROVE Raw(PrintDatum(d))
      <3>1. PrintDatum(d) = <<"B">> \o Quoted(d.text, "'")
        BY <2>4 DEF PrintDatum, PrintText, Bare
      <3>2. d.text \in Seq({"0", "1"})
        BY <2>4, DatumFacts
      <3>3. Raw(<<"B">> \o Quoted(d.text, "'"))
        BY <1>1, <3>2, RawBits
      <3>. QED BY <3>1, <3>3
    <2>5. Raw(PrintDatum(d))
      BY <1>1, <1>2, <2>1, <2>2, <2>3, <2>4, Zenon DEF Unquoted
    <2>. QED BY <1>2, <2>5 DEF Raw
  <1>3. CASE ~Unquoted(d)
    <2>1. PrintDatum(d) = Quoted(d.text, "'")
      BY <1>3 DEF PrintDatum, PrintText, Unquoted
    <2>2. "'" \in Symbols
      BY Literals
    <2>3. Quoted(d.text, "'") \in Text /\ Len(Quoted(d.text, "'")) \in Nat /\ Len(Quoted(d.text, "'")) >= Len(d.text) + 2
      BY <1>1, <2>2, QuotedLonger
    <2>4. Len(d.text) \in Nat
      BY <1>1 DEF Text
    <2>5. Len(Quoted(d.text, "'")) >= 1
      BY <2>3, <2>4
    <2>. QED BY <1>3, <2>1, <2>3, <2>5
  <1>. QED BY <1>2, <1>3

----------------------------------------------------------------------------------
(* parseColumnValue reads what PrintDatum shows behind place z.            *)
Ended(s, e) == e <= Len(s) /\ (e < Len(s) => s[e + 1] = " ")

(* parseColumnValue reads a value without quotes up to the blank.          *)
LEMMA RawRead ==
  ASSUME NEW s \in Text, NEW z \in Nat, NEW p, Raw(p),
         Shows(s, z, p, Len(p)), Ended(s, z + Len(p))
  PROVE  ParseValue(s, z + 1) = {[value |-> ParseScalar(p), next |-> z + Len(p) + 1]}
  <1>. DEFINE l == Len(p)
              first == z + 1
              e == z + l + 1
  <1>a. /\ p \in Text /\ l \in Nat /\ l >= 1 /\ p[1] # "'"
        /\ \A i \in 1..l : p[i] \notin {" ", "\n"}
    BY Zenon DEF Raw
  <1>1. p \in Text /\ l \in Nat /\ l >= 1 /\ Len(s) \in Nat
    <2>1. Len(s) \in Nat
      BY DEF Text
    <2>. QED BY <1>a, <2>1, Zenon
  <1>b. \A i \in 1..l : p[i] # " "
    BY <1>a
  <1>c. z + l < Len(s) => s[e] = " "
    BY Zenon DEF Ended
  <1>2. z + l <= Len(s)
    BY Zenon DEF Ended
  <1>3. \A i \in 1..l : s[z + i] = p[i]
    BY DEF Shows
  <1>4. first \in Nat \ {0} /\ e \in Nat /\ first <= Len(s) /\ e - 1 = z + l /\ 1 \in 1..l /\ first = z + 1 /\ e = z + l + 1
    BY <1>1, <1>2
  <1>. HIDE DEF first, e, l
  <1>5. s[first] # "'"
    BY <1>a, <1>3, <1>4
  <1>6. \A i \in first..(e - 1) : s[i] # " "
    <2>. SUFFICES ASSUME NEW i \in first..(e - 1) PROVE s[i] # " "
      OBVIOUS
    <2>1. i - z \in 1..l /\ z + (i - z) = i
      BY <1>1, <1>4
    <2>2. s[i] = p[i - z]
      BY <1>3, <2>1
    <2>. QED BY <1>b, <2>1, <2>2
  <1>7. " " \in Symbols
    BY Literals
  <1>8. Min(IndexFrom(s, <<" ">>, first) \cup {Len(s) + 1}) = e
    <2>1. CASE z + l < Len(s)
      <3>1. e \in first..Len(s)
        BY <1>1, <1>2, <1>4, <2>1
      <3>2. IndexFrom(s, <<" ">>, first) = {e}
        BY <1>4, <1>6, <1>7, <1>c, <2>1, <3>1, SymbolFound
      <3>3. {e} \cup {Len(s) + 1} \subseteq Nat /\ e <= Len(s) + 1
        BY <1>1, <1>4, <3>1
      <3>. DEFINE m == Min({e} \cup {Len(s) + 1})
      <3>4. m \in {e} \cup {Len(s) + 1} /\ \A x \in {e} \cup {Len(s) + 1} : m <= x
        BY <3>3, MinLemma
      <3>. HIDE DEF m
      <3>5. m = e
        BY <1>1, <1>4, <3>3, <3>4
      <3>. QED BY <3>2, <3>5 DEF m
    <2>2. CASE ~(z + l < Len(s))
      <3>1. e = Len(s) + 1 /\ e - 1 = Len(s)
        BY <1>1, <1>2, <1>4, <2>2
      <3>2. IndexFrom(s, <<" ">>, first) = {}
        BY <1>4, <1>6, <1>7, <3>1, SymbolMissing
      <3>. DEFINE m == Min({} \cup {Len(s) + 1})
      <3>a. {} \cup {Len(s) + 1} = {Len(s) + 1} /\ {Len(s) + 1} \subseteq Nat /\ {Len(s) + 1} # {}
        BY <1>1
      <3>3. m \in {} \cup {Len(s) + 1}
        BY <3>a, MinLemma, Zenon
      <3>. HIDE DEF m
      <3>4. m = e
        BY <3>1, <3>3
      <3>. QED BY <3>2, <3>4 DEF m
    <2>. QED BY <2>1, <2>2
  <1>9. SubSeq(s, first, e - 1) = p
    <2>1. \A i \in first..(e - 1) : s[i] \in Symbols
      BY <1>1, <1>2, <1>4 DEF Text
    <2>2. first \in Int /\ e - 1 \in Int /\ e - 1 - first + 1 = l /\ first <= e - 1
      BY <1>1, <1>4
    <2>3. /\ SubSeq(s, first, e - 1) \in Text
          /\ Len(SubSeq(s, first, e - 1)) = l
          /\ \A i \in 1..l : SubSeq(s, first, e - 1)[i] = s[first + i - 1]
      BY <2>1, <2>2, SubSeqProperties DEF Text
    <2>4. ASSUME NEW i \in 1..l PROVE SubSeq(s, first, e - 1)[i] = p[i]
      <3>1. first + i - 1 = z + i
        BY <1>1, <1>4
      <3>. QED BY <1>3, <2>3, <3>1
    <2>. QED BY <1>1, <2>3, <2>4, SeqEqual DEF Text, l
  <1>10. ParseValue(s, first) = {[value |-> ParseScalar(SubSeq(s, first, e - 1)), next |-> e]}
    BY <1>5, <1>8 DEF ParseValue
  <1>. QED BY <1>4, <1>9, <1>10 DEF l

(* What parseColumnValue returns.                                          *)
Read(value, next) == {[value |-> value, next |-> next]}
StringOf(t) == [go |-> "string", text |-> t]

(* And a quoted one as the text it was printed from, whatever is in it.    *)
LEMMA QuotedValue ==
  ASSUME NEW s \in Text, NEW z \in Nat, NEW t \in Text, NEW q, q = Quoted(t, "'"),
         Shows(s, z, q, Len(q)), Ended(s, z + Len(q))
  PROVE  ParseValue(s, z + 1) = Read(StringOf(t), z + Len(q) + 1)
  <1>1. "'" \in Symbols
    BY Literals
  <1>2. PICK at : Doubles(t, "'", at)
    BY <1>1, DoubleLemma
  <1>. DEFINE d == Double(t, "'")
              l == at[Len(t)]
              o == z + 1
  <1>3. Len(d) = l /\ Len(d) \in Nat /\ Len(s) \in Nat
    BY <1>1, <1>2, LongerLemma DEF Doubles, Text
  <1>a. Len(q) = Len(d) + 2 /\ q[1] = "'" /\ (\A p \in 1..Len(d) : q[1 + p] = d[p]) /\ q[Len(d) + 2] = "'"
    BY <1>1, QuotedLemma
  <1>b. Len(q) = l + 2 /\ q[1] = "'" /\ (\A p \in 1..l : q[1 + p] = d[p]) /\ q[l + 2] = "'"
    BY <1>3, <1>a
  <1>4. Len(q) = l + 2 /\ \A p \in 1..l : q[1 + p] = d[p]
    BY <1>b
  <1>5. \A p \in 1..(l + 2) : s[z + p] = q[p]
    BY <1>4 DEF Shows
  <1>. HIDE DEF d, l, o
  <1>6. z + l + 2 <= Len(s)
    <2>1. z + Len(q) = z + l + 2 /\ z + l + 2 + 1 = z + l + 3
      BY <1>3, <1>4
    <2>. QED BY <2>1 DEF Ended
  <1>c. z + l + 2 < Len(s) => s[z + l + 3] = " "
    <2>1. z + Len(q) = z + l + 2 /\ z + l + 2 + 1 = z + l + 3
      BY <1>3, <1>4
    <2>. QED BY <2>1 DEF Ended
  <1>7. /\ o \in 1..Len(s) /\ o \in Nat /\ o + l + 1 <= Len(s) /\ o + l + 1 = z + (l + 2) /\ o + l + 2 = z + l + 3
        /\ o + l + 1 = z + l + 2 /\ z + Len(q) + 1 = o + l + 2 /\ o = z + 1
    BY <1>3, <1>4, <1>6 DEF o
  <1>8. Shows(s, o, d, l)
    <2>. SUFFICES ASSUME NEW p \in 1..l PROVE s[o + p] = d[p]
      BY DEF Shows
    <2>1. 1 + p \in 1..(l + 2) /\ z + (1 + p) = o + p
      BY <1>3, <1>7
    <2>. QED BY <1>4, <1>5, <2>1
  <1>9. s[o + l + 1] = "'"
    <2>1. l + 2 \in 1..(l + 2)
      BY <1>3
    <2>. QED BY <1>b, <1>5, <1>7, <2>1
  <1>10. o + l + 1 < Len(s) => s[o + l + 2] # "'"
    BY <1>c, <1>7
  <1>11. ParseQuoted(s, o) = {[value |-> [go |-> "string", text |-> t], next |-> o + l + 2]}
    BY <1>2, <1>7, <1>8, <1>9, <1>10, QuotedRead DEF d, l
  <1>12. o <= Len(s) /\ s[o] = "'"
    <2>1. 1 \in 1..(l + 2)
      BY <1>3
    <2>. QED BY <1>b, <1>5, <1>7, <2>1
  <1>13. ParseValue(s, o) = ParseQuoted(s, o)
    BY <1>12 DEF ParseValue
  <1>14. o + l + 2 = z + Len(q) + 1
    BY <1>7
  <1>. QED BY <1>7, <1>11, <1>13, <1>14 DEF Read, StringOf

(* A quoted value that ends before its last quote is refused.              *)
LEMMA QuotedValueCut ==
  ASSUME NEW s \in Text, NEW z \in Nat, NEW t \in Text, NEW q, q = Quoted(t, "'"),
         NEW x \in 1..Len(q), q[x] # "'", Len(s) = z + x - 1, Shows(s, z, q, x - 1)
  PROVE  ParseValue(s, z + 1) = {}
  <1>1. "'" \in Symbols
    BY Literals
  <1>2. PICK at : Doubles(t, "'", at)
    BY <1>1, DoubleLemma
  <1>. DEFINE d == Double(t, "'")
              o == z + 1
  <1>3. PICK k \in 1..Len(t) : x = at[k - 1] + 2
    BY <1>1, <1>2, InQuotes
  <1>4. PICK c : c = k - 1
    OBVIOUS
  <1>5. /\ Len(d) = at[Len(t)] /\ Len(d) \in Nat /\ Len(t) \in Nat /\ c \in 0..Len(t) /\ Len(s) \in Nat
        /\ at[c] \in Nat /\ at[c] <= at[Len(t)]
    <2>1. Len(t) \in Nat /\ Len(s) \in Nat
      BY DEF Text
    <2>2. c \in 0..Len(t) /\ Len(t) \in 0..Len(t) /\ c <= Len(t)
      BY <1>4, <2>1
    <2>. QED BY <1>1, <1>2, <2>1, <2>2, LongerLemma DEF Doubles
  <1>a. q[1] = "'" /\ \A p \in 1..Len(d) : q[1 + p] = d[p]
    BY <1>1, QuotedLemma
  <1>6. \A p \in 1..at[Len(t)] : q[1 + p] = d[p]
    BY <1>5, <1>a
  <1>7. \A p \in 1..(at[c] + 1) : s[z + p] = q[p]
    <2>1. x - 1 = at[c] + 1
      BY <1>3, <1>4, <1>5
    <2>. QED BY <2>1 DEF Shows
  <1>. HIDE DEF d, o
  <1>8. o \in 1..Len(s) /\ Len(s) = o + at[c] /\ o = z + 1
    <2>1. x = at[c] + 2 /\ o = z + 1
      BY <1>3, <1>4, Zenon DEF o
    <2>2. at[c] \in Nat
      BY <1>5, Zenon
    <2>. QED BY <2>1, <2>2
  <1>9. Shows(s, o, d, at[c])
    <2>. SUFFICES ASSUME NEW p \in 1..at[c] PROVE s[o + p] = d[p]
      BY DEF Shows
    <2>1. 1 + p \in 1..(at[c] + 1) /\ z + (1 + p) = o + p /\ p \in 1..at[Len(t)]
      BY <1>5, <1>8
    <2>. QED BY <1>6, <1>7, <2>1
  <1>10. ParseQuoted(s, o) = {}
    BY <1>2, <1>5, <1>8, <1>9, QuotedCut DEF d
  <1>11. o <= Len(s) /\ s[o] = "'"
    <2>1. 1 \in 1..(at[c] + 1) /\ o <= Len(s)
      BY <1>5, <1>8
    <2>. QED BY <1>a, <1>7, <1>8, <2>1
  <1>. QED BY <1>8, <1>10, <1>11 DEF ParseValue

(* The value is the one printed unless the line says too little.           *)
GoValue ==
  [ go : {"nil", "bool", "int64", "float64", "string"}, text : Text \cup {<<"rounded">>} ]

(* A value is read back, unless it is one the parser misreads.             *)
DatumRead(v, d) == v \in GoValue /\ (LiteralDenotes(SqlValue(v), d) <=> ~MisreadDatum(d))

(* What SQL makes of a value that was read, compared with what was stored. *)
LEMMA DatumReadQuoted ==
  ASSUME NEW d \in Datums, ~Unquoted(d)
  PROVE  DatumRead([go |-> "string", text |-> d.text], d)
  <1>. DEFINE v == [go |-> "string", text |-> d.text]
  <1>1. d.text \in Text /\ d.kind = "datum" /\ d.type \notin Bare /\ d.type # "bit"
    BY DatumFacts DEF Unquoted
  <1>2. v \in GoValue
    BY <1>1 DEF GoValue
  <1>3. SqlValue(v) = Quoted(d.text, "'")
    BY DEF SqlValue
  <1>4. LiteralDenotes(SqlValue(v), d)
    BY <1>1, <1>3 DEF LiteralDenotes
  <1>5. ~MisreadDatum(d)
    BY <1>1 DEF MisreadDatum
  <1>. QED BY <1>2, <1>4, <1>5 DEF DatumRead

(* A text in quotes is none of one symbol.                                 *)
LEMMA NotInQuotes ==
  ASSUME NEW x, NEW t \in Text
  PROVE  Quoted(t, "'") # <<x>>
  <1>1. "'" \in Symbols
    BY Literals
  <1>. DEFINE q == Quoted(t, "'")
  <1>2. Len(q) \in Nat /\ Len(q) >= Len(t) + 2 /\ Len(t) \in Nat
    BY <1>1, QuotedLonger DEF Text
  <1>. HIDE DEF q
  <1>a. \A k, l \in Nat : l >= k + 2 => l # 1
    OBVIOUS
  <1>3. Len(q) # 1
    BY <1>2, <1>a, Zenon
  <1>4. ASSUME q = <<x>> PROVE FALSE
    BY <1>3, <1>4
  <1>. QED BY <1>4 DEF q

(* What is printed without quotes is read back, or misread.                *)
LEMMA DatumReadRaw ==
  ASSUME NEW d \in Datums, Unquoted(d)
  PROVE  DatumRead(ParseScalar(PrintDatum(d)), d)
  <1>1. /\ d.text \in Text /\ d.kind \in {"datum", "null", "toast"}
        /\ d.kind # "datum" => d.text = <<>>
        /\ d.kind = "datum" /\ d.type \in Bare => d.text \in Scalars
    BY DatumFacts
  <1>2. ASSUME d.kind = "null" PROVE DatumRead(ParseScalar(PrintDatum(d)), d)
    <2>1. PrintDatum(d) = <<"null">>
      BY <1>2 DEF PrintDatum
    <2>2. ParseScalar(<<"null">>) = [go |-> "nil", text |-> <<>>]
      BY DEF ParseScalar
    <2>3. [go |-> "nil", text |-> <<>>] \in GoValue
      BY DEF GoValue, Text
    <2>4. SqlValue([go |-> "nil", text |-> <<>>]) = <<"NULL">>
      BY DEF SqlValue
    <2>5. LiteralDenotes(<<"NULL">>, d)
      BY <1>2 DEF LiteralDenotes
    <2>6. ~MisreadDatum(d)
      <3>1. <<>> \notin {<<"huge">>, <<"NaN">>}
        OBVIOUS
      <3>. QED BY <1>1, <1>2, <3>1 DEF MisreadDatum
    <2>. QED BY <2>1, <2>2, <2>3, <2>4, <2>5, <2>6 DEF DatumRead
  <1>3. ASSUME d.kind = "toast" PROVE DatumRead(ParseScalar(PrintDatum(d)), d)
    <2>1. PrintDatum(d) = <<"unchanged-toast-datum">>
      BY <1>3 DEF PrintDatum
    <2>2. ParseScalar(<<"unchanged-toast-datum">>) = [go |-> "string", text |-> <<"unchanged-toast-datum">>]
      BY DEF ParseScalar
    <2>3. [go |-> "string", text |-> <<"unchanged-toast-datum">>] \in GoValue
      <3>1. <<"unchanged-toast-datum">> \in Text
        BY Literals, OneSymbol
      <3>. QED BY <3>1 DEF GoValue
    <2>4. \A l : ~LiteralDenotes(l, d)
      BY <1>3 DEF LiteralDenotes
    <2>5. MisreadDatum(d)
      BY <1>3 DEF MisreadDatum
    <2>. QED BY <2>1, <2>2, <2>3, <2>4, <2>5 DEF DatumRead
  <1>4. ASSUME d.kind = "datum", d.type = "bit" PROVE DatumRead(ParseScalar(PrintDatum(d)), d)
    <2>. DEFINE q == Quoted(d.text, "'")
                p == <<"B">> \o q
    <2>0. "'" \in Symbols /\ "B" \in Symbols
      BY Literals
    <2>1. PrintDatum(d) = p
      BY <1>4 DEF PrintDatum, PrintText, Bare
    <2>a. d.text \in Text
      BY <1>1
    <2>b. Len(d.text) \in Nat
      BY <2>a DEF Text
    <2>2. q \in Text /\ Len(q) \in Nat /\ Len(q) >= Len(d.text) + 2 /\ Len(d.text) \in Nat
      BY <2>0, <2>a, <2>b, QuotedLonger, Zenon
    <2>3. p \in Text /\ Len(p) = 1 + Len(q)
      <3>1. <<"B">> \in Text /\ Len(<<"B">>) = 1
        BY <2>0, OneSymbol, Zenon
      <3>. QED BY <2>2, <3>1, ConcatProperties DEF Text
    <2>. HIDE DEF p
    <2>4. \A x : p # <<x>>
      <3>1. Len(p) # 1
        BY <2>2, <2>3
      <3>2. ASSUME NEW x, p = <<x>> PROVE FALSE
        BY <3>1, <3>2
      <3>. QED BY <3>2
    <2>5. ParseScalar(p) = [go |-> "string", text |-> p]
      <3>1. p \notin {<<"null">>, <<"7">>, <<"huge">>, <<"NaN">>} /\ p \notin {<<"true">>, <<"false">>}
        BY <2>4
      <3>. QED BY <3>1 DEF ParseScalar
    <2>6. [go |-> "string", text |-> p] \in GoValue
      BY <2>3 DEF GoValue
    <2>7. SqlValue([go |-> "string", text |-> p]) = Quoted(p, "'")
      BY DEF SqlValue
    <2>8. Quoted(p, "'") # q
      <3>1. Len(Quoted(p, "'")) >= Len(p) + 2 /\ Len(Quoted(p, "'")) \in Nat
        BY <2>0, <2>3, QuotedLonger
      <3>. QED BY <2>2, <2>3, <3>1
    <2>9. ~LiteralDenotes(Quoted(p, "'"), d)
      BY <1>4, <2>8 DEF LiteralDenotes, Bare
    <2>10. MisreadDatum(d)
      BY <1>4 DEF MisreadDatum
    <2>. QED BY <2>1, <2>5, <2>6, <2>7, <2>9, <2>10 DEF DatumRead
  <1>5. ASSUME d.kind = "datum", d.type \in Bare PROVE DatumRead(ParseScalar(PrintDatum(d)), d)
    <2>1. PrintDatum(d) = d.text
      <3>1. PrintDatum(d) = PrintText(d)
        BY <1>5, Zenon DEF PrintDatum
      <3>. QED BY <1>5, <3>1 DEF PrintText, Bare
    <2>2. d.text \in Scalars /\ d.text \in Text /\ d.type # "bit"
      BY <1>1, <1>5 DEF Bare
    <2>3. \A l : LiteralDenotes(l, d) <=> l = Quoted(d.text, "'") \/ (l = d.text /\ d.text # <<"NaN">>)
      BY <1>5 DEF LiteralDenotes
    <2>4. MisreadDatum(d) <=> d.text \in {<<"huge">>, <<"NaN">>}
      BY <1>5, <2>2 DEF MisreadDatum
    <2>5. \A x : Quoted(d.text, "'") # <<x>>
      BY <2>2, NotInQuotes
    <2>6. ASSUME NEW g \in {"bool", "int64"}, ParseScalar(d.text) = [go |-> g, text |-> d.text],
                 d.text \notin {<<"huge">>, <<"NaN">>}
          PROVE  DatumRead(ParseScalar(PrintDatum(d)), d)
      <3>1. SqlValue([go |-> g, text |-> d.text]) = d.text
        BY <2>6 DEF SqlValue
      <3>2. [go |-> g, text |-> d.text] \in GoValue
        BY <2>2, <2>6 DEF GoValue
      <3>3. LiteralDenotes(d.text, d)
        BY <2>3, <2>6
      <3>. QED BY <2>1, <2>4, <2>6, <3>1, <3>2, <3>3 DEF DatumRead
    <2>7. ASSUME d.text = <<"7">> PROVE DatumRead(ParseScalar(PrintDatum(d)), d)
      <3>1. ParseScalar(<<"7">>) = [go |-> "int64", text |-> <<"7">>]
        BY DEF ParseScalar
      <3>2. <<"7">> \notin {<<"huge">>, <<"NaN">>}
        OBVIOUS
      <3>. QED BY <2>6, <2>7, <3>1, <3>2
    <2>8. ASSUME d.text \in {<<"true">>, <<"false">>} PROVE DatumRead(ParseScalar(PrintDatum(d)), d)
      <3>1. ParseScalar(d.text) = [go |-> "bool", text |-> d.text]
        BY <2>8 DEF ParseScalar
      <3>2. d.text \notin {<<"huge">>, <<"NaN">>}
        BY <2>8
      <3>. QED BY <2>6, <3>1, <3>2
    <2>9. ASSUME d.text = <<"huge">> PROVE DatumRead(ParseScalar(PrintDatum(d)), d)
      <3>1. ParseScalar(<<"huge">>) = [go |-> "float64", text |-> <<"rounded">>]
        BY DEF ParseScalar
      <3>2. SqlValue([go |-> "float64", text |-> <<"rounded">>]) = <<"rounded">>
        BY DEF SqlValue
      <3>3. [go |-> "float64", text |-> <<"rounded">>] \in GoValue
        BY DEF GoValue
      <3>4. <<"rounded">> # <<"huge">>
        OBVIOUS
      <3>5. ~LiteralDenotes(<<"rounded">>, d)
        BY <2>3, <2>5, <2>9, <3>4
      <3>. QED BY <2>1, <2>4, <2>9, <3>1, <3>2, <3>3, <3>5 DEF DatumRead
    <2>10. ASSUME d.text = <<"NaN">> PROVE DatumRead(ParseScalar(PrintDatum(d)), d)
      <3>1. ParseScalar(<<"NaN">>) = [go |-> "float64", text |-> <<"NaN">>]
        BY DEF ParseScalar
      <3>2. SqlValue([go |-> "float64", text |-> <<"NaN">>]) = <<"NaN">>
        BY DEF SqlValue
      <3>3. [go |-> "float64", text |-> <<"NaN">>] \in GoValue
        BY <2>2, <2>10 DEF GoValue
      <3>4. ~LiteralDenotes(<<"NaN">>, d)
        BY <2>3, <2>5, <2>10
      <3>. QED BY <2>1, <2>4, <2>10, <3>1, <3>2, <3>3, <3>4 DEF DatumRead
    <2>. QED BY <2>2, <2>7, <2>8, <2>9, <2>10 DEF Scalars
  <1>. QED BY <1>1, <1>2, <1>3, <1>4, <1>5 DEF Unquoted

(* Both kinds of values.                                                   *)
LEMMA ValueWhole ==
  ASSUME NEW s \in Text, NEW z \in Nat, NEW d \in Datums,
         Shows(s, z, PrintDatum(d), Len(PrintDatum(d))), Ended(s, z + Len(PrintDatum(d)))
  PROVE  \E v : /\ ParseValue(s, z + 1) = {[value |-> v, next |-> z + Len(PrintDatum(d)) + 1]}
                /\ DatumRead(v, d)
  <1>1. CASE Unquoted(d)
    <2>1. Raw(PrintDatum(d))
      BY <1>1, PrintDatumLemma
    <2>. QED BY <1>1, <2>1, RawRead, DatumReadRaw
  <1>2. CASE ~Unquoted(d)
    <2>1. PrintDatum(d) = Quoted(d.text, "'") /\ d.text \in Text
      BY <1>2, PrintDatumLemma, DatumFacts
    <2>. DEFINE v == [go |-> "string", text |-> d.text]
    <2>a. PICK q, t : q = PrintDatum(d) /\ t = d.text
      OBVIOUS
    <2>b. t \in Text /\ q = Quoted(t, "'") /\ Shows(s, z, q, Len(q)) /\ Ended(s, z + Len(q))
      BY <2>1, <2>a
    <2>c. ParseValue(s, z + 1) = Read(StringOf(t), z + Len(q) + 1)
      BY <2>b, QuotedValue
    <2>2. ParseValue(s, z + 1) = {[value |-> v, next |-> z + Len(PrintDatum(d)) + 1]}
      BY <2>a, <2>c DEF Read, StringOf
    <2>3. DatumRead(v, d)
      BY <1>2, DatumReadQuoted
    <2>. QED BY <2>2, <2>3
  <1>. QED BY <1>1, <1>2

(* Where a value has a blank or a line break, it is in quotes.             *)
LEMMA ValueCut ==
  ASSUME NEW s \in Text, NEW z \in Nat, NEW d \in Datums,
         NEW x \in 1..Len(PrintDatum(d)), PrintDatum(d)[x] \in {" ", "\n"},
         Len(s) = z + x - 1, Shows(s, z, PrintDatum(d), x - 1)
  PROVE  ParseValue(s, z + 1) = {}
  <1>1. ~Raw(PrintDatum(d))
    BY DEF Raw
  <1>2. PrintDatum(d) = Quoted(d.text, "'") /\ d.text \in Text
    BY <1>1, PrintDatumLemma, DatumFacts
  <1>3. PrintDatum(d)[x] # "'"
    OBVIOUS
  <1>. QED BY <1>2, <1>3, QuotedValueCut

----------------------------------------------------------------------------------
(* parseColumn looks for the brackets of a column and may find those of    *)
(* its name.                                                               *)
LEMMA SymbolSearch ==
  ASSUME NEW s \in Text, NEW x \in Symbols, NEW first \in Nat \ {0}
  PROVE  \/ IndexFrom(s, <<x>>, first) = {} /\ \A i \in first..Len(s) : s[i] # x
         \/ \E k \in first..Len(s) :
              /\ IndexFrom(s, <<x>>, first) = {k}
              /\ s[k] = x
              /\ \A i \in first..(k - 1) : s[i] # x
  <1>1. CASE \A i \in first..Len(s) : s[i] # x
    BY <1>1, SymbolMissing
  <1>2. CASE \E i \in first..Len(s) : s[i] = x
    <2>. DEFINE S == {i \in first..Len(s) : s[i] = x}
    <2>1. S \subseteq Nat /\ S # {}
      BY <1>2 DEF Text
    <2>2. Min(S) \in S /\ \A i \in S : Min(S) <= i
      BY <2>1, MinLemma
    <2>3. PICK k \in first..Len(s) : s[k] = x /\ \A i \in S : k <= i
      BY <2>2
    <2>4. \A i \in first..(k - 1) : s[i] # x
      <3>. SUFFICES ASSUME NEW i \in first..(k - 1), s[i] = x PROVE FALSE
        OBVIOUS
      <3>1. Len(s) \in Nat
        BY DEF Text
      <3>2. i \in first..Len(s) /\ ~(k <= i)
        BY <3>1
      <3>. QED BY <2>3, <3>2
    <2>. QED BY <2>3, <2>4, SymbolFound
  <1>. QED BY <1>1, <1>2

(* The quotes around a name add no brackets.                               *)
LEMMA NameBrackets ==
  ASSUME NEW n \in Names
  PROVE  LET p == PrintName(n)
         IN  /\ (\E x \in 1..Len(p) : p[x] = "[") => ~Plain(n)
             /\ \A x, y \in 1..Len(p) : x < y /\ p[x] = "[" /\ p[y] = "]" => Bracketed(n)
             /\ Bracketed(n) => \E x, y \in 1..Len(p) : x < y /\ p[x] = "[" /\ p[y] = "]"
             /\ \A y \in 1..Len(p) : p[y] = "]" => y < Len(p) /\ p[y + 1] # ":"
  <1>. DEFINE p == PrintName(n)
  <1>1. n \in Text /\ DOMAIN n = 1..Len(n) /\ Len(n) \in Nat /\ Len(p) \in Nat
    BY NameFacts, PrintNameLemma DEF Idents
  <1>2. "\"" \in Symbols /\ "[" \notin Safe /\ "]" \notin Safe /\ "\"" # "[" /\ "\"" # "]" /\ "\"" # ":"
    BY Literals DEF Safe
  <1>3. CASE Plain(n)
    <2>1. p = n /\ \A i \in 1..Len(n) : n[i] # "[" /\ n[i] # "]"
      BY <1>1, <1>2, <1>3, PrintNameLemma DEF Plain, Idents
    <2>2. ~Bracketed(n)
      BY <1>1, <2>1 DEF Bracketed
    <2>. HIDE DEF p
    <2>. QED BY <2>1, <2>2 DEF p
  <1>4. CASE ~Plain(n)
    <2>0. PICK q \in Symbols : q = "\""
      BY <1>2
    <2>b. q # "[" /\ q # "]" /\ q # ":"
      BY <1>2, <2>0
    <2>1. p = Quoted(n, q)
      BY <1>4, <2>0, PrintNameLemma DEF Idents
    <2>2. PICK at : Doubles(n, q, at)
      BY <1>1, DoubleLemma
    <2>. HIDE DEF p
    <2>3. \A x \in 1..Len(p) : p[x] # q => \E k \in 1..Len(n) : x = at[k - 1] + 2 /\ n[k] = p[x]
      BY <1>1, <2>1, <2>2, InQuotes
    <2>4. \A k \in 1..Len(n) : n[k] # q =>
            /\ at[k - 1] \in Nat /\ at[k] = at[k - 1] + 1
            /\ at[k - 1] + 3 <= Len(p)
            /\ p[at[k - 1] + 2] = n[k]
            /\ p[at[k - 1] + 3] = IF k < Len(n) THEN n[k + 1] ELSE q
      BY <1>1, <2>1, <2>2, OutQuotes
    <2>a. \A i, j \in 0..Len(n) : i <= j => at[i] <= at[j]
      BY <2>2 DEF Doubles
    <2>5. ASSUME NEW x \in 1..Len(p), NEW y \in 1..Len(p), x < y, p[x] = "[", p[y] = "]"
          PROVE  Bracketed(n)
      <3>1. PICK i \in 1..Len(n) : x = at[i - 1] + 2 /\ n[i] = "["
        BY <2>b, <2>3, <2>5
      <3>2. PICK j \in 1..Len(n) : y = at[j - 1] + 2 /\ n[j] = "]"
        BY <2>b, <2>3, <2>5
      <3>3. at[i - 1] \in Nat /\ at[j - 1] \in Nat
        BY <2>b, <2>4, <3>1, <3>2
      <3>4. ~(at[j - 1] <= at[i - 1])
        BY <2>5, <3>1, <3>2, <3>3
      <3>5. ~(j - 1 <= i - 1)
        BY <1>1, <2>a, <3>4
      <3>6. i < j
        BY <1>1, <3>5
      <3>. QED BY <1>1, <3>1, <3>2, <3>6 DEF Bracketed
    <2>6. ASSUME Bracketed(n)
          PROVE  \E x, y \in 1..Len(p) : x < y /\ p[x] = "[" /\ p[y] = "]"
      <3>1. PICK i \in 1..Len(n), j \in 1..Len(n) : i < j /\ n[i] = "[" /\ n[j] = "]"
        BY <1>1, <2>6 DEF Bracketed
      <3>2. /\ at[i - 1] \in Nat /\ at[i] = at[i - 1] + 1 /\ p[at[i - 1] + 2] = "["
            /\ at[j - 1] \in Nat /\ p[at[j - 1] + 2] = "]"
            /\ at[i - 1] + 3 <= Len(p) /\ at[j - 1] + 3 <= Len(p)
        BY <2>b, <2>4, <3>1
      <3>3. at[i] <= at[j - 1]
        <4>1. i \in 0..Len(n) /\ j - 1 \in 0..Len(n) /\ i <= j - 1
          BY <1>1, <3>1
        <4>. QED BY <2>a, <4>1
      <3>4. PICK u, v : u = at[i - 1] /\ v = at[j - 1]
        OBVIOUS
      <3>5. u \in Nat /\ v \in Nat /\ u + 1 <= v /\ u + 3 <= Len(p) /\ v + 3 <= Len(p)
        BY <3>2, <3>3, <3>4
      <3>6. u + 2 \in 1..Len(p) /\ v + 2 \in 1..Len(p) /\ u + 2 < v + 2
        BY <1>1, <3>5
      <3>7. p[u + 2] = "[" /\ p[v + 2] = "]"
        BY <3>2, <3>4
      <3>. QED BY <3>6, <3>7
    <2>7. ASSUME NEW y \in 1..Len(p), p[y] = "]" PROVE y < Len(p) /\ p[y + 1] # ":"
      <3>1. PICK k \in 1..Len(n) : y = at[k - 1] + 2 /\ n[k] = "]"
        BY <2>b, <2>3, <2>7
      <3>2. /\ at[k - 1] \in Nat /\ at[k - 1] + 3 <= Len(p)
            /\ p[at[k - 1] + 3] = IF k < Len(n) THEN n[k + 1] ELSE q
        BY <2>b, <2>4, <3>1
      <3>3. at[k - 1] + 3 = y + 1 /\ y < Len(p)
        <4>1. at[k - 1] \in Nat /\ at[k - 1] + 3 <= Len(p) /\ y = at[k - 1] + 2
          BY <3>1, <3>2
        <4>. QED BY <1>1, <4>1
      <3>4. k < Len(n) => n[k + 1] # ":"
        BY <1>1, <3>1, NamesAssumption
      <3>. QED BY <2>b, <3>2, <3>3, <3>4
    <2>. QED BY <1>4, <2>5, <2>6, <2>7 DEF p
  <1>. QED BY <1>3, <1>4

(* The lengths of a printed name, of what precedes a value and of a        *)
(* column.                                                                 *)
NameLen(c) == Len(PrintName(c.name))
HeadLen(c) == NameLen(c) + Len(PrintType(c.datum)) + 3
CellLen(c) == HeadLen(c) + Len(PrintDatum(c.datum))

(* Texts one behind the other.                                             *)
LEMMA JoinLemma ==
  ASSUME NEW s \in Text, NEW t \in Text
  PROVE  /\ s \o t \in Text /\ Len(s) \in Nat /\ Len(t) \in Nat /\ Len(s \o t) = Len(s) + Len(t)
         /\ \A i \in 1..Len(s) : (s \o t)[i] = s[i]
         /\ \A i \in 1..Len(t) : (s \o t)[Len(s) + i] = t[i]
  <1>1. /\ s \o t \in Text /\ Len(s \o t) = Len(s) + Len(t)
        /\ \A i \in 1..(Len(s) + Len(t)) : (s \o t)[i] = IF i <= Len(s) THEN s[i] ELSE t[i - Len(s)]
    BY ConcatProperties DEF Text
  <1>2. Len(s) \in Nat /\ Len(t) \in Nat
    BY DEF Text
  <1>3. ASSUME NEW i \in 1..Len(s) PROVE (s \o t)[i] = s[i]
    <2>1. i \in 1..(Len(s) + Len(t)) /\ i <= Len(s)
      BY <1>2
    <2>. QED BY <1>1, <2>1
  <1>4. ASSUME NEW i \in 1..Len(t) PROVE (s \o t)[Len(s) + i] = t[i]
    <2>1. Len(s) + i \in 1..(Len(s) + Len(t)) /\ ~(Len(s) + i <= Len(s)) /\ Len(s) + i - Len(s) = i
      BY <1>2
    <2>. QED BY <1>1, <2>1
  <1>. QED BY <1>1, <1>2, <1>3, <1>4

(* The symbols of a column.                                                *)
CellShows(c, p) ==
  /\ p \in Text /\ Len(p) = CellLen(c) /\ NameLen(c) \in Nat /\ Len(PrintType(c.datum)) \in Nat
  /\ Len(PrintDatum(c.datum)) \in Nat
  /\ \A i \in 1..NameLen(c) : p[i] = PrintName(c.name)[i]
  /\ p[NameLen(c) + 1] = "["
  /\ \A i \in 1..Len(PrintType(c.datum)) : p[NameLen(c) + 1 + i] = PrintType(c.datum)[i]
  /\ p[HeadLen(c) - 1] = "]"
  /\ p[HeadLen(c)] = ":"
  /\ \A i \in 1..Len(PrintDatum(c.datum)) : p[HeadLen(c) + i] = PrintDatum(c.datum)[i]

(* A printed column, symbol by symbol.                                     *)
LEMMA CellLemma ==
  ASSUME NEW c \in Column
  PROVE  CellShows(c, PrintColumn(c))
  <1>. DEFINE n == PrintName(c.name)
              t == PrintType(c.datum)
              v == PrintDatum(c.datum)
              u == <<"[">>
              w == <<"]", ":">>
              p1 == n \o u
              p2 == p1 \o t
              p3 == p2 \o w
              p4 == p3 \o v
  <1>1. c.name \in Names /\ c.datum \in Datums
    BY DEF Column
  <1>2. n \in Text /\ t \in Text /\ v \in Text
    BY <1>1, PrintNameLemma, PrintTypeLemma, PrintDatumLemma DEF Idents
  <1>3. u \in Text /\ w \in Text /\ Len(u) = 1 /\ Len(w) = 2 /\ u[1] = "[" /\ w[1] = "]" /\ w[2] = ":"
    <2>1. "[" \in Symbols /\ "]" \in Symbols /\ ":" \in Symbols
      BY Literals
    <2>2. u \in Text /\ Len(u) = 1 /\ u[1] = "["
      BY <2>1, OneSymbol, Zenon
    <2>3. \A x, y \in Symbols : <<x, y>> \in Text
      BY DEF Text
    <2>. QED BY <2>1, <2>2, <2>3, TupleLemma, Zenon
  <1>a. u \in Text /\ w \in Text /\ Len(u) = 1 /\ Len(w) = 2
    BY <1>3, Zenon
  <1>4. PrintColumn(c) = p4
    BY DEF PrintColumn
  <1>. HIDE DEF n, t, v, u, w
  <1>5. /\ p1 \in Text /\ Len(n) \in Nat /\ Len(p1) = Len(n) + Len(u)
        /\ \A i \in 1..Len(n) : p1[i] = n[i]
        /\ \A i \in 1..Len(u) : p1[Len(n) + i] = u[i]
    BY <1>2, <1>a, JoinLemma
  <1>. HIDE DEF p1
  <1>6. /\ p2 \in Text /\ Len(t) \in Nat /\ Len(p2) = Len(p1) + Len(t)
        /\ \A i \in 1..Len(p1) : p2[i] = p1[i]
        /\ \A i \in 1..Len(t) : p2[Len(p1) + i] = t[i]
    BY <1>2, <1>5, JoinLemma
  <1>. HIDE DEF p2
  <1>7. /\ p3 \in Text /\ Len(p3) = Len(p2) + Len(w)
        /\ \A i \in 1..Len(p2) : p3[i] = p2[i]
        /\ \A i \in 1..Len(w) : p3[Len(p2) + i] = w[i]
    BY <1>6, <1>a, JoinLemma
  <1>. HIDE DEF p3
  <1>8. /\ p4 \in Text /\ Len(v) \in Nat /\ Len(p4) = Len(p3) + Len(v)
        /\ \A i \in 1..Len(p3) : p4[i] = p3[i]
        /\ \A i \in 1..Len(v) : p4[Len(p3) + i] = v[i]
    BY <1>2, <1>7, JoinLemma
  <1>. HIDE DEF p4
  <1>9. PICK a, b, d : a = Len(n) /\ b = Len(t) /\ d = Len(v)
    OBVIOUS
  <1>10. a \in Nat /\ b \in Nat /\ d \in Nat /\ Len(p1) = a + 1 /\ Len(p2) = a + 1 + b /\ Len(p3) = a + b + 3 /\ Len(p4) = a + b + 3 + d
    BY <1>5, <1>6, <1>7, <1>8, <1>9, <1>a
  <1>11. ASSUME NEW i \in 1..a PROVE p4[i] = n[i]
    <2>1. i \in 1..Len(p1) /\ i \in 1..Len(p2) /\ i \in 1..Len(p3)
      BY <1>10
    <2>. QED BY <1>5, <1>6, <1>7, <1>8, <1>9, <2>1
  <1>12. p4[a + 1] = "["
    <2>1. a + 1 \in 1..Len(p1) /\ a + 1 \in 1..Len(p2) /\ a + 1 \in 1..Len(p3) /\ 1 \in 1..Len(u)
      BY <1>10, <1>a
    <2>2. p4[a + 1] = p1[a + 1]
      BY <1>6, <1>7, <1>8, <2>1
    <2>3. p1[a + 1] = u[1]
      BY <1>5, <1>9, <2>1
    <2>. QED BY <1>3, <2>2, <2>3, Zenon
  <1>13. ASSUME NEW i \in 1..b PROVE p4[a + 1 + i] = t[i]
    <2>1. a + 1 + i \in 1..Len(p2) /\ a + 1 + i \in 1..Len(p3) /\ a + 1 + i = Len(p1) + i
      BY <1>10
    <2>. QED BY <1>6, <1>7, <1>8, <1>9, <2>1
  <1>14. p4[a + b + 2] = "]" /\ p4[a + b + 3] = ":"
    <2>1. /\ a + b + 2 \in 1..Len(p3) /\ a + b + 3 \in 1..Len(p3) /\ a + b + 2 = Len(p2) + 1
          /\ a + b + 3 = Len(p2) + 2 /\ 1 \in 1..Len(w) /\ 2 \in 1..Len(w)
      BY <1>10, <1>a
    <2>2. p4[a + b + 2] = w[1] /\ p4[a + b + 3] = w[2]
      BY <1>7, <1>8, <2>1
    <2>. QED BY <1>3, <2>2, Zenon
  <1>15. ASSUME NEW i \in 1..d PROVE p4[a + b + 3 + i] = v[i]
    BY <1>8, <1>9, <1>10
  <1>16. /\ NameLen(c) = a /\ Len(PrintType(c.datum)) = b /\ Len(PrintDatum(c.datum)) = d
         /\ HeadLen(c) = a + b + 3 /\ CellLen(c) = a + b + 3 + d
    BY <1>9 DEF NameLen, HeadLen, CellLen, n, t, v
  <1>17. a + b + 3 - 1 = a + b + 2
    BY <1>10
  <1>18. CellShows(c, p4)
    <2>1. \A i \in 1..NameLen(c) : p4[i] = PrintName(c.name)[i]
      BY <1>11, <1>16, Zenon DEF n
    <2>2. p4[NameLen(c) + 1] = "[" /\ p4[HeadLen(c) - 1] = "]" /\ p4[HeadLen(c)] = ":"
      <3>1. NameLen(c) + 1 = a + 1 /\ HeadLen(c) - 1 = a + b + 2 /\ HeadLen(c) = a + b + 3
        <4>1. NameLen(c) = a /\ HeadLen(c) = a + b + 3
          BY <1>16, Zenon
        <4>. QED BY <1>10, <4>1
      <3>. QED BY <1>12, <1>14, <3>1, Zenon
    <2>3. \A i \in 1..Len(PrintType(c.datum)) : p4[NameLen(c) + 1 + i] = PrintType(c.datum)[i]
      BY <1>13, <1>16, Zenon DEF t
    <2>4. \A i \in 1..Len(PrintDatum(c.datum)) : p4[HeadLen(c) + i] = PrintDatum(c.datum)[i]
      BY <1>15, <1>16, Zenon DEF v
    <2>5. /\ p4 \in Text /\ Len(p4) = CellLen(c) /\ NameLen(c) \in Nat /\ Len(PrintType(c.datum)) \in Nat
          /\ Len(PrintDatum(c.datum)) \in Nat
      BY <1>8, <1>10, <1>16
    <2>. QED BY <2>1, <2>2, <2>3, <2>4, <2>5, Zenon DEF CellShows
  <1>. QED BY <1>4, <1>18

----------------------------------------------------------------------------------
(* parseColumn at a column whose symbols stand behind place z of a text,   *)
(* when it starts there or behind what has no bracket.                     *)
Opens(s, start, z) == start \in 1..(z + 1) /\ \A i \in start..z : s[i] # "["

(* The ends of a type that parseColumn finds behind an opening bracket.    *)
Types(s, i) == {j \in IndexFrom(s, <<"]">>, i + 1) : j < Len(s) /\ s[j + 1] = ":"}

(* What parseColumn reads between two brackets and behind them.            *)
ColumnsAt(s, start, i, j) ==
  {[ column |-> [ name |-> SubSeq(s, start, i - 1), type |-> SubSeq(s, i + 1, j - 1), value |-> v.value ],
     next |-> v.next ] : v \in ParseValue(s, j + 2)}

(* parseColumn, by what it finds of the brackets.                          *)
LEMMA ParseColumnLemma ==
  ASSUME NEW s, NEW start
  PROVE  /\ IndexFrom(s, <<"[">>, start) = {} => ParseColumn(s, start) = {}
         /\ \A i : IndexFrom(s, <<"[">>, start) = {i} /\ Types(s, i) = {} => ParseColumn(s, start) = {}
         /\ \A i, j : IndexFrom(s, <<"[">>, start) = {i} /\ Types(s, i) = {j} =>
                        ParseColumn(s, start) = ColumnsAt(s, start, i, j)
  <1>1. ParseColumn(s, start) =
          UNION {UNION {ColumnsAt(s, start, i, j) : j \in Types(s, i)} : i \in IndexFrom(s, <<"[">>, start)}
    BY DEF ParseColumn, Types, ColumnsAt
  <1>. QED BY <1>1

(* The first closing bracket behind an opening one ends a type, or nothing *)
(* does.                                                                   *)
LEMMA TypesLemma ==
  ASSUME NEW s \in Text, NEW i \in 1..Len(s), NEW j \in (i + 1)..Len(s),
         s[j] = "]", \A k \in (i + 1)..(j - 1) : s[k] # "]"
  PROVE  Types(s, i) = IF j < Len(s) /\ s[j + 1] = ":" THEN {j} ELSE {}
  <1>1. "]" \in Symbols
    BY Literals
  <1>2. i + 1 \in Nat \ {0}
    BY DEF Text
  <1>3. IndexFrom(s, <<"]">>, i + 1) = {j}
    BY <1>1, <1>2, SymbolFound
  <1>. QED BY <1>3 DEF Types

(* Without a bracket behind it a type does not end.                        *)
LEMMA NoTypes ==
  ASSUME NEW s \in Text, NEW i \in 1..Len(s), \A k \in (i + 1)..Len(s) : s[k] # "]"
  PROVE  Types(s, i) = {}
  <1>1. "]" \in Symbols
    BY Literals
  <1>2. i + 1 \in Nat \ {0}
    BY DEF Text
  <1>3. IndexFrom(s, <<"]">>, i + 1) = {}
    BY <1>1, <1>2, SymbolMissing
  <1>. QED BY <1>3 DEF Types

(* A closing bracket in a name is not the end of a type.                   *)
LEMMA BracketInName ==
  ASSUME NEW s \in Text, NEW c \in Column, NEW z \in Nat, NEW l \in 0..NameLen(c), z + l <= Len(s),
         Shows(s, z, PrintName(c.name), l), z + l < Len(s) => Shows(s, z, PrintName(c.name), NameLen(c)),
         NEW i \in 1..Len(s), NEW y \in 1..l, i < z + y, s[z + y] = "]",
         \A k \in (i + 1)..(z + y - 1) : s[k] # "]"
  PROVE  Types(s, i) = {}
  <1>. DEFINE p == PrintName(c.name)
              a == NameLen(c)
              j == z + y
  <1>1. c.name \in Names /\ a = Len(p) /\ a \in Nat
    BY PrintNameLemma DEF Column, NameLen, Idents
  <1>2. y \in 1..a /\ l <= a /\ Len(s) \in Nat /\ l \in Nat /\ y <= l
    BY <1>1 DEF Text
  <1>3. p[y] = s[z + y]
    BY DEF Shows
  <1>4. y < a /\ p[y + 1] # ":"
    BY <1>1, <1>2, <1>3, NameBrackets
  <1>. HIDE DEF p, a, j
  <1>5. j \in (i + 1)..Len(s) /\ j = z + y
    BY <1>2 DEF j
  <1>6. Types(s, i) = IF j < Len(s) /\ s[j + 1] = ":" THEN {j} ELSE {}
    BY <1>5, TypesLemma
  <1>7. ASSUME j < Len(s) PROVE s[j + 1] # ":"
    <2>1. CASE y < l
      <3>1. y + 1 \in 1..l /\ z + (y + 1) = j + 1
        BY <1>2, <1>5, <2>1
      <3>2. s[z + (y + 1)] = p[y + 1]
        BY <3>1 DEF Shows, p
      <3>. QED BY <1>4, <3>1, <3>2
    <2>2. CASE ~(y < l)
      <3>1. y = l /\ z + l < Len(s)
        BY <1>2, <1>5, <1>7, <2>2
      <3>2. Shows(s, z, p, a)
        BY <3>1 DEF p, a
      <3>3. y + 1 \in 1..a /\ z + (y + 1) = j + 1
        BY <1>1, <1>2, <1>4, <1>5
      <3>4. s[z + (y + 1)] = p[y + 1]
        BY <3>2, <3>3 DEF Shows
      <3>. QED BY <1>4, <3>3, <3>4
    <2>. QED BY <2>1, <2>2
  <1>. QED BY <1>6, <1>7

(* A closing bracket behind a place: there is none, or a first one.        *)
LEMMA ClosingSearch ==
  ASSUME NEW s \in Text, NEW i \in Nat
  PROVE  \/ \A j \in (i + 1)..Len(s) : s[j] # "]"
         \/ \E j \in (i + 1)..Len(s) : s[j] = "]" /\ \A k \in (i + 1)..(j - 1) : s[k] # "]"
  <1>1. "]" \in Symbols
    BY Literals
  <1>2. PICK first \in Nat \ {0} : first = i + 1
    OBVIOUS
  <1>a. PICK x \in Symbols : x = "]"
    BY <1>1
  <1>b. \/ \A j \in first..Len(s) : s[j] # x
        \/ \E j \in first..Len(s) : s[j] = x /\ \A k \in first..(j - 1) : s[k] # x
    <2>1. \/ IndexFrom(s, <<x>>, first) = {} /\ \A i_1 \in first..Len(s) : s[i_1] # x
          \/ \E k \in first..Len(s) :
              /\ IndexFrom(s, <<x>>, first) = {k}
              /\ s[k] = x
              /\ \A i_1 \in first..(k - 1) : s[i_1] # x
      BY SymbolSearch, Zenon
    <2>2. CASE \A j \in first..Len(s) : s[j] # x
      BY <2>2
    <2>3. CASE \E j \in first..Len(s) : s[j] = x /\ \A k \in first..(j - 1) : s[k] # x
      BY <2>3
    <2>. QED BY <2>1, <2>2, <2>3, Zenon
  <1>3. \/ \A j \in first..Len(s) : s[j] # "]"
        \/ \E j \in first..Len(s) : s[j] = "]" /\ \A k \in first..(j - 1) : s[k] # "]"
    BY <1>a, <1>b
  <1>. QED BY <1>2, <1>3

(* A column that ends in its name is refused.                              *)
LEMMA NameCut ==
  ASSUME NEW s \in Text, NEW c \in Column, NEW z \in Nat, NEW start, Opens(s, start, z),
         NEW l \in 0..NameLen(c), Len(s) = z + l, Shows(s, z, PrintName(c.name), l)
  PROVE  ParseColumn(s, start) = {}
  <1>1. "[" \in Symbols /\ "]" \in Symbols
    BY Literals
  <1>2. start \in Nat \ {0} /\ \A i \in start..z : s[i] # "["
    BY DEF Opens
  <1>3. CASE IndexFrom(s, <<"[">>, start) = {}
    BY <1>3, ParseColumnLemma
  <1>4. ASSUME NEW k \in start..Len(s), IndexFrom(s, <<"[">>, start) = {k}, s[k] = "["
        PROVE  ParseColumn(s, start) = {}
    <2>1. ~(k \in start..z)
      BY <1>2, <1>4
    <2>2. k \in 1..Len(s) /\ z < k /\ Len(s) \in Nat /\ k + 1 \in Nat \ {0} /\ k \in Nat /\ l \in Nat
      <3>1. Len(s) \in Nat /\ NameLen(c) \in Nat
        BY CellLemma DEF CellShows, Text
      <3>2. start \in Nat \ {0}
        BY <1>2
      <3>. QED BY <2>1, <3>1, <3>2
    <2>3. Types(s, k) = {}
      <3>1. CASE \A j \in (k + 1)..Len(s) : s[j] # "]"
        BY <2>2, <3>1, NoTypes
      <3>2. ASSUME NEW j \in (k + 1)..Len(s), s[j] = "]", \A i \in (k + 1)..(j - 1) : s[i] # "]"
            PROVE  Types(s, k) = {}
        <4>1. PICK y : y = j - z
          OBVIOUS
        <4>2. y \in 1..l /\ z + y = j /\ k < z + y /\ z + l <= Len(s) /\ ~(z + l < Len(s))
          BY <2>2, <4>1
        <4>3. s[z + y] = "]" /\ \A i \in (k + 1)..(z + y - 1) : s[i] # "]"
          BY <3>2, <4>2
        <4>. QED BY <2>2, <4>2, <4>3, BracketInName
      <3>. QED BY <2>2, <3>1, <3>2, ClosingSearch
    <2>. QED BY <1>4, <2>3, ParseColumnLemma
  <1>. QED BY <1>1, <1>2, <1>3, <1>4, SymbolSearch

(* A text shows what precedes the value of a column.                       *)
HeadShows(s, z, c) ==
  /\ Shows(s, z, PrintName(c.name), NameLen(c))
  /\ s[z + NameLen(c) + 1] = "["
  /\ Shows(s, z + NameLen(c) + 1, PrintType(c.datum), Len(PrintType(c.datum)))
  /\ s[z + HeadLen(c) - 1] = "]"
  /\ s[z + HeadLen(c)] = ":"

(* The parts of a column up to its value.                                  *)
LEMMA HeadShown ==
  ASSUME NEW s, NEW c \in Column, NEW z \in Nat, Shows(s, z, PrintColumn(c), HeadLen(c))
  PROVE  HeadShows(s, z, c)
  <1>. DEFINE p == PrintColumn(c)
              a == NameLen(c)
              b == Len(PrintType(c.datum))
              h == HeadLen(c)
  <1>1. a \in Nat /\ b \in Nat /\ h = a + b + 3
    BY CellLemma DEF CellShows, HeadLen
  <1>2. /\ \A i \in 1..a : p[i] = PrintName(c.name)[i]
        /\ p[a + 1] = "["
        /\ \A i \in 1..b : p[a + 1 + i] = PrintType(c.datum)[i]
        /\ p[h - 1] = "]"
        /\ p[h] = ":"
    BY CellLemma DEF CellShows
  <1>3. \A i \in 1..h : s[z + i] = p[i]
    BY DEF Shows
  <1>. HIDE DEF p, a, b, h
  <1>4. \A i \in 1..a : i \in 1..h
    BY <1>1
  <1>5. a + 1 \in 1..h /\ h - 1 \in 1..h /\ h \in 1..h /\ z + (a + 1) = z + a + 1 /\ z + (h - 1) = z + h - 1
    BY <1>1
  <1>6. \A i \in 1..b : a + 1 + i \in 1..h /\ z + a + 1 + i = z + (a + 1 + i)
    BY <1>1
  <1>7. \A i \in 1..a : s[z + i] = PrintName(c.name)[i]
    BY <1>2, <1>3, <1>4
  <1>8. s[z + a + 1] = "[" /\ s[z + h - 1] = "]" /\ s[z + h] = ":"
    BY <1>2, <1>3, <1>5, Zenon
  <1>9. \A i \in 1..b : s[z + a + 1 + i] = PrintType(c.datum)[i]
    BY <1>2, <1>3, <1>6
  <1>. QED BY <1>7, <1>8, <1>9, Zenon DEF HeadShows, Shows, a, b, h

(* The opening bracket that is found, in the name or behind it, and the    *)
(* first closing one after it.                                             *)
LEMMA HeadFound ==
  ASSUME NEW s \in Text, NEW c \in Column, NEW z \in Nat, NEW start, Opens(s, start, z),
         HeadShows(s, z, c), z + HeadLen(c) <= Len(s)
  PROVE  \E k \in (z + 1)..(z + NameLen(c) + 1), j \in (z + 2)..(z + HeadLen(c) - 1) :
           /\ IndexFrom(s, <<"[">>, start) = {k} /\ s[k] = "[" /\ (\A i \in start..(k - 1) : s[i] # "[")
           /\ k < j /\ s[j] = "]" /\ (\A i \in (k + 1)..(j - 1) : s[i] # "]")
  <1>. DEFINE a == NameLen(c)
              b == Len(PrintType(c.datum))
              h == HeadLen(c)
  <1>1. a \in Nat /\ b \in Nat /\ h = a + b + 3
    BY CellLemma DEF CellShows, HeadLen
  <1>2. s[z + a + 1] = "[" /\ s[z + h - 1] = "]"
    BY DEF HeadShows
  <1>3. "[" \in Symbols /\ "]" \in Symbols
    BY Literals
  <1>4. start \in Nat \ {0} /\ start <= z + 1 /\ Len(s) \in Nat
    BY DEF Opens, Text
  <1>5. \A i \in start..z : s[i] # "["
    BY DEF Opens
  <1>a. z + h <= Len(s)
    OBVIOUS
  <1>. HIDE DEF a, b, h
  <1>6. z + a + 1 \in start..Len(s)
    BY <1>1, <1>4, <1>a
  <1>7. PICK k \in start..Len(s) : IndexFrom(s, <<"[">>, start) = {k} /\ s[k] = "[" /\ \A i \in start..(k - 1) : s[i] # "["
    BY <1>2, <1>3, <1>4, <1>6, SymbolSearch
  <1>8. ~(k \in start..z) /\ ~(z + a + 1 \in start..(k - 1))
    BY <1>2, <1>5, <1>7
  <1>9. k \in (z + 1)..(z + a + 1) /\ k + 1 \in Nat \ {0} /\ k \in Nat
    BY <1>1, <1>4, <1>6, <1>8
  <1>10. z + h - 1 \in (k + 1)..Len(s)
    BY <1>1, <1>9, <1>a
  <1>11. PICK j \in (k + 1)..Len(s) : s[j] = "]" /\ \A i \in (k + 1)..(j - 1) : s[i] # "]"
    BY <1>2, <1>9, <1>10, ClosingSearch
  <1>12. ~(z + h - 1 \in (k + 1)..(j - 1))
    BY <1>2, <1>11
  <1>13. j \in (z + 2)..(z + h - 1) /\ k < j
    BY <1>1, <1>4, <1>9, <1>10, <1>12
  <1>. QED BY <1>7, <1>9, <1>11, <1>13 DEF a, h

(* An array's type or a name with brackets is refused.                     *)
Bracketing(c) == c.datum.type = "integer[]" \/ Bracketed(c.name)

(* parseColumn refuses a type or a name with brackets of its own.          *)
LEMMA HeadFails ==
  ASSUME NEW s \in Text, NEW c \in Column, NEW z \in Nat, NEW start, Opens(s, start, z),
         HeadShows(s, z, c), z + HeadLen(c) <= Len(s), Bracketing(c)
  PROVE  ParseColumn(s, start) = {}
  <1>. DEFINE p == PrintName(c.name)
              t == PrintType(c.datum)
              a == NameLen(c)
              b == Len(t)
              h == HeadLen(c)
  <1>1. a \in Nat /\ b \in Nat /\ h = a + b + 3 /\ a = Len(p)
    BY CellLemma DEF CellShows, HeadLen, NameLen
  <1>2. s[z + h - 1] = "]"
    BY DEF HeadShows
  <1>3. /\ \A i \in 1..a : s[z + i] = p[i]
        /\ \A i \in 1..b : s[z + a + 1 + i] = t[i]
        /\ s[z + a + 1] = "["
    BY DEF HeadShows, Shows
  <1>4. Len(s) \in Nat /\ start <= z + 1 /\ start \in Nat /\ z + h <= Len(s)
    BY DEF Opens, Text
  <1>5. PICK k \in (z + 1)..(z + a + 1), j \in (z + 2)..(z + h - 1) :
           /\ IndexFrom(s, <<"[">>, start) = {k} /\ s[k] = "[" /\ (\A i \in start..(k - 1) : s[i] # "[")
           /\ k < j /\ s[j] = "]" /\ (\A i \in (k + 1)..(j - 1) : s[i] # "]")
    BY HeadFound
  <1>6. c.name \in Names /\ c.datum \in Datums
    BY DEF Column
  <1>7. Shows(s, z, p, a)
    BY DEF HeadShows
  <1>. HIDE DEF p, t, a, b, h
  <1>8. k \in 1..Len(s) /\ j \in (k + 1)..Len(s) /\ k \in Nat /\ j \in Nat /\ z < k /\ k <= z + a + 1 /\ j <= z + h - 1
    BY <1>1, <1>4, <1>5
  <1>9. Types(s, k) = {}
    <2>1. CASE j <= z + a
      <3>1. PICK y : y = j - z
        OBVIOUS
      <3>2. y \in 1..a /\ z + y = j /\ a \in 0..a /\ z + a <= Len(s)
        BY <1>1, <1>4, <1>8, <2>1, <3>1
      <3>3. k < z + y /\ s[z + y] = "]" /\ \A i \in (k + 1)..(z + y - 1) : s[i] # "]"
        BY <1>5, <3>2
      <3>. QED BY <1>7, <1>8, <3>2, <3>3, BracketInName DEF a, p
    <2>2. CASE ~(j <= z + a) /\ Bracketed(c.name)
      <3>1. PICK x \in 1..a, y \in 1..a : x < y /\ p[x] = "[" /\ p[y] = "]"
        BY <1>1, <1>6, <2>2, NameBrackets DEF p
      <3>2. s[z + x] = "[" /\ s[z + y] = "]"
        BY <1>3, <3>1
      <3>3. ~(z + x \in start..(k - 1)) /\ ~(z + y \in (k + 1)..(j - 1))
        BY <1>5, <3>2
      <3>4. x \in Nat /\ y \in Nat /\ 1 <= x /\ x < y /\ y <= a
        BY <1>1, <3>1
      <3>5. ~(j <= z + a)
        BY <2>2
      <3>. QED BY <1>1, <1>4, <1>8, <3>3, <3>4, <3>5
    <2>3. CASE ~(j <= z + a) /\ c.datum.type = "integer[]"
      <3>1. b = 3 /\ t[1] = "integer" /\ t[2] = "[" /\ t[3] = "]"
        BY <1>6, <2>3, PrintTypeLemma DEF b, t
      <3>a. b = 3
        BY <3>1
      <3>2. 1 \in 1..b /\ 2 \in 1..b /\ 3 \in 1..b
        BY <3>a
      <3>3. s[z + a + 1 + 1] = "integer" /\ s[z + a + 1 + 2] = "[" /\ s[z + a + 1 + 3] = "]"
        BY <1>3, <3>1, <3>2
      <3>4. ~(z + a + 1 + 3 \in (k + 1)..(j - 1))
        BY <1>5, <3>3
      <3>5. j # z + a + 1 /\ j # z + a + 1 + 1 /\ j # z + a + 1 + 2
        BY <1>3, <1>5, <3>3
      <3>b. ~(j <= z + a)
        BY <2>3
      <3>6. j = z + a + 1 + 3 /\ j + 1 = z + h - 1
        BY <1>1, <1>8, <3>a, <3>4, <3>5, <3>b
      <3>7. s[j + 1] # ":"
        BY <1>2, <3>6
      <3>8. Types(s, k) = IF j < Len(s) /\ s[j + 1] = ":" THEN {j} ELSE {}
        BY <1>5, <1>8, TypesLemma
      <3>. QED BY <3>7, <3>8
    <2>. QED BY <2>1, <2>2, <2>3 DEF Bracketing
  <1>. QED BY <1>5, <1>9, ParseColumnLemma

(* And finds the brackets of the type in every other column.               *)
LEMMA HeadReads ==
  ASSUME NEW s \in Text, NEW c \in Column, NEW z \in Nat, NEW start, Opens(s, start, z),
         HeadShows(s, z, c), z + HeadLen(c) <= Len(s), ~Bracketing(c)
  PROVE  \E k \in (z + 1)..(z + NameLen(c) + 1) :
           /\ ParseColumn(s, start) = ColumnsAt(s, start, k, z + HeadLen(c) - 1)
           /\ s[k] = "[" /\ \A i \in start..(k - 1) : s[i] # "["
  <1>. DEFINE p == PrintName(c.name)
              t == PrintType(c.datum)
              a == NameLen(c)
              b == Len(t)
              h == HeadLen(c)
  <1>1. a \in Nat /\ b \in Nat /\ h = a + b + 3 /\ a = Len(p)
    BY CellLemma DEF CellShows, HeadLen, NameLen
  <1>2. s[z + h - 1] = "]" /\ s[z + h] = ":"
    BY DEF HeadShows
  <1>3. /\ \A i \in 1..a : s[z + i] = p[i]
        /\ \A i \in 1..b : s[z + a + 1 + i] = t[i]
        /\ s[z + a + 1] = "["
    BY DEF HeadShows, Shows
  <1>4. Len(s) \in Nat /\ start <= z + 1 /\ start \in Nat /\ z + h <= Len(s)
    BY DEF Opens, Text
  <1>5. PICK k \in (z + 1)..(z + a + 1), j \in (z + 2)..(z + h - 1) :
           /\ IndexFrom(s, <<"[">>, start) = {k} /\ s[k] = "[" /\ (\A i \in start..(k - 1) : s[i] # "[")
           /\ k < j /\ s[j] = "]" /\ (\A i \in (k + 1)..(j - 1) : s[i] # "]")
    BY HeadFound
  <1>6. c.name \in Names /\ c.datum \in Datums
    BY DEF Column
  <1>7. b = 1 /\ t[1] \in Bare \cup {"bit", "text"}
    BY <1>6, PrintTypeLemma DEF b, t, Bracketing
  <1>a. b = 1
    BY <1>7
  <1>. HIDE DEF p, t, a, b, h
  <1>8. k \in 1..Len(s) /\ j \in (k + 1)..Len(s) /\ k \in Nat /\ j \in Nat /\ z < k /\ k <= z + a + 1 /\ j <= z + h - 1
    BY <1>1, <1>4, <1>5
  <1>9. ~(j <= z + a)
    <2>. SUFFICES ASSUME j <= z + a PROVE FALSE
      OBVIOUS
    <2>1. PICK x, y : x = k - z /\ y = j - z
      OBVIOUS
    <2>2. x \in 1..a /\ y \in 1..a /\ x < y /\ z + x = k /\ z + y = j
      BY <1>1, <1>8, <2>1
    <2>3. p[x] = "[" /\ p[y] = "]"
      BY <1>3, <1>5, <2>2
    <2>. QED BY <1>1, <1>6, <2>2, <2>3, NameBrackets DEF p, Bracketing
  <1>10. j # z + a + 1
    BY <1>3, <1>5
  <1>11. j # z + a + 1 + 1
    <2>1. 1 \in 1..b
      BY <1>a
    <2>2. t[1] # "]"
      BY <1>7 DEF Bare
    <2>. QED BY <1>3, <1>5, <2>1, <2>2
  <1>12. j = z + h - 1 /\ j + 1 = z + h /\ j < Len(s)
    BY <1>1, <1>4, <1>8, <1>9, <1>10, <1>11, <1>a
  <1>13. Types(s, k) = {j}
    <2>1. Types(s, k) = IF j < Len(s) /\ s[j + 1] = ":" THEN {j} ELSE {}
      BY <1>5, <1>8, TypesLemma
    <2>. QED BY <1>2, <1>12, <2>1
  <1>14. ParseColumn(s, start) = ColumnsAt(s, start, k, j)
    BY <1>5, <1>13, ParseColumnLemma
  <1>. QED BY <1>5, <1>12, <1>14 DEF a, h

(* The name that is read denotes the column's in SQL if it is plain.       *)
NameRead(name, n) == name \in Text /\ (IdentNames(QuoteIdent(name), n) <=> Plain(n))

(* The quotes of a name are taken for part of it.                          *)
LEMMA QuotedNameRead ==
  ASSUME NEW n \in Idents
  PROVE  NameRead(PrintName(n), n)
  <1>. DEFINE p == PrintName(n)
  <1>1. n \in Text /\ p \in Text /\ DOMAIN n = 1..Len(n) /\ DOMAIN p = 1..Len(p) /\ Len(p) \in Nat /\ Len(p) >= 1
    BY NameFacts, PrintNameLemma, LenProperties DEF Text
  <1>2. CASE Plain(n)
    <2>1. p = n
      BY <1>2, PrintNameLemma
    <2>2. \A i \in DOMAIN n : n[i] \in Letters
      BY <1>2 DEF Plain, Letters
    <2>3. QuoteIdent(n) = n
      BY <2>2 DEF QuoteIdent
    <2>4. IdentNames(n, n)
      BY <1>2 DEF IdentNames
    <2>. QED BY <1>1, <1>2, <2>1, <2>3, <2>4 DEF NameRead
  <1>3. CASE ~Plain(n)
    <2>0. PICK q \in Symbols : q = "\""
      BY Literals
    <2>1. p = Quoted(n, q) /\ p[1] = q
      BY <1>3, <2>0, PrintNameLemma
    <2>2. q \notin Letters
      BY <2>0 DEF Letters, Safe
    <2>3. QuoteIdent(p) = Quoted(p, q)
      <3>1. 1 \in DOMAIN p
        BY <1>1
      <3>. QED BY <2>0, <2>1, <2>2, <3>1 DEF QuoteIdent
    <2>. HIDE DEF p
    <2>4. Quoted(p, q) # p
      <3>1. Len(Quoted(p, q)) >= Len(p) + 2
        BY <1>1, QuotedLonger
      <3>. QED BY <1>1, <3>1
    <2>5. ~IdentNames(Quoted(p, q), n)
      BY <1>3, <2>0, <2>1, <2>4 DEF IdentNames
    <2>6. NameRead(p, n)
      BY <1>1, <1>3, <2>3, <2>5 DEF NameRead
    <2>. QED BY <2>6 DEF p
  <1>. QED BY <1>2, <1>3

(* Also when a bracket in the name is taken for that of the type.          *)
LEMMA ShortNameRead ==
  ASSUME NEW s \in Text, NEW c \in Column, NEW z \in Nat, Shows(s, z, PrintName(c.name), NameLen(c)),
         z + NameLen(c) + 1 <= Len(s), s[z + NameLen(c) + 1] = "[",
         NEW k \in (z + 1)..(z + NameLen(c) + 1), s[k] = "[", \A i \in (z + 1)..(k - 1) : s[i] # "["
  PROVE  NameRead(SubSeq(s, z + 1, k - 1), c.name)
  <1>. DEFINE n == c.name
              p == PrintName(n)
              a == NameLen(c)
              nm == SubSeq(s, z + 1, k - 1)
  <1>1. n \in Names /\ n \in Text /\ p \in Text /\ a = Len(p) /\ a \in Nat /\ Len(s) \in Nat
    <2>1. n \in Names
      BY DEF Column
    <2>2. Len(s) \in Nat
      BY DEF Text
    <2>. QED BY <2>1, <2>2, NameFacts, PrintNameLemma DEF NameLen, Idents
  <1>2. \A i \in 1..a : s[z + i] = p[i]
    BY DEF Shows
  <1>a. z + a + 1 <= Len(s)
    OBVIOUS
  <1>b. k \in (z + 1)..(z + a + 1)
    OBVIOUS
  <1>. HIDE DEF n, p, a
  <1>3. /\ nm \in Text /\ Len(nm) = k - 1 - z
        /\ \A i \in 1..(k - 1 - z) : nm[i] = s[z + i]
    <2>1. \A i \in (z + 1)..(k - 1) : s[i] \in Symbols
      BY <1>1, <1>a, <1>b DEF Text
    <2>2. z + 1 \in Int /\ k - 1 \in Int
      BY <1>1, <1>b
    <2>3. /\ nm \in Text
          /\ Len(nm) = IF z + 1 <= k - 1 THEN k - 1 - (z + 1) + 1 ELSE 0
          /\ \A i \in 1..(k - 1 - (z + 1) + 1) : nm[i] = s[z + 1 + i - 1]
      BY <2>1, <2>2, SubSeqProperties DEF Text
    <2>4. k - 1 - (z + 1) + 1 = k - 1 - z /\ (~(z + 1 <= k - 1) => k - 1 - z = 0)
      BY <1>1, <1>b
    <2>5. ASSUME NEW i \in 1..(k - 1 - z) PROVE nm[i] = s[z + i]
      <3>1. z + 1 + i - 1 = z + i /\ i \in 1..(k - 1 - (z + 1) + 1)
        BY <1>1, <1>b, <2>4
      <3>. QED BY <2>3, <3>1
    <2>. QED BY <2>3, <2>4, <2>5
  <1>. HIDE DEF nm
  <1>4. CASE k = z + a + 1
    <2>1. k - 1 - z = a
      BY <1>1, <1>4
    <2>2. Len(nm) = Len(p) /\ \A i \in 1..Len(nm) : nm[i] = p[i]
      BY <1>1, <1>2, <1>3, <2>1
    <2>3. nm = p
      BY <1>1, <1>3, <2>2, SeqEqual DEF Text
    <2>. QED BY <1>1, <2>3, QuotedNameRead DEF n, p, nm, Idents
  <1>5. CASE k # z + a + 1
    <2>1. PICK x : x = k - z
      OBVIOUS
    <2>2. x \in 1..a /\ z + x = k /\ k - 1 - z < a
      BY <1>1, <1>5, <1>b, <2>1
    <2>3. p[x] = "["
      BY <1>2, <2>2
    <2>4. ~Plain(n)
      BY <1>1, <2>2, <2>3, NameBrackets DEF p
    <2>5. PICK q \in Symbols : q = "\""
      BY Literals
    <2>6. p = Quoted(n, q)
      BY <1>1, <2>4, <2>5, PrintNameLemma DEF p, Idents
    <2>7. "[" \in Symbols /\ "[" # q
      BY <2>5, Literals
    <2>8. nm # p
      BY <1>1, <1>3, <2>2
    <2>9. Quoted(nm, q) # p
      <3>1. ~\E i \in 1..Len(nm) : nm[i] = "["
        <4>. SUFFICES ASSUME NEW i \in 1..Len(nm) PROVE nm[i] # "["
          OBVIOUS
        <4>1. i \in 1..(k - 1 - z) /\ z + i \in (z + 1)..(k - 1)
          BY <1>1, <1>3, <1>b
        <4>. QED BY <1>3, <4>1
      <3>2. ~\E i \in 1..Len(Quoted(nm, q)) : Quoted(nm, q)[i] = "["
        BY <1>3, <2>7, <3>1, QuotedHas
      <3>3. \E i \in 1..Len(p) : p[i] = "["
        BY <1>1, <2>2, <2>3
      <3>. QED BY <3>2, <3>3
    <2>10. QuoteIdent(nm) \in {nm, Quoted(nm, q)}
      BY <2>5 DEF QuoteIdent
    <2>11. ~IdentNames(QuoteIdent(nm), n)
      BY <2>4, <2>5, <2>6, <2>8, <2>9, <2>10 DEF IdentNames
    <2>. QED BY <1>3, <2>4, <2>11 DEF NameRead, n, nm
  <1>. QED BY <1>4, <1>5

(* A whole column, and one that is cut off at a blank or a line break.     *)
Parsed == [name : Text, type : Text, value : GoValue]

(* A name and a value are read back, unless they are misread.              *)
ColumnRead(r, c) == NameRead(r.name, c.name) /\ DatumRead(r.value, c.datum)

(* How long a column is.                                                   *)
LEMMA CellParts ==
  ASSUME NEW c \in Column
  PROVE  /\ NameLen(c) \in Nat /\ HeadLen(c) \in Nat /\ CellLen(c) \in Nat
         /\ NameLen(c) >= 1 /\ NameLen(c) + 4 <= HeadLen(c) /\ HeadLen(c) + 1 <= CellLen(c)
         /\ CellLen(c) = HeadLen(c) + Len(PrintDatum(c.datum))
         /\ c.name \in Names /\ c.datum \in Datums
         /\ Len(PrintDatum(c.datum)) \in Nat
  <1>1. c.name \in Names /\ c.datum \in Datums
    BY DEF Column
  <1>2. NameLen(c) \in Nat /\ NameLen(c) >= 1
    BY <1>1, PrintNameLemma DEF NameLen, Idents
  <1>3. Len(PrintType(c.datum)) = 1 \/ Len(PrintType(c.datum)) = 3
    BY <1>1, PrintTypeLemma
  <1>4. Len(PrintDatum(c.datum)) \in Nat /\ Len(PrintDatum(c.datum)) >= 1
    BY <1>1, PrintDatumLemma
  <1>5. HeadLen(c) = NameLen(c) + Len(PrintType(c.datum)) + 3 /\ CellLen(c) = HeadLen(c) + Len(PrintDatum(c.datum))
    BY DEF HeadLen, CellLen
  <1>6. /\ HeadLen(c) \in Nat /\ CellLen(c) \in Nat
        /\ NameLen(c) + 4 <= HeadLen(c) /\ HeadLen(c) + 1 <= CellLen(c)
    <2>1. PICK a, y, l : a = NameLen(c) /\ y = Len(PrintType(c.datum)) /\ l = Len(PrintDatum(c.datum))
      OBVIOUS
    <2>2. a \in Nat /\ a >= 1 /\ l \in Nat /\ l >= 1
      BY <1>2, <1>4, <2>1
    <2>4. y \in Nat /\ y >= 1
      <3>1. y = 1 \/ y = 3
        BY <1>3, <2>1, Zenon
      <3>. QED BY <3>1
    <2>3. HeadLen(c) = a + y + 3 /\ CellLen(c) = HeadLen(c) + l
      BY <1>5, <2>1
    <2>. QED BY <2>1, <2>2, <2>3, <2>4
  <1>. QED BY <1>1, <1>2, <1>4, <1>5, <1>6

(* The value of a column that is shown.                                    *)
LEMMA DatumShown ==
  ASSUME NEW s, NEW c \in Column, NEW z \in Nat, NEW l \in Nat, l <= Len(PrintDatum(c.datum)),
         Shows(s, z, PrintColumn(c), HeadLen(c) + l)
  PROVE  Shows(s, z + HeadLen(c), PrintDatum(c.datum), l)
  <1>. DEFINE h == HeadLen(c)
              p == PrintColumn(c)
  <1>. SUFFICES ASSUME NEW i \in 1..l PROVE s[z + h + i] = PrintDatum(c.datum)[i]
    BY DEF Shows
  <1>1. h \in Nat /\ Len(PrintDatum(c.datum)) \in Nat
    BY CellParts
  <1>2. \A x \in 1..Len(PrintDatum(c.datum)) : p[h + x] = PrintDatum(c.datum)[x]
    BY CellLemma DEF CellShows
  <1>3. \A x \in 1..(h + l) : s[z + x] = p[x]
    BY DEF Shows
  <1>. HIDE DEF h, p
  <1>4. i \in 1..Len(PrintDatum(c.datum)) /\ h + i \in 1..(h + l) /\ z + (h + i) = z + h + i
    BY <1>1
  <1>. QED BY <1>2, <1>3, <1>4

(* Of what is shown, less is shown too.                                    *)
LEMMA ShowsLess ==
  ASSUME NEW s, NEW z, NEW p, NEW l \in Int, NEW m \in Int, l <= m, Shows(s, z, p, m)
  PROVE  Shows(s, z, p, l)
  <1>1. \A i \in 1..l : i \in 1..m
    OBVIOUS
  <1>. QED BY <1>1 DEF Shows

(* What parseColumn returns.                                               *)
ReadColumn(name, type, value, next) ==
  {[column |-> [ name |-> name, type |-> type, value |-> value ], next |-> next]}

(* One column at the places of its brackets.                               *)
LEMMA ColumnsAtOne ==
  ASSUME NEW s, NEW start, NEW i \in Int, NEW j \in Int, NEW y \in Int, NEW e \in Int, NEW v, NEW next,
         y = j + 2, e = j - 1, ParseValue(s, y) = Read(v, next)
  PROVE  ColumnsAt(s, start, i, j) = ReadColumn(SubSeq(s, start, i - 1), SubSeq(s, i + 1, e), v, next)
  <1>. DEFINE u == [value |-> v, next |-> next]
              f(w) == [ column |-> [ name |-> SubSeq(s, start, i - 1), type |-> SubSeq(s, i + 1, e),
                                     value |-> w.value ],
                        next |-> w.next ]
  <1>1. u.value = v /\ u.next = next
    OBVIOUS
  <1>2. ColumnsAt(s, start, i, j) = {f(w) : w \in {u}}
    BY DEF ColumnsAt, Read
  <1>3. ReadColumn(SubSeq(s, start, i - 1), SubSeq(s, i + 1, e), v, next) = {f(u)}
    BY <1>1 DEF ReadColumn
  <1>. HIDE DEF u, f
  <1>4. {f(w) : w \in {u}} = {f(u)}
    OBVIOUS
  <1>. QED BY <1>2, <1>3, <1>4, Zenon

(* parseColumn on a column that is there from its first symbol to its      *)
(* last: it is refused for its brackets, or read for what it is.           *)
LEMMA ColumnWhole ==
  ASSUME NEW s \in Text, NEW c \in Column, NEW z \in Nat, NEW start, Opens(s, start, z),
         Shows(s, z, PrintColumn(c), CellLen(c)), Ended(s, z + CellLen(c))
  PROVE  /\ Bracketing(c) => ParseColumn(s, start) = {}
         /\ ~Bracketing(c) =>
              \E r \in Parsed : /\ ParseColumn(s, start) = {[column |-> r, next |-> z + CellLen(c) + 1]}
                                /\ start = z + 1 => ColumnRead(r, c)
  <1>1. /\ NameLen(c) \in Nat /\ HeadLen(c) \in Nat /\ CellLen(c) \in Nat
        /\ NameLen(c) + 4 <= HeadLen(c) /\ HeadLen(c) + 1 <= CellLen(c)
        /\ CellLen(c) = HeadLen(c) + Len(PrintDatum(c.datum))
        /\ Len(PrintDatum(c.datum)) \in Nat /\ Len(s) \in Nat
    BY CellParts DEF Text
  <1>2. c.datum \in Datums
    BY CellParts
  <1>3. z + CellLen(c) <= Len(s)
    BY DEF Ended
  <1>4. HeadShows(s, z, c) /\ z + HeadLen(c) <= Len(s)
    BY <1>1, <1>3, HeadShown, ShowsLess
  <1>5. CASE Bracketing(c)
    BY <1>4, <1>5, HeadFails
  <1>6. CASE ~Bracketing(c)
    <2>1. PICK k \in (z + 1)..(z + NameLen(c) + 1) :
            /\ ParseColumn(s, start) = ColumnsAt(s, start, k, z + HeadLen(c) - 1)
            /\ s[k] = "[" /\ \A i \in start..(k - 1) : s[i] # "["
      BY <1>4, <1>6, HeadReads
    <2>. DEFINE d == PrintDatum(c.datum)
                e == z + HeadLen(c)
    <2>2. e \in Nat /\ Len(d) \in Nat /\ HeadLen(c) \in Nat /\ CellLen(c) \in Nat /\ e + Len(d) = z + CellLen(c)
      BY <1>1
    <2>3. Shows(s, e, d, Len(d))
      BY <1>1, DatumShown
    <2>4. Ended(s, e + Len(d))
      BY <2>2
    <2>5. PICK v : ParseValue(s, e + 1) = {[value |-> v, next |-> e + Len(d) + 1]} /\ DatumRead(v, c.datum)
      BY <1>2, <2>2, <2>3, <2>4, ValueWhole
    <2>. HIDE DEF d
    <2>b. start \in Nat /\ start >= 1 /\ k - 1 <= Len(s) /\ e - 2 <= Len(s) /\ k \in Nat /\ k + 1 >= 1
      <3>1. start \in Nat /\ start >= 1
        BY DEF Opens
      <3>2. e <= Len(s)
        BY <1>4
      <3>3. NameLen(c) \in Nat /\ NameLen(c) + 4 <= HeadLen(c) /\ Len(s) \in Nat
        BY <1>1
      <3>. QED BY <2>2, <3>1, <3>2, <3>3
    <2>. DEFINE nm == SubSeq(s, start, k - 1)
                tp == SubSeq(s, k + 1, e - 2)
    <2>a. ParseColumn(s, start) = ReadColumn(nm, tp, v, z + CellLen(c) + 1)
      <3>1. PICK j, n : j = z + HeadLen(c) - 1 /\ n = z + CellLen(c) + 1
        OBVIOUS
      <3>2. e + 1 = j + 2 /\ e - 2 = j - 1 /\ e + Len(d) + 1 = n
        BY <2>2, <3>1
      <3>3. ParseValue(s, e + 1) = Read(v, n)
        BY <2>5, <3>2, Zenon DEF Read
      <3>4. ColumnsAt(s, start, k, j) = ReadColumn(nm, tp, v, n)
        <4>1. PICK x, y : x = e - 2 /\ y = e + 1
          OBVIOUS
        <4>2. y = j + 2 /\ x = j - 1
          BY <3>2, <4>1
        <4>3. ParseValue(s, y) = Read(v, n)
          BY <3>3, <4>1
        <4>4. ColumnsAt(s, start, k, j) = ReadColumn(nm, SubSeq(s, k + 1, x), v, n)
          <5>1. k \in Int /\ j \in Int /\ y \in Int /\ x \in Int
            <6>1. k \in Int
              BY <2>b
            <6>2. HeadLen(c) \in Nat
              BY <2>2
            <6>3. j \in Int
              BY <3>1, <6>2
            <6>4. y \in Int /\ x \in Int
              BY <4>1, <6>2
            <6>. QED BY <6>1, <6>3, <6>4
          <5>. QED BY <4>2, <4>3, <5>1, ColumnsAtOne
        <4>. QED BY <4>1, <4>4, Zenon
      <3>5. ParseColumn(s, start) = ColumnsAt(s, start, k, j)
        BY <2>1, <3>1
      <3>. QED BY <3>1, <3>4, <3>5, Zenon
    <2>. DEFINE r == [ name |-> nm, type |-> tp, value |-> v ]
    <2>6. ParseColumn(s, start) = {[column |-> r, next |-> z + CellLen(c) + 1]}
      BY <2>a DEF ReadColumn
    <2>7. r \in Parsed
      <3>1. start \in Nat /\ start >= 1 /\ k - 1 <= Len(s) /\ e - 2 <= Len(s) /\ k \in Nat /\ k + 1 >= 1
        BY <2>b
      <3>2. SubSeq(s, start, k - 1) \in Text /\ SubSeq(s, k + 1, e - 2) \in Text
        <4>1. \A i \in start..(k - 1) : s[i] \in Symbols
          <5>1. \A i \in start..(k - 1) : i \in 1..Len(s)
            <6>1. k - 1 <= Len(s) /\ k \in Nat /\ start \in Nat /\ start >= 1 /\ Len(s) \in Nat
              BY <1>1, <2>2, <3>1
            <6>. QED BY <6>1
          <5>2. \A i \in 1..Len(s) : s[i] \in Symbols
            BY DEF Text
          <5>. QED BY <5>1, <5>2
        <4>2. \A i \in (k + 1)..(e - 2) : s[i] \in Symbols
          <5>1. \A i \in (k + 1)..(e - 2) : i \in 1..Len(s)
            <6>1. e - 2 <= Len(s) /\ k \in Nat /\ e \in Nat /\ Len(s) \in Nat
              BY <1>1, <2>2, <3>1
            <6>. QED BY <6>1
          <5>2. \A i \in 1..Len(s) : s[i] \in Symbols
            BY DEF Text
          <5>. QED BY <5>1, <5>2
        <4>3. start \in Int /\ k - 1 \in Int /\ k + 1 \in Int /\ e - 2 \in Int
          BY <2>2, <3>1
        <4>. QED BY <4>1, <4>2, <4>3, SubSeqProperties DEF Text
      <3>. QED BY <2>5, <3>2 DEF Parsed, DatumRead
    <2>8. ASSUME start = z + 1 PROVE ColumnRead(r, c)
      <3>1. NameRead(SubSeq(s, z + 1, k - 1), c.name)
        <4>1. Shows(s, z, PrintName(c.name), NameLen(c)) /\ s[z + NameLen(c) + 1] = "["
          BY <1>4 DEF HeadShows
        <4>2. z + NameLen(c) + 1 <= Len(s)
          BY <1>1, <1>4
        <4>. QED BY <2>1, <2>8, <4>1, <4>2, ShortNameRead
      <3>. QED BY <2>5, <2>8, <3>1 DEF ColumnRead
    <2>. QED BY <1>6, <2>6, <2>7, <2>8
  <1>. QED BY <1>5, <1>6

(* Where a column may be cut: at a blank or a line break inside it.        *)
Breaks(p, x) == p[x] \in {" ", "\n"}

(* parseColumn on the last column of a text, cut at a blank or a line      *)
(* break: it is refused.                                                   *)
LEMMA ColumnCut ==
  ASSUME NEW s \in Text, NEW c \in Column, NEW z \in Nat, NEW start, Opens(s, start, z),
         NEW x \in 1..CellLen(c), Breaks(PrintColumn(c), x),
         Len(s) = z + x - 1, Shows(s, z, PrintColumn(c), x - 1)
  PROVE  ParseColumn(s, start) = {}
  <1>. DEFINE p == PrintColumn(c)
              a == NameLen(c)
              h == HeadLen(c)
              t == PrintType(c.datum)
              d == PrintDatum(c.datum)
  <1>1. /\ a \in Nat /\ h \in Nat /\ CellLen(c) \in Nat
        /\ a + 4 <= h /\ CellLen(c) = h + Len(d) /\ Len(d) \in Nat /\ Len(s) \in Nat
    BY CellParts DEF Text
  <1>2. c.datum \in Datums /\ h = a + Len(t) + 3
    BY CellParts DEF HeadLen
  <1>3. /\ \A i \in 1..a : p[i] = PrintName(c.name)[i]
        /\ p[a + 1] = "["
        /\ \A i \in 1..Len(t) : p[a + 1 + i] = t[i]
        /\ p[h - 1] = "]"
        /\ p[h] = ":"
        /\ \A i \in 1..Len(d) : p[h + i] = d[i]
    BY CellLemma DEF CellShows
  <1>4. \A i \in 1..Len(t) : t[i] # " " /\ t[i] # "\n"
    <2>1. CASE c.datum.type = "integer[]"
      <3>1. Len(t) = 3 /\ t[1] = "integer" /\ t[2] = "[" /\ t[3] = "]"
        BY <1>2, <2>1, PrintTypeLemma
      <3>2. \A i \in 1..3 : i = 1 \/ i = 2 \/ i = 3
        OBVIOUS
      <3>. QED BY <3>1, <3>2
    <2>2. CASE c.datum.type # "integer[]"
      <3>1. Len(t) = 1 /\ t[1] \in Bare \cup {"bit", "text"}
        BY <1>2, <2>2, PrintTypeLemma
      <3>2. \A i \in 1..1 : i = 1
        OBVIOUS
      <3>. QED BY <3>1, <3>2 DEF Bare
    <2>. QED BY <2>1, <2>2
  <1>a. p[x] = " " \/ p[x] = "\n"
    BY DEF Breaks
  <1>l. Len(t) \in Nat
    BY <1>2, PrintTypeLemma
  <1>b. x \in Nat /\ 1 <= x /\ x <= CellLen(c) /\ Len(s) = z + x - 1 /\ Len(t) \in Nat /\ h = a + Len(t) + 3
    BY <1>1, <1>2, <1>l
  <1>c. Shows(s, z, p, x - 1)
    OBVIOUS
  <1>. HIDE DEF p, a, h, t, d
  <1>5. x <= a \/ x >= h + 1
    <2>. SUFFICES ASSUME ~(x <= a), ~(x >= h + 1) PROVE FALSE
      OBVIOUS
    <2>1. x # a + 1 /\ x # h - 1 /\ x # h
      <3>1. p[a + 1] = "[" /\ p[h - 1] = "]" /\ p[h] = ":"
        BY <1>3
      <3>. QED BY <3>1, <1>a
    <2>2. PICK i : i = x - a - 1
      OBVIOUS
    <2>3. i \in 1..Len(t) /\ a + 1 + i = x
      BY <1>1, <1>b, <2>1, <2>2
    <2>. QED BY <1>3, <1>4, <1>a, <2>3
  <1>6. CASE x <= a
    <2>1. PICK l : l = x - 1
      OBVIOUS
    <2>2. l \in 0..a /\ Len(s) = z + l
      BY <1>1, <1>6, <1>b, <2>1
    <2>3. Shows(s, z, PrintName(c.name), l)
      <3>1. \A i \in 1..l : i \in 1..a
        BY <1>1, <2>2
      <3>2. \A i \in 1..l : s[z + i] = p[i]
        BY <1>c, <2>1 DEF Shows
      <3>. QED BY <1>3, <3>1, <3>2 DEF Shows
    <2>. QED BY <2>2, <2>3, NameCut DEF a
  <1>7. CASE x >= h + 1
    <2>1. Shows(s, z, p, h)
      BY <1>1, <1>7, <1>b, <1>c, ShowsLess
    <2>2. HeadShows(s, z, c) /\ z + h <= Len(s)
      BY <1>1, <1>7, <1>b, <2>1, HeadShown DEF p, h
    <2>3. CASE Bracketing(c)
      BY <2>2, <2>3, HeadFails DEF h
    <2>4. CASE ~Bracketing(c)
      <3>1. PICK k : ParseColumn(s, start) = ColumnsAt(s, start, k, z + h - 1)
        BY <2>2, <2>4, HeadReads DEF h
      <3>2. PICK y : y = x - h
        OBVIOUS
      <3>3. /\ y \in 1..Len(d) /\ h + y = x /\ Len(s) = z + h + y - 1 /\ z + h \in Nat
            /\ y - 1 \in Nat /\ y - 1 <= Len(d) /\ h + (y - 1) = x - 1 /\ z + h - 1 + 2 = z + h + 1
        BY <1>1, <1>7, <1>b, <3>2
      <3>4. d[y] \in {" ", "\n"}
        <4>1. p[h + y] = d[y]
          BY <1>3, <3>3
        <4>. QED BY <1>a, <3>3, <4>1
      <3>5. Shows(s, z + h, d, y - 1)
        <4>1. Shows(s, z, p, h + (y - 1))
          BY <1>c, <3>3
        <4>. QED BY <3>3, <4>1, DatumShown DEF h, d, p
      <3>6. ParseValue(s, z + h + 1) = {}
        BY <1>2, <3>3, <3>4, <3>5, ValueCut DEF d
      <3>. QED BY <3>1, <3>3, <3>6 DEF ColumnsAt
    <2>. QED BY <2>3, <2>4
  <1>. QED BY <1>5, <1>6, <1>7

(***************************************************************************)
(* A tuple is blanks with columns behind them: where each of them is.      *)
(***************************************************************************)
Part(c) == <<" ">> \o PrintColumn(c)
Parts(cs) == [i \in DOMAIN cs |-> Part(cs[i])]
At(cs) == CHOOSE at : Placed(PrintColumns(cs), Symbols, Parts(cs), Len(cs), at)

(* A column with the blank before it.                                      *)
LEMMA PartFacts ==
  ASSUME NEW c \in Column
  PROVE  /\ Part(c) \in Text /\ Len(Part(c)) = CellLen(c) + 1 /\ CellLen(c) \in Nat
         /\ PrintColumn(c) \in Text /\ Len(PrintColumn(c)) = CellLen(c)
         /\ Part(c)[1] = " "
         /\ \A x \in 1..CellLen(c) : Part(c)[x + 1] = PrintColumn(c)[x]
  <1>. DEFINE p == PrintColumn(c)
              l == CellLen(c)
  <1>1. p \in Text /\ Len(p) = l
    BY CellLemma DEF CellShows
  <1>2. l \in Nat
    BY CellParts
  <1>3. PICK b \in Symbols : b = " "
    BY Literals
  <1>4. <<b>> \in Text /\ Len(<<b>>) = 1 /\ <<b>>[1] = b
    BY OneSymbol, Zenon
  <1>. HIDE DEF p, l
  <1>5. /\ <<b>> \o p \in Text /\ Len(<<b>> \o p) = l + 1
        /\ (<<b>> \o p)[1] = b
        /\ \A x \in 1..l : (<<b>> \o p)[x + 1] = p[x]
    <2>1. PICK u : u = <<b>>
      OBVIOUS
    <2>2. u \in Text /\ Len(u) = 1 /\ u[1] = b
      BY <1>4, <2>1, Zenon
    <2>3. /\ u \o p \in Text /\ Len(u \o p) = Len(u) + Len(p)
          /\ \A i \in 1..Len(u) : (u \o p)[i] = u[i]
          /\ \A i \in 1..Len(p) : (u \o p)[Len(u) + i] = p[i]
      BY <1>1, <2>2, JoinLemma
    <2>4. Len(u \o p) = l + 1 /\ (u \o p)[1] = b
      BY <1>1, <1>2, <2>2, <2>3
    <2>5. \A x \in 1..l : (u \o p)[x + 1] = p[x]
      BY <1>1, <1>2, <2>2, <2>3
    <2>. QED BY <2>1, <2>3, <2>4, <2>5, Zenon
  <1>6. Part(c) = <<b>> \o p
    BY <1>3, Zenon DEF Part, p
  <1>. QED BY <1>1, <1>2, <1>3, <1>5, <1>6, Zenon DEF p, l

(* The places of the columns in a tuple and their symbols.                 *)
AtNumbers(cs, at) ==
  /\ Len(cs) \in Nat /\ at \in [0..Len(cs) -> Nat] /\ at[0] = 0
  /\ \A i \in 1..Len(cs) :
       /\ cs[i] \in Column /\ CellLen(cs[i]) \in Nat
       /\ at[i] = at[i - 1] + 1 + CellLen(cs[i])
  /\ \A i, j \in 0..Len(cs) : i <= j => at[i] <= at[j]

AtSymbols(p, cs, at) ==
  /\ p \in Text /\ Len(p) = at[Len(cs)]
  /\ \A i \in 1..Len(cs) :
       /\ p[at[i - 1] + 1] = " "
       /\ \A x \in 1..CellLen(cs[i]) : p[at[i - 1] + 1 + x] = PrintColumn(cs[i])[x]
  /\ \A y \in 1..Len(p) : \E i \in 1..Len(cs) :
       y = at[i - 1] + 1 \/ \E x \in 1..CellLen(cs[i]) : y = at[i - 1] + 1 + x

(* Where the columns of a tuple stand, and their symbols.                  *)
LEMMA AtLemma ==
  ASSUME NEW cs \in Seq(Column)
  PROVE  AtNumbers(cs, At(cs)) /\ AtSymbols(PrintColumns(cs), cs, At(cs))
  <1>. DEFINE n == Len(cs)
              p == PrintColumns(cs)
              at == At(cs)
              parts == Parts(cs)
  <1>1. n \in Nat /\ DOMAIN cs = 1..n /\ \A i \in 1..n : cs[i] \in Column
    BY LenProperties, ElementOfSeq
  <1>2. \A i \in 1..n : parts[i] = Part(cs[i])
    BY <1>1 DEF Parts
  <1>3. parts \in [1..n -> Text]
    BY <1>1, PartFacts DEF Parts
  <1>4. p = FlattenSeq(parts)
    BY DEF PrintColumns, Parts, Part
  <1>5. Placed(p, Symbols, parts, n, at)
    <2>1. \E a : Placed(p, Symbols, parts, n, a)
      BY <1>1, <1>3, <1>4, PlacedLemma DEF Text
    <2>. QED BY <2>1 DEF At
  <1>6. \A i \in 1..n :
          /\ cs[i] \in Column /\ CellLen(cs[i]) \in Nat /\ Len(parts[i]) = CellLen(cs[i]) + 1
          /\ parts[i][1] = " "
          /\ \A x \in 1..CellLen(cs[i]) : parts[i][x + 1] = PrintColumn(cs[i])[x]
    <2>. SUFFICES ASSUME NEW i \in 1..n
                  PROVE  /\ cs[i] \in Column /\ CellLen(cs[i]) \in Nat /\ Len(parts[i]) = CellLen(cs[i]) + 1
                         /\ parts[i][1] = " "
                         /\ \A x \in 1..CellLen(cs[i]) : parts[i][x + 1] = PrintColumn(cs[i])[x]
      OBVIOUS
    <2>1. cs[i] \in Column /\ parts[i] = Part(cs[i])
      BY <1>1, <1>2
    <2>. HIDE DEF parts
    <2>. QED BY <2>1, PartFacts
  <1>. HIDE DEF n, p, at, parts
  <1>7. \A i \in 1..n : CellLen(cs[i]) \in Nat /\ Len(parts[i]) = CellLen(cs[i]) + 1
    BY <1>6
  <1>8. /\ at \in [0..n -> Nat] /\ at[0] = 0 /\ p \in Text /\ Len(p) = at[n]
        /\ \A i, j \in 0..n : i <= j => at[i] <= at[j]
        /\ \A i \in 1..n : at[i] = at[i - 1] + Len(parts[i]) /\ Len(parts[i]) \in Nat
    BY <1>5 DEF Placed, Text
  <1>9. AtNumbers(cs, at)
    <2>1. \A i \in 1..n : at[i] = at[i - 1] + 1 + CellLen(cs[i])
      <3>. SUFFICES ASSUME NEW i \in 1..n PROVE at[i] = at[i - 1] + 1 + CellLen(cs[i])
        OBVIOUS
      <3>1. at[i - 1] \in Nat
        BY <1>1, <1>8
      <3>2. CellLen(cs[i]) \in Nat /\ Len(parts[i]) = CellLen(cs[i]) + 1
        BY <1>7, Zenon
      <3>3. at[i] = at[i - 1] + Len(parts[i])
        BY <1>8, Zenon
      <3>4. PICK l, m : l = CellLen(cs[i]) /\ m = Len(parts[i])
        OBVIOUS
      <3>5. l \in Nat /\ m = l + 1 /\ at[i] = at[i - 1] + m
        BY <3>2, <3>3, <3>4, Zenon
      <3>6. at[i] = at[i - 1] + 1 + l
        BY <3>1, <3>5
      <3>. QED BY <3>4, <3>6, Zenon
    <2>2. \A i \in 1..n : cs[i] \in Column /\ CellLen(cs[i]) \in Nat
      BY <1>6
    <2>. QED BY <1>1, <1>8, <2>1, <2>2, Zenon DEF AtNumbers, n
  <1>10. ASSUME NEW i \in 1..n
         PROVE  /\ p[at[i - 1] + 1] = " "
                /\ \A x \in 1..CellLen(cs[i]) : p[at[i - 1] + 1 + x] = PrintColumn(cs[i])[x]
    <2>1. \A y \in 1..Len(parts[i]) : p[at[i - 1] + y] = parts[i][y]
      BY <1>5 DEF Placed
    <2>2. 1 \in 1..Len(parts[i])
      BY <1>7
    <2>3. ASSUME NEW x \in 1..CellLen(cs[i]) PROVE p[at[i - 1] + 1 + x] = PrintColumn(cs[i])[x]
      <3>1. at[i - 1] \in Nat
        BY <1>1, <1>8
      <3>2. x + 1 \in 1..Len(parts[i]) /\ at[i - 1] + (x + 1) = at[i - 1] + 1 + x
        <4>1. CellLen(cs[i]) \in Nat /\ Len(parts[i]) = CellLen(cs[i]) + 1
          BY <1>7, Zenon
        <4>2. PICK l, m : l = CellLen(cs[i]) /\ m = Len(parts[i])
          OBVIOUS
        <4>3. l \in Nat /\ m = l + 1 /\ x \in 1..l
          BY <4>1, <4>2, Zenon
        <4>4. x + 1 \in 1..m /\ at[i - 1] + (x + 1) = at[i - 1] + 1 + x
          BY <3>1, <4>3
        <4>. QED BY <4>2, <4>4, Zenon
      <3>3. p[at[i - 1] + (x + 1)] = parts[i][x + 1]
        BY <2>1, <3>2, Zenon
      <3>4. parts[i][x + 1] = PrintColumn(cs[i])[x]
        BY <1>6, Zenon
      <3>. QED BY <3>2, <3>3, <3>4
    <2>. QED BY <1>6, <2>1, <2>2, <2>3
  <1>11. ASSUME NEW y \in 1..Len(p)
         PROVE  \E i \in 1..n : y = at[i - 1] + 1 \/ \E x \in 1..CellLen(cs[i]) : y = at[i - 1] + 1 + x
    <2>1. PICK i \in 1..n : \E u \in 1..Len(parts[i]) : y = at[i - 1] + u
      BY <1>5 DEF Placed
    <2>2. PICK u \in 1..Len(parts[i]) : y = at[i - 1] + u
      BY <2>1
    <2>3. at[i - 1] \in Nat
      BY <1>1, <1>8
    <2>4. CASE u = 1
      BY <2>2, <2>4
    <2>5. CASE u # 1
      <3>1. PICK x : x = u - 1
        OBVIOUS
      <3>2. x \in 1..CellLen(cs[i]) /\ y = at[i - 1] + 1 + x
        BY <1>7, <2>2, <2>3, <2>5, <3>1
      <3>. QED BY <3>2
    <2>. QED BY <2>4, <2>5
  <1>12. AtSymbols(p, cs, at)
    BY <1>8, <1>10, <1>11 DEF AtSymbols, n
  <1>. QED BY <1>9, <1>12 DEF at, p

(***************************************************************************)
(* What a column shows of the symbols the parser takes for its end.        *)
(***************************************************************************)
Has(s, y) == \E x \in 1..Len(s) : s[x] = y
(* What surrounds names and values.                                        *)
Outer == Bare \cup {"[", "]", ":", "integer", "bit", "text"}

(* A symbol the format does not use comes from a name or a value.          *)
LEMMA InnerSymbol ==
  ASSUME NEW c \in Column, NEW y, y \notin Outer,
         NEW x \in 1..CellLen(c), PrintColumn(c)[x] = y
  PROVE  \/ x \in 1..NameLen(c) /\ PrintName(c.name)[x] = y
         \/ \E i \in 1..Len(PrintDatum(c.datum)) : x = HeadLen(c) + i /\ PrintDatum(c.datum)[i] = y
  <1>. DEFINE p == PrintColumn(c)
              a == NameLen(c)
              h == HeadLen(c)
              t == PrintType(c.datum)
              d == PrintDatum(c.datum)
  <1>1. /\ a \in Nat /\ h \in Nat /\ CellLen(c) \in Nat
        /\ CellLen(c) = h + Len(d) /\ Len(d) \in Nat
    BY CellParts
  <1>2. c.datum \in Datums /\ h = a + Len(t) + 3
    BY CellParts DEF HeadLen
  <1>3. /\ \A i \in 1..a : p[i] = PrintName(c.name)[i]
        /\ p[a + 1] = "["
        /\ \A i \in 1..Len(t) : p[a + 1 + i] = t[i]
        /\ p[h - 1] = "]"
        /\ p[h] = ":"
        /\ \A i \in 1..Len(d) : p[h + i] = d[i]
    BY CellLemma DEF CellShows
  <1>4. \A i \in 1..Len(t) : t[i] \in Outer
    <2>1. CASE c.datum.type = "integer[]"
      <3>1. Len(t) = 3 /\ t[1] = "integer" /\ t[2] = "[" /\ t[3] = "]"
        BY <1>2, <2>1, PrintTypeLemma
      <3>2. \A i \in 1..3 : i = 1 \/ i = 2 \/ i = 3
        OBVIOUS
      <3>. QED BY <3>1, <3>2 DEF Outer
    <2>2. CASE c.datum.type # "integer[]"
      <3>1. Len(t) = 1 /\ t[1] \in Bare \cup {"bit", "text"}
        BY <1>2, <2>2, PrintTypeLemma
      <3>2. \A i \in 1..1 : i = 1
        OBVIOUS
      <3>. QED BY <3>1, <3>2 DEF Outer
    <2>. QED BY <2>1, <2>2
  <1>l. Len(t) \in Nat
    BY <1>2, PrintTypeLemma
  <1>b. x \in Nat /\ 1 <= x /\ x <= h + Len(d) /\ Len(t) \in Nat /\ h = a + Len(t) + 3
    BY <1>1, <1>2, <1>l
  <1>y. p[x] = y
    OBVIOUS
  <1>. HIDE DEF p, a, h, t, d
  <1>5. x <= a \/ x >= h + 1
    <2>. SUFFICES ASSUME ~(x <= a), ~(x >= h + 1) PROVE FALSE
      OBVIOUS
    <2>1. x # a + 1 /\ x # h - 1 /\ x # h
      <3>1. p[a + 1] = "[" /\ p[h - 1] = "]" /\ p[h] = ":"
        BY <1>3
      <3>. QED BY <3>1, <1>y DEF Outer
    <2>2. PICK i : i = x - a - 1
      OBVIOUS
    <2>3. i \in 1..Len(t) /\ a + 1 + i = x
      BY <1>1, <1>b, <2>1, <2>2
    <2>. QED BY <1>3, <1>4, <1>y, <2>3
  <1>6. CASE x <= a
    <2>1. x \in 1..a
      BY <1>1, <1>6, <1>b
    <2>2. PrintName(c.name)[x] = y
      BY <1>3, <1>y, <2>1
    <2>. QED BY <2>1, <2>2 DEF a
  <1>7. CASE x >= h + 1
    <2>2. PICK i : i = x - h
      OBVIOUS
    <2>3. i \in 1..Len(d) /\ h + i = x
      BY <1>1, <1>b, <1>7, <2>2
    <2>4. d[i] = y
      BY <1>3, <1>y, <2>3
    <2>. QED BY <2>3, <2>4 DEF d, h
  <1>. QED BY <1>5, <1>6, <1>7

(* The symbols of a name and of a value stand in their column.             *)
LEMMA ShownSymbol ==
  ASSUME NEW c \in Column
  PROVE  /\ \A x \in 1..NameLen(c) : x \in 1..CellLen(c) /\ PrintColumn(c)[x] = PrintName(c.name)[x]
         /\ \A i \in 1..Len(PrintDatum(c.datum)) :
              HeadLen(c) + i \in 1..CellLen(c) /\ PrintColumn(c)[HeadLen(c) + i] = PrintDatum(c.datum)[i]
  <1>. DEFINE a == NameLen(c)
              h == HeadLen(c)
              l == CellLen(c)
              d == Len(PrintDatum(c.datum))
  <1>1. a \in Nat /\ h \in Nat /\ l \in Nat /\ d \in Nat /\ l = h + d /\ a + 4 <= h
    BY CellParts
  <1>2. /\ \A i \in 1..a : PrintColumn(c)[i] = PrintName(c.name)[i]
        /\ \A i \in 1..d : PrintColumn(c)[h + i] = PrintDatum(c.datum)[i]
    BY CellLemma DEF CellShows
  <1>. HIDE DEF a, h, l, d
  <1>3. /\ \A x \in 1..a : x \in 1..l
        /\ \A i \in 1..d : h + i \in 1..l
    BY <1>1
  <1>. QED BY <1>2, <1>3 DEF a, h, l, d

(* Quoting adds nothing but quotes.                                        *)
LEMMA QuotedHasIt ==
  ASSUME NEW t \in Text, NEW q \in Symbols, NEW y \in Symbols, y # q
  PROVE  Has(Quoted(t, q), y) <=> Has(t, y)
  <1>1. (\E i \in 1..Len(t) : t[i] = y) <=> \E x \in 1..Len(Quoted(t, q)) : Quoted(t, q)[x] = y
    BY QuotedHas
  <1>. QED BY <1>1, Zenon DEF Has

(* Quoting a name adds quotes to it, and nothing else.                     *)
LEMMA NameHas ==
  ASSUME NEW n \in Idents, NEW y \in Symbols, y # "\""
  PROVE  Has(PrintName(n), y) <=> Has(n, y)
  <1>1. CASE Plain(n)
    BY <1>1, PrintNameLemma
  <1>2. CASE ~Plain(n)
    <2>1. PICK q \in Symbols : q = "\""
      BY Literals
    <2>2. n \in Text /\ PrintName(n) = Quoted(n, q)
      BY <1>2, <2>1, PrintNameLemma, NameFacts
    <2>3. y # q
      BY <2>1
    <2>. QED BY <2>2, <2>3, QuotedHasIt
  <1>. QED BY <1>1, <1>2

(* Values without quotes have no blanks and no line breaks.                *)
LEMMA PlainText ==
  ASSUME NEW d \in Datums, Unquoted(d)
  PROVE  \A i \in 1..Len(d.text) : d.text[i] \notin {" ", "\n"}
  <1>1. CASE d.kind # "datum"
    <2>1. d.text = <<>>
      BY <1>1, DatumFacts
    <2>2. Len(d.text) = 0
      BY <2>1
    <2>3. \A i \in 1..0 : FALSE
      OBVIOUS
    <2>. QED BY <2>2, <2>3
  <1>2. CASE d.kind = "datum" /\ d.type \in Bare
    <2>1. d.text \in Scalars
      BY <1>2, DatumFacts
    <2>2. PICK x \in {"7", "huge", "NaN", "true", "false"} : d.text = <<x>>
      BY <2>1 DEF Scalars
    <2>3. x \in Symbols /\ x \notin {" ", "\n"}
      BY Literals
    <2>4. \A i \in 1..Len(<<x>>) : <<x>>[i] = x
      BY <2>3, OneSymbol, Zenon
    <2>. QED BY <2>2, <2>3, <2>4
  <1>3. CASE d.type = "bit"
    <2>1. d.text \in Seq({"0", "1"})
      BY <1>3, DatumFacts
    <2>2. \A i \in 1..Len(d.text) : d.text[i] \in {"0", "1"}
      BY <2>1, ElementOfSeq
    <2>. QED BY <2>2
  <1>. QED BY <1>1, <1>2, <1>3 DEF Unquoted

(* Nor does printing a value add a blank or a line break.                  *)
LEMMA DatumHas ==
  ASSUME NEW d \in Datums, NEW y \in {" ", "\n"}
  PROVE  Has(PrintDatum(d), y) <=> Has(d.text, y)
  <1>1. CASE Unquoted(d)
    <2>1. ~Has(PrintDatum(d), y)
      BY <1>1, PrintDatumLemma DEF Raw, Has
    <2>2. ~Has(d.text, y)
      BY <1>1, PlainText DEF Has
    <2>. QED BY <2>1, <2>2
  <1>2. CASE ~Unquoted(d)
    <2>1. d.text \in Text /\ PrintDatum(d) = Quoted(d.text, "'")
      BY <1>2, PrintDatumLemma, DatumFacts
    <2>2. "'" \in Symbols /\ y \in Symbols /\ y # "'"
      BY Literals
    <2>3. PICK q \in Symbols : q = "'"
      BY <2>2
    <2>4. y # q /\ PrintDatum(d) = Quoted(d.text, q)
      BY <2>1, <2>2, <2>3
    <2>. QED BY <2>1, <2>2, <2>4, QuotedHasIt
  <1>. QED BY <1>1, <1>2

(* A line break is in a column's text if it is in its name or its value.   *)
Breaking(c) == "\n" \in ToSet(c.name) \cup ToSet(c.datum.text)

(* A text has a symbol if its set has.                                     *)
LEMMA HasSet ==
  ASSUME NEW s \in Text, NEW y
  PROVE  y \in ToSet(s) <=> Has(s, y)
  <1>1. DOMAIN s = 1..Len(s)
    BY LenProperties DEF Text
  <1>. QED BY <1>1 DEF ToSet, Has

(* A column has a line break where its name or its value has one.          *)
LEMMA CellBreak ==
  ASSUME NEW c \in Column
  PROVE  Breaking(c) <=> \E q \in 1..CellLen(c) : PrintColumn(c)[q] = "\n"
  <1>1. c.name \in Idents /\ c.name \in Text /\ c.datum \in Datums /\ c.datum.text \in Text
    <2>1. c.name \in Idents /\ c.datum \in Datums
      BY DEF Column, Idents
    <2>. QED BY <2>1, NameFacts, DatumFacts
  <1>2. Breaking(c) <=> Has(c.name, "\n") \/ Has(c.datum.text, "\n")
    BY <1>1, HasSet DEF Breaking
  <1>3. Has(c.name, "\n") <=> Has(PrintName(c.name), "\n")
    <2>1. "\n" \in Symbols /\ "\n" # "\""
      BY Literals
    <2>. QED BY <1>1, <2>1, NameHas
  <1>4. Has(c.datum.text, "\n") <=> Has(PrintDatum(c.datum), "\n")
    BY <1>1, DatumHas
  <1>5. ASSUME Has(PrintName(c.name), "\n") PROVE \E q \in 1..CellLen(c) : PrintColumn(c)[q] = "\n"
    BY <1>5, ShownSymbol DEF Has, NameLen
  <1>6. ASSUME Has(PrintDatum(c.datum), "\n") PROVE \E q \in 1..CellLen(c) : PrintColumn(c)[q] = "\n"
    <2>1. PICK i \in 1..Len(PrintDatum(c.datum)) : PrintDatum(c.datum)[i] = "\n"
      BY <1>6 DEF Has
    <2>. QED BY <2>1, ShownSymbol
  <1>7. ASSUME NEW q \in 1..CellLen(c), PrintColumn(c)[q] = "\n"
        PROVE  Has(PrintName(c.name), "\n") \/ Has(PrintDatum(c.datum), "\n")
    <2>1. "\n" \notin Outer
      BY DEF Outer, Bare
    <2>2. \/ q \in 1..NameLen(c) /\ PrintName(c.name)[q] = "\n"
          \/ \E i \in 1..Len(PrintDatum(c.datum)) : q = HeadLen(c) + i /\ PrintDatum(c.datum)[i] = "\n"
      BY <1>7, <2>1, InnerSymbol
    <2>. QED BY <2>2 DEF Has, NameLen
  <1>. QED BY <1>2, <1>3, <1>4, <1>5, <1>6, <1>7

(***************************************************************************)
(* The marker of the new tuple in a name or a value is shown in a column,  *)
(* and nothing else shows one.                                             *)
(***************************************************************************)
Three(s, a, b, d) ==
  \E x \in 1..Len(s) : x + 2 <= Len(s) /\ s[x] = a /\ s[x + 1] = b /\ s[x + 2] = d

(* Three symbols in a row are in a quoted text if they are in the text.    *)
LEMMA QuotedThree ==
  ASSUME NEW t \in Text, NEW q \in Symbols, NEW a \in Symbols, NEW b \in Symbols, NEW d \in Symbols,
         a # q, b # q, d # q
  PROVE  Three(Quoted(t, q), a, b, d) <=> Three(t, a, b, d)
  <1>. DEFINE r == Quoted(t, q)
  <1>1. PICK at : Doubles(t, q, at)
    BY DoubleLemma
  <1>2. Len(t) \in Nat /\ Len(r) \in Nat
    BY QuotedLonger, LenProperties DEF Text
  <1>3. \A k \in 1..Len(t) : t[k] # q =>
          /\ at[k - 1] \in Nat /\ at[k] = at[k - 1] + 1
          /\ at[k - 1] + 3 <= Len(r)
          /\ r[at[k - 1] + 2] = t[k]
          /\ r[at[k - 1] + 3] = IF k < Len(t) THEN t[k + 1] ELSE q
    BY <1>1, OutQuotes
  <1>4. \A x \in 1..Len(r) : r[x] # q => \E k \in 1..Len(t) : x = at[k - 1] + 2 /\ t[k] = r[x]
    BY <1>1, InQuotes
  <1>. HIDE DEF r
  <1>5. ASSUME Three(t, a, b, d) PROVE Three(r, a, b, d)
    <2>1. PICK k \in 1..Len(t) : k + 2 <= Len(t) /\ t[k] = a /\ t[k + 1] = b /\ t[k + 2] = d
      BY <1>5 DEF Three
    <2>2. k + 1 \in 1..Len(t) /\ k < Len(t) /\ k + 1 < Len(t) /\ k + 1 - 1 = k /\ k + 1 + 1 = k + 2
      BY <1>2, <2>1
    <2>3. /\ at[k - 1] \in Nat /\ at[k] = at[k - 1] + 1
          /\ r[at[k - 1] + 2] = a /\ r[at[k - 1] + 3] = b
      BY <1>3, <2>1, <2>2
    <2>4. at[k] + 3 <= Len(r) /\ r[at[k] + 3] = d
      BY <1>3, <2>1, <2>2
    <2>5. PICK x : x = at[k - 1] + 2
      OBVIOUS
    <2>6. /\ x \in 1..Len(r) /\ x + 2 <= Len(r)
          /\ x + 1 = at[k - 1] + 3 /\ x + 2 = at[k] + 3
      BY <1>2, <2>3, <2>4, <2>5
    <2>. QED BY <2>3, <2>4, <2>5, <2>6 DEF Three
  <1>6. ASSUME Three(r, a, b, d) PROVE Three(t, a, b, d)
    <2>1. PICK x \in 1..Len(r) : x + 2 <= Len(r) /\ r[x] = a /\ r[x + 1] = b /\ r[x + 2] = d
      BY <1>6 DEF Three
    <2>2. PICK k \in 1..Len(t) : x = at[k - 1] + 2 /\ t[k] = a
      BY <1>4, <2>1
    <2>3. /\ at[k - 1] \in Nat /\ at[k] = at[k - 1] + 1
          /\ r[at[k - 1] + 3] = IF k < Len(t) THEN t[k + 1] ELSE q
      BY <1>3, <2>2
    <2>4. at[k - 1] + 3 = x + 1 /\ at[k] + 3 = x + 2
      BY <2>2, <2>3
    <2>5. k < Len(t) /\ t[k + 1] = b
      BY <2>1, <2>3, <2>4
    <2>6. k + 1 \in 1..Len(t) /\ k + 1 - 1 = k /\ k + 1 + 1 = k + 2
      BY <1>2, <2>5
    <2>7. r[at[k] + 3] = IF k + 1 < Len(t) THEN t[k + 2] ELSE q
      BY <1>3, <2>5, <2>6
    <2>8. k + 1 < Len(t) /\ t[k + 2] = d
      BY <2>1, <2>4, <2>7
    <2>9. k + 2 <= Len(t)
      BY <1>2, <2>8
    <2>. QED BY <2>2, <2>5, <2>8, <2>9 DEF Three
  <1>. QED BY <1>5, <1>6 DEF r

(* A text holds the marker of the new tuple.                               *)
Mark(s) == Three(s, " ", "new-tuple:", " ")

(* strings.Index finds the new-tuple marker where its symbols stand.       *)
LEMMA MarkFound ==
  ASSUME NEW t \in Text
  PROVE  Index(t, NewTupleMark) # {} <=> Mark(t)
  <1>. DEFINE m == NewTupleMark
              last == Len(t) - Len(m) + 1
  <1>1. m \in Text /\ Len(m) = 3 /\ m[1] = " " /\ m[2] = "new-tuple:" /\ m[3] = " "
    <2>1. " " \in Symbols /\ "new-tuple:" \in Symbols
      BY Literals
    <2>2. PICK a \in Symbols, b \in Symbols : a = " " /\ b = "new-tuple:"
      BY <2>1
    <2>3. <<a, b, a>> \in Text /\ Len(<<a, b, a>>) = 3
          /\ <<a, b, a>>[1] = a /\ <<a, b, a>>[2] = b /\ <<a, b, a>>[3] = a
      BY DEF Text
    <2>4. m = <<a, b, a>>
      BY <2>2 DEF NewTupleMark
    <2>. QED BY <2>2, <2>3, <2>4, Zenon
  <1>2. Len(t) \in Nat
    BY LenProperties DEF Text
  <1>3. \A i : Stands(t, m, i) <=> t[i + 1 - 1] = " " /\ t[i + 2 - 1] = "new-tuple:" /\ t[i + 3 - 1] = " "
    <2>1. \A i : i \in 1..3 <=> i = 1 \/ i = 2 \/ i = 3
      OBVIOUS
    <2>. QED BY <1>1, <2>1 DEF Stands
  <1>4. \/ Index(t, m) = {} /\ \A i \in 1..last : ~Stands(t, m, i)
        \/ \E k \in 1..last : Index(t, m) = {k} /\ Stands(t, m, k)
    <2>1. 1 \in Nat \ {0}
      OBVIOUS
    <2>. HIDE DEF m
    <2>2. \/ /\ IndexFrom(t, m, 1) = {}
             /\ \A i \in 1..(Len(t) - Len(m) + 1) : ~Stands(t, m, i)
          \/ \E k \in 1..(Len(t) - Len(m) + 1) :
               /\ IndexFrom(t, m, 1) = {k}
               /\ Stands(t, m, k)
               /\ \A i \in 1..(k - 1) : ~Stands(t, m, i)
      BY <1>1, <2>1, FindLemma
    <2>. QED BY <2>2 DEF Index
  <1>5. Len(m) = 3
    BY <1>1
  <1>. HIDE DEF m
  <1>6. \A i : i \in 1..last <=> i \in 1..Len(t) /\ i + 2 <= Len(t)
    BY <1>2, <1>5
  <1>7. \A i \in 1..Len(t) : i + 1 - 1 = i /\ i + 2 - 1 = i + 1 /\ i + 3 - 1 = i + 2
    OBVIOUS
  <1>. HIDE DEF last
  <1>8. \A i \in 1..Len(t) : Stands(t, m, i) <=> t[i] = " " /\ t[i + 1] = "new-tuple:" /\ t[i + 2] = " "
    BY <1>3, <1>7
  <1>9. Mark(t) <=> \E i \in 1..last : Stands(t, m, i)
    BY <1>6, <1>8 DEF Mark, Three
  <1>. QED BY <1>4, <1>9 DEF m

(* The symbols of the new-tuple marker are not those around texts.         *)
LEMMA MarkSymbols ==
  /\ " " \in Symbols /\ "new-tuple:" \in Symbols
  /\ " " \notin Outer /\ "new-tuple:" \notin Outer
  /\ " " # "\"" /\ "new-tuple:" # "\"" /\ " " # "'" /\ "new-tuple:" # "'"
  /\ "new-tuple:" \notin Safe
  BY Literals DEF Outer, Bare, Safe

(* A marker in a quoted text, a name, a value and a column.                *)
LEMMA QuotedMark ==
  ASSUME NEW t \in Text, NEW q \in Symbols, " " # q, "new-tuple:" # q
  PROVE  Mark(Quoted(t, q)) <=> Mark(t)
  <1>1. PICK a \in Symbols, b \in Symbols : a = " " /\ b = "new-tuple:"
    BY MarkSymbols
  <1>2. a # q /\ b # q
    BY <1>1
  <1>3. Three(Quoted(t, q), a, b, a) <=> Three(t, a, b, a)
    BY <1>2, QuotedThree
  <1>. QED BY <1>1, <1>3 DEF Mark

(* Quoting neither makes a marker in a name nor breaks one up.             *)
LEMMA NameMark ==
  ASSUME NEW n \in Idents
  PROVE  Mark(PrintName(n)) <=> Mark(n)
  <1>1. CASE Plain(n)
    BY <1>1, PrintNameLemma
  <1>2. CASE ~Plain(n)
    <2>1. PICK q \in Symbols : q = "\""
      BY Literals
    <2>2. n \in Text /\ PrintName(n) = Quoted(n, q)
      BY <1>2, <2>1, PrintNameLemma, NameFacts
    <2>3. " " # q /\ "new-tuple:" # q
      BY <2>1
    <2>4. " " \in Symbols /\ "new-tuple:" \in Symbols
      BY MarkSymbols
    <2>. QED BY <2>2, <2>3, <2>4, QuotedMark
  <1>. QED BY <1>1, <1>2

(* Nor does printing in a value.                                           *)
LEMMA DatumMark ==
  ASSUME NEW d \in Datums
  PROVE  Mark(PrintDatum(d)) <=> Mark(d.text)
  <1>1. CASE Unquoted(d)
    <2>1. \A i \in 1..Len(PrintDatum(d)) : PrintDatum(d)[i] # " "
      BY <1>1, PrintDatumLemma DEF Raw
    <2>2. \A i \in 1..Len(d.text) : d.text[i] # " "
      BY <1>1, PlainText
    <2>. QED BY <2>1, <2>2 DEF Mark, Three
  <1>2. CASE ~Unquoted(d)
    <2>1. PICK q \in Symbols : q = "'"
      BY Literals
    <2>2. d.text \in Text /\ PrintDatum(d) = Quoted(d.text, q)
      BY <1>2, <2>1, PrintDatumLemma, DatumFacts
    <2>3. " " # q /\ "new-tuple:" # q
      BY <2>1
    <2>4. " " \in Symbols /\ "new-tuple:" \in Symbols
      BY MarkSymbols
    <2>. QED BY <2>2, <2>3, <2>4, QuotedMark
  <1>. QED BY <1>1, <1>2

(* No value ends within a marker, and no column begins within one.         *)
LEMMA DatumLast ==
  ASSUME NEW d \in Datums
  PROVE  PrintDatum(d)[Len(PrintDatum(d))] # "new-tuple:"
  <1>1. d.kind \in {"datum", "null", "toast"} /\ d.text \in Text
    BY DatumFacts
  <1>2. PICK q \in Symbols : q = "'"
    BY Literals
  <1>3. Quoted(d.text, q)[Len(Quoted(d.text, q))] = q /\ Quoted(d.text, q) \in Text
    BY <1>1, QuotedLemma
  <1>4. CASE ~Unquoted(d)
    <2>1. PrintDatum(d) = Quoted(d.text, q)
      BY <1>2, <1>4, PrintDatumLemma
    <2>. QED BY <1>2, <1>3, <2>1
  <1>5. CASE d.kind # "datum"
    <2>1. PrintDatum(d) \in {<<"null">>, <<"unchanged-toast-datum">>}
      BY <1>1, <1>5 DEF PrintDatum
    <2>2. PICK x \in {"null", "unchanged-toast-datum"} : PrintDatum(d) = <<x>>
      BY <2>1
    <2>3. Len(<<x>>) = 1 /\ <<x>>[1] = x
      OBVIOUS
    <2>. QED BY <2>2, <2>3
  <1>6. CASE d.kind = "datum" /\ d.type \in Bare
    <2>1. d.kind # "null" /\ d.kind # "toast"
      BY <1>6
    <2>2. PrintDatum(d) = PrintText(d)
      BY <2>1, Zenon DEF PrintDatum
    <2>3. PrintText(d) = d.text
      BY <1>6 DEF PrintText, Bare
    <2>4. d.text \in Scalars
      BY <1>6, DatumFacts
    <2>5. PICK x \in {"7", "huge", "NaN", "true", "false"} : d.text = <<x>>
      BY <2>4 DEF Scalars
    <2>6. Len(<<x>>) = 1 /\ <<x>>[1] = x
      OBVIOUS
    <2>. QED BY <2>2, <2>3, <2>5, <2>6
  <1>7. CASE d.kind = "datum" /\ d.type = "bit"
    <2>1. PrintDatum(d) = <<"B">> \o Quoted(d.text, q)
      BY <1>2, <1>7 DEF PrintDatum, PrintText, Bare
    <2>2. PICK b \in Symbols : b = "B"
      BY Literals
    <2>3. PICK u, r : u = <<b>> /\ r = Quoted(d.text, q)
      OBVIOUS
    <2>4. u \in Text /\ Len(u) = 1
      BY <2>3, OneSymbol, Zenon
    <2>5. r \in Text /\ Len(r) \in Nat /\ Len(r) >= 1
      <3>1. r \in Text /\ Len(r) \in Nat /\ Len(r) >= Len(d.text) + 2 /\ Len(d.text) \in Nat
        BY <1>1, <2>3, QuotedLonger, LenProperties DEF Text
      <3>. QED BY <3>1
    <2>6. Len(u \o r) = Len(u) + Len(r) /\ \A i \in 1..Len(r) : (u \o r)[Len(u) + i] = r[i]
      BY <2>4, <2>5, JoinLemma
    <2>7. Len(r) \in 1..Len(r)
      BY <2>5
    <2>8. (u \o r)[Len(u \o r)] = r[Len(r)]
      BY <2>6, <2>7, Zenon
    <2>9. PrintDatum(d) = u \o r /\ r[Len(r)] = q
      BY <1>3, <2>1, <2>2, <2>3
    <2>. QED BY <1>2, <2>8, <2>9
  <1>. QED BY <1>4, <1>5, <1>6, <1>7 DEF Unquoted

(* A column begins with its name or a quote, and is no single symbol.      *)
LEMMA CellFirst ==
  ASSUME NEW c \in Column
  PROVE  /\ PrintColumn(c)[1] \in Safe \cup {"\""}
         /\ CellLen(c) \in Nat /\ CellLen(c) >= 2
  <1>1. NameLen(c) \in Nat /\ CellLen(c) \in Nat /\ NameLen(c) >= 1 /\ CellLen(c) >= 2
    <2>1. PICK a, h, l : a = NameLen(c) /\ h = HeadLen(c) /\ l = CellLen(c)
      OBVIOUS
    <2>2. a \in Nat /\ h \in Nat /\ l \in Nat /\ a >= 1 /\ a + 4 <= h /\ h + 1 <= l
      BY <2>1, CellParts
    <2>3. l >= 2
      BY <2>2
    <2>. QED BY <2>1, <2>2, <2>3, Zenon
  <1>2. 1 \in 1..NameLen(c)
    BY <1>1
  <1>3. c.name \in Idents
    BY DEF Column, Idents
  <1>4. PrintColumn(c)[1] = PrintName(c.name)[1]
    BY <1>2, ShownSymbol
  <1>. QED BY <1>1, <1>3, <1>4, PrintNameLemma

(* Where the word of the marker stands: not at an end of a column.         *)
LEMMA WordPlace ==
  ASSUME NEW c \in Column, NEW q \in 1..CellLen(c), PrintColumn(c)[q] = "new-tuple:"
  PROVE  q - 1 \in 1..CellLen(c) /\ q + 1 \in 1..CellLen(c)
  <1>. DEFINE d == PrintDatum(c.datum)
              a == NameLen(c)
              h == HeadLen(c)
              l == CellLen(c)
  <1>1. a \in Nat /\ h \in Nat /\ l \in Nat /\ a + 4 <= h /\ h + 1 <= l /\ l = h + Len(d) /\ Len(d) \in Nat
    BY CellParts
  <1>2. \/ q \in 1..a
        \/ \E i \in 1..Len(d) : q = h + i /\ d[i] = "new-tuple:"
    BY MarkSymbols, InnerSymbol
  <1>3. q # 1
    BY CellFirst, MarkSymbols
  <1>4. d[Len(d)] # "new-tuple:"
    <2>1. c.datum \in Datums
      BY DEF Column
    <2>. QED BY <2>1, DatumLast
  <1>. HIDE DEF d, a, h, l
  <1>5. q < l
    <2>1. CASE q \in 1..a
      BY <1>1, <2>1
    <2>2. CASE \E i \in 1..Len(d) : q = h + i /\ d[i] = "new-tuple:"
      <3>1. PICK i \in 1..Len(d) : q = h + i /\ i # Len(d)
        BY <1>4, <2>2
      <3>. QED BY <1>1, <3>1
    <2>. QED BY <1>2, <2>1, <2>2
  <1>6. q \in 1..l
    BY DEF l
  <1>7. q - 1 \in 1..l /\ q + 1 \in 1..l
    BY <1>1, <1>3, <1>5, <1>6
  <1>. QED BY <1>7 DEF l

(* A column holds the marker if its name or its value does.                *)
LEMMA CellMark ==
  ASSUME NEW c \in Column
  PROVE  Mark(PrintColumn(c)) <=> Marked(c)
  <1>. DEFINE p == PrintColumn(c)
              n == PrintName(c.name)
              d == PrintDatum(c.datum)
              a == NameLen(c)
              h == HeadLen(c)
              l == CellLen(c)
  <1>1. a \in Nat /\ h \in Nat /\ l \in Nat /\ a + 4 <= h /\ h + 1 <= l /\ l = h + Len(d) /\ Len(d) \in Nat
    BY CellParts
  <1>2. a = Len(n) /\ l = Len(p)
    BY CellLemma DEF CellShows, NameLen
  <1>3. /\ c.name \in Idents /\ c.name \in Text /\ c.datum \in Datums /\ c.datum.text \in Text
    <2>1. c.name \in Idents /\ c.datum \in Datums
      BY DEF Column, Idents
    <2>. QED BY <2>1, NameFacts, DatumFacts
  <1>4. Marked(c) <=> Mark(n) \/ Mark(d)
    <2>1. Marked(c) <=> Mark(c.name) \/ Mark(c.datum.text)
      BY <1>3, MarkFound DEF Marked
    <2>. QED BY <1>3, <2>1, NameMark, DatumMark
  <1>5. \A x \in 1..l : p[x] \in {" ", "new-tuple:"} =>
          \/ x \in 1..a /\ n[x] = p[x]
          \/ \E i \in 1..Len(d) : x = h + i /\ d[i] = p[x]
    <2>. SUFFICES ASSUME NEW x \in 1..l, NEW y \in {" ", "new-tuple:"}, p[x] = y
                  PROVE  \/ x \in 1..a /\ n[x] = y
                         \/ \E i \in 1..Len(d) : x = h + i /\ d[i] = y
      OBVIOUS
    <2>1. y \notin Outer
      BY MarkSymbols
    <2>. QED BY <2>1, InnerSymbol
  <1>6. /\ \A x \in 1..a : x \in 1..l /\ p[x] = n[x]
        /\ \A i \in 1..Len(d) : h + i \in 1..l /\ p[h + i] = d[i]
    BY ShownSymbol
  <1>. HIDE DEF p, n, d, a, h, l
  <1>7. ASSUME Mark(n) PROVE Mark(p)
    <2>1. PICK x \in 1..a : x + 2 <= a /\ n[x] = " " /\ n[x + 1] = "new-tuple:" /\ n[x + 2] = " "
      BY <1>2, <1>7 DEF Mark, Three
    <2>a. x \in 1..a /\ x + 2 <= a
      BY <2>1, Zenon
    <2>2. x \in 1..a /\ x + 1 \in 1..a /\ x + 2 \in 1..a
      BY <1>1, <2>a
    <2>3. x \in 1..l /\ x + 2 <= l
      BY <1>1, <2>2
    <2>. QED BY <1>2, <1>6, <2>1, <2>2, <2>3 DEF Mark, Three
  <1>8. ASSUME Mark(d) PROVE Mark(p)
    <2>1. PICK x \in 1..Len(d) : x + 2 <= Len(d) /\ d[x] = " " /\ d[x + 1] = "new-tuple:" /\ d[x + 2] = " "
      BY <1>8 DEF Mark, Three
    <2>a. x \in 1..Len(d) /\ x + 2 <= Len(d)
      BY <2>1, Zenon
    <2>2. x \in 1..Len(d) /\ x + 1 \in 1..Len(d) /\ x + 2 \in 1..Len(d)
      BY <1>1, <2>a
    <2>3. PICK y : y = h + x
      OBVIOUS
    <2>4. y \in 1..l /\ y + 2 <= l /\ y + 1 = h + (x + 1) /\ y + 2 = h + (x + 2)
      BY <1>1, <2>2, <2>3
    <2>. QED BY <1>2, <1>6, <2>1, <2>2, <2>3, <2>4 DEF Mark, Three
  <1>9. ASSUME Mark(p) PROVE Mark(n) \/ Mark(d)
    <2>1. PICK x \in 1..l : x + 2 <= l /\ p[x] = " " /\ p[x + 1] = "new-tuple:" /\ p[x + 2] = " "
      BY <1>2, <1>9 DEF Mark, Three
    <2>b. x \in 1..l /\ x + 2 <= l
      BY <2>1, Zenon
    <2>2. x + 1 \in 1..l /\ x + 2 \in 1..l
      BY <1>1, <2>b
    <2>3. /\ (x \in 1..a /\ n[x] = " ") \/ \E i \in 1..Len(d) : x = h + i /\ d[i] = " "
          /\ (x + 1 \in 1..a /\ n[x + 1] = "new-tuple:") \/ \E i \in 1..Len(d) : x + 1 = h + i /\ d[i] = "new-tuple:"
          /\ (x + 2 \in 1..a /\ n[x + 2] = " ") \/ \E i \in 1..Len(d) : x + 2 = h + i /\ d[i] = " "
      BY <1>5, <2>1, <2>2
    <2>a. \/ x \in 1..a /\ x + 1 \in 1..a /\ x + 2 \in 1..a
          \/ ~(x \in 1..a) /\ ~(x + 1 \in 1..a) /\ ~(x + 2 \in 1..a)
      <3>1. x \in 1..a \/ \E i \in 1..Len(d) : x = h + i
        BY <2>3
      <3>2. x + 1 \in 1..a \/ \E i \in 1..Len(d) : x + 1 = h + i
        BY <2>3
      <3>3. x + 2 \in 1..a \/ \E i \in 1..Len(d) : x + 2 = h + i
        BY <2>3
      <3>. QED BY <1>1, <3>1, <3>2, <3>3
    <2>4. CASE x \in 1..a /\ x + 1 \in 1..a /\ x + 2 \in 1..a
      <3>1. \A i \in 1..Len(d) : x # h + i /\ x + 1 # h + i /\ x + 2 # h + i
        BY <1>1, <2>4
      <3>2. n[x] = " " /\ n[x + 1] = "new-tuple:" /\ n[x + 2] = " "
        BY <2>3, <3>1
      <3>3. x \in 1..a /\ x + 2 <= a
        BY <1>1, <2>4
      <3>. QED BY <1>2, <3>2, <3>3 DEF Mark, Three
    <2>5. CASE ~(x \in 1..a) /\ ~(x + 1 \in 1..a) /\ ~(x + 2 \in 1..a)
      <3>1. PICK i \in 1..Len(d) : x = h + i /\ d[i] = " "
        BY <2>3, <2>5
      <3>2. PICK j \in 1..Len(d) : x + 1 = h + j /\ d[j] = "new-tuple:"
        BY <2>3, <2>5
      <3>3. PICK k \in 1..Len(d) : x + 2 = h + k /\ d[k] = " "
        BY <2>3, <2>5
      <3>4. j = i + 1 /\ k = i + 2 /\ i + 2 <= Len(d)
        <4>1. x = h + i /\ x + 1 = h + j /\ x + 2 = h + k
          BY <3>1, <3>2, <3>3, Zenon
        <4>. QED BY <1>1, <4>1
      <3>. QED BY <3>1, <3>2, <3>3, <3>4 DEF Mark, Three
    <2>. QED BY <2>a, <2>4, <2>5
  <1>. QED BY <1>4, <1>7, <1>8, <1>9 DEF p

(***************************************************************************)
(* A text that shows a tuple behind d other symbols, m of its columns as   *)
(* a whole: up to the end of the last of them, or cut within the next.     *)
(***************************************************************************)
Cut(s, z, c, q) ==
  Breaks(PrintColumn(c), q) /\ Len(s) = z + q - 1 /\ Shows(s, z, PrintColumn(c), q - 1)

(* As much of a tuple as is there: columns, blanks between them, and how   *)
(* it begins.                                                              *)
WholeCells(s, d, cs, m, at) ==
  \A i \in 1..m : /\ Shows(s, d + at[i - 1], PrintColumn(cs[i]), CellLen(cs[i]))
                  /\ Ended(s, d + at[i] - 1)

Gaps(s, d, m, n, at) ==
  \A i \in 0..m : i < n => /\ i > 0 => s[d + at[i]] = " "
                           /\ d + at[i] + 1 <= Len(s)
                           /\ s[d + at[i] + 1] # " "

Opening(s, d) == (\A x \in 1..d : s[x] # "[") /\ s[1] # " "

(* Tuple, with the places of its columns.                                  *)
TupleAt(s, d, cs, m, n, at) ==
  /\ s \in Text /\ d \in Nat /\ cs \in Seq(Column) /\ m \in 0..n /\ n # 0 /\ Len(s) >= 1
  /\ Opening(s, d) /\ WholeCells(s, d, cs, m, at) /\ Gaps(s, d, m, n, at)
  /\ m = n => Len(s) = d + at[m] - 1
  /\ m < n => \E q \in 1..CellLen(cs[m + 1]) : Cut(s, d + at[m], cs[m + 1], q)

(* The first m columns of cs stand in s behind d symbols, and s ends with  *)
(* them or inside the next.                                                *)
Tuple(s, d, cs, m) == TupleAt(s, d, cs, m, Len(cs), At(cs))

(* A text is a beginning of a printed tuple behind d symbols.              *)
Follows(s, d, cs) ==
  /\ s \in Text /\ d \in Nat /\ cs \in Seq(Column)
  /\ \A x \in 1..Len(s) : x >= d => s[x] = PrintColumns(cs)[x - d + 1]
  /\ Opening(s, d)

(* Where the columns of a tuple stand, for arithmetic.                     *)
LEMMA AtSteps ==
  ASSUME NEW cs \in Seq(Column)
  PROVE  /\ Len(cs) \in Nat /\ At(cs)[0] = 0
         /\ \A i \in 0..Len(cs) : At(cs)[i] \in Nat
         /\ \A i \in 1..Len(cs) :
              /\ i - 1 \in 0..Len(cs) /\ cs[i] \in Column
              /\ At(cs)[i - 1] \in Nat /\ At(cs)[i] \in Nat
              /\ CellLen(cs[i]) \in Nat /\ CellLen(cs[i]) >= 2
              /\ At(cs)[i] = At(cs)[i - 1] + 1 + CellLen(cs[i])
         /\ \A i, j \in 0..Len(cs) : i <= j => At(cs)[i] <= At(cs)[j]
  <1>1. AtNumbers(cs, At(cs))
    BY AtLemma
  <1>2. Len(cs) \in Nat
    BY <1>1 DEF AtNumbers
  <1>3. \A i \in 1..Len(cs) : i - 1 \in 0..Len(cs) /\ i \in 0..Len(cs)
    BY <1>2
  <1>4. \A i \in 1..Len(cs) : cs[i] \in Column /\ CellLen(cs[i]) >= 2
    BY <1>1, CellFirst DEF AtNumbers
  <1>. QED BY <1>1, <1>3, <1>4 DEF AtNumbers

(* A text that follows the printed tuple shows its columns, with one blank *)
(* before each.                                                            *)
LEMMA FollowShows ==
  ASSUME NEW s, NEW d, NEW cs, Follows(s, d, cs), NEW i \in 1..Len(cs), NEW l \in Nat,
         l <= CellLen(cs[i]), d + At(cs)[i - 1] + l <= Len(s)
  PROVE  Shows(s, d + At(cs)[i - 1], PrintColumn(cs[i]), l)
  <1>1. cs \in Seq(Column) /\ d \in Nat /\ Len(s) \in Nat
    BY LenProperties DEF Follows, Text
  <1>2. PICK z : z = At(cs)[i - 1]
    OBVIOUS
  <1>3. z \in Nat /\ z + 1 + CellLen(cs[i]) = At(cs)[i] /\ CellLen(cs[i]) \in Nat
    BY <1>1, <1>2, AtSteps
  <1>. SUFFICES ASSUME NEW x \in 1..l PROVE s[d + z + x] = PrintColumn(cs[i])[x]
    BY <1>2 DEF Shows
  <1>4. PICK y : y = d + z + x
    OBVIOUS
  <1>5. y \in 1..Len(s) /\ y >= d /\ y - d + 1 = z + 1 + x /\ x \in 1..CellLen(cs[i])
    <2>1. d + z + l <= Len(s) /\ l <= CellLen(cs[i])
      BY <1>2
    <2>2. PICK m : m = CellLen(cs[i])
      OBVIOUS
    <2>3. m \in Nat /\ l <= m
      BY <1>3, <2>1, <2>2
    <2>. QED BY <1>1, <1>3, <1>4, <2>1, <2>2, <2>3
  <1>6. s[y] = PrintColumns(cs)[z + 1 + x]
    BY <1>5 DEF Follows
  <1>7. PrintColumns(cs)[z + 1 + x] = PrintColumn(cs[i])[x]
    BY <1>1, <1>2, <1>5, AtLemma DEF AtSymbols
  <1>. QED BY <1>4, <1>6, <1>7

(* A blank stands in front of every column a text reaches.                 *)
LEMMA FollowBlank ==
  ASSUME NEW s, NEW d, NEW cs, Follows(s, d, cs), NEW i \in 1..Len(cs),
         d + At(cs)[i - 1] >= 1, d + At(cs)[i - 1] <= Len(s)
  PROVE  s[d + At(cs)[i - 1]] = " "
  <1>1. cs \in Seq(Column) /\ d \in Nat /\ Len(s) \in Nat
    BY LenProperties DEF Follows, Text
  <1>2. PICK z, y : z = At(cs)[i - 1] /\ y = d + z
    OBVIOUS
  <1>3. z \in Nat
    BY <1>1, <1>2, AtSteps
  <1>4. y \in 1..Len(s) /\ y >= d /\ y - d + 1 = z + 1
    BY <1>1, <1>2, <1>3
  <1>5. s[y] = PrintColumns(cs)[z + 1]
    BY <1>4 DEF Follows
  <1>6. PrintColumns(cs)[z + 1] = " "
    BY <1>1, <1>2, AtLemma DEF AtSymbols
  <1>. QED BY <1>2, <1>5, <1>6

(* And something else behind that blank.                                   *)
LEMMA FollowFirst ==
  ASSUME NEW s, NEW d, NEW cs, Follows(s, d, cs), NEW i \in 1..Len(cs),
         d + At(cs)[i - 1] + 1 <= Len(s)
  PROVE  s[d + At(cs)[i - 1] + 1] # " "
  <1>1. cs \in Seq(Column)
    BY DEF Follows
  <1>2. cs[i] \in Column /\ CellLen(cs[i]) \in Nat /\ CellLen(cs[i]) >= 2
    BY <1>1, AtSteps
  <1>3. 1 <= CellLen(cs[i])
    BY <1>2
  <1>4. Shows(s, d + At(cs)[i - 1], PrintColumn(cs[i]), 1)
    BY <1>3, FollowShows
  <1>5. s[d + At(cs)[i - 1] + 1] = PrintColumn(cs[i])[1]
    BY <1>4 DEF Shows
  <1>6. PrintColumn(cs[i])[1] \in Safe \cup {"\""}
    BY <1>2, CellFirst
  <1>. QED BY <1>5, <1>6 DEF Safe

(* No column begins with a blank or a line break.                          *)
LEMMA NoBreakFirst ==
  ASSUME NEW c \in Column, NEW q \in 1..CellLen(c), Breaks(PrintColumn(c), q)
  PROVE  q # 1
  BY CellFirst DEF Breaks, Safe

(* As much of a tuple as a text has of it.                                 *)
LEMMA TupleShown ==
  ASSUME NEW s, NEW d, NEW cs, Follows(s, d, cs), Len(cs) # 0, NEW m \in 0..Len(cs),
         m = Len(cs) => Len(s) = d + At(cs)[m] - 1,
         m < Len(cs) => \E q \in 1..CellLen(cs[m + 1]) :
           Breaks(PrintColumn(cs[m + 1]), q) /\ Len(s) = d + At(cs)[m] + q - 1
  PROVE  Tuple(s, d, cs, m)
  <1>. DEFINE n == Len(cs)
              at == At(cs)
  <1>1. cs \in Seq(Column) /\ d \in Nat /\ Len(s) \in Nat /\ s \in Text
    BY LenProperties DEF Follows, Text
  <1>2. /\ n \in Nat /\ at[0] = 0
        /\ \A i \in 0..n : at[i] \in Nat
        /\ \A i \in 1..n :
             /\ i - 1 \in 0..n /\ cs[i] \in Column
             /\ at[i - 1] \in Nat /\ at[i] \in Nat
             /\ CellLen(cs[i]) \in Nat /\ CellLen(cs[i]) >= 2
             /\ at[i] = at[i - 1] + 1 + CellLen(cs[i])
        /\ \A i, j \in 0..n : i <= j => at[i] <= at[j]
    BY <1>1, AtSteps
  <1>3. m < n => \E q \in 2..CellLen(cs[m + 1]) :
                   Breaks(PrintColumn(cs[m + 1]), q) /\ Len(s) = d + at[m] + q - 1
    <2>. SUFFICES ASSUME m < n
                  PROVE  \E q \in 2..CellLen(cs[m + 1]) :
                           Breaks(PrintColumn(cs[m + 1]), q) /\ Len(s) = d + at[m] + q - 1
      OBVIOUS
    <2>1. PICK q \in 1..CellLen(cs[m + 1]) : Breaks(PrintColumn(cs[m + 1]), q) /\ Len(s) = d + at[m] + q - 1
      OBVIOUS
    <2>2. m + 1 \in 1..n
      BY <1>2
    <2>3. cs[m + 1] \in Column /\ CellLen(cs[m + 1]) \in Nat
      BY <1>2, <2>2
    <2>4. q # 1
      BY <2>1, <2>3, NoBreakFirst
    <2>5. q \in 2..CellLen(cs[m + 1])
      BY <2>3, <2>4
    <2>. QED BY <2>1, <2>5
  <1>4. d + at[m] - 1 <= Len(s) /\ (m < n => d + at[m] + 1 <= Len(s))
    <2>1. m \in 0..n /\ at[m] \in Nat
      BY <1>2
    <2>2. CASE m = n
      BY <1>1, <2>1, <2>2
    <2>3. CASE m < n
      <3>1. PICK q \in 2..CellLen(cs[m + 1]) : Len(s) = d + at[m] + q - 1
        BY <1>3, <2>3
      <3>. QED BY <1>1, <2>1, <3>1
    <2>. QED BY <1>2, <2>1, <2>2, <2>3
  <1>. HIDE DEF n, at
  <1>5. ASSUME NEW i \in 1..m
        PROVE  i \in 1..n /\ Shows(s, d + at[i - 1], PrintColumn(cs[i]), CellLen(cs[i])) /\ Ended(s, d + at[i] - 1)
    <2>1. i \in 1..n /\ i \in 0..n /\ m \in 0..n /\ i <= m
      BY <1>2 DEF n
    <2>2. at[i] <= at[m] /\ at[m] \in Nat
      BY <1>2, <2>1
    <2>3. at[i - 1] \in Nat /\ at[i] \in Nat /\ CellLen(cs[i]) \in Nat /\ at[i] = at[i - 1] + 1 + CellLen(cs[i])
      BY <1>2, <2>1
    <2>4. PICK l, x, y, e : l = CellLen(cs[i]) /\ x = at[i - 1] /\ y = at[i] /\ e = at[m]
      OBVIOUS
    <2>5. l \in Nat /\ d + at[i - 1] + l <= Len(s) /\ d + at[i] - 1 <= Len(s) /\ d + at[i] >= 1
      <3>1. l \in Nat /\ x \in Nat /\ y \in Nat /\ y = x + 1 + l /\ y <= e /\ e \in Nat
        BY <2>2, <2>3, <2>4, Zenon
      <3>2. d + e - 1 <= Len(s)
        BY <1>4, <2>4, Zenon
      <3>3. d + x + l <= Len(s) /\ d + y - 1 <= Len(s) /\ d + y >= 1
        BY <1>1, <3>1, <3>2
      <3>. QED BY <2>4, <3>1, <3>3, Zenon
    <2>6. Shows(s, d + at[i - 1], PrintColumn(cs[i]), l)
      BY <2>1, <2>4, <2>5, FollowShows DEF n, at
    <2>7. ASSUME d + at[i] - 1 < Len(s) PROVE s[d + at[i] - 1 + 1] = " "
      <3>1. i < n
        <4>1. m = n => Len(s) = d + at[m] - 1
          BY DEF n, at
        <4>2. ~(i = n)
          BY <1>1, <2>1, <2>3, <2>7, <4>1
        <4>. QED BY <1>2, <2>1, <4>2
      <3>2. PICK j : j = i + 1
        OBVIOUS
      <3>3. j \in 1..n /\ j - 1 = i
        BY <1>2, <2>1, <3>1, <3>2
      <3>a. y \in Nat /\ d + y >= 1 /\ d + y - 1 < Len(s)
        BY <2>3, <2>4, <2>5, <2>7, Zenon
      <3>b. d + y <= Len(s) /\ d + y - 1 + 1 = d + y
        BY <1>1, <3>a
      <3>4. at[j - 1] = y
        BY <2>4, <3>3
      <3>5. s[d + at[j - 1]] = " "
        <4>1. d + at[j - 1] >= 1 /\ d + at[j - 1] <= Len(s)
          BY <3>a, <3>b, <3>4, Zenon
        <4>. QED BY <3>3, <4>1, FollowBlank DEF n, at
      <3>. QED BY <2>4, <3>b, <3>4, <3>5, Zenon
    <2>. QED BY <2>1, <2>4, <2>5, <2>6, <2>7 DEF Ended
  <1>6. ASSUME NEW i \in 0..m, i < n
        PROVE  /\ i > 0 => s[d + at[i]] = " "
               /\ d + at[i] + 1 <= Len(s)
               /\ s[d + at[i] + 1] # " "
    <2>1. PICK j : j = i + 1
      OBVIOUS
    <2>2. j \in 1..n /\ j - 1 = i /\ i \in 0..n /\ m \in 0..n /\ j \in 0..n
      BY <1>2, <1>6, <2>1 DEF n
    <2>3. at[i] \in Nat /\ at[j] \in Nat /\ CellLen(cs[j]) \in Nat /\ CellLen(cs[j]) >= 2
          /\ at[j] = at[i] + 1 + CellLen(cs[j])
      BY <1>2, <2>2
    <2>4. d + at[i] + 1 <= Len(s)
      <3>1. CASE i = m
        BY <1>4, <1>6, <3>1
      <3>2. CASE i < m
        <4>1. j <= m
          BY <2>1, <2>2, <3>2
        <4>2. at[j] <= at[m] /\ at[m] \in Nat
          BY <1>2, <2>2, <4>1
        <4>3. PICK l : l = CellLen(cs[j])
          OBVIOUS
        <4>4. PICK x, y, e : x = at[i] /\ y = at[j] /\ e = at[m]
          OBVIOUS
        <4>5. l \in Nat /\ l >= 2 /\ x \in Nat /\ e \in Nat /\ y = x + 1 + l /\ y <= e
          BY <2>3, <4>2, <4>3, <4>4, Zenon
        <4>6. d + e - 1 <= Len(s)
          BY <1>4, <4>4, Zenon
        <4>7. d + x + 1 <= Len(s)
          BY <1>1, <4>5, <4>6
        <4>. QED BY <4>4, <4>7, Zenon
      <3>. QED BY <2>2, <3>1, <3>2
    <2>5. s[d + at[j - 1] + 1] # " "
      BY <2>2, <2>4, FollowFirst DEF n, at
    <2>6. ASSUME i > 0 PROVE s[d + at[j - 1]] = " "
      <3>1. i \in 1..n
        BY <2>2, <2>6
      <3>2. at[i] >= 1
        <4>1. PICK l, x : l = CellLen(cs[i]) /\ x = at[i - 1]
          OBVIOUS
        <4>2. l \in Nat /\ x \in Nat /\ at[i] = x + 1 + l
          BY <1>2, <3>1, <4>1
        <4>. QED BY <4>2
      <3>3. d + at[j - 1] >= 1 /\ d + at[j - 1] <= Len(s)
        BY <1>1, <2>2, <2>3, <2>4, <3>2
      <3>. QED BY <2>2, <3>3, FollowBlank DEF n, at
    <2>. QED BY <2>2, <2>4, <2>5, <2>6
  <1>7. ASSUME m < n PROVE \E q \in 1..CellLen(cs[m + 1]) : Cut(s, d + at[m], cs[m + 1], q)
    <2>1. PICK q \in 2..CellLen(cs[m + 1]) : Breaks(PrintColumn(cs[m + 1]), q) /\ Len(s) = d + at[m] + q - 1
      BY <1>3, <1>7
    <2>2. PICK j, l : j = m + 1 /\ l = q - 1
      OBVIOUS
    <2>3. j \in 1..n /\ j - 1 = m /\ m \in 0..n
      BY <1>2, <1>7, <2>2 DEF n
    <2>4. at[m] \in Nat /\ CellLen(cs[j]) \in Nat
      BY <1>2, <2>3
    <2>5. l \in Nat /\ l <= CellLen(cs[j]) /\ d + at[j - 1] + l <= Len(s) /\ q \in 1..CellLen(cs[j])
      BY <1>1, <2>1, <2>2, <2>3, <2>4
    <2>6. Shows(s, d + at[j - 1], PrintColumn(cs[j]), l)
      BY <2>3, <2>5, FollowShows DEF n, at
    <2>. QED BY <2>1, <2>2, <2>3, <2>5, <2>6 DEF Cut
  <1>8. Len(s) >= 1
    <2>1. m \in 0..n /\ n # 0
      BY DEF n
    <2>2. 0 \in 0..m /\ 0 < n
      BY <1>2, <2>1
    <2>3. d + at[0] + 1 <= Len(s)
      BY <1>6, <2>2, Zenon
    <2>4. at[0] = 0
      BY <1>2
    <2>. QED BY <1>1, <2>3, <2>4
  <1>9. Opening(s, d)
    BY DEF Follows
  <1>10. m = n => Len(s) = d + at[m] - 1
    BY DEF n, at
  <1>11. WholeCells(s, d, cs, m, at)
    BY <1>5 DEF WholeCells
  <1>12. Gaps(s, d, m, n, at)
    BY <1>6, Zenon DEF Gaps
  <1>13. m < n => \E q \in 1..CellLen(cs[m + 1]) : Cut(s, d + at[m], cs[m + 1], q)
    BY <1>7
  <1>14. m \in 0..n /\ n # 0
    BY DEF n
  <1>15. TupleAt(s, d, cs, m, n, at)
    BY <1>1, <1>8, <1>9, <1>10, <1>11, <1>12, <1>13, <1>14, Zenon DEF TupleAt
  <1>16. TupleAt(s, d, cs, m, Len(cs), At(cs))
    BY <1>15 DEF n, at
  <1>17. Tuple(s, d, cs, m)
    BY <1>16 DEF Tuple
  <1>. QED BY <1>17

(***************************************************************************)
(* The loop of parseColumns on a tuple: the columns read so far are its    *)
(* first ones, and it stops in front of the first that cannot be read.     *)
(***************************************************************************)
StartOf(s, p) == Min({i \in p..Len(s) : s[i] # " "} \cup {Len(s) + 1})

(* The places in front of which the loop of parseColumns stops.            *)
Kept(s, p) == {i \in p..Len(s) : s[i] # " "} \cup {Len(s) + 1}

(* Where the loop of parseColumns stops to skip blanks.                    *)
LEMMA KeptFacts ==
  ASSUME NEW s \in Text, NEW p \in Nat
  PROVE  /\ Kept(s, p) \subseteq p..Len(s) \cup {Len(s) + 1}
         /\ Len(s) + 1 \in Kept(s, p)
         /\ \A i \in p..Len(s) : i \in Kept(s, p) <=> s[i] # " "
  <1>1. Len(s) \in Nat
    BY LenProperties DEF Text
  <1>2. PICK e : e = Len(s)
    OBVIOUS
  <1>3. ~(e + 1 \in p..e)
    BY <1>1, <1>2
  <1>4. \A i \in p..e : i # e + 1
    BY <1>3
  <1>5. Kept(s, p) = {i \in p..e : s[i] # " "} \cup {e + 1}
    BY <1>2 DEF Kept
  <1>. QED BY <1>2, <1>4, <1>5, Zenon

(* The least of some places in a range, or of the end behind it.           *)
LEMMA LeastAt ==
  ASSUME NEW S, NEW p \in Nat, NEW e \in Nat, NEW y \in p..e,
         S \subseteq p..e \cup {e + 1}, y \in S, \A i \in p..e : i < y => i \notin S
  PROVE  Min(S) = y
  <1>1. S \subseteq Nat
    OBVIOUS
  <1>2. Min(S) \in S /\ \A i \in S : Min(S) <= i
    BY <1>1, MinLemma
  <1>3. PICK x : x = Min(S)
    OBVIOUS
  <1>4. x \in S /\ x <= y /\ x \in Nat
    BY <1>1, <1>2, <1>3
  <1>5. x \in p..e
    BY <1>4
  <1>6. x = y
    BY <1>4, <1>5
  <1>. QED BY <1>3, <1>6

(* It stops at the first symbol that is no blank, or behind the text.      *)
LEMMA StartAt ==
  ASSUME NEW s \in Text, NEW p \in Nat, NEW y \in p..Len(s),
         s[y] # " ", \A i \in p..Len(s) : i < y => s[i] = " "
  PROVE  StartOf(s, p) = y
  <1>1. Len(s) \in Nat
    BY LenProperties DEF Text
  <1>2. /\ Kept(s, p) \subseteq p..Len(s) \cup {Len(s) + 1}
        /\ \A i \in p..Len(s) : i \in Kept(s, p) <=> s[i] # " "
    BY KeptFacts
  <1>3. y \in Kept(s, p) /\ \A i \in p..Len(s) : i < y => i \notin Kept(s, p)
    BY <1>2, Zenon
  <1>4. Min(Kept(s, p)) = y
    BY <1>1, <1>2, <1>3, LeastAt, Zenon
  <1>. QED BY <1>4, Zenon DEF Kept, StartOf

(* Behind the end of a text parseColumns is done.                          *)
LEMMA StartEnd ==
  ASSUME NEW s \in Text, NEW p \in Nat, p > Len(s)
  PROVE  StartOf(s, p) = Len(s) + 1
  <1>. DEFINE S == Kept(s, p)
  <1>1. Len(s) \in Nat
    BY LenProperties DEF Text
  <1>2. PICK e : e = Len(s)
    OBVIOUS
  <1>3. S \subseteq p..e \cup {e + 1} /\ e + 1 \in S
    BY <1>2, KeptFacts, Zenon
  <1>. HIDE DEF S
  <1>4. p..e = {} /\ e \in Nat
    BY <1>1, <1>2
  <1>5. S = {e + 1}
    BY <1>3, <1>4
  <1>6. S \subseteq Nat /\ S # {}
    BY <1>4, <1>5
  <1>7. Min(S) \in S
    BY <1>6, MinLemma
  <1>8. Min(S) = Len(s) + 1
    BY <1>2, <1>5, <1>7
  <1>. QED BY <1>8 DEF S, StartOf, Kept

(* The columns read so far are the first of the tuple, and p is the place  *)
(* behind them.                                                            *)
Reads(s, d, cs, m, p, rs) ==
  /\ Tuple(s, d, cs, m) /\ rs \in Seq(Parsed) /\ Len(rs) <= m
  /\ p = IF Len(rs) = 0 THEN 1 ELSE d + At(cs)[Len(rs)]
  /\ \A k \in 1..Len(rs) : ~Bracketing(cs[k]) /\ (d = 0 => ColumnRead(rs[k], cs[k]))

(* The numbers in Reads.                                                   *)
LEMMA ReadsFacts ==
  ASSUME NEW s, NEW d, NEW cs, NEW m, NEW p, NEW rs, Reads(s, d, cs, m, p, rs)
  PROVE  LET n == Len(cs)
             at == At(cs)
         IN  /\ TupleAt(s, d, cs, m, n, at) /\ s \in Text /\ d \in Nat /\ cs \in Seq(Column)
             /\ n \in Nat /\ n # 0 /\ m \in 0..n /\ Len(s) \in Nat /\ Len(s) >= 1
             /\ Len(rs) \in 0..m /\ Len(rs) \in 0..n
             /\ at[Len(rs)] \in Nat /\ at[n] \in Nat /\ at[0] = 0
             /\ p = IF Len(rs) = 0 THEN 1 ELSE d + at[Len(rs)]
             /\ Len(rs) # 0 => at[Len(rs)] >= 1
  <1>. DEFINE n == Len(cs)
              at == At(cs)
              k == Len(rs)
  <1>1. TupleAt(s, d, cs, m, n, at)
    BY Zenon DEF Reads, Tuple
  <1>2. s \in Text /\ d \in Nat /\ cs \in Seq(Column) /\ m \in 0..n /\ n # 0 /\ Len(s) >= 1
    BY <1>1, Zenon DEF TupleAt
  <1>3. k \in Nat /\ k <= m
    BY LenProperties DEF Reads
  <1>4. Len(s) \in Nat
    BY <1>2, LenProperties DEF Text
  <1>5. /\ n \in Nat /\ at[0] = 0
        /\ \A i \in 0..n : at[i] \in Nat
        /\ \A i \in 1..n : /\ at[i - 1] \in Nat
                           /\ CellLen(cs[i]) \in Nat
                           /\ at[i] = at[i - 1] + 1 + CellLen(cs[i])
    BY <1>2, AtSteps
  <1>6. p = IF k = 0 THEN 1 ELSE d + at[k]
    BY DEF Reads
  <1>. HIDE DEF n, at, k
  <1>7. k \in 0..m /\ k \in 0..n /\ n \in 0..n
    BY <1>2, <1>3, <1>5
  <1>8. k # 0 => at[k] >= 1
    <2>. SUFFICES ASSUME k # 0 PROVE at[k] >= 1
      OBVIOUS
    <2>1. k \in 1..n
      BY <1>7
    <2>2. PICK l, x : l = CellLen(cs[k]) /\ x = at[k - 1]
      OBVIOUS
    <2>3. l \in Nat /\ x \in Nat /\ at[k] = x + 1 + l
      BY <1>5, <2>1, <2>2
    <2>. QED BY <2>3
  <1>. QED BY <1>1, <1>2, <1>4, <1>5, <1>6, <1>7, <1>8, Zenon DEF n, at, k

(* While columns are left the loop finds the next one.                     *)
LEMMA ReadsStart ==
  ASSUME NEW s, NEW d, NEW cs, NEW m, NEW p, NEW rs, Reads(s, d, cs, m, p, rs), Len(rs) < Len(cs)
  PROVE  LET y == StartOf(s, p)
             z == d + At(cs)[Len(rs)]
         IN  y \in 1..Len(s) /\ Opens(s, y, z) /\ (d = 0 => y = z + 1)
  <1>. DEFINE n == Len(cs)
              at == At(cs)
              k == Len(rs)
              y == StartOf(s, p)
  <1>1. TupleAt(s, d, cs, m, n, at) /\ s \in Text /\ d \in Nat
    BY ReadsFacts
  <1>2. /\ n \in Nat /\ m \in 0..n /\ Len(s) \in Nat /\ Len(s) >= 1 /\ d \in Nat
        /\ k \in 0..m /\ at[k] \in Nat /\ at[0] = 0
        /\ p = (IF k = 0 THEN 1 ELSE d + at[k]) /\ k < n
    BY ReadsFacts
  <1>3. Opening(s, d) /\ Gaps(s, d, m, n, at)
    BY <1>1, Zenon DEF TupleAt
  <1>. HIDE DEF n, at, k
  <1>4. CASE k = 0
    <2>1. s[1] # " " /\ \A i \in 1..d : s[i] # "["
      BY <1>3 DEF Opening
    <2>2. p = 1 /\ 1 \in Nat /\ 1 \in 1..Len(s) /\ \A i \in 1..Len(s) : ~(i < 1)
      BY <1>2, <1>4
    <2>3. y = 1
      BY <1>1, <2>1, <2>2, StartAt
    <2>4. d + at[k] = d /\ 1 \in 1..(d + 1) /\ (d = 0 => 1 = d + 1)
      BY <1>2, <1>4
    <2>5. Opens(s, 1, d)
      BY <2>1, <2>4 DEF Opens
    <2>6. y \in 1..Len(s) /\ Opens(s, y, d + at[k]) /\ (d = 0 => y = d + at[k] + 1)
      BY <2>2, <2>3, <2>4, <2>5
    <2>. QED BY <2>6 DEF y, k, at
  <1>5. CASE k # 0
    <2>1. k \in 0..m /\ k < n /\ k > 0 /\ p = d + at[k]
      BY <1>2, <1>5
    <2>2. s[p] = " " /\ p + 1 <= Len(s) /\ s[p + 1] # " "
      BY <1>3, <2>1, Zenon DEF Gaps
    <2>3. p + 1 <= Len(s)
      BY <2>2, Zenon
    <2>4. PICK v : v = p + 1
      OBVIOUS
    <2>5. p \in Nat /\ v \in p..Len(s) /\ v \in 1..Len(s) /\ \A i \in p..Len(s) : i < v => i = p
      BY <1>2, <2>1, <2>3, <2>4
    <2>6. s[v] # " " /\ \A i \in p..Len(s) : i < v => s[i] = " "
      BY <2>2, <2>4, <2>5
    <2>7. y = v
      BY <1>1, <2>5, <2>6, StartAt
    <2>8. Opens(s, v, p)
      <3>1. v \in 1..(p + 1) /\ \A i \in v..p : FALSE
        BY <2>4, <2>5
      <3>. QED BY <3>1 DEF Opens
    <2>9. y \in 1..Len(s) /\ Opens(s, y, d + at[k]) /\ (d = 0 => y = d + at[k] + 1)
      BY <2>1, <2>4, <2>5, <2>7, <2>8
    <2>. QED BY <2>9 DEF y, k, at
  <1>. QED BY <1>4, <1>5

(* And behind the last one it finds nothing.                               *)
LEMMA ReadsEnd ==
  ASSUME NEW s, NEW d, NEW cs, NEW m, NEW p, NEW rs, Reads(s, d, cs, m, p, rs)
  PROVE  /\ StartOf(s, p) > Len(s) => Len(rs) = Len(cs) /\ m = Len(cs)
         /\ StartOf(s, p) <= Len(s) => Len(rs) < Len(cs)
  <1>. DEFINE n == Len(cs)
              at == At(cs)
              k == Len(rs)
              y == StartOf(s, p)
  <1>1. TupleAt(s, d, cs, m, n, at) /\ s \in Text /\ d \in Nat
    BY ReadsFacts
  <1>2. /\ n \in Nat /\ n # 0 /\ m \in 0..n /\ Len(s) \in Nat /\ Len(s) >= 1 /\ d \in Nat
        /\ k \in 0..m /\ k \in 0..n /\ at[n] \in Nat /\ at[k] \in Nat
        /\ p = (IF k = 0 THEN 1 ELSE d + at[k]) /\ (k # 0 => at[k] >= 1)
    BY ReadsFacts
  <1>3. CASE k < n
    <2>1. y \in 1..Len(s)
      BY <1>3, ReadsStart
    <2>2. ~(y > Len(s))
      BY <1>2, <2>1
    <2>. QED BY <1>3, <2>2
  <1>4. CASE k = n
    <2>1. m = n
      BY <1>2, <1>4
    <2>2. Len(s) = d + at[n] - 1
      BY <1>1, <2>1, Zenon DEF TupleAt
    <2>3. p \in Nat /\ p > Len(s)
      BY <1>2, <1>4, <2>2
    <2>4. y = Len(s) + 1
      BY <1>1, <2>3, StartEnd
    <2>5. ~(y <= Len(s))
      BY <1>2, <2>4
    <2>. QED BY <1>4, <2>1, <2>5
  <1>. QED BY <1>2, <1>3, <1>4

(* What parseColumn makes of the next column.                              *)
LEMMA ReadsHere ==
  ASSUME NEW s, NEW d, NEW cs, NEW m, NEW p, NEW rs, Reads(s, d, cs, m, p, rs), Len(rs) < Len(cs),
         NEW j, j = Len(rs) + 1
  PROVE  LET found == ParseColumn(s, StartOf(s, p))
         IN  /\ Len(rs) = m => found = {} /\ m < Len(cs)
             /\ Len(rs) # m =>
                  /\ j \in 1..m /\ j \in 1..Len(cs)
                  /\ Bracketing(cs[j]) => found = {}
                  /\ ~Bracketing(cs[j]) =>
                       \E r \in Parsed : /\ found = {[column |-> r, next |-> d + At(cs)[j]]}
                                         /\ d = 0 => ColumnRead(r, cs[j])
  <1>. DEFINE n == Len(cs)
              at == At(cs)
              k == Len(rs)
              y == StartOf(s, p)
              z == d + at[k]
              found == ParseColumn(s, y)
  <1>1. TupleAt(s, d, cs, m, n, at) /\ s \in Text /\ d \in Nat /\ cs \in Seq(Column)
    BY ReadsFacts
  <1>2. /\ n \in Nat /\ m \in 0..n /\ Len(s) \in Nat /\ d \in Nat
        /\ k \in 0..m /\ at[k] \in Nat /\ k < n
    BY ReadsFacts
  <1>3. Opens(s, y, z) /\ (d = 0 => y = z + 1)
    BY ReadsStart
  <1>4. /\ WholeCells(s, d, cs, m, at)
        /\ m < n => \E q \in 1..CellLen(cs[m + 1]) : Cut(s, d + at[m], cs[m + 1], q)
    BY <1>1, Zenon DEF TupleAt
  <1>5. \A i \in 1..n : /\ cs[i] \in Column
                        /\ at[i - 1] \in Nat
                        /\ CellLen(cs[i]) \in Nat
                        /\ at[i] = at[i - 1] + 1 + CellLen(cs[i])
    BY <1>1, AtSteps
  <1>6. j = k + 1
    OBVIOUS
  <1>. HIDE DEF n, at, k, y, z, found
  <1>7. j \in 1..n /\ j - 1 = k
    BY <1>2, <1>6
  <1>8. cs[j] \in Column /\ CellLen(cs[j]) \in Nat /\ at[j] = at[k] + 1 + CellLen(cs[j])
    BY <1>5, <1>7
  <1>9. z = d + at[k] /\ z \in Nat
    BY <1>2 DEF z
  <1>10. CASE k = m
    <2>1. m < n /\ j = m + 1 /\ d + at[m] = z
      BY <1>2, <1>6, <1>9, <1>10
    <2>2. PICK q \in 1..CellLen(cs[j]) : Cut(s, z, cs[j], q)
      BY <1>4, <2>1
    <2>3. found = {}
      BY <1>1, <1>3, <1>8, <1>9, <2>2, ColumnCut DEF Cut, found
    <2>. QED BY <1>10, <2>1, <2>3 DEF found, k, y, n
  <1>11. CASE k # m
    <2>1. j \in 1..m
      BY <1>2, <1>6, <1>11
    <2>2. Shows(s, d + at[j - 1], PrintColumn(cs[j]), CellLen(cs[j])) /\ Ended(s, d + at[j] - 1)
      BY <1>4, <2>1, Zenon DEF WholeCells
    <2>3. PICK l, a, e : l = CellLen(cs[j]) /\ a = at[k] /\ e = at[j]
      OBVIOUS
    <2>4. d + e - 1 = z + l /\ z + l + 1 = d + e
      <3>1. l \in Nat /\ a \in Nat /\ e = a + 1 + l /\ z = d + a
        BY <1>2, <1>8, <1>9, <2>3, Zenon
      <3>. QED BY <1>2, <3>1
    <2>5. Shows(s, z, PrintColumn(cs[j]), CellLen(cs[j]))
      BY <1>7, <1>9, <2>2
    <2>6. Ended(s, z + CellLen(cs[j]))
      BY <2>2, <2>3, <2>4, Zenon
    <2>7. /\ Bracketing(cs[j]) => found = {}
          /\ ~Bracketing(cs[j]) =>
               \E r \in Parsed : /\ found = {[column |-> r, next |-> z + CellLen(cs[j]) + 1]}
                                 /\ y = z + 1 => ColumnRead(r, cs[j])
      BY <1>1, <1>3, <1>8, <1>9, <2>5, <2>6, ColumnWhole DEF found
    <2>8. ASSUME ~Bracketing(cs[j])
          PROVE  \E r \in Parsed : /\ found = {[column |-> r, next |-> d + at[j]]}
                                   /\ d = 0 => ColumnRead(r, cs[j])
      <3>1. PICK r \in Parsed : /\ found = {[column |-> r, next |-> z + l + 1]}
                                /\ y = z + 1 => ColumnRead(r, cs[j])
        BY <2>3, <2>7, <2>8, Zenon
      <3>2. z + l + 1 = d + at[j]
        BY <2>3, <2>4, Zenon
      <3>3. found = {[column |-> r, next |-> d + at[j]]}
        BY <3>1, <3>2, Zenon
      <3>. QED BY <1>3, <3>1, <3>3, Zenon
    <2>. QED BY <1>7, <1>11, <2>1, <2>7, <2>8, Zenon DEF found, k, y, n, at
  <1>. QED BY <1>10, <1>11

(* A column that parseColumn returns is the next one printed, and pos      *)
(* stands behind it.                                                       *)
LEMMA ReadsNext ==
  ASSUME NEW s, NEW d, NEW cs, NEW m, NEW p, NEW rs, Reads(s, d, cs, m, p, rs),
         StartOf(s, p) <= Len(s), NEW c \in ParseColumn(s, StartOf(s, p))
  PROVE  Reads(s, d, cs, m, c.next, Append(rs, c.column))
  <1>. DEFINE k == Len(rs)
              us == Append(rs, c.column)
              at == At(cs)
  <1>1. k < Len(cs)
    BY ReadsEnd
  <1>2. PICK j : j = k + 1
    OBVIOUS
  <1>3. k # m /\ j \in 1..m /\ j \in 1..Len(cs) /\ ~Bracketing(cs[j])
    BY <1>1, <1>2, ReadsHere
  <1>4. PICK r \in Parsed : /\ ParseColumn(s, StartOf(s, p)) = {[column |-> r, next |-> d + at[j]]}
                            /\ d = 0 => ColumnRead(r, cs[j])
    BY <1>1, <1>2, <1>3, ReadsHere
  <1>5. c = [column |-> r, next |-> d + at[j]]
    BY <1>4
  <1>6. c.column = r /\ c.next = d + at[j]
    BY <1>5
  <1>7. rs \in Seq(Parsed) /\ Tuple(s, d, cs, m)
    BY Zenon DEF Reads
  <1>8. \A i \in 1..k : ~Bracketing(cs[i]) /\ (d = 0 => ColumnRead(rs[i], cs[i]))
    BY Zenon DEF Reads
  <1>9. us \in Seq(Parsed) /\ Len(us) = k + 1 /\ us[k + 1] = r /\ \A i \in 1..k : us[i] = rs[i]
    BY <1>6, <1>7, AppendProperties
  <1>10. k \in Nat
    BY <1>7, LenProperties
  <1>. HIDE DEF k, us, at
  <1>11. Len(us) = j /\ us[j] = r /\ j # 0 /\ j <= m
    BY <1>2, <1>3, <1>9, <1>10
  <1>12. \A i \in 1..j : i \in 1..k \/ i = j
    BY <1>2, <1>10
  <1>13. \A i \in 1..j : ~Bracketing(cs[i]) /\ (d = 0 => ColumnRead(us[i], cs[i]))
    BY <1>3, <1>4, <1>8, <1>9, <1>11, <1>12, Zenon
  <1>14. c.next = IF Len(us) = 0 THEN 1 ELSE d + at[Len(us)]
    BY <1>6, <1>11, Zenon
  <1>15. us \in Seq(Parsed) /\ Len(us) <= m
    BY <1>9, <1>11, Zenon
  <1>16. Reads(s, d, cs, m, c.next, us)
    BY <1>7, <1>11, <1>13, <1>14, <1>15, Zenon DEF Reads, at
  <1>. QED BY <1>16 DEF us

(* A column that it refuses is cut off or has brackets of its own.         *)
LEMMA ReadsRefuse ==
  ASSUME NEW s, NEW d, NEW cs, NEW m, NEW p, NEW rs, Reads(s, d, cs, m, p, rs),
         StartOf(s, p) <= Len(s), ParseColumn(s, StartOf(s, p)) = {}
  PROVE  m < Len(cs) \/ \E j \in 1..Len(cs) : Bracketing(cs[j])
  <1>1. Len(rs) < Len(cs)
    BY ReadsEnd
  <1>2. PICK j : j = Len(rs) + 1
    OBVIOUS
  <1>3. CASE Len(rs) = m
    BY <1>1, <1>2, <1>3, ReadsHere
  <1>4. CASE Len(rs) # m
    <2>1. j \in 1..Len(cs)
      BY <1>1, <1>2, <1>4, ReadsHere
    <2>2. ASSUME ~Bracketing(cs[j]) PROVE FALSE
      <3>1. PICK r \in Parsed : ParseColumn(s, StartOf(s, p)) = {[column |-> r, next |-> d + At(cs)[j]]}
        BY <1>1, <1>2, <1>4, <2>2, ReadsHere
      <3>. QED BY <3>1
    <2>. QED BY <2>1, <2>2
  <1>. QED BY <1>3, <1>4

(* When the loop is done every column was read.                            *)
LEMMA ReadsAll ==
  ASSUME NEW s, NEW d, NEW cs, NEW m, NEW p, NEW rs, Reads(s, d, cs, m, p, rs),
         StartOf(s, p) > Len(s)
  PROVE  /\ m = Len(cs) /\ Len(rs) = Len(cs) /\ rs \in Seq(Parsed) /\ cs \in Seq(Column)
         /\ \A k \in 1..Len(cs) : ~Bracketing(cs[k]) /\ (d = 0 => ColumnRead(rs[k], cs[k]))
  <1>1. Len(rs) = Len(cs) /\ m = Len(cs)
    BY ReadsEnd
  <1>2. cs \in Seq(Column)
    BY ReadsFacts
  <1>. QED BY <1>1, <1>2 DEF Reads

----------------------------------------------------------------------------------
(* The changes, and what their lines show of them.                         *)
LEMMA NotNullLemma ==
  ASSUME NEW cs \in Seq(Column)
  PROVE  NotNull(cs) \in Seq(Column) /\ (cs = <<>> => NotNull(cs) = <<>>)
  <1>. DEFINE n == Len(cs)
              parts == [i \in DOMAIN cs |-> IF cs[i].datum.kind = "null" THEN <<>> ELSE <<cs[i]>>]
  <1>1. n \in Nat /\ DOMAIN cs = 1..n /\ \A i \in 1..n : cs[i] \in Column
    BY LenProperties
  <1>2. \A c \in Column : <<>> \in Seq(Column) /\ <<c>> \in Seq(Column)
    OBVIOUS
  <1>3. parts \in [1..n -> Seq(Column)]
    BY <1>1, <1>2
  <1>4. NotNull(cs) = FlattenSeq(parts)
    BY DEF NotNull
  <1>. HIDE DEF parts
  <1>5. PICK at : Placed(FlattenSeq(parts), Column, parts, n, at)
    BY <1>1, <1>3, PlacedLemma
  <1>6. NotNull(cs) \in Seq(Column) /\ Len(NotNull(cs)) = at[n] /\ at[0] = 0
    BY <1>4, <1>5, Zenon DEF Placed
  <1>7. cs = <<>> => n = 0
    OBVIOUS
  <1>. QED BY <1>6, <1>7, EmptySeq

(* Operations without a row, and the names a change may have.              *)
Rowless == {"BEGIN", "COMMIT", "truncate"}
Operations == Rowless \cup {"insert", "update", "delete"}
TableNames == Tables \cup {<<"t">>}

(* Rows and updates of them, and all changes.                              *)
LEMMA RowFacts ==
  ASSUME NEW r \in Rows
  PROVE  r \in Seq(Column) /\ r # <<>> /\ \A q \in UpdatedTo(r) : q \in Seq(Column) /\ q # <<>>
  <1>1. PICK n \in 1..MaxColumns : r \in [1..n -> Column]
    BY Zenon DEF Rows, Column
  <1>2. n \in Nat /\ n >= 1
    BY <1>1, ColumnsAssumption
  <1>3. \A q \in [1..n -> Column] : q \in Seq(Column) /\ q # <<>>
    BY <1>2
  <1>4. ASSUME NEW q \in UpdatedTo(r) PROVE q \in [1..n -> Column]
    <2>1. PICK i \in DOMAIN r, e \in Datums : q = [r EXCEPT ![i].datum = e]
      BY DEF UpdatedTo
    <2>2. i \in 1..n /\ r[i] \in Column
      BY <1>1, <2>1
    <2>3. [r[i] EXCEPT !.datum = e] \in Column
      BY <2>2 DEF Column
    <2>4. q = [r EXCEPT ![i] = [r[i] EXCEPT !.datum = e]]
      BY <2>1
    <2>. QED BY <1>1, <2>2, <2>3, <2>4
  <1>. QED BY <1>1, <1>3, <1>4

(* Which tuples the operations have.                                       *)
LEMMA ChangeFacts ==
  ASSUME NEW w \in Changes
  PROVE  /\ w.op \in Operations /\ w.table \in TableNames
         /\ w.columns \in Seq(Column) /\ w.old \in Seq(Column)
         /\ w.op \in Rowless => w.columns = <<>> /\ w.old = <<>>
         /\ w.op = "insert" => w.columns # <<>> /\ w.old = <<>>
         /\ w.op = "update" => w.columns # <<>>
         /\ w.op = "delete" => w.columns = <<>>
  <1>. DEFINE F(u) == /\ u.op \in Operations /\ u.table \in TableNames
                      /\ u.columns \in Seq(Column) /\ u.old \in Seq(Column)
                      /\ u.op \in Rowless => u.columns = <<>> /\ u.old = <<>>
                      /\ u.op = "insert" => u.columns # <<>> /\ u.old = <<>>
                      /\ u.op = "update" => u.columns # <<>>
                      /\ u.op = "delete" => u.columns = <<>>
  <1>2. <<>> \in Seq(Column) /\ \A t \in Tables \cup {<<"t">>} : t \in TableNames
    BY DEF TableNames
  <1>3. CASE w \in {Change(op, <<"t">>, <<>>, <<>>) : op \in {"BEGIN", "COMMIT", "truncate", "delete"}}
    <2>1. PICK op \in {"BEGIN", "COMMIT", "truncate", "delete"} : w = Change(op, <<"t">>, <<>>, <<>>)
      BY <1>3
    <2>2. w.op = op /\ w.table = <<"t">> /\ w.columns = <<>> /\ w.old = <<>>
      BY <2>1 DEF Change
    <2>3. op \in Operations /\ op # "insert" /\ op # "update"
      BY <2>1 DEF Operations, Rowless
    <2>. QED BY <1>2, <2>2, <2>3, Zenon
  <1>4. CASE w \in {Change("insert", t, r, <<>>) : t \in Tables, r \in {u \in Rows : Stored(u)}}
    <2>1. PICK t \in Tables, r \in Rows : w = Change("insert", t, r, <<>>)
      BY <1>4
    <2>2. w.op = "insert" /\ w.table = t /\ w.columns = r /\ w.old = <<>>
      BY <2>1 DEF Change
    <2>3. "insert" \in Operations /\ "insert" \notin Rowless
      BY DEF Operations, Rowless
    <2>4. r \in Seq(Column) /\ r # <<>>
      BY RowFacts
    <2>5. "insert" # "update" /\ "insert" # "delete"
      OBVIOUS
    <2>. QED BY <1>2, <2>1, <2>2, <2>3, <2>4, <2>5, Zenon
  <1>5. CASE w \in {Change("delete", t, <<>>, r) : t \in Tables, r \in {u \in Rows : Stored(u)}}
    <2>1. PICK t \in Tables, r \in Rows : w = Change("delete", t, <<>>, r)
      BY <1>5
    <2>2. w.op = "delete" /\ w.table = t /\ w.columns = <<>> /\ w.old = r
      BY <2>1 DEF Change
    <2>3. "delete" \in Operations /\ "delete" \notin Rowless
      BY DEF Operations, Rowless
    <2>4. r \in Seq(Column)
      BY RowFacts
    <2>5. "delete" # "update" /\ "insert" # "delete"
      OBVIOUS
    <2>. QED BY <1>2, <2>1, <2>2, <2>3, <2>4, <2>5, Zenon
  <1>6. CASE w \in UNION {{Change("update", <<"t">>, q, o) : q \in UpdatedTo(r), o \in {r, <<>>}}
                            : r \in {u \in Rows : Stored(u)}}
    <2>1. PICK r \in Rows : w \in {Change("update", <<"t">>, q, o) : q \in UpdatedTo(r), o \in {r, <<>>}}
      BY <1>6
    <2>2. PICK q \in UpdatedTo(r), o \in {r, <<>>} : w = Change("update", <<"t">>, q, o)
      BY <2>1
    <2>3. w.op = "update" /\ w.table = <<"t">> /\ w.columns = q /\ w.old = o
      BY <2>2 DEF Change
    <2>4. "update" \in Operations /\ "update" \notin Rowless
      BY DEF Operations, Rowless
    <2>5. q \in Seq(Column) /\ q # <<>> /\ o \in Seq(Column)
      BY <1>2, RowFacts
    <2>6. "delete" # "update" /\ "insert" # "update"
      OBVIOUS
    <2>. QED BY <1>2, <2>3, <2>4, <2>5, <2>6, Zenon
  <1>. QED BY <1>3, <1>4, <1>5, <1>6 DEF Changes

(***************************************************************************)
(* What a file or a slot carries of a line, and its head.                  *)
(***************************************************************************)
LineBreak(s, i) == carrier = "file" /\ s[i] = "\n"
(* The places at which a file ends a line.                                 *)
LineBreaks(s) == {i \in DOMAIN s : LineBreak(s, i)}

(* A text ends where it does, or at the first line break of a file.        *)
EndsAt(s, l) ==
  /\ \A x \in 1..l : ~LineBreak(s, x)
  /\ l < Len(s) => LineBreak(s, l + 1)

(* What is carried is the line up to its first line break, if it is in a   *)
(* file.                                                                   *)
LEMMA CarriedLemma ==
  ASSUME NEW s \in Text
  PROVE  /\ Carried(s) \in Text /\ Len(s) \in Nat /\ Len(Carried(s)) \in 0..Len(s)
         /\ \A x \in 1..Len(Carried(s)) : Carried(s)[x] = s[x]
         /\ EndsAt(s, Len(Carried(s)))
  <1>. DEFINE B == LineBreaks(s)
              n == Len(s)
  <1>1. n \in Nat /\ DOMAIN s = 1..n
    BY LenProperties DEF Text
  <1>2. Carried(s) = IF B = {} THEN s ELSE SubSeq(s, 1, Min(B) - 1)
    BY DEF Carried, LineBreaks, LineBreak
  <1>3. B \subseteq 1..n /\ \A x \in 1..n : x \in B <=> LineBreak(s, x)
    BY <1>1, Zenon DEF LineBreaks
  <1>. HIDE DEF B, n
  <1>4. CASE B = {}
    <2>1. Carried(s) = s
      BY <1>2, <1>4
    <2>2. \A x \in 1..n : ~LineBreak(s, x)
      BY <1>3, <1>4
    <2>3. n \in 0..n /\ ~(n < n)
      BY <1>1
    <2>. QED BY <1>1, <2>1, <2>2, <2>3, Zenon DEF EndsAt, n
  <1>5. CASE B # {}
    <2>1. B \subseteq Nat
      BY <1>1, <1>3
    <2>2. Min(B) \in B /\ \A x \in B : Min(B) <= x
      BY <1>5, <2>1, MinLemma
    <2>3. PICK k : k = Min(B)
      OBVIOUS
    <2>4. k \in B /\ k \in 1..n /\ k \in 1..(n + 1) /\ k - 1 \in 0..n /\ k - 1 < n /\ k - 1 + 1 = k
          /\ \A x \in 1..(k - 1) : x \in 1..n /\ x \notin B
      <3>1. k \in B /\ (\A x \in B : k <= x) /\ k \in 1..n
        BY <1>3, <2>2, <2>3, Zenon
      <3>2. B \subseteq 1..n
        BY <1>3, Zenon
      <3>. QED BY <1>1, <3>1, <3>2
    <2>5. Carried(s) = Before(s, k)
      BY <1>2, <1>5, <2>3 DEF Before
    <2>6. Carried(s) \in Text /\ Len(Carried(s)) = k - 1 /\ \A x \in 1..(k - 1) : Carried(s)[x] = s[x]
      BY <2>4, <2>5, FromLemma DEF n
    <2>7. LineBreak(s, k) /\ \A x \in 1..(k - 1) : ~LineBreak(s, x)
      BY <1>3, <2>4, Zenon
    <2>8. EndsAt(s, k - 1)
      BY <2>4, <2>7, Zenon DEF EndsAt
    <2>. QED BY <1>1, <2>4, <2>6, <2>8, Zenon DEF n
  <1>. QED BY <1>4, <1>5

(* What splitTable makes of the printed name of a table in the schema      *)
(* "public": the name, unless it is quoted.                                *)
TableRead(sch, tab, t) ==
  IdentNames(QuoteIdent(tab), t) /\ QuoteIdent(sch) = <<"public">> <=> Plain(t)

(* A dot is no letter, so a schema that ends elsewhere is quoted.          *)
LEMMA QuotedIdent ==
  ASSUME NEW s \in Text, NEW x \in 1..Len(s), s[x] = "."
  PROVE  QuoteIdent(s) # <<"public">>
  <1>1. PICK q \in Symbols : q = "\""
    BY Literals
  <1>2. DOMAIN s = 1..Len(s)
    BY LenProperties DEF Text
  <1>3. s[x] \notin Letters
    BY DEF Letters, Safe
  <1>4. QuoteIdent(s) = Quoted(s, q)
    BY <1>1, <1>2, <1>3, Zenon DEF QuoteIdent
  <1>5. QuoteIdent(s)[1] = q
    BY <1>4, QuotedLemma
  <1>6. <<"public">>[1] = "public"
    OBVIOUS
  <1>7. q # "public"
    BY <1>1
  <1>. QED BY <1>5, <1>6, <1>7

(* splitTable cuts at the last dot: only a table that is printed without   *)
(* quotes is named for what it is.                                         *)
LEMMA SplitTableRead ==
  ASSUME NEW t \in Idents, NEW name \in Text,
         Len(name) = 2 + Len(PrintName(t)), name[1] = "public", name[2] = ".",
         \A x \in 1..Len(PrintName(t)) : name[2 + x] = PrintName(t)[x]
  PROVE  TableRead(SplitTable(name).schema, SplitTable(name).table, t)
  <1>. DEFINE D == {i \in DOMAIN name : name[i] = "."}
              p == PrintName(t)
              h == Len(p)
              n == Len(name)
  <1>1. h \in Nat /\ h >= 1 /\ p \in Text /\ n = 2 + h /\ DOMAIN name = 1..n
    BY PrintNameLemma, LenProperties DEF Text
  <1>2. D \subseteq 1..n /\ \A x \in 1..n : x \in D <=> name[x] = "."
    BY <1>1, Zenon
  <1>3. SplitTable(name).schema = Before(name, Max(D)) /\ SplitTable(name).table = From(name, Max(D) + 1)
    BY DEF SplitTable
  <1>s. name[1] = "public" /\ name[2] = "." /\ \A x \in 1..h : name[2 + x] = p[x]
    OBVIOUS
  <1>. HIDE DEF D, p, h, n
  <1>4. 2 \in 1..n /\ 1 \in 1..n /\ n \in Nat /\ D \subseteq 0..n
    BY <1>1, <1>2
  <1>5. 2 \in D /\ 1 \notin D
    <2>1. name[1] # "."
      BY <1>s
    <2>. QED BY <1>2, <1>4, <1>s, <2>1, Zenon
  <1>6. Max(D) \in D /\ \A x \in D : x <= Max(D)
    BY <1>4, <1>5, MaxLemma
  <1>7. PICK k : k = Max(D)
    OBVIOUS
  <1>8. k \in D /\ k \in 1..n /\ 2 <= k /\ k \in 1..(n + 1) /\ k + 1 \in 1..(n + 1)
    <2>1. k \in D /\ 2 <= k /\ k \in 1..n
      BY <1>2, <1>5, <1>6, <1>7, Zenon
    <2>2. n \in Nat
      BY <1>4, Zenon
    <2>3. k \in 1..(n + 1) /\ k + 1 \in 1..(n + 1)
      BY <2>1, <2>2
    <2>. QED BY <2>1, <2>3
  <1>9. /\ Before(name, k) \in Text /\ Len(Before(name, k)) = k - 1
        /\ \A x \in 1..(k - 1) : Before(name, k)[x] = name[x]
    BY <1>8, FromLemma DEF n
  <1>10. /\ From(name, k + 1) \in Text /\ Len(From(name, k + 1)) = n - (k + 1) + 1
         /\ \A x \in 1..(n - (k + 1) + 1) : From(name, k + 1)[x] = name[k + 1 + x - 1]
    BY <1>8, FromLemma DEF n
  <1>11. CASE k = 2
    <2>1. 2 - 1 = 1 /\ 1 \in 1..(2 - 1) /\ n - (2 + 1) + 1 = h /\ \A x \in 1..h : 2 + 1 + x - 1 = 2 + x
      BY <1>1
    <2>2. Before(name, k) = <<"public">>
      <3>1. PICK a : a = Before(name, k)
        OBVIOUS
      <3>2. a \in Seq(Symbols) /\ Len(a) = 1 /\ a[1] = "public"
        BY <1>9, <1>11, <1>s, <2>1, <3>1, Zenon DEF Text
      <3>3. a = <<a[1]>>
        BY <3>2
      <3>. QED BY <3>1, <3>2, <3>3
    <2>3. QuoteIdent(<<"public">>) = <<"public">>
      <3>1. DOMAIN <<"public">> = {1} /\ <<"public">>[1] = "public"
        OBVIOUS
      <3>2. "public" \in Letters
        BY DEF Letters, Safe
      <3>. QED BY <3>1, <3>2 DEF QuoteIdent
    <2>4. From(name, k + 1) = p
      <3>1. PICK b : b = From(name, k + 1)
        OBVIOUS
      <3>2. b \in Text /\ Len(b) = h /\ \A x \in 1..h : b[x] = name[2 + x]
        BY <1>10, <1>11, <2>1, <3>1, Zenon
      <3>3. \A x \in 1..h : b[x] = p[x]
        BY <1>s, <3>2, Zenon
      <3>4. b \in Seq(Symbols) /\ p \in Seq(Symbols) /\ Len(b) = Len(p)
        BY <1>1, <3>2 DEF Text, h
      <3>5. \A x \in 1..Len(b) : b[x] = p[x]
        BY <3>2, <3>3
      <3>6. b = p
        BY <3>4, <3>5, SeqEqual
      <3>. QED BY <3>1, <3>6
    <2>5. IdentNames(QuoteIdent(p), t) <=> Plain(t)
      BY QuotedNameRead DEF NameRead, p
    <2>. QED BY <1>3, <1>7, <2>2, <2>3, <2>4, <2>5 DEF TableRead
  <1>12. CASE k # 2
    <2>1. 2 \in 1..(k - 1) /\ k - 2 \in 1..h /\ 2 + (k - 2) = k
      BY <1>1, <1>8, <1>12
    <2>2. Before(name, k)[2] = "."
      BY <1>9, <1>s, <2>1, Zenon
    <2>3. 2 \in 1..Len(Before(name, k))
      BY <1>9, <2>1, Zenon
    <2>4. QuoteIdent(Before(name, k)) # <<"public">>
      BY <1>9, <2>2, <2>3, QuotedIdent
    <2>5. ~Plain(t)
      <3>1. p[k - 2] = "."
        BY <1>2, <1>8, <1>s, <2>1
      <3>2. Plain(t) => p = t /\ DOMAIN t = 1..h
        BY PrintNameLemma, NameFacts DEF p, h
      <3>3. "." \notin Safe
        BY DEF Safe
      <3>. QED BY <2>1, <3>1, <3>2, <3>3 DEF Plain
    <2>. QED BY <1>3, <1>7, <2>4, <2>5 DEF TableRead
  <1>. QED BY <1>11, <1>12

(* The separator is not in a printed name.                                 *)
LEMMA NoSeparator ==
  ASSUME NEW t \in TableNames, NEW x \in 1..Len(PrintName(t)), PrintName(t)[x] = ":"
  PROVE  x + 1 <= Len(PrintName(t)) /\ PrintName(t)[x + 1] # " "
  <1>1. t \in Idents
    BY DEF Idents, TableNames
  <1>2. t \in Text /\ Len(t) \in Nat /\ DOMAIN t = 1..Len(t)
    BY <1>1, NameFacts
  <1>3. CASE Plain(t)
    <2>1. t[x] = ":" /\ x \in DOMAIN t
      BY <1>1, <1>2, <1>3, PrintNameLemma
    <2>2. ":" \notin Safe
      BY DEF Safe
    <2>. QED BY <1>3, <2>1, <2>2 DEF Plain
  <1>4. CASE ~Plain(t)
    <2>1. PICK q \in Symbols : q = "\""
      BY Literals
    <2>2. PrintName(t) = Quoted(t, q)
      BY <1>1, <1>4, <2>1, PrintNameLemma
    <2>3. t \in Tables
      <3>1. Plain(<<"t">>)
        BY DEF Plain, Safe
      <3>. QED BY <1>4, <3>1 DEF TableNames
    <2>4. \A i \in 1..Len(t) : ~(t[i] = ":" /\ i < Len(t) /\ t[i + 1] = " ")
      BY <1>2, <2>3, NamesAssumption
    <2>5. PICK at : Doubles(t, q, at)
      BY <1>2, DoubleLemma
    <2>6. q # ":" /\ q # " "
      BY <2>1
    <2>7. x \in 1..Len(Quoted(t, q)) /\ Quoted(t, q)[x] = ":" /\ Quoted(t, q)[x] # q
      BY <2>2, <2>6
    <2>t. t \in Text
      BY <1>2
    <2>8. PICK k \in 1..Len(t) : x = at[k - 1] + 2 /\ t[k] = Quoted(t, q)[x]
      BY <2>t, <2>5, <2>7, InQuotes
    <2>k. t[k] = ":" /\ t[k] # q
      BY <2>7, <2>8
    <2>9. /\ at[k - 1] \in Nat /\ at[k - 1] + 3 <= Len(Quoted(t, q))
          /\ Quoted(t, q)[at[k - 1] + 3] = IF k < Len(t) THEN t[k + 1] ELSE q
      BY <2>t, <2>5, <2>k, OutQuotes
    <2>10. at[k - 1] + 3 = x + 1
      <3>1. x = at[k - 1] + 2 /\ at[k - 1] \in Nat
        BY <2>8, <2>9, Zenon
      <3>. QED BY <3>1
    <2>11. Quoted(t, q)[at[k - 1] + 3] # " "
      BY <2>4, <2>6, <2>k, <2>9, Zenon
    <2>. QED BY <2>2, <2>9, <2>10, <2>11, Zenon
  <1>. QED BY <1>3, <1>4

(* The parser's search for the end of a name and of an operation.          *)
Separates(s, i) == s[i] = ":" /\ s[i + 1] = " "

(* Where the separator is found.                                           *)
LEMMA SeparatorStands ==
  ASSUME NEW s, NEW i
  PROVE  /\ Separator \in Text /\ Len(Separator) = 2
         /\ i \in Int => (Stands(s, Separator, i) <=> Separates(s, i))
  <1>1. PICK a \in Symbols, b \in Symbols : a = ":" /\ b = " "
    BY Literals
  <1>2. Separator = <<a, b>>
    BY <1>1 DEF Separator
  <1>3. <<a, b>> \in Text /\ Len(<<a, b>>) = 2 /\ <<a, b>>[1] = a /\ <<a, b>>[2] = b
    BY DEF Text
  <1>4. ASSUME i \in Int PROVE i + 1 - 1 = i /\ i + 2 - 1 = i + 1
    BY <1>4
  <1>5. \A p \in 1..2 : p = 1 \/ p = 2
    OBVIOUS
  <1>6. 1 \in 1..2 /\ 2 \in 1..2
    OBVIOUS
  <1>7. ASSUME i \in Int PROVE Stands(s, <<a, b>>, i) <=> s[i] = a /\ s[i + 1] = b
    <2>1. Stands(s, <<a, b>>, i) <=> \A p \in 1..2 : s[i + p - 1] = <<a, b>>[p]
      BY <1>3 DEF Stands
    <2>2. i + 1 - 1 = i /\ i + 2 - 1 = i + 1
      BY <1>4, <1>7
    <2>. QED BY <1>3, <1>5, <1>6, <2>1, <2>2
  <1>. QED BY <1>1, <1>2, <1>3, <1>7 DEF Separates

(* strings.Index finds the first separator.                                *)
LEMMA SeparatorFirst ==
  ASSUME NEW s \in Text, NEW first \in Nat \ {0}, NEW k \in first..(Len(s) - 1),
         Separates(s, k), \A i \in first..(k - 1) : ~Separates(s, i)
  PROVE  IndexFrom(s, Separator, first) = {k}
  <1>. DEFINE last == Len(s) - Len(Separator) + 1
  <1>1. Separator \in Text /\ Len(Separator) = 2
    BY SeparatorStands
  <1>2. Len(s) \in Nat
    BY LenProperties DEF Text
  <1>3. last = Len(s) - 1
    BY <1>1, <1>2
  <1>4. \A i \in Int : Stands(s, Separator, i) <=> Separates(s, i)
    BY SeparatorStands
  <1>5. k \in first..last /\ k \in Int /\ first \in Nat
    BY <1>2, <1>3
  <1>6. Stands(s, Separator, k)
    BY <1>4, <1>5, Zenon
  <1>. HIDE DEF last
  <1>7. PICK j \in first..last : /\ IndexFrom(s, Separator, first) = {j} /\ Stands(s, Separator, j)
                                 /\ \A i \in first..(j - 1) : ~Stands(s, Separator, i)
    BY <1>1, <1>5, <1>6, FindLemma DEF last
  <1>8. last \in Int
    BY <1>2, <1>3
  <1>9. j \in Int /\ Separates(s, j)
    BY <1>4, <1>7, <1>8
  <1>10. ~(k \in first..(j - 1)) /\ ~(j \in first..(k - 1))
    BY <1>6, <1>7, <1>9, Zenon
  <1>11. j = k
    BY <1>5, <1>7, <1>8, <1>9, <1>10
  <1>. QED BY <1>7, <1>11

(* And none where there is none.                                           *)
LEMMA SeparatorMissing ==
  ASSUME NEW s \in Text, NEW first \in Nat \ {0}, \A i \in first..(Len(s) - 1) : ~Separates(s, i)
  PROVE  IndexFrom(s, Separator, first) = {}
  <1>. DEFINE last == Len(s) - Len(Separator) + 1
  <1>1. Separator \in Text /\ Len(Separator) = 2
    BY SeparatorStands
  <1>2. Len(s) \in Nat
    BY LenProperties DEF Text
  <1>3. last = Len(s) - 1
    BY <1>1, <1>2
  <1>4. \A i \in Int : Stands(s, Separator, i) <=> Separates(s, i)
    BY SeparatorStands
  <1>5. \A i \in first..last : i \in Int
    BY <1>2, <1>3
  <1>6. \A i \in first..last : ~Stands(s, Separator, i)
    BY <1>3, <1>4, <1>5, Zenon
  <1>. HIDE DEF last
  <1>. QED BY <1>1, <1>6, FindLemma DEF last

(***************************************************************************)
(* A printed line: the name of the table, the operation and the body.      *)
(***************************************************************************)
LineShows(s, t, op, b) ==
  LET h == Len(PrintName(t))
  IN  /\ s \in Text /\ Len(s) = h + 7 + Len(b)
      /\ s[1] = "table " /\ s[2] = "public" /\ s[3] = "."
      /\ \A x \in 1..h : s[3 + x] = PrintName(t)[x]
      /\ s[h + 4] = ":" /\ s[h + 5] = " " /\ s[h + 6] = op /\ s[h + 7] = ":"
      /\ \A x \in 1..Len(b) : s[h + 7 + x] = b[x]

(* An operation is one symbol, which ends nothing.                         *)
LEMMA OperationSymbols ==
  ASSUME NEW op \in Operations
  PROVE  op \in Symbols /\ op # ":" /\ op # "\n"
  BY SymbolsAssumption DEF Operations, Rowless, Format

(* The line of a change, symbol by symbol.                                 *)
LEMMA LineLemma ==
  ASSUME NEW w, w.op \in Operations, w.op \notin {"BEGIN", "COMMIT"}, w.table \in TableNames,
         PrintBody(w) \in Text
  PROVE  LineShows(PrintLine(w), w.table, w.op, PrintBody(w))
  <1>. DEFINE op == w.op
              t == w.table
              b == PrintBody(w)
              p == PrintName(t)
              h == Len(p)
              A == <<"table ", "public", ".">>
              C == <<":", " ", op, ":">>
  <1>1. p \in Text /\ h \in Nat /\ b \in Text
    BY PrintNameLemma DEF Idents, TableNames
  <1>2. PrintLine(w) = A \o p \o C \o b
    BY DEF PrintLine
  <1>3. A \in Text /\ Len(A) = 3 /\ A[1] = "table " /\ A[2] = "public" /\ A[3] = "."
    <2>1. PICK u \in Symbols, v \in Symbols, x \in Symbols : u = "table " /\ v = "public" /\ x = "."
      BY Literals DEF Safe
    <2>2. <<u, v, x>> \in Text /\ Len(<<u, v, x>>) = 3 /\ <<u, v, x>>[1] = u
          /\ <<u, v, x>>[2] = v /\ <<u, v, x>>[3] = x
      BY DEF Text
    <2>. QED BY <2>1, <2>2
  <1>4. C \in Text /\ Len(C) = 4 /\ C[1] = ":" /\ C[2] = " " /\ C[3] = op /\ C[4] = ":"
    <2>1. PICK u \in Symbols, v \in Symbols : u = ":" /\ v = " "
      BY Literals
    <2>2. op \in Symbols
      BY OperationSymbols
    <2>3. <<u, v, op, u>> \in Text /\ Len(<<u, v, op, u>>) = 4 /\ <<u, v, op, u>>[1] = u
          /\ <<u, v, op, u>>[2] = v /\ <<u, v, op, u>>[3] = op /\ <<u, v, op, u>>[4] = u
      BY <2>2 DEF Text
    <2>. QED BY <2>1, <2>3
  <1>. HIDE DEF A, C, p, h, b, op
  <1>5. h = Len(p)
    BY DEF h
  <1>6. /\ A \o p \in Text /\ Len(A \o p) = Len(A) + Len(p)
        /\ \A i \in 1..Len(A) : (A \o p)[i] = A[i]
        /\ \A i \in 1..Len(p) : (A \o p)[Len(A) + i] = p[i]
    BY <1>1, <1>3, JoinLemma
  <1>7. /\ A \o p \o C \in Text /\ Len(A \o p \o C) = Len(A \o p) + Len(C)
        /\ \A i \in 1..Len(A \o p) : (A \o p \o C)[i] = (A \o p)[i]
        /\ \A i \in 1..Len(C) : (A \o p \o C)[Len(A \o p) + i] = C[i]
    BY <1>4, <1>6, JoinLemma
  <1>8. /\ A \o p \o C \o b \in Text /\ Len(A \o p \o C \o b) = Len(A \o p \o C) + Len(b) /\ Len(b) \in Nat
        /\ \A i \in 1..Len(A \o p \o C) : (A \o p \o C \o b)[i] = (A \o p \o C)[i]
        /\ \A i \in 1..Len(b) : (A \o p \o C \o b)[Len(A \o p \o C) + i] = b[i]
    BY <1>1, <1>7, JoinLemma
  <1>9. PICK x, y, s : x = A \o p /\ y = A \o p \o C /\ s = A \o p \o C \o b
    OBVIOUS
  <1>10. /\ Len(x) = 3 + h /\ Len(y) = h + 7 /\ Len(s) = h + 7 + Len(b) /\ s \in Text
    <2>1. Len(x) = 3 + h
      BY <1>3, <1>5, <1>6, <1>9
    <2>2. Len(y) = Len(x) + 4 /\ Len(s) = Len(y) + Len(b) /\ s \in Text
      BY <1>4, <1>7, <1>8, <1>9, Zenon
    <2>3. Len(y) = h + 7
      BY <1>1, <2>1, <2>2
    <2>. QED BY <2>1, <2>2, <2>3
  <1>11. /\ \A i \in 1..3 : x[i] = A[i]
         /\ \A i \in 1..h : x[3 + i] = p[i]
         /\ \A i \in 1..(3 + h) : y[i] = x[i]
         /\ \A i \in 1..4 : y[3 + h + i] = C[i]
         /\ \A i \in 1..(h + 7) : s[i] = y[i]
         /\ \A i \in 1..Len(b) : s[h + 7 + i] = b[i]
    BY <1>3, <1>4, <1>5, <1>6, <1>7, <1>8, <1>9, <1>10, Zenon
  <1>12. /\ \A i \in 1..3 : i \in 1..(3 + h) /\ i \in 1..(h + 7)
         /\ \A i \in 1..h : 3 + i \in 1..(3 + h) /\ 3 + i \in 1..(h + 7)
         /\ \A i \in 1..4 : 3 + h + i \in 1..(h + 7)
    BY <1>1
  <1>13. /\ \A i \in 1..3 : s[i] = A[i]
         /\ \A i \in 1..h : s[3 + i] = p[i]
         /\ \A i \in 1..4 : s[3 + h + i] = C[i]
    BY <1>11, <1>12, Zenon
  <1>14. 1 \in 1..3 /\ 2 \in 1..3 /\ 3 \in 1..3 /\ 1 \in 1..4 /\ 2 \in 1..4 /\ 3 \in 1..4 /\ 4 \in 1..4
    OBVIOUS
  <1>15. 3 + h + 1 = h + 4 /\ 3 + h + 2 = h + 5 /\ 3 + h + 3 = h + 6 /\ 3 + h + 4 = h + 7
    BY <1>1
  <1>16. /\ s[1] = "table " /\ s[2] = "public" /\ s[3] = "."
    BY <1>3, <1>13, <1>14, Zenon
  <1>17. s[3 + h + 1] = ":" /\ s[3 + h + 2] = " " /\ s[3 + h + 3] = op /\ s[3 + h + 4] = ":"
    BY <1>4, <1>13, <1>14, Zenon
  <1>18. s[h + 4] = ":" /\ s[h + 5] = " " /\ s[h + 6] = op /\ s[h + 7] = ":"
    BY <1>15, <1>17, Zenon
  <1>19. LineShows(s, t, op, b)
    BY <1>10, <1>11, <1>13, <1>16, <1>18, Zenon DEF LineShows, p, h
  <1>. QED BY <1>2, <1>9, <1>19 DEF op, b

(* A body is empty or begins with a blank.                                 *)
BeginsBlank(b) == b = <<>> \/ b[1] = " "

(* Where a file may end the line.                                          *)
LEMMA HeadEnd ==
  ASSUME NEW s, NEW t \in TableNames, NEW op \in Operations, NEW b \in Text, LineShows(s, t, op, b),
         BeginsBlank(b), NEW l \in 0..Len(s), EndsAt(s, l)
  PROVE  LET h == Len(PrintName(t))
         IN  /\ h \in Nat /\ h >= 1 /\ l \in Nat /\ l >= 3 /\ Len(b) \in Nat
             /\ l <= h + 2 \/ l >= h + 7
             /\ l >= h + 7 /\ b # <<>> => l >= h + 8
             /\ l <= h + 2 => carrier = "file" /\ "\n" \in ToSet(t)
             /\ l >= h + 7 => (carrier = "file" => "\n" \notin ToSet(t))
  <1>. DEFINE p == PrintName(t)
              h == Len(p)
  <1>1. t \in Idents /\ t \in Text
    BY NameFacts DEF Idents, TableNames
  <1>2. h \in Nat /\ h >= 1 /\ Len(b) \in Nat /\ p \in Text /\ l \in Nat /\ l <= Len(s)
    <2>1. h \in Nat /\ h >= 1 /\ p \in Text
      BY <1>1, PrintNameLemma
    <2>2. Len(b) \in Nat /\ Len(s) \in Nat
      BY LenProperties DEF Text, LineShows
    <2>3. l \in Nat /\ l <= Len(s)
      BY <2>2
    <2>. QED BY <2>1, <2>2, <2>3
  <1>3. Len(s) = h + 7 + Len(b)
    BY DEF LineShows
  <1>4. /\ ~LineBreak(s, 1) /\ ~LineBreak(s, 2) /\ ~LineBreak(s, 3)
        /\ ~LineBreak(s, h + 4) /\ ~LineBreak(s, h + 5) /\ ~LineBreak(s, h + 6) /\ ~LineBreak(s, h + 7)
    BY OperationSymbols DEF LineShows, LineBreak
  <1>5. b # <<>> => Len(b) >= 1 /\ ~LineBreak(s, h + 8)
    <2>. SUFFICES ASSUME b # <<>> PROVE Len(b) >= 1 /\ ~LineBreak(s, h + 8)
      OBVIOUS
    <2>1. Len(b) # 0
      BY EmptySeq DEF Text
    <2>2. Len(b) >= 1 /\ 1 \in 1..Len(b) /\ h + 7 + 1 = h + 8
      BY <1>2, <2>1
    <2>3. s[h + 7 + 1] = b[1]
      BY <2>2, Zenon DEF LineShows
    <2>4. s[h + 8] = " "
      BY <2>2, <2>3 DEF BeginsBlank
    <2>. QED BY <2>2, <2>4 DEF LineBreak
  <1>6. l < Len(s) => LineBreak(s, l + 1)
    BY Zenon DEF EndsAt
  <1>7. ASSUME NEW y \in 1..h
        PROVE  LineBreak(s, 3 + y) <=> carrier = "file" /\ p[y] = "\n"
    BY <1>7 DEF LineShows, LineBreak
  <1>8. "\n" \in ToSet(t) <=> \E y \in 1..h : p[y] = "\n"
    <2>1. "\n" \in Symbols /\ "\n" # "\""
      BY Literals
    <2>2. "\n" \in ToSet(t) <=> Has(t, "\n")
      BY <1>1, HasSet
    <2>3. Has(p, "\n") <=> Has(t, "\n")
      BY <1>1, <2>1, NameHas
    <2>. QED BY <2>2, <2>3 DEF Has
  <1>9. \A y \in 1..l : ~LineBreak(s, y)
    BY Zenon DEF EndsAt
  <1>. HIDE DEF p, h
  <1>10. l < Len(s) => l # 0 /\ l # 1 /\ l # 2 /\ l # h + 3 /\ l # h + 4 /\ l # h + 5 /\ l # h + 6
                       /\ (Len(b) >= 1 /\ ~LineBreak(s, h + 8) => l # h + 7)
    <2>. SUFFICES ASSUME l < Len(s), l \in {0, 1, 2, h + 3, h + 4, h + 5, h + 6}
                                     \/ (~LineBreak(s, h + 8) /\ l = h + 7)
                  PROVE  FALSE
      OBVIOUS
    <2>1. l + 1 \in {1, 2, 3, h + 4, h + 5, h + 6, h + 7} \/ (~LineBreak(s, h + 8) /\ l + 1 = h + 8)
      BY <1>2
    <2>2. LineBreak(s, l + 1)
      BY <1>6, Zenon
    <2>3. PICK y : y = l + 1
      OBVIOUS
    <2>. QED BY <1>4, <2>1, <2>2, <2>3
  <1>11. l >= 3 /\ (l <= h + 2 \/ l >= h + 7)
    BY <1>2, <1>3, <1>10
  <1>12. ASSUME l >= h + 7, b # <<>> PROVE l >= h + 8
    <2>1. Len(b) >= 1 /\ (l < Len(s) => l # h + 7)
      BY <1>5, <1>10, <1>12
    <2>. QED BY <1>2, <1>3, <1>12, <2>1
  <1>13. ASSUME l <= h + 2 PROVE carrier = "file" /\ "\n" \in ToSet(t)
    <2>1. PICK y : y = l - 2
      OBVIOUS
    <2>2. y \in 1..h /\ 3 + y = l + 1 /\ l < Len(s)
      BY <1>2, <1>3, <1>11, <1>13, <2>1
    <2>3. LineBreak(s, 3 + y)
      BY <1>6, <2>2, Zenon
    <2>. QED BY <1>7, <1>8, <2>2, <2>3, Zenon
  <1>14. ASSUME l >= h + 7 PROVE carrier = "file" => "\n" \notin ToSet(t)
    <2>1. ASSUME NEW y \in 1..h PROVE 3 + y \in 1..l
      BY <1>2, <1>14
    <2>. QED BY <1>7, <1>8, <1>9, <2>1, Zenon
  <1>. QED BY <1>2, <1>11, <1>12, <1>13, <1>14, Zenon DEF p, h

(* The separators in a line.                                               *)
LEMMA LineSeparators ==
  ASSUME NEW s, NEW t \in TableNames, NEW op \in Operations, NEW b \in Text, LineShows(s, t, op, b)
  PROVE  LET h == Len(PrintName(t))
         IN  /\ h \in Nat
             /\ Separates(s, h + 4) /\ ~Separates(s, h + 6)
             /\ \A y \in 2..(h + 3) : ~Separates(s, y)
             /\ BeginsBlank(b) /\ b # <<>> => Separates(s, h + 7)
  <1>. DEFINE p == PrintName(t)
              h == Len(p)
  <1>1. h \in Nat /\ h >= 1
    BY PrintNameLemma DEF Idents, TableNames
  <1>2. Separates(s, h + 4) /\ ~Separates(s, h + 6)
    <2>1. s[h + 4] = ":" /\ s[h + 5] = " " /\ s[h + 6] # ":"
      BY OperationSymbols DEF LineShows
    <2>2. h + 4 + 1 = h + 5
      BY <1>1
    <2>. QED BY <2>1, <2>2 DEF Separates
  <1>3. ASSUME NEW y \in 2..(h + 3) PROVE ~Separates(s, y)
    <2>1. CASE y = 2 \/ y = 3
      <3>1. s[2] # ":" /\ s[3] # ":"
        BY DEF LineShows
      <3>. QED BY <2>1, <3>1 DEF Separates
    <2>2. CASE y # 2 /\ y # 3
      <3>1. PICK x : x = y - 3
        OBVIOUS
      <3>2. x \in 1..h /\ 3 + x = y /\ 3 + (x + 1) = y + 1
        BY <1>1, <2>2, <3>1
      <3>3. s[y] = p[x]
        BY <3>2, Zenon DEF LineShows
      <3>4. ASSUME p[x] = ":" PROVE s[y + 1] # " "
        <4>1. x + 1 <= h /\ p[x + 1] # " "
          BY <3>2, <3>4, NoSeparator
        <4>2. x + 1 <= h
          BY <4>1
        <4>3. x + 1 \in 1..h
          BY <1>1, <3>2, <4>2
        <4>4. s[3 + (x + 1)] = p[x + 1]
          BY <4>3, Zenon DEF LineShows
        <4>. QED BY <3>2, <4>1, <4>4
      <3>. QED BY <3>3, <3>4 DEF Separates
    <2>. QED BY <2>1, <2>2
  <1>4. ASSUME BeginsBlank(b), b # <<>> PROVE Separates(s, h + 7)
    <2>1. Len(b) # 0 /\ Len(b) \in Nat
      BY <1>4, EmptySeq, LenProperties DEF Text
    <2>2. 1 \in 1..Len(b)
      BY <2>1
    <2>3. s[h + 7 + 1] = b[1]
      BY <2>2, Zenon DEF LineShows
    <2>4. b[1] = " "
      BY <1>4 DEF BeginsBlank
    <2>5. s[h + 7] = ":"
      BY DEF LineShows
    <2>. QED BY <2>3, <2>4, <2>5, Zenon DEF Separates
  <1>. QED BY <1>1, <1>2, <1>3, <1>4, Zenon DEF p, h

(* What the head of a carried line leaves of the body.                     *)
BodyLeft(b, body) ==
  /\ b # <<>> /\ body \in Text /\ Len(body) + 1 <= Len(b) /\ Len(b) \in Nat
  /\ \A x \in 1..Len(body) : body[x] = b[x + 1]
  /\ EndsAt(b, Len(body) + 1)

(* SeparatorFirst for terms that are not constants.                        *)
LEMMA SeparatorAt ==
  ASSUME NEW s, NEW first, NEW k, s \in Text, first \in Nat \ {0}, k \in first..(Len(s) - 1),
         Separates(s, k), \A i \in first..(k - 1) : ~Separates(s, i)
  PROVE  IndexFrom(s, Separator, first) = {k}
  BY SeparatorFirst

(* What stands in front of a place.                                        *)
LEMMA BeforeAt ==
  ASSUME NEW s, NEW k, s \in Text, k \in 1..(Len(s) + 1)
  PROVE  /\ Before(s, k) \in Text /\ Len(Before(s, k)) = k - 1
         /\ \A x \in 1..(k - 1) : Before(s, k)[x] = s[x]
  BY FromLemma

(* A line that ends before its body has no head: the body is empty, or a   *)
(* line break in the name of the table ended the line.                     *)
LEMMA HeadsNone ==
  ASSUME NEW s, NEW t \in TableNames, NEW op \in Operations, NEW b \in Text, LineShows(s, t, op, b),
         BeginsBlank(b), NEW c \in Text, NEW l \in 0..Len(s), l = Len(c), EndsAt(s, l),
         \A x \in 1..l : c[x] = s[x],
         l < Len(PrintName(t)) + 8
  PROVE  Heads(c) = {} /\ (b = <<>> \/ (carrier = "file" /\ "\n" \in ToSet(t)))
  <1>. DEFINE h == Len(PrintName(t))
              v == From(c, 2)
  <1>1. /\ h \in Nat /\ h >= 1 /\ l \in Nat /\ l >= 3
        /\ l <= h + 2 \/ l >= h + 7
        /\ l >= h + 7 /\ b # <<>> => l >= h + 8
        /\ l <= h + 2 => carrier = "file" /\ "\n" \in ToSet(t)
    BY HeadEnd
  <1>2. /\ Separates(s, h + 4) /\ ~Separates(s, h + 6)
        /\ \A y \in 2..(h + 3) : ~Separates(s, y)
    BY LineSeparators
  <1>. HIDE DEF h, v
  <1>3. l < h + 8 /\ (l <= h + 2 \/ l = h + 7)
    <2>1. l < h + 8
      BY DEF h
    <2>2. h \in Nat /\ l \in Nat /\ (l <= h + 2 \/ l >= h + 7)
      BY <1>1, Zenon
    <2>. QED BY <2>1, <2>2
  <1>4. 2 \in 1..(Len(c) + 1) /\ Len(c) - 2 + 1 = l - 1
    <2>1. l \in Nat /\ l >= 3
      BY <1>1, Zenon
    <2>. QED BY <2>1
  <1>5. v \in Text /\ Len(v) = l - 1 /\ \A x \in 1..(l - 1) : v[x] = c[2 + x - 1]
    <2>1. /\ v \in Text /\ Len(v) = Len(c) - 2 + 1
          /\ \A x \in 1..(Len(c) - 2 + 1) : v[x] = c[2 + x - 1]
      BY <1>4, FromLemma DEF v
    <2>. QED BY <1>4, <2>1, Zenon
  <1>6. ASSUME NEW x \in 1..(l - 2) PROVE Separates(v, x) <=> Separates(s, x + 1)
    <2>1. l \in Nat
      BY <1>1, Zenon
    <2>2. /\ x \in 1..(l - 1) /\ x + 1 \in 1..(l - 1) /\ 2 + x - 1 = x + 1 /\ 2 + (x + 1) - 1 = x + 1 + 1
          /\ x + 1 \in 1..l /\ x + 1 + 1 \in 1..l
      BY <2>1
    <2>3. v[x] = c[2 + x - 1] /\ v[x + 1] = c[2 + (x + 1) - 1]
      BY <1>5, <2>2, Zenon
    <2>4. v[x] = s[x + 1] /\ v[x + 1] = s[x + 1 + 1]
      BY <2>2, <2>3, Zenon
    <2>. QED BY <2>4, Zenon DEF Separates
  <1>7. Heads(c) = {}
    <2>1. CASE l <= h + 2
      <3>1. \A x \in 1..(l - 2) : x + 1 \in 2..(h + 3) /\ x \in 1..(Len(v) - 1)
        <4>1. l \in Nat /\ h \in Nat /\ Len(v) = l - 1
          BY <1>1, <1>5, Zenon
        <4>. QED BY <2>1, <4>1
      <3>2. \A x \in 1..(Len(v) - 1) : x \in 1..(l - 2)
        <4>1. l \in Nat /\ Len(v) = l - 1
          BY <1>1, <1>5, Zenon
        <4>. QED BY <4>1
      <3>3. \A x \in 1..(Len(v) - 1) : ~Separates(v, x)
        BY <1>2, <1>6, <3>1, <3>2, Zenon
      <3>4. IndexFrom(v, Separator, 1) = {}
        BY <1>5, <3>3, SeparatorMissing
      <3>5. Index(v, Separator) = {}
        BY <3>4 DEF Index
      <3>. QED BY <3>5 DEF Heads, v
    <2>2. CASE l = h + 7
      <3>1. h \in Nat /\ Len(v) = h + 6
        <4>1. h \in Nat /\ Len(v) = l - 1
          BY <1>1, <1>5, Zenon
        <4>. QED BY <2>2, <4>1
      <3>2. /\ h + 3 \in 1..(Len(v) - 1) /\ h + 3 \in 1..(l - 2) /\ h + 3 + 1 = h + 4
            /\ \A x \in 1..((h + 3) - 1) : x \in 1..(l - 2) /\ x + 1 \in 2..(h + 3)
            /\ h + 3 + 2 \in Nat \ {0}
            /\ \A x \in (h + 3 + 2)..(Len(v) - 1) : x \in 1..(l - 2) /\ x + 1 = h + 6
        BY <2>2, <3>1
      <3>3. Separates(v, h + 3) /\ \A x \in 1..((h + 3) - 1) : ~Separates(v, x)
        BY <1>2, <1>6, <3>2, Zenon
      <3>4. \A x \in (h + 3 + 2)..(Len(v) - 1) : ~Separates(v, x)
        BY <1>2, <1>6, <3>2, Zenon
      <3>5. Index(v, Separator) = {h + 3}
        <4>1. 1 \in Nat \ {0}
          OBVIOUS
        <4>2. IndexFrom(v, Separator, 1) = {h + 3}
          BY <1>5, <3>2, <3>3, <4>1, SeparatorAt, Zenon
        <4>. QED BY <4>2 DEF Index
      <3>6. IndexFrom(v, Separator, h + 3 + 2) = {}
        BY <1>5, <3>2, <3>4, SeparatorMissing
      <3>. QED BY <3>5, <3>6 DEF Heads, v
    <2>. QED BY <1>3, <2>1, <2>2
  <1>8. b = <<>> \/ l <= h + 2
    <2>1. ASSUME b # <<>>, l = h + 7 PROVE FALSE
      <3>1. l >= h + 8 /\ h \in Nat
        <4>1. l >= h + 7
          <5>1. h \in Nat
            BY <1>1, Zenon
          <5>2. l = h + 7
            BY <2>1
          <5>. QED BY <5>1, <5>2
        <4>. QED BY <1>1, <2>1, <4>1, Zenon
      <3>2. l = h + 7
        BY <2>1
      <3>. QED BY <3>1, <3>2
    <2>. QED BY <1>3, <2>1, Zenon
  <1>. QED BY <1>1, <1>7, <1>8, Zenon

(* parseChange finds one table, one operation and one body.                *)
OneHead(c, t, op, b) ==
  \E name, body : /\ Heads(c) = {[name |-> name, op |-> op, body |-> body]}
                  /\ TableRead(name.schema, name.table, t)
                  /\ BodyLeft(b, body)

(* Every other line has one head, with the table, the operation and what   *)
(* is left of the body.                                                    *)
LEMMA HeadsOne ==
  ASSUME NEW s, NEW t \in TableNames, NEW op \in Operations, NEW b \in Text, LineShows(s, t, op, b),
         BeginsBlank(b), NEW c \in Text, NEW l \in 0..Len(s), l = Len(c), EndsAt(s, l),
         \A x \in 1..l : c[x] = s[x],
         l >= Len(PrintName(t)) + 8
  PROVE  /\ carrier = "file" => "\n" \notin ToSet(t)
         /\ OneHead(c, t, op, b)
  <1>. DEFINE p == PrintName(t)
              h == Len(p)
              v == From(c, 2)
              name == SplitTable(Before(v, h + 3))
              body == From(v, h + 6 + 2)
  <1>1. h \in Nat /\ h >= 1 /\ l \in Nat /\ Len(b) \in Nat
    BY HeadEnd
  <1>2. l >= h + 7 => (carrier = "file" => "\n" \notin ToSet(t))
    BY HeadEnd
  <1>3. /\ Separates(s, h + 4) /\ ~Separates(s, h + 6)
        /\ \A y \in 2..(h + 3) : ~Separates(s, y)
        /\ BeginsBlank(b) /\ b # <<>> => Separates(s, h + 7)
    BY LineSeparators
  <1>4. Len(s) = h + 7 + Len(b) /\ s[h + 6] = op
    BY DEF LineShows
  <1>5. \A x \in 1..Len(b) : s[h + 7 + x] = b[x]
    BY Zenon DEF LineShows
  <1>6. /\ s[2] = "public" /\ s[3] = "." /\ \A x \in 1..h : s[3 + x] = p[x]
    BY Zenon DEF LineShows
  <1>7. l <= Len(s) /\ l >= h + 8
    <2>1. Len(s) \in Nat
      BY <1>1, <1>4
    <2>. QED BY <2>1 DEF p, h
  <1>. HIDE DEF p, h, v, name, body
  <1>8. 2 \in 1..(Len(c) + 1) /\ Len(c) - 2 + 1 = l - 1 /\ l >= h + 7 /\ b # <<>> /\ Len(b) >= 1
    <2>1. Len(b) >= 1 /\ l = Len(c)
      BY <1>1, <1>4, <1>7
    <2>2. b # <<>>
      <3>1. Len(<<>>) = 0
        OBVIOUS
      <3>. QED BY <2>1, <3>1
    <2>. QED BY <1>1, <1>7, <2>1, <2>2
  <1>9. v \in Text /\ Len(v) = l - 1 /\ \A x \in 1..(l - 1) : v[x] = c[2 + x - 1]
    <2>1. /\ v \in Text /\ Len(v) = Len(c) - 2 + 1
          /\ \A x \in 1..(Len(c) - 2 + 1) : v[x] = c[2 + x - 1]
      BY <1>8, FromLemma DEF v
    <2>. QED BY <1>8, <2>1, Zenon
  <1>10. ASSUME NEW x \in 1..(l - 1) PROVE v[x] = s[x + 1]
    <2>1. 2 + x - 1 = x + 1 /\ x + 1 \in 1..l
      BY <1>1
    <2>. QED BY <1>9, <2>1, Zenon
  <1>11. ASSUME NEW x \in 1..(l - 2) PROVE Separates(v, x) <=> Separates(s, x + 1)
    <2>1. x \in 1..(l - 1) /\ x + 1 \in 1..(l - 1)
      BY <1>1
    <2>. QED BY <1>10, <2>1, Zenon DEF Separates
  <1>12. /\ h + 3 \in 1..(Len(v) - 1) /\ h + 3 \in 1..(l - 2) /\ h + 3 + 1 = h + 4
         /\ \A x \in 1..((h + 3) - 1) : x \in 1..(l - 2) /\ x + 1 \in 2..(h + 3)
         /\ h + 3 + 2 \in Nat \ {0}
         /\ h + 6 \in (h + 3 + 2)..(Len(v) - 1) /\ h + 6 \in 1..(l - 2) /\ h + 6 + 1 = h + 7
         /\ \A x \in (h + 3 + 2)..((h + 6) - 1) : x \in 1..(l - 2) /\ x + 1 = h + 6
         /\ h + 3 + 2 \in 1..(l - 1) /\ h + 3 + 2 + 1 = h + 6
    <2>1. Len(v) = l - 1
      BY <1>9, Zenon
    <2>. QED BY <1>1, <1>7, <2>1
  <1>13. Separates(v, h + 3) /\ \A x \in 1..((h + 3) - 1) : ~Separates(v, x)
    BY <1>3, <1>11, <1>12, Zenon
  <1>14. Separates(v, h + 6) /\ \A x \in (h + 3 + 2)..((h + 6) - 1) : ~Separates(v, x)
    BY <1>3, <1>8, <1>11, <1>12, Zenon
  <1>15. Index(v, Separator) = {h + 3}
    <2>1. 1 \in Nat \ {0}
      OBVIOUS
    <2>2. IndexFrom(v, Separator, 1) = {h + 3}
      BY <1>9, <1>12, <1>13, <2>1, SeparatorAt, Zenon
    <2>. QED BY <2>2 DEF Index
  <1>16. IndexFrom(v, Separator, h + 3 + 2) = {h + 6}
    BY <1>9, <1>12, <1>14, SeparatorAt, Zenon
  <1>17. v[h + 3 + 2] = op
    BY <1>4, <1>10, <1>12, Zenon
  <1>18. Heads(c) = {[name |-> name, op |-> op, body |-> body]}
    <2>1. Heads(c) = UNION {{[ name |-> SplitTable(Before(v, i)), op |-> v[i + 2], body |-> From(v, j + 2) ]
                               : j \in IndexFrom(v, Separator, i + 2)} : i \in {h + 3}}
      BY <1>15 DEF Heads, v
    <2>2. Heads(c) = {[ name |-> SplitTable(Before(v, h + 3)), op |-> v[h + 3 + 2], body |-> From(v, j + 2) ]
                        : j \in {h + 6}}
      BY <1>16, <2>1
    <2>3. Heads(c) = {[ name |-> SplitTable(Before(v, h + 3)), op |-> v[h + 3 + 2], body |-> From(v, h + 6 + 2) ]}
      BY <2>2
    <2>. QED BY <1>17, <2>3 DEF name, body
  <1>19. TableRead(name.schema, name.table, t)
    <2>1. h + 3 \in 1..(Len(v) + 1) /\ (h + 3) - 1 = 2 + h
      <3>1. Len(v) = l - 1
        BY <1>9, Zenon
      <3>. QED BY <1>1, <1>7, <3>1
    <2>2. PICK u : u = Before(v, h + 3)
      OBVIOUS
    <2>3. u \in Text /\ Len(u) = 2 + h /\ \A x \in 1..(2 + h) : u[x] = v[x]
      <3>1. v \in Text
        BY <1>9, Zenon
      <3>2. /\ u \in Text /\ Len(u) = (h + 3) - 1
            /\ \A x \in 1..((h + 3) - 1) : u[x] = v[x]
        BY <2>1, <2>2, <3>1, BeforeAt, Zenon
      <3>. QED BY <2>1, <3>2, Zenon
    <2>4. \A x \in 1..(2 + h) : x \in 1..(l - 1)
      BY <1>1, <1>7
    <2>5. /\ 1 \in 1..(2 + h) /\ 2 \in 1..(2 + h) /\ 1 + 1 = 2 /\ 2 + 1 = 3
          /\ \A x \in 1..h : 2 + x \in 1..(2 + h) /\ 2 + x + 1 = 3 + x
      BY <1>1
    <2>6. \A x \in 1..(2 + h) : u[x] = s[x + 1]
      BY <1>10, <2>3, <2>4, Zenon
    <2>7. u[1] = "public" /\ u[2] = "." /\ \A x \in 1..h : u[2 + x] = p[x]
      BY <1>6, <2>5, <2>6, Zenon
    <2>8. t \in Idents
      BY DEF Idents, TableNames
    <2>9. TableRead(SplitTable(u).schema, SplitTable(u).table, t)
      BY <2>3, <2>7, <2>8, SplitTableRead DEF p, h
    <2>. QED BY <2>2, <2>9 DEF name
  <1>20. BodyLeft(b, body)
    <2>1. h + 6 + 2 \in 1..(Len(v) + 1) /\ Len(v) - (h + 6 + 2) + 1 = l - h - 8
      <3>1. Len(v) = l - 1
        BY <1>9, Zenon
      <3>. QED BY <1>1, <1>7, <3>1
    <2>2. /\ body \in Text /\ Len(body) = l - h - 8
          /\ \A x \in 1..(l - h - 8) : body[x] = v[h + 6 + 2 + x - 1]
      <3>1. /\ body \in Text /\ Len(body) = Len(v) - (h + 6 + 2) + 1
            /\ \A x \in 1..(Len(v) - (h + 6 + 2) + 1) : body[x] = v[h + 6 + 2 + x - 1]
        BY <1>9, <2>1, FromLemma DEF body
      <3>. QED BY <2>1, <3>1, Zenon
    <2>3. /\ Len(body) + 1 <= Len(b) /\ Len(body) \in Nat
          /\ h + 7 + (Len(body) + 1) = l /\ h + 7 + (Len(body) + 1 + 1) = l + 1
      <3>1. Len(body) = l - h - 8
        BY <2>2, Zenon
      <3>. QED BY <1>1, <1>4, <1>7, <3>1
    <2>4. ASSUME NEW x \in 1..Len(body) PROVE body[x] = b[x + 1]
      <3>1. Len(body) = l - h - 8
        BY <2>2, Zenon
      <3>2. /\ x \in 1..(l - h - 8) /\ h + 6 + 2 + x - 1 \in 1..(l - 1)
            /\ h + 6 + 2 + x - 1 + 1 = h + 7 + (x + 1) /\ x + 1 \in 1..Len(b)
        BY <1>1, <1>7, <2>3, <3>1
      <3>. QED BY <1>5, <1>10, <2>2, <3>2, Zenon
    <2>5. EndsAt(b, Len(body) + 1)
      <3>1. ASSUME NEW x \in 1..(Len(body) + 1) PROVE ~LineBreak(b, x)
        <4>1. x \in 1..Len(b) /\ h + 7 + x \in 1..l
          BY <1>1, <2>3
        <4>2. ~LineBreak(s, h + 7 + x)
          BY <4>1, Zenon DEF EndsAt
        <4>. QED BY <1>5, <4>1, <4>2, Zenon DEF LineBreak
      <3>2. ASSUME Len(body) + 1 < Len(b) PROVE LineBreak(b, Len(body) + 1 + 1)
        <4>1. l < Len(s) /\ Len(body) + 1 + 1 \in 1..Len(b)
          BY <1>1, <1>4, <2>3, <3>2
        <4>2. LineBreak(s, l + 1)
          BY <4>1, Zenon DEF EndsAt
        <4>. QED BY <1>5, <2>3, <4>1, <4>2, Zenon DEF LineBreak
      <3>. QED BY <3>1, <3>2, Zenon DEF EndsAt
    <2>. QED BY <1>1, <1>8, <2>2, <2>3, <2>4, <2>5, Zenon DEF BodyLeft
  <1>21. OneHead(c, t, op, b)
    BY <1>18, <1>19, <1>20, Zenon DEF OneHead
  <1>. QED BY <1>2, <1>8, <1>21, Zenon

(***************************************************************************)
(* A tuple that ends where its line does.                                  *)
(***************************************************************************)
Broke(cs) == \E i \in 1..Len(cs) : Breaking(cs[i])
InFile == carrier = "file"
(* What a file leaves of a tuple: all, or the columns up to a line break.  *)
TupleEnds(s, cs, m) ==
  /\ m \in 0..Len(cs) /\ Len(cs) # 0 /\ Len(s) \in Nat /\ Len(s) >= 1
  /\ Tuple(s, 0, cs, m)
  /\ m < Len(cs) => InFile /\ Broke(cs)
  /\ m = Len(cs) => (InFile => ~Broke(cs))

(* From the places of a tuple to those of its columns, and back.           *)
LEMMA CellPlace ==
  ASSUME NEW cs \in Seq(Column), NEW y \in 1..Len(PrintColumns(cs)), PrintColumns(cs)[y] # " "
  PROVE  \E i \in 1..Len(cs) : \E x \in 1..CellLen(cs[i]) :
           y = At(cs)[i - 1] + 1 + x /\ PrintColumn(cs[i])[x] = PrintColumns(cs)[y]
  <1>. DEFINE p == PrintColumns(cs)
              at == At(cs)
  <1>1. AtSymbols(p, cs, at)
    BY AtLemma
  <1>. HIDE DEF p, at
  <1>2. PICK i \in 1..Len(cs) : y = at[i - 1] + 1 \/ \E x \in 1..CellLen(cs[i]) : y = at[i - 1] + 1 + x
    BY <1>1, Zenon DEF AtSymbols, p
  <1>3. p[at[i - 1] + 1] = " "
    BY <1>1, Zenon DEF AtSymbols
  <1>4. PICK x \in 1..CellLen(cs[i]) : y = at[i - 1] + 1 + x
    BY <1>2, <1>3, Zenon DEF p
  <1>5. p[at[i - 1] + 1 + x] = PrintColumn(cs[i])[x]
    BY <1>1, Zenon DEF AtSymbols
  <1>. QED BY <1>4, <1>5, Zenon DEF p, at

(* The symbols of a column stand in the tuple.                             *)
LEMMA CellIn ==
  ASSUME NEW cs \in Seq(Column), NEW i \in 1..Len(cs), NEW x \in 1..CellLen(cs[i])
  PROVE  /\ At(cs)[i - 1] + 1 + x \in 1..Len(PrintColumns(cs))
         /\ PrintColumns(cs)[At(cs)[i - 1] + 1 + x] = PrintColumn(cs[i])[x]
  <1>. DEFINE p == PrintColumns(cs)
              at == At(cs)
  <1>1. AtSymbols(p, cs, at)
    BY AtLemma
  <1>2. /\ Len(cs) \in Nat /\ at[i - 1] \in Nat /\ at[i] \in Nat /\ CellLen(cs[i]) \in Nat
        /\ at[i] = at[i - 1] + 1 + CellLen(cs[i])
        /\ \A k, j \in 0..Len(cs) : k <= j => at[k] <= at[j]
        /\ \A k \in 0..Len(cs) : at[k] \in Nat
    BY AtSteps
  <1>. HIDE DEF p, at
  <1>3. PICK n, a, b, e, l : n = Len(cs) /\ a = at[i - 1] /\ b = at[i] /\ e = at[n] /\ l = CellLen(cs[i])
    OBVIOUS
  <1>4. n \in Nat /\ i \in 0..n /\ n \in 0..n /\ i <= n
    BY <1>2, <1>3
  <1>5. a \in Nat /\ b \in Nat /\ e \in Nat /\ l \in Nat /\ b = a + 1 + l /\ b <= e
    BY <1>2, <1>3, <1>4, Zenon
  <1>6. Len(p) = e
    BY <1>1, <1>3, Zenon DEF AtSymbols
  <1>7. x \in 1..l
    BY <1>3
  <1>8. a + 1 + x \in 1..e
    BY <1>5, <1>7
  <1>9. p[at[i - 1] + 1 + x] = PrintColumn(cs[i])[x]
    BY <1>1, Zenon DEF AtSymbols
  <1>. QED BY <1>3, <1>6, <1>8, <1>9, Zenon DEF p, at

(* How a printed tuple begins.                                             *)
LEMMA ColumnsBegin ==
  ASSUME NEW cs \in Seq(Column)
  PROVE  /\ PrintColumns(cs) \in Text /\ Len(PrintColumns(cs)) = At(cs)[Len(cs)]
         /\ BeginsBlank(PrintColumns(cs))
         /\ PrintColumns(cs) = <<>> <=> Len(cs) = 0
         /\ Len(cs) = 0 <=> cs = <<>>
         /\ Len(cs) # 0 => /\ Len(PrintColumns(cs)) >= 3
                           /\ PrintColumns(cs)[1] = " "
                           /\ PrintColumns(cs)[2] \in Safe \cup {"\""}
  <1>. DEFINE p == PrintColumns(cs)
              at == At(cs)
              n == Len(cs)
  <1>1. AtSymbols(p, cs, at)
    BY AtLemma
  <1>2. p \in Text /\ Len(p) = at[n]
    BY <1>1, Zenon DEF AtSymbols
  <1>3. n \in Nat /\ at[0] = 0
    BY AtSteps
  <1>4. n = 0 <=> cs = <<>>
    BY EmptySeq
  <1>5. CASE n = 0
    <2>1. Len(p) = 0
      BY <1>2, <1>3, <1>5
    <2>2. p = <<>>
      BY <1>2, <2>1, EmptySeq DEF Text
    <2>. QED BY <1>2, <1>4, <1>5, <2>2 DEF BeginsBlank
  <1>6. CASE n # 0
    <2>1. 1 \in 1..n
      BY <1>3, <1>6
    <2>2. CellLen(cs[1]) \in Nat /\ CellLen(cs[1]) >= 2 /\ cs[1] \in Column
      BY <2>1, AtSteps
    <2>3. p[at[1 - 1] + 1] = " "
      BY <1>1, <2>1, Zenon DEF AtSymbols
    <2>4. 1 \in 1..CellLen(cs[1]) /\ 2 \in 1..CellLen(cs[1])
      BY <2>2
    <2>5. at[1 - 1] + 1 = 1 /\ at[1 - 1] + 1 + 1 = 2 /\ at[1 - 1] + 1 + 2 = 3
      BY <1>3
    <2>6. p[2] = PrintColumn(cs[1])[1] /\ 3 \in 1..Len(p)
      BY <2>1, <2>4, <2>5, CellIn
    <2>7. Len(p) >= 3
      <3>1. Len(p) \in Nat
        BY <1>2, LenProperties DEF Text
      <3>2. 3 \in 1..Len(p)
        BY <2>6, Zenon
      <3>. QED BY <3>1, <3>2
    <2>8. p[1] = " " /\ p[2] \in Safe \cup {"\""}
      BY <2>2, <2>3, <2>5, <2>6, CellFirst
    <2>9. p # <<>>
      <3>1. Len(<<>>) = 0
        OBVIOUS
      <3>. QED BY <2>7, <3>1
    <2>. QED BY <1>2, <1>4, <1>6, <2>7, <2>8, <2>9 DEF BeginsBlank
  <1>. QED BY <1>5, <1>6

(* What is left of a tuple is the whole of it, or ends within a column at  *)
(* a line break.                                                           *)
LEMMA ColumnsBody ==
  ASSUME NEW cs \in Seq(Column), NEW s, BodyLeft(PrintColumns(cs), s)
  PROVE  \E m : TupleEnds(s, cs, m)
  <1>. DEFINE p == PrintColumns(cs)
              at == At(cs)
              n == Len(cs)
              l == Len(s)
  <1>1. /\ s \in Text /\ l + 1 <= Len(p) /\ Len(p) \in Nat
        /\ \A x \in 1..l : s[x] = p[x + 1]
        /\ EndsAt(p, l + 1) /\ p # <<>>
    BY Zenon DEF BodyLeft
  <1>2. n # 0 /\ Len(p) = at[n] /\ Len(p) >= 3 /\ p[2] \in Safe \cup {"\""}
    BY <1>1, ColumnsBegin
  <1>3. n \in Nat /\ l \in Nat
    BY <1>1, LenProperties DEF Text
  <1>4. \A i \in 1..n : at[i - 1] \in Nat /\ CellLen(cs[i]) \in Nat /\ cs[i] \in Column
    BY AtSteps
  <1>5. (\A x \in 1..(l + 1) : ~LineBreak(p, x)) /\ (l + 1 < Len(p) => LineBreak(p, l + 1 + 1))
    BY <1>1, Zenon DEF EndsAt
  <1>6. p[2] # "\n" /\ p[2] # " "
    BY <1>2 DEF Safe
  <1>. HIDE DEF p, at, n, l
  <1>7. l >= 1
    <2>1. l # 0
      <3>. SUFFICES ASSUME l = 0 PROVE FALSE
        OBVIOUS
      <3>1. l + 1 < Len(p) /\ l + 1 + 1 = 2
        <4>1. Len(p) >= 3 /\ Len(p) \in Nat
          BY <1>1, <1>2, Zenon
        <4>. QED BY <4>1
      <3>. QED BY <1>5, <1>6, <3>1 DEF LineBreak
    <2>. QED BY <1>3, <2>1
  <1>8. Follows(s, 0, cs)
    <2>1. ASSUME NEW x \in 1..l PROVE s[x] = p[x - 0 + 1]
      <3>1. x - 0 + 1 = x + 1
        BY <1>3
      <3>. QED BY <1>1, <3>1, Zenon
    <2>2. Opening(s, 0)
      <3>1. 1 \in 1..l /\ 1 + 1 = 2 /\ \A x \in 1..0 : FALSE
        BY <1>3, <1>7
      <3>2. s[1] = p[2]
        BY <1>1, <3>1, Zenon
      <3>. QED BY <1>6, <3>1, <3>2, Zenon DEF Opening
    <2>3. 0 \in Nat
      OBVIOUS
    <2>. QED BY <1>1, <2>1, <2>2, <2>3, Zenon DEF Follows, p, l
  <1>9. CASE l + 1 < Len(p)
    <2>1. LineBreak(p, l + 1 + 1)
      BY <1>5, <1>9
    <2>2. PICK y : y = l + 1 + 1
      OBVIOUS
    <2>3. y \in 1..Len(p)
      <3>1. Len(p) \in Nat
        BY <1>1, Zenon
      <3>. QED BY <1>3, <1>9, <2>2, <3>1
    <2>4. InFile /\ p[y] = "\n" /\ p[y] # " "
      BY <2>1, <2>2 DEF LineBreak, InFile
    <2>i. PICK i \in 1..n : \E x \in 1..CellLen(cs[i]) :
                               y = at[i - 1] + 1 + x /\ PrintColumn(cs[i])[x] = p[y]
      BY <2>3, <2>4, CellPlace, Zenon DEF p, at, n
    <2>5. PICK x \in 1..CellLen(cs[i]) : y = at[i - 1] + 1 + x /\ PrintColumn(cs[i])[x] = p[y]
      BY <2>i
    <2>6. PICK m : m = i - 1
      OBVIOUS
    <2>7. m \in 0..n /\ m + 1 = i /\ m < n /\ m # n
      BY <1>3, <2>6
    <2>8. Breaks(PrintColumn(cs[i]), x)
      BY <2>4, <2>5 DEF Breaks
    <2>9. l = 0 + at[m] + x - 1
      <3>1. PICK a : a = at[m]
        OBVIOUS
      <3>2. a \in Nat /\ y = a + 1 + x /\ x \in 1..CellLen(cs[i]) /\ CellLen(cs[i]) \in Nat
        BY <1>4, <2>5, <2>6, <3>1, Zenon
      <3>3. l = 0 + a + x - 1
        BY <1>3, <2>2, <3>2
      <3>. QED BY <3>1, <3>3
    <2>10. \E q \in 1..CellLen(cs[m + 1]) : Breaks(PrintColumn(cs[m + 1]), q) /\ l = 0 + at[m] + q - 1
      BY <2>7, <2>8, <2>9
    <2>11. Tuple(s, 0, cs, m)
      BY <1>2, <1>8, <2>7, <2>10, TupleShown DEF n, at, l
    <2>12. Broke(cs)
      BY <1>4, <2>4, <2>5, CellBreak DEF Broke, n
    <2>13. TupleEnds(s, cs, m)
      BY <1>2, <1>3, <1>7, <2>4, <2>7, <2>11, <2>12, Zenon DEF TupleEnds, n, l
    <2>. QED BY <2>13
  <1>10. CASE ~(l + 1 < Len(p))
    <2>1. l + 1 = at[n] /\ at[n] \in Nat /\ l + 1 = Len(p) /\ n \in 0..n /\ ~(n < n)
      <3>1. l + 1 <= Len(p) /\ Len(p) \in Nat /\ Len(p) = at[n]
        BY <1>1, <1>2, Zenon
      <3>. QED BY <1>3, <1>10, <3>1
    <2>2. l = 0 + at[n] - 1
      <3>1. PICK a : a = at[n]
        OBVIOUS
      <3>2. l = 0 + a - 1
        BY <1>3, <2>1, <3>1
      <3>. QED BY <3>1, <3>2
    <2>3. Tuple(s, 0, cs, n)
      BY <1>2, <1>8, <2>1, <2>2, TupleShown DEF n, at, l
    <2>4. ASSUME InFile PROVE ~Broke(cs)
      <3>. SUFFICES ASSUME NEW i \in 1..n, Breaking(cs[i]) PROVE FALSE
        BY DEF Broke, n
      <3>1. PICK x \in 1..CellLen(cs[i]) : PrintColumn(cs[i])[x] = "\n"
        BY <1>4, CellBreak
      <3>2. /\ at[i - 1] + 1 + x \in 1..Len(p) /\ p[at[i - 1] + 1 + x] = PrintColumn(cs[i])[x]
        BY CellIn DEF p, at, n
      <3>3. LineBreak(p, at[i - 1] + 1 + x)
        BY <2>4, <3>1, <3>2, Zenon DEF LineBreak, InFile
      <3>. QED BY <1>5, <2>1, <3>2, <3>3, Zenon
    <2>5. TupleEnds(s, cs, n)
      BY <1>2, <1>3, <1>7, <2>1, <2>3, <2>4, Zenon DEF TupleEnds, n, l
    <2>. QED BY <2>5
  <1>. QED BY <1>9, <1>10

(***************************************************************************)
(* The body of an update with an old tuple, and the marker between them.   *)
(***************************************************************************)
OldAndNew(old, cs) == PrintColumns(old) \o <<" ", "new-tuple:">> \o PrintColumns(cs)
(* The body of an update that prints its old key.                          *)
KeyedText(old, cs) ==
  <<" ", "old-key:">> \o PrintColumns(old) \o <<" ", "new-tuple:">> \o PrintColumns(cs)

(* A text of two symbols.                                                  *)
LEMMA TwoSymbols ==
  ASSUME NEW x \in Symbols, NEW y \in Symbols
  PROVE  <<x, y>> \in Text /\ Len(<<x, y>>) = 2 /\ <<x, y>>[1] = x /\ <<x, y>>[2] = y
  BY DEF Text

(* The body of an update with an old row, symbol by symbol.                *)
LEMMA OldAndNewParts ==
  ASSUME NEW old \in Seq(Column), NEW cs \in Seq(Column)
  PROVE  LET u == OldAndNew(old, cs)
             a == Len(PrintColumns(old))
             l == Len(PrintColumns(cs))
         IN  /\ u \in Text /\ a \in Nat /\ l \in Nat /\ Len(u) = a + 2 + l
             /\ \A x \in 1..a : u[x] = PrintColumns(old)[x]
             /\ u[a + 1] = " " /\ u[a + 2] = "new-tuple:"
             /\ \A x \in 1..l : u[a + 2 + x] = PrintColumns(cs)[x]
  <1>. DEFINE p == PrintColumns(old)
              q == PrintColumns(cs)
              a == Len(p)
              l == Len(q)
  <1>1. PICK y \in Symbols, z \in Symbols : y = " " /\ z = "new-tuple:"
    BY Literals
  <1>2. PICK w : w = <<y, z>>
    OBVIOUS
  <1>3. w \in Text /\ Len(w) = 2 /\ w[1] = y /\ w[2] = z
    BY <1>2, TwoSymbols
  <1>4. p \in Text /\ q \in Text
    BY ColumnsBegin
  <1>. HIDE DEF p, q
  <1>5. /\ p \o w \in Text /\ Len(p) \in Nat /\ Len(p \o w) = Len(p) + Len(w)
        /\ \A i \in 1..Len(p) : (p \o w)[i] = p[i]
        /\ \A i \in 1..Len(w) : (p \o w)[Len(p) + i] = w[i]
    BY <1>3, <1>4, JoinLemma
  <1>6. /\ p \o w \o q \in Text /\ Len(q) \in Nat /\ Len(p \o w \o q) = Len(p \o w) + Len(q)
        /\ \A i \in 1..Len(p \o w) : (p \o w \o q)[i] = (p \o w)[i]
        /\ \A i \in 1..Len(q) : (p \o w \o q)[Len(p \o w) + i] = q[i]
    BY <1>4, <1>5, JoinLemma
  <1>7. PICK v, u : v = p \o w /\ u = p \o w \o q
    OBVIOUS
  <1>8. a \in Nat /\ l \in Nat /\ Len(v) = a + 2
    BY <1>3, <1>5, <1>6, <1>7
  <1>9. Len(u) = a + 2 + l /\ u \in Text
    BY <1>6, <1>7, <1>8
  <1>10. /\ \A x \in 1..a : v[x] = p[x]
         /\ \A x \in 1..2 : v[a + x] = w[x]
         /\ \A x \in 1..(a + 2) : u[x] = v[x]
         /\ \A x \in 1..l : u[a + 2 + x] = q[x]
    BY <1>3, <1>5, <1>6, <1>7, <1>8, Zenon
  <1>11. /\ \A x \in 1..a : x \in 1..(a + 2)
         /\ a + 1 \in 1..(a + 2) /\ a + 2 \in 1..(a + 2) /\ 1 \in 1..2 /\ 2 \in 1..2
    BY <1>8
  <1>12. (\A x \in 1..a : u[x] = p[x]) /\ u[a + 1] = y /\ u[a + 2] = z
    BY <1>3, <1>10, <1>11, Zenon
  <1>13. u = OldAndNew(old, cs)
    BY <1>1, <1>2, <1>7 DEF OldAndNew, p, q
  <1>. QED BY <1>1, <1>8, <1>9, <1>10, <1>12, <1>13, Zenon DEF p, q

(* The body of an update that prints its old key.                          *)
LEMMA KeyedBody ==
  ASSUME NEW old \in Seq(Column), NEW cs \in Seq(Column)
  PROVE  LET g == KeyedText(old, cs)
             u == OldAndNew(old, cs)
         IN  /\ g \in Text /\ Len(g) = 2 + Len(u) /\ Len(u) \in Nat
             /\ g[1] = " " /\ g[2] = "old-key:"
             /\ \A x \in 1..Len(u) : g[2 + x] = u[x]
  <1>. DEFINE p == PrintColumns(old)
              q == PrintColumns(cs)
              u == OldAndNew(old, cs)
  <1>1. PICK y \in Symbols, z \in Symbols, k \in Symbols : y = " " /\ z = "new-tuple:" /\ k = "old-key:"
    BY Literals
  <1>2. PICK w, o : w = <<y, z>> /\ o = <<y, k>>
    OBVIOUS
  <1>3. w \in Text /\ Len(w) = 2 /\ o \in Text /\ Len(o) = 2 /\ o[1] = y /\ o[2] = k
    BY <1>2, TwoSymbols
  <1>4. p \in Text /\ q \in Text
    BY ColumnsBegin
  <1>5. u = p \o w \o q
    BY <1>1, <1>2 DEF OldAndNew
  <1>. HIDE DEF p, q, u
  <1>6. p \o w \in Text
    BY <1>3, <1>4, JoinLemma
  <1>7. u \in Text
    BY <1>4, <1>5, <1>6, JoinLemma
  <1>8. o \o p \o w \o q = o \o u
    <2>1. o \in Seq(Symbols) /\ p \in Seq(Symbols) /\ w \in Seq(Symbols) /\ q \in Seq(Symbols)
          /\ p \o w \in Seq(Symbols)
      BY <1>3, <1>4, <1>6 DEF Text
    <2>2. (o \o p) \o w = o \o (p \o w)
      BY <2>1, ConcatAssociative
    <2>3. (o \o (p \o w)) \o q = o \o ((p \o w) \o q)
      BY <2>1, ConcatAssociative
    <2>. QED BY <1>5, <2>2, <2>3
  <1>9. /\ o \o u \in Text /\ Len(u) \in Nat /\ Len(o \o u) = Len(o) + Len(u)
        /\ \A i \in 1..Len(o) : (o \o u)[i] = o[i]
        /\ \A i \in 1..Len(u) : (o \o u)[Len(o) + i] = u[i]
    BY <1>3, <1>7, JoinLemma
  <1>10. PICK g : g = o \o u
    OBVIOUS
  <1>11. /\ g \in Text /\ Len(g) = 2 + Len(u)
         /\ \A i \in 1..2 : g[i] = o[i]
         /\ \A i \in 1..Len(u) : g[2 + i] = u[i]
    BY <1>3, <1>9, <1>10, Zenon
  <1>12. 1 \in 1..2 /\ 2 \in 1..2
    OBVIOUS
  <1>13. g[1] = y /\ g[2] = k
    BY <1>3, <1>11, <1>12, Zenon
  <1>14. g = KeyedText(old, cs)
    BY <1>1, <1>2, <1>8, <1>10 DEF KeyedText, p, q
  <1>. QED BY <1>1, <1>9, <1>11, <1>13, <1>14, Zenon DEF u

(* What follows the old-key marker begins with a blank.                    *)
LEMMA OldAndNewStart ==
  ASSUME NEW old \in Seq(Column), NEW cs \in Seq(Column)
  PROVE  LET u == OldAndNew(old, cs)
         IN  u \in Text /\ Len(u) \in Nat /\ Len(u) >= 2 /\ u[1] = " " /\ u[2] # "\n"
  <1>. DEFINE p == PrintColumns(old)
              u == OldAndNew(old, cs)
              a == Len(p)
              l == Len(PrintColumns(cs))
  <1>1. /\ u \in Text /\ a \in Nat /\ l \in Nat /\ Len(u) = a + 2 + l
        /\ \A x \in 1..a : u[x] = p[x]
        /\ u[a + 1] = " " /\ u[a + 2] = "new-tuple:"
    BY OldAndNewParts
  <1>2. /\ p = <<>> <=> Len(old) = 0
        /\ Len(old) # 0 => /\ Len(p) >= 3
                           /\ p[1] = " "
                           /\ p[2] \in Safe \cup {"\""}
    BY ColumnsBegin
  <1>. HIDE DEF u, p, l, a
  <1>3. Len(u) \in Nat /\ Len(u) >= 2
    <2>1. a \in Nat /\ l \in Nat /\ Len(u) = a + 2 + l
      BY <1>1, Zenon
    <2>. QED BY <2>1
  <1>4. CASE Len(old) = 0
    <2>1. p = <<>>
      BY <1>2, <1>4
    <2>2. Len(<<>>) = 0
      OBVIOUS
    <2>3. a = 0
      BY <2>1, <2>2 DEF a
    <2>4. a + 1 = 1 /\ a + 2 = 2
      BY <2>3
    <2>5. u[1] = " " /\ u[2] = "new-tuple:"
      BY <1>1, <2>4, Zenon
    <2>. QED BY <1>1, <1>3, <2>5 DEF u
  <1>5. CASE Len(old) # 0
    <2>1. p[1] = " " /\ p[2] # "\n"
      BY <1>2, <1>5 DEF Safe
    <2>2. a >= 3
      BY <1>2, <1>5 DEF a
    <2>3. a \in Nat
      BY <1>1, Zenon
    <2>4. 1 \in 1..a /\ 2 \in 1..a
      BY <2>2, <2>3
    <2>5. u[1] = p[1] /\ u[2] = p[2]
      BY <1>1, <2>4, Zenon
    <2>. QED BY <1>1, <1>3, <2>1, <2>5 DEF u
  <1>. QED BY <1>4, <1>5

(* The old-key marker is there if its two symbols are.                     *)
LEMMA PrefixLemma ==
  ASSUME NEW s \in Text, Len(s) >= 2
  PROVE  /\ OldKeyMark \in Text /\ Len(OldKeyMark) = 2
         /\ IsPrefix(OldKeyMark, s) <=> s[1] = "old-key:" /\ s[2] = " "
  <1>1. PICK y \in Symbols, k \in Symbols : y = " " /\ k = "old-key:"
    BY Literals
  <1>2. PICK o : o = <<k, y>>
    OBVIOUS
  <1>3. o \in Text /\ Len(o) = 2 /\ o[1] = k /\ o[2] = y
    BY <1>2, TwoSymbols
  <1>4. OldKeyMark = o
    BY <1>1, <1>2 DEF OldKeyMark
  <1>5. Len(s) \in Nat
    BY LenProperties DEF Text
  <1>6. 1 \in 1..(Len(s) - Len(o) + 1) /\ 1 + Len(o) - 1 = 2
    BY <1>3, <1>5
  <1>7. SubSeq(s, 1, 1 + Len(o) - 1) = o <=> Stands(s, o, 1)
    BY <1>3, <1>6, PartLemma
  <1>8. SubSeq(o, 1, Len(o)) = o
    <2>1. o \in Seq(Symbols) /\ Len(o) = 2
      BY <1>3 DEF Text
    <2>2. o = SubSeq(o, 1, 2)
      BY <2>1
    <2>. QED BY <2>1, <2>2
  <1>9. Stands(s, o, 1) <=> s[1] = k /\ s[2] = y
    <2>1. \A p \in 1..2 : p = 1 \/ p = 2
      OBVIOUS
    <2>2. 1 \in 1..2 /\ 2 \in 1..2 /\ 1 + 1 - 1 = 1 /\ 1 + 2 - 1 = 2
      OBVIOUS
    <2>3. Stands(s, o, 1) <=> \A p \in 1..2 : s[1 + p - 1] = o[p]
      BY <1>3 DEF Stands
    <2>. QED BY <1>3, <2>1, <2>2, <2>3
  <1>10. IsPrefix(o, s) <=> s[1] = k /\ s[2] = y
    BY <1>3, <1>6, <1>7, <1>8, <1>9 DEF IsPrefix
  <1>. QED BY <1>1, <1>3, <1>4, <1>10

(* The old-key marker is found in front of an old row, and behind it is    *)
(* what is left of both tuples.                                            *)
LEMMA KeyedHead ==
  ASSUME NEW old \in Seq(Column), NEW cs \in Seq(Column), NEW s,
         BodyLeft(KeyedText(old, cs), s)
  PROVE  IsPrefix(OldKeyMark, s) /\ BodyLeft(OldAndNew(old, cs), From(s, Len(OldKeyMark) + 1))
  <1>. DEFINE g == KeyedText(old, cs)
              u == OldAndNew(old, cs)
              b == From(s, 3)
              l == Len(s)
  <1>1. /\ g \in Text /\ Len(g) = 2 + Len(u) /\ Len(u) \in Nat
        /\ g[1] = " " /\ g[2] = "old-key:"
        /\ \A x \in 1..Len(u) : g[2 + x] = u[x]
    BY KeyedBody
  <1>2. Len(u) >= 2 /\ u[1] = " " /\ u[2] # "\n"
    BY OldAndNewStart
  <1>3. /\ s \in Text /\ l + 1 <= Len(g)
        /\ \A x \in 1..l : s[x] = g[x + 1]
        /\ EndsAt(g, l + 1)
    BY Zenon DEF BodyLeft
  <1>4. l \in Nat
    BY <1>3, LenProperties DEF Text
  <1>. HIDE DEF g, u, b, l
  <1>5. (\A x \in 1..(l + 1) : ~LineBreak(g, x)) /\ (l + 1 < Len(g) => LineBreak(g, l + 1 + 1))
    BY <1>3, Zenon DEF EndsAt
  <1>6. 1 \in 1..Len(u) /\ 2 \in 1..Len(u) /\ 2 + 1 = 3 /\ 2 + 2 = 4
    <2>1. Len(u) >= 2 /\ Len(u) \in Nat
      BY <1>1, <1>2, Zenon
    <2>. QED BY <2>1
  <1>7. g[3] = " " /\ g[4] # "\n"
    BY <1>1, <1>2, <1>6, Zenon
  <1>8. ~LineBreak(g, 2) /\ ~LineBreak(g, 3) /\ ~LineBreak(g, 4)
    BY <1>1, <1>7 DEF LineBreak
  <1>9. l >= 3
    <2>1. Len(g) \in Nat /\ Len(g) >= 4 /\ l + 1 <= Len(g)
      <3>1. Len(u) >= 2 /\ Len(u) \in Nat /\ Len(g) = 2 + Len(u) /\ l + 1 <= Len(g)
        BY <1>1, <1>2, <1>3, Zenon
      <3>. QED BY <3>1
    <2>2. SUFFICES ASSUME l \in {0, 1, 2} PROVE FALSE
      BY <1>4
    <2>3. l + 1 < Len(g) /\ l + 1 + 1 \in {2, 3, 4}
      BY <2>1, <2>2
    <2>4. PICK y : y = l + 1 + 1
      OBVIOUS
    <2>5. LineBreak(g, y) /\ y \in {2, 3, 4}
      BY <1>5, <2>3, <2>4
    <2>. QED BY <1>8, <2>5
  <1>10. s[1] = "old-key:" /\ s[2] = " "
    <2>1. 1 \in 1..l /\ 2 \in 1..l /\ 1 + 1 = 2 /\ 2 + 1 = 3
      BY <1>4, <1>9
    <2>. QED BY <1>1, <1>3, <1>7, <2>1, Zenon
  <1>11. IsPrefix(OldKeyMark, s) /\ Len(OldKeyMark) + 1 = 3
    <2>1. Len(s) >= 2
      BY <1>4, <1>9 DEF l
    <2>2. IsPrefix(OldKeyMark, s) /\ Len(OldKeyMark) = 2
      BY <1>3, <1>10, <2>1, PrefixLemma
    <2>. QED BY <2>2
  <1>12. b \in Text /\ Len(b) = l - 3 + 1 /\ \A x \in 1..(l - 3 + 1) : b[x] = s[3 + x - 1]
    <2>1. 3 \in 1..(Len(s) + 1)
      BY <1>4, <1>9 DEF l
    <2>. QED BY <1>3, <2>1, FromLemma DEF b, l
  <1>13. l - 3 + 1 = l - 2 /\ Len(b) = l - 2 /\ Len(b) \in Nat /\ Len(b) + 1 <= Len(u)
         /\ 2 + (Len(b) + 1) = l + 1 /\ 2 + (Len(b) + 1 + 1) = l + 1 + 1
    <2>1. Len(b) = l - 3 + 1 /\ Len(g) = 2 + Len(u) /\ l + 1 <= Len(g) /\ Len(u) \in Nat
      BY <1>1, <1>3, <1>12, Zenon
    <2>. QED BY <1>4, <1>9, <2>1
  <1>14. ASSUME NEW x \in 1..Len(b) PROVE b[x] = u[x + 1]
    <2>1. x \in 1..(l - 3 + 1) /\ 3 + x - 1 \in 1..l /\ 3 + x - 1 + 1 = 2 + (x + 1) /\ x + 1 \in 1..Len(u)
      <3>1. Len(b) = l - 2 /\ Len(b) + 1 <= Len(u) /\ Len(u) \in Nat
        BY <1>1, <1>13, Zenon
      <3>. QED BY <1>4, <3>1
    <2>. QED BY <1>1, <1>3, <1>12, <2>1, Zenon
  <1>15. EndsAt(u, Len(b) + 1)
    <2>1. ASSUME NEW x \in 1..(Len(b) + 1) PROVE ~LineBreak(u, x)
      <3>1. x \in 1..Len(u) /\ 2 + x \in 1..(l + 1)
        <4>1. Len(b) = l - 2 /\ Len(b) + 1 <= Len(u) /\ Len(u) \in Nat
          BY <1>1, <1>13, Zenon
        <4>. QED BY <1>4, <4>1
      <3>2. ~LineBreak(g, 2 + x)
        BY <1>5, <3>1, Zenon
      <3>. QED BY <1>1, <3>1, <3>2, Zenon DEF LineBreak
    <2>2. ASSUME Len(b) + 1 < Len(u) PROVE LineBreak(u, Len(b) + 1 + 1)
      <3>1. l + 1 < Len(g) /\ Len(b) + 1 + 1 \in 1..Len(u)
        <4>1. Len(b) = l - 2 /\ Len(g) = 2 + Len(u) /\ Len(u) \in Nat
          BY <1>1, <1>13, Zenon
        <4>. QED BY <1>4, <1>9, <2>2, <4>1
      <3>2. LineBreak(g, l + 1 + 1)
        BY <1>5, <3>1, Zenon
      <3>. QED BY <1>1, <1>13, <3>1, <3>2, Zenon DEF LineBreak
    <2>. QED BY <2>1, <2>2, Zenon DEF EndsAt
  <1>16. u # <<>>
    <2>1. Len(<<>>) = 0 /\ Len(u) >= 2
      BY <1>2
    <2>. QED BY <2>1
  <1>17. BodyLeft(u, b)
    BY <1>1, <1>12, <1>13, <1>14, <1>15, <1>16, Zenon DEF BodyLeft
  <1>. QED BY <1>11, <1>17 DEF u, b

(* The first new-tuple marker of a text.                                   *)
MarkAt(s, x) == s[x] = " " /\ s[x + 1] = "new-tuple:" /\ s[x + 2] = " "
NoMarkBefore(s, k) == \A x \in 1..Len(s) : x + 2 <= Len(s) /\ x < k => ~MarkAt(s, x)
FirstMarkAt(s, k) == k \in 1..Len(s) /\ k + 2 <= Len(s) /\ MarkAt(s, k) /\ NoMarkBefore(s, k)

(* strings.Index finds the first new-tuple marker, or there is none.       *)
LEMMA FirstMark ==
  ASSUME NEW t \in Text
  PROVE  /\ Len(NewTupleMark) = 3
         /\ \/ Index(t, NewTupleMark) = {} /\ NoMarkBefore(t, Len(t) + 1)
            \/ \E k : Index(t, NewTupleMark) = {k} /\ FirstMarkAt(t, k)
  <1>. DEFINE m == NewTupleMark
              last == Len(t) - Len(m) + 1
  <1>1. m \in Text /\ Len(m) = 3 /\ m[1] = " " /\ m[2] = "new-tuple:" /\ m[3] = " "
    <2>1. " " \in Symbols /\ "new-tuple:" \in Symbols
      BY Literals
    <2>2. PICK a \in Symbols, b \in Symbols : a = " " /\ b = "new-tuple:"
      BY <2>1
    <2>3. <<a, b, a>> \in Text /\ Len(<<a, b, a>>) = 3
          /\ <<a, b, a>>[1] = a /\ <<a, b, a>>[2] = b /\ <<a, b, a>>[3] = a
      BY DEF Text
    <2>4. m = <<a, b, a>>
      BY <2>2 DEF NewTupleMark
    <2>. QED BY <2>2, <2>3, <2>4, Zenon
  <1>2. Len(t) \in Nat
    BY LenProperties DEF Text
  <1>3. \A i : Stands(t, m, i) <=> t[i + 1 - 1] = " " /\ t[i + 2 - 1] = "new-tuple:" /\ t[i + 3 - 1] = " "
    <2>1. \A i : i \in 1..3 <=> i = 1 \/ i = 2 \/ i = 3
      OBVIOUS
    <2>. QED BY <1>1, <2>1 DEF Stands
  <1>4. \/ Index(t, m) = {} /\ \A i \in 1..last : ~Stands(t, m, i)
        \/ \E k \in 1..last : Index(t, m) = {k} /\ Stands(t, m, k) /\ \A i \in 1..(k - 1) : ~Stands(t, m, i)
    <2>1. 1 \in Nat \ {0}
      OBVIOUS
    <2>. HIDE DEF m
    <2>2. \/ /\ IndexFrom(t, m, 1) = {}
             /\ \A i \in 1..(Len(t) - Len(m) + 1) : ~Stands(t, m, i)
          \/ \E k \in 1..(Len(t) - Len(m) + 1) :
               /\ IndexFrom(t, m, 1) = {k}
               /\ Stands(t, m, k)
               /\ \A i \in 1..(k - 1) : ~Stands(t, m, i)
      BY <1>1, <2>1, FindLemma
    <2>. QED BY <2>2 DEF Index
  <1>5. Len(m) = 3
    BY <1>1
  <1>. HIDE DEF m
  <1>6. \A i : i \in 1..last <=> i \in 1..Len(t) /\ i + 2 <= Len(t)
    BY <1>2, <1>5
  <1>7. \A i \in 1..Len(t) : i + 1 - 1 = i /\ i + 2 - 1 = i + 1 /\ i + 3 - 1 = i + 2
    OBVIOUS
  <1>. HIDE DEF last
  <1>8. \A i \in 1..Len(t) : Stands(t, m, i) <=> MarkAt(t, i)
    BY <1>3, <1>7 DEF MarkAt
  <1>9. CASE Index(t, m) = {} /\ \A i \in 1..last : ~Stands(t, m, i)
    <2>1. NoMarkBefore(t, Len(t) + 1)
      BY <1>6, <1>8, <1>9, Zenon DEF NoMarkBefore
    <2>. QED BY <1>5, <1>9, <2>1 DEF m
  <1>10. ASSUME NEW k \in 1..last, Index(t, m) = {k}, Stands(t, m, k), \A i \in 1..(k - 1) : ~Stands(t, m, i)
         PROVE  Index(t, m) = {k} /\ FirstMarkAt(t, k)
    <2>1. k \in 1..Len(t) /\ k + 2 <= Len(t)
      BY <1>6
    <2>2. \A x \in 1..Len(t) : x < k => x \in 1..(k - 1)
      BY <1>2, <2>1
    <2>3. NoMarkBefore(t, k)
      BY <1>8, <1>10, <2>2, Zenon DEF NoMarkBefore
    <2>4. MarkAt(t, k)
      BY <1>8, <1>10, <2>1, Zenon
    <2>. QED BY <1>10, <2>1, <2>3, <2>4, Zenon DEF FirstMarkAt
  <1>. QED BY <1>4, <1>5, <1>9, <1>10, Zenon DEF m

(* A marker within a tuple is within one of its columns.                   *)
LEMMA MarkInCell ==
  ASSUME NEW cs \in Seq(Column), NEW y \in 1..Len(PrintColumns(cs)), PrintColumns(cs)[y] = "new-tuple:"
  PROVE  \E i \in 1..Len(cs) : \E x \in 2..CellLen(cs[i]) :
           /\ x + 1 <= CellLen(cs[i]) /\ y = At(cs)[i - 1] + 1 + x
           /\ PrintColumn(cs[i])[x] = "new-tuple:"
           /\ y - 1 \in 1..Len(PrintColumns(cs)) /\ PrintColumns(cs)[y - 1] = PrintColumn(cs[i])[x - 1]
           /\ y + 1 \in 1..Len(PrintColumns(cs)) /\ PrintColumns(cs)[y + 1] = PrintColumn(cs[i])[x + 1]
  <1>. DEFINE p == PrintColumns(cs)
              at == At(cs)
  <1>1. PICK i \in 1..Len(cs) : \E x \in 1..CellLen(cs[i]) :
          y = at[i - 1] + 1 + x /\ PrintColumn(cs[i])[x] = p[y]
    <2>1. p[y] # " "
      OBVIOUS
    <2>. QED BY <2>1, CellPlace, Zenon
  <1>2. PICK x \in 1..CellLen(cs[i]) : y = at[i - 1] + 1 + x /\ PrintColumn(cs[i])[x] = p[y]
    BY <1>1
  <1>3. cs[i] \in Column /\ at[i - 1] \in Nat /\ CellLen(cs[i]) \in Nat
    BY AtSteps
  <1>4. PrintColumn(cs[i])[x] = "new-tuple:"
    BY <1>2
  <1>5. x - 1 \in 1..CellLen(cs[i]) /\ x + 1 \in 1..CellLen(cs[i])
    BY <1>3, <1>4, WordPlace
  <1>6. /\ at[i - 1] + 1 + (x - 1) \in 1..Len(p)
        /\ p[at[i - 1] + 1 + (x - 1)] = PrintColumn(cs[i])[x - 1]
        /\ at[i - 1] + 1 + (x + 1) \in 1..Len(p)
        /\ p[at[i - 1] + 1 + (x + 1)] = PrintColumn(cs[i])[x + 1]
    BY <1>5, CellIn
  <1>. HIDE DEF p, at
  <1>7. at[i - 1] + 1 + (x - 1) = y - 1 /\ at[i - 1] + 1 + (x + 1) = y + 1
        /\ x \in 2..CellLen(cs[i]) /\ x + 1 <= CellLen(cs[i])
    <2>1. PICK a, l : a = at[i - 1] /\ l = CellLen(cs[i])
      OBVIOUS
    <2>2. a \in Nat /\ l \in Nat /\ x - 1 \in 1..l /\ x + 1 \in 1..l /\ x \in 1..l /\ y = a + 1 + x
      BY <1>2, <1>3, <1>5, <2>1, Zenon
    <2>3. a + 1 + (x - 1) = y - 1 /\ a + 1 + (x + 1) = y + 1 /\ x \in 2..l /\ x + 1 <= l
      BY <2>2
    <2>. QED BY <2>1, <2>3
  <1>. QED BY <1>2, <1>4, <1>6, <1>7, Zenon DEF p, at

(* What is in front of the marker that is found first.                     *)
InFront(u, a, l, b, t, k) ==
  /\ b \in Text /\ Len(b) \in Nat /\ k \in Nat /\ k >= 1 /\ k + 2 <= Len(b)
  /\ a \in Nat /\ l \in Nat /\ Len(b) + 1 <= a + 2 + l
  /\ t \in Text /\ Len(t) = k - 1
  /\ \A x \in 1..(k - 1) : t[x] = u[x + 1]
  /\ u[k + 1] = " " /\ u[k + 2] = "new-tuple:" /\ u[k + 3] = " "

(* The text in front of the first marker.                                  *)
LEMMA KeyedParts ==
  ASSUME NEW old \in Seq(Column), NEW cs \in Seq(Column), NEW b, BodyLeft(OldAndNew(old, cs), b),
         NEW k, FirstMarkAt(b, k)
  PROVE  InFront(OldAndNew(old, cs), Len(PrintColumns(old)), Len(PrintColumns(cs)), b, Before(b, k), k)
  <1>. DEFINE u == OldAndNew(old, cs)
              a == Len(PrintColumns(old))
              l == Len(PrintColumns(cs))
  <1>1. /\ b \in Text /\ Len(b) + 1 <= Len(u)
        /\ \A x \in 1..Len(b) : b[x] = u[x + 1]
    BY Zenon DEF BodyLeft
  <1>2. a \in Nat /\ l \in Nat /\ Len(u) = a + 2 + l
    BY OldAndNewParts
  <1>3. k \in 1..Len(b) /\ k + 2 <= Len(b) /\ MarkAt(b, k)
    BY Zenon DEF FirstMarkAt
  <1>4. Len(b) \in Nat
    BY <1>1, LenProperties DEF Text
  <1>. HIDE DEF u, a, l
  <1>5. /\ k \in Nat /\ k >= 1 /\ k \in 1..(Len(b) + 1) /\ k + 1 \in 1..Len(b) /\ k + 2 \in 1..Len(b)
        /\ k + 1 + 1 = k + 2 /\ k + 2 + 1 = k + 3 /\ \A x \in 1..(k - 1) : x \in 1..Len(b)
    BY <1>3, <1>4
  <1>6. /\ Before(b, k) \in Text /\ Len(Before(b, k)) = k - 1
        /\ \A x \in 1..(k - 1) : Before(b, k)[x] = b[x]
    BY <1>1, <1>5, BeforeAt, Zenon
  <1>7. \A x \in 1..(k - 1) : Before(b, k)[x] = u[x + 1]
    BY <1>1, <1>5, <1>6, Zenon
  <1>8. u[k + 1] = " " /\ u[k + 2] = "new-tuple:" /\ u[k + 3] = " "
    BY <1>1, <1>3, <1>5, Zenon DEF MarkAt
  <1>9. Len(b) + 1 <= a + 2 + l
    BY <1>1, <1>2, Zenon
  <1>. QED BY <1>1, <1>2, <1>3, <1>4, <1>5, <1>6, <1>7, <1>8, <1>9, Zenon DEF InFront, u, a, l

(* Of an old row of NULLs nothing is printed: what is taken for the old    *)
(* tuple begins with the rest of the marker and ends within the new one.   *)
LEMMA KeyedJunk ==
  ASSUME NEW old \in Seq(Column), NEW cs \in Seq(Column), NEW b, BodyLeft(OldAndNew(old, cs), b),
         NEW k, FirstMarkAt(b, k), Len(old) = 0
  PROVE  \E m \in 0..Len(cs) : m < Len(cs) /\ Tuple(Before(b, k), 2, cs, m)
  <1>. DEFINE u == OldAndNew(old, cs)
              a == Len(PrintColumns(old))
              p == PrintColumns(cs)
              l == Len(p)
              t == Before(b, k)
              at == At(cs)
              n == Len(cs)
  <1>0. InFront(u, a, l, b, t, k)
    BY KeyedParts
  <1>1. /\ Len(b) \in Nat /\ k \in Nat /\ k >= 1 /\ k + 2 <= Len(b)
        /\ a \in Nat /\ l \in Nat /\ Len(b) + 1 <= a + 2 + l
    BY <1>0, Zenon DEF InFront
  <1>2. /\ t \in Text /\ Len(t) = k - 1 /\ \A x \in 1..(k - 1) : t[x] = u[x + 1]
    BY <1>0, Zenon DEF InFront
  <1>3. u[k + 1] = " " /\ u[k + 2] = "new-tuple:"
    BY <1>0, Zenon DEF InFront
  <1>4. /\ u[a + 1] = " " /\ u[a + 2] = "new-tuple:"
        /\ \A x \in 1..l : u[a + 2 + x] = p[x]
    BY OldAndNewParts
  <1>5. a = 0
    <2>1. PrintColumns(old) = <<>>
      BY ColumnsBegin
    <2>2. Len(<<>>) = 0
      OBVIOUS
    <2>. QED BY <2>1, <2>2
  <1>6. n \in Nat /\ \A i \in 1..n : at[i - 1] \in Nat /\ CellLen(cs[i]) \in Nat
    BY AtSteps
  <1>. HIDE DEF u, a, p, l, t, at, n
  <1>7. /\ k \in 1..l /\ k + 2 = a + 2 + k
        /\ \A x \in 1..l : a + 2 + x = x + 2
    BY <1>1, <1>5
  <1>8. p[k] = "new-tuple:"
    BY <1>3, <1>4, <1>7, Zenon
  <1>9. PICK i \in 1..n : \E x \in 2..CellLen(cs[i]) :
          /\ k = at[i - 1] + 1 + x
          /\ k - 1 \in 1..l /\ p[k - 1] = PrintColumn(cs[i])[x - 1]
    BY <1>7, <1>8, MarkInCell, Zenon DEF p, l, n, at
  <1>10. PICK x \in 2..CellLen(cs[i]) : /\ k = at[i - 1] + 1 + x
                                        /\ k - 1 \in 1..l /\ p[k - 1] = PrintColumn(cs[i])[x - 1]
    BY <1>9
  <1>11. PICK e, q : e = at[i - 1] /\ q = x - 1
    OBVIOUS
  <1>12. e \in Nat /\ k = e + 1 + x /\ CellLen(cs[i]) \in Nat
    BY <1>6, <1>10, <1>11, Zenon
  <1>13. q \in 1..CellLen(cs[i]) /\ k >= 3 /\ k - 1 = 2 + e + q - 1 /\ a + 2 + (k - 1) = k + 1
    <2>1. PICK w : w = CellLen(cs[i])
      OBVIOUS
    <2>2. w \in Nat /\ x \in 2..w /\ q = x - 1 /\ e \in Nat /\ k = e + 1 + x /\ a = 0
      BY <1>5, <1>11, <1>12, <2>1, Zenon
    <2>3. q \in 1..w /\ k >= 3 /\ k - 1 = 2 + e + q - 1 /\ a + 2 + (k - 1) = k + 1
      BY <2>2
    <2>. QED BY <2>1, <2>3, Zenon
  <1>14. PrintColumn(cs[i])[q] = " "
    <2>1. u[a + 2 + (k - 1)] = p[k - 1]
      BY <1>4, <1>10, Zenon
    <2>. QED BY <1>3, <1>10, <1>11, <1>13, <2>1, Zenon
  <1>15. Breaks(PrintColumn(cs[i]), q)
    BY <1>14 DEF Breaks
  <1>16. 1 \in 1..(k - 1) /\ 2 \in 1..(k - 1) /\ 1 + 1 = 2 /\ 2 + 1 = 3 /\ a + 2 = 2 /\ a + 2 + 1 = 3 /\ 1 \in 1..l
    BY <1>1, <1>5, <1>7, <1>13
  <1>17. p[1] = " "
    <2>1. n # 0
      BY <1>6
    <2>. QED BY <2>1, ColumnsBegin DEF p, n
  <1>18. t[1] = "new-tuple:" /\ t[2] = " "
    <2>1. t[1] = u[2] /\ t[2] = u[3]
      BY <1>2, <1>16, Zenon
    <2>2. u[2] = "new-tuple:"
      BY <1>4, <1>16, Zenon
    <2>3. u[3] = p[1]
      BY <1>4, <1>16, Zenon
    <2>. QED BY <1>17, <2>1, <2>2, <2>3, Zenon
  <1>19. Opening(t, 2)
    <2>1. \A y \in 1..2 : y = 1 \/ y = 2
      OBVIOUS
    <2>. QED BY <1>18, <2>1 DEF Opening
  <1>20. Follows(t, 2, cs)
    <2>1. ASSUME NEW y \in 1..Len(t), y >= 2 PROVE t[y] = p[y - 2 + 1]
      <3>1. Len(t) = k - 1
        BY <1>2, Zenon
      <3>2. y \in 1..(k - 1) /\ y - 2 + 1 \in 1..l /\ a + 2 + (y - 2 + 1) = y + 1
        BY <1>1, <1>5, <1>7, <2>1, <3>1
      <3>. QED BY <1>2, <1>4, <3>2, Zenon
    <2>2. 2 \in Nat
      OBVIOUS
    <2>. QED BY <1>2, <1>19, <2>1, <2>2, Zenon DEF Follows, p
  <1>21. PICK m : m = i - 1
    OBVIOUS
  <1>22. m \in 0..n /\ m < n /\ m + 1 = i /\ n # 0 /\ m # n
    BY <1>6, <1>21
  <1>23. Len(t) = 2 + at[m] + q - 1
    BY <1>2, <1>11, <1>13, <1>21, Zenon
  <1>24. \E z \in 1..CellLen(cs[m + 1]) : Breaks(PrintColumn(cs[m + 1]), z) /\ Len(t) = 2 + at[m] + z - 1
    BY <1>13, <1>15, <1>22, <1>23, Zenon
  <1>25. Tuple(t, 2, cs, m)
    BY <1>20, <1>22, <1>24, TupleShown DEF n, at
  <1>. QED BY <1>22, <1>25 DEF n, t

(* A name or a value of a tuple holds the marker.                          *)
MarkedIn(cs) == \E i \in 1..Len(cs) : Marked(cs[i])

(* A marker in an old name or value cuts the old tuple off within a        *)
(* column.                                                                 *)
LEMMA KeyedCut ==
  ASSUME NEW old \in Seq(Column), NEW cs \in Seq(Column), NEW b, BodyLeft(OldAndNew(old, cs), b),
         NEW k, FirstMarkAt(b, k), k + 2 <= Len(PrintColumns(old))
  PROVE  \E m \in 0..Len(old) : m < Len(old) /\ Tuple(Before(b, k), 0, old, m) /\ MarkedIn(old)
  <1>. DEFINE u == OldAndNew(old, cs)
              p == PrintColumns(old)
              a == Len(p)
              l == Len(PrintColumns(cs))
              t == Before(b, k)
              at == At(old)
              n == Len(old)
  <1>0. InFront(u, a, l, b, t, k)
    BY KeyedParts
  <1>1. k \in Nat /\ k >= 1 /\ a \in Nat
    BY <1>0, Zenon DEF InFront
  <1>2. /\ t \in Text /\ Len(t) = k - 1 /\ \A x \in 1..(k - 1) : t[x] = u[x + 1]
    BY <1>0, Zenon DEF InFront
  <1>3. u[k + 1] = " " /\ u[k + 2] = "new-tuple:" /\ u[k + 3] = " "
    BY <1>0, Zenon DEF InFront
  <1>4. \A x \in 1..a : u[x] = p[x]
    BY OldAndNewParts
  <1>5. n \in Nat /\ \A i \in 1..n : at[i - 1] \in Nat /\ CellLen(old[i]) \in Nat /\ old[i] \in Column
    BY AtSteps
  <1>6. n # 0 /\ p[2] # " "
    <2>1. a # 0
      BY <1>1
    <2>2. Len(<<>>) = 0
      OBVIOUS
    <2>3. n # 0
      BY <2>1, <2>2, ColumnsBegin
    <2>4. p[2] \in Safe \cup {"\""}
      BY <2>3, ColumnsBegin
    <2>5. p[2] # " "
      BY <2>4 DEF Safe
    <2>. QED BY <2>3, <2>5
  <1>7. k + 2 <= a
    OBVIOUS
  <1>. HIDE DEF u, a, p, l, t, at, n
  <1>8. k + 2 \in 1..a /\ k + 1 \in 1..a /\ (k + 2) - 1 = k + 1 /\ (k + 2) + 1 = k + 3 /\ 1 + 1 = 2
    BY <1>1, <1>7
  <1>9. p[k + 2] = "new-tuple:"
    BY <1>3, <1>4, <1>8, Zenon
  <1>10. PICK i \in 1..n : \E x \in 2..CellLen(old[i]) :
           /\ x + 1 <= CellLen(old[i]) /\ k + 2 = at[i - 1] + 1 + x
           /\ PrintColumn(old[i])[x] = "new-tuple:"
           /\ (k + 2) - 1 \in 1..a /\ p[(k + 2) - 1] = PrintColumn(old[i])[x - 1]
           /\ (k + 2) + 1 \in 1..a /\ p[(k + 2) + 1] = PrintColumn(old[i])[x + 1]
    BY <1>8, <1>9, MarkInCell, Zenon DEF p, a, n, at
  <1>11. PICK x \in 2..CellLen(old[i]) :
           /\ x + 1 <= CellLen(old[i]) /\ k + 2 = at[i - 1] + 1 + x
           /\ PrintColumn(old[i])[x] = "new-tuple:"
           /\ (k + 2) - 1 \in 1..a /\ p[(k + 2) - 1] = PrintColumn(old[i])[x - 1]
           /\ (k + 2) + 1 \in 1..a /\ p[(k + 2) + 1] = PrintColumn(old[i])[x + 1]
    BY <1>10
  <1>12. PrintColumn(old[i])[x - 1] = " " /\ PrintColumn(old[i])[x + 1] = " " /\ k + 3 \in 1..a
    BY <1>3, <1>4, <1>8, <1>11, Zenon
  <1>13. PICK e, q, w : e = at[i - 1] /\ q = x - 1 /\ w = CellLen(old[i])
    OBVIOUS
  <1>14. /\ q \in 1..w /\ q + 2 <= w /\ q + 1 = x /\ q + 2 = x + 1
         /\ k - 1 = 0 + e + q - 1 /\ w \in Nat /\ e \in Nat
    <2>1. e \in Nat /\ w \in Nat /\ x \in 2..w /\ x + 1 <= w /\ k + 2 = e + 1 + x /\ q = x - 1
      BY <1>5, <1>11, <1>13, Zenon
    <2>. QED BY <1>1, <2>1
  <1>15. Marked(old[i])
    <2>1. Len(PrintColumn(old[i])) = w
      BY <1>5, <1>13, PartFacts
    <2>2. PrintColumn(old[i])[q] = " " /\ PrintColumn(old[i])[q + 1] = "new-tuple:"
          /\ PrintColumn(old[i])[q + 2] = " "
      BY <1>11, <1>12, <1>13, <1>14, Zenon
    <2>3. Mark(PrintColumn(old[i]))
      BY <1>14, <2>1, <2>2, Zenon DEF Mark, Three
    <2>. QED BY <1>5, <2>3, CellMark
  <1>16. k # 1
    <2>. SUFFICES ASSUME k = 1 PROVE FALSE
      OBVIOUS
    <2>1. k + 1 = 2
      OBVIOUS
    <2>. QED BY <1>3, <1>4, <1>6, <1>8, <2>1
  <1>17. Follows(t, 0, old)
    <2>1. ASSUME NEW y \in 1..Len(t) PROVE t[y] = p[y - 0 + 1]
      <3>1. Len(t) = k - 1
        BY <1>2, Zenon
      <3>2. y \in 1..(k - 1) /\ y + 1 \in 1..a /\ y - 0 + 1 = y + 1
        BY <1>1, <1>7, <3>1
      <3>. QED BY <1>2, <1>4, <3>2, Zenon
    <2>2. 1 \in 1..(k - 1) /\ 1 + 1 = 2 /\ 2 \in 1..a
      BY <1>1, <1>7, <1>16
    <2>3. t[1] # " "
      BY <1>2, <1>4, <1>6, <2>2, Zenon
    <2>4. 0 \in Nat /\ \A z \in 1..0 : FALSE
      OBVIOUS
    <2>. QED BY <1>2, <2>1, <2>3, <2>4, Zenon DEF Follows, Opening, p
  <1>18. PICK m : m = i - 1
    OBVIOUS
  <1>19. m \in 0..n /\ m < n /\ m + 1 = i /\ n # 0 /\ m # n
    <2>1. n \in Nat /\ n # 0
      BY <1>5, <1>6, Zenon
    <2>. QED BY <1>18, <2>1
  <1>20. Len(t) = 0 + at[m] + q - 1
    BY <1>2, <1>13, <1>14, <1>18, Zenon
  <1>21. \E z \in 1..CellLen(old[m + 1]) : Breaks(PrintColumn(old[m + 1]), z) /\ Len(t) = 0 + at[m] + z - 1
    <2>1. Breaks(PrintColumn(old[i]), q)
      BY <1>12, <1>13 DEF Breaks
    <2>. QED BY <1>13, <1>14, <1>19, <1>20, <2>1, Zenon
  <1>22. Tuple(t, 0, old, m)
    BY <1>17, <1>19, <1>21, TupleShown DEF n, at
  <1>23. MarkedIn(old)
    BY <1>15 DEF MarkedIn, n
  <1>. QED BY <1>19, <1>22, <1>23 DEF n, t

(* The marker PostgreSQL put between the tuples.                           *)
LEMMA MarkBetween ==
  ASSUME NEW old \in Seq(Column), NEW cs \in Seq(Column), NEW b, BodyLeft(OldAndNew(old, cs), b),
         Len(old) # 0, Len(cs) # 0
  PROVE  LET a == Len(PrintColumns(old))
         IN  /\ a \in Nat /\ a >= 3 /\ Len(b) \in Nat
             /\ a + 2 <= Len(b) => MarkAt(b, a) /\ a \in 1..Len(b)
             /\ OldAndNew(old, cs)[a + 3] = " "
  <1>. DEFINE u == OldAndNew(old, cs)
              a == Len(PrintColumns(old))
              p == PrintColumns(cs)
              l == Len(p)
  <1>1. /\ b \in Text /\ \A x \in 1..Len(b) : b[x] = u[x + 1]
    BY Zenon DEF BodyLeft
  <1>2. Len(b) \in Nat
    BY <1>1, LenProperties DEF Text
  <1>3. a \in Nat /\ l \in Nat
    BY OldAndNewParts
  <1>4. /\ u[a + 1] = " " /\ u[a + 2] = "new-tuple:"
        /\ \A x \in 1..l : u[a + 2 + x] = p[x]
    BY OldAndNewParts
  <1>5. a >= 3
    BY ColumnsBegin
  <1>6. l >= 3
    BY ColumnsBegin
  <1>7. p[1] = " "
    BY ColumnsBegin
  <1>. HIDE DEF u, a, p, l
  <1>8. 1 \in 1..l /\ a + 2 + 1 = a + 3 /\ a + 1 + 1 = a + 2 /\ a + 2 + 1 = a + 3
    BY <1>3, <1>6
  <1>9. u[a + 3] = " "
    BY <1>4, <1>7, <1>8, Zenon
  <1>10. ASSUME a + 2 <= Len(b) PROVE MarkAt(b, a) /\ a \in 1..Len(b)
    <2>1. a \in 1..Len(b) /\ a + 1 \in 1..Len(b) /\ a + 2 \in 1..Len(b)
      BY <1>2, <1>3, <1>5, <1>10
    <2>2. b[a] = " " /\ b[a + 1] = "new-tuple:" /\ b[a + 2] = " "
      BY <1>1, <1>4, <1>8, <1>9, <2>1, Zenon
    <2>. QED BY <2>1, <2>2 DEF MarkAt
  <1>. QED BY <1>2, <1>3, <1>5, <1>9, <1>10, Zenon DEF u, a

(* Without a marker a line break has ended the line within the old tuple.  *)
LEMMA KeyedNone ==
  ASSUME NEW old \in Seq(Column), NEW cs \in Seq(Column), NEW b, BodyLeft(OldAndNew(old, cs), b),
         NoMarkBefore(b, Len(b) + 1), Len(old) # 0, Len(cs) # 0
  PROVE  InFile /\ Broke(old)
  <1>. DEFINE u == OldAndNew(old, cs)
              p == PrintColumns(old)
              a == Len(p)
              l == Len(PrintColumns(cs))
  <1>1. /\ a \in Nat /\ a >= 3 /\ Len(b) \in Nat
        /\ a + 2 <= Len(b) => MarkAt(b, a) /\ a \in 1..Len(b)
        /\ u[a + 3] = " "
    BY MarkBetween
  <1>2. l \in Nat /\ Len(u) = a + 2 + l
    BY OldAndNewParts
  <1>3. u[a + 1] = " " /\ u[a + 2] = "new-tuple:"
    BY OldAndNewParts
  <1>4. \A x \in 1..a : u[x] = p[x]
    BY OldAndNewParts
  <1>5. l >= 3
    BY ColumnsBegin
  <1>6. EndsAt(u, Len(b) + 1)
    BY Zenon DEF BodyLeft
  <1>7. \A i \in 1..Len(old) : old[i] \in Column
    BY AtSteps
  <1>. HIDE DEF u, a, p, l
  <1>8. ~(a + 2 <= Len(b))
    <2>. SUFFICES ASSUME a + 2 <= Len(b) PROVE FALSE
      OBVIOUS
    <2>1. MarkAt(b, a) /\ a \in 1..Len(b) /\ Len(b) \in Nat
      BY <1>1
    <2>2. a < Len(b) + 1
      BY <2>1
    <2>. QED BY <2>1, <2>2, Zenon DEF NoMarkBefore
  <1>9. PICK y : y = Len(b) + 1 + 1
    OBVIOUS
  <1>10. Len(b) + 1 < Len(u) /\ y \in 1..(a + 3) /\ (y \in 1..a \/ y = a + 1 \/ y = a + 2 \/ y = a + 3)
    <2>1. a \in Nat /\ Len(b) \in Nat
      BY <1>1
    <2>. QED BY <1>2, <1>5, <1>8, <1>9, <2>1
  <1>11. LineBreak(u, y)
    BY <1>6, <1>9, <1>10, Zenon DEF EndsAt
  <1>12. InFile /\ u[y] = "\n"
    BY <1>11 DEF LineBreak, InFile
  <1>13. y \in 1..a
    BY <1>1, <1>3, <1>10, <1>12
  <1>14. p[y] = "\n" /\ p[y] # " "
    BY <1>4, <1>12, <1>13
  <1>15. PICK i \in 1..Len(old) : \E x \in 1..CellLen(old[i]) : PrintColumn(old[i])[x] = p[y]
    BY <1>13, <1>14, CellPlace, Zenon DEF p, a
  <1>16. Breaking(old[i])
    BY <1>7, <1>14, <1>15, CellBreak
  <1>. QED BY <1>12, <1>16 DEF Broke

(* A marker behind the old tuple is the one PostgreSQL printed.            *)
LEMMA KeyedPlace ==
  ASSUME NEW old \in Seq(Column), NEW cs \in Seq(Column), NEW b, BodyLeft(OldAndNew(old, cs), b),
         NEW k, FirstMarkAt(b, k), ~(k + 2 <= Len(PrintColumns(old))), Len(old) # 0, Len(cs) # 0
  PROVE  k = Len(PrintColumns(old))
  <1>. DEFINE u == OldAndNew(old, cs)
              a == Len(PrintColumns(old))
              l == Len(PrintColumns(cs))
              t == Before(b, k)
  <1>0. InFront(u, a, l, b, t, k)
    BY KeyedParts
  <1>1. k \in Nat /\ k >= 1 /\ k + 2 <= Len(b) /\ Len(b) \in Nat
    BY <1>0, Zenon DEF InFront
  <1>2. u[k + 2] = "new-tuple:"
    BY <1>0, Zenon DEF InFront
  <1>3. a \in Nat /\ a >= 3 /\ (a + 2 <= Len(b) => MarkAt(b, a) /\ a \in 1..Len(b))
    BY MarkBetween
  <1>4. u[a + 1] = " "
    BY OldAndNewParts
  <1>5. NoMarkBefore(b, k)
    BY Zenon DEF FirstMarkAt
  <1>6. ~(k + 2 <= a)
    OBVIOUS
  <1>. HIDE DEF u, a, l, t
  <1>7. k + 2 # a + 1
    <2>. SUFFICES ASSUME k + 2 = a + 1 PROVE FALSE
      OBVIOUS
    <2>. QED BY <1>2, <1>4
  <1>8. ~(k > a)
    <2>. SUFFICES ASSUME k > a PROVE FALSE
      OBVIOUS
    <2>1. a + 2 <= Len(b) /\ a < k
      BY <1>1, <1>3
    <2>2. MarkAt(b, a) /\ a \in 1..Len(b)
      BY <1>3, <2>1
    <2>. QED BY <1>5, <2>1, <2>2, Zenon DEF NoMarkBefore
  <1>9. k = a
    <2>1. a \in Nat
      BY <1>3
    <2>. QED BY <1>1, <1>6, <1>7, <1>8, <2>1
  <1>. QED BY <1>9 DEF a

(* In front of it the old tuple is whole.                                  *)
LEMMA KeyedOld ==
  ASSUME NEW old \in Seq(Column), NEW cs \in Seq(Column), NEW b, BodyLeft(OldAndNew(old, cs), b),
         NEW k, FirstMarkAt(b, k), k = Len(PrintColumns(old)), Len(old) # 0
  PROVE  Tuple(Before(b, k), 0, old, Len(old)) /\ ~MarkedIn(old) /\ (InFile => ~Broke(old))
  <1>. DEFINE u == OldAndNew(old, cs)
              p == PrintColumns(old)
              l == Len(PrintColumns(cs))
              t == Before(b, k)
              at == At(old)
              n == Len(old)
  <1>a. k = Len(p)
    OBVIOUS
  <1>0. InFront(u, k, l, b, t, k)
    BY KeyedParts
  <1>1. k \in Nat /\ k >= 1 /\ k + 2 <= Len(b) /\ Len(b) \in Nat
    BY <1>0, Zenon DEF InFront
  <1>2. /\ t \in Text /\ Len(t) = k - 1 /\ \A x \in 1..(k - 1) : t[x] = u[x + 1]
    BY <1>0, Zenon DEF InFront
  <1>3. \A x \in 1..k : u[x] = p[x]
    <2>1. \A x \in 1..Len(p) : u[x] = p[x]
      BY OldAndNewParts
    <2>. QED BY <1>a, <2>1, Zenon
  <1>4. n \in Nat /\ \A i \in 1..n : at[i - 1] \in Nat /\ CellLen(old[i]) \in Nat /\ old[i] \in Column
    BY AtSteps
  <1>5. n # 0 /\ Len(p) >= 3 /\ Len(p) = at[n]
    BY ColumnsBegin
  <1>6. p[2] # " "
    <2>1. p[2] \in Safe \cup {"\""}
      BY ColumnsBegin
    <2>. QED BY <2>1 DEF Safe
  <1>7. NoMarkBefore(b, k) /\ \A x \in 1..Len(b) : b[x] = u[x + 1]
    BY Zenon DEF FirstMarkAt, BodyLeft
  <1>8. EndsAt(u, Len(b) + 1)
    BY Zenon DEF BodyLeft
  <1>9. \A i \in 1..n : \A x \in 1..CellLen(old[i]) :
          /\ at[i - 1] + 1 + x \in 1..k
          /\ u[at[i - 1] + 1 + x] = PrintColumn(old[i])[x]
    <2>. SUFFICES ASSUME NEW i \in 1..n, NEW x \in 1..CellLen(old[i])
                  PROVE  at[i - 1] + 1 + x \in 1..k /\ u[at[i - 1] + 1 + x] = PrintColumn(old[i])[x]
      OBVIOUS
    <2>1. at[i - 1] + 1 + x \in 1..Len(p) /\ p[at[i - 1] + 1 + x] = PrintColumn(old[i])[x]
      BY CellIn
    <2>. QED BY <1>3, <1>a, <2>1, Zenon
  <1>. HIDE DEF u, p, l, t, at, n
  <1>10. Follows(t, 0, old)
    <2>1. ASSUME NEW y \in 1..Len(t) PROVE t[y] = p[y - 0 + 1]
      <3>1. Len(t) = k - 1
        BY <1>2, Zenon
      <3>2. y \in 1..(k - 1) /\ y + 1 \in 1..k /\ y - 0 + 1 = y + 1
        BY <1>1, <3>1
      <3>. QED BY <1>2, <1>3, <3>2, Zenon
    <2>2. 1 \in 1..(k - 1) /\ 1 + 1 = 2 /\ 2 \in 1..k
      BY <1>1, <1>5, <1>a
    <2>3. t[1] # " "
      BY <1>2, <1>3, <1>6, <2>2, Zenon
    <2>4. 0 \in Nat /\ \A z \in 1..0 : FALSE
      OBVIOUS
    <2>. QED BY <1>2, <2>1, <2>3, <2>4, Zenon DEF Follows, Opening, p
  <1>11. Tuple(t, 0, old, n)
    <2>1. PICK e : e = at[n]
      OBVIOUS
    <2>2. k = e
      BY <1>5, <1>a, <2>1
    <2>3. k - 1 = 0 + e - 1
      BY <1>1, <2>2
    <2>4. Len(t) = 0 + at[n] - 1
      BY <1>2, <2>1, <2>3, Zenon
    <2>5. n \in 0..n /\ ~(n < n) /\ n # 0
      BY <1>4, <1>5
    <2>. QED BY <1>10, <2>4, <2>5, TupleShown DEF n, at
  <1>12. ~MarkedIn(old)
    <2>. SUFFICES ASSUME NEW i \in 1..n, Marked(old[i]) PROVE FALSE
      BY DEF MarkedIn, n
    <2>1. Mark(PrintColumn(old[i])) /\ Len(PrintColumn(old[i])) = CellLen(old[i])
      BY <1>4, CellMark, PartFacts
    <2>2. PICK x \in 1..CellLen(old[i]) : x + 2 <= CellLen(old[i]) /\ MarkAt(PrintColumn(old[i]), x)
      BY <2>1, Zenon DEF Mark, Three, MarkAt
    <2>3. PICK e, w : e = at[i - 1] /\ w = CellLen(old[i])
      OBVIOUS
    <2>4. e \in Nat /\ w \in Nat /\ x \in 1..w /\ x + 2 <= w
      BY <1>4, <2>2, <2>3, Zenon
    <2>5. x + 1 \in 1..w /\ x + 2 \in 1..w
      BY <2>4
    <2>6. e + 1 + (x + 2) \in 1..k
      BY <1>9, <2>3, <2>5, Zenon
    <2>7. PICK y : y = e + x
      OBVIOUS
    <2>8. /\ y \in 1..Len(b) /\ y + 2 <= Len(b) /\ y < k
          /\ e + 1 + x = y + 1 /\ e + 1 + (x + 1) = y + 1 + 1 /\ e + 1 + (x + 2) = y + 2 + 1
          /\ y + 1 \in 1..Len(b) /\ y + 2 \in 1..Len(b)
      BY <1>1, <2>4, <2>6, <2>7
    <2>9. /\ u[e + 1 + x] = PrintColumn(old[i])[x]
          /\ u[e + 1 + (x + 1)] = PrintColumn(old[i])[x + 1]
          /\ u[e + 1 + (x + 2)] = PrintColumn(old[i])[x + 2]
      BY <1>9, <2>3, <2>4, <2>5, Zenon
    <2>10. /\ b[y] = PrintColumn(old[i])[x]
           /\ b[y + 1] = PrintColumn(old[i])[x + 1]
           /\ b[y + 2] = PrintColumn(old[i])[x + 2]
      BY <1>7, <2>8, <2>9, Zenon
    <2>11. MarkAt(b, y)
      BY <2>2, <2>10, Zenon DEF MarkAt
    <2>. QED BY <1>7, <2>8, <2>11, Zenon DEF NoMarkBefore
  <1>13. ASSUME InFile PROVE ~Broke(old)
    <2>. SUFFICES ASSUME NEW i \in 1..n, Breaking(old[i]) PROVE FALSE
      BY DEF Broke, n
    <2>1. PICK x \in 1..CellLen(old[i]) : PrintColumn(old[i])[x] = "\n"
      BY <1>4, CellBreak
    <2>2. PICK y : y = at[i - 1] + 1 + x
      OBVIOUS
    <2>3. y \in 1..k /\ u[y] = "\n"
      BY <1>9, <2>1, <2>2
    <2>4. y \in 1..k
      BY <2>3
    <2>5. y \in 1..(Len(b) + 1)
      BY <1>1, <2>4
    <2>6. LineBreak(u, y)
      BY <1>13, <2>3 DEF LineBreak, InFile
    <2>. QED BY <1>8, <2>5, <2>6, Zenon DEF EndsAt
  <1>. QED BY <1>11, <1>12, <1>13, Zenon DEF t, n

(* And behind it is what is left of the new one.                           *)
LEMMA KeyedRest ==
  ASSUME NEW old \in Seq(Column), NEW cs \in Seq(Column), NEW b, BodyLeft(OldAndNew(old, cs), b),
         NEW k, FirstMarkAt(b, k), k = Len(PrintColumns(old)), Len(cs) # 0
  PROVE  BodyLeft(PrintColumns(cs), From(b, k + 3))
  <1>. DEFINE u == OldAndNew(old, cs)
              p == PrintColumns(cs)
              l == Len(p)
              t == Before(b, k)
              r == From(b, k + 3)
  <1>0. InFront(u, k, l, b, t, k)
    BY KeyedParts
  <1>1. k \in Nat /\ k >= 1 /\ k + 2 <= Len(b) /\ Len(b) \in Nat /\ l \in Nat /\ Len(b) + 1 <= k + 2 + l
    BY <1>0, Zenon DEF InFront
  <1>2. b \in Text
    BY <1>0, Zenon DEF InFront
  <1>3. Len(u) = k + 2 + l /\ \A x \in 1..l : u[k + 2 + x] = p[x]
    BY OldAndNewParts
  <1>4. \A x \in 1..Len(b) : b[x] = u[x + 1]
    BY Zenon DEF BodyLeft
  <1>5. (\A x \in 1..(Len(b) + 1) : ~LineBreak(u, x)) /\ (Len(b) + 1 < Len(u) => LineBreak(u, Len(b) + 1 + 1))
    BY Zenon DEF BodyLeft, EndsAt
  <1>6. p # <<>>
    BY ColumnsBegin
  <1>. HIDE DEF u, p, l, t, r
  <1>7. r \in Text /\ Len(r) = Len(b) - (k + 3) + 1 /\ \A x \in 1..(Len(b) - (k + 3) + 1) : r[x] = b[k + 3 + x - 1]
    <2>1. PICK y : y = k + 3
      OBVIOUS
    <2>2. y \in 1..(Len(b) + 1)
      BY <1>1, <2>1
    <2>3. /\ From(b, y) \in Text /\ Len(From(b, y)) = Len(b) - y + 1
          /\ \A x \in 1..(Len(b) - y + 1) : From(b, y)[x] = b[y + x - 1]
      BY <1>2, <2>2, FromLemma
    <2>. QED BY <2>1, <2>3, Zenon DEF r
  <1>8. /\ Len(r) \in Nat /\ Len(r) + 1 <= l
        /\ k + 2 + (Len(r) + 1) = Len(b) + 1 /\ k + 2 + (Len(r) + 1 + 1) = Len(b) + 1 + 1
    <2>1. Len(r) = Len(b) - (k + 3) + 1
      BY <1>7, Zenon
    <2>. QED BY <1>1, <2>1
  <1>9. ASSUME NEW x \in 1..Len(r) PROVE r[x] = p[x + 1]
    <2>1. Len(r) = Len(b) - (k + 3) + 1
      BY <1>7, Zenon
    <2>2. /\ x \in 1..(Len(b) - (k + 3) + 1) /\ k + 3 + x - 1 \in 1..Len(b)
          /\ k + 3 + x - 1 + 1 = k + 2 + (x + 1) /\ x + 1 \in 1..l
      BY <1>1, <1>8, <2>1
    <2>. QED BY <1>3, <1>4, <1>7, <2>2, Zenon
  <1>10. EndsAt(p, Len(r) + 1)
    <2>1. ASSUME NEW x \in 1..(Len(r) + 1) PROVE ~LineBreak(p, x)
      <3>1. x \in 1..l /\ k + 2 + x \in 1..(Len(b) + 1)
        BY <1>1, <1>8
      <3>. QED BY <1>3, <1>5, <3>1, Zenon DEF LineBreak
    <2>2. ASSUME Len(r) + 1 < Len(p) PROVE LineBreak(p, Len(r) + 1 + 1)
      <3>1. Len(r) + 1 < l /\ Len(u) = k + 2 + l
        BY <1>3, <2>2 DEF l
      <3>2. Len(r) + 1 + 1 \in 1..l /\ Len(b) + 1 < Len(u)
        BY <1>1, <1>8, <3>1
      <3>3. LineBreak(u, Len(b) + 1 + 1)
        BY <1>5, <3>2, Zenon
      <3>. QED BY <1>3, <1>8, <3>2, <3>3, Zenon DEF LineBreak
    <2>. QED BY <2>1, <2>2, Zenon DEF EndsAt
  <1>11. BodyLeft(p, r)
    BY <1>1, <1>6, <1>7, <1>8, <1>9, <1>10, Zenon DEF BodyLeft, l
  <1>. QED BY <1>11 DEF p, r

(***************************************************************************)
(* The change that was made and the body of its line.                      *)
(***************************************************************************)
Old == NotNull(written.old)
(* The kinds of changes, and the columns of the row they print last.       *)
Transaction == written.op \in {"BEGIN", "COMMIT"}
Keyed == written.op = "update" /\ written.old # <<>>
NoRow == written.op = "truncate" \/ (written.op = "delete" /\ written.old = <<>>)
Row == IF written.op = "delete" THEN Old ELSE written.columns

(* The columns behind the old-key marker.                                  *)
Key == IF Keyed THEN Old ELSE <<>>

(* The parts of the change.                                                *)
LEMMA WrittenFacts ==
  ASSUME written \in Changes
  PROVE  /\ written.op \in Operations /\ written.table \in TableNames
         /\ Old \in Seq(Column) /\ Row \in Seq(Column) /\ Key \in Seq(Column)
         /\ written.columns \in Seq(Column)
         /\ Shown = Key \o Row
         /\ Keyed => Row = written.columns /\ Row # <<>>
         /\ ~Transaction /\ ~NoRow /\ Row = <<>> => written.op = "delete" /\ Old = <<>>
         /\ written.op = "update" /\ ~Keyed => Old = <<>>
  <1>0. PICK w : w = written
    OBVIOUS
  <1>1. w \in Changes
    BY <1>0
  <1>2. /\ w.op \in Operations /\ w.table \in TableNames
        /\ w.columns \in Seq(Column) /\ w.old \in Seq(Column)
        /\ w.op \in Rowless => w.columns = <<>> /\ w.old = <<>>
        /\ w.op = "insert" => w.columns # <<>> /\ w.old = <<>>
        /\ w.op = "update" => w.columns # <<>>
        /\ w.op = "delete" => w.columns = <<>>
    BY <1>1, ChangeFacts, Zenon
  <1>3. Old \in Seq(Column) /\ (w.old = <<>> => Old = <<>>)
    BY <1>0, <1>2, NotNullLemma, Zenon DEF Old
  <1>4. <<>> \in Seq(Column) /\ \A s \in Seq(Column) : s \o <<>> = s /\ <<>> \o s = s
    OBVIOUS
  <1>5. w.op \in {"BEGIN", "COMMIT", "truncate", "insert", "update", "delete"}
    BY <1>2 DEF Operations, Rowless
  <1>6. w.op # "update" /\ w.op # "delete" => Old = <<>>
    BY <1>2, <1>3, <1>5 DEF Rowless
  <1>7. /\ w.op # "delete" => Row = w.columns
        /\ w.op = "delete" => Row = Old
    BY <1>0, Zenon DEF Row
  <1>8. /\ w.op = "update" /\ w.old # <<>> => Key = Old
        /\ w.op # "update" \/ w.old = <<>> => Key = <<>>
    BY <1>0, Zenon DEF Key, Keyed
  <1>9. Shown = Old \o w.columns
    BY <1>0, Zenon DEF Shown, Old
  <1>10. Shown = Key \o Row
    <2>1. CASE w.op = "delete"
      <3>1. Key = <<>> /\ Row = Old /\ w.columns = <<>>
        BY <1>2, <1>7, <1>8, <2>1
      <3>. QED BY <1>3, <1>4, <1>9, <3>1
    <2>2. CASE w.op = "update"
      <3>1. Row = w.columns
        BY <1>7, <2>2
      <3>2. Key = Old
        BY <1>3, <1>8, <2>2
      <3>. QED BY <1>9, <3>1, <3>2
    <2>3. CASE w.op # "update" /\ w.op # "delete"
      <3>1. Key = <<>> /\ Row = w.columns /\ Old = <<>>
        BY <1>6, <1>7, <1>8, <2>3
      <3>. QED BY <1>2, <1>9, <3>1
    <2>. QED BY <2>1, <2>2, <2>3
  <1>11. Row \in Seq(Column) /\ Key \in Seq(Column)
    BY <1>2, <1>3, <1>4, <1>7, <1>8, Zenon
  <1>12. Keyed => Row = written.columns /\ Row # <<>>
    BY <1>0, <1>2, <1>7 DEF Keyed
  <1>13. ~Transaction /\ ~NoRow /\ Row = <<>> => written.op = "delete" /\ Old = <<>>
    BY <1>0, <1>2, <1>5, <1>7 DEF Transaction, NoRow
  <1>14. written.op = "update" /\ ~Keyed => Old = <<>>
    BY <1>0, <1>3 DEF Keyed
  <1>. QED BY <1>0, <1>2, <1>3, <1>10, <1>11, <1>12, <1>13, <1>14, Zenon

(* What a truncated table and a row without an identity leave for a body.  *)
Notes == {"(no-flags)", "(no-tuple-data)"}

(* The body of its line.                                                   *)
LEMMA BodyKinds ==
  ASSUME written \in Changes, ~Transaction
  PROVE  LET b == PrintBody(written)
         IN  /\ Keyed => b = KeyedText(Old, written.columns)
             /\ NoRow => \E x \in Notes : b = <<" ", x>>
             /\ ~Keyed /\ ~NoRow => b = PrintColumns(Row)
             /\ NoRow => ~Keyed
             /\ b \in Text /\ BeginsBlank(b)
  <1>. DEFINE b == PrintBody(written)
  <1>1. /\ written.op \in {"BEGIN", "COMMIT", "truncate", "insert", "update", "delete"}
        /\ Old \in Seq(Column) /\ Row \in Seq(Column) /\ written.columns \in Seq(Column)
    BY WrittenFacts, Zenon DEF Operations, Rowless
  <1>2. Keyed => b = KeyedText(Old, written.columns)
    BY DEF PrintBody, KeyedText, Keyed, Old
  <1>3. NoRow => \E x \in Notes : b = <<" ", x>>
    BY DEF NoRow, PrintBody, Notes
  <1>4. ~Keyed /\ ~NoRow => b = PrintColumns(Row)
    BY <1>1 DEF NoRow, PrintBody, Keyed, Row, Old
  <1>5. NoRow => ~Keyed
    BY DEF NoRow, Keyed
  <1>6. \A x \in Notes : <<" ", x>> \in Text /\ <<" ", x>>[1] = " "
    <2>1. \A x \in Notes : x \in Symbols /\ " " \in Symbols
      BY Literals DEF Notes
    <2>. QED BY <2>1, TwoSymbols, Zenon
  <1>7. KeyedText(Old, written.columns) \in Text /\ KeyedText(Old, written.columns)[1] = " "
    BY <1>1, KeyedBody
  <1>8. PrintColumns(Row) \in Text /\ BeginsBlank(PrintColumns(Row))
    BY <1>1, ColumnsBegin
  <1>. HIDE DEF b
  <1>9. b \in Text /\ BeginsBlank(b)
    BY <1>2, <1>3, <1>4, <1>6, <1>7, <1>8, Zenon DEF BeginsBlank
  <1>. QED BY <1>2, <1>3, <1>4, <1>5, <1>9, Zenon DEF b

(* A text of length one is its symbol.                                     *)
LEMMA OneLong ==
  ASSUME NEW s \in Seq(Symbols), Len(s) = 1, NEW x \in Symbols, s[1] = x
  PROVE  s = <<x>>
  <1>1. <<x>> \in Seq(Symbols) /\ Len(<<x>>) = 1 /\ <<x>>[1] = x
    OBVIOUS
  <1>2. \A i \in 1..1 : i = 1
    OBVIOUS
  <1>3. Len(s) = Len(<<x>>) /\ \A i \in 1..Len(s) : s[i] = <<x>>[i]
    BY <1>1, <1>2, Zenon
  <1>. QED BY <1>1, <1>3, SeqEqual

(* Of two symbols without a line break the last is left.                   *)
LEMMA TwoLeft ==
  ASSUME NEW b, NEW s, Len(b) = 2, BodyLeft(b, s), ~LineBreak(b, 2)
  PROVE  s \in Seq(Symbols) /\ Len(s) = 1 /\ s[1] = b[2]
  <1>1. s \in Seq(Symbols) /\ Len(s) + 1 <= Len(b) /\ (\A y \in 1..Len(s) : s[y] = b[y + 1])
        /\ (Len(s) + 1 < Len(b) => LineBreak(b, Len(s) + 1 + 1))
    BY Zenon DEF BodyLeft, EndsAt, Text
  <1>2. Len(s) \in Nat
    BY <1>1, LenProperties
  <1>3. PICK l \in Nat : l = Len(s)
    BY <1>2
  <1>4. l + 1 <= 2
    BY <1>1, <1>3, Zenon
  <1>5. ASSUME l + 1 < 2 PROVE FALSE
    <2>1. PICK y : y = l + 1 + 1
      OBVIOUS
    <2>2. LineBreak(b, y)
      BY <1>1, <1>3, <1>5, <2>1, Zenon
    <2>3. y = 2
      BY <1>3, <1>5, <2>1
    <2>. QED BY <2>2, <2>3, Zenon
  <1>6. l = 1 /\ 1 \in 1..l /\ 1 + 1 = 2
    BY <1>3, <1>4, <1>5
  <1>7. s[1] = b[1 + 1]
    BY <1>1, <1>3, <1>6, Zenon
  <1>. QED BY <1>1, <1>3, <1>6, <1>7

(* Such a note is left whole, and no column is read from it.               *)
LEMMA NoteBody ==
  ASSUME NEW x \in Notes, NEW s, BodyLeft(<<" ", x>>, s)
  PROVE  s = <<x>>
  <1>1. PICK b : b = <<" ", x>>
    OBVIOUS
  <1>2. Len(b) = 2 /\ b[2] = x /\ x # "\n" /\ x \in Symbols
    BY <1>1, Literals DEF Notes
  <1>3. BodyLeft(b, s) /\ ~LineBreak(b, 2)
    BY <1>1, <1>2, Zenon DEF LineBreak
  <1>4. s \in Seq(Symbols) /\ Len(s) = 1 /\ s[1] = x
    BY <1>2, <1>3, TwoLeft, Zenon
  <1>. QED BY <1>2, <1>4, OneLong

(* It has no bracket.                                                      *)
LEMMA NoteRefused ==
  ASSUME NEW x \in Notes
  PROVE  StartOf(<<x>>, 1) = 1 /\ Len(<<x>>) = 1 /\ ParseColumn(<<x>>, StartOf(<<x>>, 1)) = {}
  <1>. DEFINE s == <<x>>
  <1>1. x \in Symbols /\ x # " " /\ x # "[" /\ "[" \in Symbols
    BY Literals DEF Notes
  <1>2. s \in Text /\ Len(s) = 1 /\ s[1] = x
    BY <1>1, OneSymbol, Zenon
  <1>3. StartOf(s, 1) = 1
    <2>1. 1 \in 1..Len(s) /\ \A i \in 1..Len(s) : ~(i < 1)
      BY <1>2
    <2>2. 1 \in Nat /\ s[1] # " "
      BY <1>1, <1>2
    <2>. QED BY <1>2, <2>1, <2>2, StartAt
  <1>4. IndexFrom(s, <<"[">>, 1) = {}
    <2>1. PICK y \in Symbols : y = "["
      BY <1>1
    <2>2. \A i \in 1..Len(s) : s[i] # y
      <3>1. \A i \in 1..1 : i = 1
        OBVIOUS
      <3>. QED BY <1>1, <1>2, <2>1, <3>1, Zenon
    <2>3. 1 \in Nat \ {0}
      OBVIOUS
    <2>. QED BY <1>2, <2>1, <2>2, <2>3, SymbolMissing
  <1>. HIDE DEF s
  <1>5. ParseColumn(s, 1) = {}
    BY <1>4 DEF ParseColumn
  <1>. QED BY <1>2, <1>3, <1>5 DEF s

(* No body but that of a keyed update begins with the old-key marker.      *)
LEMMA NotKeyedHead ==
  ASSUME NEW cs \in Seq(Column), NEW s, BodyLeft(PrintColumns(cs), s)
  PROVE  ~IsPrefix(OldKeyMark, s)
  <1>. DEFINE p == PrintColumns(cs)
  <1>1. PICK m : TupleEnds(s, cs, m)
    BY ColumnsBody
  <1>2. Len(s) \in Nat /\ Len(s) >= 1 /\ Len(cs) # 0
    BY <1>1, Zenon DEF TupleEnds
  <1>3. s \in Text /\ s[1] = p[2]
    <2>1. 1 \in 1..Len(s) /\ 1 + 1 = 2
      BY <1>2
    <2>2. s \in Text /\ \A x \in 1..Len(s) : s[x] = p[x + 1]
      BY Zenon DEF BodyLeft
    <2>. QED BY <2>1, <2>2
  <1>4. p[2] \in Safe \cup {"\""}
    BY <1>2, ColumnsBegin
  <1>. HIDE DEF p
  <1>5. s[1] # "old-key:"
    BY <1>3, <1>4 DEF Safe
  <1>6. CASE Len(s) >= 2
    BY <1>3, <1>5, <1>6, PrefixLemma
  <1>7. CASE Len(s) = 1
    <2>1. Len(OldKeyMark) = 2
      BY DEF OldKeyMark
    <2>2. ~(Len(OldKeyMark) <= Len(s))
      BY <1>7, <2>1
    <2>. QED BY <2>2 DEF IsPrefix
  <1>8. \A l \in Nat : l >= 1 => l >= 2 \/ l = 1
    OBVIOUS
  <1>. QED BY <1>2, <1>6, <1>7, <1>8, Zenon

(* The columns a line shows are those behind old-key and those of the row. *)
LEMMA ShownColumns ==
  ASSUME written \in Changes
  PROVE  /\ \A j \in 1..Len(Key) : Key[j] \in ToSet(Shown)
         /\ \A j \in 1..Len(Row) : Row[j] \in ToSet(Shown)
         /\ \A c \in ToSet(Shown) : \/ \E j \in 1..Len(Key) : c = Key[j]
                                    \/ \E j \in 1..Len(Row) : c = Row[j]
  <1>1. Key \in Seq(Column) /\ Row \in Seq(Column) /\ Shown = Key \o Row
    BY WrittenFacts, Zenon
  <1>2. PICK a, b, s : a = Key /\ b = Row /\ s = Shown
    OBVIOUS
  <1>3. a \in Seq(Column) /\ b \in Seq(Column) /\ s = a \o b
    BY <1>1, <1>2, Zenon
  <1>4. /\ Len(a) \in Nat /\ Len(b) \in Nat /\ DOMAIN s = 1..(Len(a) + Len(b))
        /\ \A i \in 1..(Len(a) + Len(b)) : s[i] = IF i <= Len(a) THEN a[i] ELSE b[i - Len(a)]
    BY <1>3, LenProperties
  <1>5. \A j \in 1..Len(a) : a[j] \in ToSet(s)
    <2>. TAKE j \in 1..Len(a)
    <2>1. j \in DOMAIN s /\ s[j] = a[j]
      BY <1>4
    <2>. QED BY <2>1, Zenon DEF ToSet
  <1>6. \A j \in 1..Len(b) : b[j] \in ToSet(s)
    <2>. TAKE j \in 1..Len(b)
    <2>1. Len(a) + j \in DOMAIN s /\ s[Len(a) + j] = b[j]
      BY <1>4
    <2>. QED BY <2>1, Zenon DEF ToSet
  <1>7. ASSUME NEW c \in ToSet(s)
        PROVE  (\E j \in 1..Len(a) : c = a[j]) \/ (\E j \in 1..Len(b) : c = b[j])
    <2>1. PICK i \in DOMAIN s : c = s[i]
      BY Zenon DEF ToSet
    <2>2. CASE i <= Len(a)
      <3>1. i \in 1..Len(a) /\ c = a[i]
        BY <1>4, <2>1, <2>2
      <3>. QED BY <3>1
    <2>3. CASE ~(i <= Len(a))
      <3>1. i - Len(a) \in 1..Len(b) /\ c = b[i - Len(a)]
        BY <1>4, <2>1, <2>3
      <3>. QED BY <3>1
    <2>. QED BY <2>2, <2>3
  <1>. QED BY <1>2, <1>5, <1>6, <1>7, Zenon

(* The causes for which a line is refused, met in the columns.             *)
LEMMA Causes ==
  ASSUME written \in Changes
  PROVE  /\ NoRow => Unreadable
         /\ (Keyed \/ written.op = "delete") /\ Old = <<>> => Unreadable
         /\ InFile /\ "\n" \in ToSet(written.table) => Unreadable
         /\ InFile /\ Broke(Key) => Unreadable
         /\ InFile /\ Broke(Row) => Unreadable
         /\ (\E j \in 1..Len(Key) : Bracketing(Key[j])) => Unreadable
         /\ (\E j \in 1..Len(Row) : Bracketing(Row[j])) => Unreadable
         /\ Keyed /\ MarkedIn(Old) => Unreadable
  <1>1. \A c \in ToSet(Shown) : Bracketing(c) => Unreadable
    BY Zenon DEF Unreadable, Bracketing
  <1>2. \A c \in ToSet(Shown) : InFile /\ Breaking(c) => Unreadable
    BY Zenon DEF Unreadable, Broken, Breaking, InFile
  <1>3. InFile /\ "\n" \in ToSet(written.table) => Unreadable
    BY Zenon DEF Unreadable, Broken, InFile
  <1>4. /\ \A j \in 1..Len(Key) : Key[j] \in ToSet(Shown)
        /\ \A j \in 1..Len(Row) : Row[j] \in ToSet(Shown)
    BY ShownColumns, Zenon
  <1>5. /\ InFile /\ Broke(Key) => Unreadable
        /\ InFile /\ Broke(Row) => Unreadable
    BY <1>2, <1>4, Zenon DEF Broke
  <1>6. /\ (\E j \in 1..Len(Key) : Bracketing(Key[j])) => Unreadable
        /\ (\E j \in 1..Len(Row) : Bracketing(Row[j])) => Unreadable
    BY <1>1, <1>4, Zenon
  <1>7. Keyed /\ MarkedIn(Old) => Unreadable
    <2>. SUFFICES ASSUME Keyed, MarkedIn(Old) PROVE Unreadable
      OBVIOUS
    <2>1. PICK j \in 1..Len(Old) : Marked(Old[j])
      BY Zenon DEF MarkedIn
    <2>2. Old \in Seq(Column)
      BY WrittenFacts, Zenon
    <2>3. j \in DOMAIN Old
      BY <2>1, <2>2, LenProperties
    <2>4. Old[j] \in ToSet(Old)
      BY <2>3, Zenon DEF ToSet
    <2>5. \E c \in ToSet(Old) : Marked(c)
      BY <2>1, <2>4, Zenon
    <2>. QED BY <2>5, Zenon DEF Unreadable, Keyed, Old
  <1>8. NoRow => Unreadable
    <2>1. written.op = "truncate" => Unreadable
      BY Zenon DEF Unreadable
    <2>2. ASSUME written.op = "delete", written.old = <<>> PROVE Unreadable
      <3>1. written.old = <<>> => NotNull(written.old) = <<>>
        <4>1. <<>> \in Seq(Column)
          OBVIOUS
        <4>. QED BY <4>1, NotNullLemma, Zenon
      <3>. QED BY <2>2, <3>1, Zenon DEF Unreadable
    <2>. QED BY <2>1, <2>2, Zenon DEF NoRow
  <1>9. (Keyed \/ written.op = "delete") /\ Old = <<>> => Unreadable
    BY Zenon DEF Unreadable, Keyed, Old
  <1>. QED BY <1>3, <1>5, <1>6, <1>7, <1>8, <1>9, Zenon

(* And a line without such a cause.                                        *)
LEMMA NoCause ==
  ASSUME written \in Changes, ~NoRow,
         (Keyed \/ written.op = "delete") => Old # <<>>,
         InFile => "\n" \notin ToSet(written.table),
         InFile => ~Broke(Key) /\ ~Broke(Row),
         \A j \in 1..Len(Key) : ~Bracketing(Key[j]),
         \A j \in 1..Len(Row) : ~Bracketing(Row[j]),
         Keyed => ~MarkedIn(Old)
  PROVE  ~Unreadable
  <1>1. \A c \in ToSet(Shown) : \/ \E j \in 1..Len(Key) : c = Key[j]
                                \/ \E j \in 1..Len(Row) : c = Row[j]
    BY ShownColumns, Zenon
  <1>2. \A c \in ToSet(Shown) : ~Bracketing(c)
    BY <1>1, Zenon
  <1>3. \A c \in ToSet(Shown) : InFile => ~Breaking(c)
    BY <1>1, Zenon DEF Broke
  <1>4. ~Broken
    BY <1>3, Zenon DEF Broken, Breaking, InFile
  <1>5. ~(written.op = "truncate")
    BY Zenon DEF NoRow
  <1>6. ~(written.op = "delete" /\ NotNull(written.old) = <<>>)
    BY Zenon DEF Old
  <1>7. ~(written.op = "update" /\ written.old # <<>> /\ NotNull(written.old) = <<>>)
    BY Zenon DEF Old, Keyed
  <1>8. ~(written.op = "update" /\ \E c \in ToSet(NotNull(written.old)) : Marked(c))
    <2>. SUFFICES ASSUME written.op = "update", NEW c \in ToSet(Old), Marked(c) PROVE FALSE
      BY Zenon DEF Old
    <2>1. Old \in Seq(Column) /\ (~Keyed => Old = <<>>)
      BY WrittenFacts, Zenon
    <2>2. PICK i \in DOMAIN Old : c = Old[i]
      BY Zenon DEF ToSet
    <2>3. DOMAIN Old = 1..Len(Old) /\ Len(Old) \in Nat
      BY <2>1, LenProperties
    <2>4. Old # <<>>
      BY <2>2, <2>3
    <2>5. MarkedIn(Old)
      BY <2>2, <2>3, Zenon DEF MarkedIn
    <2>. QED BY <2>1, <2>4, <2>5, Zenon
  <1>9. ~\E c \in ToSet(Shown) : c.datum.type = "integer[]" \/ Bracketed(c.name)
    BY <1>2, Zenon DEF Bracketing
  <1>. QED BY <1>4, <1>5, <1>6, <1>7, <1>8, <1>9, Zenon DEF Unreadable

(* The line of a transaction and that of a change.                         *)
LEMMA TransactionLine ==
  ASSUME written \in Changes, Transaction
  PROVE  Line[1] \in {"BEGIN", "COMMIT"} /\ Line[1] # "table "
  <1>1. PICK s : s = PrintLine(written)
    OBVIOUS
  <1>2. s = <<written.op, " ", "7">>
    BY <1>1 DEF PrintLine, Transaction
  <1>3. DOMAIN s = 1..3 /\ s[1] = written.op /\ s[2] = " " /\ s[3] = "7"
    <2>1. \A u, v, x : /\ DOMAIN <<u, v, x>> = 1..3 /\ <<u, v, x>>[1] = u
                       /\ <<u, v, x>>[2] = v /\ <<u, v, x>>[3] = x
      OBVIOUS
    <2>. QED BY <1>2, <2>1, Zenon
  <1>4. \A i \in 1..3 : s[i] # "\n"
    <2>1. \A i \in 1..3 : i = 1 \/ i = 2 \/ i = 3
      OBVIOUS
    <2>2. "BEGIN" # "\n" /\ "COMMIT" # "\n" /\ " " # "\n" /\ "7" # "\n"
      OBVIOUS
    <2>3. written.op = "BEGIN" \/ written.op = "COMMIT"
      BY DEF Transaction
    <2>. QED BY <1>3, <2>1, <2>2, <2>3, Zenon
  <1>5. {i \in DOMAIN s : carrier = "file" /\ s[i] = "\n"} = {}
    BY <1>3, <1>4, Zenon
  <1>6. Carried(s) = s
    BY <1>5, Zenon DEF Carried
  <1>7. Line[1] = written.op
    BY <1>1, <1>3, <1>6, Zenon DEF Line
  <1>8. "BEGIN" # "table " /\ "COMMIT" # "table "
    OBVIOUS
  <1>. QED BY <1>7, <1>8, Zenon DEF Transaction

(* A change has one head in its line, or none for a cause in the change.   *)
LEMMA ChangeLine ==
  ASSUME written \in Changes, ~Transaction
  PROVE  /\ Line[1] = "table "
         /\ \/ Heads(Line) = {} /\ (PrintBody(written) = <<>> \/ (InFile /\ "\n" \in ToSet(written.table)))
            \/ /\ InFile => "\n" \notin ToSet(written.table)
               /\ OneHead(Line, written.table, written.op, PrintBody(written))
  <1>1. PICK s, t, op, b, c, l : /\ s = PrintLine(written) /\ t = written.table /\ op = written.op
                                 /\ b = PrintBody(written) /\ c = Line /\ l = Len(c)
    OBVIOUS
  <1>2. t \in TableNames /\ op \in Operations /\ b \in Text /\ BeginsBlank(b)
    BY <1>1, WrittenFacts, BodyKinds, Zenon
  <1>3. written.op \notin {"BEGIN", "COMMIT"}
    BY Zenon DEF Transaction
  <1>4. LineShows(s, t, op, b)
    BY <1>1, <1>2, <1>3, LineLemma, Zenon
  <1>5. s \in Text /\ s[1] = "table "
    BY <1>4, Zenon DEF LineShows
  <1>6. c = Carried(s)
    BY <1>1, Zenon DEF Line
  <1>7. /\ c \in Text /\ l \in 0..Len(s) /\ EndsAt(s, l)
        /\ \A x \in 1..l : c[x] = s[x]
    <2>1. /\ Carried(s) \in Text /\ Len(Carried(s)) \in 0..Len(s)
          /\ \A x \in 1..Len(Carried(s)) : Carried(s)[x] = s[x]
          /\ EndsAt(s, Len(Carried(s)))
      BY <1>5, CarriedLemma, Zenon
    <2>2. l = Len(c)
      BY <1>1, Zenon
    <2>. QED BY <1>6, <2>1, <2>2, Zenon
  <1>8. l \in Nat /\ l >= 3 /\ Len(PrintName(t)) \in Nat
    BY <1>2, <1>4, <1>7, HeadEnd
  <1>9. 1 \in 1..l
    BY <1>8
  <1>10. c[1] = "table "
    BY <1>5, <1>7, <1>9, Zenon
  <1>14. l = Len(c)
    BY <1>1, Zenon
  <1>11. CASE l < Len(PrintName(t)) + 8
    <2>1. Heads(c) = {} /\ (b = <<>> \/ (carrier = "file" /\ "\n" \in ToSet(t)))
      BY <1>2, <1>4, <1>7, <1>8, <1>11, <1>14, HeadsNone, Zenon
    <2>. QED BY <1>1, <1>10, <2>1, Zenon DEF InFile
  <1>12. CASE l >= Len(PrintName(t)) + 8
    <2>1. carrier = "file" => "\n" \notin ToSet(t)
      BY <1>2, <1>4, <1>7, <1>8, <1>12, <1>14, HeadsOne, Zenon
    <2>2. OneHead(c, t, op, b)
      BY <1>2, <1>4, <1>7, <1>8, <1>12, <1>14, HeadsOne, Zenon
    <2>. QED BY <1>1, <1>10, <2>1, <2>2, Zenon DEF InFile
  <1>13. l < Len(PrintName(t)) + 8 \/ l >= Len(PrintName(t)) + 8
    <2>1. \A h \in Nat : \A n \in Nat : n < h + 8 \/ n >= h + 8
      OBVIOUS
    <2>. QED BY <1>8, <2>1, Zenon
  <1>. QED BY <1>11, <1>12, <1>13

(* Nothing follows the colon of the operation only in a deleted row of     *)
(* NULLs.                                                                  *)
LEMMA NoBody ==
  ASSUME written \in Changes, ~Transaction, PrintBody(written) = <<>>
  PROVE  written.op = "delete" /\ Old = <<>>
  <1>1. /\ Old \in Seq(Column) /\ Row \in Seq(Column) /\ written.columns \in Seq(Column)
        /\ ~Transaction /\ ~NoRow /\ Row = <<>> => written.op = "delete" /\ Old = <<>>
    BY WrittenFacts, Zenon
  <1>2. Keyed => PrintBody(written) = KeyedText(Old, written.columns)
    BY BodyKinds, Zenon
  <1>3. NoRow => \E x \in Notes : PrintBody(written) = <<" ", x>>
    BY BodyKinds, Zenon
  <1>4. ~Keyed /\ ~NoRow => PrintBody(written) = PrintColumns(Row)
    BY BodyKinds, Zenon
  <1>5. KeyedText(Old, written.columns) # <<>>
    <2>1. PICK g, n : g = KeyedText(Old, written.columns) /\ n = Len(OldAndNew(Old, written.columns))
      OBVIOUS
    <2>2. Len(g) = 2 + n /\ n \in Nat
      BY <1>1, <2>1, KeyedBody
    <2>3. Len(g) # 0
      BY <2>2
    <2>. QED BY <2>1, <2>3, EmptySeq
  <1>6. \A x \in Notes : <<" ", x>> # <<>>
    OBVIOUS
  <1>7. PrintColumns(Row) = <<>> => Row = <<>>
    BY <1>1, ColumnsBegin, Zenon
  <1>. QED BY <1>1, <1>2, <1>3, <1>4, <1>5, <1>6, <1>7, Zenon

(***************************************************************************)
(* Where the parser stands.                                                *)
(***************************************************************************)

(* A column list that was read whole.                                      *)
Complete(rs, cs) ==
  /\ rs \in Seq(Parsed) /\ cs \in Seq(Column) /\ Len(rs) = Len(cs)
  /\ \A k \in 1..Len(cs) : ~Bracketing(cs[k]) /\ ColumnRead(rs[k], cs[k])
  /\ InFile => ~Broke(cs)

(* The table was read, from a line that is not cut in its name.            *)
TableKept ==
  TableRead(schema, table, written.table) /\ (InFile => "\n" \notin ToSet(written.table))

(* The old tuple was found whole.                                          *)
KeyWhole == Old # <<>> /\ ~MarkedIn(Old) /\ (InFile => ~Broke(Old))

(* What is read of the columns behind old-key: of an old row of NULLs the  *)
(* new one is all that is found there.                                     *)
KeyAt(t, r, p, rs) ==
  \E m : \/ Old = <<>> /\ Reads(t, 2, written.columns, m, p, rs) /\ m < Len(written.columns)
         \/ /\ Reads(t, 0, Old, m, p, rs)
            /\ m < Len(Old) => MarkedIn(Old)
            /\ m = Len(Old) => KeyWhole /\ \E k : TupleEnds(r, written.columns, k)

(* The old tuple, if there is one, was read whole.                         *)
KeyRead == Complete(oldKey, Key) /\ (Keyed => KeyWhole)

(* What is read of the row the change prints last.                         *)
RowAt(t, p, rs) ==
  \E m : /\ Reads(t, 0, Row, m, p, rs)
         /\ m < Len(Row) => InFile /\ Broke(Row)
         /\ m = Len(Row) => (InFile => ~Broke(Row))

(* Per phase, what is read and what is left.                               *)
LineInv == pos = 1 /\ columns = <<>> /\ oldKey = <<>>

OldKeyInv == Keyed /\ oldKey = <<>> /\ TableKept /\ KeyAt(text, rest, pos, columns)

ColumnsInv ==
  /\ ~Transaction /\ TableKept
  /\ \/ NoRow /\ pos = 1 /\ \E x \in Notes : text = <<x>>
     \/ ~NoRow /\ KeyRead /\ RowAt(text, pos, columns)

ReadInv ==
  Transaction \/ (TableKept /\ ~NoRow /\ KeyRead /\ Row # <<>> /\ Complete(columns, Row))

(* The inductive invariant.                                                *)
IInv ==
  /\ written \in Changes
  /\ phase \in {"line", "oldKey", "columns", "read", "refused"}
  /\ phase = "line" => LineInv
  /\ phase = "oldKey" => OldKeyInv
  /\ phase = "columns" => ColumnsInv
  /\ phase = "read" => ReadInv
  /\ phase = "refused" => Unreadable

(* The first call of the loop of parseColumns.                             *)
LEMMA TupleReads ==
  ASSUME NEW s, NEW d, NEW cs, NEW m, Tuple(s, d, cs, m)
  PROVE  Reads(s, d, cs, m, 1, <<>>)
  <1>1. m \in 0..Len(cs) /\ Len(cs) # 0
    BY Zenon DEF Tuple, TupleAt
  <1>2. cs \in Seq(Column)
    BY Zenon DEF Tuple, TupleAt
  <1>3. Len(cs) \in Nat
    BY <1>2, LenProperties
  <1>4. 0 <= m
    BY <1>1, <1>3
  <1>5. Len(<<>>) = 0 /\ <<>> \in Seq(Parsed) /\ \A k \in 1..0 : FALSE
    BY EmptySeq
  <1>6. \A k \in 1..Len(<<>>) : FALSE
    BY <1>5, Zenon
  <1>7. 1 = IF Len(<<>>) = 0 THEN 1 ELSE d + At(cs)[Len(<<>>)]
    <2>1. PICK l, x : l = Len(<<>>) /\ x = d + At(cs)[Len(<<>>)]
      OBVIOUS
    <2>2. l = 0
      BY <1>5, <2>1, Zenon
    <2>3. 1 = IF l = 0 THEN 1 ELSE x
      BY <2>2
    <2>. QED BY <2>1, <2>3, Zenon
  <1>8. Len(<<>>) <= m
    BY <1>4, <1>5, Zenon
  <1>. QED BY <1>5, <1>6, <1>7, <1>8, Zenon DEF Reads

(* And so for a tuple that ends where its line does.                       *)
LEMMA EndsReads ==
  ASSUME NEW s, NEW cs, NEW m, TupleEnds(s, cs, m)
  PROVE  Reads(s, 0, cs, m, 1, <<>>)
  BY TupleReads, Zenon DEF TupleEnds

(* The least of one number.                                                *)
LEMMA MinOne ==
  ASSUME NEW k \in Nat
  PROVE  Min({k}) = k /\ {k} # {}
  <1>1. {k} \subseteq Nat /\ {k} # {}
    OBVIOUS
  <1>2. Min({k}) \in {k}
    BY <1>1, MinLemma
  <1>. QED BY <1>1, <1>2

(* The body of an update that prints the old row.                          *)
LEMMA KeyedParse ==
  ASSUME written \in Changes, Keyed, NEW s, BodyLeft(KeyedText(Old, written.columns), s),
         NEW b, b = From(s, Len(OldKeyMark) + 1)
  PROVE  /\ IsPrefix(OldKeyMark, s)
         /\ Index(b, NewTupleMark) = {} => Unreadable
         /\ Index(b, NewTupleMark) # {} =>
              KeyAt(Before(b, Min(Index(b, NewTupleMark))),
                    From(b, Min(Index(b, NewTupleMark)) + Len(NewTupleMark)), 1, <<>>)
  <1>1. PICK old, cs : old = Old /\ cs = written.columns
    OBVIOUS
  <1>2. /\ old \in Seq(Column) /\ cs \in Seq(Column) /\ cs # <<>>
    BY <1>1, WrittenFacts, Zenon
  <1>3. IsPrefix(OldKeyMark, s) /\ BodyLeft(OldAndNew(old, cs), b)
    BY <1>1, <1>2, KeyedHead, Zenon
  <1>4. Len(cs) # 0 /\ (Len(old) = 0 <=> old = <<>>)
    BY <1>2, EmptySeq
  <1>5. b \in Text
    BY <1>3, Zenon DEF BodyLeft
  <1>6. CASE Index(b, NewTupleMark) = {} /\ NoMarkBefore(b, Len(b) + 1)
    <2>1. old # <<>> => InFile /\ Broke(old)
      BY <1>2, <1>3, <1>4, <1>6, KeyedNone, Zenon
    <2>2. Key = Old
      BY Zenon DEF Key
    <2>3. Unreadable
      BY <1>1, <2>1, <2>2, Causes, Zenon
    <2>. QED BY <1>3, <1>6, <2>3, Zenon
  <1>7. CASE \E k : Index(b, NewTupleMark) = {k} /\ FirstMarkAt(b, k)
    <2>1. PICK k : Index(b, NewTupleMark) = {k} /\ FirstMarkAt(b, k)
      BY <1>7
    <2>2. Len(NewTupleMark) = 3
      BY <1>5, FirstMark, Zenon
    <2>3. k \in Nat
      <3>1. Len(b) \in Nat /\ k \in 1..Len(b)
        BY <1>5, <2>1, LenProperties DEF FirstMarkAt, Text
      <3>. QED BY <3>1
    <2>4. Min(Index(b, NewTupleMark)) = k /\ Index(b, NewTupleMark) # {}
      BY <2>1, <2>3, MinOne, Zenon
    <2>5. CASE old = <<>>
      <3>1. PICK m \in 0..Len(cs) : m < Len(cs) /\ Tuple(Before(b, k), 2, cs, m)
        BY <1>2, <1>3, <1>4, <2>1, <2>5, KeyedJunk, Zenon
      <3>2. Reads(Before(b, k), 2, cs, m, 1, <<>>)
        BY <3>1, TupleReads, Zenon
      <3>3. KeyAt(Before(b, k), From(b, k + 3), 1, <<>>)
        BY <1>1, <2>5, <3>1, <3>2, Zenon DEF KeyAt
      <3>. QED BY <1>3, <2>2, <2>4, <3>3, Zenon
    <2>6. CASE old # <<>> /\ k + 2 <= Len(PrintColumns(old))
      <3>1. PICK m \in 0..Len(old) : m < Len(old) /\ Tuple(Before(b, k), 0, old, m) /\ MarkedIn(old)
        BY <1>2, <1>3, <2>1, <2>6, KeyedCut, Zenon
      <3>2. Reads(Before(b, k), 0, old, m, 1, <<>>)
        BY <3>1, TupleReads, Zenon
      <3>3. m # Len(old)
        <4>1. Len(old) \in Nat
          BY <1>2, LenProperties
        <4>. QED BY <3>1, <4>1
      <3>4. KeyAt(Before(b, k), From(b, k + 3), 1, <<>>)
        BY <1>1, <3>1, <3>2, <3>3, Zenon DEF KeyAt
      <3>. QED BY <1>3, <2>2, <2>4, <3>4, Zenon
    <2>7. CASE old # <<>> /\ ~(k + 2 <= Len(PrintColumns(old)))
      <3>1. k = Len(PrintColumns(old))
        BY <1>2, <1>3, <1>4, <2>1, <2>7, KeyedPlace, Zenon
      <3>2. Tuple(Before(b, k), 0, old, Len(old)) /\ ~MarkedIn(old) /\ (InFile => ~Broke(old))
        BY <1>2, <1>3, <1>4, <2>1, <2>7, <3>1, KeyedOld, Zenon
      <3>3. BodyLeft(PrintColumns(cs), From(b, k + 3))
        BY <1>2, <1>3, <1>4, <2>1, <3>1, KeyedRest, Zenon
      <3>4. \E n : TupleEnds(From(b, k + 3), cs, n)
        BY <1>2, <3>3, ColumnsBody, Zenon
      <3>5. Reads(Before(b, k), 0, old, Len(old), 1, <<>>)
        BY <3>2, TupleReads, Zenon
      <3>6. KeyWhole
        BY <1>1, <2>7, <3>2, Zenon DEF KeyWhole
      <3>7. ~(Len(old) < Len(old))
        <4>1. Len(old) \in Nat
          BY <1>2, LenProperties
        <4>. QED BY <4>1
      <3>8. KeyAt(Before(b, k), From(b, k + 3), 1, <<>>)
        BY <1>1, <3>4, <3>5, <3>6, <3>7, Zenon DEF KeyAt
      <3>. QED BY <1>3, <2>2, <2>4, <3>8, Zenon
    <2>. QED BY <2>5, <2>6, <2>7, Zenon
  <1>. QED BY <1>5, <1>6, <1>7, FirstMark, Zenon

(* The other bodies.                                                       *)
LEMMA RowParse ==
  ASSUME written \in Changes, ~Transaction, ~Keyed, NEW s, BodyLeft(PrintBody(written), s)
  PROVE  /\ ~(written.op = "update" /\ IsPrefix(OldKeyMark, s))
         /\ NoRow => \E x \in Notes : s = <<x>>
         /\ ~NoRow => RowAt(s, 1, <<>>)
  <1>1. CASE NoRow
    <2>1. PICK x \in Notes : PrintBody(written) = <<" ", x>>
      BY <1>1, BodyKinds, Zenon
    <2>2. s = <<x>>
      BY <2>1, NoteBody, Zenon
    <2>3. written.op # "update"
      <3>1. "truncate" # "update" /\ "delete" # "update"
        OBVIOUS
      <3>. QED BY <1>1, <3>1, Zenon DEF NoRow
    <2>. QED BY <1>1, <2>2, <2>3, Zenon
  <1>2. CASE ~NoRow
    <2>1. PrintBody(written) = PrintColumns(Row)
      BY <1>2, BodyKinds, Zenon
    <2>2. Row \in Seq(Column)
      BY WrittenFacts, Zenon
    <2>3. ~IsPrefix(OldKeyMark, s)
      BY <2>1, <2>2, NotKeyedHead, Zenon
    <2>4. PICK m : TupleEnds(s, Row, m)
      BY <2>1, <2>2, ColumnsBody, Zenon
    <2>5. Reads(s, 0, Row, m, 1, <<>>)
      BY <2>4, EndsReads, Zenon
    <2>6. RowAt(s, 1, <<>>)
      BY <2>4, <2>5, Zenon DEF RowAt, TupleEnds
    <2>. QED BY <1>2, <2>3, <2>6, Zenon
  <1>. QED BY <1>1, <1>2

(* The state at the beginning, and each step of the parser.                *)
LEMMA InitHolds == Init => IInv
  <1>. SUFFICES ASSUME Init PROVE IInv
    OBVIOUS
  <1>1. written \in Changes /\ phase = "line" /\ LineInv
    BY Zenon DEF Init, LineInv
  <1>2. "line" \in {"line", "oldKey", "columns", "read", "refused"} /\ "line" # "oldKey"
        /\ "line" # "columns" /\ "line" # "read" /\ "line" # "refused"
    OBVIOUS
  <1>. QED BY <1>1, <1>2, Zenon DEF IInv

(* The invariant where the parser has come to, by the phase it is in.      *)
LEMMA AtPhase ==
  ASSUME written' \in Changes
  PROVE  /\ phase' = "oldKey" /\ OldKeyInv' => IInv'
         /\ phase' = "columns" /\ ColumnsInv' => IInv'
         /\ phase' = "read" /\ ReadInv' => IInv'
         /\ phase' = "refused" /\ Unreadable' => IInv'
  <1>1. phase' = "oldKey" => phase' \in {"line", "oldKey", "columns", "read", "refused"} /\ phase' # "line"
                            /\ phase' # "columns" /\ phase' # "read" /\ phase' # "refused"
    OBVIOUS
  <1>2. phase' = "columns" => phase' \in {"line", "oldKey", "columns", "read", "refused"} /\ phase' # "line"
                            /\ phase' # "oldKey" /\ phase' # "read" /\ phase' # "refused"
    OBVIOUS
  <1>3. phase' = "read" => phase' \in {"line", "oldKey", "columns", "read", "refused"} /\ phase' # "line"
                            /\ phase' # "oldKey" /\ phase' # "columns" /\ phase' # "refused"
    OBVIOUS
  <1>4. phase' = "refused" => phase' \in {"line", "oldKey", "columns", "read", "refused"} /\ phase' # "line"
                            /\ phase' # "oldKey" /\ phase' # "columns" /\ phase' # "read"
    OBVIOUS
  <1>. QED BY <1>1, <1>2, <1>3, <1>4, Zenon DEF IInv

(* What only the change and the way of its line decide.                    *)
LEMMA Unmoved ==
  ASSUME written' = written, carrier' = carrier
  PROVE  /\ Old' = Old /\ Row' = Row /\ Key' = Key
         /\ Keyed' <=> Keyed
         /\ NoRow' <=> NoRow
         /\ Transaction' <=> Transaction
         /\ InFile' <=> InFile
         /\ KeyWhole' <=> KeyWhole
         /\ Unreadable' <=> Unreadable
  <1>1. Old' = Old /\ (Keyed' <=> Keyed) /\ (NoRow' <=> NoRow) /\ (Transaction' <=> Transaction)
        /\ (InFile' <=> InFile)
    BY DEF Old, Keyed, NoRow, Transaction, InFile
  <1>2. Row' = Row /\ Key' = Key
    BY <1>1 DEF Row, Key
  <1>3. KeyWhole' <=> KeyWhole
    BY <1>1 DEF KeyWhole
  <1>4. Unreadable' <=> Unreadable
    BY DEF Unreadable, Broken, Shown
  <1>. QED BY <1>1, <1>2, <1>3, <1>4

(* And the two readings, when only the arguments move.                     *)
LEMMA UnmovedReads ==
  ASSUME written' = written, carrier' = carrier, NEW t, NEW r, NEW p, NEW rs,
         t = text', r = rest', p = pos', rs = columns'
  PROVE  /\ KeyAt(t, r, p, rs) => KeyAt(text, rest, pos, columns)'
         /\ RowAt(t, p, rs) => RowAt(text, pos, columns)'
  <1>1. /\ Old' = Old /\ Row' = Row /\ (KeyWhole' <=> KeyWhole) /\ (InFile' <=> InFile)
    BY Unmoved, Zenon
  <1>2. KeyAt(t, r, p, rs) => KeyAt(text, rest, pos, columns)'
    BY <1>1 DEF KeyAt, TupleEnds
  <1>3. RowAt(t, p, rs) => RowAt(text, pos, columns)'
    BY <1>1 DEF RowAt
  <1>. QED BY <1>2, <1>3

(* A column list with nothing left to read.                                *)
LEMMA ReadsAllFrom ==
  ASSUME NEW s, NEW cs, NEW m, NEW p, NEW rs, NEW d, Reads(s, d, cs, m, p, rs),
         StartOf(s, p) > Len(s)
  PROVE  /\ m = Len(cs) /\ Len(rs) = Len(cs) /\ rs \in Seq(Parsed) /\ cs \in Seq(Column)
         /\ \A k \in 1..Len(cs) : ~Bracketing(cs[k]) /\ (d = 0 => ColumnRead(rs[k], cs[k]))
  BY ReadsAll

(* Without a line break in it, it is complete.                             *)
LEMMA ReadWhole ==
  ASSUME NEW s, NEW cs, NEW m, NEW p, NEW rs, Reads(s, 0, cs, m, p, rs),
         StartOf(s, p) > Len(s), InFile => ~Broke(cs)
  PROVE  Complete(rs, cs)
  <1>1. PICK d : d = 0
    OBVIOUS
  <1>2. Reads(s, d, cs, m, p, rs)
    BY <1>1, Zenon
  <1>3. /\ Len(rs) = Len(cs) /\ rs \in Seq(Parsed) /\ cs \in Seq(Column)
        /\ \A k \in 1..Len(cs) : ~Bracketing(cs[k]) /\ (d = 0 => ColumnRead(rs[k], cs[k]))
    BY <1>2, ReadsAllFrom, Zenon
  <1>. QED BY <1>1, <1>3, Zenon DEF Complete

(* Each action of the parser keeps the invariant.                          *)
LEMMA ParseTransactionStep ==
  ASSUME IInv, ParseTransaction
  PROVE  IInv'
  <1>1. written' = written /\ carrier' = carrier /\ phase' = "read" /\ Line[1] \in {"BEGIN", "COMMIT"}
    BY Zenon DEF ParseTransaction
  <1>2. written \in Changes
    BY Zenon DEF IInv
  <1>3. "BEGIN" # "table " /\ "COMMIT" # "table "
    OBVIOUS
  <1>4. Transaction
    BY <1>1, <1>2, <1>3, ChangeLine, Zenon
  <1>5. Transaction'
    BY <1>1, <1>4, Unmoved, Zenon
  <1>6. ReadInv'
    BY <1>5, Zenon DEF ReadInv
  <1>7. written' \in Changes
    BY <1>1, <1>2, Zenon
  <1>. QED BY <1>1, <1>6, <1>7, AtPhase, Zenon

(* Nothing follows the operation, or a file cut the name of the table.     *)
LEMMA RefuseChangeStep ==
  ASSUME IInv, RefuseChange
  PROVE  IInv'
  <1>1. written' = written /\ carrier' = carrier /\ phase' = "refused" /\ Line[1] = "table "
        /\ Heads(Line) = {}
    BY Zenon DEF RefuseChange
  <1>2. written \in Changes
    BY Zenon DEF IInv
  <1>3. ~Transaction
    BY <1>1, <1>2, TransactionLine, Zenon
  <1>4. ~OneHead(Line, written.table, written.op, PrintBody(written))
    BY <1>1, Zenon DEF OneHead
  <1>5. PrintBody(written) = <<>> \/ (InFile /\ "\n" \in ToSet(written.table))
    BY <1>2, <1>3, <1>4, ChangeLine, Zenon
  <1>6. Unreadable
    BY <1>2, <1>3, <1>5, NoBody, Causes, Zenon
  <1>7. Unreadable'
    BY <1>1, <1>6, Unmoved, Zenon
  <1>8. written' \in Changes
    BY <1>1, <1>2, Zenon
  <1>. QED BY <1>1, <1>7, <1>8, AtPhase, Zenon

(* parseChange takes the table, the operation and the tuples apart.        *)
LEMMA ParseChangeStep ==
  ASSUME IInv, ParseChange
  PROVE  IInv'
  <1>. DEFINE keyed(h) == h.op = "update" /\ IsPrefix(OldKeyMark, h.body)
              body(h) == IF keyed(h) THEN From(h.body, Len(OldKeyMark) + 1) ELSE h.body
              marks(h) == IF keyed(h) THEN Index(body(h), NewTupleMark) ELSE {}
  <1>1. /\ phase = "line" /\ Line[1] = "table "
        /\ written' = written /\ carrier' = carrier /\ pos' = pos /\ columns' = columns /\ oldKey' = oldKey
    BY Zenon DEF ParseChange
  <1>2. PICK h \in Heads(Line) :
          /\ schema' = h.name.schema
          /\ table' = h.name.table
          /\ phase' = IF ~keyed(h) THEN "columns" ELSE IF marks(h) = {} THEN "refused" ELSE "oldKey"
          /\ text' = IF marks(h) = {} THEN body(h) ELSE Before(body(h), Min(marks(h)))
          /\ rest' = IF marks(h) = {} THEN <<>> ELSE From(body(h), Min(marks(h)) + Len(NewTupleMark))
    BY Zenon DEF ParseChange
  <1>3. written \in Changes /\ LineInv
    BY <1>1, Zenon DEF IInv
  <1>4. pos' = 1 /\ columns' = <<>> /\ oldKey' = <<>>
    BY <1>1, <1>3, Zenon DEF LineInv
  <1>5. ~Transaction
    BY <1>1, <1>3, TransactionLine, Zenon
  <1>6. Heads(Line) # {}
    BY <1>2, Zenon
  <1>7. /\ InFile => "\n" \notin ToSet(written.table)
        /\ OneHead(Line, written.table, written.op, PrintBody(written))
    BY <1>3, <1>5, <1>6, ChangeLine, Zenon
  <1>8. PICK n, b : /\ Heads(Line) = {[name |-> n, op |-> written.op, body |-> b]}
                    /\ TableRead(n.schema, n.table, written.table)
                    /\ BodyLeft(PrintBody(written), b)
    BY <1>7, Zenon DEF OneHead
  <1>9. h.name = n /\ h.op = written.op /\ h.body = b
    BY <1>2, <1>8
  <1>10. TableRead(schema', table', written.table) /\ BodyLeft(PrintBody(written), h.body)
    BY <1>2, <1>8, <1>9, Zenon
  <1>11. TableKept'
    <2>1. (InFile' <=> InFile) /\ written' = written
      BY <1>1, Unmoved, Zenon
    <2>. QED BY <1>7, <1>10, <2>1 DEF TableKept
  <1>12. written' \in Changes
    BY <1>1, <1>3, Zenon
  <1>13. /\ Keyed' <=> Keyed
         /\ Transaction' <=> Transaction
         /\ NoRow' <=> NoRow
         /\ Unreadable' <=> Unreadable
    BY <1>1, Unmoved, Zenon
  <1>14. CASE Keyed
    <2>1. BodyLeft(KeyedText(Old, written.columns), h.body)
      BY <1>3, <1>5, <1>10, <1>14, BodyKinds, Zenon
    <2>2. PICK s, t : s = h.body /\ t = From(s, Len(OldKeyMark) + 1)
      OBVIOUS
    <2>3. /\ IsPrefix(OldKeyMark, s)
          /\ Index(t, NewTupleMark) = {} => Unreadable
          /\ Index(t, NewTupleMark) # {} =>
               KeyAt(Before(t, Min(Index(t, NewTupleMark))),
                     From(t, Min(Index(t, NewTupleMark)) + Len(NewTupleMark)), 1, <<>>)
      BY <1>3, <1>14, <2>1, <2>2, KeyedParse, Zenon
    <2>4. keyed(h)
      BY <1>9, <1>14, <2>2, <2>3, Zenon DEF Keyed
    <2>. HIDE DEF keyed
    <2>5. body(h) = t /\ marks(h) = Index(t, NewTupleMark)
      BY <2>2, <2>4
    <2>. HIDE DEF body, marks
    <2>6. CASE marks(h) = {}
      <3>1. phase' = "refused"
        BY <1>2, <2>4, <2>6
      <3>2. Unreadable'
        BY <1>13, <2>3, <2>5, <2>6, Zenon
      <3>. QED BY <1>12, <3>1, <3>2, AtPhase, Zenon
    <2>7. CASE marks(h) # {}
      <3>1. phase' = "oldKey"
        BY <1>2, <2>4, <2>7
      <3>2. text' = Before(body(h), Min(marks(h)))
        BY <1>2, <2>7
      <3>3. rest' = From(body(h), Min(marks(h)) + Len(NewTupleMark))
        BY <1>2, <2>7
      <3>4. KeyAt(text', rest', pos', columns')
        BY <1>4, <2>3, <2>5, <2>7, <3>2, <3>3, Zenon
      <3>5. PICK u, r, p, rs : u = text' /\ r = rest' /\ p = pos' /\ rs = columns'
        OBVIOUS
      <3>6. KeyAt(u, r, p, rs)
        BY <3>4, <3>5, Zenon
      <3>7. KeyAt(text, rest, pos, columns)'
        BY <1>1, <3>5, <3>6, UnmovedReads, Zenon
      <3>8. OldKeyInv'
        BY <1>4, <1>11, <1>13, <1>14, <3>7, Zenon DEF OldKeyInv
      <3>. QED BY <1>12, <3>1, <3>8, AtPhase, Zenon
    <2>. QED BY <2>6, <2>7
  <1>15. CASE ~Keyed
    <2>1. PICK s : s = h.body
      OBVIOUS
    <2>2. /\ ~(written.op = "update" /\ IsPrefix(OldKeyMark, s))
          /\ NoRow => \E x \in Notes : s = <<x>>
          /\ ~NoRow => RowAt(s, 1, <<>>)
      BY <1>3, <1>5, <1>10, <1>15, <2>1, RowParse, Zenon
    <2>3. ~keyed(h)
      BY <1>9, <2>1, <2>2, Zenon
    <2>. HIDE DEF keyed
    <2>4. phase' = "columns"
      BY <1>2, <2>3
    <2>5. marks(h) = {} /\ body(h) = s
      BY <2>1, <2>3
    <2>. HIDE DEF body, marks
    <2>6. text' = s
      BY <1>2, <2>5
    <2>7. CASE NoRow
      <3>1. \E x \in Notes : text' = <<x>>
        BY <2>2, <2>6, <2>7, Zenon
      <3>2. ColumnsInv'
        BY <1>4, <1>5, <1>11, <1>13, <2>7, <3>1 DEF ColumnsInv, Notes
      <3>. QED BY <1>12, <2>4, <3>2, AtPhase, Zenon
    <2>8. CASE ~NoRow
      <3>1. RowAt(s, 1, <<>>)
        BY <2>2, <2>8, Zenon
      <3>2. PICK u, r, p, rs : u = text' /\ r = rest' /\ p = pos' /\ rs = columns'
        OBVIOUS
      <3>3. RowAt(u, p, rs)
        BY <1>4, <2>6, <3>1, <3>2, Zenon
      <3>4. RowAt(text, pos, columns)'
        BY <1>1, <3>2, <3>3, UnmovedReads, Zenon
      <3>5. KeyRead'
        <4>1. Key' = <<>>
          BY <1>13, <1>15, Zenon DEF Key
        <4>2. Complete(oldKey, Key)'
          <5>1. <<>> \in Seq(Parsed) /\ <<>> \in Seq(Column) /\ (\A k \in 1..Len(<<>>) : FALSE)
            OBVIOUS
          <5>2. ~Broke(<<>>)
            BY <5>1, Zenon DEF Broke
          <5>. QED BY <1>4, <4>1, <5>1, <5>2 DEF Complete
        <4>. QED BY <1>13, <1>15, <4>2, Zenon DEF KeyRead
      <3>6. ColumnsInv'
        BY <1>5, <1>11, <1>13, <2>8, <3>4, <3>5, Zenon DEF ColumnsInv
      <3>. QED BY <1>12, <2>4, <3>6, AtPhase, Zenon
    <2>. QED BY <2>7, <2>8
  <1>. QED BY <1>14, <1>15

(* The loop of parseColumns.                                               *)
LEMMA StartIs == Start = StartOf(text, pos)
  BY DEF Start, StartOf

(* From the note of a line without a row no column is read.                *)
LEMMA NoteStops ==
  ASSUME pos = 1, NEW x \in Notes, text = <<x>>
  PROVE  Start <= Len(text) /\ ParseColumn(text, Start) = {}
  <1>1. PICK s, y : s = <<x>> /\ y = StartOf(s, 1)
    OBVIOUS
  <1>2. y = 1 /\ Len(s) = 1 /\ ParseColumn(s, y) = {}
    BY <1>1, NoteRefused, Zenon
  <1>3. Start = y /\ text = s
    BY <1>1, StartIs, Zenon
  <1>4. \A l : l = 1 => l <= l
    OBVIOUS
  <1>. QED BY <1>2, <1>3, <1>4, Zenon

(* parseColumns reads one more of the printed columns.                     *)
LEMMA NextColumnStep ==
  ASSUME IInv, NextColumn
  PROVE  IInv'
  <1>1. /\ phase \in {"oldKey", "columns"} /\ phase' = phase /\ written' = written /\ carrier' = carrier
        /\ text' = text /\ rest' = rest /\ schema' = schema /\ table' = table /\ oldKey' = oldKey
        /\ Start <= Len(text)
    BY Zenon DEF NextColumn
  <1>2. PICK c \in ParseColumn(text, Start) : columns' = Append(columns, c.column) /\ pos' = c.next
    BY Zenon DEF NextColumn
  <1>3. written' \in Changes
    BY <1>1, Zenon DEF IInv
  <1>4. /\ Old' = Old /\ Row' = Row /\ Key' = Key
        /\ Keyed' <=> Keyed
        /\ NoRow' <=> NoRow
        /\ Transaction' <=> Transaction
        /\ InFile' <=> InFile
        /\ KeyWhole' <=> KeyWhole
    BY <1>1, Unmoved, Zenon
  <1>5. PICK s, p, rs, q, us : /\ s = text /\ p = pos /\ rs = columns
                               /\ q = c.next /\ us = Append(columns, c.column)
    OBVIOUS
  <1>6. \A d, cs, m : Reads(s, d, cs, m, p, rs) => Reads(s, d, cs, m, q, us)
    <2>1. c \in ParseColumn(s, StartOf(s, p)) /\ StartOf(s, p) <= Len(s)
      BY <1>1, <1>2, <1>5, StartIs, Zenon
    <2>. QED BY <1>5, <2>1, ReadsNext, Zenon
  <1>7. TableKept => TableKept'
    BY <1>1, <1>4 DEF TableKept
  <1>8. PICK r : r = rest
    OBVIOUS
  <1>9. s = text' /\ r = rest' /\ q = pos' /\ us = columns'
    BY <1>1, <1>2, <1>5, <1>8, Zenon
  <1>10. CASE phase = "oldKey"
    <2>1. OldKeyInv
      BY <1>10, Zenon DEF IInv
    <2>2. KeyAt(s, r, p, rs)
      BY <1>5, <1>8, <2>1, Zenon DEF OldKeyInv
    <2>3. KeyAt(s, r, q, us)
      BY <1>6, <2>2, Zenon DEF KeyAt
    <2>4. KeyAt(text, rest, pos, columns)'
      BY <1>1, <1>9, <2>3, UnmovedReads, Zenon
    <2>5. OldKeyInv'
      BY <1>1, <1>4, <1>7, <2>1, <2>4, Zenon DEF OldKeyInv
    <2>. QED BY <1>1, <1>3, <1>10, <2>5, AtPhase, Zenon
  <1>11. CASE phase = "columns"
    <2>1. ColumnsInv
      BY <1>11, Zenon DEF IInv
    <2>2. ~NoRow
      <3>1. ASSUME NoRow PROVE FALSE
        <4>1. PICK x \in Notes : pos = 1 /\ text = <<x>>
          BY <2>1, <3>1, Zenon DEF ColumnsInv
        <4>2. ParseColumn(text, Start) = {}
          BY <4>1, NoteStops, Zenon
        <4>. QED BY <1>2, <4>2, Zenon
      <3>. QED BY <3>1
    <2>3. KeyRead /\ RowAt(s, p, rs) /\ TableKept /\ ~Transaction
      BY <1>5, <2>1, <2>2, Zenon DEF ColumnsInv
    <2>4. RowAt(s, q, us)
      BY <1>6, <2>3, Zenon DEF RowAt
    <2>5. RowAt(text, pos, columns)'
      BY <1>1, <1>9, <2>4, UnmovedReads, Zenon
    <2>6. KeyRead'
      BY <1>1, <1>4, <2>3 DEF KeyRead, Complete
    <2>7. ColumnsInv'
      BY <1>4, <1>7, <2>2, <2>3, <2>5, <2>6, Zenon DEF ColumnsInv
    <2>. QED BY <1>1, <1>3, <1>11, <2>7, AtPhase, Zenon
  <1>. QED BY <1>1, <1>10, <1>11

(* It refuses one for its brackets, or because the text ends inside.       *)
LEMMA RefuseColumnStep ==
  ASSUME IInv, RefuseColumn
  PROVE  IInv'
  <1>1. /\ phase \in {"oldKey", "columns"} /\ phase' = "refused" /\ written' = written /\ carrier' = carrier
        /\ Start <= Len(text) /\ ParseColumn(text, Start) = {}
    BY Zenon DEF RefuseColumn
  <1>2. written \in Changes /\ written' \in Changes
    BY <1>1, Zenon DEF IInv
  <1>3. PICK s, p, rs : s = text /\ p = pos /\ rs = columns
    OBVIOUS
  <1>4. StartOf(s, p) <= Len(s) /\ ParseColumn(s, StartOf(s, p)) = {}
    BY <1>1, <1>3, StartIs, Zenon
  <1>5. \A d, cs, m : Reads(s, d, cs, m, p, rs) =>
          m < Len(cs) \/ \E j \in 1..Len(cs) : Bracketing(cs[j])
    BY <1>4, ReadsRefuse, Zenon
  <1>6. Unreadable
    <2>1. CASE phase = "oldKey"
      <3>1. Keyed /\ KeyAt(s, rest, p, rs) /\ Key = Old
        BY <1>3, <2>1, Zenon DEF IInv, OldKeyInv, Key
      <3>2. Old = <<>> \/ MarkedIn(Old) \/ \E j \in 1..Len(Old) : Bracketing(Old[j])
        BY <1>5, <3>1, Zenon DEF KeyAt
      <3>. QED BY <1>2, <3>1, <3>2, Causes, Zenon
    <2>2. CASE phase = "columns"
      <3>1. NoRow \/ RowAt(s, p, rs)
        BY <1>3, <2>2, Zenon DEF IInv, ColumnsInv
      <3>2. RowAt(s, p, rs) => (InFile /\ Broke(Row)) \/ \E j \in 1..Len(Row) : Bracketing(Row[j])
        BY <1>5, Zenon DEF RowAt
      <3>. QED BY <1>2, <3>1, <3>2, Causes, Zenon
    <2>. QED BY <1>1, <2>1, <2>2
  <1>7. Unreadable'
    BY <1>1, <1>6, Unmoved, Zenon
  <1>. QED BY <1>1, <1>2, <1>7, AtPhase, Zenon

(* The old tuple is read, and the new one is next.                         *)
LEMMA EndOldKeyStep ==
  ASSUME IInv, EndOldKey
  PROVE  IInv'
  <1>1. /\ phase = "oldKey" /\ phase' = "columns" /\ written' = written /\ carrier' = carrier
        /\ oldKey' = columns /\ columns' = <<>> /\ text' = rest /\ pos' = 1 /\ rest' = rest
        /\ schema' = schema /\ table' = table /\ Start > Len(text)
    BY Zenon DEF EndOldKey
  <1>2. written \in Changes /\ written' \in Changes /\ OldKeyInv
    BY <1>1, Zenon DEF IInv
  <1>3. Keyed /\ TableKept /\ KeyAt(text, rest, pos, columns)
    BY <1>2, Zenon DEF OldKeyInv
  <1>4. PICK s, p, rs, r : s = text /\ p = pos /\ rs = columns /\ r = rest
    OBVIOUS
  <1>5. StartOf(s, p) > Len(s)
    BY <1>1, <1>4, StartIs, Zenon
  <1>6. \A d, cs, m : Reads(s, d, cs, m, p, rs) => m = Len(cs) /\ cs \in Seq(Column)
    BY <1>5, ReadsAllFrom
  <1>7. PICK m : /\ Reads(s, 0, Old, m, p, rs)
                 /\ m = Len(Old) => KeyWhole /\ \E k : TupleEnds(r, written.columns, k)
    <2>1. KeyAt(s, r, p, rs)
      BY <1>3, <1>4, Zenon
    <2>2. PICK m : \/ Reads(s, 2, written.columns, m, p, rs) /\ m < Len(written.columns)
                   \/ /\ Reads(s, 0, Old, m, p, rs)
                      /\ m = Len(Old) => KeyWhole /\ \E k : TupleEnds(r, written.columns, k)
      BY <2>1, Zenon DEF KeyAt
    <2>3. ~(Reads(s, 2, written.columns, m, p, rs) /\ m < Len(written.columns))
      <3>1. \A cs \in Seq(Column) : ~(Len(cs) < Len(cs))
        <4>1. \A cs \in Seq(Column) : Len(cs) \in Nat
          BY LenProperties
        <4>2. \A l \in Nat : ~(l < l)
          OBVIOUS
        <4>. QED BY <4>1, <4>2, Zenon
      <3>. QED BY <1>6, <3>1, Zenon
    <2>. QED BY <2>2, <2>3, Zenon
  <1>8. KeyWhole /\ \E k : TupleEnds(r, written.columns, k)
    BY <1>6, <1>7, Zenon
  <1>9. Complete(rs, Old)
    BY <1>5, <1>7, <1>8, ReadWhole, Zenon DEF KeyWhole
  <1>10. Row = written.columns
    BY <1>2, <1>3, WrittenFacts, Zenon
  <1>11. RowAt(r, 1, <<>>)
    BY <1>8, <1>10, EndsReads, Zenon DEF RowAt, TupleEnds
  <1>12. PICK u, t, q, us : u = text' /\ t = rest' /\ q = pos' /\ us = columns'
    OBVIOUS
  <1>13. RowAt(u, q, us)
    BY <1>1, <1>4, <1>11, <1>12, Zenon
  <1>14. RowAt(text, pos, columns)'
    BY <1>1, <1>12, <1>13, UnmovedReads, Zenon
  <1>15. /\ Key' = Key
         /\ Keyed' <=> Keyed
         /\ NoRow' <=> NoRow
         /\ Transaction' <=> Transaction
         /\ InFile' <=> InFile
         /\ KeyWhole' <=> KeyWhole
    BY <1>1, Unmoved, Zenon
  <1>16. TableKept'
    BY <1>1, <1>3, <1>15 DEF TableKept
  <1>17. KeyRead'
    <2>1. Complete(rs, Key)
      BY <1>3, <1>9, Zenon DEF Key
    <2>2. Complete(oldKey, Key)'
      BY <1>1, <1>4, <1>15, <2>1 DEF Complete
    <2>. QED BY <1>8, <1>15, <2>2, Zenon DEF KeyRead
  <1>18. ~NoRow /\ ~Transaction
    <2>1. "update" # "truncate" /\ "update" # "delete" /\ "update" # "BEGIN" /\ "update" # "COMMIT"
      OBVIOUS
    <2>. QED BY <1>3, <2>1, Zenon DEF Keyed, NoRow, Transaction
  <1>19. ColumnsInv'
    BY <1>14, <1>15, <1>16, <1>17, <1>18, Zenon DEF ColumnsInv
  <1>. QED BY <1>1, <1>2, <1>19, AtPhase, Zenon

(* All columns of the change are read.                                     *)
LEMMA EndColumnsStep ==
  ASSUME IInv, EndColumns
  PROVE  IInv'
  <1>1. /\ phase = "columns" /\ phase' = "read" /\ written' = written /\ carrier' = carrier
        /\ oldKey' = oldKey /\ columns' = columns /\ schema' = schema /\ table' = table
        /\ Start > Len(text)
    BY Zenon DEF EndColumns
  <1>2. written \in Changes /\ written' \in Changes /\ ColumnsInv
    BY <1>1, Zenon DEF IInv
  <1>3. ~NoRow
    <2>1. ASSUME NoRow PROVE FALSE
      <3>1. PICK x \in Notes : pos = 1 /\ text = <<x>>
        BY <1>2, <2>1, Zenon DEF ColumnsInv
      <3>2. PICK y, l : y = Start /\ l = Len(text)
        OBVIOUS
      <3>3. y <= l /\ y > l
        BY <1>1, <3>1, <3>2, NoteStops, Zenon
      <3>4. y = 1 /\ l = 1
        BY <3>1, <3>2, NoteRefused, StartIs, Zenon
      <3>5. ~(1 > 1)
        OBVIOUS
      <3>. QED BY <3>3, <3>4, <3>5, Zenon
    <2>. QED BY <2>1
  <1>4. KeyRead /\ TableKept /\ RowAt(text, pos, columns)
    BY <1>2, <1>3, Zenon DEF ColumnsInv
  <1>5. PICK s, p, rs : s = text /\ p = pos /\ rs = columns
    OBVIOUS
  <1>6. StartOf(s, p) > Len(s)
    BY <1>1, <1>5, StartIs, Zenon
  <1>7. PICK m : Reads(s, 0, Row, m, p, rs) /\ (m = Len(Row) => (InFile => ~Broke(Row)))
    BY <1>4, <1>5, Zenon DEF RowAt
  <1>8. m = Len(Row)
    BY <1>6, <1>7, ReadsAllFrom, Zenon
  <1>9. Complete(rs, Row)
    BY <1>6, <1>7, <1>8, ReadWhole, Zenon
  <1>10. Row # <<>>
    <2>1. Len(Row) # 0
      BY <1>7, Zenon DEF Reads, Tuple, TupleAt
    <2>. QED BY <2>1, EmptySeq
  <1>11. /\ Key' = Key /\ Row' = Row
         /\ Keyed' <=> Keyed
         /\ NoRow' <=> NoRow
         /\ Transaction' <=> Transaction
         /\ InFile' <=> InFile
         /\ KeyWhole' <=> KeyWhole
    BY <1>1, Unmoved, Zenon
  <1>12. TableKept'
    BY <1>1, <1>4, <1>11 DEF TableKept
  <1>13. KeyRead' /\ Complete(columns, Row)'
    BY <1>1, <1>4, <1>5, <1>9, <1>11 DEF KeyRead, Complete
  <1>14. ReadInv'
    BY <1>3, <1>10, <1>11, <1>12, <1>13, Zenon DEF ReadInv
  <1>. QED BY <1>1, <1>2, <1>14, AtPhase, Zenon

(* Every step preserves the invariant.                                     *)
LEMMA NextHolds == IInv /\ [Next]_vars => IInv'
  <1>. SUFFICES ASSUME IInv, [Next]_vars PROVE IInv'
    OBVIOUS
  <1>1. CASE ParseTransaction
    BY <1>1, ParseTransactionStep
  <1>2. CASE ParseChange
    BY <1>2, ParseChangeStep
  <1>3. CASE RefuseChange
    BY <1>3, RefuseChangeStep
  <1>4. CASE NextColumn
    BY <1>4, NextColumnStep
  <1>5. CASE RefuseColumn
    BY <1>5, RefuseColumnStep
  <1>6. CASE EndOldKey
    BY <1>6, EndOldKeyStep
  <1>7. CASE EndColumns
    BY <1>7, EndColumnsStep
  <1>8. CASE UNCHANGED vars
    <2>1. /\ written' = written /\ carrier' = carrier /\ phase' = phase /\ text' = text /\ rest' = rest
          /\ pos' = pos /\ schema' = schema /\ table' = table /\ columns' = columns /\ oldKey' = oldKey
      BY <1>8 DEF vars
    <2>2. /\ Old' = Old /\ Key' = Key /\ Row' = Row
          /\ Keyed' <=> Keyed
          /\ NoRow' <=> NoRow
          /\ Transaction' <=> Transaction
          /\ InFile' <=> InFile
          /\ KeyWhole' <=> KeyWhole
          /\ Unreadable' <=> Unreadable
      BY <2>1, Unmoved, Zenon
    <2>3. PICK t, r, p, rs : t = text /\ r = rest /\ p = pos /\ rs = columns
      OBVIOUS
    <2>4. /\ KeyAt(text, rest, pos, columns) => KeyAt(text, rest, pos, columns)'
          /\ RowAt(text, pos, columns) => RowAt(text, pos, columns)'
      BY <2>1, <2>3, UnmovedReads, Zenon
    <2>5. TableKept' <=> TableKept
      BY <2>1, <2>2 DEF TableKept
    <2>6. (Complete(oldKey, Key)' <=> Complete(oldKey, Key)) /\ (Complete(columns, Row)' <=> Complete(columns, Row))
      BY <2>1, <2>2 DEF Complete
    <2>7. KeyRead' <=> KeyRead
      BY <2>2, <2>6, Zenon DEF KeyRead
    <2>8. LineInv => LineInv'
      BY <2>1 DEF LineInv
    <2>9. OldKeyInv => OldKeyInv'
      BY <2>1, <2>2, <2>4, <2>5, Zenon DEF OldKeyInv
    <2>10. ColumnsInv => ColumnsInv'
      <3>1. (\E x \in Notes : text = <<x>>) => (\E x \in Notes : text' = <<x>>)
        BY <2>1, Zenon
      <3>. QED BY <2>1, <2>2, <2>4, <2>5, <2>7, <3>1 DEF ColumnsInv, Notes
    <2>11. ReadInv => ReadInv'
      BY <2>2, <2>5, <2>6, <2>7, Zenon DEF ReadInv
    <2>. QED BY <2>1, <2>2, <2>8, <2>9, <2>10, <2>11, Zenon DEF IInv
  <1>. QED BY <1>1, <1>2, <1>3, <1>4, <1>5, <1>6, <1>7, <1>8 DEF Next

(* A transaction has no columns.                                           *)
LEMMA TransactionFacts ==
  ASSUME written \in Changes, Transaction
  PROVE  written.table = <<"t">> /\ written.columns = <<>> /\ written.old = <<>>
  <1>. SUFFICES ASSUME NEW w \in Changes, w.op \in {"BEGIN", "COMMIT"}
       PROVE  w.table = <<"t">> /\ w.columns = <<>> /\ w.old = <<>>
    BY Zenon DEF Transaction
  <1>1. w.op # "insert" /\ w.op # "update" /\ w.op # "delete"
    OBVIOUS
  <1>2. w \notin {Change("insert", t, r, <<>>) : t \in Tables, r \in {u \in Rows : Stored(u)}}
    BY <1>1 DEF Change
  <1>3. w \notin {Change("delete", t, <<>>, r) : t \in Tables, r \in {u \in Rows : Stored(u)}}
    BY <1>1 DEF Change
  <1>4. w \notin UNION {{Change("update", <<"t">>, q, o) : q \in UpdatedTo(r), o \in {r, <<>>}}
                          : r \in {u \in Rows : Stored(u)}}
    BY <1>1 DEF Change
  <1>5. w \in {Change(op, <<"t">>, <<>>, <<>>) : op \in {"BEGIN", "COMMIT", "truncate", "delete"}}
    BY <1>2, <1>3, <1>4 DEF Changes
  <1>. QED BY <1>5 DEF Change

(***************************************************************************)
(* The properties.                                                         *)
(***************************************************************************)

(* One list behind another.                                                *)
Behind(s, a, l, b, n) ==
  /\ Len(s) = l + n /\ DOMAIN s = 1..(l + n)
  /\ \A k \in 1..(l + n) : /\ k <= l => k \in 1..l /\ s[k] = a[k]
                           /\ ~(k <= l) => k - l \in 1..n /\ s[k] = b[k - l]

(* The elements of two lists, one behind the other.                        *)
LEMMA BothLists ==
  ASSUME NEW S, NEW a \in Seq(S), NEW b \in Seq(S)
  PROVE  Behind(a \o b, a, Len(a), b, Len(b))
  <1>1. PICK s, l, n : s = a \o b /\ l = Len(a) /\ n = Len(b)
    OBVIOUS
  <1>2. l \in Nat /\ n \in Nat
    BY <1>1, LenProperties
  <1>3. /\ DOMAIN s = 1..(Len(a) + Len(b)) /\ Len(s) = Len(a) + Len(b)
        /\ \A i \in 1..(Len(a) + Len(b)) : s[i] = IF i <= Len(a) THEN a[i] ELSE b[i - Len(a)]
    BY <1>1, LenProperties
  <1>4. \A k \in 1..(l + n) : /\ k <= l => k \in 1..l /\ s[k] = a[k]
                              /\ ~(k <= l) => k - l \in 1..n /\ s[k] = b[k - l]
    BY <1>1, <1>2, <1>3
  <1>. QED BY <1>1, <1>3, <1>4, Zenon DEF Behind

(* Two lists that were read whole, one after the other.                    *)
LEMMA CompleteBoth ==
  ASSUME NEW a, NEW as, NEW b, NEW bs, Complete(a, as), Complete(b, bs)
  PROVE  /\ Len(a \o b) = Len(as \o bs) /\ DOMAIN (a \o b) = 1..Len(as \o bs)
         /\ \A k \in 1..Len(as \o bs) : ColumnRead((a \o b)[k], (as \o bs)[k])
  <1>1. /\ a \in Seq(Parsed) /\ b \in Seq(Parsed) /\ as \in Seq(Column) /\ bs \in Seq(Column)
        /\ Len(a) = Len(as) /\ Len(b) = Len(bs)
    BY Zenon DEF Complete
  <1>2. /\ \A k \in 1..Len(as) : ColumnRead(a[k], as[k])
        /\ \A k \in 1..Len(bs) : ColumnRead(b[k], bs[k])
    BY Zenon DEF Complete
  <1>3. PICK l, n, x, y : l = Len(as) /\ n = Len(bs) /\ x = a \o b /\ y = as \o bs
    OBVIOUS
  <1>4. Behind(x, a, l, b, n) /\ Behind(y, as, l, bs, n)
    <2>1. Behind(a \o b, a, Len(a), b, Len(b))
      BY <1>1, BothLists, Zenon
    <2>2. Behind(as \o bs, as, Len(as), bs, Len(bs))
      BY <1>1, BothLists, Zenon
    <2>. QED BY <1>1, <1>3, <2>1, <2>2, Zenon
  <1>5. ASSUME NEW k \in 1..(l + n) PROVE ColumnRead(x[k], y[k])
    <2>1. CASE k <= l
      <3>1. k \in 1..l /\ x[k] = a[k]
        BY <1>4, <2>1 DEF Behind
      <3>2. y[k] = as[k]
        BY <1>4, <2>1 DEF Behind
      <3>. QED BY <1>2, <1>3, <3>1, <3>2, Zenon
    <2>2. CASE ~(k <= l)
      <3>1. k - l \in 1..n /\ x[k] = b[k - l] /\ y[k] = bs[k - l]
        BY <1>4, <2>2, Zenon DEF Behind
      <3>. QED BY <1>2, <1>3, <3>1, Zenon
    <2>. QED BY <2>1, <2>2, Zenon
  <1>6. Len(x) = Len(y) /\ DOMAIN x = 1..Len(y) /\ \A k \in 1..Len(y) : ColumnRead(x[k], y[k])
    BY <1>4, <1>5, Zenon DEF Behind
  <1>. QED BY <1>3, <1>6, Zenon

(* The SQL of one column.                                                  *)
LEMMA ColumnSql ==
  ASSUME NEW r, NEW c, ColumnRead(r, c)
  PROVE  IdentNames(QuoteIdent(r.name), c.name) /\ LiteralDenotes(SqlValue(r.value), c.datum)
           <=> Plain(c.name) /\ ~MisreadDatum(c.datum)
  BY Zenon DEF ColumnRead, NameRead, DatumRead

(* The invariant implies both properties.                                  *)
LEMMA RefusedHolds == IInv => RefusedForItsText
  <1>. SUFFICES ASSUME IInv PROVE RefusedForItsText
    OBVIOUS
  <1>1. phase = "refused" => Unreadable
    BY Zenon DEF IInv
  <1>2. ASSUME phase = "read" PROVE ~Unreadable
    <2>1. ReadInv /\ written \in Changes
      BY <1>2, Zenon DEF IInv
    <2>2. CASE Transaction
      <3>1. written.op \in {"BEGIN", "COMMIT"}
        BY <2>2, Zenon DEF Transaction
      <3>2. written.table = <<"t">> /\ written.columns = <<>> /\ written.old = <<>>
        BY <2>1, <2>2, TransactionFacts
      <3>3. ~NoRow /\ ~Keyed /\ written.op # "delete"
        BY <3>1 DEF NoRow, Keyed
      <3>4. "\n" \notin ToSet(written.table)
        BY <3>2 DEF ToSet
      <3>5. Key = <<>> /\ Row = <<>>
        BY <3>2, <3>3, Zenon DEF Key, Row
      <3>6. \A k \in 1..Len(<<>>) : FALSE
        OBVIOUS
      <3>7. ~Broke(Key) /\ ~Broke(Row)
        BY <3>5, <3>6, Zenon DEF Broke
      <3>. QED BY <2>1, <3>3, <3>4, <3>5, <3>6, <3>7, NoCause, Zenon
    <2>3. CASE ~Transaction
      <3>1. TableKept /\ ~NoRow /\ KeyRead /\ Row # <<>> /\ Complete(columns, Row)
        BY <2>1, <2>3, Zenon DEF ReadInv
      <3>2. InFile => "\n" \notin ToSet(written.table)
        BY <3>1, Zenon DEF TableKept
      <3>3. /\ InFile => ~Broke(Key) /\ ~Broke(Row)
            /\ \A j \in 1..Len(Key) : ~Bracketing(Key[j])
            /\ \A j \in 1..Len(Row) : ~Bracketing(Row[j])
        BY <3>1, Zenon DEF KeyRead, Complete
      <3>4. Keyed => Old # <<>> /\ ~MarkedIn(Old)
        BY <3>1, Zenon DEF KeyRead, KeyWhole
      <3>5. written.op = "delete" => Old # <<>>
        BY <3>1, Zenon DEF Row
      <3>. QED BY <2>1, <3>1, <3>2, <3>3, <3>4, <3>5, NoCause, Zenon
    <2>. QED BY <2>2, <2>3
  <1>. QED BY <1>1, <1>2, Zenon DEF RefusedForItsText

(* What is read is named by the SQL, column by column.                     *)
LEMMA SqlHolds == IInv => SqlDenotesChange
  <1>. SUFFICES ASSUME IInv, phase = "read", written.op \in {"insert", "update", "delete"}
       PROVE  (/\ IdentNames(QuoteIdent(table), written.table)
               /\ QuoteIdent(schema) = <<"public">>
               /\ SqlNames(oldKey \o columns, Shown)) <=> ~Misread
    BY Zenon DEF SqlDenotesChange
  <1>1. ReadInv /\ written \in Changes
    BY Zenon DEF IInv
  <1>2. ~Transaction
    BY DEF Transaction
  <1>3. TableRead(schema, table, written.table) /\ Complete(oldKey, Key) /\ Complete(columns, Row)
    BY <1>1, <1>2, Zenon DEF ReadInv, TableKept, KeyRead
  <1>4. Shown = Key \o Row
    BY <1>1, WrittenFacts, Zenon
  <1>5. PICK rs, cs : rs = oldKey \o columns /\ cs = Shown
    OBVIOUS
  <1>6. /\ Len(rs) = Len(cs) /\ DOMAIN rs = 1..Len(cs)
        /\ \A k \in 1..Len(cs) : ColumnRead(rs[k], cs[k])
    <2>1. PICK a, as, b, bs : a = oldKey /\ as = Key /\ b = columns /\ bs = Row
      OBVIOUS
    <2>2. Complete(a, as) /\ Complete(b, bs)
      BY <1>3, <2>1, Zenon
    <2>3. /\ Len(a \o b) = Len(as \o bs) /\ DOMAIN (a \o b) = 1..Len(as \o bs)
          /\ \A k \in 1..Len(as \o bs) : ColumnRead((a \o b)[k], (as \o bs)[k])
      BY <2>2, CompleteBoth
    <2>4. rs = a \o b /\ cs = as \o bs
      BY <1>4, <1>5, <2>1, Zenon
    <2>. QED BY <2>3, <2>4, Zenon
  <1>7. SqlNames(rs, cs) <=> \A k \in 1..Len(cs) : Plain(cs[k].name) /\ ~MisreadDatum(cs[k].datum)
    <2>1. \A k \in 1..Len(cs) :
            IdentNames(QuoteIdent(rs[k].name), cs[k].name) /\ LiteralDenotes(SqlValue(rs[k].value), cs[k].datum)
              <=> Plain(cs[k].name) /\ ~MisreadDatum(cs[k].datum)
      BY <1>6, ColumnSql, Zenon
    <2>. QED BY <1>6, <2>1, Zenon DEF SqlNames
  <1>8. cs \in Seq(Column)
    <2>1. Key \in Seq(Column) /\ Row \in Seq(Column)
      BY <1>3, Zenon DEF Complete
    <2>. QED BY <1>4, <1>5, <2>1
  <1>9. (\E c \in ToSet(cs) : ~Plain(c.name) \/ MisreadDatum(c.datum))
          <=> \E k \in 1..Len(cs) : ~Plain(cs[k].name) \/ MisreadDatum(cs[k].datum)
    <2>1. DOMAIN cs = 1..Len(cs)
      BY <1>8, LenProperties
    <2>. QED BY <2>1, Zenon DEF ToSet
  <1>. QED BY <1>3, <1>5, <1>7, <1>9, Zenon DEF TableRead, Misread

(* The inductive invariant: where the parser stands in the text is where   *)
(* the printed columns put it, and what it has collected are the columns   *)
(* before that place (parser.go, parseColumns).                            *)
THEOREM Invariance == Spec => []IInv
  <1>. QED BY InitHolds, NextHolds, PTL DEF Spec

(* parseChange refuses a printed line for one of the causes of Unreadable  *)
(* and for no other, for rows of any number of columns and any names and   *)
(* values the assumptions admit.                                           *)
THEOREM RefusedForItsTextHolds == Spec => []RefusedForItsText
  <1>. QED BY Invariance, RefusedHolds, PTL

(* The SQL of a reversed change names, column by column, what PostgreSQL   *)
(* printed, unless the line is misread for a cause of Misread: quotes,     *)
(* blanks, brackets, colons and markers in a value do not change that.     *)
THEOREM SqlDenotesChangeHolds == Spec => []SqlDenotesChange
  <1>. QED BY Invariance, SqlHolds, PTL

==================================================================================
