------------------------- MODULE FileTransferProofs ------------------------
(***************************************************************************)
(* What TLAPS proves of Checksum and FileTransfer: a TCP segment with its  *)
(* own checksum verifies, whatever its bytes; the client forgets nothing   *)
(* that the server does not hold; and the server's file is the beginning   *)
(* of the client's, answered once, with its last byte.  All of it for any  *)
(* files, any sizes of headers, packets and reads.  And as long as no      *)
(* input is refused the server reads each message at once, for what the    *)
(* client sent and the server lacks is on its way in whole segments.       *)
(***************************************************************************)
EXTENDS FileTransfer, NumberFacts, FiniteSetTheorems, SequenceTheorems

(* A function on 0..n that is defined from one number to the next exists.  *)
Steps(g, S, base, step, n) ==
  /\ g \in [0..n -> S]
  /\ g[0] = base
  /\ \A i \in 1..n : g[i] = step[<<i, g[i - 1]>>]

LEMMA StepsExist ==
  ASSUME NEW S, NEW base \in S, NEW n \in Nat, NEW step \in [(1..n) \X S -> S]
  PROVE  \E g : Steps(g, S, base, step, n)
<1>. DEFINE T == {k \in 0..n : ~ \E g : Steps(g, S, base, step, k)}
<1>. SUFFICES ASSUME n \in T PROVE FALSE
  OBVIOUS
<1>1. PICK k \in T : \A j \in T : k <= j
  <2>1. T \subseteq Nat /\ T # {}
    OBVIOUS
  <2>. HIDE DEF T
  <2>. QED
    BY <2>1, LeastExists
<1>2. CASE k = 0
  <2>. DEFINE g == [i \in 0..0 |-> base]
  <2>1. Steps(g, S, base, step, 0)
    BY DEF Steps
  <2>. QED
    BY <1>2, <2>1
<1>3. CASE k # 0
  <2>1. k \in 1..n /\ k - 1 \in 0..n /\ k - 1 \notin T
    BY <1>1, <1>3
  <2>2. PICK h : Steps(h, S, base, step, k - 1)
    BY <2>1
  <2>. HIDE DEF T
  <2>3. h \in [0..k - 1 -> S] /\ h[0] = base
        /\ \A i \in 1..k - 1 : h[i] = step[<<i, h[i - 1]>>]
    BY <2>2 DEF Steps
  <2>. DEFINE g == [i \in 0..k |-> IF i = k THEN step[<<k, h[k - 1]>>] ELSE h[i]]
  <2>4. step[<<k, h[k - 1]>>] \in S
    BY <2>1, <2>3
  <2>5. g \in [0..k -> S] /\ g[0] = base
    BY <2>1, <2>3, <2>4
  <2>6. ASSUME NEW i \in 1..k PROVE g[i] = step[<<i, g[i - 1]>>]
    <3>1. i - 1 \in 0..k - 1 /\ g[i - 1] = h[i - 1]
      BY <2>1
    <3>2. CASE i = k
      BY <3>1, <3>2
    <3>3. CASE i # k
      BY <2>3, <3>1, <3>3
    <3>. QED
      BY <3>2, <3>3
  <2>. HIDE DEF g
  <2>7. Steps(g, S, base, step, k)
    BY <2>5, <2>6 DEF Steps
  <2>. QED
    BY <2>7, <1>1 DEF T
<1>. QED
  BY <1>2, <1>3

(* FlattenSeq goes from sequence to sequence.                              *)
LEMMA Flattened ==
  ASSUME NEW S, NEW seqs \in Seq(Seq(S))
  PROVE  \E g \in [0..Len(seqs) -> Seq(S)] :
           /\ g[0] = <<>>
           /\ \A i \in 1..Len(seqs) : g[i] = g[i - 1] \o seqs[i]
           /\ FlattenSeq(seqs) = g[Len(seqs)]
<1>. DEFINE n == Len(seqs)
            step == [p \in (1..n) \X Seq(S) |-> p[2] \o seqs[p[1]]]
            Flat(f) == f = [i \in 1..n |-> IF i = 1 THEN seqs[i]
                                           ELSE f[i - 1] \o seqs[i]]
<1>1. n \in Nat /\ \A i \in 1..n : seqs[i] \in Seq(S)
  OBVIOUS
<1>. HIDE DEF n
<1>2. step \in [(1..n) \X Seq(S) -> Seq(S)] /\ <<>> \in Seq(S)
  BY <1>1
<1>3. PICK g : Steps(g, Seq(S), <<>>, step, n)
  <2>. HIDE DEF step
  <2>. QED
    BY <1>1, <1>2, StepsExist
<1>4. /\ g \in [0..n -> Seq(S)] /\ g[0] = <<>>
      /\ \A i \in 1..n : g[i] = g[i - 1] \o seqs[i]
  <2>1. /\ g \in [0..n -> Seq(S)] /\ g[0] = <<>>
        /\ \A i \in 1..n : g[i] = step[<<i, g[i - 1]>>]
    <3>. HIDE DEF step
    <3>. QED
      BY <1>3 DEF Steps
  <2>2. ASSUME NEW i \in 1..n PROVE step[<<i, g[i - 1]>>] = g[i - 1] \o seqs[i]
    <3>1. <<i, g[i - 1]>> \in (1..n) \X Seq(S)
      BY <1>1, <2>1
    <3>. QED
      BY <3>1
  <2>. QED
    BY <2>1, <2>2
<1>7. n # 0 => g[1] = seqs[1]
  <2>. SUFFICES ASSUME n # 0 PROVE g[1] = seqs[1]
    OBVIOUS
  <2>. DEFINE one == 1
  <2>1. one \in 1..n /\ one - 1 = 0
    BY <1>1
  <2>. HIDE DEF one
  <2>2. g[one] = g[one - 1] \o seqs[one]
    BY <1>4, <2>1
  <2>3. g[one] = <<>> \o seqs[one]
    BY <1>4, <2>1, <2>2
  <2>4. seqs[one] \in Seq(S)
    BY <1>1, <2>1
  <2>5. <<>> \o seqs[one] = seqs[one]
    BY <2>4
  <2>. QED
    BY <2>3, <2>5 DEF one
<1>5. CASE n = 0
  <2>1. FlattenSeq(seqs) = <<>>
    BY <1>5 DEF FlattenSeq, n
  <2>. QED
    BY <1>4, <1>5, <2>1 DEF n
<1>6. CASE n # 0
  <2>. DEFINE h == [i \in 1..n |-> g[i]]
  <2>1. Flat(h)
    <3>1. \A i \in 1..n : g[i] = IF i = 1 THEN seqs[i] ELSE h[i - 1] \o seqs[i]
      <4>1. ASSUME NEW i \in 1..n PROVE g[i] = IF i = 1 THEN seqs[i] ELSE h[i - 1] \o seqs[i]
        <5>1. CASE i = 1
          BY <1>6, <1>7, <5>1
        <5>2. CASE i # 1
          <6>1. i - 1 \in 1..n
            BY <1>1, <5>2
          <6>2. h[i - 1] = g[i - 1]
            BY <6>1
          <6>. HIDE DEF h
          <6>. QED
            BY <1>4, <5>2, <6>2
        <5>. QED
          BY <5>1, <5>2
      <4>. QED
        BY <4>1
    <3>. QED
      BY <3>1
  <2>. DEFINE f == CHOOSE f : Flat(f)
  <2>2. Flat(f)
    <3>. HIDE DEF h, Flat
    <3>. QED
      BY <2>1
  <2>3. FlattenSeq(seqs) = f[n]
    BY <1>6 DEF FlattenSeq, n
  <2>. HIDE DEF f, h
  <2>4. f[n] = g[n]
    <3>. DEFINE T == {k \in 1..n : f[k] # g[k]}
    <3>. SUFFICES ASSUME n \in T PROVE FALSE
      BY <1>1, <1>6
    <3>1. PICK k \in T : \A j \in T : k <= j
      <4>1. T \subseteq Nat /\ T # {}
        OBVIOUS
      <4>. HIDE DEF T
      <4>. QED
        BY <4>1, LeastExists
    <3>2. k \in 1..n /\ f[k] = IF k = 1 THEN seqs[k] ELSE f[k - 1] \o seqs[k]
      BY <2>2
    <3>3. CASE k = 1
      BY <1>6, <1>7, <3>1, <3>2, <3>3
    <3>4. CASE k # 1
      <4>1. k - 1 \in 1..n /\ k - 1 \notin T
        BY <1>1, <3>1, <3>4
      <4>2. f[k - 1] = g[k - 1]
        BY <4>1
      <4>. QED
        BY <1>4, <3>1, <3>2, <3>4, <4>2
    <3>. QED
      BY <3>3, <3>4
  <2>. QED
    BY <1>4, <2>3, <2>4 DEF n
<1>. QED
  BY <1>5, <1>6

-----------------------------------------------------------------------------
(* The sums of the TCP checksum.                                           *)

(* The provers list the members of an interval of numerals one by one.     *)
LEMMA IntervalIs ==
  ASSUME NEW m \in Nat PROVE \A x : x \in 0..m <=> x \in Nat /\ x <= m
OBVIOUS

(* The least residue after 0, 1 to 65535, is what folding leaves.          *)
LEMMA WordIs == \A x : x \in Word <=> x \in Nat /\ x <= 65535
<1>. DEFINE m == 65535
<1>1. Word = 0..m /\ m \in Nat
  BY DEF Word
<1>. HIDE DEF m
<1>2. \A x : x \in Word <=> x \in Nat /\ x <= m
  BY <1>1, IntervalIs
<1>. QED
  BY <1>2 DEF m

(* Ones' complement: 65535 and 0 are one number, and only 0 folds to 0.    *)
Residue(x) == IF x = 0 THEN 0 ELSE ((x - 1) % 65535) + 1

LEMMA ResidueOf ==
  ASSUME NEW x \in Nat PROVE Residue(x) \in Nat /\ Residue(x) <= 65535
<1>1. CASE x = 0
  BY <1>1 DEF Residue
<1>2. CASE x # 0
  <2>1. (x - 1) % 65535 \in Nat /\ (x - 1) % 65535 <= 65534
    BY <1>2
  <2>. QED
    BY <1>2, <2>1 DEF Residue
<1>. QED
  BY <1>1, <1>2

LEMMA ResidueQuotient ==
  ASSUME NEW x \in Nat, x > 0
  PROVE  \E q \in Nat : x = 65535 * q + Residue(x) /\ Residue(x) >= 1
<1>. DEFINE q == (x - 1) \div 65535
            r == (x - 1) % 65535
<1>1. q \in Nat /\ r \in Nat /\ x - 1 = 65535 * q + r
  OBVIOUS
<1>2. Residue(x) = r + 1
  BY DEF Residue
<1>. HIDE DEF q, r
<1>3. x = 65535 * q + Residue(x) /\ Residue(x) >= 1
  BY <1>1, <1>2
<1>. QED
  BY <1>1, <1>3

LEMMA ResidueIs ==
  ASSUME NEW q \in Nat, NEW r \in Nat, 1 <= r, r <= 65535
  PROVE  Residue(65535 * q + r) = r
<1>1. 65535 * q + r - 1 = 65535 * q + (r - 1) /\ 65535 * q + r # 0
  OBVIOUS
<1>2. (65535 * q + r - 1) % 65535 = r - 1
  OBVIOUS
<1>. QED
  BY <1>1, <1>2 DEF Residue

(* One fold keeps the residue.                                             *)
LEMMA FoldOnce ==
  ASSUME NEW x \in Nat, x >= 65536
  PROVE  LET y == (x % 65536) + (x \div 65536) IN
         y \in Nat /\ y < x /\ Residue(y) = Residue(x)
<1>. DEFINE h == x \div 65536
            l == x % 65536
            y == l + h
            r == Residue(y)
<1>1. h \in Nat /\ l \in Nat /\ l <= 65535 /\ x = 65536 * h + l /\ h >= 1
  OBVIOUS
<1>. HIDE DEF h, l
<1>2. y \in Nat /\ y < x /\ y > 0 /\ x = 65535 * h + y
  BY <1>1
<1>. HIDE DEF y
<1>3. PICK q \in Nat : y = 65535 * q + r /\ r >= 1
  BY <1>2, ResidueQuotient
<1>4. r \in Nat /\ r <= 65535
  BY <1>2, ResidueOf
<1>. HIDE DEF r
<1>. DEFINE p == q + h
<1>5. x = 65535 * p + r /\ p \in Nat
  BY <1>1, <1>2, <1>3, <1>4
<1>. HIDE DEF p
<1>6. Residue(x) = r
  BY <1>3, <1>4, <1>5, ResidueIs
<1>. QED
  BY <1>2, <1>6 DEF r, y, l, h

LEMMA ResidueSmall ==
  ASSUME NEW x \in Nat, x < 65536 PROVE Residue(x) = x
<1>1. CASE x = 0
  BY <1>1 DEF Residue
<1>2. CASE x # 0
  <2>1. 1 <= x /\ x <= 65535 /\ 0 \in Nat
    BY <1>2
  <2>2. Residue(65535 * 0 + x) = x
    BY <2>1, ResidueIs
  <2>. QED
    BY <2>1, <2>2
<1>. QED
  BY <1>1, <1>2

(* However often the loop of calculate_tcp_checksum goes round, what it    *)
(* leaves is the residue.                                                  *)
LEMMA FoldedIs == \A x \in Nat : Folded[x] = Residue(x)
<1>. DEFINE Fold(f) == f = [sum \in Nat |->
              IF sum < 65536 THEN sum ELSE f[(sum % 65536) + (sum \div 65536)]]
            r == [sum \in Nat |-> Residue(sum)]
<1>1. Fold(r)
  <2>1. ASSUME NEW x \in Nat
        PROVE  Residue(x) = IF x < 65536 THEN x
                            ELSE r[(x % 65536) + (x \div 65536)]
    <3>1. CASE x < 65536
      BY <3>1, ResidueSmall
    <3>2. CASE ~ (x < 65536)
      <4>. DEFINE y == (x % 65536) + (x \div 65536)
      <4>1. y \in Nat /\ Residue(y) = Residue(x)
        BY <3>2, FoldOnce
      <4>. HIDE DEF y
      <4>2. r[y] = Residue(x)
        BY <4>1
      <4>. QED
        BY <3>2, <4>2 DEF y
    <3>. QED
      BY <3>1, <3>2
  <2>. QED
    BY <2>1
<1>2. Fold(Folded)
  <2>. HIDE DEF r
  <2>. QED
    BY <1>1 DEF Folded
<1>. DEFINE T == {x \in Nat : Folded[x] # Residue(x)}
<1>. SUFFICES ASSUME T # {} PROVE FALSE
  OBVIOUS
<1>3. PICK x \in T : \A y \in T : x <= y
  <2>1. T \subseteq Nat
    OBVIOUS
  <2>. HIDE DEF T
  <2>. QED
    BY <2>1, LeastExists
<1>. DEFINE y == (x % 65536) + (x \div 65536)
<1>4. x \in Nat /\ Folded[x] = IF x < 65536 THEN x ELSE Folded[y]
  BY <1>2
<1>5. CASE x < 65536
  BY <1>3, <1>4, <1>5, ResidueSmall
<1>6. CASE ~ (x < 65536)
  <2>1. y \in Nat /\ y < x /\ Residue(y) = Residue(x)
    BY <1>4, <1>6, FoldOnce
  <2>. HIDE DEF y
  <2>2. y \notin T
    BY <1>3, <1>4, <2>1
  <2>3. Folded[y] = Residue(y)
    BY <2>1, <2>2
  <2>. QED
    BY <1>3, <1>4, <1>6, <2>1, <2>3
<1>. QED
  BY <1>5, <1>6

(* The sum of words is a natural number, and one word more in one place    *)
(* is as much more in the sum.                                             *)
LEMMA SumSteps ==
  ASSUME NEW words \in Seq(Nat)
  PROVE  \E g \in [0..Len(words) -> Nat] :
           /\ g[0] = 0
           /\ \A i \in 1..Len(words) : g[i] = g[i - 1] + words[i]
           /\ WordSum(words) = g[Len(words)]
<1>. DEFINE n == Len(words)
            step == [p \in (1..n) \X Nat |-> p[2] + words[p[1]]]
            Sums(f) == f = [i \in 0..n |-> IF i = 0 THEN 0
                                           ELSE f[i - 1] + words[i]]
<1>1. n \in Nat /\ \A i \in 1..n : words[i] \in Nat
  OBVIOUS
<1>. HIDE DEF n
<1>2. step \in [(1..n) \X Nat -> Nat] /\ 0 \in Nat
  BY <1>1
<1>3. PICK g : Steps(g, Nat, 0, step, n)
  <2>. HIDE DEF step
  <2>. QED
    BY <1>1, <1>2, StepsExist
<1>4. g \in [0..n -> Nat] /\ g[0] = 0 /\ \A i \in 1..n : g[i] = g[i - 1] + words[i]
  <2>1. /\ g \in [0..n -> Nat] /\ g[0] = 0
        /\ \A i \in 1..n : g[i] = step[<<i, g[i - 1]>>]
    <3>. HIDE DEF step
    <3>. QED
      BY <1>3 DEF Steps
  <2>2. ASSUME NEW i \in 1..n PROVE step[<<i, g[i - 1]>>] = g[i - 1] + words[i]
    <3>1. <<i, g[i - 1]>> \in (1..n) \X Nat
      BY <1>1, <2>1
    <3>. QED
      BY <3>1
  <2>. QED
    BY <2>1, <2>2
<1>5. Sums(g)
  <2>1. \A i \in 0..n : g[i] = IF i = 0 THEN 0 ELSE g[i - 1] + words[i]
    BY <1>1, <1>4
  <2>. QED
    BY <1>4, <2>1
<1>. DEFINE f == CHOOSE f : Sums(f)
<1>6. Sums(f)
  <2>. HIDE DEF Sums
  <2>. QED
    BY <1>5
<1>7. WordSum(words) = f[n]
  BY DEF WordSum, n
<1>. HIDE DEF f
<1>8. f[n] = g[n]
  <2>. DEFINE T == {k \in 0..n : f[k] # g[k]}
  <2>. SUFFICES ASSUME n \in T PROVE FALSE
    BY <1>1
  <2>1. PICK k \in T : \A j \in T : k <= j
    <3>1. T \subseteq Nat /\ T # {}
      OBVIOUS
    <3>. HIDE DEF T
    <3>. QED
      BY <3>1, LeastExists
  <2>2. k \in 0..n /\ f[k] = IF k = 0 THEN 0 ELSE f[k - 1] + words[k]
    BY <1>6
  <2>3. CASE k = 0
    BY <1>4, <2>1, <2>2, <2>3
  <2>4. CASE k # 0
    <3>. DEFINE j == k - 1
    <3>1. j \in 0..n /\ j \notin T
      <4>1. k \in 0..n /\ n \in Nat /\ \A i \in T : k <= i
        BY <1>1, <2>1, <2>2
      <4>. HIDE DEF T
      <4>2. j \in 0..n /\ ~(k <= j)
        BY <2>4, <4>1
      <4>. HIDE DEF j
      <4>. QED
        BY <4>1, <4>2
    <3>2. f[k - 1] = g[k - 1]
      BY <3>1
    <3>3. f[k] # g[k]
      OBVIOUS
    <3>4. k \in 1..n
      BY <1>1, <2>2, <2>4
    <3>5. g[k] = g[k - 1] + words[k]
      BY <1>4, <3>4
    <3>. QED
      BY <2>2, <2>4, <3>2, <3>3, <3>5
  <2>. QED
    BY <2>3, <2>4
<1>. QED
  BY <1>4, <1>7, <1>8 DEF n

LEMMA SumIsNat ==
  ASSUME NEW words \in Seq(Nat) PROVE WordSum(words) \in Nat
BY SumSteps, Len(words) \in 0..Len(words)

(* A field that is raised by c raises the sum by c.                        *)
LEMMA SumRaised ==
  ASSUME NEW u \in Seq(Nat), NEW w \in Seq(Nat), NEW k, NEW c \in Nat,
         Len(u) = Len(w), k \in 1..Len(u), w[k] = u[k] + c,
         \A i \in 1..Len(u) : i # k => w[i] = u[i]
  PROVE  WordSum(w) = WordSum(u) + c
<1>. DEFINE n == Len(u)
<1>1. PICK g \in [0..n -> Nat] :
        /\ g[0] = 0 /\ \A i \in 1..n : g[i] = g[i - 1] + u[i]
        /\ WordSum(u) = g[n]
  BY SumSteps
<1>2. PICK h \in [0..n -> Nat] :
        /\ h[0] = 0 /\ \A i \in 1..n : h[i] = h[i - 1] + w[i]
        /\ WordSum(w) = h[n]
  BY SumSteps
<1>3. n \in Nat /\ \A i \in 1..n : u[i] \in Nat /\ w[i] \in Nat
  OBVIOUS
<1>4. k \in 1..n /\ \A i \in 1..n : i # k => w[i] = u[i]
  OBVIOUS
<1>. HIDE DEF n
<1>. DEFINE T == {j \in 0..n : h[j] # IF j < k THEN g[j] ELSE g[j] + c}
<1>5. n \notin T
  <2>. SUFFICES ASSUME n \in T PROVE FALSE
    OBVIOUS
  <2>1. PICK j \in T : \A i \in T : j <= i
    <3>1. T \subseteq Nat /\ T # {}
      OBVIOUS
    <3>. HIDE DEF T
    <3>. QED
      BY <3>1, LeastExists
  <2>2. CASE j = 0
    BY <1>1, <1>2, <1>4, <2>1, <2>2
  <2>3. CASE j # 0
    <3>1. j \in 1..n /\ j - 1 \in 0..n /\ j - 1 \notin T
      <4>1. j \in 0..n /\ n \in Nat
        BY <1>3, <2>1
      <4>2. j \in Int /\ j \in 1..n /\ j - 1 \in 0..n /\ ~(j <= j - 1)
        BY ONLY <2>3, <4>1
      <4>. HIDE DEF T
      <4>. QED
        BY <2>1, <4>2
    <3>2. h[j - 1] = IF j - 1 < k THEN g[j - 1] ELSE g[j - 1] + c
      BY <3>1
    <3>3. h[j] = h[j - 1] + w[j] /\ g[j] = g[j - 1] + u[j]
      BY <1>1, <1>2, <3>1
    <3>4. g[j - 1] \in Nat /\ u[j] \in Nat /\ h[j] # IF j < k THEN g[j] ELSE g[j] + c
      BY <1>3, <2>1, <3>1
    <3>. HIDE DEF T
    <3>5. CASE j < k
      BY <1>3, <1>4, <3>1, <3>2, <3>3, <3>4, <3>5
    <3>6. CASE j = k
      <4>1. w[j] = u[j] + c /\ h[j - 1] = g[j - 1]
        BY <1>4, <3>2, <3>6, <1>3
      <4>2. h[j] = g[j] + c
        BY <3>3, <3>4, <4>1
      <4>. QED
        BY <1>3, <1>4, <3>4, <3>6, <4>2
    <3>7. CASE j > k
      <4>1. w[j] = u[j] /\ h[j - 1] = g[j - 1] + c
        BY <1>3, <1>4, <3>1, <3>2, <3>7
      <4>2. h[j] = g[j] + c
        BY <3>3, <3>4, <4>1
      <4>. QED
        BY <1>3, <1>4, <3>1, <3>4, <3>7, <4>2
    <3>. QED
      BY <1>3, <1>4, <3>1, <3>5, <3>6, <3>7
  <2>. QED
    BY <2>2, <2>3
<1>6. n \in 0..n /\ ~ (n < k)
  BY <1>3, <1>4
<1>. QED
  BY <1>1, <1>2, <1>5, <1>6 DEF n

(* The words that data is summed as.                                       *)
LEMMA ByteSums ==
  ASSUME NEW data \in Seq(Nat)
  PROVE  Words(Padded(data)) \in Seq(Nat)
<1>. DEFINE p == Padded(data)
<1>1. p \in Seq(Nat)
  BY DEF Padded
<1>. HIDE DEF p
<1>. DEFINE n == Len(p) \div 2
<1>2. n \in Nat /\ 2 * n <= Len(p) /\ Len(p) \in Nat
  BY <1>1
<1>3. ASSUME NEW i \in 1..n PROVE 256 * p[2 * i - 1] + p[2 * i] \in Nat
  <2>1. 2 * i - 1 \in 1..Len(p) /\ 2 * i \in 1..Len(p)
    <3>. HIDE DEF n
    <3>. QED
      BY <1>2
  <2>2. p[2 * i - 1] \in Nat /\ p[2 * i] \in Nat
    BY <1>1, <2>1
  <2>. QED
    BY <2>2
<1>4. [i \in 1..n |-> 256 * p[2 * i - 1] + p[2 * i]] \in Seq(Nat)
  <2>. HIDE DEF n
  <2>. QED
    BY <1>2, <1>3
<1>5. Words(p) = [i \in 1..n |-> 256 * p[2 * i - 1] + p[2 * i]]
  BY DEF Words
<1>. QED
  BY <1>4, <1>5 DEF p

(* What \o does, in the form the proofs below use it.                      *)
LEMMA Joined ==
  ASSUME NEW S, NEW s \in Seq(S), NEW t \in Seq(S)
  PROVE  /\ s \o t \in Seq(S) /\ Len(s \o t) = Len(s) + Len(t)
         /\ \A i \in 1..Len(s) : (s \o t)[i] = s[i]
         /\ \A i \in Len(s) + 1..Len(s) + Len(t) : (s \o t)[i] = t[i - Len(s)]
OBVIOUS

(* The checksum is one field of the header.                                *)
LEMMA HeaderFields ==
  ASSUME NEW check \in Nat
  PROVE  /\ Header(Ports, Numbers, check) \in Seq(Nat)
         /\ Len(Header(Ports, Numbers, check)) = Len(Ports) + Len(Numbers) + 4
         /\ Header(Ports, Numbers, check)[Len(Ports) + Len(Numbers) + 3] = check
         /\ \A i \in 1..Len(Ports) + Len(Numbers) + 4 :
              i # Len(Ports) + Len(Numbers) + 3 =>
                Header(Ports, Numbers, check)[i] = Header(Ports, Numbers, 0)[i]
<1>. DEFINE front == Ports \o Numbers
            m == Len(Ports) + Len(Numbers)
            last(c) == <<20504, 8192, c, 0>>
<1>1. Ports \in Seq(Nat) /\ Numbers \in Seq(Nat)
  <2>1. \A x : x \in Word => x \in Nat
    BY WordIs
  <2>2. Ports \in Seq(Word) /\ Numbers \in Seq(Word)
    BY HeaderAssumption
  <2>. HIDE DEF Word
  <2>. QED
    BY <2>1, <2>2
<1>2. front \in Seq(Nat) /\ Len(front) = m /\ m \in Nat
  BY <1>1
<1>3. \A c \in Nat : Header(Ports, Numbers, c) = front \o last(c)
  BY DEF Header
<1>4. \A c \in Nat : last(c) \in Seq(Nat) /\ Len(last(c)) = 4 /\ last(c)[3] = c
  OBVIOUS
<1>10. \A c : last(c)[1] = 20504 /\ last(c)[2] = 8192 /\ last(c)[4] = 0
  OBVIOUS
<1>. HIDE DEF front, last, m
<1>5. \A c \in Nat : /\ front \o last(c) \in Seq(Nat) /\ Len(front \o last(c)) = m + 4
                     /\ \A i \in 1..m : (front \o last(c))[i] = front[i]
                     /\ \A i \in m + 1..m + 4 : (front \o last(c))[i] = last(c)[i - m]
  <2>1. ASSUME NEW c \in Nat
        PROVE  /\ front \o last(c) \in Seq(Nat) /\ Len(front \o last(c)) = m + 4
               /\ \A i \in 1..m : (front \o last(c))[i] = front[i]
               /\ \A i \in m + 1..m + 4 : (front \o last(c))[i] = last(c)[i - m]
    <3>. DEFINE t == last(c)
    <3>1. t \in Seq(Nat) /\ Len(t) = 4
      BY <1>4
    <3>. HIDE DEF t
    <3>2. /\ front \o t \in Seq(Nat) /\ Len(front \o t) = Len(front) + Len(t)
          /\ \A i \in 1..Len(front) : (front \o t)[i] = front[i]
          /\ \A i \in Len(front) + 1..Len(front) + Len(t) :
               (front \o t)[i] = t[i - Len(front)]
      BY <1>2, <3>1, Joined
    <3>3. /\ front \o t \in Seq(Nat) /\ Len(front \o t) = m + 4
          /\ \A i \in 1..m : (front \o t)[i] = front[i]
          /\ \A i \in m + 1..m + 4 : (front \o t)[i] = t[i - m]
      BY <1>2, <3>1, <3>2
    <3>. QED
      BY <3>3 DEF t
  <2>. QED
    BY <2>1
<1>6. ASSUME NEW i \in 1..m + 4, i # m + 3
      PROVE  (front \o last(check))[i] = (front \o last(0))[i]
  <2>1. CASE i <= m
    BY <1>2, <1>5, <2>1
  <2>2. CASE i > m
    <3>1. i - m \in {1, 2, 4} /\ i \in m + 1..m + 4
      BY <1>2, <1>6, <2>2
    <3>2. /\ last(check)[1] = last(0)[1] /\ last(check)[2] = last(0)[2]
          /\ last(check)[4] = last(0)[4]
      BY <1>10
    <3>3. last(check)[i - m] = last(0)[i - m]
      BY <3>1, <3>2
    <3>. QED
      BY <1>5, <3>1, <3>2, <3>3
  <2>3. i <= m \/ i > m
    BY <1>2
  <2>. QED
    BY <2>1, <2>2, <2>3
<1>7. (front \o last(check))[m + 3] = check
  <2>. DEFINE j == m + 3
  <2>1. j \in m + 1..m + 4 /\ j - m = 3
    BY <1>2
  <2>. HIDE DEF j
  <2>2. (front \o last(check))[j] = last(check)[3]
    BY <1>5, <2>1
  <2>. QED
    BY <1>4, <2>2 DEF j
<1>8. m = Len(Ports) + Len(Numbers)
  BY DEF m
<1>. QED
  BY <1>3, <1>5, <1>6, <1>7, <1>8

(* The header, its check and what it is summed with.                       *)
LEMMA HeaderSum ==
  ASSUME NEW check \in Nat
  PROVE  /\ WordSum(Header(Ports, Numbers, 0)) \in Nat
         /\ WordSum(Header(Ports, Numbers, check)) =
              WordSum(Header(Ports, Numbers, 0)) + check
<1>. DEFINE u == Header(Ports, Numbers, 0)
            w == Header(Ports, Numbers, check)
            k == Len(Ports) + Len(Numbers) + 3
<1>1. /\ u \in Seq(Nat) /\ w \in Seq(Nat) /\ Len(u) = k + 1 /\ Len(w) = k + 1
      /\ u[k] = 0 /\ w[k] = check
      /\ \A i \in 1..k + 1 : i # k => w[i] = u[i]
  <2>1. Ports \in Seq(Word) /\ Numbers \in Seq(Word)
    BY HeaderAssumption
  <2>2. Len(Ports) \in Nat /\ Len(Numbers) \in Nat
    BY <2>1
  <2>3. k \in Nat /\ Len(Ports) + Len(Numbers) + 4 = k + 1
    BY <2>2
  <2>. QED
    BY <2>3, HeaderFields
<1>2. k \in Nat /\ k >= 1
  BY HeaderAssumption
<1>. HIDE DEF u, w, k
<1>3. k \in 1..Len(u) /\ w[k] = u[k] + check
  BY <1>1, <1>2
<1>4. WordSum(w) = WordSum(u) + check
  <2>1. Len(u) = Len(w) /\ \A i \in 1..Len(u) : i # k => w[i] = u[i]
    BY <1>1
  <2>. QED
    <3>1. u \in Seq(Nat) /\ w \in Seq(Nat) /\ check \in Nat
      BY <1>1
    <3>. QED
      BY ONLY <1>3, <2>1, <3>1, SumRaised
<1>5. WordSum(u) \in Nat
  BY <1>1, SumIsNat
<1>. QED
  BY <1>4, <1>5 DEF u, w

(* The pseudo-header names the protocol, so no sum is 0.                   *)
LEMMA PseudoSum ==
  ASSUME NEW length \in Nat
  PROVE  WordSum(Pseudo(Addresses, length)) \in Nat
         /\ WordSum(Pseudo(Addresses, length)) > 0
<1>1. Addresses \in Seq(Nat)
  <2>1. \A x : x \in Word => x \in Nat
    BY WordIs
  <2>2. Addresses \in Seq(Word)
    BY HeaderAssumption
  <2>. QED
    BY <2>1, <2>2
<1>. DEFINE p == Pseudo(Addresses, length)
            m == Len(Addresses)
<1>2. p \in Seq(Nat) /\ Len(p) = m + 2 /\ p[m + 2] = 20 + length /\ m \in Nat
  BY <1>1 DEF Pseudo
<1>. HIDE DEF p, m
<1>3. PICK g \in [0..Len(p) -> Nat] :
        /\ \A i \in 1..Len(p) : g[i] = g[i - 1] + p[i]
        /\ WordSum(p) = g[Len(p)]
  BY <1>2, SumSteps
<1>4. /\ g[m + 2] = g[m + 2 - 1] + p[m + 2] /\ g[m + 2 - 1] \in Nat
      /\ WordSum(p) = g[m + 2]
  <2>1. m + 2 \in 1..Len(p) /\ m + 2 - 1 \in 0..Len(p)
    BY <1>2
  <2>. QED
    BY <1>2, <1>3, <2>1
<1>. QED
  BY <1>2, <1>4 DEF p

(* What a TCP segment's words sum to, its check left out.                  *)
Rest(data) ==
  WordSum(Pseudo(Addresses, Len(data))) + WordSum(Header(Ports, Numbers, 0))
    + WordSum(Words(Padded(data)))

(* All that the checksum is computed from.                                 *)
LEMMA RestSum ==
  ASSUME NEW data \in Seq(Nat) PROVE Rest(data) \in Nat /\ Rest(data) > 0
<1>1. Len(data) \in Nat /\ 0 \in Nat
  OBVIOUS
<1>2. /\ WordSum(Pseudo(Addresses, Len(data))) \in Nat
      /\ WordSum(Pseudo(Addresses, Len(data))) > 0
  BY <1>1, PseudoSum
<1>3. WordSum(Header(Ports, Numbers, 0)) \in Nat
  BY <1>1, HeaderSum
<1>4. WordSum(Words(Padded(data))) \in Nat
  BY ByteSums, SumIsNat
<1>. QED
  BY <1>2, <1>3, <1>4 DEF Rest

(* The checksum is what the rest lacks of 65535.                           *)
LEMMA CheckIsWord ==
  ASSUME NEW data \in Seq(Nat)
  PROVE  /\ TcpChecksum(Addresses, Header(Ports, Numbers, 0), data) \in Word
         /\ TcpChecksum(Addresses, Header(Ports, Numbers, 0), data)
              = 65535 - Residue(Rest(data))
<1>1. TcpChecksum(Addresses, Header(Ports, Numbers, 0), data)
        = 65535 - Residue(Rest(data))
  <2>1. Folded[Rest(data)] = Residue(Rest(data))
    BY RestSum, FoldedIs
  <2>. QED
    BY <2>1 DEF TcpChecksum, Rest
<1>2. Residue(Rest(data)) \in Nat /\ Residue(Rest(data)) <= 65535
  BY RestSum, ResidueOf
<1>3. 65535 - Residue(Rest(data)) \in Nat /\ 65535 - Residue(Rest(data)) <= 65535
  BY <1>2
<1>. QED
  BY <1>1, <1>3, WordIs

(* The check fills the sum up to one in which all bits are set.            *)
LEMMA CheckCompletes ==
  ASSUME NEW x \in Nat, x > 0
  PROVE  /\ 65535 - Residue(x) \in Nat
         /\ Folded[x + (65535 - Residue(x))] = 65535
<1>. DEFINE r == Residue(x)
            sum == x + (65535 - r)
<1>1. PICK q \in Nat : x = 65535 * q + r /\ r >= 1
  BY ResidueQuotient
<1>2. r \in Nat /\ r <= 65535
  BY ResidueOf
<1>. HIDE DEF r
<1>3. sum = 65535 * q + 65535 /\ sum \in Nat
  BY <1>1, <1>2
<1>. HIDE DEF sum
<1>4. Residue(65535 * q + 65535) = 65535
  <2>1. 65535 \in Nat /\ 1 <= 65535 /\ 65535 <= 65535
    OBVIOUS
  <2>. QED
    BY <2>1, ResidueIs
<1>5. Folded[sum] = 65535
  BY <1>3, <1>4, FoldedIs
<1>6. 65535 - r \in Nat
  BY <1>2
<1>. QED
  BY <1>5, <1>6 DEF sum, r

(* A receiver accepts the checksum the sender computed of the same data.   *)
THEOREM OwnChecksumVerifies ==
  ASSUME NEW data \in Seq(Nat)
  PROVE  Verifies(Addresses,
           Header(Ports, Numbers,
                  TcpChecksum(Addresses, Header(Ports, Numbers, 0), data)), data)
<1>. DEFINE x == Rest(data)
            check == TcpChecksum(Addresses, Header(Ports, Numbers, 0), data)
            pseudo == WordSum(Pseudo(Addresses, Len(data)))
            header == WordSum(Header(Ports, Numbers, 0))
            words == WordSum(Words(Padded(data)))
<1>. HIDE DEF check, pseudo, header, words
<1>1. x \in Nat /\ x > 0 /\ x = pseudo + header + words
  BY RestSum DEF Rest, pseudo, header, words
<1>2. check = 65535 - Residue(x)
  BY CheckIsWord DEF check
<1>3. Verifies(Addresses, Header(Ports, Numbers, check), data) <=>
        65535 = Folded[pseudo + WordSum(Header(Ports, Numbers, check)) + words]
  BY DEF Verifies, pseudo, words
<1>4. pseudo \in Nat /\ header \in Nat /\ words \in Nat
  <2>1. Len(data) \in Nat /\ 0 \in Nat
    OBVIOUS
  <2>. QED
    <3>1. pseudo \in Nat
      BY <2>1, PseudoSum DEF pseudo
    <3>2. header \in Nat
      BY <2>1, HeaderSum DEF header
    <3>3. words \in Nat
      BY ByteSums, SumIsNat DEF words
    <3>. QED
      BY <3>1, <3>2, <3>3
<1>. HIDE DEF x
<1>5. check \in Nat /\ Folded[x + check] = 65535
  <2>1. x \in Nat /\ x > 0
    BY <1>1
  <2>. HIDE DEF check
  <2>2. 65535 - Residue(x) \in Nat /\ Folded[x + (65535 - Residue(x))] = 65535
    BY ONLY <2>1, CheckCompletes
  <2>. QED
    BY ONLY <1>2, <2>2
<1>6. WordSum(Header(Ports, Numbers, check)) = header + check
  BY <1>5, HeaderSum DEF header
<1>7. pseudo + (header + check) + words = x + check
  BY <1>1, <1>4, <1>5
<1>8. Verifies(Addresses, Header(Ports, Numbers, check), data)
  BY <1>3, <1>5, <1>6, <1>7
<1>. QED
  BY <1>8 DEF check

-----------------------------------------------------------------------------
(* The sums of FileSize and Written: what they add up to does not depend   *)
(* on the order.                                                           *)

(* Z adds up F over any set of indices.                                    *)
Adds(Z, F, n) ==
  /\ Z \in [SUBSET (1..n) -> Nat]
  /\ Z[{}] = 0
  /\ \A s \in SUBSET (1..n) : \A x \in s : Z[s] = F[x] + Z[s \ {x}]

LEMMA AddsExists ==
  ASSUME NEW n \in Nat, NEW F \in [1..n -> Nat]
  PROVE  \E Z : Adds(Z, F, n)
<1>. DEFINE Sets == SUBSET (1..n)
            S == [Sets -> Nat]
            base == [s \in Sets |-> 0]
            step == [p \in (1..n) \X S |->
                      [s \in Sets |-> p[2][s] + IF p[1] \in s THEN F[p[1]] ELSE 0]]
<1>1. base \in S /\ step \in [(1..n) \X S -> S]
  <2>1. ASSUME NEW p \in (1..n) \X S
        PROVE  [s \in Sets |-> p[2][s] + IF p[1] \in s THEN F[p[1]] ELSE 0] \in S
    <3>. DEFINE h == p[2]
                x == p[1]
    <3>1. h \in [Sets -> Nat] /\ F[x] \in Nat
      OBVIOUS
    <3>. HIDE DEF h, x, Sets
    <3>2. ASSUME NEW s \in Sets PROVE (h[s] + IF x \in s THEN F[x] ELSE 0) \in Nat
      <4>1. h[s] \in Nat
        BY <3>1
      <4>. QED
        BY <3>1, <4>1
    <3>3. [s \in Sets |-> h[s] + IF x \in s THEN F[x] ELSE 0] \in S
      BY <3>2
    <3>. QED
      BY <3>3 DEF h, x
  <2>2. base \in S
    OBVIOUS
  <2>. HIDE DEF S, base
  <2>. QED
    BY <2>1, <2>2
<1>2. PICK g : Steps(g, S, base, step, n)
  <2>. HIDE DEF S, base, step
  <2>. QED
    BY <1>1, StepsExist
<1>3. /\ g \in [0..n -> S] /\ g[0] = base
      /\ \A i \in 1..n : g[i] = step[<<i, g[i - 1]>>]
  <2>. HIDE DEF S, base, step
  <2>. QED
    BY <1>2 DEF Steps
<1>4. ASSUME NEW i \in 1..n
      PROVE  /\ g[i] \in S /\ g[i - 1] \in S
             /\ \A s \in Sets : g[i][s] = g[i - 1][s] + IF i \in s THEN F[i] ELSE 0
  <2>1. i \in 0..n /\ i - 1 \in 0..n
    OBVIOUS
  <2>2. g[i] \in S /\ g[i - 1] \in S
    BY <1>3, <2>1
  <2>3. <<i, g[i - 1]>> \in (1..n) \X S
    BY <2>2
  <2>4. g[i] = [s \in Sets |-> g[i - 1][s] + IF i \in s THEN F[i] ELSE 0]
    <3>1. g[i] = step[<<i, g[i - 1]>>]
      <4>. HIDE DEF step, S
      <4>. QED
        BY <1>3
    <3>2. \A p \in (1..n) \X S :
            step[p] = [s \in Sets |-> p[2][s] + IF p[1] \in s THEN F[p[1]] ELSE 0]
      OBVIOUS
    <3>. HIDE DEF step, S
    <3>. QED
      BY <2>3, <3>1, <3>2
  <2>. QED
    BY <2>2, <2>4
<1>5. g[0] = base /\ g[n] \in S
  BY <1>3
<1>6. \A s \in Sets : g[0][s] = 0
  BY <1>5
<1>. HIDE DEF step, base
<1>. DEFINE Z == g[n]
<1>7. Z[{}] = 0
  <2>. DEFINE T == {k \in 0..n : g[k][{}] # 0}
  <2>. SUFFICES ASSUME n \in T PROVE FALSE
    OBVIOUS
  <2>1. PICK k \in T : \A j \in T : k <= j
    <3>1. T \subseteq Nat /\ T # {}
      OBVIOUS
    <3>. HIDE DEF T
    <3>. QED
      BY <3>1, LeastExists
  <2>2. k # 0 /\ k \in 1..n
    BY <1>6, <2>1
  <2>3. k - 1 \in 0..n /\ k - 1 \notin T
    BY <2>1, <2>2
  <2>4. g[k][{}] = g[k - 1][{}] + 0
    BY <1>4, <2>2
  <2>. QED
    BY <2>1, <2>3, <2>4
<1>8. ASSUME NEW s \in Sets, NEW x \in s PROVE Z[s] = F[x] + Z[s \ {x}]
  <2>. DEFINE t == s \ {x}
              T == {k \in 0..n : g[k][s] # (IF x <= k THEN F[x] ELSE 0) + g[k][t]}
  <2>1. t \in Sets /\ x \in 1..n /\ F[x] \in Nat /\ x \in s
    OBVIOUS
  <2>2. \A i \in 1..n : (i \in t <=> i \in s /\ i # x)
    OBVIOUS
  <2>3. \A k \in 0..n : g[k][s] \in Nat /\ g[k][t] \in Nat
    BY <1>3, <2>1
  <2>. HIDE DEF t
  <2>4. n \notin T
    <3>. SUFFICES ASSUME n \in T PROVE FALSE
      OBVIOUS
    <3>1. PICK k \in T : \A j \in T : k <= j
      <4>1. T \subseteq Nat /\ T # {}
        OBVIOUS
      <4>. HIDE DEF T
      <4>. QED
        BY <4>1, LeastExists
    <3>2. k \in 0..n /\ g[k][s] # (IF x <= k THEN F[x] ELSE 0) + g[k][t]
      OBVIOUS
    <3>3. k # 0
      BY <1>6, <2>1, <3>2
    <3>4. k \in 1..n /\ k - 1 \in 0..n /\ k - 1 \notin T
      BY <3>1, <3>2, <3>3
    <3>5. g[k - 1][s] = (IF x <= k - 1 THEN F[x] ELSE 0) + g[k - 1][t]
      BY <3>4
    <3>6. g[k - 1][s] \in Nat /\ g[k - 1][t] \in Nat
      BY <2>3, <3>4
    <3>. HIDE DEF T, S, Sets
    <3>7. /\ g[k][s] = g[k - 1][s] + IF k \in s THEN F[k] ELSE 0
          /\ g[k][t] = g[k - 1][t] + IF k \in t THEN F[k] ELSE 0
      BY <1>4, <2>1, <3>4
    <3>8. CASE k = x
      <4>1. g[k][s] = g[k - 1][s] + F[x] /\ g[k][t] = g[k - 1][t] + 0
        BY <2>1, <2>2, <3>4, <3>7, <3>8
      <4>2. g[k - 1][s] = 0 + g[k - 1][t]
        BY <2>1, <3>5, <3>8
      <4>. QED
        BY <2>1, <3>2, <3>6, <3>8, <4>1, <4>2
    <3>9. CASE k # x
      <4>1. k \in t <=> k \in s
        BY <2>2, <3>4, <3>9
      <4>2. x <= k <=> x <= k - 1
        BY <2>1, <3>4, <3>9
      <4>3. F[k] \in Nat
        BY <3>4
      <4>. QED
        BY <2>1, <3>2, <3>5, <3>6, <3>7, <4>1, <4>2, <4>3
    <3>. QED
      BY <3>8, <3>9
  <2>5. n \in 0..n /\ x <= n
    BY <2>1
  <2>. QED
    BY <2>4, <2>5 DEF t
<1>9. Adds(Z, F, n)
  <2>. HIDE DEF Z
  <2>1. Z \in [SUBSET (1..n) -> Nat]
    BY <1>5 DEF Z
  <2>. QED
    BY <1>7, <1>8, <2>1 DEF Adds
<1>. QED
  BY <1>9

(* A sum that takes the members of a set in whatever order.                *)
SumsUp(f, F, S) ==
  f = [s \in SUBSET S |->
        IF s = {} THEN 0
        ELSE F[CHOOSE x \in s : TRUE] + f[s \ {CHOOSE x \in s : TRUE}]]

(* However a set is taken apart, its sum is the same.                      *)
LEMMA OneSum ==
  ASSUME NEW n \in Nat, NEW F, NEW Z, Adds(Z, F, n), NEW S \in SUBSET (1..n)
  PROVE  /\ \E f : SumsUp(f, F, S)
         /\ \A f : SumsUp(f, F, S) => f[S] = Z[S]
<1>1. /\ Z \in [SUBSET (1..n) -> Nat] /\ Z[{}] = 0
      /\ \A s \in SUBSET (1..n) : \A x \in s : Z[s] = F[x] + Z[s \ {x}]
  BY DEF Adds
<1>2. \E f : SumsUp(f, F, S)
  <2>. DEFINE f == [s \in SUBSET S |-> Z[s]]
  <2>1. ASSUME NEW s \in SUBSET S, s # {}
        PROVE  Z[s] = F[CHOOSE x \in s : TRUE] + f[s \ {CHOOSE x \in s : TRUE}]
    <3>. DEFINE x == CHOOSE x \in s : TRUE
    <3>1. x \in s
      BY <2>1
    <3>. HIDE DEF x
    <3>2. Z[s] = F[x] + f[s \ {x}]
      BY <1>1, <3>1
    <3>. QED
      BY <3>2 DEF x
  <2>2. f = [s \in SUBSET S |->
              IF s = {} THEN 0
              ELSE F[CHOOSE x \in s : TRUE] + f[s \ {CHOOSE x \in s : TRUE}]]
    <3>1. \A s \in SUBSET S : Z[s] =
            IF s = {} THEN 0
            ELSE F[CHOOSE x \in s : TRUE] + f[s \ {CHOOSE x \in s : TRUE}]
      BY <1>1, <2>1
    <3>. QED
      BY <3>1
  <2>. HIDE DEF f
  <2>3. SumsUp(f, F, S)
    BY <2>2 DEF SumsUp
  <2>. QED
    BY <2>3
<1>3. ASSUME NEW f, SumsUp(f, F, S) PROVE f[S] = Z[S]
  <2>. DEFINE T == {k \in Nat : \E s \in SUBSET S : Cardinality(s) = k /\ f[s] # Z[s]}
  <2>1. \A s \in SUBSET S : IsFiniteSet(s) /\ Cardinality(s) \in Nat
    <3>1. IsFiniteSet(1..n)
      BY FS_Interval
    <3>2. ASSUME NEW s \in SUBSET S PROVE IsFiniteSet(s) /\ Cardinality(s) \in Nat
      <4>1. IsFiniteSet(s)
        BY <3>1, FS_Subset
      <4>. QED
        BY <4>1, FS_CardinalityType
    <3>. QED
      BY <3>2
  <2>. SUFFICES ASSUME f[S] # Z[S] PROVE FALSE
    OBVIOUS
  <2>2. PICK k \in T : \A j \in T : k <= j
    <3>1. S \in SUBSET S /\ Cardinality(S) \in Nat
      BY <2>1
    <3>2. T \subseteq Nat /\ T # {}
      BY <3>1
    <3>. HIDE DEF T
    <3>. QED
      BY <3>2, LeastExists
  <2>3. PICK s \in SUBSET S : Cardinality(s) = k /\ f[s] # Z[s]
    OBVIOUS
  <2>4. CASE s = {}
    BY <1>1, <1>3, <2>3, <2>4 DEF SumsUp
  <2>5. CASE s # {}
    <3>. DEFINE x == CHOOSE x \in s : TRUE
                t == s \ {x}
    <3>1. x \in s
      BY <2>5
    <3>2. f[s] = F[x] + f[t]
      BY <1>3, <2>5 DEF SumsUp
    <3>. HIDE DEF x
    <3>3. t \in SUBSET S /\ Cardinality(t) = k - 1 /\ Cardinality(t) \in Nat
      <4>1. IsFiniteSet(s)
        BY <2>1
      <4>2. Cardinality(s \ {x}) = Cardinality(s) - 1
        BY <3>1, <4>1, FS_RemoveElement
      <4>. QED
        BY <2>1, <2>3, <4>2
    <3>4. k - 1 \notin T
      BY <2>2, <3>3
    <3>5. f[t] = Z[t]
      BY <3>3, <3>4
    <3>6. Z[s] = F[x] + Z[t]
      BY <1>1, <3>1
    <3>. QED
      BY <2>3, <3>2, <3>5, <3>6
  <2>. QED
    BY <2>4, <2>5
<1>. QED
  BY <1>2, <1>3

(* Both sums of the model are values of one such function.                 *)
LEMMA FileSizeIs ==
  ASSUME lens \in Seq(Nat), NEW Z, Adds(Z, lens, Len(lens))
  PROVE  FileSize = Z[2..Len(lens)]
<1>. DEFINE S == 2..Len(lens)
<1>1. S \in SUBSET (1..Len(lens)) /\ Len(lens) \in Nat
  OBVIOUS
<1>2. FileSize = (CHOOSE f : SumsUp(f, lens, S))[S]
  BY DEF FileSize, MapThenSumSet, MapThenFoldSet, SumsUp
<1>. HIDE DEF S
<1>3. (CHOOSE f : SumsUp(f, lens, S))[S] = Z[S]
  BY <1>1, OneSum
<1>. QED
  BY <1>2, <1>3 DEF S

LEMMA WrittenIs ==
  ASSUME NEW file, NEW n \in Nat, DOMAIN file = 1..n, NEW Z, NEW F,
         \A i \in 1..n : F[i] = lens[file[i] + 1],
         Adds(Z, F, n)
  PROVE  Written(file) = Z[1..n]
<1>. DEFINE S == DOMAIN file
            Sum(f) == f = [s \in SUBSET S |->
                        IF s = {} THEN 0
                        ELSE lens[file[CHOOSE x \in s : TRUE] + 1]
                             + f[s \ {CHOOSE x \in s : TRUE}]]
<1>1. S \in SUBSET (1..n) /\ S = 1..n
  OBVIOUS
<1>2. Written(file) = (CHOOSE f : Sum(f))[S]
  BY DEF Written, MapThenSumSet, MapThenFoldSet
<1>. HIDE DEF S
<1>3. \A f : Sum(f) <=> SumsUp(f, F, S)
  <2>1. ASSUME NEW f
        PROVE  [s \in SUBSET S |->
                 IF s = {} THEN 0
                 ELSE lens[file[CHOOSE x \in s : TRUE] + 1]
                        + f[s \ {CHOOSE x \in s : TRUE}]]
               = [s \in SUBSET S |->
                   IF s = {} THEN 0
                   ELSE F[CHOOSE x \in s : TRUE] + f[s \ {CHOOSE x \in s : TRUE}]]
    <3>1. ASSUME NEW s \in SUBSET S, s # {}
          PROVE  F[CHOOSE x \in s : TRUE] = lens[file[CHOOSE x \in s : TRUE] + 1]
      <4>1. (CHOOSE x \in s : TRUE) \in 1..n
        BY <1>1, <3>1
      <4>. QED
        BY <4>1
    <3>. QED
      BY <3>1
  <2>. QED
    BY <2>1 DEF SumsUp
<1>4. (CHOOSE f : SumsUp(f, F, S))[S] = Z[S]
  BY <1>1, OneSum
<1>5. (CHOOSE f : Sum(f)) = (CHOOSE f : SumsUp(f, F, S))
  <2>. HIDE DEF Sum
  <2>. QED
    BY <1>3
<1>. QED
  BY <1>1, <1>2, <1>4, <1>5

(* The file is complete with its last message, and not before.             *)
Prefix(m) == [i \in 1..m |-> i]

(* No chunk is empty, so only with the last one the size is reached.       *)
LEMMA CompleteIs ==
  ASSUME lens \in Files, NEW m \in 0..Len(lens) - 1
  PROVE  Complete(Prefix(m)) <=> m = Len(lens) - 1
<1>. DEFINE n == Len(lens)
            F == [i \in 1..m |-> lens[i + 1]]
<1>1. n \in Nat /\ n >= 1 /\ lens \in [1..n -> Nat] /\ lens \in Seq(Nat)
      /\ \A i \in 1..n : lens[i] \in Nat \ {0}
  BY LengthAssumption
<1>. HIDE DEF n
<1>2. m \in 0..n - 1
  BY DEF n
<1>3. PICK Z : Adds(Z, lens, n)
  BY <1>1, AddsExists
<1>4. PICK Y : Adds(Y, F, m)
  <2>1. F \in [1..m -> Nat] /\ m \in Nat
    BY <1>1, <1>2
  <2>. HIDE DEF F
  <2>. QED
    BY <2>1, AddsExists
<1>5. FileSize = Z[2..n]
  BY <1>1, <1>3, FileSizeIs DEF n
<1>6. Written(Prefix(m)) = Y[1..m]
  <2>1. DOMAIN Prefix(m) = 1..m /\ m \in Nat
    BY <1>2 DEF Prefix
  <2>2. \A i \in 1..m : F[i] = lens[Prefix(m)[i] + 1]
    BY DEF Prefix
  <2>. HIDE DEF F
  <2>. QED
    BY <1>4, <2>1, <2>2, WrittenIs
<1>7. ASSUME NEW k \in 1..n - 1
      PROVE  /\ Z[2..k + 1] = lens[k + 1] + Z[2..k]
             /\ Z[2..k + 1] \in Nat /\ Z[2..k] \in Nat /\ Z[2..k] < Z[2..k + 1]
  <2>1. /\ 2..k + 1 \in SUBSET (1..n) /\ k + 1 \in 2..k + 1
        /\ (2..k + 1) \ {k + 1} = 2..k /\ 2..k \in SUBSET (1..n)
    BY <1>1
  <2>2. /\ Z \in [SUBSET (1..n) -> Nat]
        /\ \A s \in SUBSET (1..n) : \A x \in s : Z[s] = lens[x] + Z[s \ {x}]
    BY <1>3 DEF Adds
  <2>3. Z[2..k + 1] = lens[k + 1] + Z[2..k]
    BY <2>1, <2>2
  <2>4. lens[k + 1] \in Nat \ {0}
    BY <1>1
  <2>5. Z[2..k + 1] \in Nat /\ Z[2..k] \in Nat
    BY <2>1, <2>2
  <2>. DEFINE x == Z[2..k + 1]
              y == Z[2..k]
              c == lens[k + 1]
  <2>6. x = c + y /\ x \in Nat /\ y \in Nat /\ c \in Nat /\ c # 0
    BY <2>3, <2>4, <2>5
  <2>. HIDE DEF x, y, c
  <2>7. y < x
    BY <2>6
  <2>. QED
    BY <2>3, <2>5, <2>7 DEF x, y
<1>8. ASSUME NEW k \in 1..m PROVE Y[1..k] = lens[k + 1] + Y[1..k - 1]
  <2>1. /\ 1..k \in SUBSET (1..m) /\ k \in 1..k /\ (1..k) \ {k} = 1..k - 1
    BY <1>2
  <2>2. \A s \in SUBSET (1..m) : \A x \in s : Y[s] = F[x] + Y[s \ {x}]
    BY <1>4 DEF Adds
  <2>3. F[k] = lens[k + 1]
    OBVIOUS
  <2>. HIDE DEF F
  <2>. QED
    BY <2>1, <2>2, <2>3
<1>. HIDE DEF F
<1>9. Y[1..m] = Z[2..m + 1]
  <2>. DEFINE T == {k \in 0..m : Y[1..k] # Z[2..k + 1]}
  <2>. SUFFICES ASSUME m \in T PROVE FALSE
    BY <1>2
  <2>1. PICK k \in T : \A j \in T : k <= j
    <3>1. T \subseteq Nat /\ T # {}
      BY <1>2
    <3>. HIDE DEF T
    <3>. QED
      BY <3>1, LeastExists
  <2>2. k \in 0..m /\ Y[1..k] # Z[2..k + 1]
    OBVIOUS
  <2>3. CASE k = 0
    <3>1. 1..0 = {} /\ 2..0 + 1 = {}
      OBVIOUS
    <3>2. Y[{}] = 0 /\ Z[{}] = 0
      BY <1>3, <1>4 DEF Adds
    <3>. QED
      BY <2>2, <2>3, <3>1, <3>2
  <2>4. CASE k # 0
    <3>1. k \in 1..m /\ k \in 1..n - 1 /\ k - 1 \in 0..m
      BY <1>1, <1>2, <2>2, <2>4
    <3>3. k - 1 \notin T
      <4>. HIDE DEF T
      <4>. QED
        BY <2>1, <3>1
    <3>2. Y[1..k - 1] = Z[2..k - 1 + 1] /\ k - 1 + 1 = k
      BY <3>1, <3>3
    <3>. QED
      BY <1>7, <1>8, <2>2, <3>1, <3>2
  <2>. QED
    BY <2>3, <2>4
<1>10. m < n - 1 => Z[2..m + 1] < Z[2..n]
  <2>. DEFINE T == {k \in 0..n - 2 - m : ~ (Z[2..m + 1] < Z[2..m + 2 + k])}
  <2>. SUFFICES ASSUME m < n - 1, ~ (Z[2..m + 1] < Z[2..n]) PROVE FALSE
    OBVIOUS
  <2>1. n - 2 - m \in T
    <3>1. n - 2 - m \in 0..n - 2 - m /\ m + 2 + (n - 2 - m) = n
      BY <1>1, <1>2
    <3>. QED
      BY <3>1
  <2>2. PICK k \in T : \A j \in T : k <= j
    <3>1. T \subseteq Nat /\ T # {}
      BY <2>1
    <3>. HIDE DEF T
    <3>. QED
      BY <3>1, LeastExists
  <2>3. k \in 0..n - 2 - m /\ ~ (Z[2..m + 1] < Z[2..m + 2 + k])
    OBVIOUS
  <2>4. m + 1 + k \in 1..n - 1 /\ m + 1 + k + 1 = m + 2 + k
    BY <1>1, <1>2, <2>3
  <2>5. /\ Z[2..m + 1 + k] < Z[2..m + 2 + k]
        /\ Z[2..m + 1 + k] \in Nat /\ Z[2..m + 2 + k] \in Nat
    BY <1>7, <2>4
  <2>6. CASE k = 0
    <3>1. m + 1 + k = m + 1
      BY <1>2, <2>6
    <3>. QED
      BY <2>3, <2>5, <3>1
  <2>7. CASE k # 0
    <3>1. k \in Int /\ k - 1 \in 0..n - 2 - m /\ m + 2 + (k - 1) = m + 1 + k
      BY <1>1, <1>2, <2>3, <2>7
    <3>4. k - 1 \notin T
      <4>. HIDE DEF T
      <4>. QED
        BY <2>2, <3>1
    <3>2. Z[2..m + 1] < Z[2..m + 1 + k]
      BY <3>1, <3>4
    <3>3. Z[2..m + 1] \in Nat
      <4>1. m + 1 \in 1..n - 1 \/ m = 0
        BY <1>1, <1>2, <2>3
      <4>2. 2..m + 1 \in SUBSET (1..n)
        BY <1>1, <1>2
      <4>. QED
        BY <1>3, <4>2 DEF Adds
    <3>. QED
      BY <2>3, <2>5, <3>2, <3>3
  <2>. QED
    BY <2>6, <2>7
<1>11. Z[2..m + 1] \in Nat /\ Z[2..n] \in Nat
  <2>1. 2..m + 1 \in SUBSET (1..n) /\ 2..n \in SUBSET (1..n)
    BY <1>1, <1>2
  <2>. QED
    BY <1>3, <2>1 DEF Adds
<1>12. CASE m = n - 1
  <2>1. m + 1 = n
    BY <1>1, <1>12
  <2>2. Written(Prefix(m)) = FileSize /\ FileSize \in Nat
    BY <1>5, <1>6, <1>9, <1>11, <2>1
  <2>. QED
    BY <1>12, <2>2 DEF Complete, n
<1>13. CASE m # n - 1
  <2>1. m < n - 1
    BY <1>1, <1>2, <1>13
  <2>2. Written(Prefix(m)) < FileSize /\ Written(Prefix(m)) \in Nat /\ FileSize \in Nat
    BY <1>5, <1>6, <1>9, <1>10, <1>11, <2>1
  <2>. QED
    BY <1>13, <2>2 DEF Complete, n
<1>. QED
  BY <1>12, <1>13

-----------------------------------------------------------------------------
(* InOrder lists a set of numbers in their order.                          *)

Sorted(due, s) ==
  /\ due \in [1..Cardinality(s) -> s]
  /\ \A i, j \in DOMAIN due : i < j => due[i] < due[j]

(* Every set of segments can be listed in order.                           *)
LEMMA SortedExists ==
  ASSUME NEW n \in Nat, NEW s \in SUBSET (0..n - 1)
  PROVE  \E due : Sorted(due, s)
<1>. DEFINE T == {k \in 0..n : \E t \in SUBSET (0..k - 1) : ~ \E due : Sorted(due, t)}
<1>. SUFFICES ASSUME n \in T PROVE FALSE
  OBVIOUS
<1>1. PICK k \in T : \A j \in T : k <= j
  <2>1. T \subseteq Nat /\ T # {}
    OBVIOUS
  <2>. HIDE DEF T
  <2>. QED
    BY <2>1, LeastExists
<1>2. PICK t \in SUBSET (0..k - 1) : ~ \E due : Sorted(due, t)
  OBVIOUS
<1>3. CASE k = 0
  <2>. DEFINE due == [i \in 1..0 |-> 0]
  <2>1. t = {} /\ Cardinality(t) = 0
    <3>1. 0..k - 1 = {}
      BY <1>3
    <3>. QED
      BY <3>1, FS_EmptySet
  <2>2. 1..0 = {}
    OBVIOUS
  <2>3. due \in [1..0 -> t] /\ DOMAIN due = {}
    BY <2>2
  <2>. HIDE DEF due
  <2>4. Sorted(due, t)
    BY <2>1, <2>3 DEF Sorted
  <2>. QED
    BY <1>2, <2>4
<1>4. CASE k # 0
  <2>. DEFINE r == t \ {k - 1}
              c == Cardinality(r)
  <2>1. k \in 1..n /\ k - 1 \in 0..n /\ k - 1 \notin T
    BY <1>1, <1>4
  <2>2. r \in SUBSET (0..(k - 1) - 1)
    BY <2>1
  <2>3. PICK h : Sorted(h, r)
    BY <2>1, <2>2
  <2>4. CASE k - 1 \notin t
    <3>1. r = t
      BY <2>4
    <3>. QED
      BY <1>2, <2>3, <3>1
  <2>5. CASE k - 1 \in t
    <3>1. IsFiniteSet(t) /\ c \in Nat /\ Cardinality(t) = c + 1
      <4>1. IsFiniteSet(0..k - 1)
        BY <2>1, FS_Interval
      <4>2. IsFiniteSet(t) /\ IsFiniteSet(r)
        BY <4>1, FS_Subset
      <4>3. c \in Nat /\ Cardinality(t) \in Nat
        BY <4>2, FS_CardinalityType
      <4>4. c = Cardinality(t) - 1
        BY <2>5, <4>2, FS_RemoveElement
      <4>. QED
        BY <4>2, <4>3, <4>4
    <3>2. h \in [1..c -> r] /\ \A i, j \in 1..c : i < j => h[i] < h[j]
      BY <2>3 DEF Sorted
    <3>. HIDE DEF c
    <3>. DEFINE due == [i \in 1..c + 1 |-> IF i = c + 1 THEN k - 1 ELSE h[i]]
    <3>3. \A i \in 1..c : h[i] \in r /\ h[i] \in t /\ h[i] < k - 1 /\ due[i] = h[i]
      <4>1. \A i \in 1..c : h[i] \in r /\ due[i] = h[i]
        BY <3>1, <3>2
      <4>2. \A x \in r : x \in t /\ x < k - 1
        BY <2>1, <2>2
      <4>. QED
        BY <4>1, <4>2
    <3>4. due[c + 1] = k - 1 /\ DOMAIN due = 1..c + 1
      BY <3>1
    <3>5. \A i \in 1..c + 1 : i \in 1..c \/ i = c + 1
      BY <3>1
    <3>6. due \in [1..c + 1 -> t]
      BY <2>5, <3>3, <3>4, <3>5
    <3>7. ASSUME NEW i \in 1..c + 1, NEW j \in 1..c + 1, i < j
          PROVE  due[i] < due[j]
      <4>. HIDE DEF due
      <4>1. i \in 1..c
        BY <3>1, <3>7
      <4>2. CASE j = c + 1
        BY <3>3, <3>4, <4>1, <4>2
      <4>3. CASE j \in 1..c
        BY <3>2, <3>3, <3>7, <4>1, <4>3
      <4>. QED
        BY <3>5, <4>2, <4>3
    <3>. HIDE DEF due
    <3>8. Sorted(due, t)
      BY <3>1, <3>4, <3>6, <3>7 DEF Sorted
    <3>. QED
      BY <1>2, <3>8
  <2>. QED
    BY <2>4, <2>5
<1>. QED
  BY <1>3, <1>4

(* So InOrder lists it.                                                    *)
LEMMA InOrderIs ==
  ASSUME NEW n \in Nat, NEW s \in SUBSET (0..n - 1)
  PROVE  /\ InOrder(s) \in Seq(s) /\ Len(InOrder(s)) = Cardinality(s)
         /\ Cardinality(s) \in Nat
         /\ \A i, j \in 1..Len(InOrder(s)) : i < j => InOrder(s)[i] < InOrder(s)[j]
         /\ \A x \in s : \E i \in 1..Len(InOrder(s)) : InOrder(s)[i] = x
<1>. DEFINE due == InOrder(s)
            c == Cardinality(s)
<1>1. IsFiniteSet(s) /\ c \in Nat
  <2>1. IsFiniteSet(0..n - 1)
    BY FS_Interval
  <2>2. IsFiniteSet(s)
    BY <2>1, FS_Subset
  <2>. QED
    BY <2>2, FS_CardinalityType
<1>2. Sorted(due, s)
  <2>1. \E d : Sorted(d, s)
    BY SortedExists
  <2>. QED
    BY <2>1 DEF Sorted, InOrder
<1>3. due \in [1..c -> s] /\ \A i, j \in 1..c : i < j => due[i] < due[j]
  BY <1>2 DEF Sorted
<1>. HIDE DEF due, c
<1>4. due \in Seq(s) /\ Len(due) = c
  BY <1>1, <1>3
<1>5. due \in Surjection(1..c, s)
  <2>1. \A i, j \in 1..c : i # j => due[i] # due[j]
    <3>1. ASSUME NEW i \in 1..c, NEW j \in 1..c, i # j PROVE due[i] # due[j]
      <4>1. due[i] \in Nat /\ due[j] \in Nat
        <5>1. due[i] \in s /\ due[j] \in s
          BY <1>3
        <5>2. \A x \in s : x \in Nat
          OBVIOUS
        <5>. QED
          BY <5>1, <5>2
      <4>2. i < j \/ j < i
        BY <1>1, <3>1
      <4>. QED
        BY <1>3, <4>1, <4>2
    <3>. QED
      BY <3>1
  <2>2. due \in Injection(1..c, s)
    BY <1>3, <2>1 DEF Injection, IsInjective
  <2>3. Cardinality(1..c) = c
    <3>1. 1 \in Int /\ c \in Int
      BY <1>1
    <3>2. Cardinality(1..c) = IF 1 > c THEN 0 ELSE c - 1 + 1
      BY <3>1, FS_Interval
    <3>. QED
      BY <1>1, <3>2
  <2>. QED
    BY <1>1, <2>2, <2>3, FS_Injection DEF c
<1>6. \A x \in s : \E i \in 1..c : due[i] = x
  BY <1>5 DEF Surjection
<1>. QED
  BY <1>1, <1>3, <1>4, <1>6 DEF due, c

(* A run of numbers is listed one by one.                                  *)
LEMMA InOrderRun ==
  ASSUME NEW n \in Nat, NEW a \in 0..n, NEW b \in a..n
  PROVE  /\ Len(InOrder(a..b - 1)) = b - a
         /\ \A i \in 1..b - a : InOrder(a..b - 1)[i] = a + i - 1
<1>. DEFINE s == a..b - 1
            due == InOrder(s)
            c == b - a
<1>1. s \in SUBSET (0..n - 1) /\ c \in Nat /\ Cardinality(s) = c
  <2>1. a \in Int /\ b - 1 \in Int
    OBVIOUS
  <2>2. Cardinality(s) = IF a > b - 1 THEN 0 ELSE b - 1 - a + 1
    BY <2>1, FS_Interval
  <2>. QED
    BY <2>2
<1>2. /\ due \in Seq(s) /\ Len(due) = c
      /\ \A i, j \in 1..c : i < j => due[i] < due[j]
  <2>. HIDE DEF s, c
  <2>. QED
    BY <1>1, InOrderIs
<1>. HIDE DEF due
<1>3. \A i \in 1..c : due[i] \in Int /\ a <= due[i] /\ due[i] <= b - 1
  BY <1>1, <1>2
<1>. HIDE DEF s, c
<1>4. ASSUME NEW i \in 1..c PROVE due[i] >= a + i - 1
  <2>. DEFINE T == {k \in 1..c : ~ (due[k] >= a + k - 1)}
  <2>. SUFFICES ASSUME T # {} PROVE FALSE
    OBVIOUS
  <2>1. PICK k \in T : \A j \in T : k <= j
    <3>1. T \subseteq Nat
      OBVIOUS
    <3>. HIDE DEF T
    <3>. QED
      BY <3>1, LeastExists
  <2>2. k \in 1..c /\ ~ (due[k] >= a + k - 1)
    OBVIOUS
  <2>3. k # 1
    BY <1>3, <2>2
  <2>4. k - 1 \in 1..c /\ k - 1 \notin T
    BY <1>1, <2>1, <2>2, <2>3
  <2>5. due[k - 1] >= a + (k - 1) - 1 /\ due[k - 1] < due[k]
    BY <1>2, <2>2, <2>4
  <2>. QED
    BY <1>3, <2>2, <2>4, <2>5
<1>5. ASSUME NEW i \in 1..c PROVE due[i] <= a + i - 1
  <2>. DEFINE T == {k \in 0..c - 1 : ~ (due[c - k] <= b - 1 - k)}
  <2>1. T = {}
    <3>. SUFFICES ASSUME T # {} PROVE FALSE
      OBVIOUS
    <3>1. PICK k \in T : \A j \in T : k <= j
      <4>1. T \subseteq Nat
        OBVIOUS
      <4>. HIDE DEF T
      <4>. QED
        BY <4>1, LeastExists
    <3>2. k \in 0..c - 1 /\ ~ (due[c - k] <= b - 1 - k)
      OBVIOUS
    <3>3. c \in 1..c /\ c - 0 = c
      BY <1>1
    <3>4. k # 0
      BY <1>3, <3>2, <3>3
    <3>5. k - 1 \in 0..c - 1 /\ k - 1 \notin T
      BY <1>1, <3>1, <3>2, <3>4
    <3>6. due[c - (k - 1)] <= b - 1 - (k - 1)
      BY <3>5
    <3>7. c - k \in 1..c /\ c - (k - 1) \in 1..c /\ c - k < c - (k - 1)
      BY <1>1, <3>2, <3>5
    <3>8. due[c - k] < due[c - (k - 1)]
      BY <1>2, <3>7
    <3>9. due[c - k] \in Int /\ due[c - (k - 1)] \in Int
      BY <1>3, <3>7
    <3>. HIDE DEF T
    <3>. QED
      BY <3>2, <3>6, <3>8, <3>9
  <2>2. c - i \in 0..c - 1 /\ c - (c - i) = i /\ b - 1 - (c - i) = a + i - 1
    BY <1>1 DEF c
  <2>3. due[c - (c - i)] <= b - 1 - (c - i)
    BY <2>1, <2>2
  <2>. QED
    BY <2>2, <2>3
<1>6. \A i \in 1..c : due[i] = a + i - 1
  BY <1>1, <1>3, <1>4, <1>5
<1>. QED
  BY <1>2, <1>6 DEF due, s, c

-----------------------------------------------------------------------------
(* Segments, packets and what they are cut into.                           *)

(* The bytes of some segments, and TCP segments of such bytes.             *)
ByteOf(sns) == {b \in sns \X Nat : b[2] \in 1..Size(b[1])}

Parcel(sns) == [data : Seq(ByteOf(sns)), check : Word]

LEMMA MinOf ==
  ASSUME NEW a \in Int, NEW b \in Int
  PROVE  Min({a, b}) \in {a, b} /\ Min({a, b}) <= a /\ Min({a, b}) <= b
<1>1. \E x \in {a, b} : \A y \in {a, b} : x <= y
  OBVIOUS
<1>. QED
  BY <1>1 DEF Min

LEMMA MaxOf ==
  ASSUME NEW n \in Nat, NEW s \in SUBSET (0..n), s # {}
  PROVE  Max(s) \in s /\ \A i \in s : i <= Max(s)
<1>. DEFINE T == {n - i : i \in s}
<1>1. T \subseteq Nat /\ T # {}
  OBVIOUS
<1>2. PICK t \in T : \A u \in T : t <= u
  BY <1>1, LeastExists
<1>3. PICK x \in s : t = n - x
  OBVIOUS
<1>4. ASSUME NEW i \in s PROVE i <= x
  <2>1. n - x <= n - i
    BY <1>2, <1>3
  <2>2. i \in Int /\ x \in Int
    OBVIOUS
  <2>. QED
    BY <2>1, <2>2
<1>5. \E y \in s : \A i \in s : y >= i
  <2>1. \A i \in s : x >= i
    BY <1>4
  <2>. QED
    BY <2>1
<1>. QED
  BY <1>5 DEF Max

(* A segment with its header fits in a packet.                             *)
LEMMA SizeIs ==
  ASSUME lens \in Files, NEW sn \in 0..Len(lens) - 1
  PROVE  Size(sn) \in Nat /\ Size(sn) > Overhead /\ Size(sn) <= Mtu
<1>1. sn + 1 \in DOMAIN lens /\ lens[sn + 1] \in Nat \ {0}
  BY LengthAssumption
<1>2. Overhead + lens[sn + 1] <= Mtu /\ Overhead \in Nat /\ Mtu \in Nat
  BY <1>1, LengthAssumption
<1>. QED
  BY <1>1, <1>2 DEF Size

LEMMA ValuesAreNat ==
  ASSUME NEW sns, sns \subseteq Int, NEW bytes \in Seq(ByteOf(sns))
  PROVE  Values(bytes) \in Seq(Nat)
<1>1. ASSUME NEW i \in 1..Len(bytes) PROVE Value(bytes[i]) \in Nat
  <2>1. bytes[i] \in ByteOf(sns)
    OBVIOUS
  <2>2. bytes[i][1] \in Int /\ bytes[i][2] \in Int
    <3>. DEFINE b == bytes[i]
    <3>1. b \in ByteOf(sns)
      BY <2>1
    <3>. HIDE DEF b
    <3>2. b[1] \in sns /\ b[2] \in Nat
      BY <3>1 DEF ByteOf
    <3>3. b[1] \in Int
      BY <3>2
    <3>4. b[2] \in Int
      BY <3>2
    <3>. QED
      BY <3>3, <3>4 DEF b
  <2>. DEFINE v == 251 * bytes[i][1] + 89 * bytes[i][2]
  <2>3. v \in Int
    BY <2>2
  <2>. HIDE DEF v
  <2>4. v % 256 \in Nat
    BY <2>3
  <2>. QED
    BY <2>4 DEF Value, v
<1>2. Values(bytes) = [i \in 1..Len(bytes) |-> Value(bytes[i])]
  BY DEF Values
<1>3. Len(bytes) \in Nat
  OBVIOUS
<1>. QED
  BY <1>1, <1>2, <1>3

(* tcp_client_cb's parts are parcels of the buffer's bytes.                *)
LEMMA PartIs ==
  ASSUME NEW sns, sns \subseteq Int, NEW buffer \in Seq(ByteOf(sns)),
         NEW sended \in Nat, sended < Len(buffer)
  PROVE  /\ Part(buffer, sended) \in Parcel(sns)
         /\ Len(Part(buffer, sended).data) \in 1..UdpMtu
<1>. DEFINE s == Min({Len(buffer) - sended, UdpMtu})
            data == SubSeq(buffer, sended + 1, sended + s)
            summed == SubSeq(buffer, 1, s)
            B == ByteOf(sns)
            check == TcpChecksum(Addresses, Header(Ports, Numbers, 0), Values(summed))
<1>1. s \in 1..UdpMtu /\ sended + s <= Len(buffer) /\ UdpMtu \in Nat
  <2>1. Len(buffer) - sended \in Nat \ {0} /\ UdpMtu \in Nat \ {0}
    BY LengthAssumption
  <2>2. s \in {Len(buffer) - sended, UdpMtu} /\ s <= Len(buffer) - sended /\ s <= UdpMtu
    <3>. DEFINE l == Len(buffer) - sended
    <3>1. l \in Int /\ UdpMtu \in Int
      BY <2>1
    <3>. HIDE DEF l
    <3>2. Min({l, UdpMtu}) \in {l, UdpMtu} /\ Min({l, UdpMtu}) <= l
          /\ Min({l, UdpMtu}) <= UdpMtu
      BY <3>1, MinOf
    <3>. QED
      BY <3>2 DEF l
  <2>. HIDE DEF s
  <2>. QED
    BY <2>1, <2>2
<1>. HIDE DEF s, B
<1>2. buffer \in Seq(B)
  BY DEF B
<1>3. data \in Seq(B) /\ summed \in Seq(B) /\ Len(data) = s
  <2>1. sended + 1 \in 1..Len(buffer) + 1 /\ sended + s \in 0..Len(buffer) /\ s \in 0..Len(buffer)
    BY <1>1
  <2>. QED
    BY <1>1, <1>2, <2>1
<1>4. check \in Word
  <2>1. Values(summed) \in Seq(Nat)
    <3>. HIDE DEF summed
    <3>. QED
      BY <1>3, ValuesAreNat DEF B
  <2>. QED
    BY <2>1, CheckIsWord
<1>5. Part(buffer, sended) = [data |-> data, check |-> check]
  BY DEF Part, s
<1>. HIDE DEF data, check
<1>. QED
  BY <1>1, <1>3, <1>4, <1>5 DEF Parcel, B

LEMMA PartsAre ==
  ASSUME NEW sns, sns \subseteq Int, NEW buffer \in Seq(ByteOf(sns))
  PROVE  /\ Parts(buffer) \in Seq(Parcel(sns))
         /\ \A i \in 1..Len(Parts(buffer)) : Len(Parts(buffer)[i].data) \in 1..UdpMtu
<1>. DEFINE c == (Len(buffer) + UdpMtu - 1) \div UdpMtu
<1>1. c \in Nat /\ c * UdpMtu <= Len(buffer) + UdpMtu - 1
  <2>. DEFINE x == Len(buffer) + UdpMtu - 1
  <2>1. x \in Nat /\ UdpMtu \in Nat \ {0}
    BY LengthAssumption
  <2>. HIDE DEF x
  <2>2. x \div UdpMtu \in Int /\ x = (x \div UdpMtu) * UdpMtu + (x % UdpMtu)
        /\ x % UdpMtu \in 0..UdpMtu - 1
    BY <2>1, Division
  <2>3. x \div UdpMtu \in Nat
    BY <2>1
  <2>. DEFINE q == x \div UdpMtu
              r == x % UdpMtu
  <2>4. q * UdpMtu \in Int
    BY <2>1, <2>2
  <2>5. q * UdpMtu <= x
    <3>. DEFINE m == q * UdpMtu
    <3>1. m \in Int /\ x = m + r /\ r \in 0..UdpMtu - 1
      BY <2>2, <2>4
    <3>. HIDE DEF m, r
    <3>2. m <= x
      BY <2>1, <3>1
    <3>. QED
      BY <3>2 DEF m
  <2>. QED
    BY <2>3, <2>5 DEF x
<1>. HIDE DEF c
<1>2. ASSUME NEW i \in 1..c
      PROVE  /\ Part(buffer, (i - 1) * UdpMtu) \in Parcel(sns)
             /\ Len(Part(buffer, (i - 1) * UdpMtu).data) \in 1..UdpMtu
  <2>. DEFINE sended == (i - 1) * UdpMtu
  <2>1. sended \in Nat /\ sended < Len(buffer)
    <3>1. UdpMtu \in Nat \ {0} /\ i \in Nat /\ i >= 1 /\ i <= c /\ Len(buffer) \in Nat
      BY <1>1, LengthAssumption
    <3>2. i * UdpMtu <= c * UdpMtu /\ i * UdpMtu \in Nat /\ c * UdpMtu \in Nat
      BY <1>1, <3>1
    <3>3. sended = i * UdpMtu - UdpMtu /\ sended \in Nat
      BY <3>1
    <3>. HIDE DEF sended
    <3>. QED
      BY <1>1, <3>1, <3>2, <3>3
  <2>. HIDE DEF sended
  <2>2. /\ Part(buffer, sended) \in Parcel(sns)
        /\ Len(Part(buffer, sended).data) \in 1..UdpMtu
    BY <2>1, PartIs
  <2>. QED
    BY <2>2 DEF sended
<1>3. Parts(buffer) = [i \in 1..c |-> Part(buffer, (i - 1) * UdpMtu)]
  BY DEF Parts, c
<1>4. \A i \in 1..c : Parts(buffer)[i] \in Parcel(sns)
                      /\ Len(Parts(buffer)[i].data) \in 1..UdpMtu
  BY <1>2, <1>3
<1>5. Len(Parts(buffer)) = c /\ Parts(buffer) \in Seq(Parcel(sns))
  BY <1>1, <1>2, <1>3
<1>. QED
  BY <1>4, <1>5

(* The bytes of a run of due, segment after segment.                       *)
LEMMA EncodedIs ==
  ASSUME lens \in Files, NEW sns \in SUBSET (0..Len(lens) - 1), NEW sn \in sns
  PROVE  /\ Encoded(sn) \in Seq(ByteOf(sns)) /\ Len(Encoded(sn)) = Size(sn)
         /\ \A k \in 1..Size(sn) : Encoded(sn)[k] = <<sn, k>>
<1>1. Size(sn) \in Nat
  BY SizeIs
<1>2. \A k \in 1..Size(sn) : <<sn, k>> \in ByteOf(sns)
  BY <1>1 DEF ByteOf
<1>. QED
  BY <1>1, <1>2 DEF Encoded

(* The bytes of the segments a to b, one segment after the other.          *)
LEMMA BytesAre ==
  ASSUME lens \in Files, NEW sns \in SUBSET (0..Len(lens) - 1),
         NEW due \in Seq(sns), NEW a \in 1..Len(due), NEW b \in a..Len(due)
  PROVE  \E g \in [0..b + 1 - a -> Seq(ByteOf(sns))] :
           /\ g[0] = <<>>
           /\ \A i \in 1..b + 1 - a : g[i] = g[i - 1] \o Encoded(due[a + i - 1])
           /\ Bytes(due, a, b) = g[b + 1 - a]
<1>. DEFINE c == b + 1 - a
            seqs == [i \in 1..c |-> Encoded(due[a + i - 1])]
<1>1. c \in Nat /\ \A i \in 1..c : a + i - 1 \in 1..Len(due)
  OBVIOUS
<1>2. \A i \in 1..c : Encoded(due[a + i - 1]) \in Seq(ByteOf(sns))
  <2>1. ASSUME NEW i \in 1..c PROVE Encoded(due[a + i - 1]) \in Seq(ByteOf(sns))
    <3>. HIDE DEF c
    <3>1. due[a + i - 1] \in sns
      <4>. DEFINE j == a + i - 1
      <4>1. j \in 1..Len(due)
        BY <1>1
      <4>. HIDE DEF j
      <4>2. due[j] \in sns
        BY <4>1
      <4>. QED
        BY <4>2 DEF j
    <3>. QED
      BY <3>1, EncodedIs
  <2>. QED
    BY <2>1
<1>. HIDE DEF c
<1>3. seqs \in Seq(Seq(ByteOf(sns))) /\ Len(seqs) = c
      /\ \A i \in 1..c : seqs[i] = Encoded(due[a + i - 1])
  BY <1>1, <1>2
<1>4. Bytes(due, a, b) = FlattenSeq(seqs)
  BY DEF Bytes, c
<1>. HIDE DEF seqs
<1>5. PICK g \in [0..Len(seqs) -> Seq(ByteOf(sns))] :
        /\ g[0] = <<>>
        /\ \A i \in 1..Len(seqs) : g[i] = g[i - 1] \o seqs[i]
        /\ FlattenSeq(seqs) = g[Len(seqs)]
  BY <1>3, Flattened
<1>6. /\ g \in [0..c -> Seq(ByteOf(sns))] /\ g[0] = <<>>
      /\ \A i \in 1..c : g[i] = g[i - 1] \o Encoded(due[a + i - 1])
      /\ Bytes(due, a, b) = g[c]
  BY <1>3, <1>4, <1>5
<1>. QED
  BY <1>6 DEF c

(* Which segment opened the packet a segment is in, and the last of it.    *)
Opening(opens, due, n) ==
  /\ opens \in [1..n -> 1..n]
  /\ \A i \in 1..n :
       \/ opens[i] = i
       \/ i > 1 /\ Fits(due, opens[i - 1], i) /\ opens[i] = opens[i - 1]

LastOf(opens, n, i) == Max({j \in 1..n : opens[j] = i})

(* The choice of packets that ikcp_flush makes.                            *)
LEMMA PacketsAre ==
  ASSUME NEW due, NEW n \in Nat, DOMAIN due = 1..n
  PROVE  \E opens :
           /\ Opening(opens, due, n)
           /\ Packets(due) =
                [i \in 1..n |-> IF opens[i] = i
                                THEN Bytes(due, i, LastOf(opens, n, i)) ELSE <<>>]
<1>. DEFINE Opens(f) ==
       f = [i \in DOMAIN due |->
              IF i > 1 /\ Fits(due, f[i - 1], i) THEN f[i - 1] ELSE i]
            step == [p \in (1..n) \X (0..n) |->
              IF p[1] > 1 /\ Fits(due, p[2], p[1]) THEN p[2] ELSE p[1]]
<1>1. step \in [(1..n) \X (0..n) -> 0..n] /\ 0 \in 0..n
  <2>1. \A p \in (1..n) \X (0..n) : p[1] \in 0..n /\ p[2] \in 0..n
    OBVIOUS
  <2>. QED
    BY <2>1
<1>2. PICK g : Steps(g, 0..n, 0, step, n)
  <2>. HIDE DEF step
  <2>. QED
    BY <1>1, StepsExist
<1>3. g \in [0..n -> 0..n] /\ \A i \in 1..n : g[i] = step[<<i, g[i - 1]>>]
  <2>. HIDE DEF step
  <2>. QED
    BY <1>2 DEF Steps
<1>4. ASSUME NEW i \in 1..n
      PROVE  g[i] = IF i > 1 /\ Fits(due, g[i - 1], i) THEN g[i - 1] ELSE i
  <2>1. <<i, g[i - 1]>> \in (1..n) \X (0..n)
    <3>1. i - 1 \in 0..n
      OBVIOUS
    <3>. HIDE DEF step
    <3>2. g[i - 1] \in 0..n
      BY <1>3, <3>1
    <3>. QED
      BY <3>2
  <2>. QED
    BY <1>3, <2>1
<1>. HIDE DEF step
<1>5. \E f : Opens(f)
  <2>. DEFINE f == [i \in 1..n |-> g[i]]
  <2>1. ASSUME NEW i \in 1..n
        PROVE  g[i] = IF i > 1 /\ Fits(due, f[i - 1], i) THEN f[i - 1] ELSE i
    <3>1. CASE i > 1
      <4>1. i - 1 \in 1..n
        BY <3>1
      <4>2. f[i - 1] = g[i - 1]
        BY <4>1
      <4>. HIDE DEF f
      <4>. QED
        BY <1>4, <4>2
    <3>2. CASE ~ (i > 1)
      <4>1. g[i] = i
        BY <1>4, <3>2
      <4>. QED
        BY <3>2, <4>1
    <3>. QED
      BY <3>1, <3>2
  <2>2. Opens(f)
    BY <2>1
  <2>. QED
    BY <2>2
<1>. DEFINE opens == CHOOSE f : Opens(f)
<1>6. Opens(opens)
  <2>. HIDE DEF Opens
  <2>. QED
    BY <1>5
<1>7. Packets(due) =
        [i \in DOMAIN due |->
           IF opens[i] = i
           THEN Bytes(due, i, Max({j \in DOMAIN due : opens[j] = i})) ELSE <<>>]
  BY DEF Packets
<1>. HIDE DEF opens
<1>8. \A i \in 1..n : opens[i] =
        IF i > 1 /\ Fits(due, opens[i - 1], i) THEN opens[i - 1] ELSE i
  BY <1>6
<1>9. \A i \in 1..n : opens[i] \in 1..n
  <2>. DEFINE T == {k \in 1..n : opens[k] \notin 1..n}
  <2>. SUFFICES ASSUME T # {} PROVE FALSE
    OBVIOUS
  <2>1. PICK k \in T : \A j \in T : k <= j
    <3>1. T \subseteq Nat
      OBVIOUS
    <3>. HIDE DEF T
    <3>. QED
      BY <3>1, LeastExists
  <2>2. k \in 1..n /\ opens[k] \notin 1..n
    OBVIOUS
  <2>3. opens[k] = opens[k - 1] /\ k > 1
    BY <1>8, <2>2
  <2>4. k - 1 \in 1..n
    BY <2>2, <2>3
  <2>5. k - 1 \notin T
    <3>1. k \in Int /\ k - 1 < k
      BY <2>2
    <3>. HIDE DEF T
    <3>. QED
      BY <2>1, <2>4, <3>1
  <2>. QED
    BY <2>2, <2>3, <2>4, <2>5
<1>10. opens \in [1..n -> 1..n]
  BY <1>6, <1>9
<1>. HIDE DEF Opens
<1>11. Opening(opens, due, n)
  BY <1>8, <1>10 DEF Opening
<1>12. Packets(due) =
         [i \in 1..n |-> IF opens[i] = i
                         THEN Bytes(due, i, LastOf(opens, n, i)) ELSE <<>>]
  BY <1>7 DEF LastOf
<1>. QED
  BY <1>11, <1>12

LEMMA BytesTyped ==
  ASSUME lens \in Files, NEW sns \in SUBSET (0..Len(lens) - 1),
         NEW due \in Seq(sns), NEW a \in 1..Len(due), NEW b \in a..Len(due)
  PROVE  Bytes(due, a, b) \in Seq(ByteOf(sns))
<1>1. PICK g \in [0..b + 1 - a -> Seq(ByteOf(sns))] : Bytes(due, a, b) = g[b + 1 - a]
  BY BytesAre
<1>2. b + 1 - a \in 0..b + 1 - a
  OBVIOUS
<1>. QED
  BY <1>1, <1>2

(* What a flush gives to the raw socket.                                   *)
LEMMA OutputIs ==
  ASSUME lens \in Files, NEW sns \in SUBSET (0..Len(lens) - 1),
         NEW due \in Seq(sns)
  PROVE  /\ \A i \in 1..Len(due) : Packets(due)[i] \in Seq(ByteOf(sns))
         /\ [i \in DOMAIN due |-> Parts(Packets(due)[i])] \in Seq(Seq(Parcel(sns)))
         /\ Output(due) \in Seq(Parcel(sns))
         /\ \A i \in 1..Len(Output(due)) : Len(Output(due)[i].data) \in 1..UdpMtu
<1>. DEFINE n == Len(due)
            Sound == {p \in Parcel(sns) : Len(p.data) \in 1..UdpMtu}
            parts == [i \in DOMAIN due |-> Parts(Packets(due)[i])]
<1>1. n \in Nat /\ DOMAIN due = 1..n
  OBVIOUS
<1>2. PICK opens :
        /\ Opening(opens, due, n)
        /\ Packets(due) =
             [i \in 1..n |-> IF opens[i] = i
                             THEN Bytes(due, i, LastOf(opens, n, i)) ELSE <<>>]
  <2>. HIDE DEF n
  <2>. QED
    BY <1>1, PacketsAre
<1>3. ASSUME NEW i \in 1..n PROVE Packets(due)[i] \in Seq(ByteOf(sns))
  <2>. DEFINE s == {j \in 1..n : opens[j] = i}
  <2>1. CASE opens[i] = i
    <3>1. s \in SUBSET (0..n) /\ i \in s
      BY <2>1
    <3>. HIDE DEF s, n
    <3>2. Max(s) \in s /\ i <= Max(s)
      BY <1>1, <3>1, MaxOf
    <3>3. Max(s) \in i..n
      BY <1>1, <3>1, <3>2 DEF s
    <3>4. Bytes(due, i, Max(s)) \in Seq(ByteOf(sns))
      BY <3>3, BytesTyped DEF n
    <3>. QED
      BY <1>2, <2>1, <3>4 DEF s, LastOf
  <2>2. CASE opens[i] # i
    BY <1>2, <2>2
  <2>. QED
    BY <2>1, <2>2
<1>4. sns \subseteq Int
  OBVIOUS
<1>5. \A i \in 1..n : Parts(Packets(due)[i]) \in Seq(Sound)
  <2>1. ASSUME NEW i \in 1..n PROVE Parts(Packets(due)[i]) \in Seq(Sound)
    <3>. DEFINE p == Parts(Packets(due)[i])
    <3>1. p \in Seq(Parcel(sns)) /\ \A k \in 1..Len(p) : Len(p[k].data) \in 1..UdpMtu
      BY <1>3, <1>4, PartsAre
    <3>. HIDE DEF p
    <3>2. \A k \in 1..Len(p) : p[k] \in Sound
      BY <3>1
    <3>. HIDE DEF Sound
    <3>3. p \in Seq(Sound)
      BY <3>1, <3>2
    <3>. QED
      BY <3>3 DEF p
  <2>. QED
    BY <2>1
<1>6. parts \in Seq(Seq(Sound))
  <2>. HIDE DEF Sound, n
  <2>. QED
    BY <1>1, <1>5
<1>7. Output(due) = FlattenSeq(parts)
  BY DEF Output
<1>8. Output(due) \in Seq(Sound)
  <2>. HIDE DEF parts, Sound
  <2>1. PICK g \in [0..Len(parts) -> Seq(Sound)] : FlattenSeq(parts) = g[Len(parts)]
    BY <1>6, Flattened
  <2>2. Len(parts) \in 0..Len(parts)
    BY <1>6
  <2>. QED
    BY <1>7, <2>1, <2>2
<1>9. \A s \in Seq(Sound) : s \in Seq(Parcel(sns)) /\ \A i \in 1..Len(s) : s[i] \in Sound
  <2>1. Sound \subseteq Parcel(sns)
    OBVIOUS
  <2>. HIDE DEF Sound
  <2>. QED
    BY <2>1
<1>10. parts \in Seq(Seq(Parcel(sns)))
  <2>1. \A i \in 1..n : Parts(Packets(due)[i]) \in Seq(Parcel(sns))
    <3>. HIDE DEF n, Sound
    <3>. QED
      BY <1>5, <1>9
  <2>. HIDE DEF n
  <2>. QED
    BY <1>1, <2>1
<1>11. \A i \in 1..Len(Output(due)) : Output(due)[i] \in Sound
  <2>. HIDE DEF Sound
  <2>. QED
    BY <1>8, <1>9
<1>12. Output(due) \in Seq(Parcel(sns))
  <2>. HIDE DEF Sound
  <2>. QED
    BY <1>8, <1>9
<1>. HIDE DEF parts
<1>. QED
  BY <1>3, <1>10, <1>11, <1>12 DEF parts

-----------------------------------------------------------------------------
(* Types, and what has arrived.                                            *)

SentBytes == ByteOf(0..snd_nxt - 1)

Typed ==
  /\ lens \in Files
  /\ queued \in 0..Len(lens) /\ snd_nxt \in 0..queued
  /\ snd_buf \subseteq 0..snd_nxt - 1
  /\ early \in 0..Early
  /\ wire \in Seq(Parcel(0..snd_nxt - 1))
  /\ \A i \in 1..Len(wire) : Len(wire[i].data) \in 1..UdpMtu
  /\ stream \in Seq(SentBytes)
  /\ rcv_nxt \in 0..snd_nxt
  /\ rcv_buf \subseteq rcv_nxt + 1..snd_nxt - 1
  /\ acklist \subseteq 0..snd_nxt - 1
  /\ {refused, read_file} \subseteq BOOLEAN

(* What is acknowledged, or need not be sent any more, is held.            *)
Held(sn) == sn < rcv_nxt \/ sn \in rcv_buf

HeldOnce ==
  \A sn \in 0..snd_nxt - 1 : sn \in acklist \/ sn \notin snd_buf => Held(sn)

(* The queue is the run of messages that ends before rcv_nxt, the file the *)
(* run before that one, without the name.                                  *)
MessagesRead == rcv_nxt - Len(rcv_queue)

Delivered ==
  /\ rcv_queue \in Seq(Nat) /\ MessagesRead \in Nat
  /\ \A i \in 1..Len(rcv_queue) : rcv_queue[i] = MessagesRead + i - 1
  /\ read_file <=> MessagesRead > 0
  /\ written = Prefix(IF MessagesRead = 0 THEN 0 ELSE MessagesRead - 1)
  /\ answered \in Nat

(* Upto is the first segment that is not held.                             *)
LEMMA UptoIs ==
  ASSUME rcv_nxt \in Nat, NEW n \in Nat, n = Len(lens), rcv_nxt <= n,
         NEW sns \in SUBSET (0..n - 1)
  PROVE  /\ Upto(sns) \in rcv_nxt..n
         /\ rcv_nxt..Upto(sns) - 1 \subseteq sns
         /\ Upto(sns) \notin sns
<1>. DEFINE T == {k \in rcv_nxt..n : k \notin sns}
<1>1. T \subseteq Nat /\ n \in T
  OBVIOUS
<1>2. PICK k \in T : \A j \in T : k <= j
  <2>. HIDE DEF T
  <2>. QED
    BY <1>1, LeastExists
<1>3. k \in rcv_nxt..n /\ k \notin sns
  OBVIOUS
<1>4. ASSUME NEW j \in rcv_nxt..k - 1 PROVE j \in sns
  <2>1. j \in rcv_nxt..n /\ j < k /\ j \in Int /\ k \in Int
    BY <1>3
  <2>2. j \notin T
    <3>. HIDE DEF T
    <3>. QED
      BY <1>2, <2>1
  <2>. QED
    BY <2>1, <2>2
<1>5. \E m \in rcv_nxt..n : rcv_nxt..m - 1 \subseteq sns /\ m \notin sns
  BY <1>3, <1>4
<1>6. Upto(sns) = CHOOSE m \in rcv_nxt..n : rcv_nxt..m - 1 \subseteq sns /\ m \notin sns
  BY DEF Upto
<1>. QED
  BY <1>5, <1>6

(* Nothing is sent at first.                                               *)
LEMMA InitTyped == Init => Typed /\ HeldOnce /\ Delivered
<1>. SUFFICES ASSUME Init PROVE Typed /\ HeldOnce /\ Delivered
  OBVIOUS
<1>1. lens \in Files /\ Len(lens) \in Nat /\ Early \in Nat
  BY LengthAssumption DEF Init
<1>2. Typed
  <2>1. /\ queued = 0 /\ snd_nxt = 0 /\ snd_buf = {} /\ early = 0 /\ wire = <<>>
        /\ stream = <<>> /\ rcv_nxt = 0 /\ rcv_buf = {} /\ acklist = {}
        /\ refused = FALSE /\ read_file = FALSE
    BY DEF Init
  <2>2. 0 \in 0..Len(lens) /\ 0 \in 0..0 /\ 0 \in 0..Early
    BY <1>1
  <2>3. <<>> \in Seq(SentBytes) /\ <<>> \in Seq(Parcel(0..snd_nxt - 1)) /\ Len(<<>>) = 0
        /\ 1..0 = {}
    OBVIOUS
  <2>. QED
    BY <1>1, <2>1, <2>2, <2>3 DEF Typed
<1>3. HeldOnce
  BY DEF Init, HeldOnce
<1>4. rcv_queue = <<>> /\ rcv_nxt = 0 /\ written = <<>>
      /\ read_file = FALSE /\ answered = 0
  BY DEF Init
<1>8. Len(rcv_queue) = 0 /\ rcv_queue \in Seq(Nat) /\ 1..Len(rcv_queue) = {}
  BY <1>4
<1>5. MessagesRead = 0
  <2>1. rcv_nxt = 0 /\ Len(rcv_queue) = 0
    BY <1>4, <1>8
  <2>. QED
    BY ONLY <2>1 DEF MessagesRead
<1>6. Prefix(0) = <<>>
  BY DEF Prefix
<1>7. Delivered
  <2>1. rcv_queue \in Seq(Nat) /\ MessagesRead \in Nat
        /\ \A i \in 1..Len(rcv_queue) : rcv_queue[i] = MessagesRead + i - 1
    BY <1>5, <1>8
  <2>2. written = Prefix(IF MessagesRead = 0 THEN 0 ELSE MessagesRead - 1)
    BY <1>4, <1>5, <1>6
  <2>3. ~ (MessagesRead > 0) /\ answered \in Nat
    BY <1>4, <1>5
  <2>4. read_file <=> MessagesRead > 0
    BY <1>4, <2>3
  <2>. QED
    BY <2>1, <2>2, <2>3, <2>4 DEF Delivered
<1>. QED
  BY <1>2, <1>3, <1>7

(* More segments have more bytes.                                          *)
LEMMA MoreBytes ==
  ASSUME NEW sns, NEW more, sns \subseteq more
  PROVE  /\ ByteOf(sns) \subseteq ByteOf(more)
         /\ \A s \in Seq(ByteOf(sns)) : s \in Seq(ByteOf(more))
         /\ \A s \in Seq(Parcel(sns)) : s \in Seq(Parcel(more))
<1>1. ByteOf(sns) \subseteq ByteOf(more)
  BY DEF ByteOf
<1>2. \A s \in Seq(ByteOf(sns)) : s \in Seq(ByteOf(more))
  BY <1>1
<1>3. Parcel(sns) \subseteq Parcel(more)
  BY <1>2 DEF Parcel
<1>4. \A s \in Seq(Parcel(sns)) : s \in Seq(Parcel(more))
  BY <1>3
<1>. QED
  BY <1>1, <1>2, <1>4

(* send_file gives the next message to KCP.                                *)
LEMMA SendStep ==
  ASSUME Typed, HeldOnce, Delivered, SendMessage
  PROVE  Typed' /\ HeldOnce' /\ Delivered'
<1>1. queued \in Nat /\ queued < Len(lens) /\ queued' = queued + 1 /\ Len(lens) \in Nat
  BY LengthAssumption DEF Typed, SendMessage
<1>2. UNCHANGED <<lens, snd_nxt, snd_buf, early, wire, stream, rcv_nxt, rcv_buf, rcv_queue,
                  acklist, refused, read_file, written, answered>>
  BY DEF SendMessage, rcv, app
<1>3. Typed'
  <2>1. queued' \in 0..Len(lens) /\ snd_nxt \in 0..queued'
    BY <1>1 DEF Typed
  <2>. QED
    BY <1>2, <2>1 DEF Typed, SentBytes, Parcel, ByteOf, Size
<1>4. HeldOnce'
  BY <1>2 DEF HeldOnce, Held
<1>5. Delivered'
  BY <1>2 DEF Delivered, MessagesRead
<1>. QED
  BY <1>3, <1>4, <1>5

(* ikcp_flush: what it sends is in snd_buf and not acknowledged.           *)
LEMMA FlushStep ==
  ASSUME Typed, HeldOnce, Delivered, Flush
  PROVE  Typed' /\ HeldOnce' /\ Delivered'
<1>1. PICK nxt \in snd_nxt..queued, again \in SUBSET snd_buf :
        /\ early' \in {early} \cup {e \in {early + 1} : early < Early}
        /\ snd_nxt' = nxt
        /\ snd_buf' = snd_buf \cup (snd_nxt..nxt - 1)
        /\ wire' = wire \o Output(InOrder((snd_nxt..nxt - 1) \cup again))
  BY DEF Flush
<1>2. UNCHANGED <<lens, queued, stream, rcv_nxt, rcv_buf, rcv_queue, acklist, refused,
                  read_file, written, answered>>
  BY DEF Flush, rcv, app
<1>. DEFINE n == Len(lens)
            all == (snd_nxt..nxt - 1) \cup again
            due == InOrder(all)
            sns == 0..nxt - 1
<1>3. n \in Nat /\ Early \in Nat
  BY LengthAssumption DEF Typed
<1>4. /\ snd_nxt \in Nat /\ queued \in Nat /\ nxt \in Nat /\ snd_nxt <= nxt
      /\ nxt <= queued /\ queued <= n
  BY <1>3 DEF Typed
<1>5. again \subseteq 0..snd_nxt - 1
  BY DEF Typed
<1>6. /\ all \in SUBSET (0..n - 1) /\ all \in SUBSET sns /\ sns \in SUBSET (0..n - 1)
      /\ 0..snd_nxt - 1 \subseteq sns
  BY <1>4, <1>5
<1>7. due \in Seq(sns)
  <2>. HIDE DEF all, n, sns
  <2>1. InOrder(all) \in Seq(all)
    BY <1>3, <1>6, InOrderIs
  <2>2. \A s \in Seq(all) : s \in Seq(sns)
    <3>1. all \subseteq sns
      BY <1>6
    <3>. QED
      BY ONLY <3>1
  <2>. QED
    BY <2>1, <2>2
<1>8. /\ Output(due) \in Seq(Parcel(sns))
      /\ \A i \in 1..Len(Output(due)) : Len(Output(due)[i].data) \in 1..UdpMtu
  <2>. HIDE DEF due, sns
  <2>. QED
    BY <1>6, <1>7, OutputIs DEF Typed
<1>9. Typed'
  <2>1. snd_nxt' \in 0..queued /\ snd_buf' \subseteq 0..nxt - 1 /\ early' \in 0..Early
    <3>1. snd_nxt' \in 0..queued
      BY <1>1, <1>4
    <3>2. snd_buf' \subseteq 0..nxt - 1
      <4>1. snd_buf \subseteq 0..nxt - 1
        BY <1>6 DEF Typed
      <4>2. snd_nxt..nxt - 1 \subseteq 0..nxt - 1
        BY <1>4
      <4>. QED
        BY <1>1, <4>1, <4>2
    <3>3. early' \in 0..Early
      BY <1>1, <1>3 DEF Typed
    <3>. QED
      BY <3>1, <3>2, <3>3
  <2>2. wire \in Seq(Parcel(sns)) /\ stream \in Seq(ByteOf(sns))
    <3>. HIDE DEF sns
    <3>. QED
      BY <1>6, MoreBytes DEF Typed, SentBytes
  <2>. HIDE DEF due
  <2>3. /\ wire' \in Seq(Parcel(sns))
        /\ \A i \in 1..Len(wire') : Len(wire'[i].data) \in 1..UdpMtu
    <3>1. wire' = wire \o Output(due)
      BY <1>1 DEF due
    <3>. HIDE DEF sns
    <3>2. /\ \A i \in 1..Len(wire) : wire'[i] = wire[i]
          /\ \A i \in Len(wire) + 1..Len(wire) + Len(Output(due)) :
               wire'[i] = Output(due)[i - Len(wire)]
          /\ Len(wire') = Len(wire) + Len(Output(due))
          /\ wire' \in Seq(Parcel(sns))
      BY <1>8, <2>2, <3>1, Joined
    <3>3. ASSUME NEW i \in 1..Len(wire') PROVE Len(wire'[i].data) \in 1..UdpMtu
      <4>0. Len(wire) \in Nat /\ Len(Output(due)) \in Nat
        BY <1>8, <2>2
      <4>1. CASE i <= Len(wire)
        BY <3>2, <4>0, <4>1 DEF Typed
      <4>2. CASE i > Len(wire)
        <5>. DEFINE j == i - Len(wire)
        <5>1. j \in 1..Len(Output(due)) /\ wire'[i] = Output(due)[j]
          BY <3>2, <4>0, <4>2
        <5>. HIDE DEF j
        <5>. QED
          BY <1>8, <5>1
      <4>. QED
        BY <4>0, <4>1, <4>2
    <3>. QED
      BY <3>2, <3>3
  <2>4. rcv_nxt \in 0..nxt /\ rcv_buf \subseteq rcv_nxt + 1..nxt - 1 /\ acklist \subseteq sns
    BY <1>4, <1>6 DEF Typed
  <2>. QED
    BY <1>1, <1>2, <2>1, <2>2, <2>3, <2>4 DEF Typed, SentBytes, Parcel, ByteOf, Size
<1>10. HeldOnce'
  <2>1. ASSUME NEW sn \in 0..nxt - 1, sn \in acklist \/ sn \notin snd_buf'
        PROVE  Held(sn)
    <3>1. CASE sn < snd_nxt
      <4>1. sn \in 0..snd_nxt - 1
        BY <1>4, <3>1
      <4>2. sn \in acklist \/ sn \notin snd_buf
        BY <1>1, <2>1
      <4>. QED
        BY <4>1, <4>2 DEF HeldOnce
    <3>2. CASE ~(sn < snd_nxt)
      <4>1. sn \in snd_nxt..nxt - 1 /\ sn \notin 0..snd_nxt - 1
        BY <1>4, <3>2
      <4>. QED
        BY <1>1, <2>1, <4>1 DEF Typed
    <3>. QED
      BY <3>1, <3>2
  <2>. QED
    BY <1>1, <1>2, <2>1 DEF HeldOnce, Held
<1>11. Delivered'
  BY <1>2 DEF Delivered, MessagesRead
<1>. QED
  BY <1>9, <1>10, <1>11

(* An acknowledged segment is held by the server.                          *)
LEMMA AcknowledgeStep ==
  ASSUME Typed, HeldOnce, Delivered, Acknowledge
  PROVE  Typed' /\ HeldOnce' /\ Delivered'
<1>1. snd_buf' = {sn \in snd_buf : ~Released(sn)} /\ acklist' = {}
  BY DEF Acknowledge
<1>2. UNCHANGED <<lens, queued, snd_nxt, early, wire, stream, rcv_nxt, rcv_buf, rcv_queue,
                  refused, read_file, written, answered>>
  BY DEF Acknowledge, app
<1>3. Typed'
  BY <1>1, <1>2 DEF Typed, SentBytes, Parcel, ByteOf, Size
<1>4. HeldOnce'
  BY <1>1, <1>2 DEF HeldOnce, Held, Released
<1>5. Delivered'
  BY <1>2 DEF Delivered, MessagesRead
<1>. QED
  BY <1>3, <1>4, <1>5

(* A TCP segment becomes the end of the stream.                            *)
LEMMA ArriveStep ==
  ASSUME Typed, HeldOnce, Delivered, Arrive
  PROVE  Typed' /\ HeldOnce' /\ Delivered'
<1>1. wire # <<>> /\ wire' = Tail(wire) /\ stream' = stream \o Head(wire).data
  BY DEF Arrive
<1>2. UNCHANGED <<lens, queued, snd_nxt, snd_buf, early, rcv_nxt, rcv_buf, rcv_queue,
                  acklist, refused, read_file, written, answered>>
  BY DEF Arrive, client, rcv, app
<1>. DEFINE S == ByteOf(0..snd_nxt - 1)
<1>3. wire \in Seq(Parcel(0..snd_nxt - 1)) /\ stream \in Seq(S)
  BY DEF Typed, SentBytes
<1>4. Head(wire) \in Parcel(0..snd_nxt - 1) /\ wire' \in Seq(Parcel(0..snd_nxt - 1))
      /\ Len(wire') = Len(wire) - 1 /\ Len(wire) \in Nat
      /\ \A i \in 1..Len(wire') : wire'[i] = wire[i + 1]
  BY <1>1, <1>3
<1>5. Head(wire).data \in Seq(S)
  BY <1>4 DEF Parcel
<1>6. stream' \in Seq(S)
  <2>. HIDE DEF S
  <2>. QED
    BY <1>1, <1>3, <1>5
<1>7. \A i \in 1..Len(wire') : Len(wire'[i].data) \in 1..UdpMtu
  <2>1. ASSUME NEW i \in 1..Len(wire') PROVE Len(wire'[i].data) \in 1..UdpMtu
    <3>1. i + 1 \in 1..Len(wire)
      BY <1>4
    <3>2. Len(wire[i + 1].data) \in 1..UdpMtu
      BY <3>1 DEF Typed
    <3>. QED
      BY <1>4, <3>2
  <2>. QED
    BY <2>1
<1>8. Typed'
  BY <1>2, <1>4, <1>6, <1>7 DEF Typed, SentBytes, Parcel, ByteOf, Size
<1>9. HeldOnce'
  BY <1>2 DEF HeldOnce, Held
<1>10. Delivered'
  BY <1>2 DEF Delivered, MessagesRead
<1>. QED
  BY <1>8, <1>9, <1>10

(* ikcp_input takes segments that the bytes belong to.                     *)
LEMMA TakenIs ==
  ASSUME NEW sns, NEW bytes \in Seq(ByteOf(sns))
  PROVE  Taken(bytes) \subseteq sns
<1>1. \A i \in DOMAIN bytes : bytes[i][1] \in sns
  <2>1. \A i \in DOMAIN bytes : bytes[i] \in ByteOf(sns)
    <3>. DEFINE S == ByteOf(sns)
    <3>. HIDE DEF S
    <3>1. bytes \in Seq(S)
      BY DEF S
    <3>2. \A i \in DOMAIN bytes : bytes[i] \in S
      BY <3>1
    <3>. QED
      BY <3>2 DEF S
  <2>. QED
    BY <2>1 DEF ByteOf
<1>. QED
  BY <1>1 DEF Taken, Begins

(* ikcp_recv returns a number of messages of rcv_queue.                    *)
LEMMA ReadableIs ==
  ASSUME NEW queue \in Seq(Nat), NEW size
  PROVE  Readable(queue, size) \in 0..Len(queue)
<1>. DEFINE n == Len(queue)
            s == {k \in 0..n : \A i \in 1..k : lens[queue[i] + 1] <= size}
<1>1. n \in Nat /\ 0 \in s /\ s \in SUBSET (0..n)
  OBVIOUS
<1>. HIDE DEF s
<1>2. Max(s) \in s
  BY <1>1, MaxOf
<1>. QED
  BY <1>1, <1>2 DEF s, Readable

LEMMA WiderSeq ==
  ASSUME NEW S, NEW T, S \subseteq T PROVE \A s \in Seq(S) : s \in Seq(T)
OBVIOUS

(* A run of numbers and the next one behind it are one run.                *)
LEMMA QueueIs ==
  ASSUME NEW q \in Seq(Nat), NEW m \in Nat, NEW n \in Nat, NEW a \in 0..n,
         NEW b \in a..n, m = a - Len(q), \A i \in 1..Len(q) : q[i] = m + i - 1
  PROVE  /\ q \o InOrder(a..b - 1) \in Seq(Nat)
         /\ Len(q \o InOrder(a..b - 1)) = b - m
         /\ \A i \in 1..b - m : (q \o InOrder(a..b - 1))[i] = m + i - 1
<1>. DEFINE T == a..b - 1
            new == InOrder(T)
            l == Len(q)
<1>1. Len(new) = b - a /\ \A i \in 1..b - a : new[i] = a + i - 1
  BY InOrderRun
<1>2. T \in SUBSET (0..n - 1) /\ T \subseteq Nat
  OBVIOUS
<1>3. new \in Seq(Nat)
  <2>. HIDE DEF T
  <2>1. InOrder(T) \in Seq(T)
    BY <1>2, InOrderIs
  <2>2. \A s \in Seq(T) : s \in Seq(Nat)
    BY <1>2, WiderSeq
  <2>. QED
    BY <2>1, <2>2
<1>4. l \in Nat /\ b - m = l + (b - a)
  OBVIOUS
<1>. HIDE DEF new
<1>5. /\ q \o new \in Seq(Nat) /\ Len(q \o new) = l + Len(new)
      /\ \A i \in 1..l : (q \o new)[i] = q[i]
      /\ \A i \in l + 1..l + Len(new) : (q \o new)[i] = new[i - l]
  BY <1>3, Joined
<1>6. ASSUME NEW i \in 1..b - m PROVE (q \o new)[i] = m + i - 1
  <2>1. CASE i <= l
    BY <1>4, <1>5, <2>1
  <2>2. CASE i > l
    <3>. DEFINE j == i - l
    <3>1. j \in 1..b - a /\ i \in l + 1..l + Len(new) /\ a + j - 1 = m + i - 1
      BY <1>1, <1>4, <2>2
    <3>2. (q \o new)[i] = new[j]
      BY <1>5, <3>1
    <3>. HIDE DEF j
    <3>3. new[j] = a + j - 1
      BY <1>1, <3>1
    <3>. QED
      BY <3>1, <3>2, <3>3
  <2>3. i <= l \/ i > l
    <3>1. i \in Int /\ l \in Int
      BY <1>4
    <3>. HIDE DEF l
    <3>. QED
      BY ONLY <3>1
  <2>. QED
    BY <2>1, <2>2, <2>3
<1>7. Len(q \o new) = b - m
  BY <1>1, <1>4, <1>5
<1>. QED
  BY <1>5, <1>6, <1>7 DEF new

(* ikcp_parse_data moves the run that begins at rcv_nxt to rcv_queue.      *)
LEMMA ParseIs ==
  ASSUME Typed, Delivered, NEW sns \in SUBSET (0..snd_nxt - 1), ParseData(sns)
  PROVE  /\ rcv_nxt' \in rcv_nxt..snd_nxt
         /\ rcv_buf' \subseteq rcv_nxt' + 1..snd_nxt - 1
         /\ acklist' = acklist \cup sns
         /\ \A sn \in rcv_buf \cup sns : sn < rcv_nxt' \/ sn \in rcv_buf'
         /\ rcv_nxt..rcv_nxt' - 1 \subseteq rcv_buf \cup sns
         /\ InQueue(sns) \in Seq(Nat)
         /\ Len(InQueue(sns)) = rcv_nxt' - MessagesRead
         /\ \A i \in 1..rcv_nxt' - MessagesRead : InQueue(sns)[i] = MessagesRead + i - 1
<1>. DEFINE n == Len(lens)
            old == rcv_buf \cup sns
            held == {sn \in old : sn >= rcv_nxt}
            b == rcv_nxt'
            kept == rcv_buf'
<1>1. b = Upto(held) /\ kept = {sn \in held : sn >= b}
      /\ acklist' = acklist \cup sns
  BY DEF ParseData, Kept
<1>2. /\ n \in Nat /\ rcv_nxt \in Nat /\ snd_nxt \in Nat /\ rcv_nxt <= snd_nxt
      /\ snd_nxt <= n
  BY LengthAssumption DEF Typed
<1>3. old \in SUBSET (0..snd_nxt - 1)
  BY <1>2 DEF Typed
<1>4. held \in SUBSET (0..n - 1)
  <2>1. held \subseteq old
    OBVIOUS
  <2>. HIDE DEF held, n, old
  <2>. QED
    BY <1>2, <1>3, <2>1
<1>5. /\ b \in rcv_nxt..n
      /\ rcv_nxt..b - 1 \subseteq held
      /\ b \notin held
  <2>. HIDE DEF held, n
  <2>1. n = Len(lens) /\ rcv_nxt <= n
    BY <1>2 DEF n
  <2>. HIDE DEF b
  <2>. QED
    BY <1>1, <1>2, <1>4, <2>1, UptoIs
<1>6. /\ b \in rcv_nxt..snd_nxt
      /\ kept \subseteq b + 1..snd_nxt - 1
      /\ \A sn \in old : sn < b \/ sn \in kept
      /\ rcv_nxt..b - 1 \subseteq old
  <2>1. \A sn : sn \in held <=> sn \in old /\ sn >= rcv_nxt
    OBVIOUS
  <2>3. \A sn : sn \in kept <=> sn \in held /\ sn >= b
    <3>. HIDE DEF held, b, kept
    <3>. QED
      BY <1>1
  <2>. DEFINE s == snd_nxt
              a == rcv_nxt
  <2>2. /\ n \in Nat /\ s \in 0..n /\ a \in 0..s /\ b \in a..n
        /\ old \in SUBSET (0..s - 1) /\ a..b - 1 \subseteq held /\ b \notin held
    <3>. HIDE DEF held, n, b, old, kept
    <3>. QED
      BY <1>2, <1>3, <1>5
  <2>4. \A sn : sn \in held <=> sn \in old /\ sn >= a
    BY <2>1
  <2>. HIDE DEF held, n, b, old, kept, a, s
  <2>5. /\ b \in a..s /\ kept \subseteq b + 1..s - 1
        /\ \A sn \in old : sn < b \/ sn \in kept
        /\ a..b - 1 \subseteq old
    <3>. USE <2>2, <2>3, <2>4
    <3>0. a \in Int /\ b \in Int /\ s \in Int /\ b >= a
      OBVIOUS
    <3>1. \A sn \in held : sn \in Int /\ sn < s /\ sn >= a
      <4>1. \A sn \in old : sn \in Int /\ sn < s
        OBVIOUS
      <4>. QED
        BY <4>1
    <3>2. b \in a..s
      <4>1. CASE b = a
        BY <4>1
      <4>2. CASE b > a
        <5>1. b - 1 \in a..b - 1
          BY ONLY <3>0, <4>2
        <5>2. b - 1 < s
          BY <3>1, <5>1
        <5>. QED
          BY <5>2
      <4>. QED
        BY <4>1, <4>2
    <3>3. kept \subseteq b + 1..s - 1
      <4>1. ASSUME NEW sn \in held, sn >= b PROVE sn \in b + 1..s - 1
        <5>1. sn \in Int /\ sn < s /\ sn # b
          BY <3>1
        <5>. QED
          BY ONLY <3>0, <4>1, <5>1
      <4>. QED
        BY <4>1
    <3>4. ASSUME NEW sn \in old PROVE sn < b \/ sn \in kept
      <4>1. sn \in Int
        OBVIOUS
      <4>2. CASE sn >= b
        <5>1. sn >= a
          BY ONLY <3>0, <4>1, <4>2
        <5>2. sn \in held
          BY <5>1
        <5>. QED
          BY <4>2, <5>2
      <4>. QED
        BY <4>1, <4>2
    <3>5. a..b - 1 \subseteq old
      <4>1. held \subseteq old
        OBVIOUS
      <4>. QED
        BY <4>1
    <3>. QED
      BY <3>2, <3>3, <3>4, <3>5
  <2>. QED
    BY <2>5 DEF a, s
<1>7. MessagesRead \in Nat /\ MessagesRead = rcv_nxt - Len(rcv_queue)
      /\ rcv_queue \in Seq(Nat)
      /\ \A i \in 1..Len(rcv_queue) : rcv_queue[i] = MessagesRead + i - 1
  BY DEF Delivered, MessagesRead
<1>8. InQueue(sns) = rcv_queue \o InOrder(rcv_nxt..b - 1)
  <2>1. {sn \in old : sn \in rcv_nxt..b - 1} = rcv_nxt..b - 1
    <3>. HIDE DEF old, b
    <3>. QED
      BY <1>6
  <2>. QED
    BY <2>1 DEF InQueue
<1>9. /\ InQueue(sns) \in Seq(Nat)
      /\ Len(InQueue(sns)) = b - MessagesRead
      /\ \A i \in 1..b - MessagesRead : InQueue(sns)[i] = MessagesRead + i - 1
  <2>. DEFINE m == MessagesRead
              q == rcv_queue
              a == rcv_nxt
  <2>1. a \in 0..n /\ b \in a..n /\ q \in Seq(Nat) /\ m \in Nat /\ n \in Nat
        /\ m = a - Len(q)
    BY <1>2, <1>5, <1>7
  <2>2. \A i \in 1..Len(q) : q[i] = m + i - 1
    BY <1>7
  <2>. HIDE DEF n, b, m, q, a
  <2>3. /\ q \o InOrder(a..b - 1) \in Seq(Nat)
        /\ Len(q \o InOrder(a..b - 1)) = b - m
        /\ \A i \in 1..b - m : (q \o InOrder(a..b - 1))[i] = m + i - 1
    BY <2>1, <2>2, QueueIs
  <2>. QED
    BY <1>8, <2>3 DEF m, q, a
<1>. QED
  BY <1>1, <1>6, <1>9

Named(m) == IF m = 0 THEN 0 ELSE m - 1

(* The messages 1 to a and those that follow.                              *)
LEMMA PrefixJoined ==
  ASSUME NEW a \in Nat, NEW s \in Seq(Nat), \A i \in 1..Len(s) : s[i] = a + i
  PROVE  Prefix(a) \o s = Prefix(a + Len(s))
<1>1. Prefix(a) \in Seq(Nat) /\ Len(Prefix(a)) = a /\ \A i \in 1..a : Prefix(a)[i] = i
  <2>1. Prefix(a) \in [1..a -> Nat]
    BY DEF Prefix
  <2>2. \A f \in [1..a -> Nat] : f \in Seq(Nat) /\ Len(f) = a
    OBVIOUS
  <2>3. \A i \in 1..a : Prefix(a)[i] = i
    BY DEF Prefix
  <2>. HIDE DEF Prefix
  <2>. QED
    BY <2>1, <2>2, <2>3
<1>. DEFINE p == Prefix(a)
            q == p \o s
            n == a + Len(s)
<1>2. /\ q \in Seq(Nat) /\ Len(q) = n
      /\ \A i \in 1..a : q[i] = p[i]
      /\ \A i \in a + 1..n : q[i] = s[i - a]
  <2>1. p \in Seq(Nat) /\ Len(p) = a
    BY <1>1
  <2>. HIDE DEF p
  <2>2. /\ p \o s \in Seq(Nat) /\ Len(p \o s) = Len(p) + Len(s)
        /\ \A i \in 1..Len(p) : (p \o s)[i] = p[i]
        /\ \A i \in Len(p) + 1..Len(p) + Len(s) : (p \o s)[i] = s[i - Len(p)]
    BY <2>1, Joined
  <2>. QED
    BY <2>1, <2>2
<1>3. ASSUME NEW i \in 1..n PROVE q[i] = i
  <2>. HIDE DEF p, q
  <2>1. CASE i <= a
    BY <1>1, <1>2, <2>1 DEF p
  <2>2. CASE i > a
    <3>. DEFINE j == i - a
    <3>1. j \in 1..Len(s) /\ i \in a + 1..n /\ a + j = i
      BY <2>2
    <3>2. q[i] = s[j]
      BY <1>2, <3>1
    <3>. HIDE DEF j
    <3>. QED
      BY <3>1, <3>2
  <2>. QED
    BY <2>1, <2>2
<1>4. q = [i \in 1..n |-> i]
  <2>. HIDE DEF q
  <2>1. q = [i \in 1..n |-> q[i]]
    BY <1>2
  <2>. QED
    BY <1>3, <2>1
<1>. QED
  BY <1>4 DEF Prefix

(* What startEpoll does with the messages m .. m + n - 1.                  *)
LEMMA ProcessIs ==
  ASSUME NEW m \in Nat, NEW messages \in Seq(Nat), answered \in Nat,
         \A i \in 1..Len(messages) : messages[i] = m + i - 1,
         read_file \in BOOLEAN, read_file <=> m > 0, written = Prefix(Named(m)),
         Process(messages)
  PROVE  /\ read_file' \in BOOLEAN
         /\ read_file' <=> m + Len(messages) > 0
         /\ written' = Prefix(Named(m + Len(messages)))
         /\ answered' \in Nat
<1>. DEFINE n == Len(messages)
            data == IF read_file \/ messages = <<>> THEN messages ELSE Tail(messages)
<1>1. n \in Nat /\ (messages = <<>> <=> n = 0)
  OBVIOUS
<1>2. read_file' = (read_file \/ messages # <<>>) /\ written' = written \o data
  BY DEF Process
<1>3. read_file' \in BOOLEAN
  BY <1>2
<1>4. read_file' <=> m + n > 0
  <2>1. m + n > 0 <=> m > 0 \/ n # 0
    BY <1>1
  <2>. QED
    BY <1>1, <1>2, <2>1
<1>5. written' = Prefix(Named(m + n))
  <2>. DEFINE a == Named(m)
  <2>1. a \in Nat
    BY DEF Named
  <2>2. CASE m > 0 \/ n = 0
    <3>1. data = messages
      BY <1>1, <2>2
    <3>2. \A i \in 1..n : messages[i] = a + i
      BY <2>2 DEF Named
    <3>3. a + n = Named(m + n)
      BY <1>1, <2>2 DEF Named
    <3>. HIDE DEF a, data
    <3>4. Prefix(a) \o messages = Prefix(a + n)
      BY <2>1, <3>2, PrefixJoined
    <3>. QED
      BY <1>2, <3>1, <3>3, <3>4 DEF a
  <2>3. CASE m = 0 /\ n > 0
    <3>. DEFINE t == Tail(messages)
    <3>1. data = t
      BY <1>1, <2>3
    <3>2. t \in Seq(Nat) /\ Len(t) = n - 1 /\ \A i \in 1..n - 1 : t[i] = messages[i + 1]
      BY <1>1, <2>3
    <3>3. \A i \in 1..Len(t) : t[i] = 0 + i
      <4>. HIDE DEF t
      <4>1. ASSUME NEW i \in 1..Len(t) PROVE t[i] = 0 + i
        <5>. DEFINE j == i + 1
        <5>1. j \in 1..n /\ t[i] = messages[j]
          BY <1>1, <3>2
        <5>. HIDE DEF j
        <5>2. messages[j] = m + j - 1
          BY <5>1
        <5>. QED
          BY <2>3, <5>1, <5>2 DEF j
      <4>. QED
        BY <4>1
    <3>4. a = 0 /\ Named(m + n) = 0 + Len(t)
      <4>. HIDE DEF t
      <4>. QED
        BY <1>1, <2>3, <3>2 DEF Named
    <3>. HIDE DEF t
    <3>5. Prefix(0) \o t = Prefix(0 + Len(t))
      BY <3>2, <3>3, PrefixJoined
    <3>. HIDE DEF data
    <3>. QED
      BY <1>2, <3>1, <3>4, <3>5
  <2>. QED
    BY <1>1, <2>2, <2>3
<1>6. answered' \in Nat
  <2>1. Named(m + n) \in Nat /\ Named(m) \in Nat
    BY <1>1 DEF Named
  <2>2. Len(written) \in Nat /\ Len(written') \in Nat
    <3>1. \A k \in Nat : Len(Prefix(k)) \in Nat
      BY DEF Prefix
    <3>. QED
      BY <1>5, <2>1, <3>1
  <2>. DEFINE T == {i \in Len(written) + 1..Len(written') :
                      Complete(SubSeq(written', 1, i))}
              I == Len(written) + 1..Len(written')
  <2>3. IsFiniteSet(I)
    <3>1. Len(written) + 1 \in Int /\ Len(written') \in Int
      BY <2>2
    <3>. QED
      BY <3>1, FS_Interval
  <2>4. T \subseteq I
    OBVIOUS
  <2>. HIDE DEF T, I
  <2>5. IsFiniteSet(T)
    BY <2>3, <2>4, FS_Subset
  <2>6. Cardinality(T) \in Nat
    BY <2>5, FS_CardinalityType
  <2>7. answered' = answered + Cardinality(T)
    BY DEF Process, T
  <2>. QED
    BY <2>6, <2>7
<1>. QED
  BY <1>3, <1>4, <1>5, <1>6

(* A read of startEpoll's loop: input, recv, and the file.                 *)
LEMMA ReadStep ==
  ASSUME Typed, HeldOnce, Delivered, Read
  PROVE  /\ Typed' /\ HeldOnce' /\ Delivered'
         /\ MessagesRead <= MessagesRead'
<1>. DEFINE size == Min({Len(stream), ReadMax})
            bytes == SubSeq(stream, 1, size)
            sns == IF size < Overhead THEN {} ELSE Taken(bytes)
            queue == InQueue(sns)
            n == IF Refuses(bytes) THEN 0 ELSE Readable(queue, size)
            S == ByteOf(0..snd_nxt - 1)
            m == MessagesRead
            mine == SubSeq(queue, 1, n)
<1>1. /\ stream # <<>> /\ stream' = SubSeq(stream, size + 1, Len(stream))
      /\ refused' = (refused \/ Refuses(bytes))
      /\ ParseData(sns)
      /\ rcv_queue' = SubSeq(queue, n + 1, Len(queue))
      /\ Process(mine)
  BY DEF Read
<1>2. UNCHANGED <<lens, queued, snd_nxt, snd_buf, early, wire>>
  BY DEF Read, client
<1>3. stream \in Seq(S) /\ Len(stream) \in Nat /\ ReadMax \in Nat
  BY LengthAssumption DEF Typed, SentBytes
<1>4. size \in Nat /\ size <= Len(stream)
  <2>. DEFINE k == Len(stream)
  <2>1. k \in Int /\ ReadMax \in Int /\ k \in Nat /\ ReadMax \in Nat
    BY <1>3
  <2>. HIDE DEF k
  <2>2. Min({k, ReadMax}) \in {k, ReadMax} /\ Min({k, ReadMax}) <= k
    BY <2>1, MinOf
  <2>. QED
    BY <2>1, <2>2 DEF k
<1>5. bytes \in Seq(S) /\ stream' \in Seq(S)
  <2>. HIDE DEF S, size
  <2>. QED
    BY <1>1, <1>3, <1>4
<1>6. sns \in SUBSET (0..snd_nxt - 1)
  <2>1. Taken(bytes) \subseteq 0..snd_nxt - 1
    <3>. HIDE DEF bytes
    <3>. QED
      BY <1>5, TakenIs
  <2>. HIDE DEF bytes, size
  <2>. QED
    BY <2>1
<1>7. /\ rcv_nxt' \in rcv_nxt..snd_nxt
      /\ rcv_buf' \subseteq rcv_nxt' + 1..snd_nxt - 1
      /\ acklist' = acklist \cup sns
      /\ \A sn \in rcv_buf \cup sns : sn < rcv_nxt' \/ sn \in rcv_buf'
      /\ queue \in Seq(Nat)
      /\ Len(queue) = rcv_nxt' - m
      /\ \A i \in 1..rcv_nxt' - m : queue[i] = m + i - 1
  <2>. HIDE DEF sns
  <2>. QED
    BY <1>1, <1>6, ParseIs
<1>8. n \in 0..Len(queue)
  <2>. HIDE DEF queue, size, bytes
  <2>1. Len(queue) \in Nat
    BY <1>7
  <2>2. Readable(queue, size) \in 0..Len(queue)
    BY <1>7, ReadableIs
  <2>. QED
    BY <2>1, <2>2
<1>9. rcv_nxt \in Nat /\ snd_nxt \in Nat /\ m \in Nat /\ rcv_nxt' \in Nat
      /\ rcv_nxt <= rcv_nxt' /\ rcv_nxt' <= snd_nxt
  <2>1. rcv_nxt \in Nat /\ snd_nxt \in Nat /\ m \in Nat
    BY LengthAssumption DEF Typed, Delivered
  <2>. HIDE DEF m, queue
  <2>. QED
    BY <1>7, <2>1
<1>. HIDE DEF size, bytes, sns, queue, n, S, m
<1>10. Typed'
  <2>1. acklist' \subseteq 0..snd_nxt - 1
    BY <1>6, <1>7 DEF Typed
  <2>2. rcv_nxt' \in 0..snd_nxt
    BY <1>9
  <2>3. refused' \in BOOLEAN
    BY <1>1 DEF Typed
  <2>4. read_file' \in BOOLEAN
    BY <1>1 DEF Process
  <2>5. stream' \in Seq(ByteOf(0..snd_nxt - 1))
    BY <1>5 DEF S
  <2>. QED
    BY <1>2, <1>7, <2>1, <2>2, <2>3, <2>4, <2>5 DEF Typed, SentBytes, Parcel, ByteOf, Size
<1>11. HeldOnce'
  <2>1. ASSUME NEW sn \in 0..snd_nxt - 1, sn \in acklist' \/ sn \notin snd_buf
        PROVE  sn < rcv_nxt' \/ sn \in rcv_buf'
    <3>1. CASE sn \in sns
      BY <1>7, <3>1
    <3>2. CASE sn \notin sns
      <4>1. Held(sn)
        BY <1>7, <2>1, <3>2 DEF HeldOnce
      <4>2. CASE sn \in rcv_buf
        BY <1>7, <4>2
      <4>3. CASE sn < rcv_nxt
        <5>1. sn \in Int
          OBVIOUS
        <5>. QED
          BY <1>9, <4>3, <5>1
      <4>. QED
        BY <4>1, <4>2, <4>3 DEF Held
    <3>. QED
      BY <3>1, <3>2
  <2>. QED
    BY <1>2, <2>1 DEF HeldOnce, Held
<1>12. /\ mine \in Seq(Nat) /\ Len(mine) = n
       /\ \A i \in 1..Len(mine) : mine[i] = m + i - 1
  <2>1. Len(queue) \in Nat /\ n <= Len(queue) /\ n \in Nat
    BY <1>7, <1>8
  <2>2. mine \in Seq(Nat) /\ Len(mine) = n /\ \A i \in 1..n : mine[i] = queue[i]
    BY <1>7, <2>1
  <2>3. \A i \in 1..n : i \in 1..rcv_nxt' - m
    BY <1>7, <2>1
  <2>. HIDE DEF mine
  <2>. QED
    BY <1>7, <2>2, <2>3
<1>13. /\ read_file' \in BOOLEAN
       /\ read_file' <=> m + n > 0
       /\ written' = Prefix(Named(m + n))
       /\ answered' \in Nat
  <2>1. /\ read_file \in BOOLEAN
        /\ read_file <=> m > 0
        /\ written = Prefix(Named(m)) /\ answered \in Nat
    BY DEF Typed, Delivered, m, Named
  <2>. HIDE DEF mine
  <2>2. /\ read_file' \in BOOLEAN
        /\ read_file' <=> m + Len(mine) > 0
        /\ written' = Prefix(Named(m + Len(mine)))
        /\ answered' \in Nat
    BY <1>1, <1>9, <1>12, <2>1, ProcessIs
  <2>. QED
    BY <1>12, <2>2
<1>14. /\ rcv_queue' \in Seq(Nat) /\ Len(rcv_queue') = rcv_nxt' - (m + n)
       /\ \A i \in 1..Len(rcv_queue') : rcv_queue'[i] = (m + n) + i - 1
  <2>. DEFINE l == Len(queue)
              rest == SubSeq(queue, n + 1, l)
  <2>1. l \in Nat /\ n <= l /\ n \in Nat /\ l = rcv_nxt' - m
    BY <1>7, <1>8
  <2>2. rest \in Seq(Nat) /\ Len(rest) = l - n /\ \A i \in 1..l - n : rest[i] = queue[n + i]
    BY <1>7, <2>1
  <2>. HIDE DEF rest
  <2>3. ASSUME NEW i \in 1..l - n PROVE rest[i] = (m + n) + i - 1
    <3>. DEFINE j == n + i
    <3>1. j \in 1..rcv_nxt' - m /\ j \in Int /\ i \in Int /\ m \in Int /\ n \in Int
      <4>. DEFINE r == rcv_nxt'
      <4>1. r \in Int /\ m \in Int /\ n \in Nat /\ l = r - m /\ l \in Int
        BY <1>9, <2>1
      <4>. HIDE DEF l, r
      <4>2. j \in 1..r - m /\ j \in Int /\ i \in Int
        BY <4>1
      <4>3. j \in 1..rcv_nxt' - m
        BY <4>2 DEF r
      <4>4. n \in Int
        BY <4>1
      <4>. QED
        BY <4>1, <4>2, <4>3, <4>4
    <3>2. rest[i] = queue[j]
      BY <2>2
    <3>. HIDE DEF j
    <3>3. queue[j] = m + j - 1
      BY <1>7, <3>1
    <3>4. m + j - 1 = (m + n) + i - 1
      BY <3>1 DEF j
    <3>. QED
      BY <3>2, <3>3, <3>4
  <2>4. l - n = rcv_nxt' - (m + n)
    <3>. DEFINE r == rcv_nxt'
    <3>1. r \in Int /\ m \in Int /\ n \in Int /\ l = r - m
      BY <1>9, <2>1
    <3>. HIDE DEF l, r
    <3>2. l - n = r - (m + n)
      BY <3>1
    <3>. QED
      BY <3>2 DEF r
  <2>. HIDE DEF l
  <2>5. rcv_queue' = rest
    BY <1>1 DEF rest, l
  <2>. QED
    BY <2>2, <2>3, <2>4, <2>5
<1>15. MessagesRead' = m + n
  <2>1. MessagesRead' = rcv_nxt' - Len(rcv_queue')
    BY DEF MessagesRead
  <2>2. m \in Nat /\ n \in Nat /\ rcv_nxt' \in Nat
    BY <1>7, <1>8, <1>9
  <2>. DEFINE r == rcv_nxt'
              q == Len(rcv_queue')
  <2>3. r \in Int /\ m + n \in Int /\ q = r - (m + n)
    BY <1>14, <2>2
  <2>. HIDE DEF r, q
  <2>4. r - q = m + n
    BY <2>3
  <2>. QED
    BY <2>1, <2>4 DEF r, q
<1>16. Delivered'
  <2>1. m + n \in Nat
    BY <1>7, <1>8, <1>9
  <2>. QED
    BY <1>13, <1>14, <1>15, <2>1 DEF Delivered, Named
<1>17. MessagesRead <= MessagesRead'
  <2>1. MessagesRead = m
    BY DEF m
  <2>2. m <= m + n
    BY <1>7, <1>8, <1>9
  <2>. QED
    BY <1>15, <2>1, <2>2
<1>. QED
  BY <1>10, <1>11, <1>16, <1>17

StreamInv == Typed /\ HeldOnce /\ Delivered

LEMMA StreamStep == StreamInv /\ [Next]_vars => StreamInv'
<1>. SUFFICES ASSUME StreamInv, [Next]_vars PROVE StreamInv'
  OBVIOUS
<1>1. CASE SendMessage
  BY <1>1, SendStep DEF StreamInv
<1>2. CASE Acknowledge
  BY <1>2, AcknowledgeStep DEF StreamInv
<1>3. CASE Arrive
  BY <1>3, ArriveStep DEF StreamInv
<1>4. CASE Read
  BY <1>4, ReadStep DEF StreamInv
<1>5. CASE Flush
  BY <1>5, FlushStep DEF StreamInv
<1>6. CASE UNCHANGED vars
  <2>1. UNCHANGED <<lens, queued, snd_nxt, snd_buf, early, wire, stream, rcv_nxt, rcv_buf,
                    rcv_queue, acklist, refused, read_file, written, answered>>
    BY <1>6 DEF vars, client, rcv, app
  <2>2. Typed'
    BY <2>1 DEF StreamInv, Typed, SentBytes, Parcel, ByteOf, Size
  <2>3. HeldOnce' /\ Delivered'
    BY <2>1 DEF StreamInv, HeldOnce, Held, Delivered, MessagesRead
  <2>. QED
    BY <2>2, <2>3 DEF StreamInv
<1>. QED
  BY <1>1, <1>2, <1>3, <1>4, <1>5, <1>6 DEF Next

(* Types, what is held, and what was delivered, at every moment: the       *)
(* invariant the theorems on the file rest on.                             *)
THEOREM StreamInvariant == Spec => []StreamInv
<1>1. Init => StreamInv
  BY InitTyped DEF StreamInv
<1>. QED
  BY <1>1, StreamStep, PTL DEF Spec

LEMMA TypedIsTypeOK == StreamInv => TypeOK
<1>. SUFFICES ASSUME StreamInv PROVE TypeOK
  OBVIOUS
<1>1. /\ Typed /\ Delivered
  BY DEF StreamInv
<1>2. \A i \in DOMAIN wire : Len(wire[i].data) \in 1..UdpMtu /\ wire[i].check \in Word
  <2>1. wire \in Seq(Parcel(0..snd_nxt - 1))
    BY <1>1 DEF Typed
  <2>2. \A i \in 1..Len(wire) : wire[i].check \in Word
    <3>. DEFINE P == Parcel(0..snd_nxt - 1)
    <3>1. \A p \in P : p.check \in Word
      BY DEF Parcel
    <3>2. wire \in Seq(P)
      BY <2>1
    <3>. HIDE DEF P
    <3>. QED
      BY <3>1, <3>2
  <2>3. DOMAIN wire = 1..Len(wire)
    BY <2>1
  <2>. QED
    BY <1>1, <2>2, <2>3 DEF Typed
<1>3. \A i \in DOMAIN stream : /\ stream[i][1] \in 0..snd_nxt - 1
                               /\ stream[i][2] \in 1..Size(stream[i][1])
  <2>. DEFINE S == ByteOf(0..snd_nxt - 1)
  <2>1. \A b \in S : b[1] \in 0..snd_nxt - 1 /\ b[2] \in 1..Size(b[1])
    BY DEF ByteOf
  <2>2. stream \in Seq(S)
    BY <1>1 DEF Typed, SentBytes
  <2>. HIDE DEF S
  <2>. QED
    BY <2>1, <2>2
<1>4. rcv_nxt \in Nat /\ MessagesRead \in Nat /\ Len(rcv_queue) \in Nat
      /\ MessagesRead = rcv_nxt - Len(rcv_queue) /\ rcv_queue \in Seq(Nat)
  BY <1>1, LengthAssumption DEF Typed, Delivered, MessagesRead
<1>5. \A i \in DOMAIN rcv_queue : rcv_queue[i] \in 0..rcv_nxt - 1
  <2>1. ASSUME NEW i \in 1..Len(rcv_queue) PROVE rcv_queue[i] \in 0..rcv_nxt - 1
    <3>1. rcv_queue[i] = MessagesRead + i - 1
      BY <1>1 DEF Delivered
    <3>. QED
      BY <1>4, <3>1
  <2>. QED
    BY <1>4, <2>1
<1>6. \A i \in DOMAIN written : written[i] \in 1..rcv_nxt - 1
  <2>. DEFINE k == IF MessagesRead = 0 THEN 0 ELSE MessagesRead - 1
  <2>1. k \in Nat /\ (k = 0 \/ k <= rcv_nxt - 1)
    BY <1>4
  <2>2. written = Prefix(k)
    BY <1>1 DEF Delivered
  <2>. HIDE DEF k
  <2>3. DOMAIN written = 1..k /\ \A i \in 1..k : written[i] = i
    BY <2>2 DEF Prefix
  <2>. QED
    BY <1>4, <2>1, <2>3
<1>. QED
  BY <1>1, <1>2, <1>3, <1>5, <1>6 DEF TypeOK, Typed, Delivered

(* Every variable of the transfer keeps its type, for any files, packet    *)
(* and read sizes: ikcp_flush, ikcp_parse_data (ikcp.cc), and the loop of  *)
(* startEpoll.                                                             *)
THEOREM TypeCorrect == Spec => []TypeOK
BY StreamInvariant, TypedIsTypeOK, PTL

(* A segment that ikcp_parse_ack or ikcp_parse_una took out of snd_buf was *)
(* parsed whole by the server's ikcp_input, wherever reads cut the stream. *)
THEOREM ForgottenSegmentsAreHeld == Spec => []ForgottenIsHeld
<1>1. StreamInv => ForgottenIsHeld
  BY DEF StreamInv, HeldOnce, Held, ForgottenIsHeld
<1>. QED
  BY StreamInvariant, <1>1, PTL

(* The file that startEpoll writes is a prefix of the client's, in order,  *)
(* nothing twice, and without the message of the name.                     *)
THEOREM FileInOrder == Spec => []FileIsPrefix
<1>1. ASSUME StreamInv PROVE FileIsPrefix
  <2>. DEFINE k == IF MessagesRead = 0 THEN 0 ELSE MessagesRead - 1
  <2>1. /\ MessagesRead \in Nat /\ written = Prefix(k)
        /\ read_file \in BOOLEAN /\ (read_file <=> MessagesRead > 0)
    BY <1>1 DEF StreamInv, Typed, Delivered
  <2>2. k \in Nat
    BY <2>1
  <2>3. Len(written) = k
    <3>. HIDE DEF k
    <3>. QED
      BY <2>1, <2>2 DEF Prefix
  <2>4. written = [i \in 1..Len(written) |-> i]
    BY <2>1, <2>3 DEF Prefix
  <2>5. rcv_nxt - Len(rcv_queue) = MessagesRead
    BY DEF MessagesRead
  <2>6. read_file = (rcv_nxt - Len(rcv_queue) > 0)
    <3>. DEFINE b == rcv_nxt - Len(rcv_queue) > 0
    <3>1. b \in BOOLEAN /\ (read_file <=> b)
      BY <2>1, <2>5
    <3>. HIDE DEF b
    <3>2. read_file = b
      BY <2>1, <3>1
    <3>. QED
      BY <3>2 DEF b
  <2>7. k = Max({0, MessagesRead - 1})
    <3>1. {0, k} \in SUBSET (0..k) /\ {0, k} # {} /\ \A i \in {0, k} : i <= k
      BY <2>2
    <3>. DEFINE s == {0, MessagesRead - 1}
    <3>2. Max(s) = CHOOSE x \in s : \A y \in s : x >= y
      BY DEF Max
    <3>3. k \in s \/ MessagesRead = 0
      BY <2>1
    <3>4. CASE MessagesRead = 0
      <4>1. s = {0, -1} /\ k = 0
        BY <3>4
      <4>2. \A x \in s : (\A y \in s : x >= y) <=> x = 0
        BY <4>1
      <4>. QED
        BY <3>2, <4>1, <4>2
    <3>5. CASE MessagesRead # 0
      <4>1. s = {0, k} /\ k \in s
        BY <3>5
      <4>. HIDE DEF k
      <4>2. \A x \in s : (\A y \in s : x >= y) <=> x = k
        BY <2>2, <4>1
      <4>. HIDE DEF s
      <4>3. Max(s) = k
        BY <3>2, <4>1, <4>2
      <4>. QED
        BY <4>3 DEF s
    <3>. QED
      BY <3>4, <3>5
  <2>. HIDE DEF k
  <2>. QED
    BY <2>3, <2>4, <2>5, <2>6, <2>7 DEF FileIsPrefix
<1>. QED
  BY StreamInvariant, <1>1, PTL

-----------------------------------------------------------------------------
(* The answer. *)

Answered == answered = IF MessagesRead = Len(lens) THEN 1 ELSE 0

(* Among the messages m to k - 1 the last one of the file alone is answered.*)
LEMMA AnsweredOnce ==
  ASSUME lens \in Files, NEW n, n = Len(lens), n > 1, NEW m \in 0..n, NEW k \in m..n,
         NEW old, NEW new, old = Prefix(Named(m)), new = Prefix(Named(k))
  PROVE  Cardinality({i \in Len(old) + 1..Len(new) : Complete(SubSeq(new, 1, i))})
           = IF m < n /\ k = n THEN 1 ELSE 0
<1>. DEFINE a == Named(m)
            b == Named(k)
            T == {i \in Len(old) + 1..Len(new) : Complete(SubSeq(new, 1, i))}
<1>1. n \in Nat /\ m \in Nat /\ k \in Nat /\ m <= k /\ k <= n
  BY LengthAssumption
<1>2. a \in Nat /\ b \in Nat /\ a <= b /\ b <= n - 1
  BY <1>1 DEF Named
<1>3. Len(old) = a /\ Len(new) = b
  <2>. HIDE DEF a, b
  <2>1. \A j \in Nat : Len(Prefix(j)) = j
    BY DEF Prefix
  <2>. QED
    BY <1>2, <2>1 DEF a, b
<1>4. \A i \in a + 1..b : Complete(SubSeq(new, 1, i)) <=> i = n - 1
  <2>1. ASSUME NEW i \in a + 1..b PROVE Complete(SubSeq(new, 1, i)) <=> i = n - 1
    <3>1. i \in 0..n - 1 /\ i \in Nat /\ i <= b
      <4>. HIDE DEF a, b
      <4>. QED
        BY <1>1, <1>2
    <3>2. SubSeq(new, 1, i) = Prefix(i)
      <4>1. new = [j \in 1..b |-> j]
        BY DEF Prefix
      <4>. HIDE DEF b
      <4>2. new \in Seq(Nat) /\ Len(new) = b /\ \A j \in 1..b : new[j] = j
        BY <1>2, <4>1
      <4>3. SubSeq(new, 1, i) = [j \in 1..i |-> new[j]]
        BY <3>1, <1>2, <4>2
      <4>4. \A j \in 1..i : new[j] = j
        BY <1>2, <3>1, <4>2
      <4>. QED
        BY <4>3, <4>4 DEF Prefix
    <3>. HIDE DEF a, b
    <3>. QED
      BY <3>1, <3>2, CompleteIs
  <2>. QED
    BY <2>1
<1>5. T = {i \in a + 1..b : i = n - 1}
  <2>. HIDE DEF a, b
  <2>. QED
    BY <1>3, <1>4
<1>6. CASE m < n /\ k = n
  <2>1. n - 1 \in a + 1..b
    BY <1>1, <1>6 DEF Named
  <2>2. T = {n - 1}
    <3>. HIDE DEF a, b, T
    <3>. QED
      BY <1>5, <2>1
  <2>. HIDE DEF T
  <2>3. Cardinality(T) = 1
    BY <2>2, FS_Singleton
  <2>. QED
    BY <1>6, <2>3 DEF T
<1>7. CASE ~(m < n /\ k = n)
  <2>1. ~(n - 1 \in a + 1..b)
    BY <1>1, <1>7 DEF Named
  <2>2. T = {}
    <3>. HIDE DEF a, b, T
    <3>. QED
      BY <1>5, <2>1
  <2>. HIDE DEF T
  <2>3. Cardinality(T) = 0
    BY <2>2, FS_EmptySet
  <2>. QED
    BY <1>7, <2>3 DEF T
<1>. QED
  BY <1>6, <1>7

LEMMA AnswerStep ==
  ASSUME StreamInv, Answered, [Next]_vars, \A l \in Files : Len(l) > 1
  PROVE  Answered'
<1>1. StreamInv'
  BY StreamStep
<1>2. CASE Read
  <2>. DEFINE n == Len(lens)
              m == MessagesRead
              k == MessagesRead'
              old == written
              new == written'
              c == Cardinality({i \in Len(old) + 1..Len(new) : Complete(SubSeq(new, 1, i))})
  <2>1. m <= k
    BY <1>2, ReadStep DEF StreamInv
  <2>2. lens' = lens /\ answered' = answered + c
    BY <1>2 DEF Read, Process, client
  <2>3. /\ lens \in Files /\ n \in Nat /\ rcv_nxt \in 0..n /\ m \in Nat
        /\ n > 1
    BY LengthAssumption DEF StreamInv, Typed, Delivered
  <2>4. rcv_nxt' \in 0..n /\ k \in Nat /\ Len(rcv_queue') \in Nat
        /\ k = rcv_nxt' - Len(rcv_queue')
    <3>1. rcv_nxt' \in 0..snd_nxt' /\ snd_nxt' \in 0..queued' /\ queued' \in 0..n
      BY <1>1, <2>2 DEF StreamInv, Typed
    <3>2. rcv_nxt' \in 0..n
      <4>. DEFINE r == rcv_nxt'
                  s == snd_nxt'
                  q == queued'
      <4>1. r \in 0..s /\ s \in 0..q /\ q \in 0..n
        BY <3>1
      <4>. HIDE DEF r, s, q, n
      <4>2. r \in 0..n
        BY <2>3, <4>1
      <4>. QED
        BY <4>2 DEF r
    <3>3. k \in Nat /\ Len(rcv_queue') \in Nat
      BY <1>1 DEF StreamInv, Delivered
    <3>4. k = rcv_nxt' - Len(rcv_queue')
      BY DEF MessagesRead
    <3>. QED
      BY <3>2, <3>3, <3>4
  <2>5. old = Prefix(Named(m)) /\ new = Prefix(Named(k))
    BY <1>1 DEF StreamInv, Delivered, Named
  <2>6. answered = IF m = n THEN 1 ELSE 0
    BY DEF Answered
  <2>. DEFINE r == rcv_nxt'
              q == Len(rcv_queue')
  <2>7. r \in 0..n /\ q \in Nat /\ k = r - q
    BY <2>4
  <2>8. m \in 0..n /\ k \in m..n
    <3>1. k \in Nat
      BY <2>4
    <3>. HIDE DEF r, q, k, m, n
    <3>. QED
      BY <2>1, <2>3, <2>7, <3>1
  <2>9. c = IF m < n /\ k = n THEN 1 ELSE 0
    <3>1. n = Len(lens)
      OBVIOUS
    <3>. HIDE DEF n, m, k, old, new
    <3>. QED
      BY <2>3, <2>5, <2>8, <3>1, AnsweredOnce
  <2>10. answered' = IF k = n THEN 1 ELSE 0
    <3>. HIDE DEF n, m, k, c
    <3>. QED
      BY <2>2, <2>3, <2>6, <2>8, <2>9
  <2>. QED
    BY <2>2, <2>10 DEF Answered
<1>3. CASE ~Read
  <2>1. UNCHANGED <<lens, rcv_nxt, rcv_queue, answered>>
    BY <1>3 DEF Next, SendMessage, Acknowledge, Arrive, Flush, vars, client, rcv, app
  <2>. QED
    BY <2>1 DEF Answered, MessagesRead
<1>. QED
  BY <1>2, <1>3

(* "send_finish" goes to ikcp_send with the write of the last chunk, once. *)
(* A file without chunks is left out: startEpoll never answers it (see the *)
(* README's hazards), and the property would ask for an answer at once.    *)
THEOREM AnsweredWhenWritten ==
  ASSUME \A l \in Files : Len(l) > 1
  PROVE  Spec => []AnswerMeansWritten
<1>1. Init => Answered
  <2>. SUFFICES ASSUME Init PROVE Answered
    OBVIOUS
  <2>1. lens \in Files /\ rcv_nxt = 0 /\ rcv_queue = <<>> /\ answered = 0
    BY DEF Init
  <2>2. Len(lens) > 1
    BY <2>1
  <2>3. Len(lens) \in Nat
    BY <2>1, LengthAssumption
  <2>4. MessagesRead = 0
    <3>1. rcv_nxt = 0 /\ Len(rcv_queue) = 0
      BY <2>1
    <3>. QED
      BY ONLY <3>1 DEF MessagesRead
  <2>. QED
    BY <2>1, <2>2, <2>3, <2>4 DEF Answered
<1>2. StreamInv /\ Answered /\ [Next]_vars => Answered'
  BY AnswerStep
<1>3. ASSUME StreamInv, Answered PROVE AnswerMeansWritten
  <2>. DEFINE n == Len(lens)
              m == MessagesRead
  <2>1. n \in Nat /\ n > 1 /\ m \in Nat /\ rcv_nxt \in 0..n /\ Len(rcv_queue) \in Nat
        /\ m = rcv_nxt - Len(rcv_queue) /\ written = Prefix(Named(m))
    BY <1>3, LengthAssumption DEF StreamInv, Typed, Delivered, MessagesRead, Named
  <2>2. Len(written) = Named(m)
    <3>1. \A j \in Nat : Len(Prefix(j)) = j
      BY DEF Prefix
    <3>2. Named(m) \in Nat
      BY <2>1 DEF Named
    <3>. QED
      BY <2>1, <3>1, <3>2
  <2>3. Named(m) = n - 1 <=> m = n
    <3>. HIDE DEF m, n
    <3>. QED
      BY <2>1 DEF Named
  <2>4. answered = IF m = n THEN 1 ELSE 0
    BY <1>3 DEF Answered
  <2>. HIDE DEF m
  <2>. QED
    BY <2>2, <2>3, <2>4 DEF AnswerMeansWritten
<1>. QED
  BY <1>1, <1>2, <1>3, StreamInvariant, PTL DEF Spec

Checks(data) == TcpChecksum(Addresses, Header(Ports, Numbers, 0), Values(data))

(* A packet of at most UDP_MTU bytes is one TCP segment, summed whole.     *)
LEMMA OnePart ==
  ASSUME NEW sns, NEW buffer \in Seq(ByteOf(sns)), Len(buffer) <= UdpMtu
  PROVE  /\ Parts(buffer) = IF buffer = <<>> THEN <<>>
                            ELSE <<[data |-> buffer, check |-> Checks(buffer)]>>
<1>. DEFINE l == Len(buffer)
            S == ByteOf(sns)
            count == (l + UdpMtu - 1) \div UdpMtu
<1>1. l \in Nat /\ UdpMtu \in Nat /\ UdpMtu > 0 /\ l <= UdpMtu /\ buffer \in Seq(S)
  BY LengthAssumption
<1>2. Parts(buffer) = [i \in 1..count |-> Part(buffer, (i - 1) * UdpMtu)]
  BY DEF Parts
<1>3. CASE l = 0
  <2>1. buffer = <<>>
    BY <1>3
  <2>2. count = 0
    <3>. HIDE DEF l
    <3>1. 0 <= UdpMtu - 1 /\ UdpMtu - 1 < UdpMtu /\ UdpMtu - 1 \in Nat
      BY <1>1
    <3>2. (UdpMtu - 1) \div UdpMtu = 0
      <4>. DEFINE q == (UdpMtu - 1) \div UdpMtu
                  r == (UdpMtu - 1) % UdpMtu
      <4>1. q \in Int /\ r \in Int /\ 0 <= r /\ r < UdpMtu /\ UdpMtu - 1 = UdpMtu * q + r
        BY <1>1
      <4>. HIDE DEF q, r
      <4>2. q = 0
        BY <1>1, <4>1
      <4>. QED
        BY <4>2 DEF q
    <3>. QED
      BY <1>1, <1>3, <3>2
  <2>. HIDE DEF count
  <2>3. Parts(buffer) = <<>>
    BY <1>2, <2>2
  <2>. QED
    BY <2>1, <2>3
<1>4. CASE l > 0
  <2>1. buffer # <<>>
    BY <1>4
  <2>2. count = 1
    <3>. DEFINE x == l + UdpMtu - 1
                q == x \div UdpMtu
                r == x % UdpMtu
    <3>1. x \in Nat /\ UdpMtu <= x /\ x < 2 * UdpMtu
      <4>. HIDE DEF l
      <4>. QED
        BY <1>1, <1>4
    <3>. HIDE DEF x
    <3>2. q \in Int /\ r \in Int /\ 0 <= r /\ r < UdpMtu /\ x = UdpMtu * q + r
      BY <1>1, <3>1
    <3>. HIDE DEF q, r
    <3>3. q = 1
      BY <1>1, <3>1, <3>2
    <3>. QED
      BY <3>3 DEF q, x
  <2>. HIDE DEF count
  <2>3. Parts(buffer) = [i \in 1..1 |-> Part(buffer, (i - 1) * UdpMtu)]
    BY <1>2, <2>2
  <2>4. (1 - 1) * UdpMtu = 0
    BY <1>1
  <2>5. Parts(buffer) = <<Part(buffer, 0)>>
    <3>1. \A i \in 1..1 : Part(buffer, (i - 1) * UdpMtu) = Part(buffer, 0)
      BY <2>4
    <3>. QED
      BY <2>3, <3>1
  <2>6. Part(buffer, 0) = [data |-> buffer, check |-> Checks(buffer)]
    <3>. DEFINE s == Min({l - 0, UdpMtu})
    <3>1. s = l
      <4>. DEFINE T == {l, UdpMtu}
      <4>1. Min(T) = CHOOSE x \in T : \A y \in T : x =< y
        BY DEF Min
      <4>2. l \in T /\ \A x \in T : (\A y \in T : x =< y) <=> x = l
        <5>. HIDE DEF l
        <5>. QED
          BY <1>1
      <4>3. l - 0 = l
        BY <1>1
      <4>. HIDE DEF T, l
      <4>4. Min(T) = l
        BY <4>1, <4>2
      <4>. QED
        BY <4>3, <4>4 DEF T
    <3>2. SubSeq(buffer, 1, l) = buffer
      <4>. HIDE DEF S
      <4>. QED
        BY <1>1
    <3>3. 0 + 1 = 1 /\ 0 + l = l
      BY <1>1
    <3>4. Part(buffer, 0) =
            [data |-> SubSeq(buffer, 0 + 1, 0 + s),
             check |-> TcpChecksum(Addresses, Header(Ports, Numbers, 0),
                                   Values(SubSeq(buffer, 1, s)))]
      BY DEF Part
    <3>. HIDE DEF s, l
    <3>. QED
      BY <3>1, <3>2, <3>3, <3>4 DEF Checks
  <2>. QED
    BY <2>1, <2>5, <2>6
<1>. QED
  BY <1>1, <1>3, <1>4

LEMMA OneEncoded ==
  ASSUME lens \in Files, NEW sns \in SUBSET (0..Len(lens) - 1),
         NEW due \in Seq(sns), NEW a \in 1..Len(due)
  PROVE  Len(Bytes(due, a, a)) <= Mtu
<1>1. a \in a..Len(due) /\ a + 1 - a = 1 /\ a + 1 - 1 = a /\ due[a] \in sns
  OBVIOUS
<1>2. PICK g \in [0..a + 1 - a -> Seq(ByteOf(sns))] :
         /\ g[0] = <<>>
         /\ \A i \in 1..a + 1 - a : g[i] = g[i - 1] \o Encoded(due[a + i - 1])
         /\ Bytes(due, a, a) = g[a + 1 - a]
  BY <1>1, BytesAre
<1>3. Bytes(due, a, a) = <<>> \o Encoded(due[a])
  <2>1. 1 \in 1..a + 1 - a /\ 1 - 1 = 0
    BY <1>1
  <2>2. g[1] = g[0] \o Encoded(due[a])
    BY <1>1, <1>2, <2>1
  <2>. QED
    BY <1>1, <1>2, <2>2
<1>4. Encoded(due[a]) \in Seq(ByteOf(sns)) /\ Len(Encoded(due[a])) = Size(due[a])
  BY <1>1, EncodedIs
<1>5. Size(due[a]) \in Nat /\ Size(due[a]) <= Mtu
  BY <1>1, SizeIs
<1>6. \A s \in Seq(ByteOf(sns)) : Len(<<>> \o s) = Len(s)
  OBVIOUS
<1>. QED
  BY <1>3, <1>4, <1>5, <1>6

(* ikcp_flush fills no packet beyond the mtu.                              *)
LEMMA PacketFits ==
  ASSUME lens \in Files, NEW sns \in SUBSET (0..Len(lens) - 1),
         NEW due \in Seq(sns), NEW i \in 1..Len(due)
  PROVE  Len(Packets(due)[i]) <= Mtu
<1>. DEFINE n == Len(due)
            Packet(opens) == [j \in 1..n |-> IF opens[j] = j
                                 THEN Bytes(due, j, LastOf(opens, n, j)) ELSE <<>>]
<1>1. n \in Nat /\ DOMAIN due = 1..n /\ Mtu \in Nat
  BY LengthAssumption
<1>2. PICK opens : Opening(opens, due, n) /\ Packets(due) = Packet(opens)
  <2>. HIDE DEF n
  <2>. QED
    BY <1>1, PacketsAre
<1>3. CASE opens[i] = i
  <2>. DEFINE s == {j \in 1..n : opens[j] = i}
              b == Max(s)
  <2>1. s \in SUBSET (0..n) /\ i \in s
    BY <1>3
  <2>. HIDE DEF s, n
  <2>2. b \in s /\ i <= b
    BY <1>1, <2>1, MaxOf
  <2>3. Packets(due)[i] = Bytes(due, i, b)
    BY <1>2, <1>3 DEF LastOf, s, n
  <2>4. b \in 1..n /\ opens[b] = i
    BY <2>2 DEF s
  <2>. HIDE DEF b
  <2>5. CASE b = i
    BY <2>3, <2>5, OneEncoded
  <2>6. CASE b # i
    <3>1. Fits(due, opens[b - 1], b) /\ opens[b] = opens[b - 1]
      BY <1>2, <2>4, <2>6 DEF Opening
    <3>. QED
      BY <2>3, <2>4, <3>1 DEF Fits
  <2>. QED
    BY <2>5, <2>6
<1>4. CASE opens[i] # i
  <2>1. Packets(due)[i] = <<>>
    BY <1>2, <1>4
  <2>. QED
    BY <1>1, <2>1
<1>. QED
  BY <1>3, <1>4

(* With the mtu below UDP_MTU each packet has the checksum of its bytes.   *)
LEMMA OutputSealed ==
  ASSUME Mtu <= UdpMtu, lens \in Files, NEW sns \in SUBSET (0..Len(lens) - 1),
         NEW due \in Seq(sns)
  PROVE  /\ \A i \in 1..Len(due) :
              Parts(Packets(due)[i]) =
                IF Packets(due)[i] = <<>> THEN <<>>
                ELSE <<[data |-> Packets(due)[i], check |-> Checks(Packets(due)[i])]>>
         /\ \A i \in 1..Len(Output(due)) :
              Output(due)[i].check = Checks(Output(due)[i].data)
<1>. DEFINE n == Len(due)
            parts == [i \in DOMAIN due |-> Parts(Packets(due)[i])]
<1>1. n \in Nat /\ DOMAIN due = 1..n /\ Mtu \in Nat /\ UdpMtu \in Nat
  BY LengthAssumption
<1>2. \A i \in 1..n : Packets(due)[i] \in Seq(ByteOf(sns))
  BY OutputIs
<1>3. \A i \in 1..n :
        Parts(Packets(due)[i]) =
          IF Packets(due)[i] = <<>> THEN <<>>
          ELSE <<[data |-> Packets(due)[i], check |-> Checks(Packets(due)[i])]>>
  <2>1. ASSUME NEW i \in 1..n
        PROVE  Parts(Packets(due)[i]) =
                 IF Packets(due)[i] = <<>> THEN <<>>
                 ELSE <<[data |-> Packets(due)[i], check |-> Checks(Packets(due)[i])]>>
    <3>. DEFINE p == Packets(due)[i]
    <3>1. p \in Seq(ByteOf(sns)) /\ Len(p) <= Mtu
      BY <1>2, PacketFits
    <3>2. Len(p) <= UdpMtu
      <4>1. Len(p) \in Nat
        BY <3>1
      <4>. HIDE DEF p
      <4>. QED
        BY <1>1, <3>1, <4>1
    <3>. HIDE DEF p
    <3>3. Parts(p) = IF p = <<>> THEN <<>> ELSE <<[data |-> p, check |-> Checks(p)]>>
      BY <3>1, <3>2, OnePart
    <3>. QED
      BY <3>3 DEF p
  <2>. QED
    BY <2>1
<1>. DEFINE Good == {p \in [data : Seq(ByteOf(sns)), check : {Checks(d) : d \in Seq(ByteOf(sns))}] :
                       p.check = Checks(p.data)}
<1>4. \A i \in 1..n : Parts(Packets(due)[i]) \in Seq(Good)
  <2>1. ASSUME NEW i \in 1..n PROVE Parts(Packets(due)[i]) \in Seq(Good)
    <3>. DEFINE p == Packets(due)[i]
                r == [data |-> p, check |-> Checks(p)]
    <3>1. p \in Seq(ByteOf(sns))
      BY <1>2
    <3>2. Parts(p) = IF p = <<>> THEN <<>> ELSE <<r>>
      BY <1>3
    <3>. HIDE DEF p
    <3>3. r \in Good
      BY <3>1
    <3>. HIDE DEF r, Good
    <3>4. Parts(p) \in Seq(Good)
      BY <3>2, <3>3
    <3>. QED
      BY <3>4 DEF p
  <2>. QED
    BY <2>1
<1>5. parts \in Seq(Seq(Good))
  <2>. HIDE DEF Good, n
  <2>. QED
    BY <1>1, <1>4
<1>6. Output(due) \in Seq(Good)
  <2>1. Output(due) = FlattenSeq(parts)
    BY DEF Output
  <2>. HIDE DEF parts, Good
  <2>2. PICK g \in [0..Len(parts) -> Seq(Good)] : FlattenSeq(parts) = g[Len(parts)]
    BY <1>5, Flattened
  <2>3. Len(parts) \in 0..Len(parts)
    BY <1>5
  <2>. QED
    BY <2>1, <2>2, <2>3
<1>7. \A p \in Good : p.check = Checks(p.data)
  OBVIOUS
<1>8. \A i \in 1..Len(Output(due)) : Output(due)[i] \in Good
  <2>. HIDE DEF Good
  <2>. QED
    BY <1>6
<1>9. \A i \in 1..Len(Output(due)) : Output(due)[i].check = Checks(Output(due)[i].data)
  <2>. HIDE DEF Good
  <2>. QED
    BY <1>7, <1>8
<1>. QED
  BY <1>3, <1>9

SumInv == \A i \in 1..Len(wire) : wire[i].check = Checks(wire[i].data)

LEMMA SumStep ==
  ASSUME Mtu <= UdpMtu, StreamInv, SumInv, [Next]_vars
  PROVE  SumInv'
<1>1. wire \in Seq(Parcel(0..snd_nxt - 1))
  BY DEF StreamInv, Typed
<1>2. CASE lens' = lens /\ wire' = wire
  BY <1>2 DEF SumInv, Checks, Values, Value
<1>3. CASE Arrive
  <2>1. wire # <<>> /\ wire' = Tail(wire) /\ lens' = lens
    BY <1>3 DEF Arrive, client
  <2>2. Len(wire') = Len(wire) - 1 /\ Len(wire) \in Nat
        /\ \A i \in 1..Len(wire') : wire'[i] = wire[i + 1] /\ i + 1 \in 1..Len(wire)
    BY <1>1, <2>1
  <2>3. \A i \in 1..Len(wire') : wire'[i].check = Checks(wire'[i].data)
    BY <2>2 DEF SumInv
  <2>. QED
    BY <2>3 DEF SumInv, Checks, Values, Value
<1>4. CASE Flush
  <2>1. PICK nxt \in snd_nxt..queued, again \in SUBSET snd_buf :
          wire' = wire \o Output(InOrder((snd_nxt..nxt - 1) \cup again))
    BY <1>4 DEF Flush
  <2>. DEFINE n == Len(lens)
              all == (snd_nxt..nxt - 1) \cup again
              due == InOrder(all)
              sns == 0..nxt - 1
              out == Output(due)
  <2>2. lens' = lens
    BY <1>4 DEF Flush
  <2>3. /\ n \in Nat /\ lens \in Files /\ all \in SUBSET (0..n - 1) /\ all \in SUBSET sns
        /\ sns \in SUBSET (0..n - 1) /\ 0..snd_nxt - 1 \subseteq sns
    <3>1. n \in Nat /\ lens \in Files
      BY LengthAssumption DEF StreamInv, Typed
    <3>2. /\ snd_nxt \in Nat /\ queued \in Nat /\ nxt \in Nat /\ snd_nxt <= nxt
          /\ nxt <= queued /\ queued <= n
      BY <3>1 DEF StreamInv, Typed
    <3>3. again \subseteq 0..snd_nxt - 1
      BY DEF StreamInv, Typed
    <3>. QED
      BY <3>1, <3>2, <3>3
  <2>4. due \in Seq(sns)
    <3>. HIDE DEF all, n, sns
    <3>1. InOrder(all) \in Seq(all)
      BY <2>3, InOrderIs
    <3>2. \A s \in Seq(all) : s \in Seq(sns)
      BY <2>3, WiderSeq
    <3>. QED
      BY <3>1, <3>2
  <2>5. /\ out \in Seq(Parcel(sns))
        /\ \A i \in 1..Len(out) : out[i].check = Checks(out[i].data)
    <3>. HIDE DEF due, sns
    <3>. QED
      BY <2>3, <2>4, OutputIs, OutputSealed
  <2>6. wire \in Seq(Parcel(sns))
    <3>. HIDE DEF sns
    <3>. QED
      BY <1>1, <2>3, MoreBytes
  <2>7. wire' = wire \o out
    BY <2>1
  <2>. HIDE DEF out, sns, due
  <2>8. /\ Len(wire') = Len(wire) + Len(out)
        /\ \A i \in 1..Len(wire) : wire'[i] = wire[i]
        /\ \A i \in Len(wire) + 1..Len(wire) + Len(out) : wire'[i] = out[i - Len(wire)]
    BY <2>5, <2>6, <2>7, Joined
  <2>9. ASSUME NEW i \in 1..Len(wire') PROVE wire'[i].check = Checks(wire'[i].data)
    <3>. DEFINE l == Len(wire)
                j == i - l
    <3>1. l \in Nat /\ Len(out) \in Nat
      BY <2>5, <2>6
    <3>2. CASE i <= l
      <4>1. i \in 1..l /\ wire'[i] = wire[i]
        BY <2>8, <3>1, <3>2
      <4>. QED
        BY <4>1 DEF SumInv
    <3>3. CASE i > l
      <4>1. j \in 1..Len(out) /\ wire'[i] = out[j]
        BY <2>8, <3>1, <3>3
      <4>. HIDE DEF j
      <4>. QED
        BY <2>5, <4>1
    <3>. QED
      BY <3>1, <3>2, <3>3
  <2>. QED
    BY <2>2, <2>9 DEF SumInv, Checks, Values, Value
<1>5. CASE ~Arrive /\ ~Flush
  <2>1. lens' = lens /\ wire' = wire
    BY <1>5 DEF Next, SendMessage, Acknowledge, Read, vars, client
  <2>. QED
    BY <1>2, <2>1
<1>. QED
  BY <1>3, <1>4, <1>5

(* With kcp->mtu (1400) at most UDP_MTU (1448) every TCP segment that      *)
(* tcp_client_cb sends verifies at the server's kernel.                    *)
THEOREM ChecksumsAlwaysVerify ==
  ASSUME Mtu <= UdpMtu
  PROVE  Spec => []ChecksumsVerify
<1>1. Init => SumInv
  <2>. SUFFICES ASSUME Init PROVE SumInv
    OBVIOUS
  <2>1. wire = <<>>
    BY DEF Init
  <2>2. 1..Len(wire) = {}
    BY <2>1
  <2>. QED
    BY <2>2 DEF SumInv
<1>2. StreamInv /\ SumInv /\ [Next]_vars => SumInv'
  BY SumStep
<1>3. ASSUME StreamInv, SumInv PROVE ChecksumsVerify
  <2>. DEFINE sns == 0..snd_nxt - 1
              S == ByteOf(sns)
  <2>1. wire \in Seq(Parcel(sns)) /\ sns \subseteq Int
    BY <1>3 DEF StreamInv, Typed
  <2>2. DOMAIN wire = 1..Len(wire) /\ \A i \in 1..Len(wire) : wire[i].data \in Seq(S)
    <3>. DEFINE P == Parcel(sns)
    <3>1. \A p \in P : p.data \in Seq(S)
      BY DEF Parcel
    <3>2. wire \in Seq(P)
      BY <2>1
    <3>. HIDE DEF P, S
    <3>. QED
      BY <3>1, <3>2
  <2>3. ASSUME NEW i \in 1..Len(wire)
        PROVE  Verifies(Addresses, Header(Ports, Numbers, wire[i].check),
                        Values(wire[i].data))
    <3>. DEFINE v == Values(wire[i].data)
    <3>1. v \in Seq(Nat)
      <4>. HIDE DEF sns
      <4>. QED
        BY <2>1, <2>2, ValuesAreNat
    <3>2. wire[i].check = TcpChecksum(Addresses, Header(Ports, Numbers, 0), v)
      BY <1>3 DEF SumInv, Checks
    <3>. HIDE DEF v
    <3>3. Verifies(Addresses,
           Header(Ports, Numbers,
                  TcpChecksum(Addresses, Header(Ports, Numbers, 0), v)), v)
      BY <3>1, OwnChecksumVerifies
    <3>. QED
      BY <3>2, <3>3 DEF v
  <2>. QED
    BY <2>2, <2>3 DEF ChecksumsVerify
<1>. QED
  BY <1>1, <1>2, <1>3, StreamInvariant, PTL DEF Spec

-----------------------------------------------------------------------------
(* Sequences that are put together from pieces.                            *)

(* h[i] is start with the first i of the pieces behind it.                 *)
Run(h, S, start, pieces, n) ==
  /\ n \in Nat /\ start \in Seq(S)
  /\ \A i \in 1..n : pieces[i] \in Seq(S)
  /\ h \in [0..n -> Seq(S)]
  /\ h[0] = start
  /\ \A i \in 1..n : h[i] = h[i - 1] \o pieces[i]

(* Pieces can always be put together.                                      *)
LEMMA RunExists ==
  ASSUME NEW S, NEW start \in Seq(S), NEW n \in Nat, NEW pieces,
         \A i \in 1..n : pieces[i] \in Seq(S)
  PROVE  \E h : Run(h, S, start, pieces, n)
<1>. DEFINE Q == Seq(S)
            step == [x \in (1..n) \X Q |-> x[2] \o pieces[x[1]]]
<1>1. \A s, t \in Q : s \o t \in Q
  OBVIOUS
<1>2. step \in [(1..n) \X Q -> Q]
  <2>1. \A x \in (1..n) \X Q : x[2] \o pieces[x[1]] \in Q
    <3>. HIDE DEF Q
    <3>1. \A i \in 1..n : pieces[i] \in Q
      BY DEF Q
    <3>. QED
      BY <1>1, <3>1
  <2>. HIDE DEF Q
  <2>. QED
    BY <2>1
<1>3. PICK g : Steps(g, Q, start, step, n)
  <2>1. start \in Q
    OBVIOUS
  <2>. HIDE DEF Q, step
  <2>. QED
    BY <1>2, <2>1, StepsExist
<1>4. ASSUME NEW i \in 1..n PROVE g[i] = g[i - 1] \o pieces[i]
  <2>1. g \in [0..n -> Q] /\ g[i] = step[<<i, g[i - 1]>>]
    BY <1>3 DEF Steps
  <2>2. <<i, g[i - 1]>> \in (1..n) \X Q
    <3>1. i - 1 \in 0..n
      OBVIOUS
    <3>. HIDE DEF Q, step
    <3>2. g[i - 1] \in Q
      BY <2>1, <3>1
    <3>. QED
      BY <3>2
  <2>3. \A x \in (1..n) \X Q : step[x] = x[2] \o pieces[x[1]]
    OBVIOUS
  <2>. HIDE DEF Q, step
  <2>. QED
    BY <2>1, <2>2, <2>3
<1>. QED
  BY <1>3, <1>4 DEF Run, Steps

(* Where the pieces are.                                                   *)
End(h, i) == Len(h[i])

(* Each step leaves what is there and puts a piece behind it.              *)
LEMMA RunGrows ==
  ASSUME NEW S, NEW start, NEW n, NEW pieces, NEW h, Run(h, S, start, pieces, n)
  PROVE  /\ \A i \in 0..n : h[i] \in Seq(S) /\ End(h, i) \in Nat
         /\ \A i \in 1..n : End(pieces, i) \in Nat
         /\ \A i \in 1..n : End(h, i) = End(h, i - 1) + End(pieces, i)
         /\ \A i \in 1..n : \A k \in 1..End(h, i - 1) : h[i][k] = h[i - 1][k]
         /\ \A i \in 1..n : \A k \in 1..End(pieces, i) :
              h[i][End(h, i - 1) + k] = pieces[i][k]
<1>. start \in Seq(S) /\ n \in Nat /\ \A i \in 1..n : pieces[i] \in Seq(S)
  BY DEF Run
<1>1. \A i \in 0..n : h[i] \in Seq(S) /\ Len(h[i]) \in Nat
  <2>1. h \in [0..n -> Seq(S)]
    BY DEF Run
  <2>2. \A i \in 0..n : h[i] \in Seq(S)
    BY <2>1
  <2>. QED
    BY <2>2
<1>2. ASSUME NEW i \in 1..n
      PROVE  /\ Len(pieces[i]) \in Nat
             /\ Len(h[i]) = Len(h[i - 1]) + Len(pieces[i])
             /\ \A k \in 1..Len(h[i - 1]) : h[i][k] = h[i - 1][k]
             /\ \A k \in 1..Len(pieces[i]) : h[i][Len(h[i - 1]) + k] = pieces[i][k]
  <2>. DEFINE s == h[i - 1]
              t == pieces[i]
  <2>1. i - 1 \in 0..n
    OBVIOUS
  <2>2. s \in Seq(S) /\ t \in Seq(S) /\ h[i] = s \o t
    BY <1>1, <2>1 DEF Run
  <2>. HIDE DEF s, t
  <2>3. /\ Len(t) \in Nat
        /\ Len(s \o t) = Len(s) + Len(t)
        /\ \A k \in 1..Len(s) : (s \o t)[k] = s[k]
        /\ \A k \in 1..Len(t) : (s \o t)[Len(s) + k] = t[k]
    BY <2>2
  <2>. QED
    BY <2>2, <2>3 DEF s, t
<1>. QED
  BY <1>1, <1>2 DEF End

(* What is there stays where it is.                                        *)
LEMMA RunKeeps ==
  ASSUME NEW S, NEW start, NEW n, NEW pieces, NEW h, Run(h, S, start, pieces, n),
         NEW a \in 0..n
  PROVE  \A j \in a..n : /\ End(h, a) <= End(h, j)
                         /\ \A k \in 1..End(h, a) : h[j][k] = h[a][k]
<1>. start \in Seq(S) /\ n \in Nat /\ \A i \in 1..n : pieces[i] \in Seq(S)
  BY DEF Run
<1>. DEFINE T == {j \in a..n : ~ /\ End(h, a) <= End(h, j)
                                 /\ \A k \in 1..End(h, a) : h[j][k] = h[a][k]}
<1>. SUFFICES ASSUME NEW m \in T PROVE FALSE
  OBVIOUS
<1>1. PICK j \in T : \A i \in T : j <= i
  <2>1. T \subseteq Nat /\ T # {}
    <3>1. a \in Nat /\ a..n \subseteq Nat
      OBVIOUS
    <3>2. T \subseteq a..n
      OBVIOUS
    <3>. HIDE DEF T
    <3>. QED
      BY <3>1, <3>2
  <2>. HIDE DEF T
  <2>. QED
    BY <2>1, LeastExists
<1>2. j \in a..n /\ j \in Int /\ ~ /\ End(h, a) <= End(h, j)
                                   /\ \A k \in 1..End(h, a) : h[j][k] = h[a][k]
  OBVIOUS
<1>3. \A i \in 0..n : End(h, i) \in Nat
  BY RunGrows
<1>4. /\ \A i \in 1..n : End(pieces, i) \in Nat
      /\ \A i \in 1..n : End(h, i) = End(h, i - 1) + End(pieces, i)
  <2>. HIDE DEF T
  <2>1. \A i \in 1..n : End(pieces, i) \in Nat
    BY RunGrows
  <2>2. ASSUME NEW i \in 1..n PROVE End(h, i) = End(h, i - 1) + End(pieces, i)
    BY RunGrows
  <2>. QED
    BY <2>1, <2>2
<1>5. \A i \in 1..n : \A k \in 1..End(h, i - 1) : h[i][k] = h[i - 1][k]
  BY RunGrows
<1>6. CASE j = a
  BY <1>2, <1>3, <1>6
<1>7. CASE j # a
  <2>. DEFINE i == j - 1
  <2>1. i \in a..n /\ j \in 1..n /\ ~(j <= i) /\ i \in 0..n /\ a \in 0..n
    <3>. HIDE DEF T
    <3>. QED
      BY <1>2, <1>7
  <2>2. i \notin T
    <3>. HIDE DEF T, i
    <3>. QED
      BY <1>1, <2>1
  <2>3. /\ End(h, a) <= End(h, i)
        /\ \A k \in 1..End(h, a) : h[i][k] = h[a][k]
    BY <2>1, <2>2
  <2>4. /\ End(h, j) = End(h, i) + End(pieces, j)
        /\ \A k \in 1..End(h, i) : h[j][k] = h[i][k]
    <3>. HIDE DEF T
    <3>. QED
      BY <1>4, <1>5, <2>1
  <2>5. End(h, i) \in Nat /\ End(pieces, j) \in Nat /\ End(h, a) \in Nat
    <3>. HIDE DEF T, i
    <3>. QED
      BY <1>3, <1>4, <2>1
  <2>. HIDE DEF i, T
  <2>6. End(h, a) <= End(h, j)
    BY <2>3, <2>4, <2>5
  <2>7. \A k \in 1..End(h, a) : h[j][k] = h[a][k]
    <3>1. \A k \in 1..End(h, a) : k \in 1..End(h, i)
      BY <2>3, <2>5
    <3>. QED
      BY <2>3, <2>4, <3>1
  <2>. QED
    BY <1>2, <2>6, <2>7
<1>. QED
  BY <1>6, <1>7

(* Every place beyond start is in one of the pieces.                       *)
LEMMA RunFound ==
  ASSUME NEW S, NEW start, NEW n, NEW pieces, NEW h, Run(h, S, start, pieces, n),
         NEW p \in Nat, p > Len(start), p <= End(h, n)
  PROVE  \E i \in 1..n : End(h, i - 1) < p /\ p <= End(h, i)
<1>. start \in Seq(S) /\ n \in Nat /\ \A i \in 1..n : pieces[i] \in Seq(S)
  BY DEF Run
<1>. DEFINE T == {i \in 0..n : p <= End(h, i)}
<1>1. PICK i \in T : \A j \in T : i <= j
  <2>1. T \subseteq Nat /\ n \in T
    OBVIOUS
  <2>. HIDE DEF T
  <2>. QED
    BY <2>1, LeastExists
<1>2. i \in 0..n /\ p <= End(h, i) /\ i \in Int
  OBVIOUS
<1>3. i # 0
  <2>1. End(h, 0) = Len(start) /\ Len(start) \in Nat
    BY DEF Run, End
  <2>. HIDE DEF T
  <2>. QED
    BY <1>2, <2>1
<1>. DEFINE j == i - 1
<1>4. j \in 0..n /\ ~(i <= j) /\ i \in 1..n
  <2>. HIDE DEF T
  <2>. QED
    BY <1>2, <1>3
<1>5. j \notin T
  <2>. HIDE DEF T, j
  <2>. QED
    BY <1>1, <1>4
<1>6. ~(p <= End(h, j))
  BY <1>4, <1>5
<1>7. End(h, j) \in Nat
  <2>. HIDE DEF j, T
  <2>. QED
    BY <1>4, RunGrows
<1>8. End(h, j) < p
  <2>. HIDE DEF T, j
  <2>. QED
    BY <1>6, <1>7
<1>. QED
  BY <1>2, <1>4, <1>8

Associate(s, t, u) == (s \o t) \o u = s \o (t \o u)

(* Two ways to put three sequences together, the same result.              *)
LEMMA Associates ==
  ASSUME NEW S, NEW s \in Seq(S), NEW t \in Seq(S), NEW u \in Seq(S)
  PROVE  Associate(s, t, u)
BY ConcatAssociative DEF Associate

(* What stands before the pieces makes no difference to them.              *)
Shifted(h, start, k, n) == \A i \in 0..n : h[i] = start \o k[i]

LEMMA RunShift ==
  ASSUME NEW S, NEW start, NEW n, NEW pieces, NEW h, NEW k,
         Run(h, S, start, pieces, n), Run(k, S, <<>>, pieces, n)
  PROVE  Shifted(h, start, k, n)
<1>. start \in Seq(S) /\ n \in Nat /\ \A i \in 1..n : pieces[i] \in Seq(S)
  BY DEF Run
<1>. DEFINE T == {i \in 0..n : h[i] # start \o k[i]}
<1>. SUFFICES ASSUME NEW m \in T PROVE FALSE
  BY DEF Shifted
<1>1. PICK i \in T : \A j \in T : i <= j
  <2>1. T \subseteq Nat /\ T # {}
    OBVIOUS
  <2>. HIDE DEF T
  <2>. QED
    BY <2>1, LeastExists
<1>2. i \in 0..n /\ h[i] # start \o k[i] /\ i \in Int
  OBVIOUS
<1>3. CASE i = 0
  <2>1. h[0] = start /\ k[0] = <<>>
    BY DEF Run
  <2>2. start \o <<>> = start
    OBVIOUS
  <2>. QED
    BY <1>2, <1>3, <2>1, <2>2
<1>4. CASE i # 0
  <2>. DEFINE j == i - 1
  <2>1. j \in 0..n /\ ~(i <= j) /\ i \in 1..n
    BY <1>2, <1>4
  <2>2. j \notin T
    <3>. HIDE DEF T, j
    <3>. QED
      BY <1>1, <2>1
  <2>3. h[j] = start \o k[j]
    BY <2>1, <2>2
  <2>4. h[i] = h[j] \o pieces[i] /\ k[i] = k[j] \o pieces[i]
    BY <2>1 DEF Run
  <2>5. k[j] \in Seq(S) /\ pieces[i] \in Seq(S)
    <3>. HIDE DEF j
    <3>. QED
      BY <2>1, RunGrows
  <2>6. Associate(start, k[j], pieces[i])
    <3>. HIDE DEF j
    <3>. QED
      BY <2>5, Associates
  <2>. HIDE DEF j
  <2>. QED
    BY <1>2, <2>3, <2>4, <2>5, <2>6 DEF Associate
<1>. QED
  BY <1>3, <1>4

-----------------------------------------------------------------------------
(* Bytes that lie as ikcp_encode_seg lays them: behind a byte comes the    *)
(* next one of its segment, behind its last byte the first of another.     *)
Laid(s) ==
  \A i \in 1..Len(s) :
    IF s[i][2] < Size(s[i][1])
    THEN i < Len(s) /\ s[i + 1] = <<s[i][1], s[i][2] + 1>>
    ELSE i < Len(s) => s[i + 1][2] = 1

(* Segments behind segments.                                               *)
LEMMA LaidJoined ==
  ASSUME NEW S, NEW s \in Seq(S), NEW t \in Seq(S), Laid(s), Laid(t),
         t # <<>> => t[1][2] = 1
  PROVE  Laid(s \o t)
<1>. DEFINE q == s \o t
            m == Len(s)
            l == Len(t)
<1>1. /\ m \in Nat /\ l \in Nat /\ Len(q) = m + l
      /\ \A i \in 1..m : q[i] = s[i]
      /\ \A i \in 1..l : q[m + i] = t[i]
      /\ t # <<>> <=> l > 0
  OBVIOUS
<1>2. /\ \A i \in 1..m : IF s[i][2] < Size(s[i][1])
                         THEN i < m /\ s[i + 1] = <<s[i][1], s[i][2] + 1>>
                         ELSE i < m => s[i + 1][2] = 1
      /\ \A i \in 1..l : IF t[i][2] < Size(t[i][1])
                         THEN i < l /\ t[i + 1] = <<t[i][1], t[i][2] + 1>>
                         ELSE i < l => t[i + 1][2] = 1
      /\ l > 0 => t[1][2] = 1
  BY <1>1 DEF Laid
<1>. HIDE DEF q, m, l
<1>3. ASSUME NEW i \in 1..m + l
      PROVE  IF q[i][2] < Size(q[i][1])
             THEN i < m + l /\ q[i + 1] = <<q[i][1], q[i][2] + 1>>
             ELSE i < m + l => q[i + 1][2] = 1
  <2>1. CASE i < m
    <3>1. i \in 1..m /\ i + 1 \in 1..m /\ i < m + l
      BY <1>1, <2>1
    <3>2. q[i] = s[i] /\ q[i + 1] = s[i + 1]
      BY <1>1, <3>1
    <3>. QED
      BY <1>2, <2>1, <3>1, <3>2
  <2>2. CASE i = m
    <3>1. i \in 1..m /\ q[i] = s[i] /\ ~(i < m)
      BY <1>1, <2>2
    <3>2. ~(q[i][2] < Size(q[i][1]))
      BY <1>2, <3>1
    <3>3. i < m + l => q[i + 1] = t[1] /\ l > 0
      <4>1. i < m + l => 1 \in 1..l /\ i + 1 = m + 1
        BY <1>1, <2>2
      <4>. QED
        BY <1>1, <4>1
    <3>. QED
      BY <1>2, <3>2, <3>3
  <2>3. CASE i > m
    <3>. DEFINE j == i - m
    <3>1. j \in 1..l /\ i = m + j /\ (j < l <=> i < m + l) /\ i + 1 = m + (j + 1)
          /\ (j < l => j + 1 \in 1..l)
      BY <1>1, <2>3
    <3>. HIDE DEF j
    <3>2. q[i] = t[j]
      BY <1>1, <3>1
    <3>3. j < l => q[i + 1] = t[j + 1]
      BY <1>1, <3>1
    <3>. QED
      BY <1>2, <3>1, <3>2, <3>3
  <2>. QED
    BY <1>1, <2>1, <2>2, <2>3
<1>. QED
  BY <1>1, <1>3 DEF Laid, q

(* From its first byte on a segment lies whole.                            *)
LiesAt(s, i, sn) ==
  \A k \in 1..Size(sn) : i + k - 1 <= Len(s) /\ s[i + k - 1] = <<sn, k>>

LEMMA LaidSpan ==
  ASSUME NEW s, NEW l \in Nat, l = Len(s), Laid(s), NEW i \in 1..l, NEW sn, NEW z \in Nat,
         s[i] = <<sn, 1>>, z = Size(sn)
  PROVE  LiesAt(s, i, sn)
<1>. DEFINE T == {k \in 1..z : ~(i + k - 1 <= l /\ s[i + k - 1] = <<sn, k>>)}
<1>. SUFFICES ASSUME NEW m \in T PROVE FALSE
  BY DEF LiesAt
<1>1. PICK k \in T : \A j \in T : k <= j
  <2>1. T \subseteq Nat /\ T # {}
    OBVIOUS
  <2>. HIDE DEF T
  <2>. QED
    BY <2>1, LeastExists
<1>2. k \in 1..z /\ ~(i + k - 1 <= l /\ s[i + k - 1] = <<sn, k>>)
  OBVIOUS
<1>3. CASE k = 1
  <2>1. i + 1 - 1 = i /\ i <= l
    OBVIOUS
  <2>. QED
    BY <1>2, <1>3, <2>1
<1>4. CASE k # 1
  <2>. DEFINE j == k - 1
              p == i + j - 1
  <2>1. j \in 1..z /\ ~(k <= j) /\ j < z /\ p \in Int /\ p >= 1 /\ i + k - 1 = p + 1 /\ k = j + 1
    <3>. HIDE DEF T
    <3>. QED
      BY <1>2, <1>4
  <2>2. j \notin T
    <3>. HIDE DEF T, j
    <3>. QED
      BY <1>1, <2>1
  <2>3. p <= l /\ s[p] = <<sn, j>>
    BY <2>1, <2>2
  <2>. HIDE DEF T, j, p
  <2>4. p \in 1..l
    BY <2>1, <2>3
  <2>5. s[p][2] = j /\ s[p][1] = sn
    BY <2>3
  <2>6. p < l /\ s[p + 1] = <<sn, j + 1>>
    <3>1. IF s[p][2] < Size(s[p][1])
          THEN p < l /\ s[p + 1] = <<s[p][1], s[p][2] + 1>>
          ELSE p < l => s[p + 1][2] = 1
      BY <2>4 DEF Laid
    <3>. QED
      BY <2>1, <2>5, <3>1
  <2>7. i + k - 1 <= l
    BY <2>1, <2>6
  <2>. QED
    BY <1>2, <2>1, <2>6, <2>7
<1>. QED
  BY <1>3, <1>4

(* A segment as ikcp_encode_seg lays it out.                               *)
LEMMA EncodedLaid ==
  ASSUME lens \in Files, NEW sns \in SUBSET (0..Len(lens) - 1), NEW sn \in sns
  PROVE  Laid(Encoded(sn)) /\ Encoded(sn)[1][2] = 1
<1>. DEFINE s == Encoded(sn)
            z == Size(sn)
<1>1. s \in Seq(ByteOf(sns)) /\ Len(s) = z /\ \A k \in 1..z : s[k] = <<sn, k>>
  BY EncodedIs
<1>2. z \in Nat /\ z > 0
  <2>1. sn \in 0..Len(lens) - 1
    OBVIOUS
  <2>2. Size(sn) \in Nat /\ Size(sn) > Overhead /\ Overhead \in Nat
    BY <2>1, SizeIs, LengthAssumption
  <2>. QED
    BY <2>2
<1>. HIDE DEF s, z
<1>3. ASSUME NEW i \in 1..z
      PROVE  IF s[i][2] < Size(s[i][1])
             THEN i < z /\ s[i + 1] = <<s[i][1], s[i][2] + 1>>
             ELSE i < z => s[i + 1][2] = 1
  <2>1. s[i] = <<sn, i>> /\ s[i][1] = sn /\ s[i][2] = i
    BY <1>1
  <2>2. CASE i < z
    <3>1. i + 1 \in 1..z
      BY <1>2, <2>2
    <3>2. s[i + 1] = <<sn, i + 1>>
      BY <1>1, <3>1
    <3>. QED
      BY <2>1, <2>2, <3>2 DEF z
  <2>3. CASE ~(i < z)
    BY <2>1, <2>3 DEF z
  <2>. QED
    BY <2>2, <2>3
<1>4. Laid(s)
  BY <1>1, <1>3 DEF Laid
<1>5. s[1][2] = 1
  <2>1. 1 \in 1..z
    BY <1>2
  <2>2. s[1] = <<sn, 1>>
    BY <1>1, <2>1
  <2>. QED
    BY <2>2
<1>. QED
  BY <1>4, <1>5 DEF s

-----------------------------------------------------------------------------
(* What ikcp_flush sends is its segments, one behind the other, however it *)
(* packs them.                                                             *)
Segments(due) == [i \in 1..Len(due) |-> Encoded(due[i])]

(* Each piece is a segment's header and data.                              *)
LEMMA SegmentsAre ==
  ASSUME lens \in Files, NEW sns \in SUBSET (0..Len(lens) - 1), NEW due \in Seq(sns)
  PROVE  \A i \in 1..Len(due) : /\ due[i] \in sns
                                /\ Segments(due)[i] \in Seq(ByteOf(sns))
                                /\ End(Segments(due), i) = Size(due[i])
                                /\ Size(due[i]) \in Nat /\ Size(due[i]) > 0
                                /\ \A k \in 1..Size(due[i]) :
                                     Segments(due)[i][k] = <<due[i], k>>
<1>. TAKE i \in 1..Len(due)
<1>1. due[i] \in sns /\ Segments(due)[i] = Encoded(due[i])
  BY DEF Segments
<1>2. /\ Encoded(due[i]) \in Seq(ByteOf(sns)) /\ Len(Encoded(due[i])) = Size(due[i])
      /\ \A k \in 1..Size(due[i]) : Encoded(due[i])[k] = <<due[i], k>>
  BY <1>1, EncodedIs
<1>3. Size(due[i]) \in Nat /\ Size(due[i]) > 0
  <2>1. due[i] \in 0..Len(lens) - 1 /\ Overhead \in Nat
    BY <1>1, LengthAssumption
  <2>2. Size(due[i]) \in Nat /\ Size(due[i]) > Overhead
    BY <2>1, SizeIs
  <2>. QED
    BY <2>1, <2>2
<1>. QED
  BY <1>1, <1>2, <1>3 DEF End

(* The bytes of a packet are those between its first and last segment.     *)
LEMMA PacketInRun ==
  ASSUME lens \in Files, NEW sns \in SUBSET (0..Len(lens) - 1), NEW due \in Seq(sns),
         NEW B, Run(B, ByteOf(sns), <<>>, Segments(due), Len(due)),
         NEW a \in 1..Len(due), NEW b \in a..Len(due)
  PROVE  B[b] = B[a - 1] \o Bytes(due, a, b)
<1>. DEFINE S == ByteOf(sns)
            n == Len(due)
            l == b + 1 - a
            pieces == [i \in 1..l |-> Encoded(due[a + i - 1])]
            h == [i \in 0..l |-> B[a - 1 + i]]
            start == B[a - 1]
<1>1. n \in Nat /\ l \in Nat /\ l \in 0..l /\ a - 1 + l = b /\ a - 1 + 0 = a - 1
      /\ 0 \in 0..l /\ a - 1 \in 0..n
  OBVIOUS
<1>2. PICK g \in [0..b + 1 - a -> Seq(ByteOf(sns))] :
         /\ g[0] = <<>>
         /\ \A i \in 1..b + 1 - a : g[i] = g[i - 1] \o Encoded(due[a + i - 1])
         /\ Bytes(due, a, b) = g[b + 1 - a]
  BY BytesAre
<1>3. \A i \in 1..l : pieces[i] \in Seq(S) /\ pieces[i] = Segments(due)[a + i - 1]
  <2>1. ASSUME NEW i \in 1..l
        PROVE  pieces[i] \in Seq(S) /\ pieces[i] = Segments(due)[a + i - 1]
    <3>. DEFINE j == a + i - 1
    <3>1. j \in 1..Len(due)
      OBVIOUS
    <3>. HIDE DEF j
    <3>2. Segments(due)[j] \in Seq(S) /\ Segments(due)[j] = Encoded(due[j])
      BY <3>1, SegmentsAre DEF Segments
    <3>3. pieces[i] = Encoded(due[j])
      BY DEF j
    <3>. HIDE DEF pieces, S
    <3>. QED
      BY <3>2, <3>3 DEF j
  <2>. QED
    BY <2>1
<1>4. Run(g, S, <<>>, pieces, l)
  BY <1>1, <1>2, <1>3 DEF Run
<1>5. /\ \A i \in 0..n : B[i] \in Seq(S)
      /\ \A i \in 1..n : B[i] = B[i - 1] \o Segments(due)[i]
  <2>1. B \in [0..n -> Seq(S)]
    BY DEF Run
  <2>2. \A i \in 0..n : B[i] \in Seq(S)
    <3>. HIDE DEF S, n
    <3>. QED
      BY <2>1
  <2>. QED
    BY <2>2 DEF Run
<1>6. Run(h, S, start, pieces, l)
  <2>1. h \in [0..l -> Seq(S)]
    <3>1. \A i \in 0..l : a - 1 + i \in 0..n
      OBVIOUS
    <3>. HIDE DEF S, n, l
    <3>. QED
      BY <1>5, <3>1
  <2>2. h[0] = start
    BY <1>1
  <2>3. ASSUME NEW i \in 1..l PROVE h[i] = h[i - 1] \o pieces[i]
    <3>. DEFINE j == a + i - 1
    <3>1. j \in 1..n /\ a - 1 + i = j /\ a - 1 + (i - 1) = j - 1 /\ i \in 0..l
          /\ i - 1 \in 0..l
      OBVIOUS
    <3>2. h[i] = B[j] /\ h[i - 1] = B[j - 1]
      BY <3>1
    <3>3. pieces[i] = Segments(due)[j]
      BY <1>3
    <3>. HIDE DEF j, h, pieces, S, n, l
    <3>. QED
      BY <1>5, <3>1, <3>2, <3>3
  <2>4. start \in Seq(S) /\ l \in Nat /\ \A i \in 1..l : pieces[i] \in Seq(S)
    BY <1>1, <1>3, <1>5
  <2>. HIDE DEF h, pieces, S, l, start
  <2>. QED
    BY <2>1, <2>2, <2>3, <2>4 DEF Run
<1>8. h[l] = start \o g[l]
  <2>. HIDE DEF h, pieces, S, l, start
  <2>1. Shifted(h, start, g, l)
    BY ONLY <1>4, <1>6, RunShift
  <2>. QED
    BY <1>1, <2>1 DEF Shifted
<1>9. h[l] = B[b]
  BY <1>1
<1>. QED
  BY <1>2, <1>8, <1>9

(* The packets of a flush follow each other in due.                        *)
LEMMA OpensAre ==
  ASSUME NEW due, NEW n \in Nat, NEW opens, Opening(opens, due, n)
  PROVE  \A t \in 1..n : /\ opens[t] \in 1..t
                         /\ \A j \in opens[t]..t : opens[j] = opens[t]
<1>. DEFINE T == {t \in 1..n : ~ /\ opens[t] \in 1..t
                                 /\ \A j \in opens[t]..t : opens[j] = opens[t]}
<1>. SUFFICES ASSUME NEW m \in T PROVE FALSE
  OBVIOUS
<1>1. PICK t \in T : \A j \in T : t <= j
  <2>1. T \subseteq Nat /\ T # {}
    OBVIOUS
  <2>. HIDE DEF T
  <2>. QED
    BY <2>1, LeastExists
<1>2. t \in 1..n /\ ~ /\ opens[t] \in 1..t
                      /\ \A j \in opens[t]..t : opens[j] = opens[t]
  OBVIOUS
<1>3. CASE opens[t] = t
  <2>1. t \in 1..t /\ \A j \in t..t : j = t
    BY <1>2
  <2>. QED
    BY <1>2, <1>3, <2>1
<1>4. CASE opens[t] # t
  <2>. DEFINE u == t - 1
              a == opens[t]
  <2>1. t > 1 /\ opens[u] = a
    BY <1>2, <1>4 DEF Opening
  <2>2. u \in 1..n /\ ~(t <= u) /\ t = u + 1
    <3>. HIDE DEF T
    <3>. QED
      BY <1>2, <2>1
  <2>3. u \notin T
    <3>. HIDE DEF T, u
    <3>. QED
      BY <1>1, <2>2
  <2>4. opens[u] \in 1..u /\ \A j \in opens[u]..u : opens[j] = opens[u]
    BY <2>2, <2>3
  <2>5. a \in 1..u /\ \A j \in a..u : opens[j] = a
    <3>. HIDE DEF u, T
    <3>. QED
      BY <2>1, <2>4
  <2>6. \A j \in a..t : j = t \/ j \in a..u
    <3>1. t \in Int /\ a \in Int
      BY <1>2, <2>5
    <3>. HIDE DEF T, a
    <3>. QED
      BY <3>1
  <2>7. a \in 1..t
    <3>. HIDE DEF u, a, T
    <3>. QED
      BY <2>2, <2>5
  <2>. HIDE DEF u, T
  <2>. QED
    BY <1>2, <2>5, <2>6, <2>7
<1>. QED
  BY <1>3, <1>4

(* A packet ends where the next one opens.                                 *)
LEMMA LastOfIs ==
  ASSUME NEW due, NEW n \in Nat, NEW opens, Opening(opens, due, n), NEW t \in 1..n
  PROVE  /\ LastOf(opens, n, opens[t]) \in t..n
         /\ opens[LastOf(opens, n, opens[t])] = opens[t]
         /\ t < n /\ opens[t + 1] = t + 1 => LastOf(opens, n, opens[t]) = t
<1>. DEFINE a == opens[t]
            s == {j \in 1..n : opens[j] = a}
            b == Max(s)
<1>1. s \in SUBSET (0..n) /\ t \in s
  OBVIOUS
<1>2. b \in s /\ t <= b
  <2>. HIDE DEF s
  <2>. QED
    BY <1>1, MaxOf
<1>3. b \in t..n /\ opens[b] = a
  BY <1>2
<1>4. LastOf(opens, n, a) = b
  BY DEF LastOf
<1>. HIDE DEF b, s
<1>5. ASSUME t < n, opens[t + 1] = t + 1, b # t PROVE FALSE
  <2>1. a \in 1..t /\ b \in 1..n
    BY <1>3, OpensAre
  <2>2. \A j \in opens[b]..b : opens[j] = opens[b]
    BY <2>1, OpensAre
  <2>. DEFINE u == t + 1
  <2>3. u \in a..b /\ u # a
    <3>. HIDE DEF a
    <3>. QED
      BY <1>3, <1>5, <2>1
  <2>. HIDE DEF u
  <2>4. opens[u] = a
    BY <1>3, <2>2, <2>3
  <2>. QED
    BY <1>5, <2>3, <2>4 DEF u
<1>. QED
  BY <1>3, <1>4, <1>5

-----------------------------------------------------------------------------
(* The bytes that TCP segments carry, one segment after the other.         *)
Datas(q) == [i \in 1..Len(q) |-> q[i].data]

Whole(q, S, s) == \E h : Run(h, S, <<>>, Datas(q), Len(q)) /\ s = h[Len(q)]

(* TCP segments carry bytes of segments.                                   *)
LEMMA WholeTyped ==
  ASSUME NEW q, NEW S, NEW s, Whole(q, S, s)
  PROVE  s \in Seq(S) /\ Len(q) \in Nat /\ \A i \in 1..Len(q) : q[i].data \in Seq(S)
<1>1. PICK h : Run(h, S, <<>>, Datas(q), Len(q)) /\ s = h[Len(q)]
  BY DEF Whole
<1>2. Len(q) \in Nat /\ h \in [0..Len(q) -> Seq(S)]
  BY <1>1 DEF Run
<1>3. Len(q) \in 0..Len(q)
  BY <1>2
<1>4. \A i \in 1..Len(q) : q[i].data \in Seq(S)
  BY <1>1 DEF Run, Datas
<1>. QED
  BY <1>1, <1>2, <1>3, <1>4

(* Nothing under way carries nothing.                                      *)
LEMMA WholeNone ==
  ASSUME NEW S PROVE Whole(<<>>, S, <<>>)
<1>. DEFINE h == [i \in 0..0 |-> <<>>]
<1>1. Len(<<>>) = 0 /\ 0 \in Nat /\ <<>> \in Seq(S) /\ 1..0 = {} /\ 0 \in 0..0
  OBVIOUS
<1>2. h \in [0..0 -> Seq(S)] /\ h[0] = <<>>
  BY <1>1
<1>3. Run(h, S, <<>>, Datas(<<>>), 0)
  BY <1>1, <1>2 DEF Run
<1>. QED
  BY <1>1, <1>2, <1>3 DEF Whole

(* A single TCP segment carries its data.                                  *)
LEMMA WholeOne ==
  ASSUME NEW S, NEW d \in Seq(S), NEW c
  PROVE  Whole(<<[data |-> d, check |-> c]>>, S, d)
<1>. DEFINE q == <<[data |-> d, check |-> c]>>
            h == [i \in 0..1 |-> IF i = 0 THEN <<>> ELSE d]
<1>1. Len(q) = 1 /\ q[1].data = d /\ 1 \in Nat /\ <<>> \in Seq(S) /\ 0 \in 0..1 /\ 1 \in 0..1
      /\ \A i \in 1..1 : i = 1 /\ i - 1 = 0
  OBVIOUS
<1>2. h \in [0..1 -> Seq(S)] /\ h[0] = <<>> /\ h[1] = d
  BY <1>1
<1>3. <<>> \o d = d
  OBVIOUS
<1>. HIDE DEF q, h
<1>4. \A i \in 1..1 : Datas(q)[i] = d
  BY <1>1 DEF Datas
<1>5. Run(h, S, <<>>, Datas(q), 1)
  BY <1>1, <1>2, <1>3, <1>4 DEF Run
<1>6. Whole(q, S, d)
  BY <1>1, <1>2, <1>5 DEF Whole
<1>. QED
  BY <1>6 DEF q

(* More segments under way do not change what a packet carries.            *)
LEMMA WholeWider ==
  ASSUME NEW q, NEW S, NEW T, NEW s, S \subseteq T, Whole(q, S, s)
  PROVE  Whole(q, T, s)
<1>1. PICK h : Run(h, S, <<>>, Datas(q), Len(q)) /\ s = h[Len(q)]
  BY DEF Whole
<1>2. \A t \in Seq(S) : t \in Seq(T)
  BY WiderSeq
<1>3. Run(h, T, <<>>, Datas(q), Len(q))
  <2>1. h \in [0..Len(q) -> Seq(S)]
    BY <1>1 DEF Run
  <2>2. h \in [0..Len(q) -> Seq(T)]
    BY <1>2, <2>1
  <2>. QED
    BY <1>1, <1>2, <2>2 DEF Run
<1>. QED
  BY <1>1, <1>3 DEF Whole

(* What is sent later comes later.                                         *)
LEMMA WholeJoined ==
  ASSUME NEW P, NEW q \in Seq(P), NEW r \in Seq(P), NEW S, NEW s, NEW t,
         Whole(q, S, s), Whole(r, S, t)
  PROVE  Whole(q \o r, S, s \o t)
<1>. DEFINE m == Len(q)
            l == Len(r)
            w == q \o r
<1>1. PICK h : Run(h, S, <<>>, Datas(q), m) /\ s = h[m]
  BY DEF Whole
<1>2. PICK k : Run(k, S, <<>>, Datas(r), l) /\ t = k[l]
  BY DEF Whole
<1>3. /\ m \in Nat /\ l \in Nat /\ Len(w) = m + l
      /\ \A i \in 1..m : w[i] = q[i]
      /\ \A i \in 1..l : w[m + i] = r[i]
  OBVIOUS
<1>. HIDE DEF m, l, w
<1>. DEFINE f == [i \in 0..m + l |-> IF i <= m THEN h[i] ELSE s \o k[i - m]]
<1>4. /\ h \in [0..m -> Seq(S)] /\ h[0] = <<>>
      /\ \A i \in 1..m : h[i] = h[i - 1] \o Datas(q)[i]
      /\ \A i \in 1..m : Datas(q)[i] \in Seq(S)
  BY <1>1 DEF Run
<1>5. /\ k \in [0..l -> Seq(S)] /\ k[0] = <<>>
      /\ \A i \in 1..l : k[i] = k[i - 1] \o Datas(r)[i]
      /\ \A i \in 1..l : Datas(r)[i] \in Seq(S)
  BY <1>2 DEF Run
<1>6. /\ \A i \in 0..m : h[i] \in Seq(S)
      /\ \A i \in 0..l : k[i] \in Seq(S)
      /\ s \in Seq(S)
  <2>1. m \in 0..m
    BY <1>3
  <2>. QED
    BY <1>1, <1>4, <1>5, <2>1
<1>7. /\ \A i \in 1..m : Datas(w)[i] = Datas(q)[i]
      /\ \A i \in 1..l : Datas(w)[m + i] = Datas(r)[i]
  <2>1. \A i \in 1..m : i \in 1..m + l
    BY <1>3
  <2>2. \A i \in 1..l : m + i \in 1..m + l
    BY <1>3
  <2>. QED
    BY <1>3, <2>1, <2>2 DEF Datas, m, l
<1>8. \A i \in 0..l : f[m + i] = s \o k[i]
  <2>. TAKE i \in 0..l
  <2>. DEFINE j == m + i
  <2>1. j \in 0..m + l /\ (j <= m <=> i = 0) /\ j - m = i /\ (i = 0 => j = m)
    BY <1>3
  <2>. HIDE DEF j
  <2>2. s \o <<>> = s
    BY <1>6
  <2>3. f[j] = IF j <= m THEN h[j] ELSE s \o k[j - m]
    BY <2>1
  <2>. HIDE DEF f
  <2>4. CASE i = 0
    BY <1>1, <1>5, <2>1, <2>2, <2>3, <2>4 DEF j
  <2>5. CASE i # 0
    BY <2>1, <2>3, <2>5 DEF j
  <2>. QED
    BY <2>4, <2>5
<1>9. \A i \in 0..m : f[i] = h[i]
  BY <1>3
<1>10. \A i \in 0..m + l : i \in 0..m \/ \E j \in 1..l : i = m + j
  <2>. TAKE i \in 0..m + l
  <2>. DEFINE j == i - m
  <2>1. i \in 0..m \/ (j \in 1..l /\ i = m + j)
    BY <1>3
  <2>. HIDE DEF j
  <2>. QED
    BY <2>1
<1>11. \A i \in 0..m + l : f[i] \in Seq(S)
  <2>. TAKE i \in 0..m + l
  <2>1. CASE i \in 0..m
    BY <1>6, <1>9, <2>1
  <2>2. ASSUME NEW j \in 1..l, i = m + j PROVE f[i] \in Seq(S)
    <3>1. j \in 0..l /\ f[i] = s \o k[j] /\ k[j] \in Seq(S)
      BY <1>3, <1>6, <1>8, <2>2
    <3>. HIDE DEF f
    <3>. QED
      BY <1>6, <3>1
  <2>. QED
    BY <1>10, <2>1, <2>2
<1>12. f \in [0..m + l -> Seq(S)] /\ f[0] = <<>>
  <2>1. 0 \in 0..m
    BY <1>3
  <2>. QED
    BY <1>4, <1>9, <1>11, <2>1
<1>13. ASSUME NEW i \in 1..m + l
       PROVE  Datas(w)[i] \in Seq(S) /\ f[i] = f[i - 1] \o Datas(w)[i]
  <2>1. CASE i \in 1..m
    <3>1. i \in 0..m /\ i - 1 \in 0..m
      BY <1>3, <2>1
    <3>. HIDE DEF f
    <3>. QED
      BY <1>4, <1>7, <1>9, <2>1, <3>1
  <2>2. ASSUME NEW j \in 1..l, i = m + j
        PROVE  Datas(w)[i] \in Seq(S) /\ f[i] = f[i - 1] \o Datas(w)[i]
    <3>. DEFINE u == j - 1
    <3>1. j \in 0..l /\ u \in 0..l /\ i - 1 = m + u
      BY <1>3, <2>2
    <3>. HIDE DEF f
    <3>2. f[i] = s \o k[j] /\ f[i - 1] = s \o k[u] /\ Datas(w)[i] = Datas(r)[j]
          /\ k[j] = k[u] \o Datas(r)[j] /\ Datas(r)[j] \in Seq(S)
      BY <1>5, <1>7, <1>8, <2>2, <3>1
    <3>. HIDE DEF u
    <3>3. Associate(s, k[u], Datas(r)[j])
      BY <1>6, <3>1, <3>2, Associates
    <3>. QED
      BY <3>2, <3>3 DEF Associate
  <2>3. i \in 0..m + l /\ (i \in 0..m => i \in 1..m)
    BY <1>3
  <2>. QED
    BY <1>10, <2>1, <2>2, <2>3
<1>. HIDE DEF f
<1>14. Run(f, S, <<>>, Datas(w), m + l)
  <2>1. m + l \in Nat /\ <<>> \in Seq(S)
    BY <1>3
  <2>. QED
    BY <1>12, <1>13, <2>1 DEF Run
<1>15. f[m + l] = s \o t
  <2>1. l \in 0..l
    BY <1>3
  <2>. QED
    BY <1>2, <1>8, <2>1
<1>16. Whole(w, S, s \o t)
  BY <1>3, <1>14, <1>15 DEF Whole
<1>. QED
  BY <1>16 DEF w

(* The first TCP segment carries the first bytes.                          *)
LEMMA WholeTail ==
  ASSUME NEW P, NEW q \in Seq(P), q # <<>>, NEW S, NEW s, Whole(q, S, s)
  PROVE  \E t \in Seq(S) : s = q[1].data \o t /\ Whole(Tail(q), S, t)
<1>. DEFINE n == Len(q)
            l == n - 1
            r == Tail(q)
            d == q[1].data
<1>1. PICK h : Run(h, S, <<>>, Datas(q), n) /\ s = h[n]
  BY DEF Whole
<1>2. n \in Nat /\ l \in Nat /\ n = l + 1 /\ Len(r) = l /\ \A i \in 1..l : r[i] = q[i + 1]
  OBVIOUS
<1>. HIDE DEF n, r, l
<1>3. /\ h \in [0..n -> Seq(S)] /\ h[0] = <<>>
      /\ \A i \in 1..n : h[i] = h[i - 1] \o Datas(q)[i]
      /\ \A i \in 1..n : Datas(q)[i] \in Seq(S)
  BY <1>1 DEF Run
<1>4. \A i \in 1..l : Datas(r)[i] = Datas(q)[i + 1] /\ Datas(r)[i] \in Seq(S)
  <2>1. \A i \in 1..l : i + 1 \in 1..n
    BY <1>2
  <2>2. \A j \in 1..n : Datas(q)[j] = q[j].data
    BY DEF Datas, n
  <2>3. \A i \in 1..l : Datas(r)[i] = r[i].data
    BY <1>2 DEF Datas
  <2>4. ASSUME NEW i \in 1..l PROVE Datas(r)[i] = Datas(q)[i + 1] /\ Datas(r)[i] \in Seq(S)
    <3>. DEFINE j == i + 1
    <3>1. j \in 1..n /\ Datas(r)[i] = q[j].data
      BY <1>2, <2>1, <2>3
    <3>. HIDE DEF j
    <3>2. Datas(r)[i] = Datas(q)[j] /\ Datas(r)[i] \in Seq(S)
      BY <1>3, <2>2, <3>1
    <3>. QED
      BY <3>2 DEF j
  <2>. QED
    BY <2>4
<1>5. Datas(q)[1] = d /\ d \in Seq(S)
  <2>1. 1 \in 1..n
    BY <1>2
  <2>. QED
    BY <1>3, <2>1 DEF Datas, n
<1>. HIDE DEF d
<1>6. h[1] = d
  <2>1. 1 \in 1..n /\ 1 - 1 = 0
    BY <1>2
  <2>2. <<>> \o d = d
    BY <1>5
  <2>. QED
    BY <1>3, <1>5, <2>1, <2>2
<1>7. PICK k : Run(k, S, <<>>, Datas(r), l)
  <2>1. <<>> \in Seq(S)
    OBVIOUS
  <2>. QED
    BY <1>2, <1>4, <2>1, RunExists
<1>. DEFINE g == [i \in 0..l |-> h[i + 1]]
<1>8. Run(g, S, d, Datas(r), l)
  <2>1. \A i \in 0..l : i + 1 \in 0..n
    BY <1>2
  <2>2. g \in [0..l -> Seq(S)]
    BY <1>3, <2>1
  <2>3. g[0] = d
    <3>1. 0 \in 0..l /\ 0 + 1 = 1
      BY <1>2
    <3>. QED
      BY <1>6, <3>1
  <2>4. ASSUME NEW i \in 1..l PROVE g[i] = g[i - 1] \o Datas(r)[i]
    <3>. DEFINE j == i + 1
    <3>1. i \in 0..l /\ i - 1 \in 0..l /\ i - 1 + 1 = i /\ j \in 1..n /\ j - 1 = i
      BY <1>2
    <3>2. g[i] = h[j] /\ g[i - 1] = h[i] /\ Datas(r)[i] = Datas(q)[j]
      BY <1>4, <3>1
    <3>. HIDE DEF g, j
    <3>3. h[j] = h[j - 1] \o Datas(q)[j]
      BY <1>3, <3>1
    <3>. QED
      BY <3>1, <3>2, <3>3
  <2>. HIDE DEF g
  <2>. QED
    BY <1>2, <1>4, <1>5, <2>2, <2>3, <2>4 DEF Run
<1>9. g[l] = d \o k[l]
  <2>. HIDE DEF g
  <2>1. Shifted(g, d, k, l)
    BY <1>7, <1>8, RunShift
  <2>2. l \in 0..l
    BY <1>2
  <2>. QED
    BY <2>1, <2>2 DEF Shifted
<1>10. g[l] = s
  <2>1. l \in 0..l /\ l + 1 = n
    BY <1>2
  <2>. QED
    BY <1>1, <2>1
<1>11. Whole(r, S, k[l])
  BY <1>2, <1>7 DEF Whole
<1>12. k[l] \in Seq(S)
  BY <1>11, WholeTyped
<1>. HIDE DEF g
<1>. QED
  BY <1>9, <1>10, <1>11, <1>12 DEF d, r

-----------------------------------------------------------------------------
(* The packets of a flush, put together, are its segments put together.    *)
Spans(last, B, packets, n) ==
  /\ last \in [0..n -> 0..n] /\ last[0] = 0 /\ last[n] = n
  /\ \A i \in 1..n : B[last[i]] = B[last[i - 1]] \o packets[i]

(* ikcp_flush leaves no byte out between two packets.                      *)
LEMMA PacketsSpan ==
  ASSUME lens \in Files, NEW sns \in SUBSET (0..Len(lens) - 1), NEW due \in Seq(sns),
         NEW B, Run(B, ByteOf(sns), <<>>, Segments(due), Len(due))
  PROVE  \E last : Spans(last, B, Packets(due), Len(due))
<1>. DEFINE n == Len(due)
<1>1. n \in Nat /\ DOMAIN due = 1..n
  OBVIOUS
<1>2. PICK opens :
        /\ Opening(opens, due, n)
        /\ Packets(due) =
             [i \in 1..n |-> IF opens[i] = i
                             THEN Bytes(due, i, LastOf(opens, n, i)) ELSE <<>>]
  <2>. HIDE DEF n
  <2>. QED
    BY <1>1, PacketsAre
<1>. DEFINE last == [i \in 0..n |-> IF i = 0 THEN 0 ELSE LastOf(opens, n, opens[i])]
<1>3. ASSUME NEW t \in 1..n
      PROVE  /\ LastOf(opens, n, opens[t]) \in t..n
             /\ opens[LastOf(opens, n, opens[t])] = opens[t]
             /\ t < n /\ opens[t + 1] = t + 1 => LastOf(opens, n, opens[t]) = t
  <2>. HIDE DEF n
  <2>. QED
    BY <1>1, <1>2, LastOfIs
<1>4. /\ last[0] = 0 /\ \A i \in 1..n : last[i] \in i..n
      /\ \A i \in 1..n : last[i] = LastOf(opens, n, opens[i])
  <2>1. 0 \in 0..n /\ \A i \in 1..n : i \in 0..n /\ i # 0
    BY <1>1
  <2>2. \A i \in 1..n : last[i] = LastOf(opens, n, opens[i])
    BY <2>1
  <2>3. \A i \in 1..n : LastOf(opens, n, opens[i]) \in i..n
    BY <1>3
  <2>. HIDE DEF n
  <2>. QED
    BY <2>1, <2>2, <2>3
<1>5. \A i \in 0..n : B[i] \in Seq(ByteOf(sns))
  BY RunGrows
<1>6. ASSUME NEW i \in 1..n PROVE B[last[i]] = B[last[i - 1]] \o Packets(due)[i]
  <2>. DEFINE j == i - 1
  <2>1. j \in 0..n /\ (j # 0 => j \in 1..n /\ j < n /\ j + 1 = i) /\ i \in Int
    BY <1>1
  <2>2. Packets(due)[i] = IF opens[i] = i THEN Bytes(due, i, LastOf(opens, n, i)) ELSE <<>>
    BY <1>2
  <2>3. CASE opens[i] = i
    <3>. DEFINE b == last[i]
    <3>1. b \in i..n /\ b = LastOf(opens, n, i)
      BY <1>4, <2>3
    <3>2. last[j] = j
      <4>1. CASE j = 0
        BY <1>4, <4>1
      <4>2. CASE j # 0
        <5>. HIDE DEF j, n, last
        <5>1. last[j] = LastOf(opens, n, opens[j])
          BY <1>4, <2>1, <4>2
        <5>. QED
          BY <1>3, <2>1, <2>3, <4>2, <5>1
      <4>. QED
        BY <4>1, <4>2
    <3>. HIDE DEF b, last
    <3>3. B[b] = B[i - 1] \o Bytes(due, i, b)
      BY <3>1, PacketInRun
    <3>. QED
      BY <2>2, <2>3, <3>1, <3>2, <3>3 DEF b
  <2>4. CASE opens[i] # i
    <3>1. i > 1 /\ opens[i] = opens[i - 1]
      BY <1>2, <2>4 DEF Opening
    <3>2. last[i] = last[j]
      <4>1. j # 0 /\ opens[i] = opens[j]
        BY <3>1
      <4>. HIDE DEF j, n, last
      <4>2. j \in 1..n
        BY <2>1, <4>1
      <4>. QED
        BY <1>4, <4>1, <4>2
    <3>3. last[i] \in 0..n
      <4>1. last[i] \in i..n
        BY <1>4
      <4>. HIDE DEF last, n
      <4>. QED
        BY <4>1
    <3>. HIDE DEF last
    <3>4. B[last[i]] \in Seq(ByteOf(sns))
      BY <1>5, <3>3
    <3>5. B[last[i]] \o <<>> = B[last[i]]
      <4>. DEFINE x == B[last[i]]
      <4>1. x \in Seq(ByteOf(sns))
        BY <3>4
      <4>. HIDE DEF x
      <4>2. x \o <<>> = x
        BY <4>1
      <4>. QED
        BY <4>2 DEF x
    <3>. QED
      BY <2>2, <2>4, <3>2, <3>5
  <2>. QED
    BY <2>3, <2>4
<1>7. last \in [0..n -> 0..n] /\ last[n] = n
  <2>1. ASSUME NEW i \in 0..n PROVE last[i] \in 0..n
    <3>1. i = 0 \/ i \in 1..n
      BY <1>1
    <3>2. last[i] = 0 \/ last[i] \in i..n
      BY <1>4, <3>1
    <3>. HIDE DEF last, n
    <3>. QED
      BY <1>1, <3>2
  <2>2. last \in [0..n -> 0..n]
    BY <2>1
  <2>3. n = 0 \/ last[n] \in n..n
    <3>. HIDE DEF last, n
    <3>1. n = 0 \/ n \in 1..n
      BY <1>1
    <3>. QED
      BY <1>4, <3>1
  <2>. HIDE DEF last, n
  <2>. QED
    BY <1>1, <1>4, <2>2, <2>3
<1>. HIDE DEF last
<1>. QED
  BY <1>4, <1>6, <1>7 DEF Spans

(* A packet is one TCP segment or none, so the bytes stay what they were.  *)
LEMMA OutputWhole ==
  ASSUME Mtu <= UdpMtu, lens \in Files, NEW sns \in SUBSET (0..Len(lens) - 1),
         NEW due \in Seq(sns),
         NEW B, Run(B, ByteOf(sns), <<>>, Segments(due), Len(due))
  PROVE  Whole(Output(due), ByteOf(sns), B[Len(due)])
<1>. DEFINE n == Len(due)
            S == ByteOf(sns)
            P == Parcel(sns)
            packets == Packets(due)
            parts == [i \in DOMAIN due |-> Parts(Packets(due)[i])]
<1>1. n \in Nat /\ DOMAIN due = 1..n /\ Len(parts) = n
  OBVIOUS
<1>2. parts \in Seq(Seq(P)) /\ \A i \in 1..n : packets[i] \in Seq(S)
  BY OutputIs
<1>3. \A i \in 1..n :
         parts[i] = IF packets[i] = <<>> THEN <<>>
                    ELSE <<[data |-> packets[i], check |-> Checks(packets[i])]>>
  BY <1>1, OutputSealed
<1>4. PICK G \in [0..n -> Seq(P)] :
        /\ G[0] = <<>>
        /\ \A i \in 1..n : G[i] = G[i - 1] \o parts[i]
        /\ Output(due) = G[n]
  <2>1. \E G \in [0..Len(parts) -> Seq(P)] :
           /\ G[0] = <<>>
           /\ \A i \in 1..Len(parts) : G[i] = G[i - 1] \o parts[i]
           /\ FlattenSeq(parts) = G[Len(parts)]
    <3>. HIDE DEF parts, P
    <3>. QED
      BY <1>2, Flattened
  <2>. QED
    BY <1>1, <2>1 DEF Output
<1>5. PICK last : Spans(last, B, packets, n)
  BY PacketsSpan
<1>. HIDE DEF n, S, P, packets, parts
<1>6. \A i \in 1..n : Whole(parts[i], S, packets[i]) /\ parts[i] \in Seq(P)
  <2>. TAKE i \in 1..n
  <2>1. parts[i] \in Seq(P) /\ packets[i] \in Seq(S)
    BY <1>1, <1>2
  <2>2. CASE packets[i] = <<>>
    BY <1>3, <2>1, <2>2, WholeNone
  <2>3. CASE packets[i] # <<>>
    BY <1>3, <2>1, <2>3, WholeOne
  <2>. QED
    BY <2>1, <2>2, <2>3
<1>. DEFINE T == {i \in 0..n : ~Whole(G[i], S, B[last[i]])}
<1>7. ASSUME NEW m \in T PROVE FALSE
  <2>1. PICK i \in T : \A j \in T : i <= j
    <3>1. T \subseteq 0..n /\ m \in T
      BY <1>7
    <3>. HIDE DEF T
    <3>2. T \subseteq Nat /\ T # {}
      BY <1>1, <3>1
    <3>. HIDE DEF T
    <3>. QED
      BY <3>2, LeastExists
  <2>2. i \in 0..n /\ ~Whole(G[i], S, B[last[i]])
    OBVIOUS
  <2>3. CASE i = 0
    <3>1. last[0] = 0 /\ B[0] = <<>>
      BY <1>5 DEF Spans, Run
    <3>2. Whole(<<>>, S, <<>>)
      BY WholeNone
    <3>. QED
      BY <1>4, <2>2, <2>3, <3>1, <3>2
  <2>4. CASE i # 0
    <3>. DEFINE j == i - 1
    <3>1. j \in 0..n /\ i \in 1..n /\ ~(i <= j)
      <4>. HIDE DEF T
      <4>. QED
        BY <1>1, <2>2, <2>4
    <3>2. j \notin T
      <4>. HIDE DEF T, j
      <4>. QED
        BY <2>1, <3>1
    <3>3. Whole(G[j], S, B[last[j]])
      BY <3>1, <3>2
    <3>4. G[i] = G[j] \o parts[i] /\ B[last[i]] = B[last[j]] \o packets[i]
      BY <1>4, <1>5, <3>1 DEF Spans
    <3>. HIDE DEF j, T
    <3>5. G[j] \in Seq(P) /\ parts[i] \in Seq(P) /\ Whole(parts[i], S, packets[i])
      BY <1>4, <1>6, <3>1
    <3>6. Whole(G[j] \o parts[i], S, B[last[j]] \o packets[i])
      BY <3>3, <3>5, WholeJoined
    <3>. QED
      BY <2>2, <3>4, <3>6
  <2>. QED
    BY <2>3, <2>4
<1>8. Whole(G[n], S, B[last[n]])
  <2>1. n \in 0..n
    BY <1>1
  <2>. QED
    BY <1>7, <2>1
<1>9. last[n] = n
  BY <1>5 DEF Spans
<1>. QED
  BY <1>4, <1>8, <1>9 DEF n, S

-----------------------------------------------------------------------------
(* A flush sends each of its segments whole, the lower numbers first.      *)
Spread(s, sns) ==
  /\ Laid(s)
  /\ s # <<>> => s[1][2] = 1
  /\ \A sn \in sns : \E i \in 1..Len(s) : s[i] = <<sn, 1>>
  /\ \A i \in 1..Len(s) : s[i][2] = 1 =>
       \A sm \in sns : sm < s[i][1] => \E j \in 1..Len(s) : j < i /\ s[j] = <<sm, 1>>

(* Segments one behind another are laid out as ikcp_input walks them.      *)
LEMMA SegmentsLaid ==
  ASSUME lens \in Files, NEW sns \in SUBSET (0..Len(lens) - 1), NEW due \in Seq(sns),
         NEW B, Run(B, ByteOf(sns), <<>>, Segments(due), Len(due))
  PROVE  Laid(B[Len(due)])
<1>. DEFINE n == Len(due)
            S == ByteOf(sns)
            T == {i \in 0..n : ~Laid(B[i])}
<1>1. n \in Nat
  OBVIOUS
<1>2. \A i \in 0..n : B[i] \in Seq(S)
  BY RunGrows
<1>3. \A i \in 1..n : /\ Segments(due)[i] \in Seq(S)
                      /\ Laid(Segments(due)[i]) /\ Segments(due)[i][1][2] = 1
  <2>. TAKE i \in 1..n
  <2>1. due[i] \in sns /\ Segments(due)[i] = Encoded(due[i]) /\ Segments(due)[i] \in Seq(S)
    BY SegmentsAre DEF Segments
  <2>. QED
    BY <2>1, EncodedLaid
<1>4. ASSUME NEW m \in T PROVE FALSE
  <2>1. PICK i \in T : \A j \in T : i <= j
    <3>1. T \subseteq 0..n /\ m \in T
      BY <1>4
    <3>. HIDE DEF T, n
    <3>2. T \subseteq Nat /\ T # {}
      BY <1>1, <3>1
    <3>. QED
      BY <3>2, LeastExists
  <2>2. i \in 0..n /\ ~Laid(B[i])
    OBVIOUS
  <2>3. CASE i = 0
    <3>1. B[0] = <<>>
      BY DEF Run
    <3>2. Laid(<<>>)
      BY DEF Laid
    <3>. QED
      BY <2>2, <2>3, <3>1, <3>2
  <2>4. CASE i # 0
    <3>. DEFINE j == i - 1
    <3>1. j \in 0..n /\ i \in 1..n /\ ~(i <= j)
      <4>. HIDE DEF T
      <4>. QED
        BY <1>1, <2>2, <2>4
    <3>2. j \notin T
      <4>. HIDE DEF T, j
      <4>. QED
        BY <2>1, <3>1
    <3>3. Laid(B[j])
      BY <3>1, <3>2
    <3>4. B[i] = B[j] \o Segments(due)[i]
      BY <3>1 DEF Run
    <3>. HIDE DEF j, T, S, n
    <3>5. Laid(B[j] \o Segments(due)[i])
      BY <1>2, <1>3, <3>1, <3>3, LaidJoined
    <3>. QED
      BY <2>2, <3>4, <3>5
  <2>. QED
    BY <2>3, <2>4
<1>5. n \in 0..n
  BY <1>1
<1>. QED
  BY <1>4, <1>5

(* Where the bytes of the i-th segment are, and whose byte the p-th is.    *)
LEMMA SegmentsAt ==
  ASSUME lens \in Files, NEW sns \in SUBSET (0..Len(lens) - 1), NEW due \in Seq(sns),
         NEW B, Run(B, ByteOf(sns), <<>>, Segments(due), Len(due)),
         NEW i \in 1..Len(due), NEW k \in 1..Size(due[i])
  PROVE  /\ End(B, i - 1) + k \in 1..End(B, i)
         /\ End(B, i) <= End(B, Len(due))
         /\ B[Len(due)][End(B, i - 1) + k] = <<due[i], k>>
<1>. DEFINE n == Len(due)
            pieces == Segments(due)
            e == End(B, i - 1)
            f == End(B, i)
            z == Size(due[i])
<1>1. n \in Nat /\ i \in 0..n /\ i - 1 \in 0..n /\ n \in i..n
  OBVIOUS
<1>2. e \in Nat /\ f \in Nat /\ f = e + End(pieces, i)
  <2>. HIDE DEF n
  <2>. QED
    BY <1>1, RunGrows
<1>3. End(pieces, i) = z /\ z \in Nat /\ pieces[i][k] = <<due[i], k>>
  BY SegmentsAre
<1>4. B[i][e + k] = pieces[i][k]
  <2>1. k \in 1..End(pieces, i)
    BY <1>3
  <2>. HIDE DEF n, pieces, z
  <2>. QED
    BY <2>1, RunGrows DEF n, pieces
<1>5. f <= End(B, n) /\ \A j \in 1..f : B[n][j] = B[i][j]
  <2>1. \A m \in i..n : End(B, i) <= End(B, m) /\ \A j \in 1..End(B, i) : B[m][j] = B[i][j]
    BY <1>1, RunKeeps
  <2>. HIDE DEF n
  <2>. QED
    BY <1>1, <2>1
<1>. HIDE DEF e, f, z, n, pieces
<1>6. e + k \in 1..f
  BY <1>2, <1>3 DEF z
<1>7. B[n][e + k] = <<due[i], k>>
  BY <1>3, <1>4, <1>5, <1>6
<1>. QED
  BY <1>5, <1>6, <1>7 DEF e, f, n

(* Every byte of a flush belongs to one of its segments.                   *)
LEMMA SegmentOf ==
  ASSUME lens \in Files, NEW sns \in SUBSET (0..Len(lens) - 1), NEW due \in Seq(sns),
         NEW B, Run(B, ByteOf(sns), <<>>, Segments(due), Len(due)),
         NEW p \in 1..End(B, Len(due))
  PROVE  \E i \in 1..Len(due) : \E k \in 1..Size(due[i]) : p = End(B, i - 1) + k
<1>. DEFINE n == Len(due)
<1>1. PICK i \in 1..n : End(B, i - 1) < p /\ p <= End(B, i)
  <2>1. p \in Nat /\ p > Len(<<>>) /\ p <= End(B, n)
    <3>1. End(B, n) \in Nat
      <4>1. n \in 0..n
        OBVIOUS
      <4>. QED
        BY <4>1, RunGrows
    <3>2. Len(<<>>) = 0
      OBVIOUS
    <3>. QED
      BY <3>1, <3>2
  <2>. HIDE DEF n
  <2>. QED
    BY <2>1, RunFound DEF n
<1>. DEFINE e == End(B, i - 1)
            k == p - e
<1>2. e \in Nat /\ End(B, i) = e + End(Segments(due), i)
  <2>1. i - 1 \in 0..n
    OBVIOUS
  <2>. QED
    BY <2>1, RunGrows
<1>3. End(Segments(due), i) = Size(due[i]) /\ Size(due[i]) \in Nat
  BY SegmentsAre
<1>. HIDE DEF e
<1>4. k \in 1..Size(due[i]) /\ p = e + k
  <2>. DEFINE z == Size(due[i])
  <2>1. z \in Nat /\ End(B, i) = e + z /\ e < p
    BY <1>1, <1>2, <1>3 DEF e
  <2>2. p <= e + z /\ p \in Int
    BY <1>1, <2>1
  <2>. HIDE DEF z
  <2>3. p - e \in 1..z /\ p = e + (p - e)
    BY <1>2, <2>1, <2>2
  <2>. QED
    BY <2>3 DEF z
<1>. QED
  BY <1>4 DEF e

(* What a flush gives to the raw socket carries each segment whole, as no  *)
(* packet is cut by tcp_client_cb.                                         *)
LEMMA FlushedIs ==
  ASSUME Mtu <= UdpMtu, lens \in Files, NEW sns \in SUBSET (0..Len(lens) - 1)
  PROVE  \E s \in Seq(ByteOf(sns)) :
           Whole(Output(InOrder(sns)), ByteOf(sns), s) /\ Spread(s, sns)
<1>. DEFINE due == InOrder(sns)
            n == Len(due)
            S == ByteOf(sns)
<1>1. /\ due \in Seq(sns) /\ n \in Nat
      /\ \A i, j \in 1..n : i < j => due[i] < due[j]
      /\ \A x \in sns : \E i \in 1..n : due[i] = x
  <2>1. Len(lens) \in Nat
    BY LengthAssumption
  <2>. QED
    BY <2>1, InOrderIs
<1>. HIDE DEF due
<1>2. PICK B : Run(B, S, <<>>, Segments(due), n)
  <2>1. \A i \in 1..n : Segments(due)[i] \in Seq(S)
    BY <1>1, SegmentsAre
  <2>2. <<>> \in Seq(S)
    OBVIOUS
  <2>. HIDE DEF n, S
  <2>. QED
    BY <1>1, <2>1, <2>2, RunExists
<1>. DEFINE s == B[n]
            l == End(B, n)
<1>3. s \in Seq(S) /\ l \in Nat /\ l = Len(s)
  <2>1. n \in 0..n
    BY <1>1
  <2>. HIDE DEF n, S
  <2>. QED
    BY <1>2, <2>1, RunGrows DEF End
<1>4. Whole(Output(due), S, s)
  BY <1>1, <1>2, OutputWhole
<1>5. Laid(s)
  BY <1>1, <1>2, SegmentsLaid
<1>6. ASSUME NEW i \in 1..n
      PROVE  /\ End(B, i - 1) + 1 \in 1..End(B, i) /\ End(B, i) <= l
             /\ s[End(B, i - 1) + 1] = <<due[i], 1>>
             /\ End(B, i) \in Nat /\ End(B, i - 1) \in Nat
  <2>1. 1 \in 1..Size(due[i])
    <3>. DEFINE z == Size(due[i])
    <3>1. z \in Nat /\ z > 0
      BY <1>1, SegmentsAre
    <3>. HIDE DEF z
    <3>. QED
      BY <3>1 DEF z
  <2>2. i \in 0..n /\ i - 1 \in 0..n
    BY <1>1
  <2>3. End(B, i) \in Nat /\ End(B, i - 1) \in Nat
    BY <1>2, <2>2, RunGrows
  <2>. HIDE DEF s, l
  <2>. QED
    BY <1>1, <1>2, <2>1, <2>3, SegmentsAt DEF s, l
<1>7. ASSUME NEW p \in 1..l
      PROVE  \E i \in 1..n : \E k \in 1..Size(due[i]) :
               p = End(B, i - 1) + k /\ s[p] = <<due[i], k>> /\ k \in Nat /\ End(B, i - 1) \in Nat
  <2>0. PICK i \in 1..n : \E k \in 1..Size(due[i]) : p = End(B, i - 1) + k
    BY <1>1, <1>2, SegmentOf
  <2>1. PICK k \in 1..Size(due[i]) : p = End(B, i - 1) + k
    BY <2>0
  <2>2. s[End(B, i - 1) + k] = <<due[i], k>>
    BY <1>1, <1>2, SegmentsAt
  <2>3. End(B, i - 1) \in Nat
    BY <1>6
  <2>4. k \in Nat
    BY <1>1, SegmentsAre
  <2>. HIDE DEF s, l
  <2>. QED
    BY <2>1, <2>2, <2>3, <2>4
<1>. HIDE DEF s, l
<1>8. s # <<>> => s[1][2] = 1
  <2>. SUFFICES ASSUME s # <<>> PROVE s[1][2] = 1
    OBVIOUS
  <2>1. 1 \in 1..l
    <3>. HIDE DEF S
    <3>. QED
      BY <1>3
  <2>6. PICK i \in 1..n : \E k \in 1..Size(due[i]) :
          1 = End(B, i - 1) + k /\ s[1] = <<due[i], k>> /\ k \in Nat /\ End(B, i - 1) \in Nat
    BY <1>7, <2>1
  <2>2. PICK k \in 1..Size(due[i]) :
          1 = End(B, i - 1) + k /\ s[1] = <<due[i], k>> /\ k \in Nat /\ End(B, i - 1) \in Nat
    BY <2>6
  <2>3. k >= 1
    BY <2>2
  <2>. DEFINE e == End(B, i - 1)
  <2>4. e \in Nat /\ 1 = e + k
    BY <2>2
  <2>. HIDE DEF e
  <2>5. k = 1
    BY <2>2, <2>3, <2>4
  <2>. QED
    BY <2>2, <2>5
<1>9. \A sn \in sns : \E i \in 1..l : s[i] = <<sn, 1>>
  <2>. TAKE sn \in sns
  <2>1. PICK i \in 1..n : due[i] = sn
    BY <1>1
  <2>. DEFINE p == End(B, i - 1) + 1
              f == End(B, i)
  <2>2. p \in 1..f /\ f <= l /\ f \in Nat /\ s[p] = <<sn, 1>>
    BY <1>6, <2>1
  <2>. HIDE DEF p, f
  <2>3. p \in 1..l
    BY <1>3, <2>2
  <2>. QED
    BY <2>2, <2>3
<1>10. ASSUME NEW p \in 1..l, s[p][2] = 1, NEW sm \in sns, sm < s[p][1]
       PROVE  \E q \in 1..l : q < p /\ s[q] = <<sm, 1>>
  <2>0. PICK i \in 1..n : \E k \in 1..Size(due[i]) :
          p = End(B, i - 1) + k /\ s[p] = <<due[i], k>> /\ k \in Nat /\ End(B, i - 1) \in Nat
    BY <1>7
  <2>1. PICK k \in 1..Size(due[i]) :
          p = End(B, i - 1) + k /\ s[p] = <<due[i], k>> /\ k \in Nat /\ End(B, i - 1) \in Nat
    BY <2>0
  <2>2. k = 1 /\ due[i] = s[p][1]
    BY <1>10, <2>1
  <2>3. PICK j \in 1..n : due[j] = sm
    BY <1>1
  <2>4. j < i
    <3>1. ASSUME ~(j < i) PROVE FALSE
      <4>1. i < j \/ i = j
        BY <1>1, <3>1
      <4>2. due[j] < due[i]
        BY <1>10, <2>2, <2>3
      <4>3. due[i] \in Int /\ due[j] \in Int
        <5>1. due[i] \in sns /\ due[j] \in sns
          BY <1>1
        <5>2. \A x \in sns : x \in Int
          OBVIOUS
        <5>. HIDE DEF n, S
        <5>. QED
          BY <5>1, <5>2
      <4>4. i < j => due[i] < due[j]
        BY <1>1
      <4>. QED
        BY <4>1, <4>2, <4>3, <4>4
    <3>. QED
      BY <3>1
  <2>. DEFINE q == End(B, j - 1) + 1
              f == End(B, j)
              e == End(B, i - 1)
  <2>5. q \in 1..f /\ f \in Nat /\ s[q] = <<sm, 1>> /\ f <= l
    BY <1>6, <2>3
  <2>6. f <= e
    <3>. DEFINE h == i - 1
    <3>1. j \in 0..n /\ h \in j..n
      BY <1>1, <2>4
    <3>. HIDE DEF h, n, S
    <3>2. \A m \in j..n : End(B, j) <= End(B, m)
      BY <1>2, <3>1, RunKeeps
    <3>. QED
      BY <3>1, <3>2 DEF h
  <2>7. p = e + 1 /\ e \in Nat
    BY <2>1, <2>2
  <2>. HIDE DEF q, f, e
  <2>8. q \in 1..l /\ q < p
    BY <1>3, <2>5, <2>6, <2>7
  <2>. QED
    BY <2>5, <2>8
<1>11. Spread(s, sns)
  BY <1>3, <1>5, <1>8, <1>9, <1>10 DEF Spread
<1>. QED
  BY <1>3, <1>4, <1>11 DEF due

-----------------------------------------------------------------------------
(* The bytes on their way, as long as no input was refused.                *)

(* Each segment is an old one, the next one, or behind its predecessor.    *)
Chained(flow) ==
  \A i \in 1..Len(flow) : flow[i][2] = 1 =>
    \/ flow[i][1] <= rcv_nxt
    \/ \E j \in 1..Len(flow) : j < i /\ flow[j] = <<flow[i][1] - 1, 1>>

(* All that was sent and not received in order is on its way.              *)
Coming(flow) ==
  \A sn \in rcv_nxt..snd_nxt - 1 : \E i \in 1..Len(flow) : flow[i] = <<sn, 1>>

InStep(flow) == rcv_buf = {} /\ Laid(flow) /\ Chained(flow) /\ Coming(flow)

(* A read ended in a header and was not refused; the next one will be.     *)
Cut(flow) == flow # <<>> /\ flow[1][2] # 1

FlowInv ==
  \/ refused
  \/ /\ rcv_queue = <<>>
     /\ \E s \in Seq(SentBytes), flow \in Seq(SentBytes) :
          /\ Whole(wire, SentBytes, s) /\ flow = stream \o s
          /\ Cut(flow) \/ InStep(flow)

(* Between the first bytes of two segments lies the first of them whole.   *)
LEMMA Inside ==
  ASSUME NEW s, NEW l \in Nat, l = Len(s), Laid(s), NEW i \in 1..l, NEW j \in 1..l, i < j,
         NEW sn, NEW z \in Nat, s[i] = <<sn, 1>>, z = Size(sn), s[j][2] = 1
  PROVE  i + z - 1 < j
<1>2. \A m \in 1..z : i + m - 1 <= l /\ s[i + m - 1] = <<sn, m>>
  <2>1. LiesAt(s, i, sn)
    BY LaidSpan
  <2>. QED
    BY <2>1 DEF LiesAt
<1>. SUFFICES ASSUME ~(i + z - 1 < j) PROVE FALSE
  OBVIOUS
<1>. DEFINE k == j - i + 1
<1>1. k \in 1..z /\ k # 1 /\ i + k - 1 = j
  OBVIOUS
<1>. HIDE DEF k
<1>3. s[j] = <<sn, k>>
  BY <1>1, <1>2
<1>. QED
  BY <1>1, <1>3

(* A byte on its way belongs to a segment that has a size.                 *)
LEMMA SentSize ==
  ASSUME Typed, NEW flow \in Seq(SentBytes), NEW i \in 1..Len(flow)
  PROVE  /\ flow[i][1] \in 0..snd_nxt - 1 /\ flow[i] = <<flow[i][1], flow[i][2]>>
         /\ Size(flow[i][1]) \in Nat /\ Size(flow[i][1]) > 0
<1>1. flow[i] \in SentBytes
  <2>. DEFINE S == SentBytes
  <2>1. flow \in Seq(S)
    OBVIOUS
  <2>. HIDE DEF S
  <2>2. flow[i] \in S
    BY <2>1
  <2>. QED
    BY <2>2 DEF S
<1>2. flow[i] \in (0..snd_nxt - 1) \X Nat
  BY <1>1 DEF SentBytes, ByteOf
<1>3. flow[i][1] \in 0..snd_nxt - 1 /\ flow[i] = <<flow[i][1], flow[i][2]>>
  BY <1>2
<1>4. 0..snd_nxt - 1 \subseteq 0..Len(lens) - 1
  <2>1. Len(lens) \in Nat /\ snd_nxt \in Nat /\ snd_nxt <= Len(lens)
    BY LengthAssumption DEF Typed
  <2>. QED
    BY <2>1
<1>5. flow[i][1] \in 0..Len(lens) - 1 /\ lens \in Files /\ Overhead \in Nat
  BY <1>3, <1>4, LengthAssumption DEF Typed
<1>. DEFINE sn == flow[i][1]
<1>. HIDE DEF sn
<1>6. Size(sn) \in Nat /\ Size(sn) > Overhead
  BY <1>5, SizeIs DEF sn
<1>7. Size(sn) \in Nat /\ Size(sn) > 0
  <2>. DEFINE z == Size(sn)
  <2>1. z \in Nat /\ z > Overhead /\ Overhead \in Nat
    BY <1>5, <1>6
  <2>. HIDE DEF z
  <2>2. z > 0
    BY <2>1
  <2>. QED
    BY <2>1, <2>2 DEF z
<1>. QED
  BY <1>3, <1>7 DEF sn

(* What a read takes is in order: no number of rcv_nxt' or beyond.         *)
LEMMA TakenInStep ==
  ASSUME Typed, NEW flow \in Seq(SentBytes), InStep(flow),
         NEW bytes \in Seq(SentBytes), Len(bytes) <= Len(flow), bytes[1][2] = 1,
         \A i \in 1..Len(bytes) : bytes[i] = flow[i],
         NEW b \in Nat, rcv_nxt <= b, b \notin Taken(bytes)
  PROVE  \A sn \in Taken(bytes) : sn < b
<1>. DEFINE l == Len(flow)
            size == Len(bytes)
            First == {i \in Begins(bytes) : IsWhole(bytes, i)}
            T == {i \in First : ~(bytes[i][1] < b)}
<1>1. l \in Nat /\ size \in Nat /\ size <= l /\ DOMAIN bytes = 1..size
      /\ Taken(bytes) = {bytes[i][1] : i \in First}
  BY DEF Taken
<1>2. ASSUME NEW m \in T PROVE FALSE
  <2>1. PICK i \in T : \A j \in T : i <= j
    <3>1. T \subseteq 1..size /\ m \in T
      <4>1. First \subseteq 1..size
        BY <1>1 DEF Begins
      <4>. QED
        BY <4>1
    <3>. HIDE DEF T, size
    <3>2. T \subseteq Nat /\ T # {}
      BY <1>1, <3>1
    <3>. QED
      BY <3>2, LeastExists
  <2>2. i \in First /\ i \in 1..size /\ ~(bytes[i][1] < b)
    BY <1>1 DEF Begins
  <2>3. bytes[i][2] = 1 /\ bytes[i] = flow[i] /\ bytes[i][1] \in Taken(bytes)
    BY <1>1, <2>2 DEF Begins
  <2>4. i \in 1..l
    BY <1>1, <2>2
  <2>. DEFINE sn == flow[i][1]
  <2>5. sn \in 0..snd_nxt - 1 /\ rcv_nxt \in Nat /\ snd_nxt \in Nat
    <3>1. sn \in 0..snd_nxt - 1
      <4>. HIDE DEF T, First
      <4>. QED
        BY <2>4, SentSize
    <3>2. rcv_nxt \in Nat /\ snd_nxt \in Nat
      BY LengthAssumption DEF Typed
    <3>. QED
      BY <3>1, <3>2
  <2>. HIDE DEF sn, T, First
  <2>6. ~(sn < b) /\ sn # b
    BY <2>2, <2>3 DEF sn
  <2>7. sn > b /\ ~(sn <= rcv_nxt)
    BY <2>5, <2>6
  <2>8. PICK j \in 1..l : j < i /\ flow[j] = <<sn - 1, 1>>
    <3>1. flow[i][1] <= rcv_nxt \/ \E j \in 1..l : j < i /\ flow[j] = <<flow[i][1] - 1, 1>>
      BY <2>3, <2>4 DEF InStep, Chained
    <3>. QED
      BY <2>7, <3>1 DEF sn
  <2>. DEFINE u == sn - 1
              z == Size(u)
  <2>9. flow[j] = <<u, 1>> /\ flow[j][1] = u /\ flow[j][2] = 1
    BY <2>8
  <2>10. z \in Nat /\ j \in 1..size
    <3>1. Size(flow[j][1]) \in Nat
      BY <2>8, SentSize
    <3>2. j \in 1..size
      <4>. HIDE DEF size, l
      <4>. QED
        BY <1>1, <2>2, <2>8
    <3>. QED
      BY <2>9, <3>1, <3>2
  <2>11. ~(u < b)
    BY <2>5, <2>7
  <2>. HIDE DEF u
  <2>12. j + z - 1 < i
    BY <1>1, <2>3, <2>4, <2>8, <2>9, <2>10, Inside DEF InStep
  <2>13. j \in First
    <3>1. bytes[j] = flow[j]
      BY <2>10
    <3>2. j + z - 1 <= size
      <4>. HIDE DEF z, size
      <4>. QED
        BY <1>1, <2>2, <2>10, <2>12
    <3>3. IsWhole(bytes, j)
      BY <2>9, <3>1, <3>2 DEF IsWhole
    <3>4. j \in Begins(bytes)
      BY <1>1, <2>9, <2>10, <3>1 DEF Begins
    <3>. QED
      BY <3>3, <3>4 DEF First
  <2>14. j \in T
    BY <2>9, <2>10, <2>11, <2>13 DEF T
  <2>15. i <= j
    BY <2>1, <2>14
  <2>. QED
    BY <2>2, <2>8, <2>15
<1>. QED
  BY <1>1, <1>2

(* A message whose segment was taken is shorter than the read.             *)
LEMMA TakenFits ==
  ASSUME Typed, NEW bytes \in Seq(SentBytes), NEW sn \in Taken(bytes)
  PROVE  lens[sn + 1] <= Len(bytes)
<1>1. PICK i \in Begins(bytes) : IsWhole(bytes, i) /\ sn = bytes[i][1]
  BY DEF Taken
<1>2. i \in 1..Len(bytes) /\ Len(bytes) \in Nat
  BY DEF Begins
<1>3. sn \in 0..Len(lens) - 1
  <2>1. sn \in 0..snd_nxt - 1
    BY <1>1, <1>2, SentSize
  <2>2. Len(lens) \in Nat /\ snd_nxt \in Nat /\ snd_nxt <= Len(lens)
    BY LengthAssumption DEF Typed
  <2>. QED
    BY <2>1, <2>2
<1>4. lens[sn + 1] \in Nat /\ Overhead \in Nat
  <2>1. lens \in Seq(Nat \ {0}) /\ Overhead \in Nat
    BY LengthAssumption DEF Typed
  <2>. DEFINE j == sn + 1
  <2>2. j \in 1..Len(lens)
    BY <1>3, <2>1
  <2>. HIDE DEF j
  <2>3. lens[j] \in Nat
    BY <2>1, <2>2
  <2>. QED
    BY <2>1, <2>3 DEF j
<1>5. i + (Overhead + lens[sn + 1]) - 1 <= Len(bytes)
  BY <1>1 DEF IsWhole, Size
<1>. DEFINE m == lens[sn + 1]
            l == Len(bytes)
<1>6. m \in Nat /\ l \in Nat /\ i \in 1..l /\ i + (Overhead + m) - 1 <= l /\ Overhead \in Nat
  BY <1>2, <1>4, <1>5
<1>. HIDE DEF m, l
<1>7. m <= l
  BY <1>6
<1>. QED
  BY <1>7 DEF m, l

(* ikcp_recv returns all of rcv_queue when the buffer holds each message.  *)
LEMMA ReadableAll ==
  ASSUME NEW queue \in Seq(Nat), NEW size,
         \A i \in 1..Len(queue) : lens[queue[i] + 1] <= size
  PROVE  Readable(queue, size) = Len(queue)
<1>. DEFINE n == Len(queue)
            s == {k \in 0..n : \A i \in 1..k : lens[queue[i] + 1] <= size}
<1>1. n \in Nat /\ n \in s /\ s \in SUBSET (0..n)
  OBVIOUS
<1>. HIDE DEF s, n
<1>2. Max(s) \in s /\ n <= Max(s)
  BY <1>1, MaxOf
<1>3. Max(s) = n
  <2>1. Max(s) \in 0..n
    BY <1>2 DEF s
  <2>. QED
    BY <1>1, <1>2, <2>1
<1>. QED
  BY <1>3 DEF s, n, Readable

(* What a read leaves of the bytes on their way: flow is bytes, then rest. *)
Splits(S, flow, bytes, rest) ==
  /\ Len(bytes) <= Len(flow)
  /\ \A i \in 1..Len(bytes) : bytes[i] = flow[i]
  /\ rest \in Seq(S) /\ Len(rest) = Len(flow) - Len(bytes)
  /\ \A i \in 1..Len(rest) : rest[i] = flow[Len(bytes) + i]

(* Laid, Chained and Coming for the server that waits for segment b.       *)
Remains(rest, b) ==
  /\ Laid(rest)
  /\ \A i \in 1..Len(rest) : rest[i][2] = 1 =>
       \/ rest[i][1] <= b
       \/ \E j \in 1..Len(rest) : j < i /\ rest[j] = <<rest[i][1] - 1, 1>>
  /\ \A sn \in b..snd_nxt - 1 : \E i \in 1..Len(rest) : rest[i] = <<sn, 1>>

(* What is left behind a read that did not cut a segment.                  *)
LEMMA RestInStep ==
  ASSUME Typed, NEW flow \in Seq(SentBytes), InStep(flow),
         NEW bytes \in Seq(SentBytes), bytes[1][2] = 1,
         NEW b \in Nat, rcv_nxt <= b, \A sn \in Taken(bytes) : sn < b,
         NEW rest, Splits(SentBytes, flow, bytes, rest), ~Cut(rest)
  PROVE  Remains(rest, b)
<1>. /\ Len(bytes) <= Len(flow)
     /\ \A i \in 1..Len(bytes) : bytes[i] = flow[i]
     /\ rest \in Seq(SentBytes) /\ Len(rest) = Len(flow) - Len(bytes)
     /\ \A i \in 1..Len(rest) : rest[i] = flow[Len(bytes) + i]
  BY DEF Splits
<1>. DEFINE l == Len(flow)
            size == Len(bytes)
            d == Len(rest)
<1>1. l \in Nat /\ size \in Nat /\ size <= l /\ d = l - size /\ d \in Nat
      /\ DOMAIN bytes = 1..size /\ (d > 0 => rest # <<>>)
  OBVIOUS
<1>. HIDE DEF l, size, d
<1>2. \A i \in 1..d : size + i \in 1..l /\ rest[i] = flow[size + i]
  <2>1. \A i \in 1..d : size + i \in 1..l
    BY <1>1
  <2>. QED
    BY <2>1 DEF d, size
<1>3. ASSUME NEW i \in 1..size, flow[i][2] = 1
      PROVE  flow[i][1] \in Taken(bytes)
  <2>. DEFINE sn == flow[i][1]
              z == Size(sn)
  <2>1. i \in 1..l /\ bytes[i] = flow[i]
    <3>1. i \in 1..l
      BY <1>1
    <3>. QED
      BY <3>1 DEF size
  <2>2. flow[i] = <<sn, 1>> /\ z \in Nat /\ z > 0
    BY <1>3, <2>1, SentSize DEF l
  <2>. HIDE DEF sn
  <2>3. i + z - 1 <= size
    <3>1. CASE size = l
      <4>1. z \in 1..z
        BY <2>2
      <4>2. LiesAt(flow, i, sn)
        BY <1>1, <2>1, <2>2, LaidSpan DEF InStep, l
      <4>3. i + z - 1 <= l
        BY <4>1, <4>2 DEF LiesAt, l
      <4>. QED
        BY <3>1, <4>3
    <3>2. CASE size # l
      <4>. DEFINE j == size + 1
      <4>1. j \in 1..l /\ i < j /\ 1 \in 1..d
        BY <1>1, <2>1, <3>2
      <4>2. flow[j][2] = 1
        <5>1. rest[1][2] = 1
          BY <1>1, <4>1 DEF Cut
        <5>. QED
          BY <1>2, <4>1, <5>1
      <4>. HIDE DEF j, z
      <4>3. i + z - 1 < j
        BY <1>1, <2>1, <2>2, <4>1, <4>2, Inside DEF InStep, l, z
      <4>. QED
        BY <1>1, <2>1, <2>2, <4>3 DEF j
    <3>. QED
      BY <3>1, <3>2
  <2>4. i \in Begins(bytes) /\ IsWhole(bytes, i)
    BY <1>1, <1>3, <2>1, <2>2, <2>3 DEF Begins, IsWhole, size, sn
  <2>5. bytes[i][1] \in Taken(bytes)
    BY <2>4 DEF Taken
  <2>. QED
    BY <2>1, <2>5
<1>4. Laid(rest)
  <2>1. ASSUME NEW i \in 1..d
        PROVE  IF rest[i][2] < Size(rest[i][1])
               THEN i < d /\ rest[i + 1] = <<rest[i][1], rest[i][2] + 1>>
               ELSE i < d => rest[i + 1][2] = 1
    <3>. DEFINE p == size + i
                x == rest[i]
    <3>1. p \in 1..l /\ x = flow[p] /\ (i < d <=> p < l)
      BY <1>1, <1>2
    <3>2. p < l => rest[i + 1] = flow[p + 1]
      <4>1. p < l => i + 1 \in 1..d /\ size + (i + 1) = p + 1
        BY <1>1
      <4>. QED
        BY <1>2, <4>1
    <3>. HIDE DEF p, x
    <3>3. IF x[2] < Size(x[1])
          THEN p < l /\ flow[p + 1] = <<x[1], x[2] + 1>>
          ELSE p < l => flow[p + 1][2] = 1
      BY <3>1 DEF InStep, Laid, l
    <3>. QED
      BY <3>1, <3>2, <3>3 DEF x
  <2>. QED
    BY <2>1 DEF Laid, d
<1>5. ASSUME NEW i \in 1..d, rest[i][2] = 1
      PROVE  \/ rest[i][1] <= b
             \/ \E j \in 1..d : j < i /\ rest[j] = <<rest[i][1] - 1, 1>>
  <2>. DEFINE p == size + i
              sn == rest[i][1]
  <2>1. p \in 1..l /\ flow[p] = rest[i] /\ flow[p][2] = 1 /\ i \in Int /\ p = size + i
    BY <1>1, <1>2, <1>5
  <2>2. sn \in Int /\ rcv_nxt \in Nat
    <3>1. flow[p][1] \in 0..snd_nxt - 1
      BY <2>1, SentSize DEF l
    <3>2. flow[p][1] = sn
      BY <2>1
    <3>3. rcv_nxt \in Nat
      BY LengthAssumption DEF Typed
    <3>. HIDE DEF p, sn
    <3>. QED
      BY <3>1, <3>2, <3>3
  <2>. HIDE DEF p
  <2>3. sn <= rcv_nxt \/ \E j \in 1..l : j < p /\ flow[j] = <<sn - 1, 1>>
    BY <2>1 DEF InStep, Chained, l
  <2>. HIDE DEF sn
  <2>4. CASE sn <= rcv_nxt
    BY <2>2, <2>4 DEF sn
  <2>5. ASSUME NEW j \in 1..l, j < p, flow[j] = <<sn - 1, 1>>
        PROVE  sn <= b \/ \E k \in 1..d : k < i /\ rest[k] = <<sn - 1, 1>>
    <3>1. CASE j <= size
      <4>1. j \in 1..size /\ flow[j][2] = 1 /\ flow[j][1] = sn - 1
        BY <1>1, <2>5, <3>1
      <4>2. sn - 1 < b
        BY <1>3, <4>1
      <4>. QED
        BY <2>2, <4>2
    <3>2. CASE j > size
      <4>. DEFINE k == j - size
      <4>1. k \in 1..d /\ size + k = j /\ k < i
        BY <1>1, <2>1, <2>5, <3>2
      <4>. HIDE DEF k
      <4>2. rest[k] = <<sn - 1, 1>>
        BY <1>2, <2>5, <4>1
      <4>. QED
        BY <4>1, <4>2
    <3>. QED
      BY <1>1, <3>1, <3>2
  <2>. QED
    BY <2>3, <2>4, <2>5 DEF sn
<1>6. ASSUME NEW sn \in b..snd_nxt - 1
      PROVE  \E i \in 1..d : rest[i] = <<sn, 1>>
  <2>0. rcv_nxt \in Nat /\ snd_nxt \in Nat /\ b \in Nat
    BY LengthAssumption DEF Typed
  <2>1. sn \in rcv_nxt..snd_nxt - 1 /\ sn \in Int /\ ~(sn < b)
    BY <2>0
  <2>2. PICK i \in 1..l : flow[i] = <<sn, 1>>
    BY <2>1 DEF InStep, Coming, l
  <2>3. i > size
    <3>1. ASSUME ~(i > size) PROVE FALSE
      <4>1. i \in 1..size /\ flow[i][2] = 1 /\ flow[i][1] = sn
        BY <1>1, <2>2, <3>1
      <4>. QED
        BY <1>3, <2>1, <4>1
    <3>. QED
      BY <3>1
  <2>. DEFINE k == i - size
  <2>4. k \in 1..d /\ size + k = i
    BY <1>1, <2>3
  <2>. HIDE DEF k
  <2>. QED
    BY <1>2, <2>2, <2>4
<1>. QED
  BY <1>4, <1>5, <1>6 DEF Remains, d

(* What the bytes on their way are judged by.                              *)
LEMMA Unmoved ==
  ASSUME UNCHANGED <<lens, snd_nxt, rcv_nxt, rcv_buf>>
  PROVE  SentBytes' = SentBytes /\ \A flow : InStep(flow) => InStep(flow)'
<1>1. SentBytes' = SentBytes
  BY DEF SentBytes, ByteOf, Size
<1>2. ASSUME NEW flow, InStep(flow) PROVE InStep(flow)'
  <2>1. Laid(flow)'
    BY <1>2 DEF InStep, Laid, Size
  <2>2. Chained(flow)'
    BY <1>2 DEF InStep, Chained
  <2>3. Coming(flow)'
    BY <1>2 DEF InStep, Coming
  <2>. QED
    BY <1>2, <2>1, <2>2, <2>3 DEF InStep
<1>. QED
  BY <1>1, <1>2

(* send_file and acknowledgements leave the bytes on their way alone.      *)
LEMMA StillFlow ==
  ASSUME FlowInv,
         UNCHANGED <<lens, snd_nxt, wire, stream, rcv_nxt, rcv_buf, rcv_queue, refused>>
  PROVE  FlowInv'
<1>1. SentBytes' = SentBytes /\ \A flow : InStep(flow) => InStep(flow)'
  BY Unmoved
<1>2. CASE refused
  BY <1>2 DEF FlowInv
<1>3. CASE ~refused
  <2>1. PICK s \in Seq(SentBytes), flow \in Seq(SentBytes) :
          /\ Whole(wire, SentBytes, s) /\ flow = stream \o s
          /\ Cut(flow) \/ InStep(flow)
    BY <1>3 DEF FlowInv
  <2>2. rcv_queue' = <<>> /\ Whole(wire', SentBytes', s) /\ flow = stream' \o s
        /\ s \in Seq(SentBytes') /\ flow \in Seq(SentBytes')
    BY <1>1, <1>3, <2>1 DEF FlowInv
  <2>3. Cut(flow) \/ InStep(flow)'
    BY <1>1, <2>1
  <2>. QED
    BY <2>2, <2>3 DEF FlowInv, Cut
<1>. QED
  BY <1>2, <1>3

(* A TCP segment that arrives stays on its way to the read.                *)
LEMMA ArriveFlow ==
  ASSUME Typed, FlowInv, Arrive
  PROVE  FlowInv'
<1>1. wire # <<>> /\ wire' = Tail(wire) /\ stream' = stream \o wire[1].data
  <2>1. wire # <<>> /\ wire' = Tail(wire) /\ stream' = stream \o Head(wire).data
    BY DEF Arrive
  <2>2. Head(wire) = wire[1]
    <3>. DEFINE P == Parcel(0..snd_nxt - 1)
    <3>1. wire \in Seq(P)
      BY DEF Typed
    <3>. HIDE DEF P
    <3>. QED
      BY <2>1, <3>1
  <2>. QED
    BY <2>1, <2>2
<1>2. UNCHANGED <<lens, snd_nxt, rcv_nxt, rcv_buf, rcv_queue, refused>>
  BY DEF Arrive, client, rcv
<1>3. SentBytes' = SentBytes /\ \A flow : InStep(flow) => InStep(flow)'
  BY <1>2, Unmoved
<1>4. CASE refused
  BY <1>2, <1>4 DEF FlowInv
<1>5. CASE ~refused
  <2>. DEFINE S == SentBytes
              P == Parcel(0..snd_nxt - 1)
              d == wire[1].data
  <2>1. PICK s \in Seq(S), flow \in Seq(S) :
          /\ Whole(wire, S, s) /\ flow = stream \o s
          /\ Cut(flow) \/ InStep(flow)
    BY <1>5 DEF FlowInv
  <2>2. wire \in Seq(P) /\ stream \in Seq(S)
    BY DEF Typed
  <2>3. PICK t \in Seq(S) : s = d \o t /\ Whole(Tail(wire), S, t)
    <3>. HIDE DEF S, P, d
    <3>. QED
      BY <1>1, <2>1, <2>2, WholeTail DEF d
  <2>4. d \in Seq(S)
    <3>1. 1 \in 1..Len(wire)
      BY <1>1, <2>2
    <3>. HIDE DEF S, P
    <3>. QED
      BY <2>1, <3>1, WholeTyped
  <2>5. flow = stream' \o t
    <3>. HIDE DEF S, P, d
    <3>1. Associate(stream, d, t)
      BY <2>2, <2>3, <2>4, Associates
    <3>. QED
      BY <1>1, <2>1, <2>3, <3>1 DEF Associate, d
  <2>6. rcv_queue' = <<>> /\ Whole(wire', SentBytes', t)
        /\ t \in Seq(SentBytes') /\ flow \in Seq(SentBytes')
    BY <1>1, <1>2, <1>3, <1>5, <2>1, <2>3 DEF FlowInv
  <2>7. Cut(flow) \/ InStep(flow)'
    BY <1>3, <2>1
  <2>. QED
    BY <2>5, <2>6, <2>7 DEF FlowInv, Cut
<1>. QED
  BY <1>4, <1>5

(* A flush of the segments sns sends the bytes t behind those of flow.     *)
SentBehind(flow, nxt, again, sns, t, f) ==
  /\ flow \in Seq(SentBytes) /\ nxt \in snd_nxt..queued /\ again \in SUBSET snd_buf
  /\ sns = (snd_nxt..nxt - 1) \cup again
  /\ t \in Seq(ByteOf(sns)) /\ Spread(t, sns)
  /\ f = flow \o t /\ f \in Seq(ByteOf(0..nxt - 1))

Continues(f, nxt) ==
  /\ Laid(f) /\ Chained(f)
  /\ \A sn \in rcv_nxt..nxt - 1 : \E i \in 1..Len(f) : f[i] = <<sn, 1>>

(* What a flush adds comes behind all that came before it.                 *)
LEMMA FlushedInStep ==
  ASSUME Typed, NEW flow, InStep(flow), NEW nxt, NEW again, NEW sns, NEW t, NEW f,
         SentBehind(flow, nxt, again, sns, t, f)
  PROVE  Continues(f, nxt)
<1>. /\ flow \in Seq(SentBytes) /\ nxt \in snd_nxt..queued /\ again \in SUBSET snd_buf
     /\ sns = (snd_nxt..nxt - 1) \cup again
     /\ t \in Seq(ByteOf(sns)) /\ Spread(t, sns)
     /\ f = flow \o t /\ f \in Seq(ByteOf(0..nxt - 1))
  BY DEF SentBehind
<1>. DEFINE m == Len(flow)
            l == Len(t)
<1>1. /\ m \in Nat /\ l \in Nat /\ Len(f) = m + l
      /\ \A i \in 1..m : f[i] = flow[i]
      /\ \A i \in 1..l : f[m + i] = t[i]
  <2>. DEFINE U == SentBytes
              V == ByteOf(sns)
  <2>1. flow \in Seq(U) /\ t \in Seq(V)
    OBVIOUS
  <2>. HIDE DEF U, V
  <2>. QED
    BY <2>1
<1>2. /\ snd_nxt \in Nat /\ rcv_nxt \in Nat /\ nxt \in Nat /\ rcv_nxt <= snd_nxt
      /\ snd_nxt <= nxt /\ \A sn \in again : sn \in 0..snd_nxt - 1
  BY LengthAssumption DEF Typed
<1>3. ASSUME NEW i \in 1..l
      PROVE  t[i][1] \in sns /\ t[i][1] \in Nat /\ t[i][1] < nxt
  <2>1. t[i] \in ByteOf(sns)
    <3>. DEFINE S == ByteOf(sns)
    <3>1. t \in Seq(S)
      OBVIOUS
    <3>. HIDE DEF S
    <3>2. t[i] \in S
      BY <3>1
    <3>. QED
      BY <3>2 DEF S
  <2>2. t[i][1] \in sns
    BY <2>1 DEF ByteOf
  <2>3. \A sn \in sns : sn \in Nat /\ sn < nxt
    <3>1. \A sn \in snd_nxt..nxt - 1 : sn \in Nat /\ sn < nxt
      BY <1>2
    <3>2. \A sn \in 0..snd_nxt - 1 : sn \in Nat /\ sn < nxt
      BY <1>2
    <3>. QED
      BY <1>2, <3>1, <3>2
  <2>. QED
    BY <2>2, <2>3
<1>. HIDE DEF m, l
<1>4. Laid(f)
  <2>. DEFINE S == ByteOf(0..nxt - 1)
  <2>1. flow \in Seq(S) /\ t \in Seq(S)
    <3>1. 0..snd_nxt - 1 \subseteq 0..nxt - 1
      BY <1>2
    <3>2. sns \subseteq 0..nxt - 1
      BY <1>2, <3>1
    <3>. QED
      BY <3>1, <3>2, MoreBytes DEF SentBytes
  <2>2. Laid(flow) /\ Laid(t) /\ (t # <<>> => t[1][2] = 1)
    BY DEF InStep, Spread
  <2>. HIDE DEF S
  <2>3. Laid(flow \o t)
    BY <2>1, <2>2, LaidJoined
  <2>. QED
    BY <2>3
<1>5. ASSUME NEW sn \in rcv_nxt..nxt - 1
      PROVE  \E i \in 1..m + l : /\ f[i] = <<sn, 1>>
                                 /\ sn < snd_nxt => i <= m
  <2>1. CASE sn < snd_nxt
    <3>1. sn \in rcv_nxt..snd_nxt - 1
      BY <1>2, <2>1
    <3>2. PICK i \in 1..m : flow[i] = <<sn, 1>>
      BY <3>1 DEF InStep, Coming, m
    <3>3. i \in 1..m + l /\ i <= m
      BY <1>1
    <3>. QED
      BY <1>1, <3>2, <3>3
  <2>2. CASE ~(sn < snd_nxt)
    <3>1. sn \in sns
      BY <1>2, <2>2
    <3>2. PICK i \in 1..l : t[i] = <<sn, 1>>
      BY <3>1 DEF Spread, l
    <3>. DEFINE j == m + i
    <3>3. j \in 1..m + l
      BY <1>1
    <3>4. f[j] = <<sn, 1>>
      BY <1>1, <3>2
    <3>. HIDE DEF j
    <3>. QED
      BY <2>2, <3>3, <3>4
  <2>. QED
    BY <2>1, <2>2
<1>6. ASSUME NEW i \in 1..m + l, f[i][2] = 1
      PROVE  \/ f[i][1] <= rcv_nxt
             \/ \E j \in 1..m + l : j < i /\ f[j] = <<f[i][1] - 1, 1>>
  <2>1. CASE i <= m
    <3>1. i \in 1..m /\ f[i] = flow[i]
      BY <1>1, <2>1
    <3>2. \/ f[i][1] <= rcv_nxt
          \/ \E j \in 1..m : j < i /\ flow[j] = <<f[i][1] - 1, 1>>
      BY <1>6, <3>1 DEF InStep, Chained, m
    <3>3. \A j \in 1..m : j \in 1..m + l /\ f[j] = flow[j]
      BY <1>1
    <3>. QED
      BY <3>2, <3>3
  <2>2. CASE ~(i <= m)
    <3>. DEFINE p == i - m
                sn == f[i][1]
                u == sn - 1
    <3>1. p \in 1..l /\ i = m + p
      BY <1>1, <2>2
    <3>. HIDE DEF p
    <3>2. f[i] = t[p] /\ t[p][2] = 1
      BY <1>1, <1>6, <3>1
    <3>3. sn \in sns /\ sn \in Nat /\ sn < nxt /\ sn = t[p][1]
      BY <1>3, <3>1, <3>2
    <3>. HIDE DEF sn
    <3>. DEFINE a == rcv_nxt
                c == snd_nxt
    <3>0. a \in Nat /\ c \in Nat /\ nxt \in Nat /\ a <= c /\ c <= nxt
      BY <1>2
    <3>. HIDE DEF a, c
    <3>4. CASE sn <= rcv_nxt
      BY <3>4 DEF sn
    <3>5. CASE ~(sn <= rcv_nxt) /\ u < snd_nxt
      <4>0. sn > a
        BY <3>0, <3>3, <3>5 DEF a
      <4>1. u \in rcv_nxt..nxt - 1
        <5>1. u \in a..nxt - 1
          BY <3>0, <3>3, <4>0
        <5>. QED
          BY <5>1 DEF a
      <4>. HIDE DEF u
      <4>2. PICK j \in 1..m + l : f[j] = <<u, 1>> /\ j <= m
        BY <1>5, <3>5, <4>1
      <4>3. j < i
        <5>1. i \in Int /\ j \in Int /\ m \in Int
          BY <1>1
        <5>. QED
          BY <2>2, <4>2, <5>1
      <4>. QED
        BY <4>2, <4>3 DEF sn, u
    <3>6. CASE ~(sn <= rcv_nxt) /\ ~(u < snd_nxt)
      <4>1. u \in sns /\ u < sn
        <5>1. u \in c..nxt - 1 /\ u < sn
          <6>1. ~(u < c)
            BY <3>6 DEF c
          <6>. QED
            BY <3>0, <3>3, <6>1
        <5>. QED
          BY <5>1 DEF c
      <4>. HIDE DEF u
      <4>2. PICK k \in 1..l : k < p /\ t[k] = <<u, 1>>
        BY <3>1, <3>2, <3>3, <4>1 DEF Spread, l
      <4>. DEFINE j == m + k
      <4>3. j \in 1..m + l /\ j < i
        BY <1>1, <3>1, <4>2
      <4>4. f[j] = <<u, 1>>
        BY <1>1, <4>2
      <4>. HIDE DEF j
      <4>. QED
        BY <4>3, <4>4 DEF sn, u
    <3>. QED
      BY <3>4, <3>5, <3>6
  <2>. QED
    BY <2>1, <2>2
<1>7. Chained(f)
  BY <1>1, <1>6 DEF Chained
<1>. QED
  BY <1>1, <1>4, <1>5, <1>7 DEF Continues

(* ikcp_flush adds whole segments behind the others.                       *)
LEMMA FlushFlow ==
  ASSUME Mtu <= UdpMtu, Typed, FlowInv, Flush
  PROVE  FlowInv'
<1>1. PICK nxt \in snd_nxt..queued, again \in SUBSET snd_buf :
        /\ snd_nxt' = nxt
        /\ wire' = wire \o Output(InOrder((snd_nxt..nxt - 1) \cup again))
  BY DEF Flush
<1>2. UNCHANGED <<lens, stream, rcv_nxt, rcv_buf, rcv_queue, refused>>
  BY DEF Flush, rcv
<1>3. CASE refused
  BY <1>2, <1>3 DEF FlowInv
<1>4. CASE ~refused
  <2>1. PICK sns : sns = (snd_nxt..nxt - 1) \cup again
    OBVIOUS
  <2>2. /\ snd_nxt \in Nat /\ queued \in Nat /\ nxt \in Nat /\ snd_nxt <= nxt
        /\ nxt <= queued /\ queued <= Len(lens) /\ Len(lens) \in Nat
    BY LengthAssumption DEF Typed
  <2>3. /\ sns \in SUBSET (0..Len(lens) - 1) /\ sns \subseteq 0..nxt - 1
        /\ 0..snd_nxt - 1 \subseteq 0..nxt - 1
        /\ 0..nxt - 1 \in SUBSET (0..Len(lens) - 1)
    <3>1. again \subseteq 0..snd_nxt - 1
      BY DEF Typed
    <3>. QED
      BY <2>1, <2>2, <3>1
  <2>4. PICK t \in Seq(ByteOf(sns)) :
          Whole(Output(InOrder(sns)), ByteOf(sns), t) /\ Spread(t, sns)
    BY <2>3, FlushedIs DEF Typed
  <2>5. PICK s \in Seq(SentBytes), flow \in Seq(SentBytes) :
          /\ Whole(wire, SentBytes, s) /\ flow = stream \o s
          /\ Cut(flow) \/ InStep(flow)
    BY <1>4 DEF FlowInv
  <2>. DEFINE S == ByteOf(0..nxt - 1)
              P == Parcel(0..nxt - 1)
              out == Output(InOrder(sns))
  <2>6. SentBytes' = S
    BY <1>1, <1>2 DEF SentBytes, ByteOf, Size
  <2>7. SentBytes \subseteq S /\ ByteOf(sns) \subseteq S
    BY <2>3, MoreBytes DEF SentBytes
  <2>8. wire \in Seq(P) /\ out \in Seq(P)
    <3>1. wire \in Seq(P)
      BY <2>3, MoreBytes DEF Typed
    <3>2. InOrder(sns) \in Seq(sns)
      BY <2>2, <2>3, InOrderIs
    <3>3. out \in Seq(Parcel(sns))
      BY <2>3, <3>2, OutputIs DEF Typed
    <3>4. \A q \in Seq(Parcel(sns)) : q \in Seq(P)
      BY <2>3, MoreBytes
    <3>. HIDE DEF out
    <3>. QED
      BY <3>1, <3>3, <3>4
  <2>9. stream \in Seq(S) /\ s \in Seq(S) /\ t \in Seq(S) /\ flow \in Seq(S)
    <3>1. \A q \in Seq(SentBytes) : q \in Seq(S)
      BY <2>7, WiderSeq
    <3>2. \A q \in Seq(ByteOf(sns)) : q \in Seq(S)
      BY <2>7, WiderSeq
    <3>. QED
      BY <2>4, <2>5, <3>1, <3>2 DEF Typed
  <2>. HIDE DEF S, P, out
  <2>10. Whole(wire \o out, S, s \o t)
    <3>1. Whole(wire, S, s) /\ Whole(out, S, t)
      BY <2>4, <2>5, <2>7, WholeWider DEF out
    <3>. QED
      BY <2>8, <3>1, WholeJoined
  <2>11. PICK r : r = s \o t
    OBVIOUS
  <2>12. PICK f : f = flow \o t
    OBVIOUS
  <2>13. r \in Seq(S) /\ f \in Seq(S) /\ f = stream \o r
    <3>1. Associate(stream, s, t)
      BY <2>9, Associates
    <3>. QED
      BY <2>5, <2>9, <2>11, <2>12, <3>1 DEF Associate
  <2>14. Cut(flow) => Cut(f)
    <3>. SUFFICES ASSUME flow # <<>> PROVE f # <<>> /\ f[1] = flow[1]
      BY DEF Cut
    <3>1. Len(flow) \in Nat /\ Len(flow) > 0 /\ Len(t) \in Nat
          /\ Len(f) = Len(flow) + Len(t) /\ \A i \in 1..Len(flow) : f[i] = flow[i]
      BY <2>9, <2>12
    <3>. QED
      BY <3>1
  <2>15. InStep(flow) => InStep(f)'
    <3>. SUFFICES ASSUME InStep(flow) PROVE InStep(f)'
      OBVIOUS
    <3>1. Continues(f, nxt)
      <4>1. f \in Seq(ByteOf(0..nxt - 1))
        BY <2>13 DEF S
      <4>2. SentBehind(flow, nxt, again, sns, t, f)
        BY <2>1, <2>4, <2>12, <4>1 DEF SentBehind
      <4>. QED
        BY <4>2, FlushedInStep
    <3>2. Laid(f)'
      BY <1>2, <3>1 DEF Continues, Laid, Size
    <3>3. Chained(f)'
      BY <1>2, <3>1 DEF Continues, Chained
    <3>4. Coming(f)'
      BY <1>1, <1>2, <3>1 DEF Continues, Coming
    <3>. QED
      BY <1>2, <3>2, <3>3, <3>4 DEF InStep
  <2>16. rcv_queue' = <<>> /\ Whole(wire', SentBytes', r) /\ f = stream' \o r
         /\ r \in Seq(SentBytes') /\ f \in Seq(SentBytes')
    BY <1>1, <1>2, <1>4, <2>1, <2>6, <2>10, <2>11, <2>13 DEF FlowInv, out
  <2>17. Cut(f) \/ InStep(f)'
    BY <2>5, <2>14, <2>15
  <2>. QED
    BY <2>16, <2>17 DEF FlowInv, Cut
<1>. QED
  BY <1>3, <1>4

(* The first messages of rcv_queue that the read holds are all of them.    *)
LEMMA AllRead ==
  ASSUME Typed, NEW bytes \in Seq(SentBytes), NEW size, size = Len(bytes),
         NEW queue \in Seq(Nat), \A i \in 1..Len(queue) : queue[i] \in Taken(bytes)
  PROVE  SubSeq(queue, Readable(queue, size) + 1, Len(queue)) = <<>>
<1>1. \A i \in 1..Len(queue) : lens[queue[i] + 1] <= size
  BY TakenFits
<1>2. Readable(queue, size) = Len(queue)
  BY <1>1, ReadableAll
<1>. DEFINE n == Len(queue)
<1>3. n \in Nat /\ queue \in Seq(Nat)
  OBVIOUS
<1>. HIDE DEF n
<1>4. SubSeq(queue, n + 1, n) = <<>>
  BY <1>3
<1>. QED
  BY <1>2, <1>4 DEF n

(* A read takes the first bytes and leaves the others.                     *)
LEMMA RestOf ==
  ASSUME NEW S, NEW str \in Seq(S), NEW s \in Seq(S), NEW size \in Nat, size <= Len(str)
  PROVE  Splits(S, str \o s, SubSeq(str, 1, size),
                SubSeq(str, size + 1, Len(str)) \o s)
<1>. DEFINE flow == str \o s
            bytes == SubSeq(str, 1, size)
            left == SubSeq(str, size + 1, Len(str))
            rest == left \o s
<1>. DEFINE k == Len(str)
            l == Len(s)
<1>1. k \in Nat /\ l \in Nat /\ size <= k
  OBVIOUS
<1>2. /\ flow \in Seq(S) /\ Len(flow) = k + l
      /\ \A i \in 1..k : flow[i] = str[i]
      /\ \A i \in 1..l : flow[k + i] = s[i]
  OBVIOUS
<1>3. bytes \in Seq(S) /\ Len(bytes) = size /\ \A i \in 1..size : bytes[i] = str[i]
  BY <1>1
<1>4. left \in Seq(S) /\ Len(left) = k - size /\ \A i \in 1..k - size : left[i] = str[size + i]
  BY <1>1
<1>5. /\ rest \in Seq(S) /\ Len(rest) = (k - size) + l
      /\ \A i \in 1..k - size : rest[i] = left[i]
      /\ \A i \in 1..l : rest[(k - size) + i] = s[i]
  <2>. DEFINE e == Len(left)
  <2>1. e = k - size
    BY <1>4
  <2>2. /\ rest \in Seq(S) /\ Len(rest) = e + l
        /\ \A i \in 1..e : rest[i] = left[i]
        /\ \A i \in 1..l : rest[e + i] = s[i]
    <3>1. left \in Seq(S) /\ s \in Seq(S)
      BY <1>4
    <3>. HIDE DEF left
    <3>. QED
      BY <3>1 DEF l
  <2>. QED
    BY <2>1, <2>2
<1>. HIDE DEF k, l
<1>6. ASSUME NEW i \in 1..(k - size) + l PROVE rest[i] = flow[size + i]
  <2>1. CASE i <= k - size
    <3>1. i \in 1..k - size /\ size + i \in 1..k
      BY <1>1, <2>1
    <3>. DEFINE j == size + i
    <3>. HIDE DEF j
    <3>2. rest[i] = str[size + i]
      BY <1>4, <1>5, <3>1
    <3>3. flow[size + i] = str[size + i]
      <4>1. j \in 1..k
        BY <3>1 DEF j
      <4>2. flow[j] = str[j]
        BY <1>2, <4>1
      <4>. QED
        BY <4>2 DEF j
    <3>. QED
      BY <3>2, <3>3
  <2>2. CASE ~(i <= k - size)
    <3>. DEFINE p == i - (k - size)
    <3>1. p \in 1..l /\ i = (k - size) + p /\ size + i = k + p
      BY <1>1, <2>2
    <3>. HIDE DEF p
    <3>2. rest[(k - size) + p] = s[p] /\ flow[k + p] = s[p]
      BY <1>2, <1>5, <3>1
    <3>. QED
      BY <3>1, <3>2
  <2>. QED
    BY <2>1, <2>2
<1>7. size <= k + l /\ (k - size) + l = (k + l) - size
  BY <1>1
<1>8. \A i \in 1..size : bytes[i] = flow[i]
  <2>1. \A i \in 1..size : i \in 1..k
    BY <1>1
  <2>. QED
    BY <1>2, <1>3, <2>1
<1>. QED
  BY <1>2, <1>3, <1>5, <1>6, <1>7, <1>8 DEF Splits

(* A read that is not refused takes whole segments in their order, reads   *)
(* all their messages, and leaves the others on their way.                 *)
LEMMA ReadFlow ==
  ASSUME Typed, Delivered, FlowInv, Read
  PROVE  FlowInv'
<1>. DEFINE size == Min({Len(stream), ReadMax})
            bytes == SubSeq(stream, 1, size)
            sns == IF size < Overhead THEN {} ELSE Taken(bytes)
            queue == InQueue(sns)
            n == IF Refuses(bytes) THEN 0 ELSE Readable(queue, size)
            S == SentBytes
<1>1. /\ stream # <<>> /\ stream' = SubSeq(stream, size + 1, Len(stream))
      /\ refused' = (refused \/ Refuses(bytes))
      /\ ParseData(sns)
      /\ rcv_queue' = SubSeq(queue, n + 1, Len(queue))
  BY DEF Read
<1>2. UNCHANGED <<lens, snd_nxt, wire>>
  BY DEF Read, client
<1>. SUFFICES ASSUME ~refused, ~Refuses(bytes) PROVE FlowInv'
  <2>. HIDE DEF bytes
  <2>. QED
    BY <1>1 DEF FlowInv
<1>3. stream \in Seq(S) /\ Len(stream) \in Nat /\ ReadMax \in Nat
  BY LengthAssumption DEF Typed
<1>4. size \in Nat /\ size <= Len(stream)
  <2>. DEFINE k == Len(stream)
  <2>1. k \in Int /\ ReadMax \in Int /\ k \in Nat /\ ReadMax \in Nat
    BY <1>3
  <2>. HIDE DEF k
  <2>2. Min({k, ReadMax}) \in {k, ReadMax} /\ Min({k, ReadMax}) <= k
    BY <2>1, MinOf
  <2>. QED
    BY <2>1, <2>2 DEF k
<1>5. bytes \in Seq(S) /\ Len(bytes) = size
  <2>. HIDE DEF S, size
  <2>. QED
    BY <1>3, <1>4
<1>6. Overhead \in Nat /\ Overhead > 0 /\ Len(bytes) >= Overhead /\ bytes[1][2] = 1
      /\ ~(size < Overhead) /\ size > 0
  <2>1. Overhead \in Nat /\ Overhead > 0
    BY LengthAssumption
  <2>. HIDE DEF bytes, size
  <2>2. ~(Len(bytes) < Overhead) /\ bytes[1][2] = 1
    BY DEF Refuses
  <2>. QED
    BY <1>4, <1>5, <2>1, <2>2
<1>. HIDE DEF bytes, size
<1>7. sns = Taken(bytes) /\ n = Readable(queue, size)
  BY <1>6
<1>8. sns \in SUBSET (0..snd_nxt - 1)
  <2>1. bytes \in Seq(ByteOf(0..snd_nxt - 1))
    BY <1>5 DEF SentBytes
  <2>. QED
    BY <1>7, <2>1, TakenIs
<1>. HIDE DEF sns
<1>9. /\ rcv_nxt' \in rcv_nxt..snd_nxt
      /\ rcv_buf' \subseteq rcv_nxt' + 1..snd_nxt - 1
      /\ \A sn \in rcv_buf \cup sns : sn < rcv_nxt' \/ sn \in rcv_buf'
      /\ rcv_nxt..rcv_nxt' - 1 \subseteq rcv_buf \cup sns
      /\ queue \in Seq(Nat)
      /\ Len(queue) = rcv_nxt' - MessagesRead
      /\ \A i \in 1..rcv_nxt' - MessagesRead : queue[i] = MessagesRead + i - 1
  BY <1>1, <1>8, ParseIs
<1>. HIDE DEF queue, n
<1>10. PICK s \in Seq(S), flow \in Seq(S) :
         /\ Whole(wire, S, s) /\ flow = stream \o s
         /\ Cut(flow) \/ InStep(flow)
  BY DEF FlowInv
<1>11. rcv_queue = <<>>
  BY DEF FlowInv
<1>12. PICK b : b = rcv_nxt'
  OBVIOUS
<1>13. rcv_nxt \in Nat /\ snd_nxt \in Nat /\ b \in Nat /\ rcv_nxt <= b /\ b <= snd_nxt
  BY <1>9, <1>12, LengthAssumption DEF Typed
<1>14. PICK rest : rest = stream' \o s
  OBVIOUS
<1>15. Splits(S, flow, bytes, rest)
  <2>1. bytes = SubSeq(stream, 1, size)
    BY DEF bytes
  <2>2. PICK left : left = stream'
    OBVIOUS
  <2>3. left = SubSeq(stream, size + 1, Len(stream)) /\ rest = left \o s
    BY <1>1, <1>14, <2>2
  <2>4. stream \in Seq(S) /\ s \in Seq(S) /\ flow = stream \o s
    BY <1>3, <1>10
  <2>. HIDE DEF S
  <2>5. Splits(S, stream \o s, SubSeq(stream, 1, size),
                 SubSeq(stream, size + 1, Len(stream)) \o s)
    BY <1>4, <2>4, RestOf
  <2>. QED
    BY <2>1, <2>3, <2>4, <2>5
<1>16. InStep(flow)
  <2>1. 1 \in 1..Len(bytes)
    BY <1>5, <1>6, <1>4
  <2>2. flow[1][2] = 1
    BY <1>6, <1>15, <2>1 DEF Splits
  <2>. QED
    BY <1>10, <2>2 DEF Cut
<1>17. rcv_buf = {}
  BY <1>16 DEF InStep
<1>18. b \notin Taken(bytes)
  <2>1. b \notin rcv_buf'
    <3>1. \A sn \in b + 1..snd_nxt - 1 : sn # b
      BY <1>13
    <3>2. rcv_buf' \subseteq b + 1..snd_nxt - 1
      BY <1>9, <1>12
    <3>. QED
      BY <3>1, <3>2
  <2>2. ~(b < rcv_nxt')
    BY <1>12, <1>13
  <2>. QED
    BY <1>7, <1>9, <2>1, <2>2
<1>19. \A sn \in Taken(bytes) : sn < b
  <2>1. Len(bytes) <= Len(flow) /\ \A i \in 1..Len(bytes) : bytes[i] = flow[i]
    BY <1>15 DEF Splits
  <2>. QED
    BY <1>5, <1>6, <1>10, <1>13, <1>16, <1>18, <2>1, TakenInStep
<1>20. rcv_buf' = {}
  <2>1. \A sn \in rcv_buf' : sn \in sns
    <3>1. rcv_buf' = Kept({sn \in rcv_buf \cup sns : sn >= rcv_nxt})
      BY <1>1 DEF ParseData
    <3>. QED
      BY <1>17, <3>1 DEF Kept
  <2>2. \A sn \in rcv_buf' : sn \in Int /\ sn > b
    <3>1. rcv_buf' \subseteq b + 1..snd_nxt - 1
      BY <1>9, <1>12
    <3>2. \A sn \in b + 1..snd_nxt - 1 : sn \in Int /\ sn > b
      BY <1>13
    <3>. QED
      BY <3>1, <3>2
  <2>3. \A sn \in rcv_buf' : sn < b
    BY <1>7, <1>19, <2>1
  <2>4. \A sn \in rcv_buf' : FALSE
    BY <1>13, <2>2, <2>3
  <2>. QED
    BY <2>4
<1>21. rcv_queue' = <<>>
  <2>1. MessagesRead = rcv_nxt
    BY <1>11, <1>13 DEF MessagesRead
  <2>2. ASSUME NEW i \in 1..Len(queue) PROVE queue[i] \in Taken(bytes)
    <3>1. i \in 1..b - rcv_nxt /\ queue[i] = rcv_nxt + i - 1
      BY <1>9, <1>12, <2>1
    <3>2. rcv_nxt + i - 1 \in rcv_nxt..b - 1
      BY <1>13, <3>1
    <3>3. queue[i] \in sns
      BY <1>9, <1>12, <1>17, <3>1, <3>2
    <3>. QED
      BY <1>7, <3>3
  <2>. QED
    BY <1>1, <1>5, <1>7, <1>9, <2>2, AllRead
<1>22. SentBytes' = S
  BY <1>2 DEF SentBytes, ByteOf, Size
<1>23. Cut(rest) \/ InStep(rest)'
  <2>. SUFFICES ASSUME ~Cut(rest) PROVE InStep(rest)'
    OBVIOUS
  <2>1. Remains(rest, b)
    <3>1. /\ flow \in Seq(SentBytes) /\ bytes \in Seq(SentBytes)
          /\ Splits(SentBytes, flow, bytes, rest)
      BY <1>5, <1>10, <1>15
    <3>. HIDE DEF S
    <3>. QED
      BY <1>6, <1>13, <1>16, <1>19, <3>1, RestInStep
  <2>2. Laid(rest)'
    BY <1>2, <2>1 DEF Remains, Laid, Size
  <2>3. Chained(rest)'
    BY <1>12, <2>1 DEF Remains, Chained
  <2>4. Coming(rest)'
    BY <1>2, <1>12, <2>1 DEF Remains, Coming
  <2>. QED
    BY <1>20, <2>2, <2>3, <2>4 DEF InStep
<1>24. Whole(wire', SentBytes', s) /\ s \in Seq(SentBytes') /\ rest \in Seq(SentBytes')
  BY <1>2, <1>10, <1>15, <1>22 DEF Splits
<1>. QED
  BY <1>14, <1>21, <1>23, <1>24 DEF FlowInv, Cut

(* Nothing is on its way at first.                                         *)
LEMMA InitFlow == Init => FlowInv
<1>. SUFFICES ASSUME Init PROVE FlowInv
  OBVIOUS
<1>1. /\ wire = <<>> /\ stream = <<>> /\ rcv_queue = <<>> /\ rcv_buf = {}
      /\ rcv_nxt = 0 /\ snd_nxt = 0
  BY DEF Init
<1>2. Whole(wire, SentBytes, <<>>)
  BY <1>1, WholeNone
<1>3. <<>> \in Seq(SentBytes) /\ <<>> = stream \o <<>>
  BY <1>1
<1>4. InStep(<<>>)
  <2>1. Laid(<<>>)
    BY DEF Laid
  <2>2. Chained(<<>>)
    BY DEF Chained
  <2>3. Coming(<<>>)
    BY <1>1 DEF Coming
  <2>. QED
    BY <1>1, <2>1, <2>2, <2>3 DEF InStep
<1>. QED
  BY <1>1, <1>2, <1>3, <1>4 DEF FlowInv

(* No step of the client, the network or the server leaves a message behind.*)
LEMMA FlowStep ==
  ASSUME Mtu <= UdpMtu
  PROVE  StreamInv /\ FlowInv /\ [Next]_vars => FlowInv'
<1>. SUFFICES ASSUME StreamInv, FlowInv, [Next]_vars PROVE FlowInv'
  OBVIOUS
<1>. Typed /\ Delivered
  BY DEF StreamInv
<1>1. CASE SendMessage
  <2>1. UNCHANGED <<lens, snd_nxt, wire, stream, rcv_nxt, rcv_buf, rcv_queue, refused>>
    BY <1>1 DEF SendMessage, rcv
  <2>. QED
    BY <2>1, StillFlow
<1>2. CASE Acknowledge
  <2>1. UNCHANGED <<lens, snd_nxt, wire, stream, rcv_nxt, rcv_buf, rcv_queue, refused>>
    BY <1>2 DEF Acknowledge
  <2>. QED
    BY <2>1, StillFlow
<1>3. CASE Arrive
  BY <1>3, ArriveFlow
<1>4. CASE Read
  BY <1>4, ReadFlow
<1>5. CASE Flush
  BY <1>5, FlushFlow
<1>6. CASE UNCHANGED vars
  <2>1. UNCHANGED <<lens, snd_nxt, wire, stream, rcv_nxt, rcv_buf, rcv_queue, refused>>
    BY <1>6 DEF vars, client, rcv
  <2>. QED
    BY <2>1, StillFlow
<1>. QED
  BY <1>1, <1>2, <1>3, <1>4, <1>5, <1>6 DEF Next

(* As long as no input was refused, the server reads every message with    *)
(* the read that completes it (server_epoll.cc:347).                       *)
THEOREM ReadWhenComplete ==
  ASSUME Mtu <= UdpMtu
  PROVE  Spec => []ReadAtOnce
<1>1. Init => FlowInv
  BY InitFlow
<1>2. StreamInv /\ FlowInv /\ [Next]_vars => FlowInv'
  BY FlowStep
<1>3. FlowInv => ReadAtOnce
  BY DEF FlowInv, ReadAtOnce
<1>4. Spec => []StreamInv
  BY StreamInvariant
<1>. QED
  BY <1>1, <1>2, <1>3, <1>4, PTL DEF Spec
=============================================================================
