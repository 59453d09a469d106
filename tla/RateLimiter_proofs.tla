------------------------- MODULE RateLimiter_proofs -------------------------
(***************************************************************************)
(* Theorems about the rate limiter.  The prover knows nothing of sums: the *)
(* first part proves what the others need of them, by taking the least     *)
(* number for which it fails.                                              *)
(***************************************************************************)
EXTENDS RateLimiter, TLAPS, WellFoundedInduction

\* A non-empty set of numbers has a least element, and Min picks it.
LEMMA MinIsLeast ==
    ASSUME NEW S, S \subseteq Nat, S # {}
    PROVE  Min(S) \in S /\ \A x \in S : Min(S) <= x
<1> DEFINE R == OpToRel(<, Nat)
<1>1. \E x \in S : \A y \in S : ~ (<<y, x>> \in R)
    BY NatLessThanWellFounded, WFMin
<1>2. \A x, y \in Nat : y < x => <<y, x>> \in R
    BY DEF OpToRel
<1> HIDE DEF R
<1>3. PICK x \in S : \A y \in S : ~ (<<y, x>> \in R)
    BY <1>1
<1>4. \A y \in S : ~ (y < x)
    BY <1>2, <1>3, Zenon
<1>5. \A y \in S : x <= y
    BY <1>4
<1> QED
    BY <1>5 DEF Min

\* What holds of 0, and of a number's successor, holds up to any number.
LEMMA CountingUp ==
    ASSUME NEW last \in Nat, NEW S, 0 \in S,
           \A n \in Nat : n < last /\ n \in S => n + 1 \in S
    PROVE  \A n \in 0..last : n \in S
<1> DEFINE Bad == {n \in 0..last : n \notin S}
<1> SUFFICES ASSUME Bad # {} PROVE FALSE
    OBVIOUS
<1> DEFINE m == Min(Bad)
<1>1. m \in Bad /\ \A x \in Bad : m <= x
    <2>1. Bad \subseteq Nat
        OBVIOUS
    <2> HIDE DEF Bad
    <2> QED
        BY <2>1, MinIsLeast
<1> HIDE DEF m
<1>2. m \in Nat /\ m # 0 /\ m <= last /\ m \notin S
    BY <1>1
<1>3. m - 1 \in Nat /\ m - 1 < last /\ m - 1 \in 0..last
    BY <1>2
<1>4. m - 1 \in S
    BY <1>1, <1>2, <1>3
<1>5. (m - 1) + 1 \in S
    BY <1>3, <1>4
<1> QED
    BY <1>2, <1>5

-----------------------------------------------------------------------------
(***************************************************************************)
(* Sums.                                                                   *)
(***************************************************************************)

\* The sums of the first numbers of a sequence, of which Total is the last.
AreSums(f, numbers) ==
    /\ f \in [0..Len(numbers) -> Nat]
    /\ f[0] = 0
    /\ \A i \in 1..Len(numbers) : f[i] = f[i - 1] + numbers[i]
    /\ f[Len(numbers)] = Total(numbers)

LEMMA SumsExist == ASSUME NEW w \in Seq(Nat) PROVE \E f : AreSums(f, w)
<1> DEFINE Upto(f, n) ==
               f = [i \in 0..n |-> IF i = 0 THEN 0 ELSE f[i - 1] + w[i]]
           Good == {n \in Nat : \E f : Upto(f, n)}
<1>1. 0 \in Good
    <2>1. Upto([i \in 0..0 |-> 0], 0)
        OBVIOUS
    <2> QED
        BY <2>1
<1>2. ASSUME NEW n \in Nat, n \in Good PROVE n + 1 \in Good
    <2>1. PICK f : Upto(f, n)
        BY <1>2
    <2> DEFINE g == [i \in 0..(n + 1) |->
                        IF i = n + 1 THEN f[n] + w[n + 1] ELSE f[i]]
    <2>2. ASSUME NEW i \in 0..(n + 1)
          PROVE  g[i] = IF i = 0 THEN 0 ELSE g[i - 1] + w[i]
        <3>1. CASE i = n + 1
            BY <3>1
        <3>2. CASE i # n + 1
            <4>1. i \in 0..n
                BY <3>2
            <4>2. f[i] = IF i = 0 THEN 0 ELSE f[i - 1] + w[i]
                BY <2>1, <4>1
            <4>3. i # 0 => i - 1 \in 0..(n + 1) /\ i - 1 # n + 1
                OBVIOUS
            <4> QED
                BY <4>2, <4>3, <3>2
        <3> QED
            BY <3>1, <3>2
    <2>3. Upto(g, n + 1)
        BY <2>2
    <2> HIDE DEF g
    <2>4. \E h : Upto(h, n + 1)
        BY <2>3
    <2>5. n + 1 \in Nat
        OBVIOUS
    <2> QED
        BY <2>4, <2>5
<1>3. Len(w) \in Good
    <2>1. \A n \in Nat : n < Len(w) /\ n \in Good => n + 1 \in Good
        BY <1>2
    <2>2. Len(w) \in Nat /\ Len(w) \in 0..Len(w)
        OBVIOUS
    <2> HIDE DEF Good
    <2> QED
        BY <1>1, <2>1, <2>2, CountingUp
<1> DEFINE f == CHOOSE f : Upto(f, Len(w))
<1>4. Upto(f, Len(w)) /\ Total(w) = f[Len(w)]
    BY <1>3 DEF Total
<1> HIDE DEF f
<1>5. \A i \in 0..Len(w) : f[i] = IF i = 0 THEN 0 ELSE f[i - 1] + w[i]
    BY <1>4
<1>6. f[0] = 0 /\ \A i \in 1..Len(w) : f[i] = f[i - 1] + w[i]
    BY <1>5
<1>7. \A i \in 0..Len(w) : f[i] \in Nat
    <2> DEFINE Numbers == {n \in Nat : f[n] \in Nat}
    <2>1. ASSUME NEW n \in Nat, n < Len(w), f[n] \in Nat
          PROVE  f[n + 1] \in Nat
        <3>1. n + 1 \in 1..Len(w) /\ (n + 1) - 1 = n /\ w[n + 1] \in Nat
            BY <2>1
        <3>2. f[n + 1] = f[n] + w[n + 1]
            BY <3>1, <1>6
        <3> QED
            BY <3>1, <3>2, <2>1
    <2>2. /\ 0 \in Numbers /\ Len(w) \in Nat
          /\ \A n \in Nat : n < Len(w) /\ n \in Numbers => n + 1 \in Numbers
        BY <2>1, <1>6
    <2> HIDE DEF Numbers
    <2>3. \A i \in 0..Len(w) : i \in Numbers
        BY <2>2, CountingUp
    <2> QED
        BY <2>3 DEF Numbers
<1>8. f \in [0..Len(w) -> Nat]
    BY <1>4, <1>7
<1> QED
    BY <1>4, <1>6, <1>8 DEF AreSums

LEMMA TotalInNat == ASSUME NEW w \in Seq(Nat) PROVE Total(w) \in Nat
BY SumsExist DEF AreSums

LEMMA TotalOfNone == Total(<<>>) = 0
<1>1. <<>> \in Seq(Nat) /\ Len(<<>>) = 0
    OBVIOUS
<1> QED
    BY <1>1, SumsExist DEF AreSums

\* Numbers at places that increase, among which are all that are not 0, have
\* at least the same sum.
LEMMA TotalOfPlaced ==
    ASSUME NEW w \in Seq(Nat), NEW u \in Seq(Nat),
           NEW place \in [1..Len(u) -> 1..Len(w)],
           \A i, j \in 1..Len(u) : i < j => place[i] < place[j],
           \A j \in 1..Len(w) : w[j] # 0 => \E i \in 1..Len(u) : place[i] = j,
           \A i \in 1..Len(u) : w[place[i]] <= u[i]
    PROVE  Total(w) <= Total(u)
<1>1. PICK f : AreSums(f, w)
    BY SumsExist
<1>2. PICK g : AreSums(g, u)
    BY SumsExist
<1> DEFINE Good == {n \in Nat : \A k \in 0..Len(u) :
                       (\A i \in 1..Len(u) : place[i] <= n <=> i <= k)
                           => f[n] <= g[k]}
<1>3. 0 \in Good
    <2>1. f[0] = 0 /\ \A k \in 0..Len(u) : g[k] \in Nat
        BY <1>1, <1>2 DEF AreSums
    <2>2. \A k \in 0..Len(u) : f[0] <= g[k]
        BY <2>1
    <2> QED
        BY <2>2
<1>4. ASSUME NEW n \in Nat, n < Len(w), n \in Good PROVE n + 1 \in Good
    <2> SUFFICES ASSUME NEW k \in 0..Len(u),
                        \A i \in 1..Len(u) : place[i] <= n + 1 <=> i <= k
                 PROVE  f[n + 1] <= g[k]
        OBVIOUS
    <2>1. f[n + 1] = f[n] + w[n + 1] /\ f[n] \in Nat /\ w[n + 1] \in Nat
        <3>1. /\ n \in 0..Len(w) /\ n + 1 \in 1..Len(w)
              /\ (n + 1) - 1 = n /\ w[n + 1] \in Nat
            BY <1>4
        <3> QED
            BY <3>1, <1>1 DEF AreSums
    <2>0. n + 1 \in 1..Len(w)
        BY <1>4
    <2>4. \A i \in 1..Len(u) : place[i] \in 1..Len(w)
        OBVIOUS
    <2>2. CASE \E i \in 1..Len(u) : place[i] = n + 1
        <3>1. PICK i \in 1..Len(u) : place[i] = n + 1
            BY <2>2
        <3>2. i <= k
            BY <3>1
        <3>3. ~(i < k)
            <4> SUFFICES ASSUME i < k PROVE FALSE
                OBVIOUS
            <4>1. k \in 1..Len(u)
                OBVIOUS
            <4>2. place[i] < place[k] /\ place[k] <= n + 1
                BY <4>1
            <4>3. place[k] \in Nat
                BY <4>1, <2>4
            <4> QED
                BY <4>2, <4>3, <3>1
        <3>4. i = k /\ k - 1 \in 0..Len(u)
            BY <3>2, <3>3
        <3>5. \A j \in 1..Len(u) : place[j] <= n <=> j <= k - 1
            <4> SUFFICES ASSUME NEW j \in 1..Len(u)
                         PROVE  place[j] <= n <=> j <= k - 1
                OBVIOUS
            <4>1. CASE j = k
                BY <4>1, <3>1, <3>4
            <4>2. CASE j < k
                <5>1. place[j] < n + 1 /\ place[j] \in Nat
                    BY <4>2, <3>1, <3>4, <2>4
                <5> QED
                    BY <5>1, <4>2
            <4>3. CASE j > k
                <5>1. place[j] > n + 1 /\ place[j] \in Nat
                    BY <4>3, <3>1, <3>4, <2>4
                <5> QED
                    BY <5>1, <4>3
            <4> QED
                BY <4>1, <4>2, <4>3, <3>4
        <3>6. f[n] <= g[k - 1]
            BY <1>4, <3>4, <3>5
        <3>7. w[n + 1] <= u[k]
            BY <3>1, <3>4
        <3>8. g[k] = g[k - 1] + u[k] /\ g[k - 1] \in Nat /\ k \in 1..Len(u)
            BY <1>2, <3>4 DEF AreSums
        <3>9. u[k] \in Nat
            BY <3>8
        <3>10. \A a, b, c, d \in Nat : a <= c /\ b <= d => a + b <= c + d
            OBVIOUS
        <3>11. f[n] + w[n + 1] <= g[k - 1] + u[k]
            BY <2>1, <3>6, <3>7, <3>8, <3>9, <3>10
        <3> QED
            BY <2>1, <3>8, <3>11
    <2>3. CASE ~ \E i \in 1..Len(u) : place[i] = n + 1
        <3>1. w[n + 1] = 0
            BY <2>0, <2>3
        <3>2. \A i \in 1..Len(u) : place[i] <= n <=> i <= k
            <4> SUFFICES ASSUME NEW i \in 1..Len(u)
                         PROVE  place[i] <= n <=> i <= k
                OBVIOUS
            <4>1. place[i] # n + 1 /\ place[i] \in Nat
                BY <2>3, <2>4
            <4>2. place[i] <= n <=> place[i] <= n + 1
                BY <4>1
            <4> QED
                BY <4>2
        <3>3. f[n] <= g[k]
            BY <1>4, <3>2
        <3> QED
            BY <2>1, <3>1, <3>3
    <2> QED
        BY <2>2, <2>3
<1>5. Len(w) \in Good
    <2>1. \A n \in Nat : n < Len(w) /\ n \in Good => n + 1 \in Good
        BY <1>4
    <2>2. Len(w) \in Nat /\ Len(w) \in 0..Len(w)
        OBVIOUS
    <2> HIDE DEF Good
    <2> QED
        BY <1>3, <2>1, <2>2, CountingUp
<1>6. f[Len(w)] <= g[Len(u)]
    <2>1. \A i \in 1..Len(u) : place[i] <= Len(w) <=> i <= Len(u)
        OBVIOUS
    <2>2. Len(u) \in 0..Len(u)
        OBVIOUS
    <2> QED
        BY <1>5, <2>1, <2>2
<1> QED
    BY <1>1, <1>2, <1>6 DEF AreSums

\* Greater numbers have a greater sum.
LEMMA TotalIsMonotone ==
    ASSUME NEW w \in Seq(Nat), NEW u \in Seq(Nat), Len(w) = Len(u),
           \A i \in 1..Len(w) : w[i] <= u[i]
    PROVE  Total(w) <= Total(u)
<1> DEFINE place == [i \in 1..Len(u) |-> i]
<1>1. /\ place \in [1..Len(u) -> 1..Len(w)]
      /\ \A i, j \in 1..Len(u) : i < j => place[i] < place[j]
      /\ \A j \in 1..Len(w) : w[j] # 0 => \E i \in 1..Len(u) : place[i] = j
      /\ \A i \in 1..Len(u) : w[place[i]] <= u[i]
    OBVIOUS
<1> HIDE DEF place
<1> QED
    BY <1>1, TotalOfPlaced

\* What a sequence ends in, or begins with, makes up its share of the sum.
LEMMA TotalOfParts ==
    ASSUME NEW w \in Seq(Nat), NEW k \in 0..Len(w)
    PROVE  Total(w) = Total(SubSeq(w, 1, k)) + Total(SubSeq(w, k + 1, Len(w)))
<1> DEFINE first == SubSeq(w, 1, k)
           rest  == SubSeq(w, k + 1, Len(w))
<1>1. /\ first \in Seq(Nat) /\ Len(first) = k
      /\ rest \in Seq(Nat) /\ Len(rest) = Len(w) - k
      /\ \A i \in 1..k : first[i] = w[i]
      /\ \A i \in 1..(Len(w) - k) : rest[i] = w[k + i]
    OBVIOUS
<1> HIDE DEF first, rest
<1>2. PICK f : AreSums(f, w)
    BY SumsExist
<1>3. PICK g : AreSums(g, first)
    BY <1>1, SumsExist
<1>4. PICK h : AreSums(h, rest)
    BY <1>1, SumsExist
<1>5. \A n \in 0..k : f[n] = g[n]
    <2> DEFINE Same == {i \in Nat : f[i] = g[i]}
    <2>1. f[0] = g[0]
        BY <1>2, <1>3 DEF AreSums
    <2>2. ASSUME NEW n \in Nat, n < k, f[n] = g[n] PROVE f[n + 1] = g[n + 1]
        <3>1. n + 1 \in 1..k /\ n + 1 \in 1..Len(w) /\ (n + 1) - 1 = n
            BY <2>2
        <3> QED
            BY <3>1, <2>2, <1>1, <1>2, <1>3 DEF AreSums
    <2>3. /\ 0 \in Same /\ k \in Nat
          /\ \A n \in Nat : n < k /\ n \in Same => n + 1 \in Same
        BY <2>1, <2>2
    <2> HIDE DEF Same
    <2>4. \A n \in 0..k : n \in Same
        BY <2>3, CountingUp
    <2> QED
        BY <2>4 DEF Same
<1>6. \A n \in 0..(Len(w) - k) : f[k + n] = g[k] + h[n]
    <2> DEFINE Shifted == {i \in Nat : f[k + i] = g[k] + h[i]}
    <2>1. f[k + 0] = g[k] + h[0]
        BY <1>1, <1>3, <1>4, <1>5 DEF AreSums
    <2>2. ASSUME NEW n \in Nat, n < Len(w) - k, f[k + n] = g[k] + h[n]
          PROVE  f[k + (n + 1)] = g[k] + h[n + 1]
        <3>1. /\ n + 1 \in 1..(Len(w) - k) /\ k + (n + 1) \in 1..Len(w)
              /\ (k + (n + 1)) - 1 = k + n
            BY <2>2
        <3>2. f[k + (n + 1)] = f[k + n] + rest[n + 1]
            BY <3>1, <1>1, <1>2 DEF AreSums
        <3>3. h[n + 1] = h[n] + rest[n + 1] /\ h[n] \in Nat
            <4>1. /\ n \in 0..Len(rest) /\ n + 1 \in 1..Len(rest)
                  /\ (n + 1) - 1 = n
                BY <2>2, <1>1, SMTT(60)
            <4> QED
                BY <4>1, <1>4 DEF AreSums
        <3>4. g[k] \in Nat /\ rest[n + 1] \in Nat
            BY <3>1, <1>1, <1>3, SMTT(60) DEF AreSums
        <3> QED
            BY <2>2, <3>2, <3>3, <3>4
    <2> DEFINE last == Len(w) - k
    <2>3. /\ 0 \in Shifted /\ last \in Nat
          /\ \A n \in Nat : n < last /\ n \in Shifted => n + 1 \in Shifted
        BY <2>1, <2>2
    <2> HIDE DEF Shifted, last
    <2>4. \A n \in 0..last : n \in Shifted
        BY <2>3, CountingUp
    <2> QED
        BY <2>4 DEF Shifted, last
<1>7. f[Len(w)] = g[k] + h[Len(w) - k]
    <2>1. Len(w) - k \in 0..(Len(w) - k) /\ k + (Len(w) - k) = Len(w)
        OBVIOUS
    <2> QED
        BY <1>6, <2>1
<1> QED
    BY <1>1, <1>2, <1>3, <1>4, <1>7 DEF AreSums, first, rest

\* One number is its sum.
LEMMA TotalOfOne == ASSUME NEW x \in Nat PROVE Total(<<x>>) = x
<1>1. <<x>> \in Seq(Nat) /\ Len(<<x>>) = 1 /\ <<x>>[1] = x
    OBVIOUS
<1>2. PICK f : AreSums(f, <<x>>)
    BY <1>1, SumsExist
<1> QED
    BY <1>1, <1>2 DEF AreSums

LEMMA TotalOfAppend ==
    ASSUME NEW w \in Seq(Nat), NEW x \in Nat
    PROVE  Total(Append(w, x)) = Total(w) + x
<1> DEFINE v == Append(w, x)
<1>1. v \in Seq(Nat) /\ Len(v) = Len(w) + 1 /\ Len(w) \in 0..Len(v)
    OBVIOUS
<1>2. SubSeq(v, 1, Len(w)) = w
    OBVIOUS
<1>4. SubSeq(v, Len(w) + 1, Len(v)) = <<x>>
    <2> DEFINE r == SubSeq(v, Len(w) + 1, Len(v))
    <2>1. r \in Seq(Nat) /\ Len(r) = 1
        OBVIOUS
    <2>2. r[1] = x
        OBVIOUS
    <2> HIDE DEF r
    <2>3. r = <<x>>
        BY <2>1, <2>2
    <2> QED
        BY <2>3 DEF r
<1> HIDE DEF v
<1>3. Total(v) = Total(w) + Total(<<x>>)
    BY <1>1, <1>2, <1>4, TotalOfParts
<1> QED
    BY <1>3, TotalOfOne DEF v

-----------------------------------------------------------------------------
(***************************************************************************)
(* Types, and what the operators on the deque do.                          *)
(***************************************************************************)

USE LimiterAssumption

\* Of entries in their order, exactly the expired ones are evicted.
LEMMA EvictedAreExpired ==
    ASSUME TypeOK, InOrder
    PROVE  \E k \in 0..Len(usage) :
               /\ Evicted = SubSeq(usage, k + 1, Len(usage))
               /\ \A i \in 1..k : Expired(usage[i])
               /\ \A i \in (k + 1)..Len(usage) : ~Expired(usage[i])
<1> DEFINE Live == {i \in 1..Len(usage) : ~Expired(usage[i])}
<1>1. usage \in Seq(Entry) /\ Len(usage) \in Nat /\ Live \subseteq Nat
    BY DEF TypeOK
<1>2. CASE Live = {}
    <2>1. Evicted = <<>>
        BY <1>2 DEF Evicted, SelectInSeq
    <2>2. SubSeq(usage, Len(usage) + 1, Len(usage)) = <<>>
        BY <1>1
    <2>3. \A i \in 1..Len(usage) : Expired(usage[i])
        BY <1>2
    <2>4. \A i \in (Len(usage) + 1)..Len(usage) : ~Expired(usage[i])
        BY <1>1
    <2> QED
        BY <1>1, <2>1, <2>2, <2>3, <2>4
<1>3. CASE Live # {}
    <2> DEFINE m == Min(Live)
    <2>1. m \in Live /\ \A x \in Live : m <= x
        <3> HIDE DEF Live
        <3> QED
            BY <1>1, <1>3, MinIsLeast
    <2>2. m # 0 /\ SelectInSeq(usage, LAMBDA e : ~Expired(e)) = m
        BY <2>1, <1>3 DEF SelectInSeq
    <2> HIDE DEF m
    <2>3. Evicted = SubSeq(usage, m, Len(usage))
        BY <2>2 DEF Evicted
    <2>4. m \in 1..Len(usage) /\ m - 1 \in 0..Len(usage) /\ (m - 1) + 1 = m
        BY <2>1, <1>1
    <2>5. \A i \in 1..(m - 1) : Expired(usage[i])
        BY <2>1, <2>4, <1>1
    <2>6. ASSUME NEW i \in m..Len(usage) PROVE ~Expired(usage[i])
        <3>1. i \in DOMAIN usage /\ m \in DOMAIN usage /\ m <= i
            BY <2>4, <1>1
        <3>2. usage[m] \in Entry /\ usage[i] \in Entry
            BY <3>1, <1>1
        <3>3. usage[m].age \in 0..Window /\ usage[i].age \in 0..Window
            BY <3>2 DEF Entry
        <3>4. usage[m].age >= usage[i].age
            <4>1. CASE m = i
                BY <4>1, <3>3
            <4>2. CASE m < i
                BY <4>2, <3>1 DEF InOrder
            <4> QED
                BY <4>1, <4>2, <3>1
        <3> QED
            BY <3>3, <3>4, <2>1 DEF Expired
    <2> QED
        BY <2>3, <2>4, <2>5, <2>6
<1> QED
    BY <1>2, <1>3

\* What is left of the deque is a deque.
LEMMA RestOfUsage ==
    ASSUME TypeOK, NEW k \in 0..Len(usage)
    PROVE  LET rest == SubSeq(usage, k + 1, Len(usage))
           IN  /\ rest \in Seq(Entry) /\ Len(rest) = Len(usage) - k
               /\ DOMAIN rest = 1..(Len(usage) - k)
               /\ \A i \in 1..(Len(usage) - k) :
                      rest[i] = usage[k + i] /\ k + i \in DOMAIN usage
<1>1. usage \in Seq(Entry)
    BY DEF TypeOK
<1> QED
    BY <1>1

\* A wait is a number of ticks within the window.
LEMMA WaitIsInWindow ==
    ASSUME NEW entries \in Seq(Entry), NEW tokens \in Nat
    PROVE  SecondsUntilFree(entries, tokens) \in 0..Window
<1> DEFINE enough == {i \in DOMAIN entries : FitsWithout(entries, i, tokens)}
           i == IF enough = {} THEN 1 ELSE Min(enough)
<1>1. CASE entries = <<>>
    BY <1>1 DEF SecondsUntilFree
<1>2. CASE entries # <<>>
    <2>1. i \in DOMAIN entries
        <3>1. enough \subseteq Nat /\ enough \subseteq DOMAIN entries
            OBVIOUS
        <3>2. 1 \in DOMAIN entries
            BY <1>2
        <3> HIDE DEF enough
        <3> QED
            BY <3>1, <3>2, MinIsLeast
    <2>2. SecondsUntilFree(entries, tokens) = Window - entries[i].age
        BY <1>2 DEF SecondsUntilFree
    <2> HIDE DEF i
    <2>3. entries[i] \in Entry
        BY <2>1
    <2>4. entries[i].age \in 0..Window
        BY <2>3 DEF Entry
    <2> QED
        BY <2>2, <2>4
<1> QED
    BY <1>1, <1>2

\* A correction changes the entry of the identity, if there is one.
LEMMA CorrectedIsTheEntry ==
    ASSUME TypeOK, NEW id \in Nat, NEW tokens \in Nat
    PROVE  \/ /\ Corrected(id, tokens) = usage
              /\ \A i \in DOMAIN usage : usage[i].id # id
           \/ \E i \in DOMAIN usage :
                  /\ Corrected(id, tokens) = [usage EXCEPT ![i].tokens = tokens]
                  /\ usage[i].id = id
<1> DEFINE Its == {i \in 1..Len(usage) : usage[i].id = id}
<1>1. usage \in Seq(Entry) /\ DOMAIN usage = 1..Len(usage)
    BY DEF TypeOK
<1>2. CASE Its = {}
    <2>1. Corrected(id, tokens) = usage
        BY <1>2 DEF Corrected, SelectInSeq
    <2> QED
        BY <2>1, <1>1, <1>2
<1>3. CASE Its # {}
    <2> DEFINE m == Min(Its)
    <2>1. m \in Its
        <3>1. Its \subseteq Nat
            OBVIOUS
        <3> HIDE DEF Its
        <3> QED
            BY <3>1, <1>3, MinIsLeast
    <2>2. m # 0 /\ SelectInSeq(usage, LAMBDA e : e.id = id) = m
        BY <2>1, <1>3 DEF SelectInSeq
    <2> HIDE DEF m
    <2>3. Corrected(id, tokens) = [usage EXCEPT ![m].tokens = tokens]
        BY <2>2 DEF Corrected
    <2> QED
        BY <2>1, <2>3, <1>1
<1> QED
    BY <1>2, <1>3

\* One tick later.
LEMMA OlderEntry ==
    ASSUME NEW e \in Entry
    PROVE  /\ Older(e) \in Entry
           /\ Older(e).id = e.id /\ Older(e).tokens = e.tokens
           /\ Older(e).age = IF e.age < Window THEN e.age + 1 ELSE e.age
BY DEF Older, Entry

LEMMA OlderGrant ==
    ASSUME NEW g \in Grant
    PROVE  /\ Older(g) \in Grant
           /\ Older(g).estimate = g.estimate /\ Older(g).tokens = g.tokens
           /\ Older(g).age = IF g.age < Window THEN g.age + 1 ELSE g.age
BY DEF Older, Grant

LEMMA ReserveKeepsTypes ==
    ASSUME TypeOK, NEW c \in Callers, NEW entries \in Seq(Entry),
           Reserve(c, entries)
    PROVE  TypeOK'
<1>1. requests' \in Nat /\ needed[c] \in Nat
    BY DEF TypeOK, Reserve
<1>2. [age |-> 0, tokens |-> needed[c], id |-> requests'] \in Entry
    BY <1>1 DEF Entry
<1>3. [age |-> 0, estimate |-> needed[c], tokens |-> needed[c]] \in Grant
    BY <1>1 DEF Grant
<1>4. usage' \in Seq(Entry)
    BY <1>2 DEF Reserve
<1>5. granted' \in Seq(Grant)
    BY <1>3 DEF Reserve, TypeOK
<1>6. /\ pc' \in [Callers -> {"idle", "waiting", "calling"}]
      /\ reservation' \in [Callers -> Nat]
    BY <1>1 DEF Reserve, TypeOK
<1> QED
    BY <1>1, <1>4, <1>5, <1>6 DEF Reserve, TypeOK

LEMMA StepTypeOK == TypeOK /\ InOrder /\ [Next]_vars => TypeOK'
<1> SUFFICES ASSUME TypeOK, InOrder, [Next]_vars PROVE TypeOK'
    OBVIOUS
<1>1. usage \in Seq(Entry) /\ Evicted \in Seq(Entry)
    <2>1. PICK k \in 0..Len(usage) :
              Evicted = SubSeq(usage, k + 1, Len(usage))
        BY EvictedAreExpired
    <2> QED
        BY <2>1, RestOfUsage DEF TypeOK
<1>2. ASSUME NEW c \in Callers, NEW estimate \in Estimates, Ask(c, estimate)
      PROVE  TypeOK'
    <2>1. estimate \in Nat
        OBVIOUS
    <2> QED
        BY <1>2, <2>1 DEF Ask, TypeOK
<1>3. ASSUME NEW c \in Callers, Bypass(c) PROVE TypeOK'
    BY <1>1, <1>3, ReserveKeepsTypes DEF Bypass
<1>4. ASSUME NEW c \in Callers, Secure(c) PROVE TypeOK'
    BY <1>1, <1>4, ReserveKeepsTypes DEF Secure
<1>5. ASSUME NEW c \in Callers, WaitAgain(c) PROVE TypeOK'
    <2>1. SecondsUntilFree(Evicted, needed[c]) \in 0..Window
        BY <1>1, WaitIsInWindow DEF TypeOK
    <2> QED
        BY <1>1, <1>5, <2>1 DEF WaitAgain, TypeOK
<1>6. ASSUME NEW c \in Callers, NEW actual \in Actuals, Record(c, actual)
      PROVE  TypeOK'
    <2>1. actual \in Nat /\ reservation[c] \in Nat
        BY DEF TypeOK
    <2>2. usage' \in Seq(Entry)
        <3>1. CASE usage' = usage
            BY <3>1, <1>1
        <3>2. ASSUME NEW i \in DOMAIN usage,
                     usage' = [usage EXCEPT ![i].tokens = actual]
              PROVE  usage' \in Seq(Entry)
            <4>1. usage[i] \in Entry
                BY <1>1
            <4>2. [usage[i] EXCEPT !.tokens = actual] \in Entry
                BY <4>1, <2>1 DEF Entry
            <4>3. usage' = [usage EXCEPT ![i] = [usage[i] EXCEPT !.tokens = actual]]
                BY <3>2
            <4> QED
                BY <4>2, <4>3, <1>1
        <3> QED
            BY <3>1, <3>2, <2>1, <1>6, CorrectedIsTheEntry DEF Record
    <2>3. granted' \in Seq(Grant)
        <3>1. granted \in Seq(Grant)
            BY DEF TypeOK
        <3>2. granted' = [granted EXCEPT ![reservation[c]].tokens = actual]
            BY <1>6 DEF Record
        <3>3. /\ DOMAIN granted' = 1..Len(granted)
              /\ \A i \in DOMAIN granted :
                     granted'[i] = IF i = reservation[c]
                                   THEN [granted[i] EXCEPT !.tokens = actual]
                                   ELSE granted[i]
            BY <3>1, <3>2
        <3>4. \A g \in Grant : [g EXCEPT !.tokens = actual] \in Grant
            BY <2>1 DEF Grant
        <3>7. \A i \in 1..Len(granted) :
                  i \in DOMAIN granted /\ granted[i] \in Grant
            BY <3>1
        <3>5. \A i \in 1..Len(granted) : granted'[i] \in Grant
            BY <3>3, <3>4, <3>7
        <3>6. granted' = [i \in 1..Len(granted) |-> granted'[i]]
            BY <3>2, <3>3
        <3> QED
            BY <3>1, <3>5, <3>6
    <2> QED
        BY <1>6, <2>2, <2>3 DEF Record, Done, TypeOK
<1>7. ASSUME NEW c \in Callers, CallFails(c) PROVE TypeOK'
    BY <1>7 DEF CallFails, Done, TypeOK
<1>8. CASE Tick
    <2>1. usage' \in Seq(Entry)
        <3>1. \A i \in 1..Len(usage) : Older(usage[i]) \in Entry
            BY <1>1, OlderEntry
        <3>2. usage' = [i \in 1..Len(usage) |-> Older(usage[i])]
            BY <1>1, <1>8 DEF Tick
        <3> QED
            BY <1>1, <3>1, <3>2
    <2>2. granted' \in Seq(Grant)
        <3>1. granted \in Seq(Grant)
            BY DEF TypeOK
        <3>2. \A i \in 1..Len(granted) : Older(granted[i]) \in Grant
            BY <3>1, OlderGrant
        <3>3. granted' = [i \in 1..Len(granted) |-> Older(granted[i])]
            BY <3>1, <1>8 DEF Tick
        <3> QED
            BY <3>1, <3>2, <3>3
    <2>3. sleep' \in [Callers -> 0..Window]
        BY <1>8 DEF Tick, TypeOK
    <2> QED
        BY <1>8, <2>1, <2>2, <2>3 DEF Tick, TypeOK
<1>9. CASE UNCHANGED vars
    BY <1>9 DEF vars, TypeOK
<1> QED
    BY <1>2, <1>3, <1>4, <1>5, <1>6, <1>7, <1>8, <1>9 DEF Next

-----------------------------------------------------------------------------
(***************************************************************************)
(* The window holds what was reserved in it.                               *)
(***************************************************************************)

\* The fields of an entry, and those of a grant.
LEMMA FieldsOfUsage ==
    TypeOK => /\ DOMAIN usage = 1..Len(usage) /\ Len(usage) \in Nat
              /\ \A i \in DOMAIN usage :
                     /\ usage[i] \in Entry /\ usage[i].age \in 0..Window
                     /\ usage[i].tokens \in Nat /\ usage[i].id \in Nat
<1> SUFFICES ASSUME TypeOK, NEW i \in DOMAIN usage
             PROVE  /\ usage[i] \in Entry /\ usage[i].age \in 0..Window
                    /\ usage[i].tokens \in Nat /\ usage[i].id \in Nat
    BY DEF TypeOK
<1>1. usage[i] \in Entry
    BY DEF TypeOK
<1> QED
    BY <1>1 DEF Entry

LEMMA FieldsOfGranted ==
    TypeOK => /\ DOMAIN granted = 1..Len(granted) /\ Len(granted) \in Nat
              /\ \A i \in DOMAIN granted :
                     /\ granted[i] \in Grant /\ granted[i].age \in 0..Window
                     /\ granted[i].tokens \in Nat /\ granted[i].estimate \in Nat
<1> SUFFICES ASSUME TypeOK, NEW i \in DOMAIN granted
             PROVE  /\ granted[i] \in Grant /\ granted[i].age \in 0..Window
                    /\ granted[i].tokens \in Nat /\ granted[i].estimate \in Nat
    BY DEF TypeOK
<1>1. granted[i] \in Grant
    BY DEF TypeOK
<1> QED
    BY <1>1 DEF Grant

\* Evicting expired entries changes neither their order nor the account.
LEMMA EvictionKeepsUsage ==
    ASSUME TypeOK, InOrder, Accounted, NEW k \in 0..Len(usage),
           \A i \in 1..k : Expired(usage[i]),
           usage' = SubSeq(usage, k + 1, Len(usage)),
           UNCHANGED <<granted, requests>>
    PROVE  InOrder' /\ Accounted'
<1>1. /\ DOMAIN usage' = 1..(Len(usage) - k)
      /\ \A i \in DOMAIN usage' :
             usage'[i] = usage[k + i] /\ k + i \in DOMAIN usage
    BY RestOfUsage
<1>2. DOMAIN usage = 1..Len(usage) /\ Len(usage) \in Nat
    BY FieldsOfUsage
<1>3. InOrder'
    <2> SUFFICES ASSUME NEW i \in DOMAIN usage', NEW j \in DOMAIN usage', i < j
                 PROVE  /\ usage'[i].age >= usage'[j].age
                        /\ usage'[i].id < usage'[j].id
        BY DEF InOrder
    <2>1. k + i < k + j
        BY <1>1
    <2> QED
        BY <1>1, <2>1 DEF InOrder
<1>4. \A j \in DOMAIN granted :
          Expired(granted[j]) \/ \E i \in DOMAIN usage' : usage'[i].id = j
    <2> SUFFICES ASSUME NEW j \in DOMAIN granted, ~Expired(granted[j])
                 PROVE  \E i \in DOMAIN usage' : usage'[i].id = j
        OBVIOUS
    <2>1. PICK i \in DOMAIN usage : usage[i].id = j
        BY DEF Accounted
    <2>2. ~Expired(usage[i])
        BY <2>1 DEF Accounted, Expired
    <2>3. i \notin 1..k
        BY <2>2
    <2>4. i - k \in DOMAIN usage' /\ k + (i - k) = i
        BY <1>1, <1>2, <2>3
    <2> QED
        BY <1>1, <2>1, <2>4
<1>5. \A i \in DOMAIN usage' :
          /\ usage'[i].id \in DOMAIN granted
          /\ usage'[i].age = granted[usage'[i].id].age
          /\ usage'[i].tokens = granted[usage'[i].id].tokens
    BY <1>1 DEF Accounted
<1> QED
    BY <1>3, <1>4, <1>5 DEF Accounted

\* A reservation made after an eviction, or after none.
LEMMA ReserveKeepsUsageInv ==
    ASSUME TypeOK, UsageInv, NEW c \in Callers, pc[c] = "waiting",
           NEW k \in 0..Len(usage), \A i \in 1..k : Expired(usage[i]),
           Reserve(c, SubSeq(usage, k + 1, Len(usage)))
    PROVE  UsageInv'
<1> DEFINE rest == SubSeq(usage, k + 1, Len(usage))
           n    == Len(usage) - k
           id   == Len(granted) + 1
<1>1. /\ rest \in Seq(Entry) /\ Len(rest) = n /\ n \in Nat
      /\ \A i \in 1..n : rest[i] = usage[k + i] /\ k + i \in DOMAIN usage
    <2>1. Len(usage) \in Nat /\ n \in Nat
        BY FieldsOfUsage
    <2> QED
        BY <2>1, RestOfUsage
<1>2. requests' = id /\ id \in Nat /\ needed[c] \in Nat
    BY FieldsOfGranted DEF Reserve, UsageInv, Accounted, TypeOK
<1>3. /\ usage' = Append(rest, [age |-> 0, tokens |-> needed[c], id |-> id])
      /\ granted' = Append(granted, [age |-> 0, estimate |-> needed[c],
                                     tokens |-> needed[c]])
      /\ reservation' = [reservation EXCEPT ![c] = id]
      /\ pc' = [pc EXCEPT ![c] = "calling"]
    BY <1>2 DEF Reserve
<1>4. /\ DOMAIN granted = 1..Len(granted) /\ DOMAIN granted' = 1..id
      /\ Len(granted') = id
      /\ \A j \in DOMAIN granted : granted'[j] = granted[j]
      /\ granted'[id] = [age |-> 0, estimate |-> needed[c],
                         tokens |-> needed[c]]
    BY <1>3, FieldsOfGranted DEF TypeOK
<1> HIDE DEF rest
<1>5. /\ DOMAIN usage' = 1..(n + 1)
      /\ \A i \in 1..n : usage'[i] = usage[k + i]
      /\ usage'[n + 1] = [age |-> 0, tokens |-> needed[c], id |-> id]
    BY <1>1, <1>3
<1>6. \A i \in DOMAIN usage' : i \in 1..n \/ i = n + 1
    BY <1>1, <1>5
<1>7. InOrder'
    <2> SUFFICES ASSUME NEW i \in DOMAIN usage', NEW j \in DOMAIN usage', i < j
                 PROVE  /\ usage'[i].age >= usage'[j].age
                        /\ usage'[i].id < usage'[j].id
        BY DEF InOrder
    <2>1. i \in 1..n /\ k + i \in DOMAIN usage /\ usage'[i] = usage[k + i]
        BY <1>1, <1>5
    <2>2. CASE j \in 1..n
        <3>1. k + j \in DOMAIN usage /\ usage'[j] = usage[k + j]
            BY <2>2, <1>1, <1>5
        <3>2. k + i < k + j
            BY <2>1, <2>2
        <3> QED
            BY <2>1, <3>1, <3>2 DEF UsageInv, InOrder
    <2>3. CASE j = n + 1
        <3>1. usage[k + i].age \in 0..Window /\ usage[k + i].id \in 1..Len(granted)
            BY <2>1, <1>4, FieldsOfUsage DEF UsageInv, Accounted
        <3>2. usage'[j].age = 0 /\ usage'[j].id = id
            BY <2>3, <1>5
        <3> QED
            BY <2>1, <3>1, <3>2, <1>2
    <2> QED
        BY <2>2, <2>3, <1>6
<1>8. Accounted'
    <2>1. ASSUME NEW i \in DOMAIN usage'
          PROVE  /\ usage'[i].id \in DOMAIN granted'
                 /\ usage'[i].age = granted'[usage'[i].id].age
                 /\ usage'[i].tokens = granted'[usage'[i].id].tokens
        <3>1. CASE i \in 1..n
            <4>1. usage'[i] = usage[k + i] /\ k + i \in DOMAIN usage
                BY <3>1, <1>1, <1>5
            <4>2. /\ usage[k + i].id \in DOMAIN granted
                  /\ usage[k + i].age = granted[usage[k + i].id].age
                  /\ usage[k + i].tokens = granted[usage[k + i].id].tokens
                BY <4>1 DEF UsageInv, Accounted
            <4>3. usage[k + i].id \in DOMAIN granted'
                BY <4>2, <1>2, <1>4
            <4> QED
                BY <4>1, <4>2, <4>3, <1>4
        <3>2. CASE i = n + 1
            BY <3>2, <1>2, <1>4, <1>5
        <3> QED
            BY <3>1, <3>2, <1>6
    <2>2. ASSUME NEW j \in DOMAIN granted'
          PROVE  \/ Expired(granted'[j])
                 \/ \E i \in DOMAIN usage' : usage'[i].id = j
        <3>1. CASE j = id
            BY <3>1, <1>1, <1>5
        <3>2. CASE j # id
            <4>1. j \in DOMAIN granted /\ granted'[j] = granted[j]
                BY <3>2, <1>2, <1>4
            <4>2. CASE Expired(granted[j])
                BY <4>1, <4>2
            <4>3. CASE ~Expired(granted[j])
                <5>1. PICK i \in DOMAIN usage : usage[i].id = j
                    BY <4>1, <4>3 DEF UsageInv, Accounted
                <5>2. ~Expired(usage[i])
                    BY <4>3, <5>1 DEF UsageInv, Accounted, Expired
                <5>3. i - k \in 1..n /\ k + (i - k) = i
                    BY <5>2, FieldsOfUsage
                <5> QED
                    BY <1>1, <1>5, <5>1, <5>3
            <4> QED
                BY <4>2, <4>3
        <3> QED
            BY <3>1, <3>2
    <2> QED
        BY <2>1, <2>2, <1>2, <1>4 DEF Accounted
<1>9. OwnReservations'
    <2>1. /\ pc \in [Callers -> {"idle", "waiting", "calling"}]
          /\ reservation \in [Callers -> Nat]
        BY DEF TypeOK
    <2>2. \A d \in Callers : reservation[d] < id
        BY <2>1, <1>2 DEF UsageInv, OwnReservations, Accounted
    <2>3. ASSUME NEW d \in Callers
          PROVE  /\ reservation'[d] <= requests'
                 /\ pc'[d] = "calling" =>
                        /\ reservation'[d] \in DOMAIN granted'
                        /\ granted'[reservation'[d]].tokens
                               = granted'[reservation'[d]].estimate
                        /\ \A e \in Callers \ {d} :
                               reservation'[e] # reservation'[d]
        <3>1. CASE d = c
            <4>1. reservation'[d] = id /\ id \in DOMAIN granted'
                BY <3>1, <2>1, <1>2, <1>3, <1>4
            <4>2. \A e \in Callers \ {d} : reservation'[e] # id
                BY <3>1, <2>1, <2>2, <1>3
            <4> QED
                BY <4>1, <4>2, <1>2, <1>4
        <3>2. CASE d # c
            <4>1. reservation'[d] = reservation[d] /\ pc'[d] = pc[d]
                BY <3>2, <2>1, <1>3
            <4>2. reservation'[d] <= requests'
                BY <4>1, <2>1, <2>2, <1>2
            <4>3. ASSUME pc[d] = "calling"
                  PROVE  /\ reservation[d] \in DOMAIN granted'
                         /\ granted'[reservation[d]].tokens
                                = granted'[reservation[d]].estimate
                         /\ \A e \in Callers \ {d} :
                                reservation'[e] # reservation[d]
                <5>1. /\ reservation[d] \in DOMAIN granted
                      /\ granted[reservation[d]].tokens
                             = granted[reservation[d]].estimate
                      /\ \A e \in Callers \ {d} :
                             reservation[e] # reservation[d]
                    BY <4>3 DEF UsageInv, OwnReservations
                <5>2. reservation[d] \in DOMAIN granted'
                    BY <5>1, <1>2, <1>4
                <5>3. \A e \in Callers \ {d} : reservation'[e] # reservation[d]
                    BY <5>1, <2>1, <2>2, <1>2, <1>3
                <5> QED
                    BY <5>1, <5>2, <5>3, <1>4
            <4> QED
                BY <4>1, <4>2, <4>3
        <3> QED
            BY <3>1, <3>2
    <2> QED
        BY <2>3 DEF OwnReservations
<1> QED
    BY <1>7, <1>8, <1>9 DEF UsageInv

\* A correction reaches the entry of the caller's own reservation.
LEMMA RecordKeepsUsageInv ==
    ASSUME TypeOK, UsageInv, NEW c \in Callers, NEW actual \in Actuals,
           Record(c, actual)
    PROVE  UsageInv'
<1> DEFINE id == reservation[c]
<1>1. /\ pc \in [Callers -> {"idle", "waiting", "calling"}]
      /\ reservation \in [Callers -> Nat]
    BY DEF TypeOK
<1>2. /\ id \in DOMAIN granted /\ actual \in Nat /\ id \in Nat
      /\ \A d \in Callers \ {c} : reservation[d] # id
    BY <1>1 DEF UsageInv, OwnReservations, Record
<1>3. /\ requests' = requests
      /\ pc' = [pc EXCEPT ![c] = "idle"]
      /\ reservation' = [reservation EXCEPT ![c] = 0]
      /\ granted' = [granted EXCEPT ![id].tokens = actual]
      /\ usage' = Corrected(id, actual)
    BY DEF Record, Done
<1> HIDE DEF id
<1>4. /\ DOMAIN granted' = DOMAIN granted /\ Len(granted') = Len(granted)
      /\ \A j \in DOMAIN granted :
             /\ granted'[j].age = granted[j].age
             /\ granted'[j].estimate = granted[j].estimate
             /\ granted'[j].tokens = IF j = id THEN actual ELSE granted[j].tokens
    <2>1. granted \in Seq(Grant)
        BY DEF TypeOK
    <2>2. /\ DOMAIN granted' = DOMAIN granted /\ Len(granted') = Len(granted)
          /\ \A j \in DOMAIN granted :
                 granted'[j] = IF j = id THEN [granted[j] EXCEPT !.tokens = actual]
                               ELSE granted[j]
        BY <2>1, <1>3
    <2>3. \A g \in Grant : /\ [g EXCEPT !.tokens = actual].age = g.age
                           /\ [g EXCEPT !.tokens = actual].estimate = g.estimate
                           /\ [g EXCEPT !.tokens = actual].tokens = actual
        BY DEF Grant
    <2> QED
        BY <2>2, <2>3, FieldsOfGranted
<1>5. /\ DOMAIN usage' = DOMAIN usage
      /\ \A i \in DOMAIN usage :
             /\ usage'[i].age = usage[i].age /\ usage'[i].id = usage[i].id
             /\ usage'[i].tokens = IF usage[i].id = id THEN actual
                                   ELSE usage[i].tokens
    <2>1. CASE /\ usage' = usage
               /\ \A i \in DOMAIN usage : usage[i].id # id
        BY <2>1
    <2>2. ASSUME NEW m \in DOMAIN usage, usage[m].id = id,
                 usage' = [usage EXCEPT ![m].tokens = actual]
          PROVE  /\ DOMAIN usage' = DOMAIN usage
                 /\ \A i \in DOMAIN usage :
                        /\ usage'[i].age = usage[i].age
                        /\ usage'[i].id = usage[i].id
                        /\ usage'[i].tokens = IF usage[i].id = id THEN actual
                                              ELSE usage[i].tokens
        <3>1. /\ DOMAIN usage' = DOMAIN usage
              /\ \A i \in DOMAIN usage :
                     usage'[i] = IF i = m THEN [usage[i] EXCEPT !.tokens = actual]
                                 ELSE usage[i]
            BY <2>2
        <3>2. \A e \in Entry : /\ [e EXCEPT !.tokens = actual].age = e.age
                               /\ [e EXCEPT !.tokens = actual].id = e.id
                               /\ [e EXCEPT !.tokens = actual].tokens = actual
            BY DEF Entry
        <3>3. \A i \in DOMAIN usage : usage[i].id = id <=> i = m
            <4> SUFFICES ASSUME NEW i \in DOMAIN usage, usage[i].id = id, i # m
                         PROVE  FALSE
                BY <2>2
            <4>1. i < m \/ m < i
                BY FieldsOfUsage
            <4>2. usage[i].id < usage[m].id \/ usage[m].id < usage[i].id
                BY <4>1 DEF UsageInv, InOrder
            <4> QED
                BY <4>2, <2>2, FieldsOfUsage
        <3>4. \A i \in DOMAIN usage : usage[i] \in Entry
            BY FieldsOfUsage
        <3>5. ASSUME NEW i \in DOMAIN usage
              PROVE  /\ usage'[i].age = usage[i].age
                     /\ usage'[i].id = usage[i].id
                     /\ usage'[i].tokens = IF usage[i].id = id THEN actual
                                           ELSE usage[i].tokens
            <4>1. CASE i = m
                <5>1. usage'[i] = [usage[i] EXCEPT !.tokens = actual]
                    BY <4>1, <3>1
                <5> QED
                    BY <4>1, <5>1, <3>2, <3>3, <3>4
            <4>2. CASE i # m
                BY <4>2, <3>1, <3>3
            <4> QED
                BY <4>1, <4>2
        <3> QED
            BY <3>1, <3>5
    <2> QED
        BY <2>1, <2>2, <1>2, <1>3, CorrectedIsTheEntry
<1>6. InOrder'
    BY <1>5 DEF UsageInv, InOrder
<1>7. Accounted'
    <2>1. \A i \in DOMAIN usage' :
              /\ usage'[i].id \in DOMAIN granted'
              /\ usage'[i].age = granted'[usage'[i].id].age
              /\ usage'[i].tokens = granted'[usage'[i].id].tokens
        BY <1>4, <1>5 DEF UsageInv, Accounted
    <2>2. \A j \in DOMAIN granted' :
              \/ Expired(granted'[j])
              \/ \E i \in DOMAIN usage' : usage'[i].id = j
        BY <1>4, <1>5 DEF UsageInv, Accounted, Expired
    <2> QED
        BY <2>1, <2>2, <1>3, <1>4 DEF UsageInv, Accounted
<1>8. OwnReservations'
    <2> SUFFICES ASSUME NEW d \in Callers
                 PROVE  /\ reservation'[d] <= requests'
                        /\ pc'[d] = "calling" =>
                               /\ reservation'[d] \in DOMAIN granted'
                               /\ granted'[reservation'[d]].tokens
                                      = granted'[reservation'[d]].estimate
                               /\ \A e \in Callers \ {d} :
                                      reservation'[e] # reservation'[d]
        BY DEF OwnReservations
    <2>1. CASE d = c
        BY <2>1, <1>1, <1>3 DEF TypeOK
    <2>2. CASE d # c
        <3>1. /\ reservation'[d] = reservation[d] /\ pc'[d] = pc[d]
              /\ reservation[d] # id
            BY <2>2, <1>1, <1>2, <1>3
        <3>2. reservation[d] <= requests
            BY DEF UsageInv, OwnReservations
        <3>3. pc[d] = "calling" =>
                  /\ reservation[d] \in DOMAIN granted
                  /\ granted[reservation[d]].tokens
                         = granted[reservation[d]].estimate
                  /\ \A e \in Callers \ {d} : reservation[e] # reservation[d]
            BY DEF UsageInv, OwnReservations
        <3>4. pc[d] = "calling" => reservation[d] # 0
            BY <3>3, FieldsOfGranted
        <3>5. \A e \in Callers :
                  reservation'[e] = IF e = c THEN 0 ELSE reservation[e]
            BY <1>1, <1>3
        <3> QED
            BY <3>1, <3>2, <3>3, <3>4, <3>5, <1>3, <1>4
    <2> QED
        BY <2>1, <2>2
<1> QED
    BY <1>6, <1>7, <1>8 DEF UsageInv

\* Time passes for the deque and for what was granted alike.
LEMMA TickKeepsUsageInv == TypeOK /\ UsageInv /\ Tick => UsageInv'
<1> SUFFICES ASSUME TypeOK, UsageInv, Tick PROVE UsageInv'
    OBVIOUS
<1>1. /\ DOMAIN usage' = DOMAIN usage
      /\ \A i \in DOMAIN usage :
             /\ usage'[i].id = usage[i].id /\ usage'[i].tokens = usage[i].tokens
             /\ usage'[i].age = IF usage[i].age < Window THEN usage[i].age + 1
                                ELSE usage[i].age
    BY FieldsOfUsage, OlderEntry DEF Tick
<1>2. /\ DOMAIN granted' = DOMAIN granted
      /\ \A i \in DOMAIN granted :
             /\ granted'[i].tokens = granted[i].tokens
             /\ granted'[i].estimate = granted[i].estimate
             /\ granted'[i].age = IF granted[i].age < Window
                                  THEN granted[i].age + 1 ELSE granted[i].age
    BY FieldsOfGranted, OlderGrant DEF Tick
<1>3. Len(granted') = Len(granted)
    BY FieldsOfGranted DEF Tick
<1>4. UNCHANGED <<pc, reservation, requests>>
    BY DEF Tick
<1>5. InOrder'
    <2> SUFFICES ASSUME NEW i \in DOMAIN usage, NEW j \in DOMAIN usage, i < j
                 PROVE  /\ usage'[i].age >= usage'[j].age
                        /\ usage'[i].id < usage'[j].id
        BY <1>1 DEF InOrder
    <2>1. usage[i].age >= usage[j].age /\ usage[i].id < usage[j].id
        BY DEF UsageInv, InOrder
    <2>2. usage[i].age \in Nat /\ usage[j].age \in Nat
        BY FieldsOfUsage
    <2> QED
        BY <2>1, <2>2, <1>1
<1>6. Accounted'
    <2>1. \A i \in DOMAIN usage' :
              /\ usage'[i].id \in DOMAIN granted'
              /\ usage'[i].age = granted'[usage'[i].id].age
              /\ usage'[i].tokens = granted'[usage'[i].id].tokens
        BY <1>1, <1>2 DEF UsageInv, Accounted
    <2>2. ASSUME NEW j \in DOMAIN granted'
          PROVE  \/ Expired(granted'[j])
                 \/ \E i \in DOMAIN usage' : usage'[i].id = j
        <3>1. Expired(granted[j]) => Expired(granted'[j])
            BY <1>2, FieldsOfGranted DEF Expired
        <3> QED
            BY <3>1, <1>1, <1>2 DEF UsageInv, Accounted
    <2> QED
        BY <2>1, <2>2, <1>3, <1>4 DEF UsageInv, Accounted
<1>7. OwnReservations'
    BY <1>2, <1>4 DEF UsageInv, OwnReservations
<1> QED
    BY <1>5, <1>6, <1>7 DEF UsageInv

LEMMA StepUsageInv == TypeOK /\ UsageInv /\ [Next]_vars => UsageInv'
<1> SUFFICES ASSUME TypeOK, UsageInv, [Next]_vars PROVE UsageInv'
    OBVIOUS
<1>1. PICK k \in 0..Len(usage) :
          /\ Evicted = SubSeq(usage, k + 1, Len(usage))
          /\ \A i \in 1..k : Expired(usage[i])
    BY EvictedAreExpired DEF UsageInv
<1>2. /\ pc \in [Callers -> {"idle", "waiting", "calling"}]
      /\ reservation \in [Callers -> Nat]
    BY DEF TypeOK
<1>3. CASE UNCHANGED <<usage, pc, reservation, requests, granted>>
    BY <1>3 DEF UsageInv, InOrder, Accounted, OwnReservations
<1>4. ASSUME NEW c \in Callers, NEW estimate \in Estimates, Ask(c, estimate)
      PROVE  UsageInv'
    <2>1. /\ UNCHANGED <<usage, reservation, requests, granted>>
          /\ pc' = [pc EXCEPT ![c] = "waiting"]
        BY <1>4 DEF Ask
    <2>2. \A d \in Callers : pc'[d] = "calling" => pc[d] = "calling"
        BY <2>1, <1>2
    <2> QED
        BY <2>1, <2>2 DEF UsageInv, InOrder, Accounted, OwnReservations
<1>5. ASSUME NEW c \in Callers, Bypass(c) PROVE UsageInv'
    <2>1. /\ 0 \in 0..Len(usage) /\ SubSeq(usage, 0 + 1, Len(usage)) = usage
          /\ \A i \in 1..0 : Expired(usage[i])
        BY DEF TypeOK
    <2> QED
        BY <1>5, <2>1, ReserveKeepsUsageInv DEF Bypass
<1>6. ASSUME NEW c \in Callers, Secure(c) PROVE UsageInv'
    BY <1>1, <1>6, ReserveKeepsUsageInv DEF Secure
<1>7. ASSUME NEW c \in Callers, WaitAgain(c) PROVE UsageInv'
    <2>1. /\ usage' = SubSeq(usage, k + 1, Len(usage))
          /\ UNCHANGED <<pc, reservation, requests, granted>>
        BY <1>1, <1>7 DEF WaitAgain
    <2>2. InOrder' /\ Accounted'
        BY <1>1, <2>1, EvictionKeepsUsage DEF UsageInv
    <2> QED
        BY <2>1, <2>2 DEF UsageInv, OwnReservations
<1>8. ASSUME NEW c \in Callers, NEW actual \in Actuals, Record(c, actual)
      PROVE  UsageInv'
    BY <1>8, RecordKeepsUsageInv
<1>9. ASSUME NEW c \in Callers, CallFails(c) PROVE UsageInv'
    <2>1. /\ UNCHANGED <<usage, requests, granted>>
          /\ \A d \in Callers :
                 /\ pc'[d] = IF d = c THEN "idle" ELSE pc[d]
                 /\ reservation'[d] = IF d = c THEN 0 ELSE reservation[d]
        BY <1>2, <1>9 DEF CallFails, Done
    <2>2. \A d \in Callers : reservation'[d] <= requests
        <3>1. requests \in Nat /\ \A d \in Callers : reservation[d] <= requests
            BY DEF UsageInv, OwnReservations, TypeOK
        <3> QED
            BY <3>1, <2>1
    <2>3. \A d \in Callers : pc[d] = "calling" => reservation[d] # 0
        BY FieldsOfGranted DEF UsageInv, OwnReservations
    <2> QED
        BY <2>1, <2>2, <2>3
        DEF UsageInv, InOrder, Accounted, OwnReservations
<1>10. CASE Tick
    BY <1>10, TickKeepsUsageInv
<1>11. CASE UNCHANGED vars
    BY <1>3, <1>11 DEF vars
<1> QED
    BY <1>4, <1>5, <1>6, <1>7, <1>8, <1>9, <1>10, <1>11 DEF Next

LEMMA UsageInvariant == Spec => [](TypeOK /\ UsageInv)
<1>1. Init => TypeOK /\ UsageInv
    BY DEF Init, TypeOK, UsageInv, InOrder, Accounted, OwnReservations
<1>2. TypeOK /\ UsageInv /\ [Next]_vars => TypeOK' /\ UsageInv'
    BY StepTypeOK, StepUsageInv DEF UsageInv
<1> QED
    BY <1>1, <1>2, PTL DEF Spec

\* Whatever the interleaving of callers, corrections and time, the deque's
\* live entries are exactly the reservations of the last window, each with
\* its own correction.
THEOREM TheWindowIsAccounted == Spec => []UsageIsTrue
<1>1. TypeOK /\ UsageInv => UsageIsTrue
    <2> SUFFICES ASSUME TypeOK, UsageInv PROVE UsageIsTrue
        OBVIOUS
    <2> DEFINE Of(j) == [id |-> j, age |-> granted[j].age,
                         tokens |-> granted[j].tokens]
    <2>1. ASSUME NEW i \in DOMAIN usage
          PROVE  /\ usage[i] = Of(usage[i].id) /\ usage[i].id \in DOMAIN granted
                 /\ Expired(usage[i]) <=> Expired(granted[usage[i].id])
        <3>1. /\ usage[i].id \in DOMAIN granted
              /\ usage[i].age = granted[usage[i].id].age
              /\ usage[i].tokens = granted[usage[i].id].tokens
            BY DEF UsageInv, Accounted
        <3>2. usage[i] = [age |-> usage[i].age, tokens |-> usage[i].tokens,
                          id |-> usage[i].id]
            BY FieldsOfUsage DEF Entry
        <3> QED
            BY <3>1, <3>2 DEF Expired
    <2>2. \A j \in DOMAIN granted :
              Expired(granted[j]) \/ \E i \in DOMAIN usage : usage[i].id = j
        BY DEF UsageInv, Accounted
    <2>3. ToSet(usage) = {usage[i] : i \in DOMAIN usage}
        BY DEF ToSet
    <2> HIDE DEF Of
    <2>4. {Of(j) : j \in {m \in DOMAIN granted : ~Expired(granted[m])}}
              = {e \in ToSet(usage) : ~Expired(e)}
        BY <2>1, <2>2, <2>3
    <2> QED
        BY <2>4 DEF UsageIsTrue, Of
<1> QED
    BY <1>1, UsageInvariant, PTL

\* Every variable keeps its type; no wait is longer than the window.
THEOREM LimiterTypeCorrect == Spec => []TypeOK
BY UsageInvariant, PTL

-----------------------------------------------------------------------------
(***************************************************************************)
(* The limit holds.                                                        *)
(***************************************************************************)

LEMMA CountedIsWithin ==
    ASSUME NEW g \in Grant
    PROVE  /\ Counted(g) \in Nat
           /\ Counted(g) <= g.tokens /\ Counted(g) <= g.estimate
           /\ Counted(g) # 0 => ~Expired(g) /\ g.estimate <= Limit
BY DEF Counted, Grant

Weights(grants) == [i \in DOMAIN grants |-> Counted(grants[i])]

LEMMA WeightsAreNumbers ==
    ASSUME NEW grants \in Seq(Grant)
    PROVE  /\ Weights(grants) \in Seq(Nat)
           /\ Len(Weights(grants)) = Len(grants)
           /\ \A i \in 1..Len(grants) :
                  Weights(grants)[i] = Counted(grants[i])
<1>1. \A i \in 1..Len(grants) : grants[i] \in Grant
    OBVIOUS
<1>2. /\ DOMAIN grants = 1..Len(grants) /\ Len(grants) \in Nat
      /\ \A i \in 1..Len(grants) : Counted(grants[i]) \in Nat
    BY <1>1, CountedIsWithin
<1>3. Weights(grants) = [i \in 1..Len(grants) |-> Counted(grants[i])]
    BY <1>2 DEF Weights
<1> QED
    BY <1>2, <1>3

\* What the deque holds adds up to a number.
LEMMA EvictedInNat ==
    ASSUME TypeOK, InOrder PROVE SumTokens(Evicted) \in Nat
<1>1. PICK k \in 0..Len(usage) : Evicted = SubSeq(usage, k + 1, Len(usage))
    BY EvictedAreExpired
<1>2. Evicted \in Seq(Entry)
    BY <1>1, RestOfUsage
<1>3. \A i \in 1..Len(Evicted) : Evicted[i].tokens \in Nat
    <2>1. \A i \in 1..Len(Evicted) : Evicted[i] \in Entry
        BY <1>2
    <2> QED
        BY <2>1 DEF Entry
<1>4. [i \in DOMAIN Evicted |-> Evicted[i].tokens] \in Seq(Nat)
    BY <1>2, <1>3
<1> QED
    BY <1>4, TotalInNat DEF SumTokens

\* What is counted is no more than what the deque holds.
LEMMA CountedIsInDeque ==
    ASSUME TypeOK, UsageInv PROVE Total(Weights(granted)) <= SumTokens(Evicted)
<1>1. PICK k \in 0..Len(usage) :
          /\ Evicted = SubSeq(usage, k + 1, Len(usage))
          /\ \A i \in 1..k : Expired(usage[i])
    BY EvictedAreExpired DEF UsageInv
<1> DEFINE n      == Len(usage) - k
           tokens == [i \in DOMAIN Evicted |-> Evicted[i].tokens]
           place  == [i \in 1..n |-> usage[k + i].id]
<1>2. /\ n \in Nat /\ DOMAIN Evicted = 1..n
      /\ \A i \in 1..n : Evicted[i] = usage[k + i] /\ k + i \in DOMAIN usage
    <2>1. Len(usage) \in Nat
        BY FieldsOfUsage
    <2>2. n \in Nat
        BY <2>1
    <2> QED
        BY <2>2, <1>1, RestOfUsage
<1>3. tokens \in Seq(Nat) /\ Len(tokens) = n
    <2>1. \A i \in 1..n : Evicted[i].tokens \in Nat
        BY <1>2, FieldsOfUsage
    <2>2. tokens = [i \in 1..n |-> Evicted[i].tokens]
        BY <1>2
    <2> QED
        BY <1>2, <2>1, <2>2
<1>4. \A i \in 1..n : tokens[i] = usage[k + i].tokens
    BY <1>2
<1>5. /\ Weights(granted) \in Seq(Nat) /\ Len(Weights(granted)) = Len(granted)
      /\ DOMAIN granted = 1..Len(granted)
      /\ \A i \in 1..Len(granted) : Weights(granted)[i] = Counted(granted[i])
    BY WeightsAreNumbers DEF TypeOK
<1>6. /\ place \in [1..n -> 1..Len(Weights(granted))]
      /\ \A i, j \in 1..n : i < j => place[i] < place[j]
    <2>1. \A i \in 1..n : usage[k + i].id \in 1..Len(Weights(granted))
        BY <1>2, <1>5 DEF UsageInv, Accounted
    <2>2. \A i, j \in 1..n : i < j => k + i < k + j
        BY <1>2
    <2>3. \A i, j \in 1..n : i < j => usage[k + i].id < usage[k + j].id
        BY <1>2, <2>2 DEF UsageInv, InOrder
    <2> QED
        BY <2>1, <2>3
<1>7. ASSUME NEW j \in 1..Len(Weights(granted)), Weights(granted)[j] # 0
      PROVE  \E i \in 1..n : place[i] = j
    <2>1. j \in DOMAIN granted /\ ~Expired(granted[j])
        BY <1>5, <1>7, FieldsOfGranted, CountedIsWithin
    <2>2. PICK i \in DOMAIN usage : usage[i].id = j
        BY <2>1 DEF UsageInv, Accounted
    <2>3. ~Expired(usage[i])
        BY <2>1, <2>2 DEF UsageInv, Accounted, Expired
    <2>4. i - k \in 1..n /\ k + (i - k) = i
        BY <1>1, <2>3, FieldsOfUsage
    <2> QED
        BY <2>2, <2>4
<1>8. ASSUME NEW i \in 1..n PROVE Weights(granted)[place[i]] <= tokens[i]
    <2>1. /\ k + i \in DOMAIN usage /\ usage[k + i].id \in DOMAIN granted
          /\ usage[k + i].tokens = granted[usage[k + i].id].tokens
        BY <1>2 DEF UsageInv, Accounted
    <2>2. Counted(granted[usage[k + i].id]) <= granted[usage[k + i].id].tokens
        BY <2>1, FieldsOfGranted, CountedIsWithin
    <2> QED
        BY <2>1, <2>2, <1>4, <1>5
<1> HIDE DEF tokens, place
<1>9. Total(Weights(granted)) <= Total(tokens)
    BY <1>3, <1>5, <1>6, <1>7, <1>8, TotalOfPlaced
<1> QED
    BY <1>9 DEF SumTokens, tokens

\* A new reservation adds what is counted of it.
LEMMA ReserveAddsCount ==
    ASSUME NEW grants \in Seq(Grant), NEW new \in Grant
    PROVE  Total(Weights(Append(grants, new)))
               = Total(Weights(grants)) + Counted(new)
<1> DEFINE after  == Weights(Append(grants, new))
           before == Weights(grants)
           n      == Len(grants)
<1>1. /\ Append(grants, new) \in Seq(Grant) /\ Len(Append(grants, new)) = n + 1
      /\ \A i \in 1..n : Append(grants, new)[i] = grants[i]
      /\ Append(grants, new)[n + 1] = new
      /\ n \in Nat /\ Counted(new) \in Nat
    BY CountedIsWithin
<1>2. /\ before \in Seq(Nat) /\ Len(before) = n
      /\ \A i \in 1..n : before[i] = Counted(grants[i])
    BY WeightsAreNumbers
<1>3. /\ after \in Seq(Nat) /\ Len(after) = n + 1
      /\ \A i \in 1..(n + 1) : after[i] = Counted(Append(grants, new)[i])
    BY <1>1, WeightsAreNumbers
<1>4. \A i \in 1..n : after[i] = before[i]
    BY <1>1, <1>2, <1>3
<1>5. after[n + 1] = Counted(new)
    BY <1>1, <1>3
<1> HIDE DEF after, before, n
<1>6. after = Append(before, Counted(new))
    <2> DEFINE b == Append(before, Counted(new))
    <2>1. /\ b \in Seq(Nat) /\ Len(b) = n + 1 /\ b[n + 1] = Counted(new)
          /\ \A i \in 1..n : b[i] = before[i]
        BY <1>1, <1>2
    <2>2. \A i \in 1..(n + 1) : i \in 1..n \/ i = n + 1
        BY <1>1
    <2> HIDE DEF b
    <2>3. \A i \in 1..(n + 1) : after[i] = b[i]
        BY <1>4, <1>5, <2>1, <2>2
    <2>4. after = b
        BY <1>3, <2>1, <2>3
    <2> QED
        BY <2>4 DEF b
<1>7. Total(after) = Total(before) + Counted(new)
    BY <1>1, <1>2, <1>6, TotalOfAppend
<1> QED
    BY <1>7 DEF after, before

\* Where what is counted of each reservation does not grow, the sum does not.
LEMMA CountsOnlyShrink ==
    ASSUME NEW grants \in Seq(Grant), NEW later \in Seq(Grant),
           DOMAIN later = DOMAIN grants,
           \A i \in DOMAIN grants : Counted(later[i]) <= Counted(grants[i])
    PROVE  Total(Weights(later)) <= Total(Weights(grants))
<1>1. Len(later) = Len(grants) /\ DOMAIN grants = 1..Len(grants)
    OBVIOUS
<1>2. /\ Weights(grants) \in Seq(Nat) /\ Weights(later) \in Seq(Nat)
      /\ Len(Weights(later)) = Len(Weights(grants))
      /\ \A i \in 1..Len(Weights(later)) :
             Weights(later)[i] <= Weights(grants)[i]
    BY <1>1, WeightsAreNumbers
<1> QED
    BY <1>2, TotalIsMonotone

\* A request that may have to wait is let through when it fits beside all
\* that the window holds, so beside all that is counted of it.
LEMMA StepWithinLimit ==
    TypeOK /\ UsageInv /\ WithinLimit /\ TypeOK' /\ [Next]_vars => WithinLimit'
<1> SUFFICES ASSUME TypeOK, UsageInv, WithinLimit, TypeOK', [Next]_vars
             PROVE  WithinLimit'
    OBVIOUS
<1> DEFINE before == Total(Weights(granted))
           after  == Total(Weights(granted'))
<1>1. granted \in Seq(Grant) /\ granted' \in Seq(Grant)
    BY DEF TypeOK
<1>2. before \in Nat /\ after \in Nat
    BY <1>1, WeightsAreNumbers, TotalInNat
<1>3. before <= Limit /\ (after <= Limit => WithinLimit')
    BY DEF WithinLimit, Weights
<1>4. ASSUME DOMAIN granted' = DOMAIN granted,
             \A i \in DOMAIN granted :
                 Counted(granted'[i]) <= Counted(granted[i])
      PROVE  WithinLimit'
    <2>1. after <= before
        BY <1>1, <1>4, CountsOnlyShrink
    <2> HIDE DEF before, after
    <2> QED
        BY <1>2, <1>3, <2>1
<1>5. CASE UNCHANGED granted
    BY <1>5 DEF WithinLimit
<1>6. ASSUME NEW c \in Callers, NEW entries, Reserve(c, entries),
             NEW room \in Nat, before + room <= Limit,
             needed[c] > Limit \/ needed[c] <= room
      PROVE  WithinLimit'
    <2> DEFINE new == [age |-> 0, estimate |-> needed[c], tokens |-> needed[c]]
    <2>1. new \in Grant /\ new.estimate = needed[c] /\ needed[c] \in Nat
        BY DEF TypeOK, Grant
    <2>2. granted' = Append(granted, new)
        BY <1>6 DEF Reserve
    <2> HIDE DEF new
    <2>3. after = before + Counted(new)
        BY <1>1, <2>1, <2>2, ReserveAddsCount
    <2>4. Counted(new) \in Nat /\ Counted(new) <= needed[c]
        BY <2>1, CountedIsWithin
    <2>5. needed[c] > Limit => Counted(new) = 0
        BY <2>1 DEF Counted
    <2> HIDE DEF before, after
    <2> QED
        BY <1>2, <1>3, <1>6, <2>1, <2>3, <2>4, <2>5
<1>7. ASSUME NEW c \in Callers, Bypass(c) PROVE WithinLimit'
    <2>1. before + 0 <= Limit
        BY <1>2, <1>3
    <2> HIDE DEF before
    <2> QED
        BY <1>6, <1>7, <2>1 DEF Bypass
<1>8. ASSUME NEW c \in Callers, Secure(c) PROVE WithinLimit'
    <2>1. SumTokens(Evicted) + needed[c] <= Limit /\ Reserve(c, Evicted)
        BY <1>8 DEF Secure
    <2>2. before <= SumTokens(Evicted)
        BY CountedIsInDeque
    <2>3. needed[c] \in Nat /\ SumTokens(Evicted) \in Nat
        BY EvictedInNat DEF TypeOK, UsageInv
    <2> HIDE DEF before
    <2>4. before + needed[c] <= Limit /\ needed[c] <= needed[c]
        BY <1>2, <2>1, <2>2, <2>3
    <2> QED
        BY <1>6, <2>1, <2>3, <2>4
<1>9. ASSUME NEW c \in Callers, NEW actual \in Actuals, Record(c, actual)
      PROVE  WithinLimit'
    <2> DEFINE id == reservation[c]
    <2>1. /\ id \in DOMAIN granted /\ actual \in Nat
          /\ granted[id].tokens = granted[id].estimate
        BY <1>9 DEF Record, UsageInv, OwnReservations
    <2>2. granted' = [granted EXCEPT ![id].tokens = actual]
        BY <1>9 DEF Record
    <2> HIDE DEF id
    <2>3. DOMAIN granted' = DOMAIN granted
        BY <2>2
    <2>4. ASSUME NEW i \in DOMAIN granted
          PROVE  Counted(granted'[i]) <= Counted(granted[i])
        <3>1. granted[i] \in Grant /\ Counted(granted[i]) \in Nat
            BY FieldsOfGranted, CountedIsWithin
        <3>2. CASE i # id
            <4>1. granted'[i] = granted[i]
                BY <3>2, <2>2
            <4> QED
                BY <4>1, <3>1
        <3>3. CASE i = id
            <4>1. granted'[i] = [granted[i] EXCEPT !.tokens = actual]
                BY <3>3, <2>1, <2>2
            <4>2. \A g \in Grant : g.tokens = g.estimate =>
                      Counted([g EXCEPT !.tokens = actual]) <= Counted(g)
                BY <2>1 DEF Counted, Expired, Grant
            <4> QED
                BY <3>1, <3>3, <2>1, <4>1, <4>2
        <3> QED
            BY <3>2, <3>3
    <2> QED
        BY <1>4, <2>3, <2>4
<1>10. CASE Tick
    <2>1. /\ DOMAIN granted' = DOMAIN granted
          /\ \A i \in DOMAIN granted : granted'[i] = Older(granted[i])
        BY <1>10 DEF Tick
    <2>2. ASSUME NEW g \in Grant PROVE Counted(Older(g)) <= Counted(g)
        <3>1. Expired(g) => Expired(Older(g))
            BY OlderGrant DEF Expired, Grant
        <3>2. g.tokens \in Nat /\ g.estimate \in Nat
            BY DEF Grant
        <3> QED
            BY <3>1, <3>2, OlderGrant DEF Counted
    <2>3. \A i \in DOMAIN granted : granted[i] \in Grant
        BY FieldsOfGranted
    <2> QED
        BY <1>4, <2>1, <2>2, <2>3
<1>11. CASE \E c \in Callers : \/ \E estimate \in Estimates : Ask(c, estimate)
                               \/ WaitAgain(c) \/ CallFails(c)
    BY <1>5, <1>11 DEF Ask, WaitAgain, CallFails
<1>12. CASE UNCHANGED vars
    BY <1>5, <1>12 DEF vars
<1> QED
    BY <1>7, <1>9, <1>10, <1>11, <1>12, <1>8 DEF Next

\* In no interleaving of callers do the requests that were made to fit exceed
\* the limit within a window.
THEOREM TheLimitHolds == Spec => []WithinLimit
<1>1. Init => WithinLimit
    <2> SUFFICES ASSUME Init PROVE WithinLimit
        OBVIOUS
    <2>1. [i \in DOMAIN granted |-> Counted(granted[i])] = <<>>
        BY DEF Init
    <2> QED
        BY <2>1, TotalOfNone DEF WithinLimit
<1> QED
    BY <1>1, UsageInvariant, StepWithinLimit, PTL DEF Spec

-----------------------------------------------------------------------------
(***************************************************************************)
(* A wait is as long as needed.                                            *)
(***************************************************************************)

\* Entries whose last ones alone fit, from the first place on where they do:
\* SecondsUntilFree finds that place.
LEMMA FirstThatMakesRoom ==
    ASSUME NEW entries \in Seq(Entry), NEW tokens \in Nat, tokens <= Limit,
           SumTokens(entries) + tokens > Limit
    PROVE  LET numbers == [i \in DOMAIN entries |-> entries[i].tokens]
               From(i) == Total(SubSeq(numbers, i, Len(entries)))
           IN  \E i \in DOMAIN entries :
                   /\ SecondsUntilFree(entries, tokens)
                          = Window - entries[i].age
                   /\ From(i + 1) + tokens <= Limit
                   /\ From(i) + tokens > Limit
<1> DEFINE numbers == [i \in DOMAIN entries |-> entries[i].tokens]
           n       == Len(entries)
           From(i) == Total(SubSeq(numbers, i, n))
           enough  == {i \in DOMAIN entries : FitsWithout(entries, i, tokens)}
<1>1. DOMAIN entries = 1..n /\ n \in Nat
    OBVIOUS
<1>2. /\ numbers \in Seq(Nat) /\ Len(numbers) = n
      /\ \A i \in 1..n : numbers[i] = entries[i].tokens
    <2>1. \A i \in 1..n : entries[i] \in Entry
        OBVIOUS
    <2>2. \A i \in 1..n : entries[i].tokens \in Nat
        BY <2>1 DEF Entry
    <2> QED
        BY <1>1, <2>2
<1>3. Total(numbers) + tokens > Limit /\ SumTokens(entries) = Total(numbers)
    BY DEF SumTokens
\* What fits without the first entries fits beside the others.
<1>4. ASSUME NEW i \in 0..n
      PROVE  /\ FitsWithout(entries, i, tokens) <=> From(i + 1) + tokens <= Limit
             /\ From(i + 1) \in Nat
    <2> DEFINE first == SubSeq(entries, 1, i)
    <2>1. [j \in DOMAIN first |-> first[j].tokens] = SubSeq(numbers, 1, i)
        <3> DEFINE a == [j \in DOMAIN first |-> first[j].tokens]
                   b == SubSeq(numbers, 1, i)
        <3>1. DOMAIN first = 1..i /\ \A j \in 1..i : first[j] = entries[j]
            BY <1>1
        <3> HIDE DEF numbers, first, n
        <3>2. /\ b \in Seq(Nat) /\ Len(b) = i
              /\ \A j \in 1..i : b[j] = numbers[j]
            BY <1>1, <1>2
        <3>3. \A j \in 1..i : j \in 1..n
            BY <1>1
        <3>4. /\ a = [j \in 1..i |-> first[j].tokens]
              /\ \A j \in 1..i : first[j].tokens = numbers[j]
            BY <3>1, <3>3, <1>2
        <3>5. b = [j \in 1..i |-> b[j]]
            BY <3>2
        <3> QED
            BY <3>2, <3>4, <3>5
    <2>2. SumTokens(first) = Total(SubSeq(numbers, 1, i))
        BY <2>1 DEF SumTokens
    <2>3. /\ SubSeq(numbers, 1, i) \in Seq(Nat)
          /\ SubSeq(numbers, i + 1, n) \in Seq(Nat)
        <3> HIDE DEF numbers, n
        <3> QED
            BY <1>1, <1>2
    <2> HIDE DEF numbers, n, first
    <2>4. Total(numbers) = Total(SubSeq(numbers, 1, i)) + From(i + 1)
        BY <1>2, TotalOfParts
    <2>5. Total(SubSeq(numbers, 1, i)) \in Nat /\ From(i + 1) \in Nat
        BY <2>3, TotalInNat
    <2>6. FitsWithout(entries, i, tokens)
              <=> SumTokens(entries) - SumTokens(first) + tokens <= Limit
        BY DEF FitsWithout, first
    <2> HIDE DEF From
    <2>7. SumTokens(entries) - SumTokens(first) = From(i + 1)
        BY <1>3, <2>2, <2>4, <2>5
    <2> QED
        BY <2>5, <2>6, <2>7
\* Nothing is left without all of them.
<1>5. n \in enough
    <2>1. n # 0
        <3> SUFFICES ASSUME n = 0 PROVE FALSE
            OBVIOUS
        <3>1. numbers = <<>>
            BY <1>2
        <3> QED
            BY <3>1, <1>3, TotalOfNone
    <2>2. SubSeq(numbers, n + 1, n) = <<>>
        BY <1>1, <1>2
    <2>3. From(n + 1) = 0
        BY <2>2, TotalOfNone
    <2>4. FitsWithout(entries, n, tokens)
        <3>1. n \in 0..n
            BY <1>1
        <3> QED
            BY <1>4, <2>3, <3>1
    <2> QED
        BY <1>1, <2>1, <2>4
<1> DEFINE i == Min(enough)
<1>6. i \in enough /\ \A x \in enough : i <= x
    <2>1. enough \subseteq Nat
        BY <1>1
    <2> HIDE DEF enough
    <2> QED
        BY <1>5, <2>1, MinIsLeast
<1>7. SecondsUntilFree(entries, tokens) = Window - entries[i].age
    <2>1. entries # <<>>
        BY <1>5
    <2> QED
        BY <1>5, <2>1 DEF SecondsUntilFree
<1> HIDE DEF i, From
<1>8. i \in 1..n /\ FitsWithout(entries, i, tokens) /\ i \in 0..n
    BY <1>1, <1>6
<1>9. From(i + 1) + tokens <= Limit
    BY <1>4, <1>8
<1>10. From(i) + tokens > Limit
    <2>1. i - 1 \in 0..n /\ (i - 1) + 1 = i
        BY <1>1, <1>8
    <2>2. From(i) \in Nat
        BY <1>4, <2>1
    <2>3. ~FitsWithout(entries, i - 1, tokens)
        <3>1. CASE i - 1 = 0
            <4>1. SubSeq(numbers, i, n) = numbers
                BY <3>1, <1>2, <1>8
            <4>2. From(i) + tokens > Limit
                BY <4>1, <1>3 DEF From
            <4> QED
                BY <4>2, <2>1, <2>2, <1>4
        <3>2. CASE i - 1 # 0
            <4>1. i - 1 \in DOMAIN entries /\ ~(i <= i - 1)
                BY <3>2, <2>1, <1>1, <1>8
            <4> QED
                BY <4>1, <1>6
        <3> QED
            BY <3>1, <3>2
    <2> QED
        BY <1>4, <2>1, <2>2, <2>3
<1> QED
    BY <1>1, <1>7, <1>8, <1>9, <1>10 DEF From

LEMMA SameNumbers ==
    ASSUME NEW w \in Seq(Nat), NEW u \in Seq(Nat), Len(w) = Len(u),
           \A i \in 1..Len(u) : w[i] = u[i]
    PROVE  w = u
OBVIOUS

StillIn(ticks) ==
    [i \in DOMAIN usage |->
        IF usage[i].age + ticks < Window THEN usage[i].tokens ELSE 0]

LEMMA StillInAreNumbers ==
    ASSUME TypeOK, NEW t \in Nat
    PROVE  /\ StillIn(t) \in Seq(Nat) /\ Len(StillIn(t)) = Len(usage)
           /\ \A i \in 1..Len(usage) :
                  StillIn(t)[i] = IF usage[i].age + t < Window
                                  THEN usage[i].tokens ELSE 0
<1>1. /\ DOMAIN usage = 1..Len(usage) /\ Len(usage) \in Nat
      /\ \A i \in 1..Len(usage) : usage[i].tokens \in Nat
    BY FieldsOfUsage
<1>2. StillIn(t) = [i \in 1..Len(usage) |->
                       IF usage[i].age + t < Window THEN usage[i].tokens ELSE 0]
    BY <1>1 DEF StillIn
<1> QED
    BY <1>1, <1>2

\* After the wait what makes room is out of the window; a tick before, it and
\* all younger entries are in it.
LEMMA WaitAgainIsExact ==
    ASSUME TypeOK, InOrder, NEW c \in Callers, WaitAgain(c)
    PROVE  /\ UsedIn(sleep'[c]) + needed[c] <= Limit
           /\ \A t \in 0 .. sleep'[c] - 1 : UsedIn(t) + needed[c] > Limit
<1>1. PICK k \in 0..Len(usage) :
          /\ Evicted = SubSeq(usage, k + 1, Len(usage))
          /\ \A i \in (k + 1)..Len(usage) : ~Expired(usage[i])
    BY EvictedAreExpired
<1> DEFINE n       == Len(usage) - k
           numbers == [i \in DOMAIN Evicted |-> Evicted[i].tokens]
           From(i) == Total(SubSeq(numbers, i, n))
<1>2. Len(usage) \in Nat /\ n \in Nat /\ k \in Nat /\ DOMAIN usage = 1..Len(usage)
    <2>1. Len(usage) \in Nat /\ DOMAIN usage = 1..Len(usage)
        BY FieldsOfUsage
    <2> QED
        BY <2>1
<1>3. /\ Evicted \in Seq(Entry) /\ Len(Evicted) = n /\ DOMAIN Evicted = 1..n
      /\ \A i \in 1..n : Evicted[i] = usage[k + i] /\ k + i \in DOMAIN usage
    BY <1>1, RestOfUsage
<1>4. /\ numbers \in Seq(Nat) /\ Len(numbers) = n
      /\ \A i \in 1..n : numbers[i] = usage[k + i].tokens
    <2>1. \A i \in 1..n : Evicted[i].tokens \in Nat
        BY <1>3, FieldsOfUsage
    <2> QED
        BY <1>2, <1>3, <2>1
<1>5. /\ needed[c] \in Nat /\ needed[c] <= Limit
      /\ SumTokens(Evicted) + needed[c] > Limit
      /\ sleep'[c] = SecondsUntilFree(Evicted, needed[c])
    BY DEF WaitAgain, TypeOK
<1>6. PICK i \in 1..n : /\ sleep'[c] = Window - Evicted[i].age
                        /\ From(i + 1) + needed[c] <= Limit
                        /\ From(i) + needed[c] > Limit
    BY <1>3, <1>5, FirstThatMakesRoom
<1> HIDE DEF numbers
<1> DEFINE age == usage[k + i].age
<1>7. /\ sleep'[c] = Window - age /\ age \in 0..Window /\ age < Window
      /\ k + i \in DOMAIN usage
    <2>1. k + i \in DOMAIN usage /\ Evicted[i] = usage[k + i]
        BY <1>3
    <2>2. ~Expired(usage[k + i])
        BY <1>1, <1>2, <2>1
    <2>3. age \in 0..Window
        BY <2>1, FieldsOfUsage
    <2> QED
        BY <1>6, <2>1, <2>2, <2>3 DEF Expired
<1>8. \A m \in DOMAIN usage : /\ usage[m].age \in Nat /\ usage[m].tokens \in Nat
                              /\ m <= k + i => usage[m].age >= age
                              /\ m >= k + i => usage[m].age <= age
    <2> SUFFICES ASSUME NEW m \in DOMAIN usage
                 PROVE  /\ usage[m].age \in Nat /\ usage[m].tokens \in Nat
                        /\ m <= k + i => usage[m].age >= age
                        /\ m >= k + i => usage[m].age <= age
        OBVIOUS
    <2>1. usage[m].age \in Nat /\ usage[m].tokens \in Nat
        BY FieldsOfUsage
    <2>2. m < k + i => usage[m].age >= age
        BY <1>7 DEF InOrder
    <2>3. m > k + i => age >= usage[m].age
        BY <1>7 DEF InOrder
    <2>4. m = k + i => usage[m].age = age
        OBVIOUS
    <2>5. m < k + i \/ m = k + i \/ m > k + i
        BY <1>2
    <2> HIDE DEF age
    <2> QED
        BY <1>2, <1>7, <2>1, <2>2, <2>3, <2>4, <2>5
<1>9. UsedIn(sleep'[c]) + needed[c] <= Limit
    <2> DEFINE ticks == Window - age
               w     == StillIn(ticks)
               u     == SubSeq(numbers, i + 1, n)
               place == [j \in 1..(n - i) |-> k + i + j]
    <2>1. ticks \in Nat
        BY <1>7
    <2>2. /\ w \in Seq(Nat) /\ Len(w) = Len(usage)
          /\ \A m \in 1..Len(usage) :
                 w[m] = IF usage[m].age + ticks < Window
                        THEN usage[m].tokens ELSE 0
        BY <2>1, StillInAreNumbers
    <2>3. /\ u \in Seq(Nat) /\ Len(u) = n - i
          /\ \A j \in 1..(n - i) : u[j] = numbers[i + j]
        <3> HIDE DEF n
        <3> QED
            BY <1>2, <1>4
    <2>4. \A j \in 1..(n - i) : /\ k + i + j \in 1..Len(usage)
                                /\ u[j] = usage[k + i + j].tokens
        <3> SUFFICES ASSUME NEW j \in 1..(n - i)
                     PROVE  /\ k + i + j \in 1..Len(usage)
                            /\ u[j] = usage[k + i + j].tokens
            OBVIOUS
        <3>1. i + j \in 1..n /\ k + (i + j) = k + i + j
            BY <1>2
        <3>2. numbers[i + j] = usage[k + i + j].tokens
            BY <3>1, <1>4
        <3> QED
            BY <3>1, <3>2, <1>2, <1>3, <2>3
    <2>5. /\ place \in [1..Len(u) -> 1..Len(w)]
          /\ \A j, l \in 1..Len(u) : j < l => place[j] < place[l]
        <3>1. \A j, l \in 1..(n - i) : j < l => k + i + j < k + i + l
            BY <1>2
        <3>2. place \in [1..(n - i) -> 1..Len(usage)]
            BY <2>4
        <3>3. \A j, l \in 1..(n - i) : j < l => place[j] < place[l]
            BY <3>1
        <3> HIDE DEF place, n, w, u
        <3> QED
            BY <2>2, <2>3, <3>2, <3>3
    <2>6. ASSUME NEW m \in 1..Len(w), w[m] # 0
          PROVE  \E j \in 1..Len(u) : place[j] = m
        <3>1. m \in DOMAIN usage /\ usage[m].age + ticks < Window
            BY <1>2, <2>2, <2>6
        <3>2. usage[m].age < age
            BY <3>1, <1>7, <1>8
        <3>3. ~(m <= k + i)
            BY <3>1, <3>2, <1>7, <1>8
        <3>4. m - k - i \in 1..(n - i) /\ k + i + (m - k - i) = m
            BY <3>1, <3>3, <1>2
        <3>5. place[m - k - i] = m
            BY <3>4
        <3> HIDE DEF place, n, u
        <3> QED
            BY <2>3, <3>4, <3>5
    <2>7. ASSUME NEW j \in 1..Len(u) PROVE w[place[j]] <= u[j]
        <3>1. j \in 1..(n - i)
            BY <2>3, <2>7
        <3>2. /\ place[j] = k + i + j /\ k + i + j \in 1..Len(usage)
              /\ u[j] = usage[k + i + j].tokens
            BY <3>1, <2>4
        <3>3. usage[k + i + j].tokens \in Nat
            BY <3>2, <1>2, <1>8
        <3> DEFINE m == k + i + j
        <3> HIDE DEF place, w, u, m
        <3>4. m \in 1..Len(usage) /\ usage[m].tokens \in Nat
              /\ place[j] = m /\ u[j] = usage[m].tokens
            BY <3>2, <3>3 DEF m
        <3>5. w[m] = usage[m].tokens \/ w[m] = 0
            BY <3>4, <2>2
        <3> QED
            BY <3>4, <3>5
    <2> HIDE DEF w, u, place
    <2>8. Total(w) <= Total(u) /\ Total(w) \in Nat /\ Total(u) \in Nat
        BY <2>2, <2>3, <2>5, <2>6, <2>7, TotalOfPlaced, TotalInNat
    <2>9. Total(w) + needed[c] <= Limit
        <3>1. Total(u) + needed[c] <= Limit
            BY <1>6 DEF u
        <3> QED
            BY <3>1, <2>8, <1>5
    <2> QED
        BY <2>9, <1>7 DEF UsedIn, StillIn, w
<1>10. ASSUME NEW t \in 0 .. sleep'[c] - 1 PROVE UsedIn(t) + needed[c] > Limit
    <2> DEFINE w     == StillIn(t)
               last  == Len(usage)
               first == SubSeq(w, 1, k + i - 1)
               rest  == SubSeq(w, k + i, last)
               u     == SubSeq(numbers, i, n)
    <2>1. t \in Nat /\ age + t < Window
        BY <1>7, <1>10
    <2>2. /\ w \in Seq(Nat) /\ Len(w) = last
          /\ \A m \in 1..last :
                 w[m] = IF usage[m].age + t < Window
                        THEN usage[m].tokens ELSE 0
        BY <2>1, StillInAreNumbers
    <2>3. k + i - 1 \in 0..last /\ (k + i - 1) + 1 = k + i /\ last \in Nat
        BY <1>2, <1>7
    <2>4. /\ u \in Seq(Nat) /\ Len(u) = n - i + 1
          /\ \A j \in 1..(n - i + 1) : u[j] = numbers[i + j - 1]
        <3> HIDE DEF n
        <3>1. i \in Nat /\ i <= n
            BY <1>2
        <3>2. u \in Seq(Nat) /\ Len(u) = n - i + 1
            BY <1>2, <1>4, <3>1
        <3>3. \A j \in 1..(n - i + 1) : u[j] = numbers[i + j - 1]
            BY <1>2, <1>4, <3>1
        <3> QED
            BY <3>2, <3>3
    <2> HIDE DEF w, u
    <2>5. /\ rest \in Seq(Nat) /\ Len(rest) = last - (k + i) + 1
          /\ \A j \in 1..(last - (k + i) + 1) : rest[j] = w[k + i + j - 1]
          /\ first \in Seq(Nat)
        <3> DEFINE a == k + i
        <3>1. a \in 1..last
            BY <1>2, <1>7
        <3> HIDE DEF a, last
        <3>2. /\ SubSeq(w, a, last) \in Seq(Nat)
              /\ Len(SubSeq(w, a, last)) = last - a + 1
              /\ \A j \in 1..(last - a + 1) :
                     SubSeq(w, a, last)[j] = w[a + j - 1]
              /\ SubSeq(w, 1, a - 1) \in Seq(Nat)
            BY <2>2, <2>3, <3>1
        <3> QED
            BY <3>2 DEF a
    <2>6. n - i + 1 = last - (k + i) + 1 /\ n - i + 1 \in Nat
        BY <1>2
    <2>7. ASSUME NEW j \in 1..(n - i + 1) PROVE rest[j] = u[j]
        <3> DEFINE m == k + i + j - 1
        <3>1. /\ m \in 1..last /\ m >= k + i
              /\ i + j - 1 \in 1..n /\ k + (i + j - 1) = m
            BY <1>2
        <3>2. usage[m].age <= age /\ usage[m].age \in Nat
            BY <3>1, <1>2, <1>8
        <3>3. w[m] = usage[m].tokens
            <4> HIDE DEF m, age, w
            <4>1. \A x, y \in Nat : x <= y /\ y + t < Window => x + t < Window
                BY <2>1, LimiterAssumption
            <4>2. usage[m].age + t < Window
                BY <4>1, <3>2, <2>1, <1>7
            <4> QED
                BY <4>2, <3>1, <2>2
        <3>4. numbers[i + j - 1] = usage[m].tokens
            BY <3>1, <1>4
        <3>5. rest[j] = w[m] /\ u[j] = numbers[i + j - 1]
            BY <2>4, <2>5, <2>6
        <3> QED
            BY <3>3, <3>4, <3>5
    <2> HIDE DEF rest, first
    <2>8. rest = u
        <3>1. Len(rest) = Len(u) /\ \A j \in 1..Len(u) : rest[j] = u[j]
            BY <2>4, <2>5, <2>6, <2>7
        <3>2. rest \in Seq(Nat) /\ u \in Seq(Nat)
            BY <2>4, <2>5
        <3> HIDE DEF n
        <3> QED
            BY <3>1, <3>2, SameNumbers
    <2>9. Total(w) = Total(first) + Total(rest)
        BY <2>2, <2>3, TotalOfParts DEF first, rest
    <2>10. /\ Total(w) \in Nat /\ Total(first) \in Nat /\ Total(u) \in Nat
           /\ Total(u) + needed[c] > Limit
        BY <2>2, <2>4, <2>5, <1>6, TotalInNat DEF u
    <2>11. Total(w) + needed[c] > Limit
        BY <2>8, <2>9, <2>10, <1>5
    <2> QED
        BY <2>11 DEF UsedIn, StillIn, w
<1> QED
    BY <1>9, <1>10

\* A caller that has to wait sleeps until the first tick at which its request
\* would fit, neither longer nor less.
THEOREM WaitsAreExact == Spec => WaitIsExact
<1>1. TypeOK /\ UsageInv =>
          \A c \in Callers : WaitAgain(c) =>
              /\ UsedIn(sleep'[c]) + needed[c] <= Limit
              /\ \A t \in 0 .. sleep'[c] - 1 : UsedIn(t) + needed[c] > Limit
    BY WaitAgainIsExact DEF UsageInv
<1> QED
    BY <1>1, UsageInvariant, PTL DEF WaitIsExact

=============================================================================
