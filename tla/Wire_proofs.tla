----------------------------- MODULE Wire_proofs -----------------------------
(***************************************************************************)
(* Theorems about the requests the adapters write.  The first part is      *)
(* about sequences: the prover knows nothing of concatenating, filtering   *)
(* and merging, so what is needed of them is proved by counting up.        *)
(***************************************************************************)
EXTENDS Wire, TLAPS, WellFoundedInduction, SequenceTheorems

\* A non-empty set of numbers has a least element.
LEMMA LeastNumber ==
    ASSUME NEW S, S \subseteq Nat, S # {}
    PROVE  \E x \in S : \A y \in S : x <= y
<1> DEFINE R == OpToRel(<, Nat)
<1>1. \E x \in S : \A y \in S : ~ (<<y, x>> \in R)
    BY NatLessThanWellFounded, WFMin
<1>2. \A x, y \in Nat : y < x => <<y, x>> \in R
    BY DEF OpToRel
<1> HIDE DEF R
<1>3. PICK x \in S : \A y \in S : ~ (<<y, x>> \in R)
    BY <1>1
<1>4. \A y \in S : ~ (y < x)
    BY <1>2, <1>3, Zenon
<1> QED
    BY <1>4

\* What holds of 0, and of a number's successor, holds up to any number.
LEMMA CountingUp ==
    ASSUME NEW last \in Nat, NEW S, 0 \in S,
           \A n \in Nat : n < last /\ n \in S => n + 1 \in S
    PROVE  \A n \in 0..last : n \in S
<1> DEFINE Bad == {n \in 0..last : n \notin S}
<1> SUFFICES ASSUME Bad # {} PROVE FALSE
    OBVIOUS
<1>1. PICK m \in Bad : \A x \in Bad : m <= x
    <2>1. Bad \subseteq Nat
        OBVIOUS
    <2> HIDE DEF Bad
    <2> QED
        BY <2>1, LeastNumber
<1>2. m \in Nat /\ m # 0 /\ m <= last /\ m \notin S
    BY <1>1
<1>3. m - 1 \in Nat /\ m - 1 < last /\ m - 1 \in 0..last
    BY <1>2
<1>4. m - 1 \in S
    BY <1>1, <1>2, <1>3
<1>5. (m - 1) + 1 \in S
    BY <1>3, <1>4
<1> QED
    BY <1>2, <1>5

\* What holds of the empty sequence, and of one with another element if it
\* holds without, holds of every sequence.
LEMMA Lengthening ==
    ASSUME NEW T, NEW S, <<>> \in S,
           \A s \in Seq(T), x \in T : s \in S => Append(s, x) \in S
    PROVE  \A s \in Seq(T) : s \in S
<1> SUFFICES ASSUME NEW s \in Seq(T) PROVE s \in S
    OBVIOUS
<1> DEFINE Good == {n \in 0..Len(s) : SubSeq(s, 1, n) \in S}
<1>1. 0 \in Good
    <2>1. SubSeq(s, 1, 0) = <<>> /\ 0 \in 0..Len(s)
        OBVIOUS
    <2> QED
        BY <2>1
<1>2. ASSUME NEW n \in Nat, n < Len(s), n \in Good
      PROVE  n + 1 \in Good
    <2>1. /\ SubSeq(s, 1, n) \in Seq(T) /\ s[n + 1] \in T
          /\ SubSeq(s, 1, n + 1) = Append(SubSeq(s, 1, n), s[n + 1])
          /\ n + 1 \in 0..Len(s)
        BY <1>2
    <2> QED
        BY <1>2, <2>1
<1>3. Len(s) \in Nat /\ Len(s) \in 0..Len(s) /\ SubSeq(s, 1, Len(s)) = s
    OBVIOUS
<1>4. Len(s) \in Good
    <2> HIDE DEF Good
    <2> QED
        BY <1>1, <1>2, <1>3, CountingUp
<1> QED
    BY <1>3, <1>4

\* A function may be defined by what follows each of its values.
Steps(f, last, V, base, step) ==
    /\ f \in [0..last -> V]
    /\ f[0] = base
    /\ \A n \in 1..last : f[n] = step[n][f[n - 1]]

LEMMA StepByStep ==
    ASSUME NEW last \in Nat, NEW V, NEW base \in V,
           NEW step \in [1..last -> [V -> V]]
    PROVE  \E f : Steps(f, last, V, base, step)
<1> DEFINE Upto(f, n) ==
               /\ f \in [0..n -> V]
               /\ f[0] = base
               /\ \A i \in 1..n : f[i] = step[i][f[i - 1]]
           Good == {n \in 0..last : \E f : Upto(f, n)}
<1>1. 0 \in Good
    <2>1. Upto([i \in 0..0 |-> base], 0)
        OBVIOUS
    <2>2. \E f : Upto(f, 0)
        BY <2>1
    <2>3. 0 \in 0..last
        OBVIOUS
    <2> QED
        BY <2>2, <2>3
<1>2. ASSUME NEW n \in Nat, n < last, n \in Good
      PROVE  n + 1 \in Good
    <2>1. PICK f : Upto(f, n)
        BY <1>2
    <2> DEFINE next == step[n + 1][f[n]]
               g == [i \in 0..(n + 1) |-> IF i = n + 1 THEN next ELSE f[i]]
    <2>2. n + 1 \in 1..last /\ f[n] \in V
        BY <2>1, <1>2
    <2>3. next \in V
        BY <2>2
    <2>4. g \in [0..(n + 1) -> V]
        BY <2>1, <2>3
    <2>5. g[0] = base
        BY <2>1
    <2>6. ASSUME NEW i \in 1..(n + 1) PROVE g[i] = step[i][g[i - 1]]
        <3>1. CASE i = n + 1
            <4>1. g[i] = next /\ g[i - 1] = f[n]
                BY <3>1
            <4> QED
                BY <3>1, <4>1
        <3>2. CASE i # n + 1
            <4>1. i \in 1..n /\ g[i] = f[i] /\ g[i - 1] = f[i - 1]
                BY <3>2
            <4> QED
                BY <2>1, <4>1
        <3> QED
            BY <3>1, <3>2
    <2>7. Upto(g, n + 1)
        BY <2>4, <2>5, <2>6
    <2> HIDE DEF g
    <2> QED
        BY <2>2, <2>7
<1>3. last \in Good
    <2>1. last \in 0..last
        OBVIOUS
    <2> HIDE DEF Good
    <2> QED
        BY <1>1, <1>2, <2>1, CountingUp
<1>4. PICK f : Upto(f, last)
    BY <1>3
<1>5. Steps(f, last, V, base, step)
    BY <1>4 DEF Steps
<1> QED
    BY <1>5

-----------------------------------------------------------------------------
(***************************************************************************)
(* Concatenation.                                                          *)
(***************************************************************************)

\* The concatenations of the first sequences, of which Concat is the last.
AreParts(f, seqs, T) ==
    /\ f \in [0..Len(seqs) -> Seq(T)]
    /\ f[0] = <<>>
    /\ \A n \in 1..Len(seqs) : f[n] = f[n - 1] \o seqs[n]
    /\ f[Len(seqs)] = Concat(seqs)

LEMMA PartsExist ==
    ASSUME NEW T, NEW seqs \in Seq(Seq(T))
    PROVE  \E f : AreParts(f, seqs, T)
<1> DEFINE last == Len(seqs)
           V == Seq(T)
           Upto(f) == f = [n \in 0..last |->
                             IF n = 0 THEN <<>> ELSE f[n - 1] \o seqs[n]]
           step == [n \in 1..last |-> [s \in V |-> s \o seqs[n]]]
<1>1. last \in Nat /\ \A n \in 1..last : seqs[n] \in V
    OBVIOUS
<1>2. <<>> \in V /\ \A s, t \in V : s \o t \in V
    BY EmptySeq, ConcatProperties
<1> HIDE DEF V, last
<1>3. step \in [1..last -> [V -> V]]
    BY <1>1, <1>2
<1>4. PICK h : Steps(h, last, V, <<>>, step)
    <2> HIDE DEF step
    <2>1. last \in Nat /\ <<>> \in V
        BY <1>1, <1>2
    <2> QED
        BY <1>3, <2>1, StepByStep
<1>5. ASSUME NEW n \in 1..last PROVE h[n] = h[n - 1] \o seqs[n]
    <2>1. n - 1 \in 0..last
        BY <1>1
    <2>2. h[n - 1] \in V
        BY <2>1, <1>4 DEF Steps
    <2>3. step[n][h[n - 1]] = h[n - 1] \o seqs[n]
        BY <2>2
    <2> QED
        BY <2>3, <1>4 DEF Steps
<1>6. Upto(h)
    <2>1. ASSUME NEW n \in 0..last, n # 0 PROVE n \in 1..last
        BY <1>1, <2>1
    <2>2. \A n \in 0..last :
              h[n] = IF n = 0 THEN <<>> ELSE h[n - 1] \o seqs[n]
        BY <1>4, <1>5, <2>1 DEF Steps
    <2>3. h = [n \in 0..last |-> h[n]]
        BY <1>4 DEF Steps
    <2> QED
        BY <2>2, <2>3
<1> DEFINE f == CHOOSE f : Upto(f)
<1>7. Upto(f) /\ Concat(seqs) = f[last]
    <2>1. Upto(f)
        BY <1>6
    <2> QED
        BY <2>1 DEF Concat, last
<1> HIDE DEF f
<1>8. f[0] = <<>> /\ \A n \in 1..last : f[n] = f[n - 1] \o seqs[n]
    <2>1. \A n \in 0..last :
              f[n] = IF n = 0 THEN <<>> ELSE f[n - 1] \o seqs[n]
        BY <1>7
    <2>2. 0 \in 0..last /\ \A n \in 1..last : n \in 0..last /\ n # 0
        BY <1>1
    <2> QED
        BY <2>1, <2>2
<1>9. \A n \in 0..last : f[n] = h[n]
    <2> DEFINE Same == {n \in 0..last : f[n] = h[n]}
    <2>1. 0 \in Same
        BY <1>1, <1>4, <1>8 DEF Steps
    <2>2. ASSUME NEW n \in Nat, n < last, n \in Same PROVE n + 1 \in Same
        <3>1. n + 1 \in 1..last /\ (n + 1) - 1 = n /\ n + 1 \in 0..last
            BY <1>1, <2>2
        <3>2. f[n + 1] = f[n] \o seqs[n + 1] /\ h[n + 1] = h[n] \o seqs[n + 1]
            BY <3>1, <1>5, <1>8
        <3> QED
            BY <3>1, <3>2, <2>2
    <2> HIDE DEF Same
    <2>3. \A n \in 0..last : n \in Same
        BY <1>1, <2>1, <2>2, CountingUp
    <2> QED
        BY <2>3 DEF Same
<1>10. f \in [0..last -> V]
    BY <1>4, <1>7, <1>9 DEF Steps
<1> QED
    BY <1>7, <1>8, <1>10 DEF AreParts, last, V

LEMMA ConcatType ==
    ASSUME NEW T, NEW seqs \in Seq(Seq(T))
    PROVE  Concat(seqs) \in Seq(T)
<1>1. Len(seqs) \in 0..Len(seqs)
    OBVIOUS
<1>2. PICK f : AreParts(f, seqs, T)
    BY PartsExist
<1> QED
    BY <1>1, <1>2 DEF AreParts

LEMMA ConcatOfNone == Concat(<<>>) = <<>>
<1>1. <<>> \in Seq(Seq({})) /\ Len(<<>>) = 0
    OBVIOUS
<1>2. PICK f : AreParts(f, <<>>, {})
    BY <1>1, PartsExist
<1> QED
    BY <1>1, <1>2 DEF AreParts

LEMMA ConcatOfAppend ==
    ASSUME NEW T, NEW seqs \in Seq(Seq(T)), NEW s \in Seq(T)
    PROVE  Concat(Append(seqs, s)) = Concat(seqs) \o s
<1> DEFINE more == Append(seqs, s)
           last == Len(seqs)
<1>1. /\ more \in Seq(Seq(T)) /\ last \in Nat /\ Len(more) = last + 1
      /\ more[last + 1] = s /\ \A n \in 1..last : more[n] = seqs[n]
    OBVIOUS
<1>2. PICK f : AreParts(f, seqs, T)
    BY PartsExist
<1> HIDE DEF more
<1>3. PICK g : AreParts(g, more, T)
    BY <1>1, PartsExist
<1>4. /\ f[0] = <<>> /\ g[0] = <<>>
      /\ \A n \in 1..last : f[n] = f[n - 1] \o seqs[n]
      /\ \A n \in 1..(last + 1) : g[n] = g[n - 1] \o more[n]
      /\ f[last] = Concat(seqs) /\ g[last + 1] = Concat(more)
    BY <1>1, <1>2, <1>3 DEF AreParts
<1> HIDE DEF last
<1> DEFINE Same == {n \in 0..last : f[n] = g[n]}
<1>5. 0 \in Same
    BY <1>1, <1>4
<1>6. ASSUME NEW n \in Nat, n < last, n \in Same PROVE n + 1 \in Same
    <2>1. /\ n + 1 \in 1..last /\ n + 1 \in 1..(last + 1)
          /\ (n + 1) - 1 = n /\ n + 1 \in 0..last
        BY <1>1, <1>6
    <2>2. f[n + 1] = f[n] \o seqs[n + 1] /\ g[n + 1] = g[n] \o more[n + 1]
        BY <1>4, <2>1
    <2>3. more[n + 1] = seqs[n + 1] /\ f[n] = g[n]
        BY <1>1, <1>6, <2>1
    <2> QED
        BY <2>1, <2>2, <2>3
<1>7. last \in Same
    <2>1. last \in 0..last
        BY <1>1
    <2> HIDE DEF Same
    <2> QED
        BY <1>1, <1>5, <1>6, <2>1, CountingUp
<1>8. g[last + 1] = g[last] \o s
    <2>1. last + 1 \in 1..(last + 1) /\ (last + 1) - 1 = last
        BY <1>1
    <2> QED
        BY <1>1, <1>4, <2>1
<1>9. f[last] = g[last]
    BY <1>7
<1> QED
    BY <1>4, <1>8, <1>9 DEF more

-----------------------------------------------------------------------------
(***************************************************************************)
(* Writing each element of a sequence as a sequence, and joining these:    *)
(* filters, the blocks of messages and the adapters are all of this form.  *)
(***************************************************************************)

Each(s, f) == [i \in DOMAIN s |-> f[s[i]]]

Joined(s, f) == Concat(Each(s, f))

LEMMA EachType ==
    ASSUME NEW T, NEW U, NEW s \in Seq(T), NEW f, \A y \in T : f[y] \in U
    PROVE  /\ Each(s, f) \in Seq(U) /\ Len(Each(s, f)) = Len(s)
           /\ \A i \in 1..Len(s) : Each(s, f)[i] = f[s[i]]
<1>1. Each(s, f) = [i \in 1..Len(s) |-> f[s[i]]]
    BY DEF Each
<1>2. \A i \in 1..Len(s) : f[s[i]] \in U
    OBVIOUS
<1> QED
    BY <1>1, <1>2

LEMMA EachOfAppend ==
    ASSUME NEW T, NEW s \in Seq(T), NEW x \in T, NEW f
    PROVE  Each(Append(s, x), f) = Append(Each(s, f), f[x])
<1> DEFINE U == {f[y] : y \in T}
           long == Append(s, x)
           left == Each(long, f)
           right == Append(Each(s, f), f[x])
<1>1. /\ long \in Seq(T) /\ Len(long) = Len(s) + 1 /\ long[Len(s) + 1] = x
      /\ \A i \in 1..Len(s) : long[i] = s[i]
    BY AppendProperties
<1> HIDE DEF long
<1>2. /\ left \in Seq(U) /\ Len(left) = Len(s) + 1
      /\ \A i \in 1..(Len(s) + 1) : left[i] = f[long[i]]
    <2>1. \A y \in T : f[y] \in U
        OBVIOUS
    <2> HIDE DEF U
    <2> QED
        BY <1>1, <2>1, EachType
<1>3. /\ Each(s, f) \in Seq(U) /\ Len(Each(s, f)) = Len(s) /\ f[x] \in U
      /\ \A i \in 1..Len(s) : Each(s, f)[i] = f[s[i]]
    <2>1. f[x] \in U /\ \A y \in T : f[y] \in U
        OBVIOUS
    <2> HIDE DEF U, left, right
    <2>2. \A y \in T : f[y] \in U
        BY <2>1
    <2>3. Each(s, f) \in Seq(U) /\ Len(Each(s, f)) = Len(s)
        BY <2>2, EachType
    <2>4. \A i \in 1..Len(s) : Each(s, f)[i] = f[s[i]]
        BY DEF Each
    <2> QED
        BY <2>1, <2>3, <2>4
<1>4. /\ right \in Seq(U) /\ Len(right) = Len(s) + 1
      /\ right[Len(s) + 1] = f[x]
      /\ \A i \in 1..Len(s) : right[i] = f[s[i]]
    BY <1>3, AppendProperties
<1> HIDE DEF left, right
<1>5. ASSUME NEW i \in 1..(Len(s) + 1) PROVE left[i] = right[i]
    <2>1. Len(s) \in Nat
        OBVIOUS
    <2>2. i = Len(s) + 1 \/ i \in 1..Len(s)
        BY <2>1
    <2> QED
        BY <1>1, <1>2, <1>4, <2>2
<1>6. left = right
    BY <1>2, <1>4, <1>5, SeqEqual
<1> QED
    BY <1>6 DEF left, right, long

LEMMA EachOfNone ==
    ASSUME NEW f
    PROVE  Each(<<>>, f) = <<>>
BY DEF Each

LEMMA JoinedOfNone ==
    ASSUME NEW f
    PROVE  Joined(<<>>, f) = <<>>
BY EachOfNone, ConcatOfNone DEF Joined

LEMMA JoinedType ==
    ASSUME NEW T, NEW U, NEW s \in Seq(T), NEW f \in [T -> Seq(U)]
    PROVE  Joined(s, f) \in Seq(U)
BY EachType, ConcatType DEF Joined

LEMMA JoinedOfAppend ==
    ASSUME NEW T, NEW U, NEW s \in Seq(T), NEW x \in T,
           NEW f \in [T -> Seq(U)]
    PROVE  Joined(Append(s, x), f) = Joined(s, f) \o f[x]
<1> DEFINE V == Seq(U)
<1>1. Each(Append(s, x), f) = Append(Each(s, f), f[x])
    BY EachOfAppend
<1>2. Each(s, f) \in Seq(Seq(U)) /\ f[x] \in Seq(U)
    <2>1. f[x] \in V /\ \A y \in T : f[y] \in V
        OBVIOUS
    <2> HIDE DEF V
    <2>2. Each(s, f) \in Seq(V)
        BY <2>1, EachType
    <2> QED
        BY <2>1, <2>2 DEF V
<1> QED
    BY <1>1, <1>2, ConcatOfAppend DEF Joined

LEMMA AppendToConcat ==
    ASSUME NEW T, NEW s \in Seq(T), NEW t \in Seq(T), NEW x \in T
    PROVE  /\ s \o Append(t, x) = Append(s \o t, x)
           /\ s \o <<x>> = Append(s, x)
<1>1. Append(t, x) = t \o <<x>> /\ <<x>> \in Seq(T)
    BY AppendIsConcat
<1>2. s \o t \in Seq(T)
    BY ConcatProperties
<1>3. Append(s \o t, x) = (s \o t) \o <<x>> /\ Append(s, x) = s \o <<x>>
    BY <1>2, AppendIsConcat
<1> QED
    BY <1>1, <1>3, ConcatAssociative

LEMMA JoinedOfConcat ==
    ASSUME NEW T, NEW U, NEW s \in Seq(T), NEW t \in Seq(T),
           NEW f \in [T -> Seq(U)]
    PROVE  Joined(s \o t, f) = Joined(s, f) \o Joined(t, f)
<1> DEFINE S == {u \in Seq(T) : Joined(s \o u, f) = Joined(s, f) \o Joined(u, f)}
<1>1. <<>> \in S
    <2>1. s \o <<>> = s /\ <<>> \in Seq(T)
        BY ConcatEmptySeq
    <2>2. Joined(s, f) \o <<>> = Joined(s, f)
        BY JoinedType, ConcatEmptySeq
    <2> QED
        BY <2>1, <2>2, JoinedOfNone
<1>2. ASSUME NEW u \in Seq(T), NEW x \in T, u \in S
      PROVE  Append(u, x) \in S
    <2>1. s \o Append(u, x) = Append(s \o u, x)
        BY AppendToConcat
    <2>2. s \o u \in Seq(T) /\ Append(u, x) \in Seq(T)
        BY ConcatProperties, AppendProperties
    <2>3. Joined(Append(s \o u, x), f) = Joined(s \o u, f) \o f[x]
        <3> DEFINE w == s \o u
        <3>1. w \in Seq(T)
            BY <2>2
        <3> HIDE DEF w
        <3>2. Joined(Append(w, x), f) = Joined(w, f) \o f[x]
            BY <3>1, JoinedOfAppend, SMTT(60)
        <3> QED
            BY <3>2 DEF w
    <2>4. Joined(Append(u, x), f) = Joined(u, f) \o f[x]
        BY JoinedOfAppend
    <2>5. (Joined(s, f) \o Joined(u, f)) \o f[x]
              = Joined(s, f) \o (Joined(u, f) \o f[x])
        <3>1. /\ Joined(s, f) \in Seq(U) /\ Joined(u, f) \in Seq(U)
              /\ f[x] \in Seq(U)
            BY JoinedType
        <3> QED
            BY <3>1, ConcatAssociative, SMTT(60)
    <2>6. Joined(s \o u, f) = Joined(s, f) \o Joined(u, f)
        BY <1>2
    <2> QED
        BY <2>1, <2>2, <2>3, <2>4, <2>5, <2>6
<1> HIDE DEF S
<1>3. t \in S
    BY <1>1, <1>2, Lengthening
<1> QED
    BY <1>3 DEF S

LEMMA EachOfConcat ==
    ASSUME NEW T, NEW s \in Seq(T), NEW t \in Seq(T), NEW f
    PROVE  Each(s \o t, f) = Each(s, f) \o Each(t, f)
<1> DEFINE S == {u \in Seq(T) : Each(s \o u, f) = Each(s, f) \o Each(u, f)}
           U == {f[y] : y \in T}
<1>1. /\ \A y \in T : f[y] \in U
      /\ \A u \in Seq(T) : Each(u, f) \in Seq(U)
    <2>1. \A y \in T : f[y] \in U
        OBVIOUS
    <2> HIDE DEF U
    <2> QED
        BY <2>1, EachType
<1> HIDE DEF U
<1>2. <<>> \in S
    <2>1. s \o <<>> = s /\ <<>> \in Seq(T)
        BY ConcatEmptySeq
    <2>2. Each(s, f) \o <<>> = Each(s, f)
        BY <1>1, ConcatEmptySeq
    <2> QED
        BY <2>1, <2>2, EachOfNone
<1>3. ASSUME NEW u \in Seq(T), NEW x \in T, u \in S
      PROVE  Append(u, x) \in S
    <2> DEFINE w == s \o u
    <2>1. w \in Seq(T) /\ Append(u, x) \in Seq(T)
        BY ConcatProperties, AppendProperties
    <2>2. s \o Append(u, x) = Append(w, x)
        BY AppendToConcat
    <2>3. Each(w, f) = Each(s, f) \o Each(u, f)
        BY <1>3
    <2> HIDE DEF w
    <2>4. Each(Append(w, x), f) = Append(Each(w, f), f[x])
        BY <2>1, EachOfAppend
    <2>5. Each(Append(u, x), f) = Append(Each(u, f), f[x])
        BY EachOfAppend
    <2>6. Each(s, f) \o Append(Each(u, f), f[x])
              = Append(Each(s, f) \o Each(u, f), f[x])
        <3>1. Each(s, f) \in Seq(U) /\ Each(u, f) \in Seq(U) /\ f[x] \in U
            BY <1>1
        <3> QED
            BY <3>1, AppendToConcat
    <2> QED
        BY <2>1, <2>2, <2>3, <2>4, <2>5, <2>6
<1> HIDE DEF S
<1>4. t \in S
    BY <1>2, <1>3, Lengthening
<1> QED
    BY <1>4 DEF S

\* Filters.
Pick(x, S) == IF x \in S THEN <<x>> ELSE <<>>

LEMMA PickType ==
    ASSUME NEW T, NEW x \in T, NEW S
    PROVE  Pick(x, S) \in Seq(T) /\ Pick(x, S) \in Seq(S)
BY DEF Pick

LEMMA ThoseJoined ==
    ASSUME NEW T, NEW s \in Seq(T), NEW S
    PROVE  Those(s, S) = Joined(s, [x \in T |-> Pick(x, S)])
<1> DEFINE f == [x \in T |-> Pick(x, S)]
           g == [i \in DOMAIN s |-> IF s[i] \in S THEN <<s[i]>> ELSE <<>>]
<1>1. \A i \in DOMAIN s : s[i] \in T
    OBVIOUS
<1>2. \A i \in DOMAIN s : g[i] = f[s[i]]
    BY <1>1 DEF Pick
<1>3. Each(s, f) = g
    BY <1>2 DEF Each
<1> QED
    BY <1>3 DEF Those, Joined

LEMMA ThoseOfNone == ASSUME NEW S PROVE Those(<<>>, S) = <<>>
<1>1. <<>> \in Seq({})
    OBVIOUS
<1> QED
    BY <1>1, ThoseJoined, JoinedOfNone

LEMMA ThoseOfAppend ==
    ASSUME NEW T, NEW s \in Seq(T), NEW x \in T, NEW S
    PROVE  Those(Append(s, x), S) = Those(s, S) \o Pick(x, S)
<1> DEFINE f == [y \in T |-> Pick(y, S)]
           w == Append(s, x)
<1>1. f \in [T -> Seq(T)] /\ f[x] = Pick(x, S)
    BY PickType
<1>2. w \in Seq(T)
    BY AppendProperties
<1>3. Those(s, S) = Joined(s, f)
    BY ThoseJoined
<1>4. Those(w, S) = Joined(w, f)
    <2> HIDE DEF w
    <2> QED
        BY <1>2, ThoseJoined
<1>5. Joined(w, f) = Joined(s, f) \o f[x]
    <2> HIDE DEF f
    <2> QED
        BY <1>1, JoinedOfAppend
<1> QED
    BY <1>1, <1>3, <1>4, <1>5

LEMMA ThoseType ==
    ASSUME NEW T, NEW s \in Seq(T), NEW S
    PROVE  Those(s, S) \in Seq(T) /\ Those(s, S) \in Seq(S)
<1> DEFINE f == [x \in T |-> Pick(x, S)]
<1>1. f \in [T -> Seq(T)] /\ f \in [T -> Seq(S)]
    BY PickType
<1>2. Those(s, S) = Joined(s, f)
    BY ThoseJoined
<1> HIDE DEF f
<1>3. Joined(s, f) \in Seq(T) /\ Joined(s, f) \in Seq(S)
    BY <1>1, JoinedType
<1> QED
    BY <1>2, <1>3

LEMMA ThoseOfConcat ==
    ASSUME NEW T, NEW s \in Seq(T), NEW t \in Seq(T), NEW S
    PROVE  Those(s \o t, S) = Those(s, S) \o Those(t, S)
<1> DEFINE f == [x \in T |-> Pick(x, S)]
           w == s \o t
<1>1. f \in [T -> Seq(T)] /\ w \in Seq(T)
    BY PickType, ConcatProperties
<1>2. Those(s, S) = Joined(s, f) /\ Those(t, S) = Joined(t, f)
    BY ThoseJoined
<1>3. Those(w, S) = Joined(w, f)
    <2> HIDE DEF w
    <2> QED
        BY <1>1, ThoseJoined
<1>4. Joined(w, f) = Joined(s, f) \o Joined(t, f)
    <2> HIDE DEF f
    <2> QED
        BY <1>1, JoinedOfConcat
<1> QED
    BY <1>2, <1>3, <1>4

\* A filter that everything passes, and one that nothing does.
LEMMA ThoseAreAll ==
    ASSUME NEW T, NEW s \in Seq(T), NEW S, T \subseteq S
    PROVE  Those(s, S) = s
<1> DEFINE Good == {u \in Seq(T) : Those(u, S) = u}
<1>1. <<>> \in Good
    BY ThoseOfNone, EmptySeq
<1>2. ASSUME NEW u \in Seq(T), NEW x \in T, u \in Good
      PROVE  Append(u, x) \in Good
    <2>1. Those(Append(u, x), S) = Those(u, S) \o Pick(x, S)
        BY ThoseOfAppend
    <2>2. Pick(x, S) = <<x>> /\ Those(u, S) = u
        BY <1>2 DEF Pick
    <2>3. u \o <<x>> = Append(u, x) /\ Append(u, x) \in Seq(T)
        BY AppendToConcat, AppendProperties
    <2> QED
        BY <2>1, <2>2, <2>3
<1> HIDE DEF Good
<1>3. s \in Good
    BY <1>1, <1>2, Lengthening
<1> QED
    BY <1>3 DEF Good

LEMMA ThoseAreNone ==
    ASSUME NEW T, NEW s \in Seq(T), NEW S, T \cap S = {}
    PROVE  Those(s, S) = <<>>
<1> DEFINE Good == {u \in Seq(T) : Those(u, S) = <<>>}
<1>1. <<>> \in Good
    BY ThoseOfNone, EmptySeq
<1>2. ASSUME NEW u \in Seq(T), NEW x \in T, u \in Good
      PROVE  Append(u, x) \in Good
    <2>1. Those(Append(u, x), S) = Those(u, S) \o Pick(x, S)
        BY ThoseOfAppend
    <2>2. Pick(x, S) = <<>> /\ Those(u, S) = <<>>
        BY <1>2 DEF Pick
    <2>3. <<>> \o <<>> = <<>> /\ Append(u, x) \in Seq(T)
        BY ConcatEmptySeq, EmptySeq, AppendProperties
    <2> QED
        BY <2>1, <2>2, <2>3
<1> HIDE DEF Good
<1>3. s \in Good
    BY <1>1, <1>2, Lengthening
<1> QED
    BY <1>3 DEF Good

\* Filtering what a function makes of a sequence.
LEMMA ThoseOfEach ==
    ASSUME NEW T, NEW s \in Seq(T), NEW f, NEW S, NEW R,
           \A x \in T : f[x] \in S <=> x \in R
    PROVE  Those(Each(s, f), S) = Each(Those(s, R), f)
<1> DEFINE Good == {u \in Seq(T) : Those(Each(u, f), S) = Each(Those(u, R), f)}
           U == {f[y] : y \in T}
<1>1. \A y \in T : f[y] \in U
    OBVIOUS
<1> HIDE DEF U
<1>2. <<>> \in Good
    BY ThoseOfNone, EachOfNone, EmptySeq
<1>3. ASSUME NEW u \in Seq(T), NEW x \in T, u \in Good
      PROVE  Append(u, x) \in Good
    <2>1. Append(u, x) \in Seq(T) /\ Each(u, f) \in Seq(U) /\ f[x] \in U
        BY <1>1, AppendProperties, EachType
    <2>2. Each(Append(u, x), f) = Append(Each(u, f), f[x])
        BY EachOfAppend
    <2>3. Those(Append(Each(u, f), f[x]), S)
              = Those(Each(u, f), S) \o Pick(f[x], S)
        <3> DEFINE v == Each(u, f)
                   y == f[x]
        <3>1. v \in Seq(U) /\ y \in U
            BY <2>1
        <3> HIDE DEF v, y
        <3>2. Those(Append(v, y), S) = Those(v, S) \o Pick(y, S)
            BY <3>1, ThoseOfAppend
        <3> QED
            BY <3>2 DEF v, y
    <2>4. Those(Append(u, x), R) = Those(u, R) \o Pick(x, R)
        BY ThoseOfAppend
    <2>5. Each(Those(u, R) \o Pick(x, R), f)
              = Each(Those(u, R), f) \o Each(Pick(x, R), f)
        <3>1. Those(u, R) \in Seq(T) /\ Pick(x, R) \in Seq(T)
            BY ThoseType, PickType
        <3> QED
            BY <3>1, EachOfConcat
    <2>6. Each(Pick(x, R), f) = Pick(f[x], S)
        <3>1. CASE x \in R
            <4>1. Pick(x, R) = <<x>> /\ Pick(f[x], S) = <<f[x]>>
                BY <3>1, <1>3 DEF Pick
            <4>2. Each(<<x>>, f) = <<f[x]>>
                BY DEF Each
            <4> QED
                BY <4>1, <4>2
        <3>2. CASE x \notin R
            <4>1. Pick(x, R) = <<>> /\ Pick(f[x], S) = <<>>
                BY <3>2, <1>3 DEF Pick
            <4> QED
                BY <4>1, EachOfNone
        <3> QED
            BY <3>1, <3>2
    <2>7. Those(Each(u, f), S) = Each(Those(u, R), f)
        BY <1>3
    <2> QED
        BY <2>1, <2>2, <2>3, <2>4, <2>5, <2>6, <2>7
<1> HIDE DEF Good
<1>4. s \in Good
    BY <1>2, <1>3, Lengthening
<1> QED
    BY <1>4 DEF Good

\* Filtering twice.
LEMMA ThoseOfThose ==
    ASSUME NEW T, NEW s \in Seq(T), NEW S, NEW R, NEW Q,
           \A x \in T : x \in Q <=> x \in S /\ x \in R
    PROVE  Those(Those(s, S), R) = Those(s, Q)
<1> DEFINE Good == {u \in Seq(T) : Those(Those(u, S), R) = Those(u, Q)}
<1>1. <<>> \in Good
    BY ThoseOfNone, EmptySeq
<1>2. ASSUME NEW u \in Seq(T), NEW x \in T, u \in Good
      PROVE  Append(u, x) \in Good
    <2>1. /\ Those(Append(u, x), S) = Those(u, S) \o Pick(x, S)
          /\ Those(Append(u, x), Q) = Those(u, Q) \o Pick(x, Q)
        BY ThoseOfAppend
    <2>2. Those(u, S) \in Seq(T) /\ Pick(x, S) \in Seq(T)
        BY ThoseType, PickType
    <2>3. Those(Those(u, S) \o Pick(x, S), R)
              = Those(Those(u, S), R) \o Those(Pick(x, S), R)
        <3> DEFINE v == Those(u, S)
                   y == Pick(x, S)
        <3>1. v \in Seq(T) /\ y \in Seq(T)
            BY <2>2
        <3> HIDE DEF v, y
        <3>2. Those(v \o y, R) = Those(v, R) \o Those(y, R)
            BY <3>1, ThoseOfConcat
        <3> QED
            BY <3>2 DEF v, y
    <2>4. Those(Pick(x, S), R) = Pick(x, Q)
        <3>1. CASE x \in S
            <4>1. Pick(x, S) = Append(<<>>, x) /\ <<>> \in Seq(T)
                BY <3>1, EmptySeq DEF Pick
            <4>2. Those(Append(<<>>, x), R) = Those(<<>>, R) \o Pick(x, R)
                BY <4>1, ThoseOfAppend
            <4>3. Pick(x, R) \in Seq(T) /\ Pick(x, R) = Pick(x, Q)
                BY <3>1, <1>2, PickType DEF Pick
            <4>4. <<>> \o Pick(x, R) = Pick(x, R)
                BY <4>3, ConcatEmptySeq
            <4> QED
                BY <4>1, <4>2, <4>3, <4>4, ThoseOfNone
        <3>2. CASE x \notin S
            <4>1. Pick(x, S) = <<>> /\ Pick(x, Q) = <<>>
                BY <3>2 DEF Pick
            <4> QED
                BY <4>1, ThoseOfNone
        <3> QED
            BY <3>1, <3>2
    <2>5. Append(u, x) \in Seq(T) /\ Those(Those(u, S), R) = Those(u, Q)
        BY <1>2, AppendProperties
    <2> QED
        BY <2>1, <2>3, <2>4, <2>5
<1> HIDE DEF Good
<1>3. s \in Good
    BY <1>1, <1>2, Lengthening
<1> QED
    BY <1>3 DEF Good

LEMMA EachOfEach ==
    ASSUME NEW T, NEW s \in Seq(T), NEW f, NEW g, NEW h,
           \A x \in T : g[f[x]] = h[x]
    PROVE  Each(Each(s, f), g) = Each(s, h)
<1>1. \A i \in DOMAIN s : s[i] \in T
    OBVIOUS
<1>2. DOMAIN Each(s, f) = DOMAIN s /\ \A i \in DOMAIN s : Each(s, f)[i] = f[s[i]]
    BY DEF Each
<1>3. Each(Each(s, f), g) = [i \in DOMAIN s |-> g[Each(s, f)[i]]]
    BY <1>2 DEF Each
<1>4. \A i \in DOMAIN s : g[Each(s, f)[i]] = h[s[i]]
    BY <1>1, <1>2
<1> QED
    BY <1>3, <1>4 DEF Each

LEMMA EachIsSame ==
    ASSUME NEW T, NEW s \in Seq(T), NEW f, \A x \in T : f[x] = x
    PROVE  Each(s, f) = s
<1>1. \A i \in DOMAIN s : f[s[i]] = s[i]
    OBVIOUS
<1>2. s = [i \in DOMAIN s |-> s[i]]
    <2>1. s \in [1..Len(s) -> T]
        OBVIOUS
    <2> QED
        BY <2>1
<1> QED
    BY <1>1, <1>2 DEF Each

-----------------------------------------------------------------------------
(***************************************************************************)
(* Merging.                                                                *)
(***************************************************************************)

WireItems == [role : {"user", "assistant", "tool"}, content : Seq(Block)]

LEMMA ItemType ==
    ASSUME NEW role \in {"user", "assistant", "tool"},
           NEW content \in Seq(Block)
    PROVE  /\ Item(role, content) \in WireItems
           /\ Item(role, content).role = role
           /\ Item(role, content).content = content
BY DEF Item, WireItems

LEMMA LastAndFront ==
    ASSUME NEW T, NEW s \in Seq(T), s # <<>>
    PROVE  /\ Len(s) \in Nat \ {0} /\ Last(s) = s[Len(s)] /\ Last(s) \in T
           /\ Front(s) \in Seq(T) /\ Len(Front(s)) = Len(s) - 1
           /\ \A i \in 1..(Len(s) - 1) : Front(s)[i] = s[i]
           /\ s = Append(Front(s), Last(s))
<1>1. Len(s) \in Nat \ {0}
    BY EmptySeq
<1>2. /\ SubSeq(s, 1, Len(s) - 1) \in Seq(T)
      /\ Len(SubSeq(s, 1, Len(s) - 1)) = Len(s) - 1
      /\ \A i \in 1..(Len(s) - 1) : SubSeq(s, 1, Len(s) - 1)[i] = s[i]
    <2> DEFINE n == Len(s) - 1
    <2>1. 1 \in Int /\ n \in Int /\ n >= 0 /\ \A i \in 1..n : s[i] \in T
        BY <1>1
    <2> HIDE DEF n
    <2>2. /\ SubSeq(s, 1, n) \in Seq(T)
          /\ Len(SubSeq(s, 1, n)) = IF 1 <= n THEN n - 1 + 1 ELSE 0
          /\ \A i \in 1..(n - 1 + 1) : SubSeq(s, 1, n)[i] = s[1 + i - 1]
        BY <2>1, SubSeqProperties
    <2>3. Len(SubSeq(s, 1, n)) = n /\ \A i \in 1..n : SubSeq(s, 1, n)[i] = s[i]
        BY <2>1, <2>2
    <2> QED
        BY <2>2, <2>3 DEF n
<1>3. Last(s) = s[Len(s)] /\ s[Len(s)] \in T
    BY <1>1 DEF Last
<1>4. Front(s) = SubSeq(s, 1, Len(s) - 1)
    BY DEF Front
<1>5. s = Append(Front(s), Last(s))
    <2> DEFINE t == Append(Front(s), Last(s))
    <2>1. /\ t \in Seq(T) /\ Len(t) = Len(s) /\ t[Len(s)] = Last(s)
          /\ \A i \in 1..(Len(s) - 1) : t[i] = s[i]
        BY <1>1, <1>2, <1>3, <1>4
    <2> HIDE DEF t
    <2>2. \A i \in 1..Len(s) : i = Len(s) \/ i \in 1..(Len(s) - 1)
        BY <1>1
    <2>3. \A i \in 1..Len(s) : s[i] = t[i]
        BY <1>3, <2>1, <2>2
    <2>4. s = t
        BY <2>1, <2>3, SeqEqual
    <2> QED
        BY <2>4 DEF t
<1> QED
    BY <1>1, <1>2, <1>3, <1>4, <1>5

\* The two outcomes of Add.
Appends(roles, w, x) ==
    /\ Add(roles, w, x) = Append(w, x)
    /\ w # <<>> /\ x.role \in roles => Last(w).role # x.role

Extended(w, x) == Item(x.role, Last(w).content \o x.content)

Extends(roles, w, x) ==
    /\ w # <<>> /\ x.role \in roles /\ Last(w).role = x.role
    /\ Add(roles, w, x) = Append(Front(w), Extended(w, x))
    /\ Extended(w, x) \in WireItems

LEMMA AddCases ==
    ASSUME NEW roles, NEW w \in Seq(WireItems), NEW x \in WireItems
    PROVE  Appends(roles, w, x) \/ Extends(roles, w, x)
<1>1. CASE w # <<>> /\ x.role \in roles /\ Last(w).role = x.role
    <2>1. Last(w) \in WireItems
        BY <1>1, LastAndFront
    <2>2. Last(w).content \in Seq(Block) /\ x.content \in Seq(Block)
        BY <2>1 DEF WireItems
    <2>3. Last(w).content \o x.content \in Seq(Block)
        BY <2>2, ConcatProperties
    <2>4. x.role \in {"user", "assistant", "tool"}
        BY DEF WireItems
    <2>5. Item(x.role, Last(w).content \o x.content) \in WireItems
        BY <2>3, <2>4, ItemType
    <2> QED
        BY <1>1, <2>5 DEF Add, Extends, Extended
<1>2. CASE ~ (w # <<>> /\ x.role \in roles /\ Last(w).role = x.role)
    BY <1>2 DEF Add, Appends
<1> QED
    BY <1>1, <1>2

LEMMA AddType ==
    ASSUME NEW roles, NEW w \in Seq(WireItems), NEW x \in WireItems
    PROVE  Add(roles, w, x) \in Seq(WireItems)
<1>1. CASE Appends(roles, w, x)
    BY <1>1, AppendProperties DEF Appends
<1>2. CASE Extends(roles, w, x)
    <2>1. Front(w) \in Seq(WireItems)
        BY <1>2, LastAndFront DEF Extends
    <2> QED
        BY <1>2, <2>1, AppendProperties DEF Extends
<1> QED
    BY <1>1, <1>2, AddCases

\* What Merged makes of the first items.
AreMerged(f, roles, items) ==
    /\ f \in [0..Len(items) -> Seq(WireItems)]
    /\ f[0] = <<>>
    /\ \A n \in 1..Len(items) : f[n] = Add(roles, f[n - 1], items[n])
    /\ f[Len(items)] = Merged(roles, items)

LEMMA MergedExist ==
    ASSUME NEW roles, NEW items \in Seq(WireItems)
    PROVE  \E f : AreMerged(f, roles, items)
<1> DEFINE last == Len(items)
           V == Seq(WireItems)
           Upto(f) ==
               f = [n \in 0..last |->
                       IF n = 0 THEN <<>> ELSE Add(roles, f[n - 1], items[n])]
           step == [n \in 1..last |-> [w \in V |-> Add(roles, w, items[n])]]
<1>1. last \in Nat /\ \A n \in 1..last : items[n] \in WireItems
    OBVIOUS
<1>2. <<>> \in V /\ \A w \in V, x \in WireItems : Add(roles, w, x) \in V
    BY EmptySeq, AddType
<1> HIDE DEF V, last
<1>3. step \in [1..last -> [V -> V]]
    BY <1>1, <1>2
<1>4. PICK h : Steps(h, last, V, <<>>, step)
    <2> HIDE DEF step
    <2>1. last \in Nat /\ <<>> \in V
        BY <1>1, <1>2
    <2> QED
        BY <1>3, <2>1, StepByStep
<1>5. ASSUME NEW n \in 1..last PROVE h[n] = Add(roles, h[n - 1], items[n])
    <2>1. n - 1 \in 0..last
        BY <1>1
    <2>2. h[n - 1] \in V
        BY <2>1, <1>4 DEF Steps
    <2>3. step[n][h[n - 1]] = Add(roles, h[n - 1], items[n])
        BY <2>2
    <2> QED
        BY <2>3, <1>4 DEF Steps
<1>6. Upto(h)
    <2>1. ASSUME NEW n \in 0..last, n # 0 PROVE n \in 1..last
        BY <1>1, <2>1
    <2>2. \A n \in 0..last :
              h[n] = IF n = 0 THEN <<>> ELSE Add(roles, h[n - 1], items[n])
        BY <1>4, <1>5, <2>1 DEF Steps
    <2>3. h = [n \in 0..last |-> h[n]]
        BY <1>4 DEF Steps
    <2> QED
        BY <2>2, <2>3
<1> DEFINE f == CHOOSE f : Upto(f)
<1>7. Upto(f) /\ Merged(roles, items) = f[last]
    <2>1. Upto(f)
        BY <1>6
    <2> QED
        BY <2>1 DEF Merged, last
<1> HIDE DEF f
<1>8. /\ f[0] = <<>>
      /\ \A n \in 1..last : f[n] = Add(roles, f[n - 1], items[n])
    <2>1. \A n \in 0..last :
              f[n] = IF n = 0 THEN <<>> ELSE Add(roles, f[n - 1], items[n])
        BY <1>7
    <2>2. 0 \in 0..last /\ \A n \in 1..last : n \in 0..last /\ n # 0
        BY <1>1
    <2> QED
        BY <2>1, <2>2
<1>9. \A n \in 0..last : f[n] = h[n]
    <2> DEFINE Same == {n \in 0..last : f[n] = h[n]}
    <2>1. 0 \in Same
        BY <1>1, <1>4, <1>8 DEF Steps
    <2>2. ASSUME NEW n \in Nat, n < last, n \in Same PROVE n + 1 \in Same
        <3>1. n + 1 \in 1..last /\ (n + 1) - 1 = n /\ n + 1 \in 0..last
            BY <1>1, <2>2
        <3>2. /\ f[n + 1] = Add(roles, f[n], items[n + 1])
              /\ h[n + 1] = Add(roles, h[n], items[n + 1])
            BY <3>1, <1>5, <1>8
        <3> QED
            BY <3>1, <3>2, <2>2
    <2> HIDE DEF Same
    <2>3. \A n \in 0..last : n \in Same
        BY <1>1, <2>1, <2>2, CountingUp
    <2> QED
        BY <2>3 DEF Same
<1>10. f \in [0..last -> V]
    BY <1>4, <1>7, <1>9 DEF Steps
<1> QED
    BY <1>7, <1>8, <1>10 DEF AreMerged, last, V

LEMMA MergedType ==
    ASSUME NEW roles, NEW items \in Seq(WireItems)
    PROVE  Merged(roles, items) \in Seq(WireItems)
<1>1. Len(items) \in 0..Len(items)
    OBVIOUS
<1>2. PICK f : AreMerged(f, roles, items)
    BY MergedExist
<1> QED
    BY <1>1, <1>2 DEF AreMerged

LEMMA MergedOfNone == ASSUME NEW roles PROVE Merged(roles, <<>>) = <<>>
<1>1. <<>> \in Seq(WireItems) /\ Len(<<>>) = 0
    OBVIOUS
<1>2. PICK f : AreMerged(f, roles, <<>>)
    BY <1>1, MergedExist
<1> QED
    BY <1>1, <1>2 DEF AreMerged

LEMMA MergedOfAppend ==
    ASSUME NEW roles, NEW items \in Seq(WireItems), NEW x \in WireItems
    PROVE  Merged(roles, Append(items, x)) = Add(roles, Merged(roles, items), x)
<1> DEFINE more == Append(items, x)
           last == Len(items)
<1>1. /\ more \in Seq(WireItems) /\ last \in Nat /\ Len(more) = last + 1
      /\ more[last + 1] = x /\ \A n \in 1..last : more[n] = items[n]
    OBVIOUS
<1>2. PICK f : AreMerged(f, roles, items)
    BY MergedExist
<1> HIDE DEF more
<1>3. PICK g : AreMerged(g, roles, more)
    BY <1>1, MergedExist
<1>4. /\ f[0] = <<>> /\ g[0] = <<>>
      /\ \A n \in 1..last : f[n] = Add(roles, f[n - 1], items[n])
      /\ \A n \in 1..(last + 1) : g[n] = Add(roles, g[n - 1], more[n])
      /\ f[last] = Merged(roles, items) /\ g[last + 1] = Merged(roles, more)
    BY <1>1, <1>2, <1>3 DEF AreMerged
<1> HIDE DEF last
<1> DEFINE Same == {n \in 0..last : f[n] = g[n]}
<1>5. 0 \in Same
    BY <1>1, <1>4
<1>6. ASSUME NEW n \in Nat, n < last, n \in Same PROVE n + 1 \in Same
    <2>1. /\ n + 1 \in 1..last /\ n + 1 \in 1..(last + 1)
          /\ (n + 1) - 1 = n /\ n + 1 \in 0..last
        BY <1>1, <1>6
    <2>2. /\ f[n + 1] = Add(roles, f[n], items[n + 1])
          /\ g[n + 1] = Add(roles, g[n], more[n + 1])
        BY <1>4, <2>1
    <2>3. more[n + 1] = items[n + 1] /\ f[n] = g[n]
        BY <1>1, <1>6, <2>1
    <2> QED
        BY <2>1, <2>2, <2>3
<1>7. last \in Same
    <2>1. last \in 0..last
        BY <1>1
    <2> HIDE DEF Same
    <2> QED
        BY <1>1, <1>5, <1>6, <2>1, CountingUp
<1>8. g[last + 1] = Add(roles, g[last], x)
    <2>1. last + 1 \in 1..(last + 1) /\ (last + 1) - 1 = last
        BY <1>1
    <2> QED
        BY <1>1, <1>4, <2>1
<1>9. f[last] = g[last]
    BY <1>7
<1> QED
    BY <1>4, <1>8, <1>9 DEF more

\* Items of other roles stay as they are.
LEMMA MergedOfOthers ==
    ASSUME NEW roles, NEW items \in Seq(WireItems), NEW others,
           others \in Seq({x \in WireItems : x.role \notin roles})
    PROVE  Merged(roles, items \o others) = Merged(roles, items) \o others
<1> DEFINE T == {x \in WireItems : x.role \notin roles}
           S == {u \in Seq(T) :
                    Merged(roles, items \o u) = Merged(roles, items) \o u}
<1>1. \A u \in Seq(T) : u \in Seq(WireItems)
    BY SeqMonotonic
<1>2. Merged(roles, items) \in Seq(WireItems)
    BY MergedType
<1>3. <<>> \in S
    BY <1>2, ConcatEmptySeq, EmptySeq
<1>4. ASSUME NEW u \in Seq(T), NEW x \in T, u \in S
      PROVE  Append(u, x) \in S
    <2> DEFINE w == items \o u
               v == Merged(roles, items)
    <2>1. Append(u, x) \in Seq(T) /\ x \in WireItems /\ u \in Seq(WireItems)
        BY <1>1, AppendProperties
    <2>2. w \in Seq(WireItems) /\ items \o Append(u, x) = Append(w, x)
        BY <2>1, ConcatProperties, AppendToConcat
    <2>3. v \o Append(u, x) = Append(v \o u, x) /\ v \o u \in Seq(WireItems)
        BY <1>2, <2>1, ConcatProperties, AppendToConcat
    <2>4. Merged(roles, w) = v \o u
        BY <1>4
    <2>5. Merged(roles, Append(w, x)) = Add(roles, Merged(roles, w), x)
        <3> HIDE DEF w
        <3> QED
            BY <2>1, <2>2, MergedOfAppend
    <2>6. Add(roles, v \o u, x) = Append(v \o u, x)
        BY DEF Add
    <2> QED
        BY <2>1, <2>2, <2>3, <2>4, <2>5, <2>6
<1> HIDE DEF S
<1>5. others \in S
    <2> HIDE DEF T
    <2>1. others \in Seq(T)
        BY DEF T
    <2> QED
        BY <1>3, <1>4, <2>1, Lengthening
<1> QED
    BY <1>5 DEF S

-----------------------------------------------------------------------------
(***************************************************************************)
(* Blocks.                                                                 *)
(***************************************************************************)

Kind(kind) == [kind : {kind}, name : Names]

SentText == [kind : {"text"}, name : Names \ {Empty}]

Kinds == {"text", "call", "result", "opaque"}

LEMMA KindOfBlock ==
    ASSUME NEW b \in Block
    PROVE  /\ \A kind : b \in Kind(kind) <=> b.kind = kind
           /\ b \in SentText <=> b.kind = "text" /\ b.name # Empty
BY DEF Block, Kind, SentText

LEMMA KindsAreBlocks ==
    /\ \A kind \in Kinds : Kind(kind) \subseteq Block
    /\ SentText \subseteq Kind("text") /\ SentText \subseteq Block
    /\ \A kind \in Kinds : \A other :
           kind # other => Kind(kind) \cap Kind(other) = {}
BY DEF Block, Kind, SentText, Kinds

LEMMA OfKindIsThose ==
    ASSUME NEW blocks, NEW kind
    PROVE  OfKind(blocks, kind) = Those(blocks, Kind(kind))
BY DEF OfKind, Kind

LEMMA TextsAreThose ==
    ASSUME NEW blocks
    PROVE  Texts(blocks) = Those(blocks, SentText)
BY DEF Texts, SentText

LEMMA OfKindType ==
    ASSUME NEW blocks \in Seq(Block), NEW kind
    PROVE  /\ OfKind(blocks, kind) \in Seq(Block)
           /\ OfKind(blocks, kind) \in Seq(Kind(kind))
BY OfKindIsThose, ThoseType

LEMMA TextsType ==
    ASSUME NEW blocks \in Seq(Block)
    PROVE  Texts(blocks) \in Seq(Block) /\ Texts(blocks) \in Seq(SentText)
BY TextsAreThose, ThoseType

LEMMA OfKindOfConcat ==
    ASSUME NEW s \in Seq(Block), NEW t \in Seq(Block), NEW kind
    PROVE  OfKind(s \o t, kind) = OfKind(s, kind) \o OfKind(t, kind)
<1> DEFINE K == Kind(kind)
<1>1. /\ OfKind(s \o t, kind) = Those(s \o t, K)
      /\ OfKind(s, kind) = Those(s, K) /\ OfKind(t, kind) = Those(t, K)
    BY OfKindIsThose
<1> HIDE DEF K
<1>2. Those(s \o t, K) = Those(s, K) \o Those(t, K)
    BY ThoseOfConcat
<1> QED
    BY <1>1, <1>2

LEMMA OfKindOfNone == ASSUME NEW kind PROVE OfKind(<<>>, kind) = <<>>
BY OfKindIsThose, ThoseOfNone

LEMMA OfTheKind ==
    ASSUME NEW kind, NEW s \in Seq(Kind(kind))
    PROVE  OfKind(s, kind) = s
BY OfKindIsThose, ThoseAreAll

LEMMA OfAnotherKind ==
    ASSUME NEW kind \in Kinds, NEW other, kind # other,
           NEW s \in Seq(Kind(kind))
    PROVE  OfKind(s, other) = <<>>
<1>1. Kind(kind) \cap Kind(other) = {}
    BY KindsAreBlocks
<1> QED
    BY <1>1, OfKindIsThose, ThoseAreNone

LEMMA TextsOfAnotherKind ==
    ASSUME NEW kind \in Kinds, kind # "text", NEW s \in Seq(Kind(kind))
    PROVE  Texts(s) = <<>>
<1>1. Kind(kind) \cap SentText = {}
    BY KindsAreBlocks
<1> QED
    BY <1>1, TextsAreThose, ThoseAreNone

LEMMA OfKindOfTexts ==
    ASSUME NEW s \in Seq(Block), NEW kind
    PROVE  OfKind(Texts(s), kind) = IF kind = "text" THEN Texts(s) ELSE <<>>
<1>1. Texts(s) \in Seq(Kind("text"))
    BY TextsType, KindsAreBlocks, SeqMonotonic
<1>2. "text" \in Kinds
    BY DEF Kinds
<1> QED
    BY <1>1, <1>2, OfTheKind, OfAnotherKind

LEMMA OfKindOfOfKind ==
    ASSUME NEW s \in Seq(Block), NEW kind \in Kinds, NEW other
    PROVE  OfKind(OfKind(s, kind), other)
               = IF kind = other THEN OfKind(s, kind) ELSE <<>>
BY OfKindType, OfTheKind, OfAnotherKind

\* Names.
NameOf == [b \in Block |-> b.name]

WireNameOf == [b \in Block |-> WireName(b.name)]

WireBlockOf == [b \in Block |-> WireBlock(b)]

LEMMA NamesOfIsEach ==
    ASSUME NEW s \in Seq(Block)
    PROVE  NamesOf(s) = Each(s, NameOf) /\ NamesOf(s) \in Seq(Names)
<1>1. \A b \in Block : NameOf[b] = b.name /\ NameOf[b] \in Names
    BY DEF NameOf, Block
<1>2. \A i \in DOMAIN s : NameOf[s[i]] = s[i].name
    BY <1>1
<1>3. NamesOf(s) = Each(s, NameOf)
    BY <1>2 DEF NamesOf, Each
<1> QED
    BY <1>1, <1>3, EachType

LEMMA WireNameType ==
    ASSUME NEW name \in Names
    PROVE  /\ WireName(name) \in Names
           /\ WireName(WireName(name)) = WireName(name)
           /\ WireName(name) = Empty <=> name = Empty
           /\ name[1] = "own" => WireName(name) = name
BY DEF WireName, Names, Empty

LEMMA WireBlockType ==
    ASSUME NEW b \in Block
    PROVE  /\ WireBlock(b) \in Block
           /\ WireBlock(b).kind = b.kind
           /\ WireBlock(b).name = WireName(b.name)
           /\ WireBlock(b) = [kind |-> b.kind, name |-> WireName(b.name)]
<1>1. b.name \in Names /\ b = [kind |-> b.kind, name |-> b.name]
    BY DEF Block
<1>2. WireBlock(b) = [kind |-> b.kind, name |-> WireName(b.name)]
    BY <1>1 DEF WireBlock, Block
<1>3. WireName(b.name) \in Names
    BY <1>1, WireNameType
<1> QED
    BY <1>2, <1>3 DEF Block

-----------------------------------------------------------------------------
(***************************************************************************)
(* Messages, and what each adapter makes of their blocks.                  *)
(***************************************************************************)

Stored ==
    {m \in [role : {"user", "assistant"}, content : Seq(Block),
            calls : Seq(Names), results : Seq(Names)] :
        m = Message(m.role, m.content) /\ m.content # <<>>}

Sendable == Block \ {Text(0)}

LEMMA StoredFields ==
    ASSUME NEW m \in Stored
    PROVE  /\ m.role \in {"user", "assistant"} /\ m.content \in Seq(Block)
           /\ m.content # <<>>
           /\ m.calls = NamesOf(OfKind(m.content, "call"))
           /\ m.results = NamesOf(OfKind(m.content, "result"))
           /\ m.calls \in Seq(Names) /\ m.results \in Seq(Names)
BY DEF Stored, Message

LEMMA NamesOfNone == NamesOf(<<>>) = <<>>
BY DEF NamesOf

LEMMA TextIsBlock ==
    ASSUME NEW n \in Nat
    PROVE  /\ Text(n) \in Kind("text") /\ Text(n) \in Block
           /\ n # 0 => Text(n) \in SentText /\ Text(n) \in Sendable
           /\ WireBlock(Text(n)) = Text(n)
<1>1. <<"own", n>> \in Names /\ <<"own", n>>[1] = "own"
    BY DEF Names
<1>2. Text(n) = [kind |-> "text", name |-> <<"own", n>>]
    BY DEF Text
<1>3. Text(n) \in Kind("text") /\ Text(n) \in Block
    BY <1>1, <1>2 DEF Kind, Block
<1>4. ASSUME n # 0 PROVE Text(n) \in SentText /\ Text(n) \in Sendable
    <2>1. <<"own", n>> # Empty /\ Text(n).name # Text(0).name
        BY <1>2, <1>4 DEF Empty, Text
    <2> QED
        BY <1>1, <1>2, <1>3, <2>1 DEF SentText, Sendable
<1>5. WireBlock(Text(n)) = Text(n)
    BY <1>1, <1>2, <1>3, WireBlockType, WireNameType
<1> QED
    BY <1>3, <1>4, <1>5

LEMMA RequestFacts ==
    ASSUME NEW m \in Stored, IsRequest(m)
    PROVE  /\ m.role = "user" /\ m.calls = <<>> /\ m.results = <<>>
           /\ m.content \in Seq(SentText)
           /\ \A kind \in Kinds : kind # "text" =>
                  OfKind(m.content, kind) = <<>>
           /\ Texts(m.content) = m.content
           /\ Those(m.content, Sendable) = m.content
           /\ Each(m.content, WireBlockOf) = m.content
<1>1. PICK n \in Nat \ {0} : m.content = <<Text(n)>>
    <2> DEFINE number == m.content[1].name[2]
    <2>1. number # 0 /\ m.content = <<Text(number)>>
        BY DEF IsRequest
    <2>2. m.content[1] \in Block
        BY StoredFields
    <2>3. number \in Nat
        BY <2>2 DEF Block, Names
    <2> QED
        BY <2>1, <2>3
<1> DEFINE T == {Text(n)}
<1>2. T \subseteq SentText /\ T \subseteq Sendable /\ T \subseteq Kind("text")
    BY TextIsBlock
<1>3. m.content \in Seq(T)
    BY <1>1
<1>4. m.content \in Seq(SentText) /\ m.content \in Seq(Kind("text"))
    BY <1>2, <1>3, SeqMonotonic
<1>5. Texts(m.content) = m.content /\ Those(m.content, Sendable) = m.content
    <2> HIDE DEF T
    <2> QED
        BY <1>2, <1>3, ThoseAreAll, TextsAreThose
<1>6. \A kind \in Kinds : kind # "text" => OfKind(m.content, kind) = <<>>
    <2>1. "text" \in Kinds
        BY DEF Kinds
    <2> QED
        BY <1>4, <2>1, OfAnotherKind
<1>7. Each(m.content, WireBlockOf) = m.content
    <2>1. \A x \in T : WireBlockOf[x] = x
        BY TextIsBlock DEF WireBlockOf
    <2> HIDE DEF T
    <2> QED
        BY <1>3, <2>1, EachIsSame
<1>8. m.calls = <<>> /\ m.results = <<>>
    <2>1. "call" \in Kinds /\ "result" \in Kinds
        BY DEF Kinds
    <2> QED
        BY <1>6, <2>1, StoredFields, NamesOfNone
<1> QED
    BY <1>4, <1>5, <1>6, <1>7, <1>8 DEF IsRequest

LEMMA ResultsFacts ==
    ASSUME NEW m \in Stored, IsResults(m)
    PROVE  /\ m.role = "user" /\ m.calls = <<>>
           /\ m.results = NamesOf(m.content)
           /\ m.content \in Seq(Kind("result"))
           /\ OfKind(m.content, "result") = m.content
           /\ \A kind \in Kinds : kind # "result" =>
                  OfKind(m.content, kind) = <<>>
           /\ Texts(m.content) = <<>>
           /\ Those(m.content, Sendable) = m.content
<1>1. "result" \in Kinds /\ "call" \in Kinds
    BY DEF Kinds
<1>2. m.content \in Seq(Kind("result"))
    <2>1. m.content \in Seq(Block)
        BY StoredFields
    <2>2. \A i \in 1..Len(m.content) : m.content[i] \in Kind("result")
        BY <2>1, KindOfBlock DEF IsResults
    <2> QED
        BY <2>1, <2>2
<1>3. /\ OfKind(m.content, "result") = m.content
      /\ \A kind \in Kinds : kind # "result" => OfKind(m.content, kind) = <<>>
      /\ Texts(m.content) = <<>>
    BY <1>1, <1>2, OfTheKind, OfAnotherKind, TextsOfAnotherKind
<1>4. Those(m.content, Sendable) = m.content
    <2>1. Kind("result") \subseteq Sendable
        BY KindsAreBlocks, <1>1 DEF Sendable, Kind, Text
    <2> QED
        BY <1>2, <2>1, ThoseAreAll
<1>5. m.calls = <<>> /\ m.results = NamesOf(m.content)
    BY <1>1, <1>3, StoredFields, NamesOfNone
<1> QED
    BY <1>2, <1>3, <1>4, <1>5 DEF IsResults

LEMMA ReplyFacts ==
    ASSUME NEW m \in Stored, IsReply(m)
    PROVE  /\ m.role = "assistant" /\ m.results = <<>>
           /\ OfKind(m.content, "result") = <<>>
<1> DEFINE T == Block \ Kind("result")
<1>1. m.content \in Seq(T)
    <2>1. m.content \in Seq(Block)
        BY StoredFields
    <2>2. \A i \in 1..Len(m.content) : m.content[i] \in T
        BY <2>1, KindOfBlock DEF IsReply
    <2> QED
        BY <2>1, <2>2
<1>2. OfKind(m.content, "result") = <<>>
    <2>1. T \cap Kind("result") = {}
        OBVIOUS
    <2> HIDE DEF T
    <2> QED
        BY <1>1, <2>1, ThoseAreNone, OfKindIsThose
<1> QED
    BY <1>2, StoredFields, NamesOfNone DEF IsReply

\* The blocks that are sent of a message.
ContentOf(p, m) ==
    CASE p = "anthropic" -> AnthropicContent(m)
      [] p = "openai"    -> IF m.role = "user"
                            THEN OfKind(m.content, "result") \o Texts(m.content)
                            ELSE Texts(m.content) \o OfKind(m.content, "call")
      [] p = "text"      -> TextContent(m)

IsMessage(m) == IsRequest(m) \/ IsResults(m) \/ IsReply(m)

LEMMA AnthropicContentOf ==
    ASSUME NEW m \in Stored, IsMessage(m)
    PROVE  ContentOf("anthropic", m)
               = Each(Those(m.content, Sendable), WireBlockOf)
<1> DEFINE sent == IF m.role = "user"
                   THEN OfKind(m.content, "result") \o Texts(m.content)
                   ELSE Those(m.content, Block \ {Text(0)})
<1>1. sent = Those(m.content, Sendable)
    <2>1. CASE IsRequest(m)
        <3>1. "result" \in Kinds /\ "result" # "text"
            BY DEF Kinds
        <3>2. sent = <<>> \o m.content /\ Those(m.content, Sendable) = m.content
            BY <2>1, <3>1, RequestFacts
        <3> QED
            BY <3>2, StoredFields, ConcatEmptySeq
    <2>2. CASE IsResults(m)
        <3>1. sent = m.content \o <<>> /\ Those(m.content, Sendable) = m.content
            BY <2>2, ResultsFacts
        <3> QED
            BY <3>1, StoredFields, ConcatEmptySeq
    <2>3. CASE IsReply(m)
        BY <2>3, ReplyFacts DEF Sendable
    <2> QED
        BY <2>1, <2>2, <2>3 DEF IsMessage
<1>2. Those(m.content, Sendable) \in Seq(Block)
    BY StoredFields, ThoseType
<1>3. ContentOf("anthropic", m) = [i \in DOMAIN sent |-> WireBlock(sent[i])]
    BY DEF ContentOf, AnthropicContent
<1> HIDE DEF sent
<1>4. \A i \in DOMAIN sent : WireBlockOf[sent[i]] = WireBlock(sent[i])
    BY <1>1, <1>2 DEF WireBlockOf
<1> QED
    BY <1>1, <1>3, <1>4 DEF Each

LEMMA OtherContentOf ==
    ASSUME NEW m \in Stored, IsMessage(m), NEW p \in {"openai", "text"}
    PROVE  ContentOf(p, m) =
               IF IsReply(m) THEN Texts(m.content) \o OfKind(m.content, "call")
               ELSE m.content
<1>1. "result" \in Kinds /\ "call" \in Kinds /\ <<>> \in Seq(Block)
    BY DEF Kinds
<1>2. /\ m.content \in Seq(Block) /\ Texts(m.content) \in Seq(Block)
      /\ OfKind(m.content, "call") \in Seq(Block)
    BY StoredFields, TextsType, OfKindType
<1>3. CASE IsRequest(m)
    <2>1. /\ m.role = "user" /\ ~ IsReply(m) /\ Texts(m.content) = m.content
          /\ OfKind(m.content, "result") = <<>>
          /\ OfKind(m.content, "call") = <<>>
        BY <1>1, <1>3, RequestFacts DEF IsReply
    <2>2. /\ <<>> \o m.content = m.content
          /\ m.content \o <<>> = m.content
        BY <1>2, ConcatEmptySeq
    <2> QED
        BY <2>1, <2>2 DEF ContentOf, TextContent
<1>4. CASE IsResults(m)
    <2>1. /\ m.role = "user" /\ ~ IsReply(m) /\ Texts(m.content) = <<>>
          /\ OfKind(m.content, "result") = m.content
          /\ OfKind(m.content, "call") = <<>>
        BY <1>1, <1>4, ResultsFacts DEF IsReply
    <2>2. m.content \o <<>> = m.content
        BY <1>2, ConcatEmptySeq
    <2> QED
        BY <2>1, <2>2 DEF ContentOf, TextContent
<1>5. CASE IsReply(m)
    <2>1. m.role = "assistant" /\ OfKind(m.content, "result") = <<>>
        BY <1>5, ReplyFacts
    <2>2. <<>> \o Texts(m.content) = Texts(m.content)
        BY <1>2, ConcatEmptySeq
    <2> QED
        BY <1>5, <2>1, <2>2 DEF ContentOf, TextContent
<1> QED
    BY <1>3, <1>4, <1>5 DEF IsMessage

LEMMA ContentType ==
    ASSUME NEW m \in Stored, IsMessage(m), NEW p \in Providers
    PROVE  ContentOf(p, m) \in Seq(Block)
<1>1. /\ m.content \in Seq(Block) /\ Texts(m.content) \in Seq(Block)
      /\ OfKind(m.content, "call") \in Seq(Block)
    BY StoredFields, TextsType, OfKindType
<1>2. CASE p = "anthropic"
    <2>1. Those(m.content, Sendable) \in Seq(Block)
        BY <1>1, ThoseType
    <2>2. \A b \in Block : WireBlockOf[b] \in Block
        BY WireBlockType DEF WireBlockOf
    <2> QED
        BY <1>2, <2>1, <2>2, EachType, AnthropicContentOf
<1>3. CASE p \in {"openai", "text"}
    <2>1. Texts(m.content) \o OfKind(m.content, "call") \in Seq(Block)
        BY <1>1, ConcatProperties
    <2> QED
        BY <1>1, <1>3, <2>1, OtherContentOf
<1> QED
    BY <1>2, <1>3 DEF Providers

\* What is left of each kind: all but the empty texts and, unless the
\* message goes to Anthropic, the opaque blocks.
Left(m, kind) ==
    IF kind = "text" THEN Texts(m.content) ELSE OfKind(m.content, kind)

LEMMA OtherParts ==
    ASSUME NEW m \in Stored, IsMessage(m), NEW p \in {"openai", "text"}
    PROVE  /\ \A kind \in {"call", "result", "text"} :
                  OfKind(ContentOf(p, m), kind) = Left(m, kind)
           /\ OfKind(ContentOf(p, m), "opaque") = <<>>
<1>1. \A kind \in {"call", "result", "text", "opaque"} : kind \in Kinds
    BY DEF Kinds
<1>2. CASE IsRequest(m)
    <2>1. ContentOf(p, m) = m.content
        BY <1>2, OtherContentOf DEF IsRequest, IsReply
    <2>2. OfKind(m.content, "text") = m.content
        <3>1. m.content \in Seq(Kind("text"))
            BY <1>2, RequestFacts, KindsAreBlocks, SeqMonotonic
        <3> QED
            BY <3>1, OfTheKind
    <2> QED
        BY <1>1, <1>2, <2>1, <2>2, RequestFacts DEF Left
<1>3. CASE IsResults(m)
    <2>1. ContentOf(p, m) = m.content
        BY <1>3, OtherContentOf DEF IsResults, IsReply
    <2> QED
        BY <1>1, <1>3, <2>1, ResultsFacts DEF Left
<1>4. CASE IsReply(m)
    <2> DEFINE texts == Texts(m.content)
               calls == OfKind(m.content, "call")
    <2>1. ContentOf(p, m) = texts \o calls
        BY <1>4, OtherContentOf
    <2>2. texts \in Seq(Block) /\ calls \in Seq(Block)
        BY StoredFields, TextsType, OfKindType
    <2>3. \A kind : OfKind(texts, kind) = IF kind = "text" THEN texts ELSE <<>>
        BY StoredFields, OfKindOfTexts
    <2>4. \A kind : OfKind(calls, kind) = IF kind = "call" THEN calls ELSE <<>>
        BY <1>1, StoredFields, OfKindOfOfKind
    <2>5. OfKind(m.content, "result") = <<>>
        BY <1>4, ReplyFacts
    <2> HIDE DEF texts, calls
    <2>6. \A kind : OfKind(texts \o calls, kind)
                        = OfKind(texts, kind) \o OfKind(calls, kind)
        BY <2>2, OfKindOfConcat
    <2>7. /\ texts \o <<>> = texts /\ <<>> \o calls = calls
          /\ <<>> \o <<>> = <<>>
        BY <2>2, ConcatEmptySeq
    <2>8. /\ OfKind(texts \o calls, "text") = texts
          /\ OfKind(texts \o calls, "call") = calls
          /\ OfKind(texts \o calls, "result") = <<>>
          /\ OfKind(texts \o calls, "opaque") = <<>>
        BY <2>3, <2>4, <2>6, <2>7
    <2> QED
        BY <2>1, <2>5, <2>8 DEF Left, texts, calls
<1> QED
    BY <1>2, <1>3, <1>4 DEF IsMessage

LEMMA WireBlockOfKinds ==
    /\ \A b \in Block : WireBlockOf[b] \in Block
    /\ \A kind : \A b \in Block : WireBlockOf[b] \in Kind(kind) <=> b \in Kind(kind)
    /\ \A b \in Block : WireBlockOf[b] \in Sendable <=> b \in Sendable
    /\ \A b \in Block : WireNameOf[WireBlockOf[b]] = WireNameOf[b]
    /\ \A b \in Block : NameOf[WireBlockOf[b]] = WireNameOf[b]
<1> SUFFICES ASSUME NEW b \in Block
             PROVE  /\ WireBlockOf[b] \in Block
                    /\ \A kind : WireBlockOf[b] \in Kind(kind) <=> b \in Kind(kind)
                    /\ WireBlockOf[b] \in Sendable <=> b \in Sendable
                    /\ WireNameOf[WireBlockOf[b]] = WireNameOf[b]
                    /\ NameOf[WireBlockOf[b]] = WireNameOf[b]
    OBVIOUS
<1>1. WireBlockOf[b] = WireBlock(b) /\ WireNameOf[b] = WireName(b.name)
    BY DEF WireBlockOf, WireNameOf
<1>2. /\ WireBlock(b) \in Block /\ WireBlock(b).kind = b.kind
      /\ WireBlock(b).name = WireName(b.name)
    BY WireBlockType
<1>3. \A kind : WireBlockOf[b] \in Kind(kind) <=> b \in Kind(kind)
    BY <1>1, <1>2, KindOfBlock
<1>4. WireNameOf[WireBlockOf[b]] = WireNameOf[b]
    <2>1. b.name \in Names
        BY DEF Block
    <2> QED
        BY <1>1, <1>2, <2>1, WireNameType DEF WireNameOf
<1>5. WireBlockOf[b] \in Sendable <=> b \in Sendable
    <2>1. \A c \in Block : c = Text(0) <=> c.kind = "text" /\ c.name = Empty
        BY DEF Text, Block, Empty
    <2>2. b.name \in Names /\ (WireName(b.name) = Empty <=> b.name = Empty)
        <3>1. b.name \in Names
            BY DEF Block
        <3> QED
            BY <3>1, WireNameType
    <2> QED
        BY <1>1, <1>2, <2>1, <2>2 DEF Sendable
<1>6. NameOf[WireBlockOf[b]] = WireNameOf[b]
    BY <1>1, <1>2 DEF NameOf
<1> QED
    BY <1>1, <1>2, <1>3, <1>4, <1>5, <1>6

LEMMA AnthropicParts ==
    ASSUME NEW m \in Stored, IsMessage(m),
           NEW kind \in {"call", "result", "text"}
    PROVE  OfKind(ContentOf("anthropic", m), kind)
               = Each(Left(m, kind), WireBlockOf)
<1> DEFINE sent == Those(m.content, Sendable)
<1>1. m.content \in Seq(Block) /\ sent \in Seq(Block)
    BY StoredFields, ThoseType
<1>2. OfKind(Each(sent, WireBlockOf), kind) = Each(OfKind(sent, kind), WireBlockOf)
    <2> DEFINE K == Kind(kind)
    <2>1. \A b \in Block : WireBlockOf[b] \in K <=> b \in K
        BY WireBlockOfKinds
    <2> HIDE DEF K, sent
    <2>2. Those(Each(sent, WireBlockOf), K) = Each(Those(sent, K), WireBlockOf)
        BY <1>1, <2>1, ThoseOfEach
    <2> QED
        BY <2>2, OfKindIsThose DEF K
<1>3. OfKind(sent, kind) = Left(m, kind)
    <2> DEFINE K == Kind(kind)
               Q == IF kind = "text" THEN SentText ELSE Kind(kind)
    <2>1. \A b \in Block : b \in Q <=> b \in Sendable /\ b \in K
        <3>1. \A b \in Block : b = Text(0) <=> b.kind = "text" /\ b.name = Empty
            BY DEF Text, Block, Empty
        <3> QED
            BY <3>1, KindOfBlock DEF Sendable
    <2>2. Left(m, kind) = Those(m.content, Q)
        BY OfKindIsThose, TextsAreThose DEF Left
    <2>3. OfKind(sent, kind) = Those(Those(m.content, Sendable), K)
        BY OfKindIsThose
    <2> HIDE DEF K, Q, sent
    <2>4. Those(Those(m.content, Sendable), K) = Those(m.content, Q)
        BY <1>1, <2>1, ThoseOfThose
    <2> QED
        BY <2>2, <2>3, <2>4
<1> QED
    BY <1>2, <1>3, AnthropicContentOf

LEMMA LeftType ==
    ASSUME NEW m \in Stored, NEW kind
    PROVE  Left(m, kind) \in Seq(Block)
BY StoredFields, TextsType, OfKindType DEF Left

\* The calls and the results that are sent bear the names of the message's.
Renamed(p, names) ==
    IF p = "anthropic" THEN Each(names, [name \in Names |-> WireName(name)])
    ELSE names

LEMMA ContentNames ==
    ASSUME NEW m \in Stored, IsMessage(m), NEW p \in Providers
    PROVE  /\ NamesOf(OfKind(ContentOf(p, m), "call")) = Renamed(p, m.calls)
           /\ NamesOf(OfKind(ContentOf(p, m), "result")) = Renamed(p, m.results)
<1> SUFFICES ASSUME NEW kind \in {"call", "result"}
             PROVE  NamesOf(OfKind(ContentOf(p, m), kind))
                        = Renamed(p, NamesOf(OfKind(m.content, kind)))
    BY StoredFields
<1> DEFINE these == OfKind(m.content, kind)
           F == [name \in Names |-> WireName(name)]
<1>1. these = Left(m, kind) /\ these \in Seq(Block)
    BY LeftType DEF Left
<1>2. CASE p = "anthropic"
    <2>1. OfKind(ContentOf(p, m), kind) = Each(these, WireBlockOf)
        BY <1>1, <1>2, AnthropicParts
    <2>2. Each(these, WireBlockOf) \in Seq(Block)
        BY <1>1, WireBlockOfKinds, EachType
    <2>3. NamesOf(Each(these, WireBlockOf)) = Each(Each(these, WireBlockOf), NameOf)
        BY <2>2, NamesOfIsEach
    <2>4. NamesOf(these) = Each(these, NameOf)
        BY <1>1, NamesOfIsEach
    <2> HIDE DEF these
    <2>5. Each(Each(these, WireBlockOf), NameOf) = Each(these, WireNameOf)
        BY <1>1, WireBlockOfKinds, EachOfEach
    <2>6. \A b \in Block : F[NameOf[b]] = WireNameOf[b]
        BY DEF NameOf, WireNameOf, Block
    <2> HIDE DEF F
    <2>7. Each(Each(these, NameOf), F) = Each(these, WireNameOf)
        BY <1>1, <2>6, EachOfEach
    <2> QED
        BY <1>2, <2>1, <2>3, <2>4, <2>5, <2>7 DEF Renamed, F, these
<1>3. CASE p \in {"openai", "text"}
    BY <1>1, <1>3, OtherParts DEF Renamed
<1> QED
    BY <1>2, <1>3 DEF Providers

\* What is said of a wire holds of the blocks of one message.
WireNames(blocks, kind) == Each(OfKind(blocks, kind), WireNameOf)

LEMMA ContentComplete ==
    ASSUME NEW m \in Stored, IsMessage(m), NEW p \in Providers
    PROVE  /\ \A kind \in {"call", "result"} :
                  WireNames(ContentOf(p, m), kind) = WireNames(m.content, kind)
           /\ WireNames(ContentOf(p, m), "text")
                  = Those(WireNames(m.content, "text"), Names \ {Empty})
           /\ IF p = "anthropic"
              THEN ContentOf(p, m)
                       = Those(Each(m.content, WireBlockOf), Sendable)
              ELSE OfKind(ContentOf(p, m), "opaque") = <<>>
<1>1. m.content \in Seq(Block)
    BY StoredFields
<1>2. ASSUME NEW kind \in {"call", "result", "text"}
      PROVE  WireNames(ContentOf(p, m), kind) = Each(Left(m, kind), WireNameOf)
    <2>1. CASE p = "anthropic"
        <3> DEFINE left == Left(m, kind)
        <3>1. left \in Seq(Block)
            BY LeftType
        <3>2. OfKind(ContentOf(p, m), kind) = Each(left, WireBlockOf)
            BY <2>1, AnthropicParts
        <3> HIDE DEF left
        <3>3. Each(Each(left, WireBlockOf), WireNameOf) = Each(left, WireNameOf)
            BY <3>1, WireBlockOfKinds, EachOfEach
        <3> QED
            BY <3>2, <3>3 DEF WireNames, left
    <2>2. CASE p \in {"openai", "text"}
        BY <2>2, OtherParts DEF WireNames
    <2> QED
        BY <2>1, <2>2 DEF Providers
<1>3. Each(Left(m, "text"), WireNameOf)
          = Those(WireNames(m.content, "text"), Names \ {Empty})
    <2> DEFINE T == Kind("text")
               u == Those(m.content, T)
               S == Names \ {Empty}
    <2>1. u \in Seq(T)
        BY <1>1, ThoseType
    <2>2. \A b \in T : WireNameOf[b] \in S <=> b \in SentText
        <3> SUFFICES ASSUME NEW b \in T
                     PROVE  WireNameOf[b] \in S <=> b \in SentText
            OBVIOUS
        <3>1. b \in Block /\ b.name \in Names /\ b.kind = "text"
            BY DEF Kind, Block
        <3>2. WireNameOf[b] = WireName(b.name)
            BY <3>1 DEF WireNameOf
        <3> QED
            BY <3>1, <3>2, WireNameType, KindOfBlock
    <2>3. Texts(m.content) = Those(u, SentText)
        <3>1. \A b \in Block : b \in SentText <=> b \in T /\ b \in SentText
            BY KindsAreBlocks
        <3>2. Those(Those(m.content, T), SentText) = Those(m.content, SentText)
            <4> HIDE DEF T
            <4> QED
                BY <1>1, <3>1, ThoseOfThose
        <3> QED
            BY <3>2, TextsAreThose
    <2>4. WireNames(m.content, "text") = Each(u, WireNameOf)
        BY OfKindIsThose DEF WireNames
    <2> HIDE DEF T, u, S
    <2>5. Those(Each(u, WireNameOf), S) = Each(Those(u, SentText), WireNameOf)
        BY <2>1, <2>2, ThoseOfEach
    <2> QED
        BY <2>3, <2>4, <2>5 DEF Left, S
<1>4. \A kind \in {"call", "result"} :
          WireNames(ContentOf(p, m), kind) = WireNames(m.content, kind)
    BY <1>2 DEF WireNames, Left
<1>5. CASE p = "anthropic"
    <2>1. Those(Each(m.content, WireBlockOf), Sendable)
              = Each(Those(m.content, Sendable), WireBlockOf)
        BY <1>1, WireBlockOfKinds, ThoseOfEach
    <2> QED
        BY <1>2, <1>3, <1>4, <1>5, <2>1, AnthropicContentOf
<1>6. CASE p \in {"openai", "text"}
    BY <1>2, <1>3, <1>4, <1>6, OtherParts
<1> QED
    BY <1>5, <1>6 DEF Providers

-----------------------------------------------------------------------------
(***************************************************************************)
(* What one more message adds to the wire.                                 *)
(***************************************************************************)

Messages == {m \in Stored : IsMessage(m)}

\* The roles whose turns are merged.
Roles(p) ==
    CASE p = "anthropic" -> {}
      [] p = "openai"    -> {"user"}
      [] p = "text"      -> {"user", "assistant"}

Tool(block) == Item("tool", <<block>>)

Tools(blocks) == [i \in DOMAIN blocks |-> Tool(blocks[i])]

Unmerged(p, m) ==
    IF p = "openai" /\ IsResults(m) THEN Tools(ContentOf(p, m))
    ELSE Sent(m.role, ContentOf(p, m))

LEMMA ToolsType ==
    ASSUME NEW blocks \in Seq(Block)
    PROVE  /\ Tools(blocks) \in Seq({x \in WireItems : x.role = "tool"})
           /\ Tools(blocks) \in Seq(WireItems)
           /\ Len(Tools(blocks)) = Len(blocks)
           /\ \A i \in 1..Len(blocks) : Tools(blocks)[i] = Tool(blocks[i])
<1> DEFINE T == {x \in WireItems : x.role = "tool"}
<1>1. \A b \in Block : Tool(b) \in T
    <2> SUFFICES ASSUME NEW b \in Block PROVE Tool(b) \in T
        OBVIOUS
    <2>1. <<b>> \in Seq(Block) /\ "tool" \in {"user", "assistant", "tool"}
        OBVIOUS
    <2> QED
        BY <2>1, ItemType DEF Tool
<1>2. \A i \in 1..Len(blocks) : Tool(blocks[i]) \in T
    BY <1>1
<1>3. Tools(blocks) = [i \in 1..Len(blocks) |-> Tool(blocks[i])]
    BY DEF Tools
<1>4. Tools(blocks) \in Seq(T) /\ Len(Tools(blocks)) = Len(blocks)
    BY <1>2, <1>3
<1>5. T \subseteq WireItems
    OBVIOUS
<1> HIDE DEF T
<1>6. Tools(blocks) \in Seq(WireItems)
    BY <1>4, <1>5, SeqMonotonic
<1> QED
    BY <1>3, <1>4, <1>6 DEF T

LEMMA UnmergedType ==
    ASSUME NEW m \in Messages, NEW p \in Providers
    PROVE  Unmerged(p, m) \in Seq(WireItems)
<1>1. ContentOf(p, m) \in Seq(Block) /\ m.role \in {"user", "assistant"}
    BY ContentType, StoredFields DEF Messages
<1>2. Item(m.role, ContentOf(p, m)) \in WireItems
    BY <1>1, ItemType
<1>3. Sent(m.role, ContentOf(p, m)) \in Seq(WireItems)
    BY <1>2 DEF Sent
<1> QED
    BY <1>1, <1>3, ToolsType DEF Unmerged

LEMMA OpenAIUnmerged ==
    ASSUME NEW m \in Messages
    PROVE  OpenAIItems(m) = Unmerged("openai", m)
<1> DEFINE c == ContentOf("openai", m)
<1>1. m \in Stored /\ IsMessage(m) /\ c \in Seq(Block)
    BY ContentType DEF Messages, Providers
<1>2. "result" \in Kinds /\ "result" # "text"
    BY DEF Kinds
<1>3. CASE IsRequest(m)
    <2>1. /\ m.role = "user" /\ OfKind(m.content, "result") = <<>>
          /\ Texts(m.content) = m.content /\ ~ IsResults(m)
          /\ c = m.content
        <3>1. ~ IsResults(m)
            BY <1>3 DEF IsRequest, IsResults, Text
        <3> QED
            BY <1>1, <1>2, <1>3, <3>1, RequestFacts, OtherContentOf DEF IsReply
    <2>2. [i \in DOMAIN <<>> |-> Item("tool", <<(<<>>)[i]>>)] = <<>>
        OBVIOUS
    <2>3. <<>> \o Sent("user", c) = Sent("user", c)
        <3>1. Item("user", c) \in WireItems
            BY <1>1, ItemType
        <3>2. Sent("user", c) \in Seq(WireItems)
            BY <3>1 DEF Sent
        <3> QED
            BY <3>2, ConcatEmptySeq
    <2> QED
        BY <2>1, <2>2, <2>3 DEF OpenAIItems, Unmerged
<1>4. CASE IsResults(m)
    <2>1. /\ m.role = "user" /\ OfKind(m.content, "result") = m.content
          /\ Texts(m.content) = <<>> /\ c = m.content
        BY <1>1, <1>4, ResultsFacts, OtherContentOf DEF IsReply
    <2>2. Sent("user", <<>>) = <<>>
        BY DEF Sent
    <2>3. Tools(c) \o <<>> = Tools(c)
        BY <1>1, ToolsType, ConcatEmptySeq
    <2> QED
        BY <1>4, <2>1, <2>2, <2>3 DEF OpenAIItems, Unmerged, Tools, Tool
<1>5. CASE IsReply(m)
    <2>1. /\ m.role = "assistant" /\ ~ IsResults(m)
          /\ c = Texts(m.content) \o OfKind(m.content, "call")
        BY <1>1, <1>5, ReplyFacts, OtherContentOf DEF IsResults
    <2> QED
        BY <2>1 DEF OpenAIItems, Unmerged
<1> QED
    BY <1>1, <1>3, <1>4, <1>5 DEF IsMessage

\* Every wire is the items of the messages, merged.
UnmergedOf(p) == [m \in Messages |-> Unmerged(p, m)]

LEMMA WrittenIsMerged ==
    ASSUME NEW p \in Providers, NEW msgs \in Seq(Messages)
    PROVE  /\ Joined(msgs, UnmergedOf(p)) \in Seq(WireItems)
           /\ Written(p, msgs) = Merged(Roles(p), Joined(msgs, UnmergedOf(p)))
<1> DEFINE f == UnmergedOf(p)
           raw == Joined(msgs, f)
<1>1. /\ f \in [Messages -> Seq(WireItems)]
      /\ \A m \in Messages : f[m] = Unmerged(p, m)
    BY UnmergedType DEF UnmergedOf
<1>2. raw \in Seq(WireItems)
    <2> HIDE DEF f
    <2> QED
        BY <1>1, JoinedType
<1>3. \A i \in DOMAIN msgs : msgs[i] \in Messages
    OBVIOUS
<1>4. CASE p = "anthropic"
    <2>1. \A m \in Messages : f[m] = Sent(m.role, AnthropicContent(m))
        BY <1>1, <1>4 DEF Unmerged, ContentOf
    <2>2. AnthropicWire(msgs) = raw
        <3> HIDE DEF f
        <3>1. \A i \in DOMAIN msgs : f[msgs[i]] =
                  Sent(msgs[i].role, AnthropicContent(msgs[i]))
            BY <1>3, <2>1
        <3>2. Each(msgs, f) = [i \in DOMAIN msgs |->
                  Sent(msgs[i].role, AnthropicContent(msgs[i]))]
            BY <3>1 DEF Each
        <3> QED
            BY <3>2 DEF AnthropicWire, Joined
    <2>3. Merged({}, raw) = raw
        <3> HIDE DEF raw
        <3>1. <<>> \in Seq(WireItems) /\ <<>> \o raw = raw
            BY <1>2, ConcatEmptySeq, EmptySeq
        <3>2. raw \in Seq({x \in WireItems : x.role \notin {}})
            <4>1. WireItems \subseteq {x \in WireItems : x.role \notin {}}
                OBVIOUS
            <4> QED
                BY <1>2, <4>1, SeqMonotonic
        <3>3. Merged({}, <<>> \o raw) = Merged({}, <<>>) \o raw
            BY <3>1, <3>2, MergedOfOthers
        <3> QED
            BY <3>1, <3>3, MergedOfNone
    <2> QED
        BY <1>2, <1>4, <2>2, <2>3 DEF Written, Roles
<1>5. CASE p = "openai"
    <2>1. \A m \in Messages : f[m] = OpenAIItems(m)
        BY <1>1, <1>5, OpenAIUnmerged
    <2>2. [i \in DOMAIN msgs |-> OpenAIItems(msgs[i])] = Each(msgs, f)
        <3> HIDE DEF f
        <3>1. \A i \in DOMAIN msgs : f[msgs[i]] = OpenAIItems(msgs[i])
            BY <1>3, <2>1
        <3> QED
            BY <3>1 DEF Each
    <2> QED
        BY <1>2, <1>5, <2>2 DEF Written, Roles, OpenAIWire, Joined
<1>6. CASE p = "text"
    <2>1. \A m \in Messages : f[m] = Sent(m.role, TextContent(m))
        BY <1>1, <1>6 DEF Unmerged, ContentOf
    <2>2. Each(msgs, f) =
              [i \in DOMAIN msgs |-> Sent(msgs[i].role, TextContent(msgs[i]))]
        <3> HIDE DEF f
        <3>1. \A i \in DOMAIN msgs :
                  f[msgs[i]] = Sent(msgs[i].role, TextContent(msgs[i]))
            BY <1>3, <2>1
        <3> QED
            BY <3>1 DEF Each
    <2> QED
        BY <1>2, <1>6, <2>2 DEF Written, Roles, TextWire, Joined
<1> QED
    BY <1>4, <1>5, <1>6 DEF Providers

LEMMA WrittenType ==
    ASSUME NEW p \in Providers, NEW msgs \in Seq(Messages)
    PROVE  Written(p, msgs) \in Seq(WireItems)
BY WrittenIsMerged, MergedType

LEMMA WrittenOfNone ==
    ASSUME NEW p \in Providers
    PROVE  Written(p, <<>>) = <<>>
<1>1. <<>> \in Seq(Messages)
    OBVIOUS
<1> QED
    BY <1>1, WrittenIsMerged, JoinedOfNone, MergedOfNone

LEMMA WrittenOfAppend ==
    ASSUME NEW p \in Providers, NEW msgs \in Seq(Messages), NEW m \in Messages
    PROVE  LET w == Written(p, msgs)
               c == ContentOf(p, m)
               longer == Written(p, Append(msgs, m))
           IN  \/ c = <<>> /\ longer = w
               \/ /\ c # <<>> /\ ~ (p = "openai" /\ IsResults(m))
                  /\ longer = Add(Roles(p), w, Item(m.role, c))
               \/ p = "openai" /\ IsResults(m) /\ longer = w \o Tools(c)
<1> DEFINE w == Written(p, msgs)
           c == ContentOf(p, m)
           longer == Written(p, Append(msgs, m))
           f == UnmergedOf(p)
           raw == Joined(msgs, f)
<1>1. raw \in Seq(WireItems) /\ w = Merged(Roles(p), raw)
    BY WrittenIsMerged
<1>2. longer = Merged(Roles(p), Joined(Append(msgs, m), f))
    BY AppendProperties, WrittenIsMerged
<1>3. Joined(Append(msgs, m), f) = raw \o Unmerged(p, m)
    <2>1. f \in [Messages -> Seq(WireItems)] /\ f[m] = Unmerged(p, m)
        BY UnmergedType DEF UnmergedOf
    <2> HIDE DEF f
    <2> QED
        BY <2>1, JoinedOfAppend
<1>4. c \in Seq(Block) /\ m.role \in {"user", "assistant"}
    BY ContentType, StoredFields DEF Messages
<1> HIDE DEF raw, w, c, longer, f
<1>5. CASE p = "openai" /\ IsResults(m)
    <2>1. Unmerged(p, m) = Tools(c)
        BY <1>5 DEF Unmerged, c
    <2>2. Tools(c) \in Seq({x \in WireItems : x.role \notin {"user"}})
        <3>1. {x \in WireItems : x.role = "tool"}
                  \subseteq {x \in WireItems : x.role \notin {"user"}}
            OBVIOUS
        <3>2. Tools(c) \in Seq({x \in WireItems : x.role = "tool"})
            BY <1>4, ToolsType
        <3> QED
            BY <3>1, <3>2, SeqMonotonic
    <2>3. Merged({"user"}, raw \o Tools(c)) = Merged({"user"}, raw) \o Tools(c)
        BY <1>1, <2>2, MergedOfOthers
    <2>4. Roles(p) = {"user"}
        BY <1>5 DEF Roles
    <2>5. longer = w \o Tools(c)
        BY <1>1, <1>2, <1>3, <2>1, <2>3, <2>4
    <2> QED
        BY <1>5, <2>5 DEF w, c, longer
<1>6. CASE c = <<>> /\ ~ (p = "openai" /\ IsResults(m))
    <2>1. Unmerged(p, m) = <<>>
        BY <1>6 DEF Unmerged, Sent, c
    <2>2. raw \o <<>> = raw
        BY <1>1, ConcatEmptySeq
    <2> QED
        BY <1>1, <1>2, <1>3, <1>6, <2>1, <2>2 DEF w, c, longer
<1>7. CASE c # <<>> /\ ~ (p = "openai" /\ IsResults(m))
    <2> DEFINE x == Item(m.role, c)
    <2>1. Unmerged(p, m) = <<x>> /\ x \in WireItems
        BY <1>4, <1>7, ItemType DEF Unmerged, Sent, c
    <2> HIDE DEF x
    <2>2. raw \o <<x>> = Append(raw, x)
        BY <1>1, <2>1, AppendToConcat
    <2>3. Merged(Roles(p), Append(raw, x)) = Add(Roles(p), Merged(Roles(p), raw), x)
        BY <1>1, <2>1, MergedOfAppend
    <2>4. longer = Add(Roles(p), w, x)
        BY <1>1, <1>2, <1>3, <2>1, <2>2, <2>3
    <2> QED
        BY <1>7, <2>4 DEF w, c, longer, x
<1> QED
    BY <1>5, <1>6, <1>7

-----------------------------------------------------------------------------
(***************************************************************************)
(* Nothing is lost.                                                        *)
(***************************************************************************)

Bearing(T) == \A x \in T : x.content \in Seq(Block)

ContentIn(T) == [x \in T |-> x.content]

LEMMA BlocksJoined ==
    ASSUME NEW T, NEW items \in Seq(T)
    PROVE  Blocks(items) = Joined(items, ContentIn(T))
<1> DEFINE f == ContentIn(T)
<1>1. \A i \in DOMAIN items : f[items[i]] = items[i].content
    BY DEF ContentIn
<1>2. Each(items, f) = [i \in DOMAIN items |-> items[i].content]
    <2> HIDE DEF f
    <2> QED
        BY <1>1 DEF Each
<1> QED
    BY <1>2 DEF Blocks, Joined

LEMMA BlocksOfNone == Blocks(<<>>) = <<>>
<1>1. <<>> \in Seq({})
    OBVIOUS
<1> QED
    BY <1>1, BlocksJoined, JoinedOfNone

LEMMA BlocksType ==
    ASSUME NEW T, Bearing(T), NEW items \in Seq(T)
    PROVE  Blocks(items) \in Seq(Block)
<1> DEFINE f == ContentIn(T)
<1>1. f \in [T -> Seq(Block)]
    BY DEF ContentIn, Bearing
<1>2. Blocks(items) = Joined(items, f)
    BY BlocksJoined
<1> HIDE DEF f
<1> QED
    BY <1>1, <1>2, JoinedType

LEMMA BlocksOfAppend ==
    ASSUME NEW T, Bearing(T), NEW items \in Seq(T), NEW x \in T
    PROVE  Blocks(Append(items, x)) = Blocks(items) \o x.content
<1> DEFINE f == ContentIn(T)
           more == Append(items, x)
<1>1. f \in [T -> Seq(Block)] /\ f[x] = x.content
    BY DEF ContentIn, Bearing
<1>2. more \in Seq(T)
    BY AppendProperties
<1>3. Blocks(items) = Joined(items, f)
    BY BlocksJoined
<1>4. Blocks(more) = Joined(more, f)
    <2> HIDE DEF more
    <2> QED
        BY <1>2, BlocksJoined
<1> HIDE DEF f
<1>5. Joined(Append(items, x), f) = Joined(items, f) \o f[x]
    BY <1>1, JoinedOfAppend
<1> QED
    BY <1>1, <1>3, <1>4, <1>5

LEMMA BlocksOfConcat ==
    ASSUME NEW T, Bearing(T), NEW s \in Seq(T), NEW t \in Seq(T)
    PROVE  Blocks(s \o t) = Blocks(s) \o Blocks(t)
<1> DEFINE f == ContentIn(T)
           u == s \o t
<1>1. f \in [T -> Seq(Block)] /\ u \in Seq(T)
    BY ConcatProperties DEF ContentIn, Bearing
<1>2. Blocks(s) = Joined(s, f) /\ Blocks(t) = Joined(t, f)
    BY BlocksJoined
<1>3. Blocks(u) = Joined(u, f)
    <2> HIDE DEF u
    <2> QED
        BY <1>1, BlocksJoined
<1> HIDE DEF f
<1>4. Joined(s \o t, f) = Joined(s, f) \o Joined(t, f)
    BY <1>1, JoinedOfConcat
<1> QED
    BY <1>2, <1>3, <1>4

LEMMA Bearers == Bearing(WireItems) /\ Bearing(Messages) /\ Bearing(Stored)
BY StoredFields DEF Bearing, WireItems, Messages

LEMMA BlocksOfAdd ==
    ASSUME NEW roles, NEW w \in Seq(WireItems), NEW x \in WireItems
    PROVE  Blocks(Add(roles, w, x)) = Blocks(w) \o x.content
<1>1. CASE Appends(roles, w, x)
    BY <1>1, Bearers, BlocksOfAppend DEF Appends
<1>2. CASE Extends(roles, w, x)
    <2> DEFINE y == Extended(w, x)
               front == Front(w)
               last == Last(w)
    <2>1. front \in Seq(WireItems) /\ last \in WireItems /\ w = Append(front, last)
        BY <1>2, LastAndFront DEF Extends
    <2>2. y \in WireItems /\ y.content = last.content \o x.content
        BY <1>2 DEF Item, Extends, Extended
    <2> HIDE DEF y, front, last
    <2>3. Blocks(Append(front, y)) = Blocks(front) \o y.content
        BY <2>1, <2>2, Bearers, BlocksOfAppend
    <2>4. Blocks(w) = Blocks(front) \o last.content
        BY <2>1, Bearers, BlocksOfAppend
    <2>5. /\ Blocks(front) \in Seq(Block) /\ last.content \in Seq(Block)
          /\ x.content \in Seq(Block)
        BY <2>1, Bearers, BlocksType DEF Bearing
    <2>6. (Blocks(front) \o last.content) \o x.content
              = Blocks(front) \o (last.content \o x.content)
        <3> DEFINE a == Blocks(front)
                   b == last.content
                   c == x.content
        <3>1. a \in Seq(Block) /\ b \in Seq(Block) /\ c \in Seq(Block)
            BY <2>5
        <3> HIDE DEF a, b, c
        <3>2. (a \o b) \o c = a \o (b \o c)
            BY <3>1, ConcatAssociative
        <3> QED
            BY <3>2 DEF a, b, c
    <2>7. Add(roles, w, x) = Append(front, y)
        BY <1>2 DEF front, y, Extends
    <2> QED
        BY <2>2, <2>3, <2>4, <2>6, <2>7
<1> QED
    BY <1>1, <1>2, AddCases

LEMMA BlocksOfTools ==
    ASSUME NEW blocks \in Seq(Block)
    PROVE  Blocks(Tools(blocks)) = blocks
<1> DEFINE S == {s \in Seq(Block) : Blocks(Tools(s)) = s}
<1>1. <<>> \in S
    <2>1. Tools(<<>>) = <<>>
        BY DEF Tools
    <2> QED
        BY <2>1, BlocksOfNone
<1>2. ASSUME NEW s \in Seq(Block), NEW b \in Block, s \in S
      PROVE  Append(s, b) \in S
    <2> DEFINE f == [c \in Block |-> Tool(c)]
    <2>1. \A t \in Seq(Block) : Tools(t) = Each(t, f)
        BY DEF Tools, Each
    <2>2. Append(s, b) \in Seq(Block) /\ f[b] = Tool(b)
        BY AppendProperties
    <2>3. Each(Append(s, b), f) = Append(Each(s, f), f[b])
        BY EachOfAppend
    <2> HIDE DEF f
    <2>4. Tools(Append(s, b)) = Append(Tools(s), Tool(b))
        BY <2>1, <2>2, <2>3
    <2>5. Tool(b) \in WireItems /\ Tool(b).content = <<b>>
        <3>1. <<b>> \in Seq(Block) /\ "tool" \in {"user", "assistant", "tool"}
            OBVIOUS
        <3> QED
            BY <3>1, ItemType DEF Tool
    <2>6. Tools(s) \in Seq(WireItems)
        BY ToolsType
    <2>7. Blocks(Append(Tools(s), Tool(b))) = Blocks(Tools(s)) \o <<b>>
        <3> DEFINE u == Tools(s)
                   x == Tool(b)
        <3>1. u \in Seq(WireItems) /\ x \in WireItems /\ x.content = <<b>>
            BY <2>5, <2>6
        <3> HIDE DEF u, x
        <3>2. Blocks(Append(u, x)) = Blocks(u) \o x.content
            BY <3>1, Bearers, BlocksOfAppend
        <3> QED
            BY <3>1, <3>2 DEF u, x
    <2>8. s \o <<b>> = Append(s, b)
        BY AppendToConcat
    <2> QED
        BY <1>2, <2>2, <2>4, <2>7, <2>8
<1> HIDE DEF S
<1>3. blocks \in S
    BY <1>1, <1>2, Lengthening
<1> QED
    BY <1>3 DEF S

LEMMA BlocksOfWritten ==
    ASSUME NEW p \in Providers, NEW msgs \in Seq(Messages), NEW m \in Messages
    PROVE  Blocks(Written(p, Append(msgs, m)))
               = Blocks(Written(p, msgs)) \o ContentOf(p, m)
<1> DEFINE w == Written(p, msgs)
           c == ContentOf(p, m)
           longer == Written(p, Append(msgs, m))
<1>1. w \in Seq(WireItems) /\ c \in Seq(Block) /\ m.role \in {"user", "assistant"}
    BY WrittenType, ContentType, StoredFields DEF Messages
<1>2. \/ c = <<>> /\ longer = w
      \/ longer = Add(Roles(p), w, Item(m.role, c))
      \/ longer = w \o Tools(c)
    BY WrittenOfAppend
<1> HIDE DEF w, c, longer
<1>3. CASE c = <<>> /\ longer = w
    <2>1. Blocks(w) \o <<>> = Blocks(w)
        BY <1>1, Bearers, BlocksType, ConcatEmptySeq
    <2> QED
        BY <1>3, <2>1 DEF w, c, longer
<1>4. CASE longer = Add(Roles(p), w, Item(m.role, c))
    <2> DEFINE x == Item(m.role, c)
    <2>1. x \in WireItems /\ x.content = c
        BY <1>1, ItemType
    <2> HIDE DEF x
    <2>2. Blocks(Add(Roles(p), w, x)) = Blocks(w) \o x.content
        BY <1>1, <2>1, BlocksOfAdd
    <2> QED
        BY <1>4, <2>1, <2>2 DEF w, c, longer, x
<1>5. CASE longer = w \o Tools(c)
    <2>1. Blocks(w \o Tools(c)) = Blocks(w) \o Blocks(Tools(c))
        BY <1>1, ToolsType, Bearers, BlocksOfConcat
    <2>2. Blocks(Tools(c)) = c
        BY <1>1, BlocksOfTools
    <2> QED
        BY <1>5, <2>1, <2>2 DEF w, c, longer
<1> QED
    BY <1>2, <1>3, <1>4, <1>5

LEMMA NamesInBlocks ==
    ASSUME NEW items, Blocks(items) \in Seq(Block), NEW kind
    PROVE  NamesIn(items, kind) = WireNames(Blocks(items), kind)
<1> DEFINE blocks == OfKind(Blocks(items), kind)
<1>1. blocks \in Seq(Block)
    BY OfKindType
<1>2. \A i \in DOMAIN blocks : WireNameOf[blocks[i]] = WireName(blocks[i].name)
    BY <1>1 DEF WireNameOf
<1> QED
    BY <1>2 DEF NamesIn, WireNames, Each

LEMMA WireNamesOfConcat ==
    ASSUME NEW s \in Seq(Block), NEW t \in Seq(Block), NEW kind
    PROVE  WireNames(s \o t, kind) = WireNames(s, kind) \o WireNames(t, kind)
<1> DEFINE a == OfKind(s, kind)
           b == OfKind(t, kind)
<1>1. a \in Seq(Block) /\ b \in Seq(Block) /\ OfKind(s \o t, kind) = a \o b
    BY OfKindType, OfKindOfConcat
<1> HIDE DEF a, b
<1>2. Each(a \o b, WireNameOf) = Each(a, WireNameOf) \o Each(b, WireNameOf)
    BY <1>1, EachOfConcat, SMTT(60)
<1> QED
    BY <1>1, <1>2 DEF WireNames, a, b

LEMMA WireNamesType ==
    ASSUME NEW s \in Seq(Block), NEW kind
    PROVE  WireNames(s, kind) \in Seq(Names)
<1>1. \A b \in Block : WireNameOf[b] \in Names
    BY WireNameType DEF WireNameOf, Block
<1>2. OfKind(s, kind) \in Seq(Block)
    BY OfKindType
<1> QED
    BY <1>1, <1>2, EachType DEF WireNames

\* What WireComplete says of the blocks written and the blocks kept.
Complete(p, out, kept) ==
    /\ \A kind \in {"call", "result"} :
           WireNames(out, kind) = WireNames(kept, kind)
    /\ WireNames(out, "text") = Those(WireNames(kept, "text"), Names \ {Empty})
    /\ IF p = "anthropic"
       THEN out = Those(Each(kept, WireBlockOf), Sendable)
       ELSE OfKind(out, "opaque") = <<>>

LEMMA CompleteOfConcat ==
    ASSUME NEW p, NEW out \in Seq(Block), NEW kept \in Seq(Block),
           NEW more \in Seq(Block), NEW rest \in Seq(Block),
           Complete(p, out, kept), Complete(p, more, rest)
    PROVE  Complete(p, out \o more, kept \o rest)
<1>1. \A kind : /\ WireNames(out \o more, kind)
                       = WireNames(out, kind) \o WireNames(more, kind)
                /\ WireNames(kept \o rest, kind)
                       = WireNames(kept, kind) \o WireNames(rest, kind)
    BY WireNamesOfConcat, SMTT(60)
<1>2. \A kind \in {"call", "result"} :
          WireNames(out \o more, kind) = WireNames(kept \o rest, kind)
    BY <1>1 DEF Complete
<1>3. WireNames(out \o more, "text")
          = Those(WireNames(kept \o rest, "text"), Names \ {Empty})
    <2> DEFINE a == WireNames(kept, "text")
               b == WireNames(rest, "text")
               S == Names \ {Empty}
    <2>1. a \in Seq(Names) /\ b \in Seq(Names)
        BY WireNamesType
    <2>2. WireNames(kept \o rest, "text") = a \o b
        BY <1>1
    <2>3. WireNames(out \o more, "text") = Those(a, S) \o Those(b, S)
        BY <1>1 DEF Complete
    <2> HIDE DEF a, b, S
    <2>4. Those(a \o b, S) = Those(a, S) \o Those(b, S)
        BY <2>1, ThoseOfConcat
    <2> QED
        BY <2>2, <2>3, <2>4 DEF S
<1>4. CASE p = "anthropic"
    <2> DEFINE a == Each(kept, WireBlockOf)
               b == Each(rest, WireBlockOf)
    <2>1. a \in Seq(Block) /\ b \in Seq(Block)
        BY WireBlockOfKinds, EachType
    <2>2. Each(kept \o rest, WireBlockOf) = a \o b
        BY EachOfConcat, SMTT(60)
    <2>3. out \o more = Those(a, Sendable) \o Those(b, Sendable)
        BY <1>4 DEF Complete
    <2> DEFINE S == Sendable
               T == Block
    <2>4. a \in Seq(T) /\ b \in Seq(T)
        BY <2>1
    <2> HIDE DEF a, b, S, T
    <2>5. Those(a \o b, S) = Those(a, S) \o Those(b, S)
        BY <2>4, ThoseOfConcat
    <2> QED
        BY <1>2, <1>3, <1>4, <2>2, <2>3, <2>5 DEF Complete, S
<1>5. CASE p # "anthropic"
    <2>1. OfKind(out \o more, "opaque") = <<>> \o <<>>
        BY <1>5, OfKindOfConcat DEF Complete
    <2>2. <<>> \o <<>> = <<>>
        BY ConcatEmptySeq, EmptySeq
    <2> QED
        BY <1>2, <1>3, <1>5, <2>1, <2>2 DEF Complete
<1> QED
    BY <1>4, <1>5

LEMMA WrittenComplete ==
    ASSUME NEW p \in Providers, NEW msgs \in Seq(Messages)
    PROVE  Complete(p, Blocks(Written(p, msgs)), Blocks(msgs))
<1> DEFINE S == {s \in Seq(Messages) :
                    Complete(p, Blocks(Written(p, s)), Blocks(s))}
<1>1. <<>> \in S
    <2>1. /\ Blocks(Written(p, <<>>)) = <<>> /\ Blocks(<<>>) = <<>>
          /\ <<>> \in Seq(Messages)
        BY WrittenOfNone, BlocksOfNone, EmptySeq
    <2>2. \A kind : WireNames(<<>>, kind) = <<>>
        BY OfKindOfNone, EachOfNone DEF WireNames
    <2>3. Complete(p, <<>>, <<>>)
        BY <2>2, OfKindOfNone, EachOfNone, ThoseOfNone DEF Complete
    <2> QED
        BY <2>1, <2>3
<1>2. ASSUME NEW s \in Seq(Messages), NEW m \in Messages, s \in S
      PROVE  Append(s, m) \in S
    <2> DEFINE out == Blocks(Written(p, s))
               kept == Blocks(s)
               more == ContentOf(p, m)
    <2>1. out \in Seq(Block) /\ kept \in Seq(Block)
        BY WrittenType, Bearers, BlocksType
    <2>2. more \in Seq(Block) /\ m.content \in Seq(Block)
        BY ContentType, StoredFields DEF Messages
    <2>3. Complete(p, more, m.content)
        BY ContentComplete DEF Messages, Complete, WireNames
    <2>4. Complete(p, out, kept)
        BY <1>2
    <2>5. /\ Append(s, m) \in Seq(Messages)
          /\ Blocks(Written(p, Append(s, m))) = out \o more
          /\ Blocks(Append(s, m)) = kept \o m.content
        BY AppendProperties, BlocksOfWritten, Bearers, BlocksOfAppend
    <2> HIDE DEF out, kept, more
    <2>6. Complete(p, out \o more, kept \o m.content)
        BY <2>1, <2>2, <2>3, <2>4, CompleteOfConcat
    <2> QED
        BY <2>5, <2>6
<1> HIDE DEF S
<1>3. msgs \in S
    BY <1>1, <1>2, Lengthening
<1> QED
    BY <1>3 DEF S

-----------------------------------------------------------------------------
(***************************************************************************)
(* Calls and their results.  The wire so far awaits the results of some    *)
(* calls: followed by these, it would be paired.                           *)
(***************************************************************************)

Answer(name) == [kind |-> "result", name |-> name]

Answers(names) == [i \in DOMAIN names |-> Answer(names[i])]

\* The results the calls ask for are the first of what follows.
Answered(calls, rest) ==
    \A j \in DOMAIN calls :
        j \in DOMAIN rest /\ rest[j] = Answer(calls[j].name)

After(w, i) == Blocks(SubSeq(w, i + 1, Len(w)))

CallsIn(blocks) == OfKind(blocks, "call")

NamesOfKind(blocks, kind) == NamesOf(OfKind(blocks, kind))

Awaits(w, due) ==
    /\ \A i \in DOMAIN w :
           Answered(CallsIn(w[i].content), After(w, i) \o Answers(due))
    /\ NamesOfKind(Blocks(w), "result") \o due = NamesOfKind(Blocks(w), "call")

LEMMA AnswersType ==
    ASSUME NEW names \in Seq(Names)
    PROVE  /\ Answers(names) \in Seq(Block) /\ Len(Answers(names)) = Len(names)
           /\ \A i \in 1..Len(names) : Answers(names)[i] = Answer(names[i])
<1>1. \A i \in 1..Len(names) : Answer(names[i]) \in Block
    <2>1. \A i \in 1..Len(names) : names[i] \in Names
        OBVIOUS
    <2> QED
        BY <2>1 DEF Answer, Block
<1>2. Answers(names) = [i \in 1..Len(names) |-> Answer(names[i])]
    BY DEF Answers
<1> QED
    BY <1>1, <1>2

LEMMA AnswersOfNone == Answers(<<>>) = <<>>
BY DEF Answers

LEMMA AnswersOfConcat ==
    ASSUME NEW s \in Seq(Names), NEW t \in Seq(Names)
    PROVE  Answers(s \o t) = Answers(s) \o Answers(t)
<1> DEFINE f == [name \in Names |-> Answer(name)]
<1>1. \A u \in Seq(Names) : Answers(u) = Each(u, f)
    BY DEF Answers, Each
<1>2. s \o t \in Seq(Names)
    BY ConcatProperties
<1> HIDE DEF f
<1>3. Each(s \o t, f) = Each(s, f) \o Each(t, f)
    BY EachOfConcat
<1> QED
    BY <1>1, <1>2, <1>3

\* Results are the answers to their names.
LEMMA ResultsAreAnswers ==
    ASSUME NEW s \in Seq(Kind("result"))
    PROVE  s = Answers(NamesOf(s)) /\ NamesOf(s) \in Seq(Names)
<1>1. \A i \in 1..Len(s) : s[i].name \in Names /\ s[i] = Answer(s[i].name)
    <2>1. \A i \in 1..Len(s) : s[i] \in Kind("result")
        OBVIOUS
    <2> QED
        BY <2>1 DEF Kind, Answer
<1>2. NamesOf(s) = [i \in 1..Len(s) |-> s[i].name]
    BY DEF NamesOf
<1>3. NamesOf(s) \in Seq(Names) /\ Len(NamesOf(s)) = Len(s)
    BY <1>1, <1>2
<1>4. /\ Answers(NamesOf(s)) \in Seq(Block)
      /\ Len(Answers(NamesOf(s))) = Len(s)
      /\ \A i \in 1..Len(s) : Answers(NamesOf(s))[i] = Answer(s[i].name)
    <2> DEFINE n == NamesOf(s)
    <2>1. n \in Seq(Names) /\ Len(n) = Len(s) /\ \A i \in 1..Len(s) : n[i] = s[i].name
        BY <1>2, <1>3
    <2> HIDE DEF n
    <2>2. /\ Answers(n) \in Seq(Block) /\ Len(Answers(n)) = Len(n)
          /\ \A i \in 1..Len(n) : Answers(n)[i] = Answer(n[i])
        BY <2>1, AnswersType
    <2> QED
        BY <2>1, <2>2 DEF n
<1>5. s \in Seq(Block)
    <2>1. Kind("result") \subseteq Block
        BY KindsAreBlocks DEF Kinds
    <2> QED
        BY <2>1, SeqMonotonic
<1>6. s = Answers(NamesOf(s))
    BY <1>1, <1>4, <1>5, SeqEqual
<1> QED
    BY <1>3, <1>6

LEMMA AnsweredLonger ==
    ASSUME NEW calls, NEW rest \in Seq(Block), NEW more \in Seq(Block),
           Answered(calls, rest)
    PROVE  Answered(calls, rest \o more)
<1>1. /\ DOMAIN rest = 1..Len(rest) /\ DOMAIN (rest \o more) = 1..Len(rest \o more)
      /\ Len(rest \o more) = Len(rest) + Len(more)
      /\ Len(rest) \in Nat /\ Len(more) \in Nat
      /\ \A i \in 1..Len(rest) + Len(more) :
             (rest \o more)[i] = IF i <= Len(rest) THEN rest[i]
                                 ELSE more[i - Len(rest)]
    BY ConcatProperties, LenProperties
<1> SUFFICES ASSUME NEW j \in DOMAIN calls
             PROVE  /\ j \in DOMAIN (rest \o more)
                    /\ (rest \o more)[j] = Answer(calls[j].name)
    BY DEF Answered
<1>2. j \in 1..Len(rest) /\ rest[j] = Answer(calls[j].name)
    BY <1>1 DEF Answered
<1>3. j \in 1..Len(rest) + Len(more) /\ j <= Len(rest)
    BY <1>1, <1>2
<1> QED
    BY <1>1, <1>2, <1>3

LEMMA AnsweredByAnswers ==
    ASSUME NEW calls \in Seq(Block)
    PROVE  Answered(calls, Answers(NamesOf(calls)))
BY DEF Answered, Answers, NamesOf

LEMMA NoneAnswered == ASSUME NEW rest PROVE Answered(<<>>, rest)
BY DEF Answered

\* The content of an item that makes no calls and either begins with the
\* results that are due or, when none are, has none.
Supplies(c, due, left) ==
    /\ c \in Seq(Block) /\ due \in Seq(Names) /\ left \in Seq(Names)
    /\ CallsIn(c) = <<>>
    /\ NamesOfKind(c, "result") \o left = due
    /\ c \o Answers(left) = Answers(due) \/ due = <<>>

LEMMA AnsweredWhenSupplied ==
    ASSUME NEW calls, NEW rest \in Seq(Block), NEW c, NEW due, NEW left,
           Supplies(c, due, left), Answered(calls, rest \o Answers(due))
    PROVE  Answered(calls, (rest \o c) \o Answers(left))
<1>1. /\ c \in Seq(Block) /\ Answers(left) \in Seq(Block)
      /\ Answers(due) \in Seq(Block)
    BY AnswersType DEF Supplies
<1>2. (rest \o c) \o Answers(left) = rest \o (c \o Answers(left))
    <2> DEFINE a == Answers(left)
               T == Block
    <2>1. a \in Seq(T) /\ rest \in Seq(T) /\ c \in Seq(T)
        BY <1>1
    <2> HIDE DEF a, T
    <2>2. (rest \o c) \o a = rest \o (c \o a)
        BY <2>1, ConcatAssociative
    <2> QED
        BY <2>2 DEF a
<1>3. CASE c \o Answers(left) = Answers(due)
    BY <1>2, <1>3
<1>4. CASE due = <<>>
    <2>1. rest \o Answers(due) = rest
        BY <1>4, AnswersOfNone, ConcatEmptySeq
    <2>2. c \o Answers(left) \in Seq(Block)
        BY <1>1, ConcatProperties
    <2> DEFINE more == c \o Answers(left)
    <2> HIDE DEF more
    <2>3. Answered(calls, rest \o more)
        BY <2>1, <2>2, AnsweredLonger DEF more
    <2> QED
        BY <1>2, <2>3 DEF more
<1> QED
    BY <1>3, <1>4 DEF Supplies

LEMMA AfterAppend ==
    ASSUME NEW w \in Seq(WireItems), NEW x \in WireItems
    PROVE  /\ \A i \in 1..Len(w) :
                  /\ After(Append(w, x), i) = After(w, i) \o x.content
                  /\ After(w, i) \in Seq(Block)
           /\ After(Append(w, x), Len(w) + 1) = <<>>
<1> DEFINE long == Append(w, x)
<1>1. /\ long \in Seq(WireItems) /\ Len(long) = Len(w) + 1 /\ Len(w) \in Nat
      /\ long[Len(w) + 1] = x /\ \A i \in 1..Len(w) : long[i] = w[i]
    BY AppendProperties, LenProperties
<1>2. After(long, Len(w) + 1) = <<>>
    <2>1. SubSeq(long, Len(w) + 1 + 1, Len(long)) = <<>>
        BY <1>1, SubSeqEmpty
    <2> QED
        BY <2>1, BlocksOfNone DEF After
<1>3. ASSUME NEW i \in 1..Len(w)
      PROVE  /\ After(long, i) = After(w, i) \o x.content
             /\ After(w, i) \in Seq(Block)
    <2> DEFINE rest == SubSeq(w, i + 1, Len(w))
    <2>1. /\ rest \in Seq(WireItems) /\ Len(rest) = Len(w) - i
          /\ \A j \in 1..(Len(w) - i) : rest[j] = w[i + j]
        BY <1>1
    <2>2. SubSeq(long, i + 1, Len(long)) = Append(rest, x)
        <3> DEFINE left == SubSeq(long, i + 1, Len(w) + 1)
                   right == Append(rest, x)
        <3>1. /\ right \in Seq(WireItems) /\ Len(right) = Len(w) - i + 1
              /\ right[Len(w) - i + 1] = x
              /\ \A j \in 1..(Len(w) - i) : right[j] = w[i + j]
            <4> HIDE DEF rest
            <4>1. /\ right \in Seq(WireItems) /\ Len(right) = Len(rest) + 1
                  /\ right[Len(rest) + 1] = x
                  /\ \A j \in 1..Len(rest) : right[j] = rest[j]
                BY <2>1, AppendProperties
            <4> HIDE DEF right
            <4> QED
                BY <1>1, <2>1, <4>1
        <3> HIDE DEF long
        <3>2. /\ left \in Seq(WireItems) /\ Len(left) = Len(w) - i + 1
              /\ \A j \in 1..(Len(w) - i + 1) : left[j] = long[i + j]
            BY <1>1
        <3> HIDE DEF left, right
        <3>3. ASSUME NEW j \in 1..(Len(w) - i + 1) PROVE left[j] = right[j]
            <4>1. CASE j = Len(w) - i + 1
                <5>1. i + j = Len(w) + 1
                    BY <1>1, <4>1
                <5> QED
                    BY <1>1, <3>1, <3>2, <4>1, <5>1
            <4>2. CASE j # Len(w) - i + 1
                <5>1. j \in 1..(Len(w) - i) /\ i + j \in 1..Len(w)
                    BY <1>1, <4>2
                <5> QED
                    BY <1>1, <3>1, <3>2, <5>1
            <4> QED
                BY <4>1, <4>2
        <3>4. left = right
            BY <3>1, <3>2, <3>3, SeqEqual
        <3> QED
            BY <1>1, <3>4 DEF left, right
    <2> HIDE DEF rest, long
    <2>3. Blocks(Append(rest, x)) = Blocks(rest) \o x.content
        BY <2>1, Bearers, BlocksOfAppend
    <2>4. Blocks(rest) \in Seq(Block)
        BY <2>1, Bearers, BlocksType
    <2> QED
        BY <2>2, <2>3, <2>4 DEF After, rest
<1> QED
    BY <1>2, <1>3 DEF long

LEMMA NamesOfKindType ==
    ASSUME NEW s \in Seq(Block), NEW kind
    PROVE  NamesOfKind(s, kind) \in Seq(Names)
BY OfKindType, NamesOfIsEach DEF NamesOfKind

LEMMA NamesOfKindOfConcat ==
    ASSUME NEW s \in Seq(Block), NEW t \in Seq(Block), NEW kind
    PROVE  NamesOfKind(s \o t, kind)
               = NamesOfKind(s, kind) \o NamesOfKind(t, kind)
<1> DEFINE a == OfKind(s, kind)
           b == OfKind(t, kind)
           T == Block
<1>1. a \in Seq(T) /\ b \in Seq(T) /\ OfKind(s \o t, kind) = a \o b
    BY OfKindType, OfKindOfConcat
<1>2. NamesOf(a) = Each(a, NameOf) /\ NamesOf(b) = Each(b, NameOf)
    BY OfKindType, NamesOfIsEach
<1>3. NamesOf(a \o b) = Each(a \o b, NameOf)
    <2> HIDE DEF a, b
    <2>1. a \o b \in Seq(Block)
        BY <1>1, ConcatProperties
    <2> QED
        BY <2>1, NamesOfIsEach
<1> HIDE DEF a, b, T
<1>4. Each(a \o b, NameOf) = Each(a, NameOf) \o Each(b, NameOf)
    BY <1>1, EachOfConcat
<1> QED
    BY <1>1, <1>2, <1>3, <1>4 DEF NamesOfKind, a, b

LEMMA SuppliedNames ==
    ASSUME NEW b \in Seq(Block), NEW c, NEW due, NEW left,
           Supplies(c, due, left),
           NamesOfKind(b, "result") \o due = NamesOfKind(b, "call")
    PROVE  NamesOfKind(b \o c, "result") \o left = NamesOfKind(b \o c, "call")
<1> DEFINE rb == NamesOfKind(b, "result")
           rc == NamesOfKind(c, "result")
           cb == NamesOfKind(b, "call")
           T == Names
<1>1. rb \in Seq(T) /\ rc \in Seq(T) /\ cb \in Seq(T) /\ left \in Seq(T)
    BY NamesOfKindType DEF Supplies
<1>2. NamesOfKind(b \o c, "result") = rb \o rc
    BY NamesOfKindOfConcat DEF Supplies
<1>3. NamesOfKind(b \o c, "call") = cb \o <<>>
    <2>1. NamesOfKind(c, "call") = <<>>
        BY NamesOfNone DEF Supplies, CallsIn, NamesOfKind
    <2>2. c \in Seq(Block)
        BY DEF Supplies
    <2>3. NamesOfKind(b \o c, "call")
              = NamesOfKind(b, "call") \o NamesOfKind(c, "call")
        BY <2>2, NamesOfKindOfConcat
    <2> QED
        BY <2>1, <2>3
<1>4. rc \o left = due /\ rb \o due = cb
    BY DEF Supplies
<1> HIDE DEF rb, rc, cb, T
<1>5. (rb \o rc) \o left = rb \o (rc \o left) /\ cb \o <<>> = cb
    BY <1>1, ConcatAssociative, ConcatEmptySeq
<1> QED
    BY <1>2, <1>3, <1>4, <1>5

LEMMA AwaitsAppended ==
    ASSUME NEW w \in Seq(WireItems), NEW x \in WireItems, NEW due, NEW left,
           Awaits(w, due), Supplies(x.content, due, left)
    PROVE  Awaits(Append(w, x), left)
<1> DEFINE long == Append(w, x)
           c == x.content
<1>1. /\ long \in Seq(WireItems) /\ Len(long) = Len(w) + 1 /\ Len(w) \in Nat
      /\ long[Len(w) + 1] = x /\ \A i \in 1..Len(w) : long[i] = w[i]
      /\ DOMAIN w = 1..Len(w) /\ DOMAIN long = 1..(Len(w) + 1)
    BY AppendProperties, LenProperties
<1>2. c \in Seq(Block) /\ Blocks(w) \in Seq(Block)
    BY Bearers, BlocksType DEF Bearing
<1>3. Blocks(long) = Blocks(w) \o c
    BY Bearers, BlocksOfAppend
<1>4. /\ \A i \in 1..Len(w) :
             After(long, i) = After(w, i) \o c /\ After(w, i) \in Seq(Block)
      /\ After(long, Len(w) + 1) = <<>>
    BY AfterAppend
<1>5. CallsIn(c) = <<>>
    BY DEF Supplies
<1> HIDE DEF long, c
<1>6. ASSUME NEW i \in 1..(Len(w) + 1)
      PROVE  Answered(CallsIn(long[i].content), After(long, i) \o Answers(left))
    <2>1. CASE i = Len(w) + 1
        <3>1. CallsIn(long[i].content) = <<>>
            BY <1>1, <1>5, <2>1 DEF c
        <3> QED
            BY <3>1, NoneAnswered
    <2>2. CASE i # Len(w) + 1
        <3>1. i \in 1..Len(w)
            BY <1>1, <2>2
        <3> DEFINE calls == CallsIn(w[i].content)
                   rest == After(w, i)
        <3>2. Answered(calls, rest \o Answers(due))
            BY <1>1, <3>1 DEF Awaits
        <3>3. rest \in Seq(Block)
            BY <1>4, <3>1
        <3> HIDE DEF calls, rest
        <3>4. Answered(calls, (rest \o c) \o Answers(left))
            BY <3>2, <3>3, AnsweredWhenSupplied DEF c
        <3> QED
            BY <1>1, <1>4, <3>1, <3>4 DEF calls, rest
    <2> QED
        BY <2>1, <2>2
<1>7. NamesOfKind(Blocks(w) \o c, "result") \o left
          = NamesOfKind(Blocks(w) \o c, "call")
    BY <1>2, SuppliedNames DEF Awaits, c
<1>8. Awaits(long, left)
    BY <1>1, <1>3, <1>6, <1>7 DEF Awaits
<1> QED
    BY <1>8 DEF long

LEMMA AwaitsExtended ==
    ASSUME NEW w \in Seq(WireItems), NEW x \in WireItems, NEW due, NEW left,
           NEW roles, Extends(roles, w, x), CallsIn(Last(w).content) = <<>>,
           Awaits(w, due), Supplies(x.content, due, left)
    PROVE  Awaits(Append(Front(w), Extended(w, x)), left)
<1> DEFINE front == Front(w)
           last == Last(w)
           y == Extended(w, x)
           long == Append(front, y)
           c == x.content
           n == Len(front)
<1>1. /\ front \in Seq(WireItems) /\ last \in WireItems /\ y \in WireItems
      /\ n \in Nat /\ w = Append(front, last)
      /\ y.content = last.content \o c
    <2>1. w # <<>> /\ y \in WireItems
        BY DEF Extends
    <2>2. y.content = last.content \o c
        BY DEF Extended, Item
    <2>3. front \in Seq(WireItems) /\ last \in WireItems /\ w = Append(front, last)
        BY <2>1, LastAndFront
    <2> HIDE DEF front, last, y
    <2> QED
        BY <2>1, <2>2, <2>3, LenProperties
<1>2. /\ c \in Seq(Block) /\ Blocks(w) \in Seq(Block)
      /\ last.content \in Seq(Block) /\ Blocks(front) \in Seq(Block)
    BY <1>1, Bearers, BlocksType DEF Bearing
<1>3. CallsIn(c) = <<>> /\ CallsIn(last.content) = <<>>
    BY DEF Supplies
<1> HIDE DEF front, last, y, c
<1>4. /\ Len(long) = n + 1 /\ long[n + 1] = y
      /\ \A i \in 1..n : long[i] = front[i] /\ w[i] = front[i]
      /\ DOMAIN w = 1..(n + 1) /\ DOMAIN long = 1..(n + 1)
    <2>1. /\ long \in Seq(WireItems) /\ Len(long) = n + 1 /\ long[n + 1] = y
          /\ \A i \in 1..n : long[i] = front[i]
        BY <1>1, AppendProperties
    <2>2. /\ Len(w) = n + 1 /\ \A i \in 1..n : w[i] = front[i]
        BY <1>1, AppendProperties
    <2> HIDE DEF long
    <2> QED
        BY <2>1, <2>2, LenProperties
<1>5. \A i \in 1..n : /\ After(long, i) = After(front, i) \o y.content
                      /\ After(w, i) = After(front, i) \o last.content
                      /\ After(front, i) \in Seq(Block)
    BY <1>1, AfterAppend
<1>6. /\ Blocks(long) = Blocks(front) \o y.content
      /\ Blocks(w) = Blocks(front) \o last.content
    BY <1>1, Bearers, BlocksOfAppend
<1>7. \A b \in Seq(Block) : (b \o last.content) \o c = b \o y.content
    <2> SUFFICES ASSUME NEW b \in Seq(Block)
                 PROVE  (b \o last.content) \o c = b \o y.content
        OBVIOUS
    <2> DEFINE l == last.content
               T == Block
    <2>1. b \in Seq(T) /\ l \in Seq(T) /\ c \in Seq(T)
        BY <1>2
    <2> HIDE DEF l, T
    <2>2. (b \o l) \o c = b \o (l \o c)
        BY <2>1, ConcatAssociative
    <2> QED
        BY <1>1, <2>2 DEF l
<1> HIDE DEF long, n
<1>8. ASSUME NEW i \in 1..(n + 1)
      PROVE  Answered(CallsIn(long[i].content), After(long, i) \o Answers(left))
    <2>1. CASE i = n + 1
        <3>1. CallsIn(long[i].content) = CallsIn(last.content \o c)
            BY <1>1, <1>4, <2>1
        <3>2. CallsIn(last.content \o c) = <<>> \o <<>>
            BY <1>2, <1>3, OfKindOfConcat DEF CallsIn
        <3>3. <<>> \o <<>> = <<>>
            BY ConcatEmptySeq, EmptySeq
        <3> QED
            BY <3>1, <3>2, <3>3, NoneAnswered
    <2>2. CASE i # n + 1
        <3>1. i \in 1..n /\ i \in 1..(n + 1)
            BY <1>1, <2>2
        <3> DEFINE calls == CallsIn(w[i].content)
                   rest == After(w, i)
        <3>2. Answered(calls, rest \o Answers(due))
            BY <1>4, <3>1 DEF Awaits
        <3>3. rest \in Seq(Block)
            <4> DEFINE f == After(front, i)
                       l == last.content
            <4>1. f \in Seq(Block) /\ l \in Seq(Block) /\ rest = f \o l
                BY <1>2, <1>5, <3>1
            <4> HIDE DEF f, l
            <4> QED
                BY <4>1, ConcatProperties
        <3>4. rest \o c = After(long, i)
            BY <1>5, <1>7, <3>1
        <3> HIDE DEF calls, rest
        <3>5. Answered(calls, (rest \o c) \o Answers(left))
            BY <3>2, <3>3, AnsweredWhenSupplied DEF c
        <3> QED
            BY <1>4, <3>1, <3>4, <3>5 DEF calls
    <2> QED
        BY <2>1, <2>2
<1>9. NamesOfKind(Blocks(w) \o c, "result") \o left
          = NamesOfKind(Blocks(w) \o c, "call")
    BY <1>2, SuppliedNames, ZenonT(60) DEF Awaits, c
<1>10. Blocks(w) \o c = Blocks(long)
    BY <1>2, <1>6, <1>7
<1>11. Awaits(long, left)
    BY <1>4, <1>8, <1>9, <1>10 DEF Awaits
<1> QED
    BY <1>11 DEF long, front, y

LEMMA AwaitsCalls ==
    ASSUME NEW w \in Seq(WireItems), NEW x \in WireItems,
           Awaits(w, <<>>), NamesOfKind(x.content, "result") = <<>>
    PROVE  Awaits(Append(w, x), NamesOfKind(x.content, "call"))
<1> DEFINE long == Append(w, x)
           c == x.content
           calls == CallsIn(c)
           due == NamesOfKind(c, "call")
<1>1. /\ long \in Seq(WireItems) /\ Len(long) = Len(w) + 1 /\ Len(w) \in Nat
      /\ long[Len(w) + 1] = x /\ \A i \in 1..Len(w) : long[i] = w[i]
      /\ DOMAIN w = 1..Len(w) /\ DOMAIN long = 1..(Len(w) + 1)
    BY AppendProperties, LenProperties
<1>2. c \in Seq(Block) /\ Blocks(w) \in Seq(Block)
    BY Bearers, BlocksType DEF Bearing
<1>3. Blocks(long) = Blocks(w) \o c
    BY Bearers, BlocksOfAppend
<1>4. /\ \A i \in 1..Len(w) :
             After(long, i) = After(w, i) \o c /\ After(w, i) \in Seq(Block)
      /\ After(long, Len(w) + 1) = <<>>
    BY AfterAppend
<1>5. calls \in Seq(Block) /\ due = NamesOf(calls) /\ due \in Seq(Names)
    BY <1>2, OfKindType, NamesOfKindType DEF CallsIn, NamesOfKind
<1>6. Answers(due) \in Seq(Block)
    BY <1>5, AnswersType
<1>7. ASSUME NEW i \in 1..(Len(w) + 1)
      PROVE  Answered(CallsIn(long[i].content), After(long, i) \o Answers(due))
    <2>1. CASE i = Len(w) + 1
        <3>1. long[i].content = c /\ After(long, i) = <<>>
            BY <1>1, <1>4, <2>1
        <3>2. <<>> \o Answers(due) = Answers(due)
            BY <1>6, ConcatEmptySeq
        <3>3. Answered(calls, Answers(due))
            BY <1>5, AnsweredByAnswers
        <3> QED
            BY <3>1, <3>2, <3>3
    <2>2. CASE i # Len(w) + 1
        <3>1. i \in 1..Len(w)
            BY <1>1, <2>2
        <3> DEFINE these == CallsIn(w[i].content)
                   rest == After(w, i)
                   a == Answers(due)
                   T == Block
        <3>2. Answered(these, rest \o Answers(<<>>))
            BY <1>1, <3>1 DEF Awaits
        <3>3. rest \in Seq(T) /\ a \in Seq(T) /\ c \in Seq(T)
            BY <1>2, <1>4, <1>6, <3>1
        <3>4. long[i] = w[i] /\ After(long, i) = rest \o c
            BY <1>1, <1>4, <3>1
        <3> HIDE DEF these, rest, a, T, c, long
        <3>5. (rest \o c) \o a = rest \o (c \o a) /\ rest \o <<>> = rest
            BY <3>3, ConcatAssociative, ConcatEmptySeq
        <3>6. c \o a \in Seq(T)
            BY <3>3, ConcatProperties
        <3>7. Answered(these, rest \o (c \o a))
            <4> DEFINE more == c \o a
            <4>1. rest \in Seq(Block) /\ more \in Seq(Block)
                BY <3>3, <3>6 DEF T
            <4>2. Answered(these, rest)
                BY <3>2, <3>5, AnswersOfNone
            <4> HIDE DEF more
            <4>3. Answered(these, rest \o more)
                BY <4>1, <4>2, AnsweredLonger
            <4> QED
                BY <4>3 DEF more
        <3> QED
            BY <3>4, <3>5, <3>7 DEF these, a
    <2> QED
        BY <2>1, <2>2
<1>8. NamesOfKind(Blocks(w) \o c, "result") \o due
          = NamesOfKind(Blocks(w) \o c, "call")
    <2> DEFINE rb == NamesOfKind(Blocks(w), "result")
               cb == NamesOfKind(Blocks(w), "call")
               T == Names
    <2>1. rb \in Seq(T) /\ cb \in Seq(T) /\ rb \o <<>> = cb
        BY <1>2, NamesOfKindType DEF Awaits
    <2>2. /\ NamesOfKind(Blocks(w) \o c, "result") = rb \o <<>>
          /\ NamesOfKind(Blocks(w) \o c, "call") = cb \o due
        <3> DEFINE b == Blocks(w)
        <3>1. b \in Seq(Block)
            BY <1>2
        <3> HIDE DEF b, c
        <3>2. \A kind : NamesOfKind(b \o c, kind)
                            = NamesOfKind(b, kind) \o NamesOfKind(c, kind)
            BY <1>2, <3>1, NamesOfKindOfConcat
        <3> QED
            BY <3>2 DEF b, c
    <2> HIDE DEF rb, cb, T, due
    <2>3. rb \o <<>> = rb
        BY <2>1, ConcatEmptySeq
    <2> QED
        BY <2>1, <2>2, <2>3
<1> HIDE DEF long, c, due
<1>9. Awaits(long, due)
    BY <1>1, <1>3, <1>7, <1>8 DEF Awaits
<1> QED
    BY <1>9 DEF long, due, c

-----------------------------------------------------------------------------
(***************************************************************************)
(* Roles.                                                                  *)
(***************************************************************************)

Allowed(p, role) ==
    \/ role = "tool" /\ p = "openai"
    \/ role = "user" /\ p = "anthropic"

FitItem(x) ==
    x.content # <<>> /\ (x.role = "user" => CallsIn(x.content) = <<>>)

Fine(p, w) ==
    /\ \A i \in DOMAIN w : FitItem(w[i])
    /\ w # <<>> => w[1].role = "user"
    /\ \A i \in 2..Len(w) : w[i].role = w[i - 1].role => Allowed(p, w[i].role)

LEMMA FineAppended ==
    ASSUME NEW p, NEW w \in Seq(WireItems), NEW x \in WireItems,
           Fine(p, w), FitItem(x),
           w = <<>> => x.role = "user",
           w # <<>> /\ Last(w).role = x.role => Allowed(p, x.role)
    PROVE  Fine(p, Append(w, x))
<1> DEFINE long == Append(w, x)
           n == Len(w)
<1>1. /\ long \in Seq(WireItems) /\ Len(long) = n + 1 /\ n \in Nat
      /\ long[n + 1] = x /\ \A i \in 1..n : long[i] = w[i]
      /\ DOMAIN w = 1..n /\ DOMAIN long = 1..(n + 1) /\ long # <<>>
    BY AppendProperties, LenProperties
<1>2. n = 0 <=> w = <<>>
    OBVIOUS
<1>3. n # 0 => Last(w) = w[n]
    BY DEF Last
<1> HIDE DEF long, n
<1>4. \A i \in 1..(n + 1) : FitItem(long[i])
    <2>1. \A i \in 1..(n + 1) : i = n + 1 \/ i \in 1..n
        BY <1>1
    <2> QED
        BY <1>1, <2>1 DEF Fine
<1>5. long[1].role = "user"
    <2>1. CASE n = 0
        BY <1>1, <1>2, <2>1
    <2>2. CASE n # 0
        <3>1. 1 \in 1..n
            BY <1>1, <2>2
        <3> QED
            BY <1>1, <1>2, <2>2, <3>1 DEF Fine
    <2> QED
        BY <2>1, <2>2
<1>6. ASSUME NEW i \in 2..(n + 1), long[i].role = long[i - 1].role
      PROVE  Allowed(p, long[i].role)
    <2>1. CASE i = n + 1
        <3>1. n # 0 /\ n \in 1..n /\ i - 1 = n
            BY <1>1, <1>6, <2>1
        <3>2. long[i] = x /\ long[i - 1] = Last(w)
            BY <1>1, <1>3, <2>1, <3>1
        <3> QED
            BY <1>2, <1>6, <3>1, <3>2
    <2>2. CASE i # n + 1
        <3>1. i \in 2..n /\ i \in 1..n /\ i - 1 \in 1..n
            BY <1>1, <1>6, <2>2
        <3>2. long[i] = w[i] /\ long[i - 1] = w[i - 1]
            BY <1>1, <3>1
        <3>3. \A j \in 2..n : w[j].role = w[j - 1].role => Allowed(p, w[j].role)
            BY DEF Fine, n
        <3> QED
            BY <1>6, <3>1, <3>2, <3>3
    <2> QED
        BY <2>1, <2>2
<1>7. Fine(p, long)
    BY <1>1, <1>4, <1>5, <1>6 DEF Fine
<1> QED
    BY <1>7 DEF long

LEMMA FineExtended ==
    ASSUME NEW p, NEW w \in Seq(WireItems), NEW x \in WireItems, NEW roles,
           Fine(p, w), FitItem(x), Extends(roles, w, x)
    PROVE  /\ Fine(p, Append(Front(w), Extended(w, x)))
           /\ Append(Front(w), Extended(w, x)) # <<>>
           /\ Last(Append(Front(w), Extended(w, x))).role = x.role
<1> DEFINE front == Front(w)
           last == Last(w)
           y == Extended(w, x)
           long == Append(front, y)
           n == Len(w)
<1>1. w # <<>> /\ y \in WireItems /\ last.role = x.role
    BY DEF Extends
<1>2. /\ front \in Seq(WireItems) /\ last \in WireItems
      /\ n \in Nat \ {0} /\ Len(front) = n - 1 /\ last = w[n]
      /\ \A i \in 1..(n - 1) : front[i] = w[i]
      /\ DOMAIN w = 1..n
    BY <1>1, LastAndFront, LenProperties
<1>3. y.role = x.role /\ y.content = last.content \o x.content
    BY DEF Extended, Item
<1>4. last.content \in Seq(Block) /\ x.content \in Seq(Block)
    BY <1>2, Bearers DEF Bearing
<1>5. FitItem(last)
    BY <1>2 DEF Fine
<1> HIDE DEF front, last, y
<1>6. /\ long \in Seq(WireItems) /\ Len(long) = n /\ long[n] = y
      /\ \A i \in 1..(n - 1) : long[i] = w[i]
      /\ DOMAIN long = 1..n /\ long # <<>> /\ Last(long) = y
    <2>1. /\ long \in Seq(WireItems) /\ long # <<>>
          /\ Len(long) = Len(front) + 1
          /\ long[Len(front) + 1] = y
          /\ \A i \in 1..Len(front) : long[i] = front[i]
        BY <1>1, <1>2, AppendProperties
    <2> HIDE DEF long
    <2>2. Len(long) = n /\ DOMAIN long = 1..n /\ long[n] = y
        BY <1>2, <2>1, LenProperties
    <2> QED
        BY <1>2, <2>1, <2>2 DEF Last
<1>7. FitItem(y)
    <2>1. y.content # <<>>
        BY <1>3, <1>4, <1>5, ConcatEqualIffEmpty DEF FitItem
    <2>2. ASSUME y.role = "user" PROVE CallsIn(y.content) = <<>>
        <3>1. CallsIn(last.content) = <<>> /\ CallsIn(x.content) = <<>>
            BY <1>1, <1>3, <1>5, <2>2 DEF FitItem
        <3>2. CallsIn(y.content) = <<>> \o <<>>
            BY <1>3, <1>4, <3>1, OfKindOfConcat DEF CallsIn
        <3> QED
            BY <3>2, ConcatEmptySeq, EmptySeq
    <2> QED
        BY <2>1, <2>2 DEF FitItem
<1> HIDE DEF long, n
<1>8. \A i \in 1..n : long[i].role = w[i].role /\ FitItem(long[i])
    <2>1. \A i \in 1..n : i = n \/ i \in 1..(n - 1)
        BY <1>2
    <2>2. \A i \in 1..n : FitItem(w[i])
        BY <1>2 DEF Fine
    <2> QED
        BY <1>1, <1>2, <1>3, <1>6, <1>7, <2>1, <2>2
<1>9. long[1].role = "user"
    <2>1. 1 \in 1..n /\ w[1].role = "user"
        BY <1>1, <1>2 DEF Fine
    <2> QED
        BY <1>8, <2>1
<1>10. ASSUME NEW i \in 2..n, long[i].role = long[i - 1].role
       PROVE  Allowed(p, long[i].role)
    <2>1. i \in 1..n /\ i - 1 \in 1..n
        BY <1>2
    <2>2. \A j \in 2..n : w[j].role = w[j - 1].role => Allowed(p, w[j].role)
        BY DEF Fine, n
    <2> QED
        BY <1>8, <1>10, <2>1, <2>2
<1>11. Fine(p, long)
    BY <1>6, <1>8, <1>9, <1>10 DEF Fine
<1> QED
    BY <1>3, <1>6, <1>11 DEF long, front, y

\* Results that are items of their own.
LEMMA AfterTools ==
    ASSUME NEW w \in Seq(WireItems), w # <<>>, Fine("openai", w),
           NEW c \in Seq(Kind("result")), Awaits(w, NamesOf(c))
    PROVE  /\ Awaits(w \o Tools(c), <<>>) /\ Fine("openai", w \o Tools(c))
           /\ w \o Tools(c) # <<>>
           /\ c # <<>> => Last(w \o Tools(c)).role = "tool"
<1> DEFINE R == Kind("result")
           Right(s) ==
               LET long == w \o Tools(s) IN
               /\ long \in Seq(WireItems) /\ long # <<>>
               /\ Fine("openai", long)
               /\ s # <<>> => Last(long).role = "tool"
               /\ \A left \in Seq(Names) :
                      Awaits(w, NamesOf(s) \o left) => Awaits(long, left)
           S == {s \in Seq(R) : Right(s)}
<1>1. R \subseteq Block
    BY KindsAreBlocks DEF Kinds
<1>2. \A s \in Seq(R) : s \in Seq(Block)
    <2> HIDE DEF R
    <2> QED
        BY <1>1, SeqMonotonic
<1>3. <<>> \in S
    <2>1. Tools(<<>>) = <<>> /\ w \o <<>> = w /\ <<>> \in Seq(R)
        BY ConcatEmptySeq DEF Tools
    <2>2. \A left \in Seq(Names) : NamesOf(<<>>) \o left = left
        BY NamesOfNone, ConcatEmptySeq
    <2> QED
        BY <2>1, <2>2
<1>4. ASSUME NEW s \in Seq(R), NEW b \in R, s \in S
      PROVE  Append(s, b) \in S
    <2> DEFINE v == w \o Tools(s)
               x == Tool(b)
               t == Append(s, b)
    <2>1. /\ s \in Seq(Block) /\ b \in Block /\ t \in Seq(R) /\ t # <<>>
          /\ b.name \in Names /\ b = Answer(b.name)
        <3>1. b.name \in Names /\ b = Answer(b.name)
            BY DEF Kind, Answer
        <3> HIDE DEF R, S
        <3>2. s \in Seq(Block) /\ b \in Block
            BY <1>1, <1>2
        <3>3. t \in Seq(R) /\ t # <<>>
            BY AppendProperties
        <3> QED
            BY <3>1, <3>2, <3>3
    <2>2. /\ v \in Seq(WireItems) /\ v # <<>> /\ Fine("openai", v)
          /\ \A left \in Seq(Names) :
                 Awaits(w, NamesOf(s) \o left) => Awaits(v, left)
        BY <1>4
    <2>3. /\ x \in WireItems /\ x.role = "tool" /\ x.content = <<b>>
          /\ <<b>> \in Seq(Block) /\ <<b>> \in Seq(R)
        <3>1. <<b>> \in Seq(Block) /\ "tool" \in {"user", "assistant", "tool"}
            BY <2>1
        <3>2. x \in WireItems /\ x.role = "tool" /\ x.content = <<b>>
            BY <3>1, ItemType DEF Tool
        <3> HIDE DEF R, S, x
        <3>3. <<b>> \in Seq(R)
            BY <1>4
        <3> QED
            BY <3>1, <3>2, <3>3
    <2>4. w \o Tools(t) = Append(v, x)
        <3> DEFINE f == [c2 \in Block |-> Tool(c2)]
        <3>1. \A u \in Seq(Block) : Tools(u) = Each(u, f)
            BY DEF Tools, Each
        <3>2. t \in Seq(Block) /\ f[b] = x
            BY <1>2, <2>1
        <3>3. Each(t, f) = Append(Each(s, f), f[b])
            BY <2>1, EachOfAppend
        <3> HIDE DEF f, t, x
        <3>4. Tools(t) = Append(Tools(s), x)
            BY <2>1, <3>1, <3>2, <3>3
        <3>5. Tools(s) \in Seq(WireItems)
            BY <2>1, ToolsType
        <3>6. w \o Append(Tools(s), x) = Append(w \o Tools(s), x)
            BY <2>3, <3>5, AppendToConcat
        <3> QED
            BY <3>4, <3>6
    <2>5. NamesOf(t) = Append(NamesOf(s), b.name)
        <3>1. NamesOf(t) = Each(t, NameOf) /\ NamesOf(s) = Each(s, NameOf)
            BY <1>2, <2>1, NamesOfIsEach
        <3>2. Each(t, NameOf) = Append(Each(s, NameOf), NameOf[b])
            BY <2>1, EachOfAppend
        <3>3. NameOf[b] = b.name
            BY <2>1 DEF NameOf
        <3> QED
            BY <3>1, <3>2, <3>3
    <2>6. FitItem(x)
        BY <2>3 DEF FitItem
    <2> HIDE DEF v, x, t, R, S
    <2>7. Fine("openai", Append(v, x))
        BY <2>2, <2>3, <2>6, FineAppended DEF Allowed
    <2>8. /\ Append(v, x) \in Seq(WireItems) /\ Append(v, x) # <<>>
          /\ Last(Append(v, x)) = x
        <3>1. /\ Append(v, x) \in Seq(WireItems) /\ Append(v, x) # <<>>
              /\ Len(Append(v, x)) = Len(v) + 1
              /\ Append(v, x)[Len(v) + 1] = x
            BY <2>2, <2>3, AppendProperties
        <3> QED
            BY <3>1 DEF Last
    <2>9. ASSUME NEW left \in Seq(Names), Awaits(w, NamesOf(t) \o left)
          PROVE  Awaits(Append(v, x), left)
        <3> DEFINE due == <<b.name>> \o left
                   a == NamesOf(s)
                   one == <<b.name>>
                   T == Names
        <3>1. a \in Seq(T) /\ one \in Seq(T) /\ left \in Seq(T) /\ b.name \in T
            BY <2>1, NamesOfIsEach
        <3>2. Append(a, b.name) = a \o one
            <4> DEFINE name == b.name
            <4>1. name \in T
                BY <3>1
            <4> HIDE DEF a, name, T
            <4>2. Append(a, name) = a \o <<name>>
                BY <3>1, <4>1, AppendIsConcat
            <4> QED
                BY <4>2 DEF name
        <3> HIDE DEF a, one, T
        <3>3. (a \o one) \o left = a \o (one \o left) /\ one \o left \in Seq(T)
            BY <3>1, ConcatAssociative, ConcatProperties, SMTT(60)
        <3>4. due \in Seq(Names) /\ NamesOf(t) \o left = a \o due
            BY <2>5, <3>2, <3>3 DEF one, T, a
        <3>5. Awaits(v, due)
            BY <2>2, <2>9, <3>4 DEF a
        <3>6. Supplies(<<b>>, due, left)
            <4>1. "result" \in Kinds /\ "result" # "call"
                BY DEF Kinds
            <4>2. CallsIn(<<b>>) = <<>> /\ OfKind(<<b>>, "result") = <<b>>
                BY <2>3, <4>1, OfTheKind, OfAnotherKind DEF CallsIn, R
            <4>3. NamesOf(<<b>>) = <<b.name>>
                BY DEF NamesOf
            <4>4. Answers(due) = Answers(one) \o Answers(left)
                BY <3>1, AnswersOfConcat DEF T, one
            <4>5. Answers(one) = <<b>>
                BY <2>1 DEF Answers, one
            <4> QED
                BY <2>3, <3>4, <4>2, <4>3, <4>4, <4>5 DEF Supplies, NamesOfKind
        <3> HIDE DEF due
        <3> QED
            BY <2>2, <2>3, <3>5, <3>6, AwaitsAppended, ZenonT(60)
    <2>10. Right(t)
        BY <2>3, <2>4, <2>7, <2>8, <2>9
    <2> QED
        BY <2>1, <2>10 DEF S, t
<1>5. c \in S
    <2> HIDE DEF S, R
    <2>1. c \in Seq(R)
        BY DEF R
    <2> QED
        BY <1>3, <1>4, <2>1, Lengthening
<1>6. Right(c)
    BY <1>5
<1>7. NamesOf(c) \o <<>> = NamesOf(c) /\ <<>> \in Seq(Names)
    BY ResultsAreAnswers, ConcatEmptySeq, EmptySeq
<1> QED
    BY <1>6, <1>7

-----------------------------------------------------------------------------
(***************************************************************************)
(* What every adapter makes of a history whose calls are answered.         *)
(***************************************************************************)

Due(msgs) == IF msgs = <<>> THEN <<>> ELSE Last(msgs).calls

History(msgs) == msgs \in Seq(Messages) /\ Linked(msgs)

\* What Linked says of the i-th message.
LinkedAt(msgs, i) ==
    /\ i = 1 => IsRequest(msgs[i])
    /\ i > 1 => msgs[i].results = msgs[i - 1].calls
    /\ IsReply(msgs[i]) => i > 1 /\ msgs[i - 1].role = "user"

LEMMA LinkedOfMessages ==
    ASSUME NEW s \in Seq(Messages)
    PROVE  Linked(s) <=> \A i \in 1..Len(s) : LinkedAt(s, i)
<1>1. DOMAIN s = 1..Len(s) /\ \A i \in 1..Len(s) : s[i] \in Messages
    OBVIOUS
<1>2. \A i \in 1..Len(s) : IsMessage(s[i])
    BY <1>1 DEF Messages
<1> QED
    BY <1>1, <1>2 DEF Linked, LinkedAt, IsMessage

LEMMA RequestIsNoReply ==
    ASSUME NEW m, IsRequest(m)
    PROVE  ~ IsReply(m)
BY DEF IsRequest, IsReply

\* A history with one more message.
Follows(m, s) ==
    /\ m.results = Due(s)
    /\ s = <<>> => IsRequest(m)
    /\ IsReply(m) => s # <<>> /\ Last(s).role = "user"

LEMMA LinkedAppend ==
    ASSUME NEW s \in Seq(Messages), NEW m \in Messages
    PROVE  LinkedAt(Append(s, m), Len(s) + 1) <=> Follows(m, s)
<1> DEFINE long == Append(s, m)
           n == Len(s)
<1>1. /\ n \in Nat /\ long[n + 1] = m /\ (n + 1) - 1 = n
      /\ n > 0 => long[n] = s[n]
    BY AppendProperties, LenProperties
<1>2. n = 0 <=> s = <<>>
    OBVIOUS
<1> HIDE DEF long
<1>3. CASE n = 0
    <2>1. s = <<>> /\ Due(s) = <<>> /\ n + 1 = 1 /\ ~ (n + 1 > 1)
        BY <1>2, <1>3 DEF Due
    <2>2. IsRequest(m) => m.results = <<>> /\ ~ IsReply(m)
        BY RequestFacts, RequestIsNoReply DEF Messages
    <2> HIDE DEF n
    <2>3. LinkedAt(long, n + 1) <=> IsRequest(m) /\ ~ IsReply(m)
        BY <1>1, <2>1 DEF LinkedAt
    <2> QED
        BY <2>1, <2>2, <2>3 DEF Follows, long, n
<1>4. CASE n # 0
    <2>1. s # <<>> /\ Due(s) = s[n].calls /\ Last(s) = s[n]
        BY <1>2, <1>4 DEF Due, Last
    <2>2. n + 1 > 1 /\ n + 1 # 1 /\ long[n] = s[n]
        BY <1>1, <1>4
    <2> HIDE DEF n
    <2>3. LinkedAt(long, n + 1) <=>
              /\ m.results = s[n].calls
              /\ IsReply(m) => s[n].role = "user"
        BY <1>1, <2>2 DEF LinkedAt
    <2> QED
        BY <2>1, <2>3 DEF Follows, long, n
<1> QED
    BY <1>3, <1>4

LEMMA HistoryAppend ==
    ASSUME NEW s \in Seq(Messages), NEW m \in Messages
    PROVE  History(Append(s, m)) <=> History(s) /\ Follows(m, s)
<1> DEFINE long == Append(s, m)
           n == Len(s)
<1>1. /\ Len(long) = n + 1 /\ n \in Nat /\ long \in Seq(Messages)
      /\ \A i \in 1..n : long[i] = s[i]
    BY AppendProperties, LenProperties
<1>2. LinkedAt(long, n + 1) <=> Follows(m, s)
    BY LinkedAppend
<1> HIDE DEF long
<1>3. \A i \in 1..n : LinkedAt(long, i) <=> LinkedAt(s, i)
    <2> TAKE i \in 1..n
    <2>1. long[i] = s[i] /\ (i > 1 => long[i - 1] = s[i - 1])
        BY <1>1
    <2> QED
        BY <2>1 DEF LinkedAt
<1>4. Linked(long) <=> \A i \in 1..(n + 1) : LinkedAt(long, i)
    BY <1>1, LinkedOfMessages
<1>5. Linked(s) <=> \A i \in 1..n : LinkedAt(s, i)
    BY LinkedOfMessages
<1> HIDE DEF n
<1>6. 1..(n + 1) = (1..n) \cup {n + 1}
    BY <1>1
<1>7. Linked(long) <=> Linked(s) /\ Follows(m, s)
    BY <1>2, <1>3, <1>4, <1>5, <1>6
<1> QED
    BY <1>1, <1>7 DEF History, long

\* The wire of the messages so far.
Good(p, msgs, w) ==
    /\ Awaits(w, Renamed(p, Due(msgs)))
    /\ Fine(p, w)
    /\ w = <<>> <=> msgs = <<>>
    /\ msgs # <<>> /\ Last(msgs).role = "user" => Last(w).role # "assistant"

LEMMA RenamedNone == ASSUME NEW p PROVE Renamed(p, <<>>) = <<>>
BY EachOfNone DEF Renamed

LEMMA RenamedType ==
    ASSUME NEW p, NEW names \in Seq(Names)
    PROVE  Renamed(p, names) \in Seq(Names)
<1> DEFINE f == [name \in Names |-> WireName(name)]
<1>1. \A name \in Names : f[name] \in Names
    BY WireNameType
<1> HIDE DEF f
<1>2. Each(names, f) \in Seq(Names)
    BY <1>1, EachType
<1> QED
    BY <1>2 DEF Renamed, f

LEMMA LastOfAppend ==
    ASSUME NEW T, NEW s \in Seq(T), NEW x \in T
    PROVE  Last(Append(s, x)) = x /\ Append(s, x) # <<>>
<1>1. /\ Append(s, x) # <<>> /\ Len(Append(s, x)) = Len(s) + 1
      /\ Append(s, x)[Len(s) + 1] = x
    BY AppendProperties
<1> QED
    BY <1>1 DEF Last

\* One more item with the request or the results a message holds.
LEMMA AddUserItem ==
    ASSUME NEW p \in Providers, NEW w \in Seq(WireItems),
           NEW x \in WireItems, x.role = "user", FitItem(x), Fine(p, w),
           NEW due, Awaits(w, due), Supplies(x.content, due, <<>>)
    PROVE  LET longer == Add(Roles(p), w, x)
           IN  /\ Awaits(longer, <<>>) /\ Fine(p, longer) /\ longer # <<>>
               /\ Last(longer).role # "assistant"
<1>1. CASE Appends(Roles(p), w, x)
    <2>1. Add(Roles(p), w, x) = Append(w, x)
        BY <1>1 DEF Appends
    <2>2. w # <<>> /\ Last(w).role = x.role => Allowed(p, x.role)
        BY <1>1 DEF Appends, Allowed, Roles, Providers
    <2>3. Fine(p, Append(w, x))
        BY <2>2, FineAppended
    <2>4. Awaits(Append(w, x), <<>>)
        BY AwaitsAppended
    <2>5. Last(Append(w, x)) = x /\ Append(w, x) # <<>>
        BY LastOfAppend
    <2> QED
        BY <2>1, <2>3, <2>4, <2>5
<1>2. CASE Extends(Roles(p), w, x)
    <2>1. /\ Add(Roles(p), w, x) = Append(Front(w), Extended(w, x))
          /\ w # <<>> /\ Last(w).role = "user"
        BY <1>2 DEF Extends
    <2>2. /\ Fine(p, Append(Front(w), Extended(w, x)))
          /\ Append(Front(w), Extended(w, x)) # <<>>
          /\ Last(Append(Front(w), Extended(w, x))).role = x.role
        BY <1>2, FineExtended
    <2>3. CallsIn(Last(w).content) = <<>>
        <3>1. Last(w) = w[Len(w)] /\ Len(w) \in DOMAIN w
            BY <2>1, LastAndFront, LenProperties
        <3>2. FitItem(Last(w))
            BY <3>1 DEF Fine
        <3> QED
            BY <2>1, <3>2 DEF FitItem
    <2>4. Awaits(Append(Front(w), Extended(w, x)), <<>>)
        BY <1>2, <2>3, AwaitsExtended
    <2> QED
        BY <2>1, <2>2, <2>4
<1> QED
    BY <1>1, <1>2, AddCases

LEMMA GoodNext ==
    ASSUME NEW p \in Providers, NEW s \in Seq(Messages), NEW m \in Messages,
           History(Append(s, m)), Good(p, s, Written(p, s))
    PROVE  Good(p, Append(s, m), Written(p, Append(s, m)))
<1> DEFINE w == Written(p, s)
           c == ContentOf(p, m)
           longer == Written(p, Append(s, m))
           due == Renamed(p, Due(s))
           x == Item(m.role, c)
<1>1. /\ History(s) /\ m.results = Due(s)
      /\ s = <<>> => IsRequest(m)
      /\ IsReply(m) => s # <<>> /\ Last(s).role = "user"
    BY HistoryAppend DEF Follows
<1>2. \/ c = <<>> /\ longer = w
      \/ /\ c # <<>> /\ ~ (p = "openai" /\ IsResults(m))
         /\ longer = Add(Roles(p), w, x)
      \/ p = "openai" /\ IsResults(m) /\ longer = w \o Tools(c)
    BY WrittenOfAppend
<1>3. /\ m \in Stored /\ IsMessage(m) /\ c \in Seq(Block)
      /\ m.role \in {"user", "assistant"}
      /\ m.calls \in Seq(Names) /\ m.results \in Seq(Names)
    BY ContentType, StoredFields DEF Messages
<1>4. /\ NamesOfKind(c, "call") = Renamed(p, m.calls)
      /\ NamesOfKind(c, "result") = due
    BY <1>1, <1>3, ContentNames DEF NamesOfKind
<1>5. x \in WireItems /\ x.role = m.role /\ x.content = c
    BY <1>3, ItemType
<1>6. Last(Append(s, m)) = m /\ Append(s, m) # <<>> /\ Due(Append(s, m)) = m.calls
    BY LastOfAppend DEF Due
<1>7. w \in Seq(WireItems) /\ due \in Seq(Names)
    BY <1>1, <1>3, WrittenType, RenamedType
<1>8. /\ Awaits(w, due) /\ Fine(p, w) /\ (w = <<>> <=> s = <<>>)
      /\ s # <<>> /\ Last(s).role = "user" => Last(w).role # "assistant"
    BY DEF Good
<1> HIDE DEF w, c, longer, due, x
<1>9. SUFFICES Good(p, Append(s, m), longer)
    BY DEF longer
<1>10. CASE IsRequest(m)
    <2>1. /\ m.role = "user" /\ m.calls = <<>> /\ m.results = <<>>
          /\ m.content \in Seq(SentText) /\ m.content # <<>>
        BY <1>3, <1>10, RequestFacts, StoredFields
    <2>2. c = m.content
        <3>1. ~ IsReply(m) /\ p \in {"anthropic", "openai", "text"}
            BY <2>1 DEF IsReply, Providers
        <3>2. p = "anthropic" => c = m.content
            BY <1>3, <1>10, AnthropicContentOf, RequestFacts DEF c
        <3> QED
            BY <1>3, <3>1, <3>2, OtherContentOf DEF c
    <2>3. due = <<>> /\ ~ IsResults(m)
        <3>1. due = <<>>
            BY <1>1, <2>1, RenamedNone DEF due
        <3>2. "result" \in Kinds /\ "result" # "text"
            BY DEF Kinds
        <3> QED
            BY <1>3, <1>10, <2>1, <3>1, <3>2, RequestFacts, ResultsFacts
    <2>4. longer = Add(Roles(p), w, x)
        BY <1>2, <2>1, <2>2, <2>3
    <2>5. CallsIn(c) = <<>>
        <3>1. "call" \in Kinds /\ "call" # "text"
            BY DEF Kinds
        <3> QED
            BY <1>3, <1>10, <2>2, <3>1, RequestFacts DEF CallsIn
    <2>6. FitItem(x) /\ Supplies(x.content, due, <<>>)
        <3>1. <<>> \o <<>> = <<>> /\ <<>> \in Seq(Names)
            BY ConcatEmptySeq, EmptySeq
        <3> QED
            BY <1>3, <1>4, <1>5, <2>1, <2>2, <2>3, <2>5, <3>1
               DEF FitItem, Supplies
    <2>7. /\ Awaits(longer, <<>>) /\ Fine(p, longer) /\ longer # <<>>
          /\ Last(longer).role # "assistant"
        BY <1>5, <1>7, <1>8, <2>1, <2>4, <2>6, AddUserItem
    <2> QED
        BY <1>6, <2>1, <2>7, RenamedNone DEF Good
<1>11. CASE IsResults(m)
    <2>1. /\ m.role = "user" /\ m.calls = <<>> /\ m.content # <<>>
          /\ m.content \in Seq(Kind("result"))
        BY <1>3, <1>11, ResultsFacts, StoredFields
    <2>2. c \in Seq(Kind("result")) /\ c # <<>>
        <3>1. ~ IsReply(m) /\ p \in {"anthropic", "openai", "text"}
            BY <2>1 DEF IsReply, Providers
        <3>2. CASE p = "anthropic"
            <4>1. c = Each(m.content, WireBlockOf)
                BY <1>3, <1>11, <3>2, AnthropicContentOf, ResultsFacts DEF c
            <4> DEFINE R == Kind("result")
            <4>2. \A b \in R : WireBlockOf[b] \in R
                BY WireBlockOfKinds, KindsAreBlocks DEF Kinds
            <4>3. m.content \in Seq(R)
                BY <2>1
            <4> HIDE DEF R
            <4>4. /\ Each(m.content, WireBlockOf) \in Seq(R)
                  /\ Len(Each(m.content, WireBlockOf)) = Len(m.content)
                BY <4>2, <4>3, EachType
            <4>5. Len(m.content) # 0
                BY <1>3, <2>1, StoredFields, EmptySeq
            <4>6. c # <<>>
                BY <4>1, <4>4, <4>5, EmptySeq
            <4> QED
                BY <4>1, <4>4, <4>6 DEF R
        <3>3. CASE p # "anthropic"
            BY <1>3, <2>1, <3>1, <3>3, OtherContentOf DEF c
        <3> QED
            BY <3>2, <3>3
    <2>3. "result" \in Kinds /\ "result" # "call"
        BY DEF Kinds
    <2>4. CallsIn(c) = <<>> /\ OfKind(c, "result") = c
        BY <2>2, <2>3, OfTheKind, OfAnotherKind DEF CallsIn
    <2>5. NamesOf(c) = due /\ c = Answers(due)
        BY <1>4, <2>2, <2>4, ResultsAreAnswers DEF NamesOfKind
    <2>6. CASE p = "openai"
        <3>1. longer = w \o Tools(c)
            BY <1>2, <1>11, <2>2, <2>6
        <3>2. w # <<>>
            <4>1. ~ IsRequest(m)
                <5>1. "result" \in Kinds /\ "result" # "text"
                    BY DEF Kinds
                <5> QED
                    BY <1>3, <1>11, <2>1, <5>1, RequestFacts, ResultsFacts
            <4> QED
                BY <1>1, <1>8, <4>1
        <3>3. /\ Awaits(longer, <<>>) /\ Fine(p, longer) /\ longer # <<>>
              /\ Last(longer).role = "tool"
            BY <1>7, <1>8, <2>2, <2>5, <2>6, <3>1, <3>2, AfterTools
        <3> QED
            BY <1>6, <2>1, <3>3, RenamedNone DEF Good
    <2>7. CASE p # "openai"
        <3>1. longer = Add(Roles(p), w, x)
            BY <1>2, <2>2, <2>7
        <3>2. FitItem(x) /\ Supplies(x.content, due, <<>>)
            <4>1. /\ due \o <<>> = due /\ <<>> \in Seq(Names)
                  /\ c \o <<>> = c
                BY <1>3, <1>7, ConcatEmptySeq, EmptySeq
            <4> QED
                BY <1>3, <1>4, <1>5, <1>7, <2>2, <2>4, <2>5, <4>1, AnswersOfNone
                   DEF FitItem, Supplies
        <3>3. /\ Awaits(longer, <<>>) /\ Fine(p, longer) /\ longer # <<>>
              /\ Last(longer).role # "assistant"
            BY <1>5, <1>7, <1>8, <2>1, <3>1, <3>2, AddUserItem
        <3> QED
            BY <1>6, <2>1, <3>3, RenamedNone DEF Good
    <2> QED
        BY <2>6, <2>7
<1>12. CASE IsReply(m)
    <2>1. m.role = "assistant" /\ m.results = <<>> /\ ~ IsResults(m)
        BY <1>3, <1>12, ReplyFacts DEF IsResults
    <2>2. due = <<>>
        BY <1>1, <2>1, RenamedNone DEF due
    <2>3. w # <<>> /\ Last(w).role # "assistant"
        BY <1>1, <1>8, <1>12
    <2>4. CASE c = <<>>
        <3>1. longer = w
            BY <1>2, <2>1, <2>4
        <3>2. Renamed(p, m.calls) = <<>>
            BY <1>4, <2>4, OfKindOfNone, NamesOfNone DEF NamesOfKind
        <3> QED
            BY <1>6, <1>8, <2>1, <2>2, <2>3, <3>1, <3>2 DEF Good
    <2>5. CASE c # <<>>
        <3>1. longer = Add(Roles(p), w, x)
            BY <1>2, <2>1, <2>5
        <3>2. longer = Append(w, x)
            BY <1>5, <2>1, <2>3, <3>1 DEF Add
        <3>3. Awaits(longer, Renamed(p, m.calls))
            BY <1>4, <1>5, <1>7, <1>8, <2>2, <3>2, AwaitsCalls
        <3>4. FitItem(x)
            BY <1>5, <2>1, <2>5 DEF FitItem
        <3>5. Fine(p, longer) /\ longer # <<>>
            BY <1>5, <1>7, <1>8, <2>1, <2>3, <3>2, <3>4,
               FineAppended, LastOfAppend
        <3> QED
            BY <1>6, <2>1, <3>3, <3>5 DEF Good
    <2> QED
        BY <2>4, <2>5
<1> QED
    BY <1>3, <1>10, <1>11, <1>12 DEF IsMessage

LEMMA WrittenGood ==
    ASSUME NEW p \in Providers, NEW msgs, History(msgs)
    PROVE  Good(p, msgs, Written(p, msgs))
<1> DEFINE S == {s \in Seq(Messages) : History(s) => Good(p, s, Written(p, s))}
<1>1. <<>> \in S
    <2>1. Written(p, <<>>) = <<>> /\ <<>> \in Seq(Messages)
        BY WrittenOfNone, EmptySeq
    <2>2. Due(<<>>) = <<>> /\ Renamed(p, <<>>) = <<>>
        BY RenamedNone DEF Due
    <2>3. Awaits(<<>>, <<>>)
        <3>1. \A kind : NamesOfKind(<<>>, kind) = <<>>
            BY OfKindOfNone, NamesOfNone DEF NamesOfKind
        <3>2. <<>> \o <<>> = <<>>
            BY ConcatEmptySeq, EmptySeq
        <3> QED
            BY <3>1, <3>2, BlocksOfNone DEF Awaits
    <2>4. Fine(p, <<>>)
        BY DEF Fine
    <2> QED
        BY <2>1, <2>2, <2>3, <2>4 DEF Good
<1>2. ASSUME NEW s \in Seq(Messages), NEW m \in Messages, s \in S
      PROVE  Append(s, m) \in S
    <2>1. Append(s, m) \in Seq(Messages)
        BY AppendProperties
    <2>2. ASSUME History(Append(s, m))
          PROVE  Good(p, Append(s, m), Written(p, Append(s, m)))
        <3>1. Good(p, s, Written(p, s))
            BY <1>2, <2>2, HistoryAppend
        <3> QED
            BY <2>2, <3>1, GoodNext
    <2> QED
        BY <2>1, <2>2
<1> HIDE DEF S
<1>3. msgs \in S
    <2>1. msgs \in Seq(Messages)
        BY DEF History
    <2> QED
        BY <1>1, <1>2, <2>1, Lengthening
<1> QED
    BY <1>3 DEF S

-----------------------------------------------------------------------------
(***************************************************************************)
(* Pruning leaves a history with the same last message.                    *)
(***************************************************************************)

LEMMA LeastOfSet ==
    ASSUME NEW S, S \subseteq Nat, S # {}
    PROVE  Context!Min(S) \in S
BY LeastNumber DEF Context!Min

LEMMA GreatestOfSet ==
    ASSUME NEW S, S \subseteq Nat, S # {},
           NEW bound \in Nat, \A x \in S : x <= bound
    PROVE  Context!Max(S) \in S
<1> DEFINE T == {bound - x : x \in S}
<1>1. T \subseteq Nat /\ T # {}
    <2>1. \A x \in S : bound - x \in Nat
        OBVIOUS
    <2> QED
        BY <2>1
<1>2. PICK t \in T : \A u \in T : t <= u
    BY <1>1, LeastNumber
<1>3. PICK m \in S : t = bound - m
    OBVIOUS
<1>4. ASSUME NEW x \in S
      PROVE  m >= x
    <2>1. bound - x \in T
        OBVIOUS
    <2>2. bound - m <= bound - x
        BY <1>2, <1>3, <2>1
    <2> QED
        BY <2>2
<1> QED
    BY <1>4 DEF Context!Max

LEMMA PruneFromCleanStart ==
    ASSUME NEW msgs \in Seq(Messages), NEW max \in Nat
    PROVE  \/ Context!Prune(msgs, max) = msgs
           \/ \E k \in Context!CleanStarts(msgs) :
                  Context!Prune(msgs, max) = SubSeq(msgs, k, Len(msgs))
<1> DEFINE cut     == Len(msgs) - max
           starts  == Context!CleanStarts(msgs)
           forward == {i \in starts : i > cut}
           back    == {i \in starts : i <= cut}
<1>1. starts \subseteq Nat
    BY DEF Context!CleanStarts
<1>2. CASE Len(msgs) <= max
    BY <1>2 DEF Context!Prune
<1>3. CASE ~ (Len(msgs) <= max)
    <2>1. cut \in Nat
        BY <1>3, LenProperties
    <2>2. Context!Prune(msgs, max)
              = SubSeq(msgs, Context!PruneStart(msgs, max), Len(msgs))
        BY <1>3 DEF Context!Prune
    <2>3. CASE forward # {}
        <3>1. Context!Min(forward) \in forward
            BY <1>1, <2>3, LeastOfSet
        <3>2. Context!PruneStart(msgs, max) = Context!Min(forward)
            BY <2>3 DEF Context!PruneStart
        <3> QED
            BY <2>2, <3>1, <3>2
    <2>4. CASE forward = {} /\ back # {}
        <3>1. Context!Max(back) \in back
            <4>1. back \subseteq Nat /\ \A i \in back : i <= cut
                BY <1>1
            <4> HIDE DEF cut, back
            <4> QED
                BY <2>1, <2>4, <4>1, GreatestOfSet
        <3>2. Context!PruneStart(msgs, max) = Context!Max(back)
            BY <2>4 DEF Context!PruneStart
        <3> QED
            BY <2>2, <3>1, <3>2
    <2>5. CASE forward = {} /\ back = {}
        <3>1. Context!PruneStart(msgs, max) = 1
            BY <2>5 DEF Context!PruneStart
        <3>2. SubSeq(msgs, 1, Len(msgs)) = msgs
            OBVIOUS
        <3> QED
            BY <2>2, <3>1, <3>2
    <2> QED
        BY <2>3, <2>4, <2>5
<1> QED
    BY <1>2, <1>3

LEMMA HistoryFromCleanStart ==
    ASSUME NEW msgs, History(msgs), NEW k \in Context!CleanStarts(msgs)
    PROVE  LET rest == SubSeq(msgs, k, Len(msgs))
           IN  /\ History(rest) /\ rest # <<>>
               /\ Last(rest) = Last(msgs)
<1> DEFINE n == Len(msgs)
           rest == SubSeq(msgs, k, n)
<1>1. /\ msgs \in Seq(Messages) /\ n \in Nat /\ k \in 1..n
      /\ msgs[k].role = "user" /\ msgs[k].results = <<>>
    BY LenProperties DEF History, Context!CleanStarts, Context!IsCleanStart
<1>2. /\ rest \in Seq(Messages) /\ Len(rest) = n - k + 1
      /\ \A i \in 1..(n - k + 1) : rest[i] = msgs[k + i - 1]
    BY <1>1, SubSeqProperties
<1>3. IsRequest(msgs[k])
    <2>1. msgs[k] \in Stored /\ IsMessage(msgs[k])
        BY <1>1 DEF Messages
    <2>2. ~ IsReply(msgs[k])
        BY <1>1 DEF IsReply
    <2>3. ~ IsResults(msgs[k])
        <3> DEFINE m == msgs[k]
        <3>1. ASSUME IsResults(m) PROVE m.results = NamesOf(m.content) /\ m.content # <<>>
            BY <2>1, <3>1, ResultsFacts, StoredFields
        <3>2. m.content # <<>> => NamesOf(m.content) # <<>>
            <4>1. m.content \in Seq(Block)
                BY <2>1, StoredFields
            <4> HIDE DEF m
            <4> QED
                BY <4>1 DEF NamesOf
        <3> QED
            BY <1>1, <3>1, <3>2
    <2> QED
        BY <2>1, <2>2, <2>3 DEF IsMessage
<1>4. \A i \in 1..n : LinkedAt(msgs, i)
    BY <1>1, LinkedOfMessages DEF History
<1>5. rest # <<>> /\ Last(rest) = Last(msgs)
    <2>1. n - k + 1 \in 1..(n - k + 1) /\ k + (n - k + 1) - 1 = n
        BY <1>1
    <2> HIDE DEF rest
    <2>2. Len(rest) # 0 /\ rest[Len(rest)] = msgs[n]
        BY <1>1, <1>2, <2>1
    <2>3. rest # <<>>
        BY <2>2
    <2> QED
        BY <2>2, <2>3 DEF Last
<1> HIDE DEF n, rest
<1>6. ASSUME NEW i \in 1..(n - k + 1)
      PROVE  LinkedAt(rest, i)
    <2>1. i \in Nat /\ k + i - 1 \in 1..n /\ rest[i] = msgs[k + i - 1]
        BY <1>1, <1>2
    <2>2. CASE i = 1
        <3>1. IsRequest(rest[1])
            BY <1>1, <1>3, <2>1, <2>2
        <3> QED
            BY <2>2, <3>1, RequestIsNoReply DEF LinkedAt
    <2>3. CASE i > 1
        <3> DEFINE j == k + i - 1
        <3>1. j > 1 /\ i - 1 \in 1..(n - k + 1) /\ k + (i - 1) - 1 = j - 1
            <4>1. n \in Nat /\ k \in Nat /\ k >= 1 /\ k <= n /\ i <= n - k + 1
                BY <1>1
            <4> QED
                BY ONLY <2>1, <2>3, <4>1
        <3>2. rest[i] = msgs[j] /\ rest[i - 1] = msgs[j - 1]
            BY <1>2, <2>1, <3>1
        <3>3. LinkedAt(msgs, j)
            BY <1>4, <2>1
        <3> HIDE DEF j
        <3> QED
            BY <2>3, <3>1, <3>2, <3>3 DEF LinkedAt
    <2> QED
        BY <2>1, <2>2, <2>3
<1>7. History(rest)
    BY <1>2, <1>6, LinkedOfMessages DEF History
<1> QED
    BY <1>5, <1>7 DEF rest, n

LEMMA PruneHistory ==
    ASSUME NEW msgs, History(msgs), msgs # <<>>, NEW max \in Nat
    PROVE  LET kept == Context!Prune(msgs, max)
           IN  History(kept) /\ kept # <<>> /\ Last(kept) = Last(msgs)
<1>1. msgs \in Seq(Messages)
    BY DEF History
<1> QED
    BY <1>1, PruneFromCleanStart, HistoryFromCleanStart

-----------------------------------------------------------------------------
(***************************************************************************)
(* The messages a turn stores.                                             *)
(***************************************************************************)

ReadBlock == {b \in Block : b.kind # "result"}

LEMMA NamesOfSome ==
    ASSUME NEW s \in Seq(Block)
    PROVE  /\ NamesOf(s) \in Seq(Names) /\ Len(NamesOf(s)) = Len(s)
           /\ NamesOf(s) = <<>> <=> s = <<>>
<1>1. NamesOf(s) = [i \in 1..Len(s) |-> s[i].name]
    BY DEF NamesOf
<1>2. \A i \in 1..Len(s) : s[i].name \in Names
    <2>1. \A b \in Block : b.name \in Names
        BY DEF Block
    <2> HIDE DEF Block
    <2> QED
        BY <2>1
<1>3. NamesOf(s) \in Seq(Names) /\ Len(NamesOf(s)) = Len(s)
    BY <1>1, <1>2
<1> HIDE DEF Block
<1>4. NamesOf(s) = <<>> <=> Len(NamesOf(s)) = 0
    BY <1>3, EmptySeq
<1>5. s = <<>> <=> Len(s) = 0
    BY EmptySeq
<1> QED
    BY <1>3, <1>4, <1>5

LEMMA MessageFields ==
    ASSUME NEW role \in {"user", "assistant"}, NEW content \in Seq(Block),
           content # <<>>
    PROVE  LET m == Message(role, content)
           IN  /\ m \in Stored /\ m.role = role /\ m.content = content
               /\ m.calls = NamesOf(OfKind(content, "call"))
               /\ m.results = NamesOf(OfKind(content, "result"))
<1> DEFINE calls   == NamesOf(OfKind(content, "call"))
           results == NamesOf(OfKind(content, "result"))
<1>1. calls \in Seq(Names) /\ results \in Seq(Names)
    BY OfKindType, NamesOfSome
<1>2. Message(role, content) = [role |-> role, content |-> content,
                                calls |-> calls, results |-> results]
    BY DEF Message
<1> HIDE DEF calls, results
<1> QED
    BY <1>1, <1>2 DEF Stored, calls, results

LEMMA RequestStored ==
    ASSUME NEW n \in Nat \ {0}
    PROVE  LET m == Message("user", <<Text(n)>>)
           IN  m \in Messages /\ IsRequest(m) /\ m.role = "user"
<1>1. <<Text(n)>> \in Seq(Block) /\ <<Text(n)>> # <<>>
    BY TextIsBlock
<1> DEFINE m == Message("user", <<Text(n)>>)
<1>2. m \in Stored /\ m.role = "user" /\ m.content = <<Text(n)>>
    BY <1>1, MessageFields
<1> HIDE DEF m
<1>3. m.content[1].name[2] = n
    BY <1>2 DEF Text
<1>4. IsRequest(m)
    BY <1>2, <1>3 DEF IsRequest
<1> QED
    BY <1>2, <1>4 DEF Messages, IsMessage, m

LEMMA ResultsStored ==
    ASSUME NEW calls \in Seq(Names), calls # <<>>
    PROVE  LET m == Message("user", Answers(calls))
           IN  /\ m \in Messages /\ IsResults(m) /\ m.role = "user"
               /\ m.results = calls
<1> DEFINE content == Answers(calls)
           m == Message("user", content)
<1>1. /\ content \in Seq(Block) /\ Len(content) = Len(calls)
      /\ \A i \in 1..Len(calls) : content[i] = Answer(calls[i])
      /\ DOMAIN content = 1..Len(calls)
    BY AnswersType DEF Answers
<1>2. \A name : Answer(name).kind = "result" /\ Answer(name).name = name
    BY DEF Answer
<1>3. content # <<>>
    <2>1. Len(calls) # 0
        BY EmptySeq
    <2> HIDE DEF content
    <2> QED
        BY <1>1, <2>1, EmptySeq
<1>4. /\ m \in Stored /\ m.role = "user" /\ m.content = content
    BY <1>1, <1>3, MessageFields
<1> HIDE DEF m, content
<1>5. IsResults(m)
    <2>1. \A i \in DOMAIN content : content[i].kind = "result"
        BY <1>1, <1>2
    <2> QED
        BY <1>3, <1>4, <2>1 DEF IsResults
<1>6. m.results = NamesOf(content)
    BY <1>4, <1>5, ResultsFacts
<1>7. NamesOf(content) = calls
    <2>1. NamesOf(content) = [i \in 1..Len(calls) |-> content[i].name]
        BY <1>1 DEF NamesOf
    <2>2. \A i \in 1..Len(calls) : content[i].name = calls[i]
        BY <1>1, <1>2
    <2>3. NamesOf(content) = [i \in 1..Len(calls) |-> calls[i]]
        BY <2>1, <2>2
    <2> QED
        BY <2>3
<1> QED
    BY <1>4, <1>5, <1>6, <1>7 DEF Messages, IsMessage, m, content

LEMMA ReplyStored ==
    ASSUME NEW content \in Seq(ReadBlock), content # <<>>
    PROVE  LET m == Message("assistant", content)
           IN  /\ m \in Messages /\ IsReply(m) /\ m.results = <<>>
               /\ m.calls = NamesOf(OfKind(content, "call"))
<1> DEFINE m == Message("assistant", content)
<1>1. content \in Seq(Block)
    BY SeqMonotonic DEF ReadBlock
<1>2. /\ m \in Stored /\ m.role = "assistant" /\ m.content = content
      /\ m.calls = NamesOf(OfKind(content, "call"))
    BY <1>1, MessageFields
<1> HIDE DEF m
<1>3. IsReply(m)
    <2>1. \A i \in DOMAIN content : content[i] \in ReadBlock
        OBVIOUS
    <2> QED
        BY <1>2, <2>1 DEF IsReply, ReadBlock
<1> QED
    BY <1>2, <1>3, ReplyFacts DEF Messages, IsMessage, m

\* What a reply is read as: blocks, and no result among them.
LEMMA ReadsType ==
    ASSUME named \in Nat, NEW p \in Providers, NEW content \in Reads(p)
    PROVE  content \in Seq(ReadBlock)
<1>1. \A n \in Nat : <<"own", n>> \in Names /\ <<"server", n>> \in Names
    BY DEF Names
<1>2. \A kind \in {"text", "call", "opaque"}, name \in Names :
          [kind |-> kind, name |-> name] \in ReadBlock
    BY DEF ReadBlock, Block
<1>3. \A n \in Nat : Text(n) \in ReadBlock
    BY <1>1, <1>2 DEF Text
<1>4. \A name \in Names : Call(name) \in ReadBlock
    BY <1>2 DEF Call
<1>5. ASSUME NEW reply \in ServerReplies
      PROVE  Prose(reply) \in Seq(ReadBlock)
    BY <1>3 DEF Prose
<1>6. ASSUME NEW reply \in ServerReplies
      PROVE  reply.calls \in Seq({"server", "missing", "other"})
    BY WireAssumption
<1>7. CASE p = "anthropic"
    <2>1. PICK reply \in AnthropicReplies : content = AnthropicRead(reply)
        BY <1>7 DEF Reads
    <2>2. reply \in Seq({"text", "empty", "call", "opaque"})
        BY WireAssumption
    <2> DEFINE made(i) == IF reply[i] = "empty" THEN Text(0)
                          ELSE [kind |-> reply[i], name |-> <<"own", named + i>>]
    <2>3. ASSUME NEW i \in 1..Len(reply)
          PROVE  made(i) \in ReadBlock
        <3>1. reply[i] \in {"text", "empty", "call", "opaque"}
            BY <2>2
        <3>2. i \in Nat /\ named + i \in Nat
            BY <2>2
        <3> QED
            BY <1>1, <1>2, <1>3, <3>1, <3>2
    <2>4. DOMAIN reply = 1..Len(reply) /\ Len(reply) \in Nat
        BY <2>2
    <2>5. content = [i \in DOMAIN reply |-> made(i)]
        BY <2>1 DEF AnthropicRead
    <2> HIDE DEF made
    <2>6. content = [i \in 1..Len(reply) |-> made(i)]
        BY <2>4, <2>5
    <2> QED
        BY <2>3, <2>4, <2>6
<1>8. CASE p = "openai"
    <2>1. PICK reply \in ServerReplies : content = OpenAIRead(reply)
        BY <1>8 DEF Reads
    <2> DEFINE calls == Those(reply.calls, {"server", "missing"})
               made  == [i \in DOMAIN calls |->
                            Call(IF calls[i] = "server" THEN <<"server", i>>
                                 ELSE <<"own", named + 1 + i>>)]
    <2>2. calls \in Seq({"server", "missing"})
        BY <1>6, ThoseType
    <2>3. content = Prose(reply) \o made
        BY <2>1 DEF OpenAIRead
    <2> HIDE DEF calls
    <2>4. made \in Seq(ReadBlock)
        <3>1. ASSUME NEW i \in 1..Len(calls)
              PROVE  Call(IF calls[i] = "server" THEN <<"server", i>>
                          ELSE <<"own", named + 1 + i>>) \in ReadBlock
            <4>1. i \in Nat /\ named + 1 + i \in Nat
                BY <2>2
            <4> QED
                BY <1>1, <1>4, <4>1
        <3>2. DOMAIN calls = 1..Len(calls) /\ Len(calls) \in Nat
            BY <2>2
        <3> QED
            BY <3>1, <3>2
    <2> HIDE DEF made
    <2> QED
        BY <1>5, <2>3, <2>4, ConcatProperties
<1>9. CASE p = "text"
    <2>1. PICK reply \in ServerReplies : content = TextRead(reply)
        BY <1>9 DEF Reads
    <2> DEFINE made == [i \in DOMAIN reply.calls |->
                           Call(<<"own", named + 1 + i>>)]
    <2>2. content = Prose(reply) \o made
        BY <2>1 DEF TextRead
    <2>3. made \in Seq(ReadBlock)
        <3>1. DOMAIN reply.calls = 1..Len(reply.calls) /\ Len(reply.calls) \in Nat
            BY <1>6
        <3>2. ASSUME NEW i \in 1..Len(reply.calls)
              PROVE  Call(<<"own", named + 1 + i>>) \in ReadBlock
            <4>1. named + 1 + i \in Nat
                BY <3>1
            <4> QED
                BY <1>1, <1>4, <4>1
        <3> QED
            BY <3>1, <3>2
    <2> HIDE DEF made
    <2> QED
        BY <1>5, <2>2, <2>3, ConcatProperties
<1> QED
    BY <1>7, <1>8, <1>9 DEF Providers

-----------------------------------------------------------------------------
(***************************************************************************)
(* The invariant: TypeOK and HistoryInv, with what both say of the         *)
(* messages put as a history.                                              *)
(***************************************************************************)

Inv ==
    /\ History(messages)
    /\ provider \in Providers /\ maxLength \in MaxLengths
    /\ pc \in {"idle", "step", "model", "tools"}
    /\ wire \in Seq(WireItems)
    /\ requests \in 0..MaxRequests /\ rounds \in 0..MaxRounds
    /\ named \in Nat
    /\ pc # "idle" => messages # <<>>
    /\ messages # <<>> => (Last(messages).calls # <<>> <=> pc = "tools")
    /\ pc \in {"step", "model"} => Last(messages).role = "user"
    /\ pc = "model" => wire = Written(provider, messages)

LEMMA HistoryIsTyped ==
    ASSUME NEW msgs, History(msgs)
    PROVE  /\ msgs \in Seq([role : {"user", "assistant"}, content : Seq(Block),
                            calls : Seq(Names), results : Seq(Names)])
           /\ \A i \in DOMAIN msgs :
                  msgs[i] = Message(msgs[i].role, msgs[i].content)
                  /\ msgs[i].content # <<>>
<1>1. msgs \in Seq(Stored)
    BY SeqMonotonic DEF History, Messages
<1>2. \A i \in DOMAIN msgs : msgs[i] \in Stored
    BY <1>1
<1>3. \A m \in Stored : m = Message(m.role, m.content) /\ m.content # <<>>
    BY DEF Stored
<1>4. msgs \in Seq([role : {"user", "assistant"}, content : Seq(Block),
                   calls : Seq(Names), results : Seq(Names)])
    <2> DEFINE R == [role : {"user", "assistant"}, content : Seq(Block),
                     calls : Seq(Names), results : Seq(Names)]
    <2>1. Stored \subseteq R
        BY DEF Stored
    <2> HIDE DEF R
    <2>2. msgs \in Seq(R)
        BY <1>1, <2>1, SeqMonotonic
    <2> QED
        BY <2>2 DEF R
<1> QED
    BY <1>2, <1>3, <1>4

LEMMA InvIsBoth == Inv => TypeOK /\ HistoryInv
<1> SUFFICES ASSUME Inv PROVE TypeOK /\ HistoryInv
    OBVIOUS
<1>1. TypeOK
    <2>1. History(messages)
        BY DEF Inv
    <2>2. wire \in Seq([role : {"user", "assistant", "tool"}, content : Seq(Block)])
        BY DEF Inv, WireItems
    <2> QED
        BY <2>1, <2>2, HistoryIsTyped DEF Inv, TypeOK
<1>2. HistoryInv
    BY DEF Inv, HistoryInv, History
<1> QED
    BY <1>1, <1>2

LEMMA InvInit == Init => Inv
<1> SUFFICES ASSUME Init PROVE Inv
    OBVIOUS
<1>1. History(<<>>)
    <2>1. <<>> \in Seq(Messages)
        BY EmptySeq
    <2>2. Linked(<<>>)
        BY DEF Linked
    <2> QED
        BY <2>1, <2>2 DEF History
<1>2. <<>> \in Seq(WireItems)
    BY EmptySeq
<1>3. 0 \in 0..MaxRequests /\ 0 \in 0..MaxRounds
    BY WireAssumption
<1> QED
    BY <1>1, <1>2, <1>3 DEF Init, Inv

LEMMA InvNext == Inv /\ [Next]_vars => Inv'
<1> SUFFICES ASSUME Inv, [Next]_vars PROVE Inv'
    OBVIOUS
<1>1. /\ History(messages) /\ messages \in Seq(Messages)
      /\ requests \in Nat /\ rounds \in Nat /\ named \in Nat
      /\ maxLength \in Nat /\ MaxRequests \in Nat /\ MaxRounds \in Nat
      /\ provider \in Providers
    BY WireAssumption DEF Inv, History
\* Whatever message a handler stores makes a longer history.
<1>2. ASSUME NEW m \in Messages, Follows(m, messages)
      PROVE  LET longer == Append(messages, m)
             IN  History(longer) /\ longer # <<>> /\ Last(longer) = m
    BY <1>1, <1>2, HistoryAppend, LastOfAppend
<1>3. CASE AskUser
    <2> DEFINE m == Message("user", <<Text(named + 1)>>)
    <2>1. /\ m \in Messages /\ IsRequest(m) /\ m.role = "user"
          /\ m.calls = <<>> /\ m.results = <<>>
        <3>1. named + 1 \in Nat \ {0}
            BY <1>1
        <3>2. m \in Messages /\ IsRequest(m) /\ m.role = "user"
            BY <3>1, RequestStored
        <3> HIDE DEF m
        <3> QED
            BY <3>2, RequestFacts DEF Messages
    <2>2. messages' = Append(messages, m)
        BY <1>3 DEF AskUser
    <2> HIDE DEF m
    <2>3. Due(messages) = <<>>
        BY <1>3 DEF AskUser, Inv, Due
    <2>4. Follows(m, messages)
        BY <2>1, <2>3, RequestIsNoReply DEF Follows
    <2>5. History(messages') /\ messages' # <<>> /\ Last(messages') = m
        BY <1>2, <2>1, <2>2, <2>4
    <2>6. /\ requests + 1 \in 0..MaxRequests /\ 0 \in 0..MaxRounds
          /\ named + 1 \in Nat
        BY <1>1, <1>3 DEF AskUser
    <2> QED
        BY <1>3, <2>1, <2>5, <2>6 DEF AskUser, Inv
<1>4. CASE CallModel
    <2>1. /\ History(messages') /\ messages' # <<>>
          /\ Last(messages') = Last(messages)
        BY <1>1, <1>4, PruneHistory DEF CallModel, Inv
    <2>2. wire' = Written(provider, messages') /\ wire' \in Seq(WireItems)
        <3>1. wire' = Written(provider, messages')
            BY <1>4 DEF CallModel
        <3>2. messages' \in Seq(Messages)
            BY <2>1 DEF History
        <3> QED
            BY <1>1, <3>1, <3>2, WrittenType
    <2>3. Last(messages).role = "user" /\ Last(messages).calls = <<>>
        BY <1>4 DEF CallModel, Inv
    <2> QED
        BY <1>4, <2>1, <2>2, <2>3 DEF CallModel, Inv
<1>5. CASE CallFails
    BY <1>5 DEF CallFails, Inv
\* A reply is stored behind the user's message.
<1>6. ASSUME pc = "model", NEW content \in Reads(provider), content # <<>>
      PROVE  LET m      == Message("assistant", content)
                 longer == Append(messages, m)
             IN  /\ History(longer) /\ longer # <<>> /\ Last(longer) = m
                 /\ m.calls = <<>> <=> OfKind(content, "call") = <<>>
    <2> DEFINE m == Message("assistant", content)
    <2>1. content \in Seq(ReadBlock)
        BY <1>1, ReadsType
    <2>2. /\ m \in Messages /\ IsReply(m) /\ m.results = <<>>
          /\ m.calls = NamesOf(OfKind(content, "call"))
        BY <1>6, <2>1, ReplyStored
    <2>3. m.calls = <<>> <=> OfKind(content, "call") = <<>>
        <3>1. content \in Seq(Block)
            BY <2>1, SeqMonotonic DEF ReadBlock
        <3>2. OfKind(content, "call") \in Seq(Block)
            BY <3>1, OfKindType
        <3> HIDE DEF m
        <3> QED
            BY <2>2, <3>2, NamesOfSome
    <2> HIDE DEF m
    <2>4. /\ messages # <<>> /\ Last(messages).role = "user"
          /\ Last(messages).calls = <<>>
        BY <1>6 DEF Inv
    <2>5. Follows(m, messages)
        BY <2>2, <2>4 DEF Follows, Due
    <2> QED
        BY <1>2, <2>2, <2>3, <2>5 DEF m
<1>7. CASE FinalReply
    <2>1. PICK content \in Reads(provider) :
              /\ OfKind(content, "call") = <<>>
              /\ messages' = Kept(content)
              /\ named' = named + Len(content)
        BY <1>7 DEF FinalReply
    <2>2. named' \in Nat
        <3>1. content \in Seq(ReadBlock)
            BY <1>1, ReadsType
        <3>2. Len(content) \in Nat
            BY <3>1, LenProperties
        <3> QED
            BY <1>1, <2>1, <3>2
    <2>3. pc = "model"
        BY <1>7 DEF FinalReply
    <2>4. History(messages') /\ messages' # <<>> /\ Last(messages').calls = <<>>
        <3>1. CASE content = <<>>
            BY <1>1, <2>1, <2>3, <3>1 DEF Kept, Inv
        <3>2. CASE content # <<>>
            BY <1>6, <2>1, <2>3, <3>2 DEF Kept
        <3> QED
            BY <3>1, <3>2
    <2> QED
        BY <1>7, <2>2, <2>4 DEF FinalReply, Inv
<1>8. CASE ReplyWithCalls
    <2>1. PICK content \in Reads(provider) :
              /\ OfKind(content, "call") # <<>>
              /\ messages' = Kept(content)
              /\ named' = named + 1 + Len(content)
        BY <1>8 DEF ReplyWithCalls
    <2>2. named' \in Nat
        <3>1. content \in Seq(ReadBlock)
            BY <1>1, ReadsType
        <3>2. Len(content) \in Nat
            BY <3>1, LenProperties
        <3> QED
            BY <1>1, <2>1, <3>2
    <2>3. pc = "model" /\ content # <<>>
        BY <1>8, <2>1, OfKindOfNone DEF ReplyWithCalls
    <2>4. History(messages') /\ messages' # <<>> /\ Last(messages').calls # <<>>
        BY <1>6, <2>1, <2>3 DEF Kept
    <2>5. rounds + 1 \in 0..MaxRounds
        BY <1>1, <1>8 DEF ReplyWithCalls
    <2> QED
        BY <1>8, <2>2, <2>4, <2>5 DEF ReplyWithCalls, Inv
<1>9. CASE RunTools
    <2> DEFINE calls == Last(messages).calls
               m     == Message("user", Answers(calls))
    <2>1. pc = "tools" /\ messages # <<>> /\ calls # <<>>
        BY <1>9 DEF RunTools, Inv
    <2>2. calls \in Seq(Names)
        <3>1. Last(messages) = messages[Len(messages)]
            BY DEF Last
        <3>2. Len(messages) \in 1..Len(messages)
            BY <1>1, <2>1, EmptySeq, LenProperties
        <3>3. Last(messages) \in Messages
            BY <1>1, <3>1, <3>2
        <3> QED
            BY <3>3, StoredFields DEF Messages
    <2>3. messages' = Append(messages, m)
        BY <1>9 DEF RunTools, Answers, Answer
    <2>4. /\ m \in Messages /\ IsResults(m) /\ m.role = "user"
          /\ m.results = calls
        BY <2>1, <2>2, ResultsStored
    <2> HIDE DEF m
    <2>5. m.calls = <<>> /\ ~ IsReply(m)
        BY <2>4, ResultsFacts DEF Messages, IsReply
    <2>6. Follows(m, messages)
        BY <2>1, <2>4, <2>5 DEF Follows, Due
    <2>7. History(messages') /\ messages' # <<>> /\ Last(messages') = m
        BY <1>2, <2>3, <2>4, <2>6
    <2> QED
        BY <1>9, <2>4, <2>5, <2>7 DEF RunTools, Inv
<1>10. CASE Finished
    BY <1>10 DEF Finished, vars, Inv
<1>11. CASE UNCHANGED vars
    BY <1>11 DEF vars, Inv
<1> QED
    BY <1>3, <1>4, <1>5, <1>7, <1>8, <1>9, <1>10, <1>11 DEF Next

-----------------------------------------------------------------------------
(***************************************************************************)
(* Theorems.                                                               *)
(***************************************************************************)

LEMMA Invariance == Spec => []Inv
BY InvInit, InvNext, PTL DEF Spec

\* What the agent keeps and what an adapter has last written are typed, no
\* message is without content, and the history is one of requests, replies
\* and the results of the calls just made, whatever was pruned and whichever
\* provider read which reply (utils/agent.py, core/types.py).
THEOREM WireTypeCorrect == Spec => [](TypeOK /\ HistoryInv)
BY Invariance, InvIsBoth, PTL

\* At a model call nothing is left to be answered.
LEMMA AtModel ==
    ASSUME Inv, pc = "model"
    PROVE  /\ provider \in Providers /\ messages \in Seq(Messages)
           /\ wire = Written(provider, messages) /\ wire \in Seq(WireItems)
           /\ messages # <<>> /\ wire # <<>>
           /\ Awaits(wire, <<>>) /\ Fine(provider, wire)
           /\ Last(wire).role # "assistant"
           /\ Blocks(wire) \in Seq(Block) /\ Blocks(messages) \in Seq(Block)
<1>1. /\ provider \in Providers /\ History(messages)
      /\ messages \in Seq(Messages) /\ messages # <<>>
      /\ Last(messages).role = "user" /\ Last(messages).calls = <<>>
      /\ wire = Written(provider, messages) /\ wire \in Seq(WireItems)
    BY DEF Inv, History
<1>2. Good(provider, messages, wire)
    BY <1>1, WrittenGood
<1>3. Renamed(provider, Due(messages)) = <<>>
    BY <1>1, RenamedNone DEF Due
<1>4. Blocks(wire) \in Seq(Block) /\ Blocks(messages) \in Seq(Block)
    BY <1>1, Bearers, BlocksType
<1> QED
    BY <1>1, <1>2, <1>3, <1>4 DEF Good

\* In every request the three adapters write, of every history the agent can
\* come to, the calls of a message are followed by exactly their results, in
\* order and under the ids the calls were sent with, and there are no others
\* (_wire_id of providers/anthropic.py, _message_to_wire of
\* providers/openai_chat.py, to_text of providers/text_tools.py).
THEOREM RequestsPairOnTheWire == Spec => []WirePaired
<1>1. Inv => WirePaired
    <2> SUFFICES ASSUME Inv, pc = "model"
                 PROVE  /\ NamesOfKind(Blocks(wire), "result")
                               = NamesOfKind(Blocks(wire), "call")
                        /\ \A i \in DOMAIN wire :
                               Answered(CallsIn(wire[i].content), After(wire, i))
        BY DEF WirePaired, NamesOfKind, Answered, Answer, CallsIn, After
    <2>1. Awaits(wire, <<>>) /\ wire \in Seq(WireItems) /\ Blocks(wire) \in Seq(Block)
        BY AtModel
    <2>2. NamesOfKind(Blocks(wire), "result") \o <<>>
              = NamesOfKind(Blocks(wire), "result")
        BY <2>1, NamesOfKindType, ConcatEmptySeq
    <2>3. ASSUME NEW i \in DOMAIN wire
          PROVE  After(wire, i) \o Answers(<<>>) = After(wire, i)
        <3>1. SubSeq(wire, i + 1, Len(wire)) \in Seq(WireItems)
            BY <2>1
        <3>2. After(wire, i) \in Seq(Block)
            BY <3>1, Bearers, BlocksType DEF After
        <3> QED
            BY <3>2, AnswersOfNone, ConcatEmptySeq
    <2> QED
        BY <2>1, <2>2, <2>3 DEF Awaits
<1> QED
    BY <1>1, Invariance, PTL

\* Nothing the dialect of the provider can express is lost, doubled or moved
\* between the history and the request; the Messages API gets every block but
\* the empty text, and the other two get no block of another provider.
THEOREM NothingIsLostOnTheWire == Spec => []WireComplete
<1>1. Inv => WireComplete
    <2> SUFFICES ASSUME Inv, pc = "model" PROVE WireComplete
        BY DEF WireComplete
    <2>1. /\ provider \in Providers /\ messages \in Seq(Messages)
          /\ wire = Written(provider, messages)
          /\ Blocks(wire) \in Seq(Block) /\ Blocks(messages) \in Seq(Block)
        BY AtModel
    <2>2. Complete(provider, Blocks(wire), Blocks(messages))
        BY <2>1, WrittenComplete
    <2>3. \A kind : /\ NamesIn(wire, kind) = WireNames(Blocks(wire), kind)
                    /\ NamesIn(messages, kind) = WireNames(Blocks(messages), kind)
        BY <2>1, NamesInBlocks
    <2>4. Each(Blocks(messages), WireBlockOf)
              = [i \in DOMAIN Blocks(messages) |-> WireBlock(Blocks(messages)[i])]
        <3> DEFINE blocks == Blocks(messages)
        <3>1. blocks \in Seq(Block)
            BY <2>1
        <3> HIDE DEF blocks
        <3>2. \A i \in DOMAIN blocks : blocks[i] \in Block
            BY <3>1
        <3>3. \A i \in DOMAIN blocks : WireBlockOf[blocks[i]] = WireBlock(blocks[i])
            BY <3>2 DEF WireBlockOf
        <3>4. Each(blocks, WireBlockOf) = [i \in DOMAIN blocks |-> WireBlock(blocks[i])]
            BY <3>1, <3>3 DEF Each
        <3> QED
            BY <3>4 DEF blocks
    <2> QED
        BY <2>2, <2>3, <2>4 DEF WireComplete, Complete, Sendable
<1> QED
    BY <1>1, Invariance, PTL

\* Every request begins with the user, asks for a reply and has no empty
\* message, and no role speaks twice in a row, but for the user to Anthropic,
\* which accepts it, and the result messages of Chat Completions (pruning in
\* utils/llm.py, merging in providers/openai_chat.py and
\* providers/text_tools.py).
THEOREM RolesAlternate == Spec => []WireAlternates
<1>1. Inv => WireAlternates
    <2> SUFFICES ASSUME Inv, pc = "model" PROVE WireAlternates
        BY DEF WireAlternates
    <2>1. /\ Fine(provider, wire) /\ wire # <<>> /\ wire \in Seq(WireItems)
          /\ Last(wire).role # "assistant"
        BY AtModel
    <2>2. Head(wire) = wire[1]
        BY <2>1
    <2> QED
        BY <2>1, <2>2 DEF WireAlternates, Fine, FitItem, Allowed
<1> QED
    BY <1>1, Invariance, PTL

=============================================================================
